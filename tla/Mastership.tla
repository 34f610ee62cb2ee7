----------------------------- MODULE Mastership -----------------------------
(***************************************************************************)
(* What the log promises to the servers that run for master: each slot has *)
(* at most one master, told so once and for all, and the only lease anyone *)
(* ever reads from that slot is the one this master wrote.                 *)
(***************************************************************************)
CONSTANTS Server, Slot, Lease

VARIABLES
    master,     \* master[s]: the servers told that they won slot s
    lease,      \* lease[s]: the lease they wrote
    published   \* published[s]: the leases that readers of the log may see

mvars == <<master, lease, published>>

MInit ==
    /\ master = [s \in Slot |-> {}]
    /\ lease = [s \in Slot |-> {}]
    /\ published = [s \in Slot |-> {}]

Win(n, s, r) ==
    /\ master[s] = {}
    /\ master' = [master EXCEPT ![s] = {n}]
    /\ lease' = [lease EXCEPT ![s] = {r}]
    /\ UNCHANGED published

Publish(s) ==
    /\ master[s] # {}
    /\ published' = [published EXCEPT ![s] = lease[s]]
    /\ UNCHANGED <<master, lease>>

MNext ==
    \E s \in Slot :
        \/ \E n \in Server, r \in Lease : Win(n, s, r)
        \/ Publish(s)

MSpec == MInit /\ [][MNext]_mvars
=============================================================================
