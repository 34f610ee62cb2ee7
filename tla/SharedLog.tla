------------------------------ MODULE SharedLog ------------------------------
(***************************************************************************)
(* What the servers promise together: one log, each slot of it decided     *)
(* once and for all, that every server reads from its start and in order.  *)
(* A master's put is one step, whatever threads, messages, failures and    *)
(* elections it meets: it is decided, in a slot that nobody has read past, *)
(* and answered, and its master has it.                                    *)
(*                                                                         *)
(* An election begins a term window_size slots after its own.  The slots   *)
(* between are nobody's: what lands there, nobody has to read.             *)
(***************************************************************************)
EXTENDS Integers

CONSTANTS Server, Slot, Record, BeMaster, window_size

VARIABLES
    decided,    \* decided[s]: the record of slot s, if any
    read,       \* read[n]: server n has done with the slots before this one
    table,      \* table[n]: the [slot, rec] that n has applied
    answered    \* the [slot, rec] that a client was told of

lvars == <<decided, read, table, answered>>

At(s, r) == [slot |-> s, rec |-> r]

LInit ==
    /\ decided = [s \in Slot |-> {}]
    /\ read = [n \in Server |-> 0]
    /\ table = [n \in Server |-> {}]
    /\ answered = {}

Elections == {e \in Slot : BeMaster \in decided[e]}
Reserved(s) == \E e \in Elections : e < s /\ s <= e + window_size
Unread(s) == \A n \in Server : read[n] <= s

\* Nothing is left for n to do at slot s.
Done(n, s) ==
    decided[s] # {} /\ \A r \in decided[s] \ {BeMaster} : At(s, r) \in table[n]

\* n goes on, past slots that are reserved or done with.
Onward(n) ==
    /\ read' \in [Server -> Nat]
    /\ \A m \in Server \ {n} : read'[m] = read[m]
    /\ read'[n] >= read[n]
    /\ \A s \in Slot : read[n] <= s /\ s < read'[n] => Reserved(s) \/ Done(n, s)'

\* Somebody becomes master, after all that anybody has read.
Elect(s) ==
    /\ decided[s] = {} /\ Unread(s)
    /\ decided' = [decided EXCEPT ![s] = {BeMaster}]
    /\ UNCHANGED <<read, table, answered>>

\* Slot s belongs to the term that begins with slot f: no later term has begun.
InTerm(f, s) ==
    /\ f \in Nat /\ f <= s /\ f - window_size \in Elections
    /\ \A e \in Elections : f < e + window_size => s < e + window_size

Append(n, s) ==
    /\ decided[s] = {}
    /\ Unread(s) \/ Reserved(s)
    /\ \E r \in Record :
          /\ r.by = n /\ InTerm(r.first, s)
          /\ decided' = [decided EXCEPT ![s] = {r}]
          /\ answered' = answered \cup {At(s, r)}
          /\ table' = [table EXCEPT ![n] = @ \cup {At(s, r)}]
    /\ Onward(n)

Follow(n) ==
    /\ \/ UNCHANGED table
       \/ /\ read[n] \in Slot
          /\ \E r \in decided[read[n]] \ {BeMaster} :
                table' = [table EXCEPT ![n] = @ \cup {At(read[n], r)}]
    /\ Onward(n)
    /\ UNCHANGED <<decided, answered>>

LNext ==
    \/ \E s \in Slot : Elect(s)
    \/ \E n \in Server : Follow(n) \/ \E s \in Slot : Append(n, s)

LSpec == LInit /\ [][LNext]_lvars
=============================================================================
