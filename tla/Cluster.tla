------------------------------- MODULE Cluster -------------------------------
(***************************************************************************)
(* The servers side by side over one log: who owns which slots, what an    *)
(* acknowledged put meets when its master fails, and what the others read. *)
(* A slot is seen through what Paxos does with it (module Paxos), a call   *)
(* of log() through its slot and its result (module ReplicatedLog).        *)
(*                                                                         *)
(* The code leans on circumstances it does not enforce.  The history       *)
(* variable broken names those that have failed so far, and the properties *)
(* are about what holds until the first of them does:                      *)
(*   "learned"  a server runs for a slot whose record has been decided, or *)
(*              logs there: not enough acceptors have had the LEARN        *)
(*   "expired"  a server runs for a slot that a master's call is at        *)
(*   "first"    the first record a master logs after skip() times out      *)
(*   "alone"    a put is logged between recover's two statements that set  *)
(*              am_i_primary and skip                                      *)
(*   "window"   a call is more than window_size slots ahead of the head    *)
(***************************************************************************)
EXTENDS Integers, FiniteSets

CONSTANTS
    Server,
    MaxSlot,        \* paxos_log::max_size: no acceptor serves this slot or a later one
    window_size,    \* the slots a new master leaves to its predecessor
    MaxCalls,       \* bound: the threads of a server that are in log() at a time
    BeMaster,       \* the record of an election
    None

ASSUME SizeAssumption ==
    MaxSlot \in Nat /\ window_size \in Nat \ {0} /\ MaxCalls \in 1 .. window_size
Slot == 0 .. MaxSlot - 1

\* What a stable log writes: its master, and the slot from which that one is master.
StableRecord == [by : Server, first : Slot \cup {None}]

ASSUME BeMasterAssumption == BeMaster \notin StableRecord

VARIABLES
    pc,             \* where the main thread of a server is
    failure, rwhead, movedhead, mv_window,
    first,          \* first[n]: the slot skip() has led master n to, or None
    calls,          \* calls[n]: the stable logs under way at n, as [slot, rec, open];
                    \* open: acceptors may still accept at "-1 @"
    local_db,       \* local_db[n]: the [slot, rec] n has applied to its table
    promised,       \* the slots a majority has promised to a server running for them
    proposed,       \* the slots with the record of a lost election at some acceptor
    chosen,         \* chosen[s]: the records that the learners were told for s
    acked,          \* the [slot, rec] whose log was answered OK
    broken          \* history: the circumstances that have failed

heads == <<rwhead, movedhead, mv_window>>
slots == <<promised, proposed, chosen>>
vars == <<pc, failure, heads, first, calls, local_db, slots, acked, broken>>

Circumstance == {"learned", "expired", "first", "alone", "window"}
Fails(circumstance, when) == IF when THEN {circumstance} ELSE {}

\* What server n logs while it is master from slot first[n] on.
Update(n) == [by |-> n, first |-> first[n]]
Entry(s, r) == [slot |-> s, rec |-> r]

Init ==
    /\ pc = [n \in Server |-> "recover"]
    /\ failure = [n \in Server |-> FALSE]
    /\ rwhead = [n \in Server |-> 0]
    /\ movedhead = [n \in Server |-> 0]
    /\ mv_window = [n \in Server |-> {}]
    /\ first = [n \in Server |-> None]
    /\ calls = [n \in Server |-> {}]
    /\ local_db = [n \in Server |-> {}]
    /\ promised = {} /\ proposed = {}
    /\ chosen = [s \in Slot |-> {}]
    /\ acked = {}
    /\ broken = {}

-----------------------------------------------------------------------------
(***************************************************************************)
(* The workers and the heartbeat: stable logs.                             *)
(***************************************************************************)
Primary(n) == pc[n] \in {"skip", "serve"}

\* Acceptors that have learned the slot's record accept no other; some may not have.
Log(n) == \E open \in BOOLEAN :
    LET s == movedhead[n] IN
    /\ Primary(n)
    /\ ~failure[n]
    /\ Cardinality(calls[n]) < MaxCalls
    /\ s \in Slot
    /\ IF open THEN s \notin promised ELSE s \in promised \/ chosen[s] # {}
    /\ movedhead' = [movedhead EXCEPT ![n] = s + 1]
    /\ calls' = [calls EXCEPT ![n] =
          @ \cup {[slot |-> s, rec |-> Update(n), open |-> open]}]
    /\ broken' = broken \cup Fails("alone", pc[n] = "skip")
                        \cup Fails("window", s > rwhead[n] + window_size)
                        \cup Fails("learned", open /\ chosen[s] # {})
    /\ UNCHANGED <<pc, failure, rwhead, mv_window, first, local_db, slots, acked>>

\* move_head: from rwhead over the marked slots that follow it.
Moved(head, marked) ==
    CHOOSE h \in head .. head + MaxSlot :
        /\ \A s \in head + 1 .. h : s \in marked
        /\ h + 1 \notin marked

LogOK(n) == \E c \in calls[n] :
    /\ c.open
    /\ calls' = [calls EXCEPT ![n] = @ \ {c}]
    /\ chosen' = [chosen EXCEPT ![c.slot] = @ \cup {c.rec}]
    /\ acked' = acked \cup {Entry(c.slot, c.rec)}
    /\ local_db' = [local_db EXCEPT ![n] = @ \cup {Entry(c.slot, c.rec)}]
    /\ mv_window' = [mv_window EXCEPT ![n] = @ \cup {c.slot}]
    /\ rwhead' = [rwhead EXCEPT ![n] = Moved(@, mv_window'[n])]
    /\ UNCHANGED <<pc, failure, movedhead, first, promised, proposed, broken>>

LogTimeout(n) == \E c \in calls[n] :
    /\ calls' = [calls EXCEPT ![n] = @ \ {c}]
    /\ failure' = [failure EXCEPT ![n] = TRUE]
    /\ broken' = broken \cup Fails("first", c.slot = first[n])
    /\ UNCHANGED <<pc, heads, first, local_db, slots, acked>>

\* Mutant of Restart: reset() goes on behind the slots that failed.
RestartBehind(n) ==
    /\ pc[n] = "serve"
    /\ failure[n] /\ calls[n] = {}
    /\ pc' = [pc EXCEPT ![n] = "recover"]
    /\ failure' = [failure EXCEPT ![n] = FALSE]
    /\ rwhead' = [rwhead EXCEPT ![n] = movedhead[n]]
    /\ mv_window' = [mv_window EXCEPT ![n] = {}]
    /\ first' = [first EXCEPT ![n] = None]
    /\ UNCHANGED <<movedhead, calls, local_db, slots, acked, broken>>

\* A failed log ends the term once every thread has left log(): restart, or epilogue's
\* am_i_primary and then the heartbeat that fails.
Restart(n) ==
    /\ pc[n] = "serve"
    /\ failure[n] /\ calls[n] = {}
    /\ pc' = [pc EXCEPT ![n] = "recover"]
    /\ failure' = [failure EXCEPT ![n] = FALSE]
    /\ movedhead' = [movedhead EXCEPT ![n] = rwhead[n]]
    /\ mv_window' = [mv_window EXCEPT ![n] = {}]
    /\ first' = [first EXCEPT ![n] = None]
    /\ UNCHANGED <<rwhead, calls, local_db, slots, acked, broken>>

-----------------------------------------------------------------------------
(***************************************************************************)
(* The main thread: recover, to_be_master, skip.                           *)
(***************************************************************************)
Advance(n, k) ==
    /\ rwhead' = [rwhead EXCEPT ![n] = @ + k]
    /\ movedhead' = [movedhead EXCEPT ![n] = rwhead[n] + k]

\* Mutant of Redo: the reader goes on in the slot after an election.
RedoSkipsNothing(n) ==
    /\ pc[n] = "recover"
    /\ rwhead[n] \in Slot
    /\ \E rec \in chosen[rwhead[n]] :
          /\ Advance(n, 1)
          /\ IF rec = BeMaster THEN UNCHANGED local_db
             ELSE local_db' = [local_db EXCEPT ![n] = @ \cup {Entry(rwhead[n], rec)}]
    /\ UNCHANGED <<pc, failure, mv_window, first, calls, slots, acked, broken>>

Redo(n) ==
    /\ pc[n] = "recover"
    /\ rwhead[n] \in Slot
    /\ \E rec \in chosen[rwhead[n]] :
          IF rec = BeMaster
          THEN Advance(n, 1 + window_size) /\ UNCHANGED local_db
          ELSE /\ Advance(n, 1)
               /\ local_db' = [local_db EXCEPT ![n] = @ \cup {Entry(rwhead[n], rec)}]
    /\ UNCHANGED <<pc, failure, mv_window, first, calls, slots, acked, broken>>

\* prepare() of the election: a majority promises, and refuses "-1 @" from then on.
ToBeMaster(n) ==
    LET s == rwhead[n] IN
    /\ pc[n] = "recover"
    /\ s \in Slot
    /\ pc' = [pc EXCEPT ![n] = "to_be_master"]
    /\ promised' = promised \cup {s}
    /\ broken' = broken \cup Fails("learned", chosen[s] # {})
          \cup Fails("expired", \E m \in Server : \E c \in calls[m] : c.slot = s)
    /\ UNCHANGED <<failure, heads, first, calls, local_db, proposed, chosen, acked>>

\* Its record is the first that a majority accepts: others find it, and adopt it.
Won(n) ==
    LET s == rwhead[n] IN
    /\ pc[n] = "to_be_master"
    /\ BeMaster \notin chosen[s]
    /\ pc' = [pc EXCEPT ![n] = "skip"]
    /\ movedhead' = [movedhead EXCEPT ![n] = s + 1]
    /\ mv_window' = [mv_window EXCEPT ![n] = {s}]
    /\ chosen' = [chosen EXCEPT ![s] = @ \cup {BeMaster}]
    /\ broken' = broken \cup Fails("learned", chosen[s] # {})
    /\ UNCHANGED <<failure, rwhead, first, calls, local_db, promised, proposed, acked>>

\* Lost, by a timeout, which may leave the record at an acceptor, or by adopting what
\* another election has left there.  to_be_master resets, which puts the heads back.
Lost(n) ==
    LET s == rwhead[n] IN
    /\ pc[n] = "to_be_master"
    /\ pc' = [pc EXCEPT ![n] = "recover"]
    /\ \/ UNCHANGED <<proposed, chosen>>
       \/ proposed' = proposed \cup {s} /\ UNCHANGED chosen
       \/ /\ s \in proposed
          /\ chosen' = [chosen EXCEPT ![s] = @ \cup {BeMaster}]
          /\ UNCHANGED proposed
    /\ UNCHANGED <<failure, heads, first, calls, local_db, promised, acked, broken>>

\* Mutant of Skip: the new master goes on in the slot after its election.
SkipNothing(n) ==
    /\ pc[n] = "skip"
    /\ Advance(n, 1)
    /\ first' = [first EXCEPT ![n] = rwhead'[n]]
    /\ pc' = [pc EXCEPT ![n] = "serve"]
    /\ UNCHANGED <<failure, mv_window, calls, local_db, slots, acked, broken>>

\* Mutant of Skip: movedhead is left behind.
SkipReadsOnly(n) ==
    /\ pc[n] = "skip"
    /\ rwhead' = [rwhead EXCEPT ![n] = @ + window_size]
    /\ first' = [first EXCEPT ![n] = rwhead'[n]]
    /\ pc' = [pc EXCEPT ![n] = "serve"]
    /\ UNCHANGED <<failure, movedhead, mv_window, calls, local_db, slots, acked,
                   broken>>

Skip(n) ==
    /\ pc[n] = "skip"
    /\ Advance(n, window_size)
    /\ first' = [first EXCEPT ![n] = rwhead'[n]]
    /\ pc' = [pc EXCEPT ![n] = "serve"]
    /\ UNCHANGED <<failure, mv_window, calls, local_db, slots, acked, broken>>

Next == \E n \in Server :
    \/ Log(n) \/ LogOK(n) \/ LogTimeout(n) \/ Restart(n)
    \/ Redo(n) \/ ToBeMaster(n) \/ Won(n) \/ Lost(n) \/ Skip(n)

Spec == Init /\ [][Next]_vars

-----------------------------------------------------------------------------
\* Nothing that the code leans on has failed so far.  What is broken stays broken, so that
\* a formula "Sound => P" says: before P fails, one of the circumstances has.
Sound == broken = {}

Types ==
    /\ pc \in [Server -> {"recover", "to_be_master", "skip", "serve"}]
    /\ failure \in [Server -> BOOLEAN]
    /\ rwhead \in [Server -> Nat] /\ movedhead \in [Server -> Nat]
    /\ mv_window \in [Server -> SUBSET Slot]
    /\ first \in [Server -> Nat \cup {None}]
    /\ calls \in [Server -> SUBSET [slot : Slot, rec : StableRecord, open : BOOLEAN]]
    /\ acked \subseteq [slot : Slot, rec : StableRecord]
    /\ local_db \in [Server -> SUBSET [slot : Slot, rec : StableRecord]]
    /\ promised \subseteq Slot /\ proposed \subseteq Slot
    /\ chosen \in [Slot -> SUBSET (StableRecord \cup {BeMaster})]

HeadsInOrder == \A n \in Server : rwhead[n] <= movedhead[n]

\* Types, and the order of the heads: what is logged next is never behind what is read.
TypeOK == Types /\ broken \subseteq Circumstance /\ (Sound => HeadsInOrder)

\* The master that logged e had logged every slot of its term before it: no hole.
Unbroken(e) ==
    e.rec.first # None /\ \A s \in e.rec.first .. e.slot : Entry(s, e.rec) \in acked

Passed(e) == {n \in Server : rwhead[n] > e.slot}

\* Until a circumstance fails, what a master has acknowledged behind no hole outlives it:
\* every server whose head goes past it, to follow the next master or to be it, has it in
\* its table.  All but the first record of a term, which EveryRecordRead is about.
SurvivesTerm == Sound =>
    \A e \in acked : Unbroken(e) /\ e.slot > e.rec.first
        => \A n \in Passed(e) : e \in local_db[n]

\* Until a circumstance fails, one record is decided per slot, although the masters of two
\* terms write at the same ballot "-1 @" and an election never looks at what that ballot
\* has accepted: the slots that a new master skips keep its stable logs apart from its
\* predecessor's.
OneRecordPerSlot == Sound => \A s \in Slot : Cardinality(chosen[s]) <= 1

\* If no circumstance fails a server reads every record that has been logged before it
\* runs for master, from the first (test/replicated_log/main_3.cc:101-102, B reads A's
\* election and then rds[1], the first record that A has logged as master).
EveryRecordRead == Sound =>
    \A e \in acked : Unbroken(e) => \A n \in Passed(e) : e \in local_db[n]

-----------------------------------------------------------------------------
Shared == INSTANCE SharedLog WITH
    Record <- StableRecord, decided <- chosen, read <- rwhead, table <- local_db,
    answered <- acked

\* Every step after which no circumstance has failed is one of a shared log, or none: all
\* the servers together are one log that is decided slot by slot and read in order.  No
\* write of an old master lands in the term of the next, or in a slot that somebody
\* has read past; no head passes a slot of a term before its record is decided and
\* applied.
ImplementsSharedLog ==
    Shared!LInit /\ [][Sound' => [Shared!LNext]_(Shared!lvars)]_vars
=============================================================================
