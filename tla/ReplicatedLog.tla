--------------------------- MODULE ReplicatedLog ---------------------------
(***************************************************************************)
(* One server's replicated_log: the threads inside log(), the heads they   *)
(* share, and the calls its owner makes when it believes to be alone.      *)
(* Paxos is seen through its results: a phase ends by itself or by its     *)
(* timeout, and a prepare may bring back a record to adopt.                *)
(*                                                                         *)
(* Each mutex section is one step, except where the owner's skip() touches *)
(* the same integer without the mutex: there every load and every store of *)
(* the -O2 build (Makefile: CFLAGS) is a step of its own.                  *)
(***************************************************************************)
EXTENDS Integers, FiniteSets

CONSTANTS
    Thread,         \* the threads that call log()
    MaxSlot,        \* paxos_log::max_size: no acceptor serves this slot or a later one
    Foreign,        \* the records that other servers may log
    BeMaster,       \* the record of the owner's own election
    None

ASSUME LogAssumption == MaxSlot \in Nat

VARIABLES
    failure, rwhead, movedhead, next_try,
    mv_window,      \* the slots marked in mv_window
    mh_mutex,       \* the thread that holds movedhead_mutex, or None
    rw_mutex,       \* the thread that holds rwhead_mutex, or None
    calls,          \* calls[t]: the frame of log() in thread t
    decided,        \* the [slot, rec] that the members have been told to learn
    file            \* the cache of the log_file: what next_record has returned

logVars == <<failure, rwhead, movedhead, next_try, mv_window, mh_mutex, rw_mutex,
             calls, decided, file>>

Slot == 0 .. MaxSlot - 1

Out == [pc |-> "out", stable |-> FALSE, rec |-> None, slot |-> 0, seq |-> -1,
        r_l |-> "OK", first |-> FALSE]

LogInit ==
    /\ failure = FALSE
    /\ rwhead = 0 /\ movedhead = 0 /\ next_try = 0
    /\ mv_window = {}
    /\ mh_mutex = None /\ rw_mutex = None
    /\ calls = [t \in Thread |-> Out]
    /\ decided = {}
    /\ file = [s \in Slot |-> None]

\* t has returned from log() with status r.
Returns(t, r) == calls[t].pc = "ret" /\ calls[t].r_l = r

At(t, pc) == calls[t].pc = pc
Goto(t, pc) == calls' = [calls EXCEPT ![t].pc = pc]
Ret(t, r) == calls' = [calls EXCEPT ![t].pc = "ret", ![t].r_l = r]

-----------------------------------------------------------------------------
(***************************************************************************)
(* log(record, stable, timeout).  EnterLog and LeaveLog, the call and the  *)
(* return, are conjuncts of an action of the owner.                        *)
(***************************************************************************)
EnterLog(t, rec, stable) ==
    calls' = [calls EXCEPT ![t] =
                 [Out EXCEPT !.pc = "failed", !.rec = rec, !.stable = stable]]
LeaveLog(t) == calls' = [calls EXCEPT ![t] = Out]

Failed(t) ==
    /\ At(t, "failed")
    /\ IF failure THEN Ret(t, "FAIL") ELSE Goto(t, "prologue")
    /\ UNCHANGED <<failure, rwhead, movedhead, next_try, mv_window, mh_mutex,
                   rw_mutex, decided, file>>

PrologueLoad(t) ==
    /\ At(t, "prologue")
    /\ mh_mutex = None
    /\ mh_mutex' = t
    /\ calls' = [calls EXCEPT ![t].pc = "store", ![t].slot = movedhead]
    /\ UNCHANGED <<failure, rwhead, movedhead, next_try, mv_window, rw_mutex,
                   decided, file>>

PrologueStore(t) ==
    /\ At(t, "store")
    /\ movedhead' = calls[t].slot + 1
    /\ mh_mutex' = None
    /\ Goto(t, "number")
    /\ UNCHANGED <<failure, rwhead, next_try, mv_window, rw_mutex, decided, file>>

PrologueNumber(t) ==
    /\ At(t, "number")
    /\ calls' = [calls EXCEPT ![t].seq = next_try,
                    ![t].pc = IF calls[t].stable THEN "accept" ELSE "prepare"]
    /\ UNCHANGED <<failure, rwhead, movedhead, next_try, mv_window, mh_mutex,
                   rw_mutex, decided, file>>

\* A prepare brings back nothing, or the record of an earlier election, the only one
\* that prepare can report (Paxos): type "3" like the caller's own.
Prepare(t) ==
    /\ At(t, "prepare")
    /\ \/ calls' = [calls EXCEPT ![t].pc = "fail", ![t].r_l = "FAIL"]
       \/ /\ calls[t].slot \in Slot
          /\ Goto(t, "accept")
       \/ /\ calls[t].slot \in Slot
          /\ calls' = [calls EXCEPT ![t].pc = "accept", ![t].r_l = "FAIL",
                                    ![t].rec = BeMaster]
    /\ UNCHANGED <<failure, rwhead, movedhead, next_try, mv_window, mh_mutex,
                   rw_mutex, decided, file>>

AcceptTimeout(t) ==
    /\ At(t, "accept")
    /\ calls' = [calls EXCEPT ![t].pc = "fail", ![t].r_l = "TIMEOUT"]
    /\ UNCHANGED <<failure, rwhead, movedhead, next_try, mv_window, mh_mutex,
                   rw_mutex, decided, file>>

\* accept() and the learn() that follows it.
AcceptLearn(t) ==
    /\ At(t, "accept")
    /\ calls[t].slot \in Slot
    /\ decided' = decided \cup {[slot |-> calls[t].slot, rec |-> calls[t].rec]}
    /\ Goto(t, IF calls[t].r_l = "OK" THEN "move" ELSE "set_failure")
    /\ UNCHANGED <<failure, rwhead, movedhead, next_try, mv_window, mh_mutex,
                   rw_mutex, file>>

\* Mutant of EpilogueFailure: `r' is read after failure is set.
EpilogueFailureLate(t) ==
    /\ At(t, "fail")
    /\ failure' = TRUE
    /\ calls' = [calls EXCEPT ![t].pc = "retry", ![t].first = TRUE]
    /\ UNCHANGED <<rwhead, movedhead, next_try, mv_window, mh_mutex, rw_mutex,
                   decided, file>>

EpilogueFailure(t) ==
    /\ At(t, "fail")
    /\ failure' = TRUE
    /\ calls' = [calls EXCEPT ![t].pc = "retry", ![t].first = ~failure]
    /\ UNCHANGED <<rwhead, movedhead, next_try, mv_window, mh_mutex, rw_mutex,
                   decided, file>>

EpilogueNextTry(t) ==
    /\ At(t, "retry")
    /\ next_try' = IF calls[t].first THEN next_try + 1 ELSE next_try
    /\ Goto(t, "ret")
    /\ UNCHANGED <<failure, rwhead, movedhead, mv_window, mh_mutex, rw_mutex,
                   decided, file>>

\* move_head: mark the slot ...
MoveMark(t) ==
    /\ At(t, "move")
    /\ rw_mutex = None
    /\ rw_mutex' = t
    /\ mv_window' = mv_window \cup {calls[t].slot}
    /\ Goto(t, "test")
    /\ UNCHANGED <<failure, rwhead, movedhead, next_try, mh_mutex, decided, file>>

\* ... and advance rwhead over the marked slots that follow it.  `slot', of no more
\* use, holds the value of rwhead that the test has loaded.
MoveTest(t) ==
    /\ At(t, "test")
    /\ IF rwhead + 1 \in mv_window
       THEN /\ calls' = [calls EXCEPT ![t].pc = "advance", ![t].slot = rwhead]
            /\ rw_mutex' = rw_mutex
       ELSE /\ Goto(t, "ret")
            /\ rw_mutex' = None
    /\ UNCHANGED <<failure, rwhead, movedhead, next_try, mv_window, mh_mutex,
                   decided, file>>

\* The increment may use the value already loaded or load it again.
MoveAdvance(t) ==
    /\ At(t, "advance")
    /\ rwhead' \in {calls[t].slot + 1, rwhead + 1}
    /\ Goto(t, "test")
    /\ UNCHANGED <<failure, movedhead, next_try, mv_window, mh_mutex, rw_mutex,
                   decided, file>>

SetFailure(t) ==
    /\ At(t, "set_failure")
    /\ failure' = TRUE
    /\ Goto(t, "ret")
    /\ UNCHANGED <<rwhead, movedhead, next_try, mv_window, mh_mutex, rw_mutex,
                   decided, file>>

LogStep(t) ==
    \/ Failed(t)
    \/ PrologueLoad(t) \/ PrologueStore(t) \/ PrologueNumber(t)
    \/ Prepare(t) \/ AcceptTimeout(t) \/ AcceptLearn(t)
    \/ EpilogueFailure(t) \/ EpilogueNextTry(t) \/ SetFailure(t)
    \/ MoveMark(t) \/ MoveTest(t) \/ MoveAdvance(t)

-----------------------------------------------------------------------------
(***************************************************************************)
(* The calls of the owner, conjuncts of its actions.                       *)
(***************************************************************************)
\* log_file::read has a record for slot s: one it returned before, one that a LEARN
\* brings, or, while nothing is decided there, one that another server logs.  The
\* file only matters where it is read, so a LEARN arrives when its slot is read.
Readable(s) ==
    IF s \notin Slot THEN {}
    ELSE IF file[s] # None THEN {file[s]}
    ELSE LET known == {d.rec : d \in {e \in decided : e.slot = s}} IN
         IF known # {} THEN known ELSE Foreign

\* next_record returned rec; redo() may then skip w slots.
NextRecord(rec, w) ==
    /\ rec \in Readable(rwhead)
    /\ file' = [file EXCEPT ![rwhead] = rec]
    /\ decided' = decided \cup {[slot |-> rwhead, rec |-> rec]}
    /\ rwhead' = rwhead + 1 + w
    /\ movedhead' = IF w = 0 THEN movedhead + 1 ELSE rwhead'
    /\ UNCHANGED <<failure, next_try, mv_window, mh_mutex, rw_mutex, calls>>

\* next_record timed out: a record learned before is never missed.
NoRecord == rwhead \notin {s \in Slot : file[s] # None}

Reset ==
    /\ failure' = FALSE
    /\ movedhead' = rwhead
    /\ mv_window' = {}
    /\ UNCHANGED <<rwhead, next_try, mh_mutex, rw_mutex, decided, file>>
=============================================================================
