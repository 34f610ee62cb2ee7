-------------------------- MODULE KvsServerProofs --------------------------
(***************************************************************************)
(* Theorems about KvsServer, for any clients, keys, values and window:     *)
(* SInv is inductive, and the safety properties follow from it.            *)
(***************************************************************************)
EXTENDS KvsServerInvariant, FiniteSetTheorems, TLAPS

\* The threads: the workers, and another one.
LEMMA Threads ==
    /\ Main \in Thread
    /\ \A c \in Client : c \in Thread /\ c # Main
    /\ \A t \in Thread : t = Main \/ t \in Client
BY ThreadAssumption

\* A worker logs a record; an election is no update.
LEMMA Records ==
    /\ \A c \in Client, v \in Value : Update(c, v) \in Record
    /\ BeMaster \in Record /\ Heartbeat \in Record /\ BeMaster.type # "UPDATE"
    /\ Heartbeat.type # "UPDATE"
BY KeyAssumption, RecordAssumption DEF Update, Record, Heartbeat

\* A frame that log() is called with.
Entered(r, st) == [Out EXCEPT !.pc = "failed", !.rec = r, !.stable = st]

\* A new frame has its type.
LEMMA FrameTypes ==
    /\ Out \in Frame
    /\ \A r \in FrameRecord, st \in BOOLEAN : Entered(r, st) \in Frame
<1>1. None \in FrameRecord
  BY DEF FrameRecord
<1>2. Out \in Frame
  BY <1>1 DEF Frame, Out
<1> QED BY <1>2 DEF Frame, Entered

-----------------------------------------------------------------------------
(***************************************************************************)
(* What a step does to the frames of log().                                *)
(***************************************************************************)
\* A step of log() in t: its frame stays one, a stable call keeps its record, and
\* nothing that was decided or has failed is undone.
LEMMA LogStepFrame ==
    ASSUME SInv, NEW t \in Thread, LogStep(t)
    PROVE  /\ calls' = [calls EXCEPT ![t] = calls'[t]] /\ calls'[t] \in Frame
           /\ ~At(t, "out") /\ ~At(t, "out")'
           /\ calls'[t].stable = calls[t].stable
           /\ calls'[t].rec = calls[t].rec \/ (~calls[t].stable /\ calls'[t].rec = BeMaster)
           /\ decided \subseteq decided' /\ \A d \in decided' : d.rec \in Record
           /\ failure => failure'
           /\ file' = file
<1> USE DEF At, Goto, Ret
<1>0. /\ calls \in [Thread -> Frame] /\ calls[t] \in Frame
      /\ next_try \in Nat /\ movedhead \in Nat /\ rwhead \in Nat
      /\ \A d \in decided : d.rec \in Record
      /\ ~At(t, "out") => calls[t].rec \in Record
  BY DEF SInv, TypeOK, RecordInv
<1>1. CASE Failed(t)
  BY <1>0, <1>1 DEF Failed, Frame
<1>2. CASE PrologueLoad(t)
  BY <1>0, <1>2 DEF PrologueLoad, Frame
<1>3. CASE PrologueStore(t)
  BY <1>0, <1>3 DEF PrologueStore, Frame
<1>4. CASE PrologueNumber(t)
  BY <1>0, <1>4 DEF PrologueNumber, Frame
<1>5. CASE Prepare(t)
  <2>1. ~calls[t].stable
    BY <1>5 DEF SInv, FrameInv, Prepare
  <2> QED BY <1>0, <1>5, <2>1 DEF Prepare, Frame
<1>6. CASE AcceptTimeout(t)
  BY <1>0, <1>6 DEF AcceptTimeout, Frame
<1>7. CASE AcceptLearn(t)
  BY <1>0, <1>7 DEF AcceptLearn, Frame
<1>8. CASE EpilogueFailure(t)
  BY <1>0, <1>8 DEF EpilogueFailure, Frame
<1>9. CASE EpilogueNextTry(t)
  BY <1>0, <1>9 DEF EpilogueNextTry, Frame
<1>10. CASE SetFailure(t)
  BY <1>0, <1>10 DEF SetFailure, Frame
<1>11. CASE MoveMark(t)
  BY <1>0, <1>11 DEF MoveMark, Frame
<1>12. CASE MoveTest(t)
  BY <1>0, <1>12 DEF MoveTest, Frame
<1>13. CASE MoveAdvance(t)
  BY <1>0, <1>13 DEF MoveAdvance, Frame
<1> QED BY <1>1, <1>2, <1>3, <1>4, <1>5, <1>6, <1>7, <1>8, <1>9, <1>10, <1>11, <1>12,
           <1>13 DEF LogStep

\* The calls of log(), and the returns.
Enters(t) == \E r \in FrameRecord \cap Record, st \in BOOLEAN :
    At(t, "out") /\ EnterLog(t, r, st) /\ UNCHANGED <<failure, next_try, decided, file>>
Leaves(t) == At(t, "ret") /\ LeaveLog(t) /\ UNCHANGED <<failure, next_try, decided, file>>

\* The log as it is before a term, which nobody is inside of.
Cleared ==
    /\ Busy = {}
    /\ calls' = [t \in Thread |-> Out]
    /\ failure' = FALSE
    /\ UNCHANGED <<next_try, decided, file>>

\* No frame changes; the log was read, or nothing happened to it.
Reads ==
    /\ UNCHANGED <<calls, failure, next_try>>
    /\ decided \subseteq decided' /\ \A d \in decided' : d.rec \in Record
    /\ file' \in [Slot -> Record \cup {None}]

\* When no worker is busy and the main thread is not in log(), nobody is.
LEMMA AllOut ==
    ASSUME SInv, Busy = {}
    PROVE  \A t \in Thread : t # Main => At(t, "out") /\ calls[t] = Out
<1> TAKE t \in Thread
<1> HAVE t # Main
<1>1. t \in Client /\ Is(t, "idle")
  BY Threads DEF Busy
<1>2. At(t, "out")
  BY <1>1 DEF SInv, WorkerInv, WorkerFine, Is
<1> QED BY <1>2 DEF SInv, RecordInv

\* A record that can be read is one that some server logs.
LEMMA ReadableRecords ==
    ASSUME SInv, NEW rec \in Readable(rwhead)
    PROVE  rec \in Record /\ rwhead \in Slot
<1>1. rwhead \in Slot
  BY DEF Readable
<1>2. CASE file[rwhead] # None
  BY <1>1, <1>2 DEF Readable, SInv, RecordInv
<1>3. CASE file[rwhead] = None
  <2> DEFINE known == {d.rec : d \in {e \in decided : e.slot = rwhead}}
  <2>1. rec \in IF known # {} THEN known ELSE Foreign
    BY <1>1, <1>3 DEF Readable
  <2>2. known \subseteq Record /\ Foreign \subseteq Record
    BY RecordAssumption DEF SInv, RecordInv
  <2> QED BY <1>1, <2>1, <2>2
<1> QED BY <1>2, <1>3

\* Every step is one of these, as far as the frames go.
LEMMA FrameKinds ==
    ASSUME SInv, [Next]_vars
    PROVE  (\E t \in Thread : LogStep(t) \/ Enters(t) \/ Leaves(t)) \/ Cleared \/ Reads
<1>0. /\ \A d \in decided : d.rec \in Record
      /\ file \in [Slot -> Record \cup {None}]
      /\ calls \in [Thread -> Frame]
  BY DEF SInv, TypeOK, RecordInv
<1>1. CASE UNCHANGED vars
  BY <1>0, <1>1 DEF vars, logVars, Reads
<1>2. ASSUME NEW c \in Client, Serve(c)
      PROVE  LogStep(c) \/ Enters(c) \/ Leaves(c) \/ Reads
  <2>1. CASE Get(c) \/ PutLock(c) \/ PutUpdate(c) \/ Epilogue(c)
    BY <1>0, <2>1 DEF Get, PutLock, PutUpdate, Epilogue, logVars, Reads
  <2>2. CASE LogPrologue(c)
    <3>1. CASE UNCHANGED calls
      BY <1>0, <2>2, <3>1 DEF LogPrologue, Reads
    <3>2. CASE EnterLog(c, Update(c, worker[c].val), TRUE)
      <4>1. At(c, "out") /\ worker[c].val \in Value
        BY <2>2 DEF LogPrologue, SInv, WorkerInv, WorkerFine, Is
      <4>2. Update(c, worker[c].val) \in FrameRecord \cap Record
        BY <4>1, Records DEF FrameRecord
      <4> QED BY <2>2, <3>2, <4>1, <4>2 DEF LogPrologue, Enters
    <3> QED BY <2>2, <3>1, <3>2 DEF LogPrologue
  <2>3. CASE LogStep(c)
    BY <2>3
  <2>4. CASE LogEpilogue(c)
    BY <2>4 DEF LogEpilogue, Leaves
  <2> QED BY <1>2, <2>1, <2>2, <2>3, <2>4 DEF Serve
<1>3. ASSUME NEW c \in Client, Request(c)
      PROVE  Reads
  BY <1>0, <1>3 DEF Request, NotPrimary, Prologue, logVars, Reads
<1>4. CASE MainStep
  <2> USE Threads
  <2>1. CASE Redo
    <3>1. PICK rec \in Readable(rwhead) :
             NextRecord(rec, IF rec = BeMaster THEN window_size ELSE 0)
      BY <2>1 DEF Redo
    <3>2. rec \in Record
      BY <3>1, ReadableRecords
    <3>3. /\ file' = [file EXCEPT ![rwhead] = rec]
          /\ decided' = decided \cup {[slot |-> rwhead, rec |-> rec]}
          /\ UNCHANGED <<calls, failure, next_try>>
      BY <3>1 DEF NextRecord
    <3>4. \A d \in decided' : d.rec \in Record
      BY <1>0, <3>2, <3>3
    <3>5. file' \in [Slot -> Record \cup {None}]
      BY <1>0, <3>2, <3>3
    <3> QED BY <3>3, <3>4, <3>5 DEF Reads
  <2>2. CASE ToBeMaster
    <3>1. At(Main, "out")
      BY <2>2 DEF ToBeMaster, SInv, MainInv
    <3>2. BeMaster \in FrameRecord \cap Record
      BY Records DEF FrameRecord
    <3>3. EnterLog(Main, BeMaster, FALSE) /\ UNCHANGED <<failure, next_try, decided, file>>
      BY <2>2 DEF ToBeMaster
    <3> QED BY <3>1, <3>2, <3>3 DEF Enters
  <2>3. CASE Lost
    <3>1. Busy = {}
      BY <2>3 DEF Lost, SInv, MainInv
    <3>2. calls' = [calls EXCEPT ![Main] = Out]
      BY <2>3 DEF Lost, LeaveLog
    <3>3. calls' = [t \in Thread |-> Out]
      BY <1>0, <3>1, <3>2, AllOut
    <3> QED BY <2>3, <3>1, <3>3 DEF Lost, Reset, Cleared
  <2>4. CASE Won \/ Beaten
    BY <2>4 DEF Won, Beaten, Returns, At, Leaves
  <2>5. CASE SkipLoad \/ SkipStore
    BY <1>0, <2>5 DEF SkipLoad, SkipStore, logVars, Reads
  <2>6. CASE LogStep(Main)
    BY <2>6
  <2>7. CASE DoHeartbeat
    <3>1. CASE UNCHANGED calls
      BY <1>0, <2>7, <3>1 DEF DoHeartbeat, Reads
    <3>2. CASE EnterLog(Main, Heartbeat, TRUE)
      <4>1. At(Main, "out")
        BY <2>7 DEF DoHeartbeat, SInv, MainInv
      <4>2. Heartbeat \in FrameRecord \cap Record
        BY Records DEF FrameRecord
      <4>3. UNCHANGED <<failure, next_try, decided, file>>
        BY <2>7 DEF DoHeartbeat
      <4> QED BY <3>2, <4>1, <4>2, <4>3 DEF Enters
    <3> QED BY <2>7, <3>1, <3>2 DEF DoHeartbeat
  <2>8. CASE Restart
    <3>1. CASE client_number # 0
      BY <1>0, <2>8, <3>1 DEF Restart, Reads
    <3>2. CASE client_number = 0
      <4>1. Busy = {}
        <5>1. IsFiniteSet(Busy)
          BY ClientAssumption, FS_Subset DEF Busy
        <5> QED BY <3>2, <5>1, FS_EmptySet DEF SInv, CountInv
      <4>2. calls[Main] = Out
        BY <2>8 DEF Restart, SInv, MainInv, RecordInv
      <4>3. calls' = [t \in Thread |-> Out]
        BY <1>0, <2>8, <4>1, <4>2, AllOut DEF Restart
      <4> QED BY <2>8, <3>2, <4>1, <4>3 DEF Restart, Reset, Cleared
    <3> QED BY <3>1, <3>2
  <2> QED BY <1>4, <2>1, <2>2, <2>3, <2>4, <2>5, <2>6, <2>7, <2>8 DEF MainStep
<1> QED BY <1>1, <1>2, <1>3, <1>4, Threads DEF Next

-----------------------------------------------------------------------------
(***************************************************************************)
(* The frames keep their part of the invariant.                            *)
(***************************************************************************)
\* Records stay among those that are logged, and frames keep their type.
LEMMA NextRecords == SInv /\ [Next]_vars => RecordInv' /\ calls' \in [Thread -> Frame]
<1> SUFFICES ASSUME SInv, [Next]_vars PROVE RecordInv' /\ calls' \in [Thread -> Frame]
  OBVIOUS
<1>0. RecordInv /\ calls \in [Thread -> Frame]
  BY DEF SInv, TypeOK
<1>1. ASSUME NEW t \in Thread, LogStep(t) PROVE RecordInv' /\ calls' \in [Thread -> Frame]
  <2>1. /\ calls' = [calls EXCEPT ![t] = calls'[t]] /\ calls'[t] \in Frame
        /\ ~At(t, "out") /\ ~At(t, "out")'
        /\ calls'[t].rec = calls[t].rec \/ calls'[t].rec = BeMaster
        /\ \A d \in decided' : d.rec \in Record
        /\ file' = file
    BY <1>1, LogStepFrame
  <2>2. calls'[t].rec \in Record
    BY <1>0, <2>1, Records DEF RecordInv
  <2> QED BY <1>0, <2>1, <2>2 DEF RecordInv, At
<1>2. ASSUME NEW t \in Thread, Enters(t) PROVE RecordInv' /\ calls' \in [Thread -> Frame]
  <2>1. PICK r \in FrameRecord \cap Record, st \in BOOLEAN :
           calls' = [calls EXCEPT ![t] = Entered(r, st)]
    BY <1>2 DEF Enters, EnterLog, Entered
  <2>2. Entered(r, st) \in Frame
    BY FrameTypes
  <2>3. Entered(r, st).pc = "failed" /\ Entered(r, st).rec = r
    BY DEF Entered, Out
  <2>4. UNCHANGED <<decided, file>>
    BY <1>2 DEF Enters
  <2> QED BY <1>0, <2>1, <2>2, <2>3, <2>4 DEF RecordInv, At
<1>3. ASSUME NEW t \in Thread, Leaves(t) PROVE RecordInv' /\ calls' \in [Thread -> Frame]
  BY <1>0, <1>3, FrameTypes DEF Leaves, LeaveLog, RecordInv, At, Out
<1>4. CASE Cleared
  BY <1>0, <1>4, FrameTypes DEF Cleared, RecordInv, At, Out
<1>5. CASE Reads
  BY <1>0, <1>5 DEF Reads, RecordInv, At
<1> QED BY <1>1, <1>2, <1>3, <1>4, <1>5, FrameKinds

\* A step of log() keeps what its own frame says, and takes nothing from the others.
LEMMA LogStepFrames == ASSUME SInv, NEW t \in Thread, LogStep(t) PROVE FrameInv'
<1> USE DEF At, Goto, Ret
<1>0. /\ calls \in [Thread -> Frame] /\ calls[t] \in Frame /\ FrameInv
  BY DEF SInv, TypeOK
<1>1. /\ calls' = [calls EXCEPT ![t] = calls'[t]]
      /\ decided \subseteq decided' /\ (failure => failure')
  BY LogStepFrame
<1> DEFINE Fine(f) ==
      /\ f.stable => f.pc # "prepare"
      /\ f.pc \in {"move", "test", "advance"} => f.r_l = "OK"
      /\ f.pc \in {"fail", "retry", "set_failure"} => f.r_l # "OK"
      /\ f.pc = "retry" \/ (f.pc = "ret" /\ f.r_l # "OK") => failure'
      /\ f.pc \in {"move", "test", "advance", "ret"} /\ f.r_l = "OK" =>
            \E d \in decided' : d.rec = f.rec
<1>2. Fine(calls'[t])
  <2>0. /\ calls[t].stable => ~At(t, "prepare")
        /\ calls[t].pc \in {"move", "test", "advance"} => calls[t].r_l = "OK"
        /\ calls[t].pc \in {"fail", "retry", "set_failure"} => calls[t].r_l # "OK"
        /\ At(t, "retry") \/ (At(t, "ret") /\ calls[t].r_l # "OK") => failure
        /\ calls[t].pc \in {"move", "test", "advance", "ret"} /\ calls[t].r_l = "OK" =>
              \E d \in decided : d.rec = calls[t].rec
    BY <1>0 DEF FrameInv
  <2>1. CASE Failed(t) \/ PrologueLoad(t) \/ PrologueStore(t) \/ PrologueNumber(t)
    BY <1>0, <2>0, <2>1 DEF Failed, PrologueLoad, PrologueStore, PrologueNumber, Frame
  <2>2. CASE Prepare(t) \/ AcceptTimeout(t)
    BY <1>0, <2>0, <2>2 DEF Prepare, AcceptTimeout, Frame
  <2>3. CASE AcceptLearn(t)
    <3>1. [slot |-> calls[t].slot, rec |-> calls[t].rec] \in decided'
      BY <2>3 DEF AcceptLearn
    <3>2. calls'[t] = [calls[t] EXCEPT !.pc = IF calls[t].r_l = "OK" THEN "move"
                                              ELSE "set_failure"]
      BY <1>0, <2>3 DEF AcceptLearn
    <3> QED BY <1>0, <3>1, <3>2 DEF Frame
  <2>4. CASE EpilogueFailure(t) \/ EpilogueNextTry(t) \/ SetFailure(t)
    BY <1>0, <2>0, <2>4 DEF EpilogueFailure, EpilogueNextTry, SetFailure, Frame
  <2>5. CASE MoveMark(t) \/ MoveTest(t) \/ MoveAdvance(t)
    <3>1. decided' = decided /\ calls'[t].rec = calls[t].rec /\ calls'[t].r_l = "OK"
          /\ calls'[t].pc \in {"test", "advance", "ret"}
      BY <1>0, <2>0, <2>5 DEF MoveMark, MoveTest, MoveAdvance, Frame
    <3>2. calls[t].pc \in {"move", "test", "advance"}
      BY <2>5 DEF MoveMark, MoveTest, MoveAdvance
    <3> QED BY <2>0, <3>1, <3>2
  <2> QED BY <2>1, <2>2, <2>3, <2>4, <2>5 DEF LogStep
<1>3. \A u \in Thread : Fine(calls'[u])
  <2> TAKE u \in Thread
  <2>1. CASE u = t
    BY <1>2, <2>1
  <2>2. CASE u # t
    <3>1. calls'[u] = calls[u]
      BY <1>0, <1>1, <2>2
    <3> QED BY <1>0, <1>1, <3>1 DEF FrameInv
  <2> QED BY <2>1, <2>2
<1> QED BY <1>3 DEF FrameInv

\* A call, a return, a reset or a read leaves the other frames as they are.
LEMMA NextFrames == SInv /\ [Next]_vars => FrameInv'
<1> SUFFICES ASSUME SInv, [Next]_vars PROVE FrameInv'
  OBVIOUS
<1>0. FrameInv /\ calls \in [Thread -> Frame]
  BY DEF SInv, TypeOK
<1>1. ASSUME NEW t \in Thread, Enters(t) PROVE FrameInv'
  BY <1>0, <1>1 DEF Enters, EnterLog, Out, FrameInv, At
<1>2. ASSUME NEW t \in Thread, Leaves(t) PROVE FrameInv'
  BY <1>0, <1>2 DEF Leaves, LeaveLog, Out, FrameInv, At
<1>3. CASE Cleared
  BY <1>3 DEF Cleared, FrameInv, At, Out
<1>4. CASE Reads
  BY <1>0, <1>4 DEF Reads, FrameInv, At
<1> QED BY <1>1, <1>2, <1>3, <1>4, LogStepFrames, FrameKinds

\* One retry a term: the thread that finds failure unset is the only one, and as long as
\* it has not added its one every number in use is the present one.
LEMMA LogStepTries == ASSUME SInv, NEW t \in Thread, LogStep(t) PROVE TryInv'
<1> USE DEF At, Goto, Ret
<1>0. /\ calls \in [Thread -> Frame] /\ calls[t] \in Frame /\ next_try \in Nat
      /\ failure \in BOOLEAN
      /\ TryInv /\ \A u \in Thread : At(u, "retry") => failure
  BY DEF SInv, TypeOK, FrameInv
<1>1. calls' = [calls EXCEPT ![t] = calls'[t]] /\ (failure => failure')
  BY LogStepFrame
<1>2. \A u \in Thread : u # t => calls'[u] = calls[u]
  BY <1>0, <1>1
<1>3. CASE UNCHANGED <<failure, next_try>> /\ ~At(t, "retry")' /\ ~At(t, "retry")
           /\ calls'[t].seq \in {calls[t].seq, next_try}
  BY <1>0, <1>2, <1>3 DEF TryInv, Retries
<1>4. CASE Failed(t) \/ PrologueLoad(t) \/ PrologueStore(t) \/ PrologueNumber(t)
  <2>1. UNCHANGED <<failure, next_try>> /\ calls'[t].seq \in {calls[t].seq, next_try}
    BY <1>0, <1>4 DEF Failed, PrologueLoad, PrologueStore, PrologueNumber, Frame
  <2>2. ~At(t, "retry")' /\ ~At(t, "retry")
    BY <1>0, <1>4 DEF Failed, PrologueLoad, PrologueStore, PrologueNumber, Frame
  <2> QED BY <1>3, <2>1, <2>2
<1>5. CASE Prepare(t) \/ AcceptTimeout(t) \/ AcceptLearn(t)
  <2>1. UNCHANGED <<failure, next_try>> /\ calls'[t].seq = calls[t].seq
    BY <1>0, <1>5 DEF Prepare, AcceptTimeout, AcceptLearn, Frame
  <2>2. ~At(t, "retry")' /\ ~At(t, "retry")
    BY <1>0, <1>5 DEF Prepare, AcceptTimeout, AcceptLearn, Frame
  <2> QED BY <1>3, <2>1, <2>2
<1>6. CASE MoveMark(t) \/ MoveTest(t) \/ MoveAdvance(t)
  <2>1. UNCHANGED <<failure, next_try>> /\ calls'[t].seq = calls[t].seq
    BY <1>0, <1>6 DEF MoveMark, MoveTest, MoveAdvance, Frame
  <2>2. ~At(t, "retry")' /\ ~At(t, "retry")
    BY <1>0, <1>6 DEF MoveMark, MoveTest, MoveAdvance, Frame
  <2> QED BY <1>3, <2>1, <2>2
<1>7. CASE SetFailure(t)
  <2>1. /\ failure' = TRUE /\ next_try' = next_try /\ calls'[t].seq = calls[t].seq
        /\ ~At(t, "retry")' /\ ~At(t, "retry")
    BY <1>0, <1>7 DEF SetFailure, Frame
  <2> QED BY <1>0, <1>2, <2>1 DEF TryInv, Retries
<1>8. CASE EpilogueFailure(t)
  <2>1. /\ failure' = TRUE /\ next_try' = next_try /\ calls'[t].seq = calls[t].seq
        /\ ~At(t, "retry") /\ calls'[t].first = ~failure
    BY <1>0, <1>8 DEF EpilogueFailure, Frame
  <2>2. CASE failure
    BY <1>0, <1>2, <2>1, <2>2 DEF TryInv, Retries
  <2>3. CASE ~failure
    BY <1>0, <1>2, <2>1, <2>3 DEF TryInv, Retries
  <2> QED BY <2>2, <2>3
<1>9. CASE EpilogueNextTry(t)
  <2>1. /\ failure' = failure /\ calls'[t].seq = calls[t].seq
        /\ At(t, "retry") /\ ~At(t, "retry")'
        /\ next_try' = IF calls[t].first THEN next_try + 1 ELSE next_try
    BY <1>0, <1>9 DEF EpilogueNextTry, Frame
  <2>2. failure
    BY <1>0, <2>1
  <2>3. CASE calls[t].first
    <3>1. Retries(t) /\ next_try' = next_try + 1
      BY <2>1, <2>3 DEF Retries
    <3>2. \A u \in Thread : ~Retries(u)'
      BY <1>0, <1>2, <2>1, <3>1 DEF TryInv, Retries
    <3>3. \A u \in Thread : calls'[u].seq \in {-1, next_try' - 1}
      BY <1>0, <1>2, <2>1, <3>1 DEF TryInv
    <3> QED BY <2>1, <2>2, <3>2, <3>3 DEF TryInv
  <2>4. CASE ~calls[t].first
    BY <1>0, <1>2, <2>1, <2>2, <2>4 DEF TryInv, Retries
  <2> QED BY <2>3, <2>4
<1> QED BY <1>4, <1>5, <1>6, <1>7, <1>8, <1>9 DEF LogStep

\* A call and a return use no number; a reset finds no frame.
LEMMA NextTries == SInv /\ [Next]_vars => TryInv'
<1> SUFFICES ASSUME SInv, [Next]_vars PROVE TryInv'
  OBVIOUS
<1>0. TryInv /\ calls \in [Thread -> Frame]
  BY DEF SInv, TypeOK
<1>1. ASSUME NEW t \in Thread, Enters(t) \/ Leaves(t) PROVE TryInv'
  <2>1. /\ UNCHANGED <<failure, next_try>>
        /\ \A u \in Thread : u # t => calls'[u] = calls[u]
        /\ calls'[t].seq = -1 /\ ~At(t, "retry")'
    <3>1. CASE Enters(t)
      <4>1. PICK r \in FrameRecord, st \in BOOLEAN :
               calls' = [calls EXCEPT ![t] = Entered(r, st)]
        BY <3>1 DEF Enters, EnterLog, Entered
      <4>2. Entered(r, st).pc = "failed" /\ Entered(r, st).seq = -1
        BY DEF Entered, Out
      <4> QED BY <1>0, <3>1, <4>1, <4>2 DEF Enters, At
    <3>2. CASE Leaves(t)
      BY <1>0, <3>2 DEF Leaves, LeaveLog, Out, At
    <3> QED BY <1>1, <3>1, <3>2
  <2> QED BY <1>0, <2>1 DEF TryInv, Retries, At
<1>2. CASE Cleared
  BY <1>2 DEF Cleared, TryInv, Retries, At, Out
<1>3. CASE Reads
  BY <1>0, <1>3 DEF Reads, TryInv, Retries, At
<1> QED BY <1>1, <1>2, <1>3, LogStepTries, FrameKinds

-----------------------------------------------------------------------------
(***************************************************************************)
(* The counters.                                                           *)
(***************************************************************************)
\* The counted sets are finite, and an element more or less counts for one.
LEMMA Counting ==
    ASSUME NEW S \in SUBSET Client, NEW c \in Client
    PROVE  /\ Cardinality(S) \in Nat /\ Cardinality(S) <= Cardinality(Client)
           /\ Cardinality(S) = 0 <=> S = {}
           /\ c \notin S => Cardinality(S \cup {c}) = Cardinality(S) + 1
           /\ c \in S => Cardinality(S \ {c}) = Cardinality(S) - 1
<1>1. IsFiniteSet(S) /\ Cardinality(S) <= Cardinality(Client)
  BY ClientAssumption, FS_Subset
<1> QED BY <1>1, FS_CardinalityType, FS_EmptySet, FS_AddElement, FS_RemoveElement

\* The end of log(): the worker learns how it went, and one that waited may be woken.
LEMMA LogEpilogueWorkers ==
    ASSUME SInv, NEW c \in Client, LogEpilogue(c)
    PROVE  /\ Is(c, "log") /\ At(c, "ret")
           /\ worker' \in [Client -> WorkerRecord]
           /\ worker'[c].pc = "update" /\ worker'[c].op = worker[c].op
           /\ worker'[c].val = worker[c].val /\ (worker'[c].ok <=> Returns(c, "OK"))
           /\ \A w \in Client : w # c =>
                 \/ worker'[w] = worker[w]
                 \/ Is(w, "ln_cv2") /\ worker'[w] = [worker[w] EXCEPT !.pc = "log_prologue"]
<1>0. worker \in [Client -> WorkerRecord]
  BY DEF SInv, WorkerInv
<1>1. /\ Is(c, "log") /\ At(c, "ret")
      /\ \A w \in Waiters : w \in Client /\ Is(w, "ln_cv2") /\ w # c
  BY DEF LogEpilogue, Waiters, Is
<1>2. PICK ok \in BOOLEAN : ok <=> Returns(c, "OK")
  OBVIOUS
<1>3. ok = Returns(c, "OK")
  BY <1>2 DEF Returns
<1> DEFINE done == [worker EXCEPT ![c].pc = "update", ![c].ok = ok]
<1>4. \/ worker' = done
      \/ \E w \in Waiters : worker' = [done EXCEPT ![w].pc = "log_prologue"]
  BY <1>3 DEF LogEpilogue
<1>5. /\ done \in [Client -> WorkerRecord]
      /\ done[c].pc = "update" /\ done[c].op = worker[c].op
      /\ done[c].val = worker[c].val /\ done[c].ok = ok
      /\ \A w \in Client : w # c => done[w] = worker[w]
  BY <1>0, <1>1 DEF WorkerRecord
<1> HIDE DEF done
<1>6. CASE worker' = done
  BY <1>1, <1>2, <1>5, <1>6
<1>7. CASE \E w \in Waiters : worker' = [done EXCEPT ![w].pc = "log_prologue"]
  <2>1. PICK w \in Waiters : worker' = [done EXCEPT ![w].pc = "log_prologue"]
    BY <1>7
  <2>2. w \in Client /\ w # c /\ Is(w, "ln_cv2")
    BY <1>1
  <2>3. /\ worker' \in [Client -> WorkerRecord]
        /\ worker'[w] = [worker[w] EXCEPT !.pc = "log_prologue"]
        /\ \A u \in Client : u # w => worker'[u] = done[u]
    BY <1>5, <2>1, <2>2 DEF WorkerRecord
  <2> QED BY <1>1, <1>2, <1>5, <2>2, <2>3
<1> QED BY <1>4, <1>6, <1>7

\* client_number counts the busy workers, logging_number those in log().
LEMMA NextCounts == SInv /\ [Next]_vars => CountInv'
<1> SUFFICES ASSUME SInv, [Next]_vars PROVE CountInv'
  OBVIOUS
<1>0. /\ CountInv /\ worker \in [Client -> WorkerRecord] /\ window_size \in Nat
      /\ Busy \in SUBSET Client /\ Logging \in SUBSET Client
  BY WindowAssumption DEF SInv, WorkerInv, Busy, Logging
<1>1. CASE UNCHANGED <<worker, client_number, logging_number>>
  BY <1>0, <1>1 DEF CountInv, Busy, Logging, Is
<1>2. ASSUME NEW c \in Client, Serve(c) PROVE CountInv'
  <2>1. CASE Get(c) \/ PutLock(c) \/ PutUpdate(c)
    <3>1. UNCHANGED <<client_number, logging_number>>
      BY <2>1 DEF Get, PutLock, PutUpdate
    <3>2. Busy' = Busy /\ Logging' = Logging
      BY <1>0, <2>1 DEF Get, PutLock, PutUpdate, Move, WorkerRecord, Busy, Logging, Is
    <3> QED BY <1>0, <3>1, <3>2 DEF CountInv
  <2>2. CASE LogPrologue(c)
    <3>1. CASE logging_number = window_size
      <4>1. UNCHANGED <<client_number, logging_number>>
        BY <2>2, <3>1 DEF LogPrologue
      <4>2. Busy' = Busy /\ Logging' = Logging
        BY <1>0, <2>2, <3>1 DEF LogPrologue, Move, WorkerRecord, Busy, Logging, Is
      <4> QED BY <1>0, <4>1, <4>2 DEF CountInv
    <3>2. CASE logging_number # window_size
      <4>1. client_number' = client_number /\ logging_number' = logging_number + 1
        BY <2>2, <3>2 DEF LogPrologue
      <4>2. Busy' = Busy /\ Logging' = Logging \cup {c} /\ c \notin Logging
        <5>1. worker' = [worker EXCEPT ![c].pc = "log"] /\ Is(c, "log_prologue")
          BY <2>2, <3>2 DEF LogPrologue, Move
        <5>2. \A w \in Client : worker'[w].pc = IF w = c THEN "log" ELSE worker[w].pc
          BY <1>0, <5>1 DEF WorkerRecord
        <5> QED BY <5>1, <5>2 DEF Busy, Logging, Is
      <4>3. Cardinality(Logging') = Cardinality(Logging) + 1 /\ Cardinality(Logging) \in Nat
        BY <1>0, <4>2, Counting
      <4>4. Cardinality(Busy') = Cardinality(Busy)
        BY <4>2
      <4> QED BY <1>0, <3>2, <4>1, <4>3, <4>4 DEF CountInv
    <3> QED BY <3>1, <3>2
  <2>3. CASE LogStep(c) /\ UNCHANGED serverVars
    BY <1>1, <2>3 DEF serverVars
  <2>4. CASE LogEpilogue(c)
    <3>1. client_number' = client_number /\ logging_number' = logging_number - 1
      BY <2>4 DEF LogEpilogue
    <3>2. Busy' = Busy /\ Logging' = Logging \ {c} /\ c \in Logging
      <4>0. Is(c, "log") /\ worker \in [Client -> WorkerRecord] /\ worker'[c].pc = "update"
        BY <1>0, <2>4, LogEpilogueWorkers
      <4>1. ASSUME NEW w \in Client, w # c
            PROVE  /\ worker'[w].pc = "log" <=> worker[w].pc = "log"
                   /\ worker'[w].pc = "idle" <=> worker[w].pc = "idle"
        <5>1. CASE worker'[w] = worker[w]
          BY <5>1
        <5>2. CASE Is(w, "ln_cv2") /\ worker'[w] = [worker[w] EXCEPT !.pc = "log_prologue"]
          BY <4>0, <5>2 DEF WorkerRecord, Is
        <5> QED BY <2>4, <4>1, <5>1, <5>2, LogEpilogueWorkers
      <4> QED BY <4>0, <4>1 DEF Busy, Logging, Is
    <3> QED BY <1>0, <3>1, <3>2, Counting DEF CountInv
  <2>5. CASE Epilogue(c)
    <3>1. client_number' = client_number - 1 /\ logging_number' = logging_number
      BY <2>5 DEF Epilogue
    <3>2. Busy' = Busy \ {c} /\ c \in Busy /\ Logging' = Logging
      BY <1>0, <2>5 DEF Epilogue, Resting, WorkerRecord, Busy, Logging, Is
    <3> QED BY <1>0, <3>1, <3>2, Counting DEF CountInv
  <2> QED BY <1>2, <2>1, <2>2, <2>3, <2>4, <2>5 DEF Serve
<1>3. ASSUME NEW c \in Client, Request(c) PROVE CountInv'
  <2>1. CASE NotPrimary(c)
    BY <1>1, <2>1 DEF NotPrimary
  <2>2. ASSUME NEW op, NEW v, Prologue(c, op, v) PROVE CountInv'
    <3>1. client_number' = client_number + 1 /\ logging_number' = logging_number
      BY <2>2 DEF Prologue
    <3>2. Busy' = Busy \cup {c} /\ c \notin Busy /\ Logging' = Logging
      BY <1>0, <2>2 DEF Prologue, WorkerRecord, Busy, Logging, Is
    <3> QED BY <1>0, <3>1, <3>2, Counting DEF CountInv
  <2> QED BY <1>3, <2>1, <2>2 DEF Request
<1>4. CASE MainStep
  BY <1>1, <1>4 DEF MainStep, Redo, ToBeMaster, Lost, Won, SkipLoad, SkipStore, DoHeartbeat,
                    Beaten, Restart, serverVars
<1> QED BY <1>1, <1>2, <1>3, <1>4 DEF Next, vars, serverVars

-----------------------------------------------------------------------------
(***************************************************************************)
(* The main thread and the workers.                                        *)
(***************************************************************************)
\* Whoever is not in log() at a step is left alone by it.
LEMMA OtherFrames ==
    ASSUME SInv, NEW t \in Thread, NEW u \in Thread, u # t,
           LogStep(t) \/ LeaveLog(t) \/ (\E r, st : EnterLog(t, r, st))
    PROVE  calls'[u] = calls[u]
<1>1. calls \in [Thread -> Frame]
  BY DEF SInv, TypeOK
<1>2. CASE LogStep(t)
  BY <1>1, <1>2, LogStepFrame
<1>3. CASE LeaveLog(t)
  BY <1>1, <1>3 DEF LeaveLog
<1>4. CASE \E r, st : EnterLog(t, r, st)
  BY <1>1, <1>4 DEF EnterLog
<1> QED BY <1>2, <1>3, <1>4

\* A worker's step serves on: it changes what the main thread does only by a signal,
\* and its mastership only to end it.
LEMMA WorkersKeepMain ==
    ASSUME SInv, NEW c \in Client, Serve(c) \/ Request(c)
    PROVE  MainInv'
<1>0. /\ MainInv /\ CountInv /\ calls \in [Thread -> Frame] /\ c \in Thread /\ Main \in Thread
      /\ c # Main /\ Busy \in SUBSET Client
  BY Threads DEF SInv, TypeOK, Busy
<1>1. calls'[Main] = calls[Main]
  <2>1. CASE UNCHANGED calls
    BY <2>1
  <2>2. CASE LogStep(c) \/ LeaveLog(c) \/ (\E r, st : EnterLog(c, r, st))
    BY <1>0, <2>2, OtherFrames
  <2> QED BY <2>1, <2>2 DEF Serve, Request, Get, PutLock, LogPrologue, LogEpilogue, PutUpdate,
                            Epilogue, NotPrimary, Prologue, logVars
<1>2. failure => failure'
  <2>1. CASE UNCHANGED failure
    BY <2>1
  <2>2. CASE LogStep(c)
    BY <1>0, <2>2, LogStepFrame
  <2> QED BY <2>1, <2>2 DEF Serve, Request, Get, PutLock, LogPrologue, LogEpilogue, PutUpdate,
                            Epilogue, NotPrimary, Prologue, logVars
<1>3. main \notin {"recover", "to_be_master"} \/ NotPrimary(c)
  <2>1. CASE c \in Busy
    BY <1>0, <2>1 DEF MainInv
  <2>2. CASE c \notin Busy
    <3>1. Is(c, "idle")
      BY <2>2 DEF Busy
    <3>2. ~Serve(c)
      <4>1. ~LogStep(c)
        BY <1>0, <3>1, LogStepFrame DEF SInv, WorkerInv, WorkerFine, Is
      <4> QED BY <3>1, <4>1 DEF Serve, Get, PutLock, LogPrologue, LogEpilogue, PutUpdate,
                                Epilogue, Is
    <3> QED BY <1>0, <3>2 DEF Request, Prologue, MainInv
  <2> QED BY <2>1, <2>2
<1>4. CASE NotPrimary(c)
  <2>1. UNCHANGED <<main, am_i_primary, movedhead, rwhead, Busy>>
    BY <1>4 DEF NotPrimary, logVars, Busy, Is
  <2> QED BY <1>0, <1>1, <1>2, <2>1 DEF MainInv, At
<1>5. CASE ~NotPrimary(c)
  <2>1. /\ \/ main' = main
           \/ main = "ln_cv" /\ main' = "heartbeat"
           \/ main = "cn_cv" /\ main' = "restart"
        /\ am_i_primary' => am_i_primary
    <3>1. CASE LogEpilogue(c)
      BY <3>1 DEF LogEpilogue
    <3>2. CASE Epilogue(c)
      BY <3>2 DEF Epilogue
    <3>3. CASE UNCHANGED <<main, am_i_primary>>
      BY <3>3
    <3> QED BY <1>5, <3>1, <3>2, <3>3 DEF Serve, Request, Get, PutLock, LogPrologue, PutUpdate,
                                          Prologue, serverVars
  <2> QED BY <1>0, <1>1, <1>2, <1>3, <1>5, <2>1 DEF MainInv, At
<1> QED BY <1>4, <1>5

\* The main thread's own steps: it is in log() only to become master or to beat, lets the
\* workers in when it has won, and reads the log when none is left.
LEMMA MainKeepsMain == ASSUME SInv, MainStep PROVE MainInv'
<1>0. /\ MainInv /\ CountInv /\ calls \in [Thread -> Frame] /\ Main \in Thread
      /\ Busy \in SUBSET Client /\ rwhead \in Nat /\ FrameInv
  BY Threads DEF SInv, TypeOK, Busy
<1>1. Busy' = Busy
  BY DEF MainStep, Redo, ToBeMaster, Lost, Won, SkipLoad, SkipStore, DoHeartbeat, Beaten,
         Restart, serverVars, Busy, Is
<1>2. CASE Redo
  BY <1>0, <1>1, <1>2 DEF Redo, NextRecord, MainInv, At
<1>3. CASE ToBeMaster
  BY <1>0, <1>1, <1>3 DEF ToBeMaster, EnterLog, MainInv, At
<1>4. CASE Lost
  BY <1>0, <1>1, <1>4 DEF Lost, LeaveLog, Reset, MainInv, At, Out
<1>5. CASE Won
  BY <1>0, <1>1, <1>5 DEF Won, LeaveLog, MainInv, At, Out
<1>6. CASE SkipLoad \/ SkipStore
  BY <1>0, <1>1, <1>6 DEF SkipLoad, SkipStore, logVars, MainInv, At
<1>7. CASE LogStep(Main) /\ UNCHANGED serverVars
  <2>1. ~At(Main, "out") /\ ~At(Main, "out")' /\ (failure => failure')
    BY <1>0, <1>7, LogStepFrame
  <2>2. main' = main /\ am_i_primary' = am_i_primary
    BY <1>7 DEF serverVars
  <2>3. main \in {"to_be_master", "beat"}
    BY <1>0, <2>1 DEF MainInv
  <2> QED BY <1>0, <1>1, <2>1, <2>2, <2>3 DEF MainInv
<1>8. CASE DoHeartbeat
  <2>1. /\ UNCHANGED <<failure, am_i_primary, rwhead, movedhead>> /\ main = "heartbeat"
        /\ \/ main' = "ln_cv" /\ calls' = calls
           \/ main' = "beat" /\ EnterLog(Main, Heartbeat, TRUE)
    BY <1>8 DEF DoHeartbeat
  <2>2. EnterLog(Main, Heartbeat, TRUE) => ~At(Main, "out")'
    BY <1>0 DEF EnterLog, Out, At
  <2> QED BY <1>0, <1>1, <2>1, <2>2 DEF MainInv, At
<1>9. CASE Beaten
  <2>1. ~Returns(Main, "OK") => failure
    BY <1>0, <1>9 DEF Beaten, Returns, FrameInv, At
  <2> QED BY <1>0, <1>1, <1>9, <2>1 DEF Beaten, LeaveLog, MainInv, At, Out
<1>10. CASE Restart
  <2>1. client_number = 0 => Busy = {}
    <3>1. IsFiniteSet(Busy)
      BY <1>0, ClientAssumption, FS_Subset
    <3> QED BY <1>0, <3>1, FS_EmptySet DEF CountInv
  <2> QED BY <1>0, <1>1, <1>10, <2>1 DEF Restart, Reset, MainInv, At
<1> QED BY <1>2, <1>3, <1>4, <1>5, <1>6, <1>7, <1>8, <1>9, <1>10 DEF MainStep

\* The main thread keeps its part.
LEMMA NextMain == SInv /\ [Next]_vars => MainInv'
<1>1. SInv /\ UNCHANGED vars => MainInv'
  BY DEF SInv, MainInv, vars, logVars, serverVars, At, Busy, Is
<1> QED BY <1>1, WorkersKeepMain, MainKeepsMain DEF Next

\* What was decided stays, and failure as long as a worker is busy.
LEMMA FailureStays ==
    ASSUME SInv, [Next]_vars
    PROVE  decided \subseteq decided' /\ (failure => failure' \/ Busy = {})
<1>1. ASSUME NEW t \in Thread, LogStep(t) \/ Enters(t) \/ Leaves(t)
      PROVE  decided \subseteq decided' /\ (failure => failure')
  BY <1>1, LogStepFrame DEF Enters, Leaves
<1>2. CASE Cleared \/ Reads
  BY <1>2 DEF Cleared, Reads
<1>3. (\E t \in Thread : LogStep(t) \/ Enters(t) \/ Leaves(t)) \/ Cleared \/ Reads
  BY FrameKinds
<1> QED BY <1>1, <1>2, <1>3

\* A step of somebody else that leaves a worker and its frame as they are.
LEMMA OthersKeep ==
    ASSUME SInv, [Next]_vars, NEW c \in Client, UNCHANGED <<worker[c], calls[c]>>
    PROVE  WorkerFine(c)'
<1>1. WorkerFine(c)
  BY DEF SInv, WorkerInv
<1>2. decided \subseteq decided' /\ (failure => failure' \/ Is(c, "idle"))
  BY FailureStays DEF Busy
<1> QED BY <1>1, <1>2 DEF WorkerFine, Is, At

\* The frames of the workers, when the main thread steps.
LEMMA MainKeepsWorkers == ASSUME SInv, MainStep PROVE WorkerInv'
<1>1. worker' = worker
  BY DEF MainStep, Redo, ToBeMaster, Lost, Won, SkipLoad, SkipStore, DoHeartbeat, Beaten,
         Restart, serverVars
<1>2. ASSUME NEW c \in Client PROVE calls'[c] = calls[c]
  <2>1. CASE UNCHANGED calls
    BY <2>1
  <2>2. CASE LogStep(Main) \/ LeaveLog(Main) \/ (\E r, st : EnterLog(Main, r, st))
    BY <2>2, OtherFrames, Threads
  <2> QED BY <2>1, <2>2 DEF MainStep, Redo, NextRecord, ToBeMaster, Lost, Won, SkipLoad,
                            SkipStore, DoHeartbeat, Beaten, Restart, logVars
<1>3. [Next]_vars /\ worker \in [Client -> WorkerRecord]
  BY DEF Next, SInv, WorkerInv
<1> QED BY <1>1, <1>2, <1>3, OthersKeep DEF WorkerInv

\* The other workers, when one steps.
LEMMA WorkersKeepOthers ==
    ASSUME SInv, NEW c \in Client, Serve(c) \/ Request(c), NEW w \in Client, w # c
    PROVE  calls'[w] = calls[w] /\ (worker'[w] = worker[w] \/ LogEpilogue(c))
<1>0. worker \in [Client -> WorkerRecord]
  BY DEF SInv, WorkerInv
<1>1. calls'[w] = calls[w]
  <2>1. CASE UNCHANGED calls
    BY <2>1
  <2>2. CASE LogStep(c) \/ LeaveLog(c) \/ (\E r, st : EnterLog(c, r, st))
    BY <2>2, OtherFrames, Threads
  <2> QED BY <2>1, <2>2 DEF Serve, Request, Get, PutLock, LogPrologue, LogEpilogue, PutUpdate,
                            Epilogue, NotPrimary, Prologue, logVars
<1>2. worker'[w] = worker[w] \/ LogEpilogue(c)
  BY <1>0 DEF Serve, Request, Get, PutLock, LogPrologue, PutUpdate, Epilogue, NotPrimary,
              Prologue, Move, serverVars
<1> QED BY <1>1, <1>2

\* Each action of a worker on itself.
LEMMA WorkerKeepsItself ==
    ASSUME SInv, NEW c \in Client, Serve(c) \/ Request(c)
    PROVE  worker' \in [Client -> WorkerRecord] /\ WorkerFine(c)'
<1>0. /\ worker \in [Client -> WorkerRecord] /\ WorkerFine(c) /\ c \in Thread
      /\ calls \in [Thread -> Frame] /\ KeyOf[c] \in Key
      /\ local_db \in [Key -> Value \cup {Default}] /\ [Next]_vars
  BY Threads, KeyAssumption DEF SInv, TypeOK, WorkerInv, Next
<1>1. CASE UNCHANGED worker /\ UNCHANGED calls
  BY <1>0, <1>1, OthersKeep
<1>2. CASE Get(c)
  <2>1. worker' = [worker EXCEPT ![c].pc = "epilogue", ![c].val = local_db[KeyOf[c]]]
        /\ UNCHANGED <<calls, failure>> /\ Is(c, "lock") /\ worker[c].op = "get"
    BY <1>2 DEF Get, logVars
  <2>2. local_db[KeyOf[c]] \in Value \cup {Default}
    BY <1>0
  <2> HIDE DEF WorkerFine
  <2>3. worker' \in [Client -> WorkerRecord]
    BY <1>0, <2>1, <2>2 DEF WorkerRecord
  <2>4. worker'[c].pc = "epilogue" /\ worker'[c].op = "get" /\ worker'[c].ok = worker[c].ok
    BY <1>0, <2>1, <2>2 DEF WorkerRecord
  <2> QED BY <1>0, <2>1, <2>3, <2>4 DEF WorkerFine, Is, At
<1>3. CASE PutLock(c)
  <2>1. worker' = [worker EXCEPT ![c].pc = "log_prologue"]
        /\ UNCHANGED <<calls, failure>> /\ Is(c, "lock") /\ worker[c].op = "put"
    BY <1>3 DEF PutLock, Move, logVars
  <2> QED BY <1>0, <2>1 DEF WorkerRecord, WorkerFine, Is, At
<1>4. CASE LogPrologue(c)
  <2>1. CASE logging_number = window_size
    <3>1. worker' = [worker EXCEPT ![c].pc = "ln_cv2"]
          /\ UNCHANGED <<calls, failure>> /\ Is(c, "log_prologue")
      BY <1>4, <2>1 DEF LogPrologue, Move
    <3> QED BY <1>0, <3>1 DEF WorkerRecord, WorkerFine, Is, At
  <2>2. CASE logging_number # window_size
    <3>1. worker' = [worker EXCEPT ![c].pc = "log"] /\ failure' = failure
          /\ Is(c, "log_prologue")
          /\ calls' = [calls EXCEPT ![c] = Entered(Update(c, worker[c].val), TRUE)]
      BY <1>4, <2>2 DEF LogPrologue, Move, EnterLog, Entered
    <3>2. /\ calls'[c].pc = "failed" /\ calls'[c].stable
          /\ calls'[c].rec = Update(c, worker[c].val)
      BY <1>0, <3>1 DEF Entered, Out
    <3>3. /\ worker' \in [Client -> WorkerRecord] /\ worker'[c].pc = "log"
          /\ worker'[c].op = worker[c].op /\ worker'[c].val = worker[c].val
          /\ worker'[c].ok = worker[c].ok
      BY <1>0, <3>1 DEF WorkerRecord
    <3> QED BY <1>0, <3>1, <3>2, <3>3 DEF WorkerFine, Is, At
  <2> QED BY <2>1, <2>2
<1>5. CASE LogStep(c) /\ UNCHANGED serverVars
  <2>1. /\ ~At(c, "out") /\ ~At(c, "out")' /\ calls'[c].stable = calls[c].stable
        /\ calls[c].stable => calls'[c].rec = calls[c].rec
        /\ decided \subseteq decided' /\ (failure => failure')
    BY <1>0, <1>5, LogStepFrame
  <2>2. worker' = worker
    BY <1>5 DEF serverVars
  <2> QED BY <1>0, <2>1, <2>2 DEF WorkerFine, Is
<1>6. CASE LogEpilogue(c)
  <2>1. /\ Is(c, "log") /\ At(c, "ret") /\ worker' \in [Client -> WorkerRecord]
        /\ worker'[c].pc = "update" /\ worker'[c].op = worker[c].op
        /\ worker'[c].val = worker[c].val /\ (worker'[c].ok <=> Returns(c, "OK"))
    BY <1>6, LogEpilogueWorkers
  <2>2. calls'[c].pc = "out" /\ UNCHANGED <<failure, decided>>
    BY <1>0, <1>6 DEF LogEpilogue, LeaveLog, Out
  <2>3. /\ ~Returns(c, "OK") => failure
        /\ Returns(c, "OK") => \E d \in decided : d.rec = calls[c].rec
    BY <1>0, <2>1 DEF SInv, FrameInv, Returns, At
  <2> QED BY <1>0, <2>1, <2>2, <2>3 DEF WorkerFine, Is, At
<1>7. CASE PutUpdate(c)
  <2>1. worker' = [worker EXCEPT ![c].pc = "epilogue"]
        /\ UNCHANGED <<calls, failure>> /\ Is(c, "update")
    BY <1>7 DEF PutUpdate, Move, logVars
  <2> QED BY <1>0, <2>1 DEF WorkerRecord, WorkerFine, Is, At
<1>8. CASE Epilogue(c)
  <2>1. worker' = [worker EXCEPT ![c] = Resting]
        /\ UNCHANGED <<calls, failure>> /\ Is(c, "epilogue")
    BY <1>8 DEF Epilogue, logVars
  <2> QED BY <1>0, <2>1 DEF Resting, WorkerRecord, WorkerFine, Is, At
<1>9. ASSUME NEW op \in {"get", "put"}, NEW v \in Value \cup {Default}, op = "put" => v \in Value,
             Prologue(c, op, v)
      PROVE  worker' \in [Client -> WorkerRecord] /\ WorkerFine(c)'
  <2>1. worker' = [worker EXCEPT ![c] = [pc |-> "lock", op |-> op, val |-> v, ok |-> TRUE]]
        /\ UNCHANGED <<calls, failure>> /\ Is(c, "idle")
    BY <1>9 DEF Prologue, logVars
  <2> QED BY <1>0, <1>9, <2>1 DEF WorkerRecord, WorkerFine, Is, At
<1>10. CASE NotPrimary(c)
  BY <1>1, <1>10 DEF NotPrimary, logVars
<1> QED BY <1>2, <1>3, <1>4, <1>5, <1>6, <1>7, <1>8, <1>9, <1>10 DEF Serve, Request

\* The workers keep theirs: one steps, or is woken by another that steps.
LEMMA NextWorkers == SInv /\ [Next]_vars => WorkerInv'
<1> SUFFICES ASSUME SInv, [Next]_vars PROVE WorkerInv'
  OBVIOUS
<1>1. CASE UNCHANGED vars
  BY <1>1, OthersKeep DEF vars, logVars, serverVars, SInv, WorkerInv
<1>2. ASSUME NEW c \in Client, Serve(c) \/ Request(c), NEW w \in Client PROVE WorkerFine(w)'
  <2>1. CASE w = c
    BY <1>2, <2>1, WorkerKeepsItself
  <2>2. CASE w # c /\ worker'[w] = worker[w]
    BY <1>2, <2>2, WorkersKeepOthers, OthersKeep
  <2>3. CASE w # c /\ worker'[w] # worker[w]
    <3>1. LogEpilogue(c) /\ calls'[w] = calls[w]
      BY <1>2, <2>3, WorkersKeepOthers
    <3>2. Is(w, "ln_cv2") /\ worker'[w] = [worker[w] EXCEPT !.pc = "log_prologue"]
      BY <2>3, <3>1, LogEpilogueWorkers
    <3>3. WorkerFine(w) /\ worker[w] \in WorkerRecord
      BY DEF SInv, WorkerInv
    <3>4. UNCHANGED failure
      BY <3>1 DEF LogEpilogue
    <3> QED BY <3>1, <3>2, <3>3, <3>4 DEF WorkerFine, WorkerRecord, Is, At
  <2> QED BY <2>1, <2>2, <2>3
<1> QED BY <1>1, <1>2, WorkerKeepsItself, MainKeepsWorkers DEF Next, WorkerInv

-----------------------------------------------------------------------------
(***************************************************************************)
(* The table, and the types.                                               *)
(***************************************************************************)
\* A value enters the table after its record was told to the learners, by the worker that
\* logged it or by reading it back.
LEMMA NextTable == SInv /\ [Next]_vars => TableIsLogged'
<1> SUFFICES ASSUME SInv, [Next]_vars, NEW k \in Key, local_db'[k] # Default
             PROVE  \E d \in decided' : /\ d.rec.type = "UPDATE"
                                       /\ d.rec.key = k /\ d.rec.val = local_db'[k]
  BY DEF TableIsLogged
<1>0. local_db \in [Key -> Value \cup {Default}] /\ decided \subseteq decided' /\ TableIsLogged
  BY FailureStays DEF SInv, TypeOK
<1>1. CASE local_db'[k] = local_db[k]
  BY <1>0, <1>1 DEF TableIsLogged
<1>2. CASE local_db'[k] # local_db[k]
  <2>1. Redo \/ \E c \in Client : PutUpdate(c)
    BY <1>2 DEF Next, MainStep, Serve, Request, Get, PutLock, LogPrologue, LogEpilogue, Epilogue,
                NotPrimary, Prologue, ToBeMaster, Lost, Won, SkipLoad, SkipStore, DoHeartbeat,
                Beaten, Restart, vars, serverVars
  <2>2. CASE Redo
    <3>1. PICK rec \in Readable(rwhead) :
             /\ NextRecord(rec, IF rec = BeMaster THEN window_size ELSE 0)
             /\ local_db' = IF rec.type = "UPDATE"
                            THEN [local_db EXCEPT ![rec.key] = rec.val] ELSE local_db
      BY <2>2 DEF Redo
    <3>2. rec.type = "UPDATE" /\ rec.key = k /\ rec.val = local_db'[k]
      BY <1>0, <1>2, <3>1
    <3>3. [slot |-> rwhead, rec |-> rec] \in decided'
      BY <3>1 DEF NextRecord
    <3> QED BY <3>2, <3>3
  <2>3. ASSUME NEW c \in Client, PutUpdate(c)
        PROVE  \E d \in decided' : /\ d.rec.type = "UPDATE"
                                  /\ d.rec.key = k /\ d.rec.val = local_db'[k]
    <3>1. Is(c, "update") /\ worker[c].ok
          /\ local_db' = [local_db EXCEPT ![KeyOf[c]] = worker[c].val]
      BY <1>2, <2>3 DEF PutUpdate
    <3>2. k = KeyOf[c] /\ local_db'[k] = worker[c].val
      BY <1>0, <1>2, <3>1
    <3>3. PICK d \in decided : d.rec = Update(c, worker[c].val)
      BY <3>1 DEF SInv, WorkerInv, WorkerFine
    <3> QED BY <1>0, <3>2, <3>3 DEF Update
  <2> QED BY <2>1, <2>2, <2>3
<1> QED BY <1>1, <1>2

\* The heads and next_try are natural numbers, the window a set of slots.
LogTypes ==
    /\ failure \in BOOLEAN
    /\ {rwhead, movedhead, next_try} \subseteq Nat
    /\ mv_window \subseteq Nat
    /\ {mh_mutex, rw_mutex} \subseteq Thread \cup {None}

\* A step of log() keeps the types of the log.
LEMMA LogStepTypes == ASSUME SInv, NEW t \in Thread, LogStep(t) PROVE LogTypes'
<1>0. LogTypes /\ calls[t] \in Frame
  BY DEF SInv, TypeOK, LogTypes
<1>1. CASE Failed(t) \/ PrologueLoad(t) \/ PrologueNumber(t) \/ Prepare(t) \/ AcceptTimeout(t)
           \/ AcceptLearn(t)
  BY <1>0, <1>1 DEF Failed, PrologueLoad, PrologueNumber, Prepare, AcceptTimeout, AcceptLearn,
                    LogTypes
<1>2. CASE PrologueStore(t)
  BY <1>0, <1>2 DEF PrologueStore, LogTypes, Frame
<1>3. CASE EpilogueFailure(t) \/ SetFailure(t)
  BY <1>0, <1>3 DEF EpilogueFailure, SetFailure, LogTypes
<1>4. CASE EpilogueNextTry(t)
  BY <1>0, <1>4 DEF EpilogueNextTry, LogTypes
<1>5. CASE MoveMark(t) \/ MoveTest(t) \/ MoveAdvance(t)
  BY <1>0, <1>5 DEF MoveMark, MoveTest, MoveAdvance, LogTypes, Frame
<1> QED BY <1>1, <1>2, <1>3, <1>4, <1>5 DEF LogStep

\* So does every step.
LEMMA NextLogTypes == SInv /\ [Next]_vars => LogTypes' /\ skip_head' \in Nat
<1> SUFFICES ASSUME SInv, [Next]_vars PROVE LogTypes' /\ skip_head' \in Nat
  OBVIOUS
<1>0. LogTypes /\ skip_head \in Nat /\ window_size \in Nat
  BY WindowAssumption DEF SInv, TypeOK, LogTypes
<1>1. ASSUME NEW t \in Thread, LogStep(t), UNCHANGED serverVars
      PROVE  LogTypes' /\ skip_head' \in Nat
  BY <1>0, <1>1, LogStepTypes DEF serverVars
<1>2. CASE UNCHANGED <<failure, rwhead, movedhead, next_try, mv_window, mh_mutex, rw_mutex,
                       skip_head>>
  BY <1>0, <1>2 DEF LogTypes
<1>3. ASSUME NEW c \in Client, Serve(c) \/ Request(c) PROVE LogTypes' /\ skip_head' \in Nat
  <2>1. \/ LogStep(c) /\ UNCHANGED serverVars
        \/ UNCHANGED <<failure, rwhead, movedhead, next_try, mv_window, mh_mutex, rw_mutex,
                       skip_head>>
    BY <1>3 DEF Serve, Request, Get, PutLock, LogPrologue, LogEpilogue, PutUpdate, Epilogue,
                NotPrimary, Prologue, logVars
  <2> QED BY <1>1, <1>2, <2>1, Threads
<1>4. CASE Redo
  <2>1. PICK w \in Nat : \E rec : NextRecord(rec, w)
    BY <1>0, <1>4 DEF Redo
  <2>2. skip_head' = skip_head
    BY <1>4 DEF Redo
  <2>3. rwhead' \in Nat /\ movedhead' \in Nat
    <3>1. rwhead' = rwhead + 1 + w /\ movedhead' \in {movedhead + 1, rwhead'}
      BY <2>1 DEF NextRecord
    <3> QED BY <1>0, <3>1 DEF LogTypes
  <2>4. UNCHANGED <<failure, next_try, mv_window, mh_mutex, rw_mutex>>
    BY <2>1 DEF NextRecord
  <2> QED BY <1>0, <2>2, <2>3, <2>4 DEF LogTypes
<1>5. CASE Lost \/ Restart
  BY <1>0, <1>5 DEF Lost, Restart, Reset, LogTypes
<1>6. CASE SkipLoad \/ SkipStore
  <2>1. rwhead \in Nat /\ movedhead \in Nat
    BY <1>0 DEF LogTypes
  <2>2. rwhead' \in Nat /\ movedhead' \in Nat /\ skip_head' \in Nat
    BY <1>0, <1>6, <2>1 DEF SkipLoad, SkipStore, logVars
  <2>3. UNCHANGED <<failure, next_try, mv_window, mh_mutex, rw_mutex>>
    BY <1>6 DEF SkipLoad, SkipStore, logVars
  <2> QED BY <1>0, <2>2, <2>3 DEF LogTypes
<1>7. CASE ToBeMaster \/ Won \/ DoHeartbeat \/ Beaten
  BY <1>2, <1>7 DEF ToBeMaster, Won, DoHeartbeat, Beaten
<1>8. CASE UNCHANGED vars
  BY <1>2, <1>8 DEF vars, logVars, serverVars
<1> QED BY <1>1, <1>3, <1>4, <1>5, <1>6, <1>7, <1>8, Threads DEF Next, MainStep

\* A key holds a value, and is locked by nobody or a worker; a client expects a value, or
\* none.
TableTypes ==
    /\ am_i_primary \in BOOLEAN
    /\ local_db \in [Key -> Value \cup {Default}]
    /\ key_lock \in [Key -> Client \cup {None}]
    /\ thevalue \in [Client -> Value \cup {Default, None}]

\* What is put is a value, and what is read back is one.
LEMMA NextTableTypes == SInv /\ [Next]_vars => TableTypes'
<1> SUFFICES ASSUME SInv, [Next]_vars PROVE TableTypes'
  OBVIOUS
<1>0. TableTypes /\ worker \in [Client -> WorkerRecord]
  BY DEF SInv, TypeOK, TableTypes, WorkerInv
<1>1. CASE UNCHANGED <<am_i_primary, local_db, key_lock, thevalue>>
  BY <1>0, <1>1 DEF TableTypes
<1>2. ASSUME NEW c \in Client, Serve(c) \/ Request(c) PROVE TableTypes'
  <2>1. CASE PutUpdate(c)
    <3>1. Is(c, "update") => worker[c].val \in Value
      BY DEF SInv, WorkerInv, WorkerFine, Is
    <3> QED BY <1>0, <2>1, <3>1 DEF PutUpdate, TableTypes
  <2>2. CASE Epilogue(c)
    <3>1. am_i_primary' \in BOOLEAN /\ UNCHANGED <<local_db, key_lock>>
      BY <2>2 DEF Epilogue
    <3>2. worker[c].val \in Value \cup {Default}
      BY <1>0 DEF WorkerRecord
    <3>3. thevalue' \in [Client -> Value \cup {Default, None}]
      BY <1>0, <2>2, <3>2 DEF Epilogue, TableTypes
    <3> QED BY <1>0, <3>1, <3>3 DEF TableTypes
  <2>3. CASE PutLock(c)
    BY <1>0, <2>3 DEF PutLock, TableTypes
  <2>4. CASE NotPrimary(c)
    BY <1>0, <2>4 DEF NotPrimary, TableTypes
  <2> QED BY <1>1, <1>2, <2>1, <2>2, <2>3, <2>4 DEF Serve, Request, Get, LogPrologue, LogEpilogue,
                                                  Prologue, serverVars
<1>3. CASE Redo
  <2>1. PICK rec \in Readable(rwhead) :
           local_db' = IF rec.type = "UPDATE"
                       THEN [local_db EXCEPT ![rec.key] = rec.val] ELSE local_db
    BY <1>3 DEF Redo
  <2>2. rec.type = "UPDATE" => rec.val \in Value
    BY ReadableRecords, Records DEF Record
  <2>3. UNCHANGED <<am_i_primary, key_lock, thevalue>>
    BY <1>3 DEF Redo
  <2> QED BY <1>0, <2>1, <2>2, <2>3 DEF TableTypes
<1>4. CASE Won \/ Beaten
  BY <1>0, <1>4 DEF Won, Beaten, TableTypes
<1> QED BY <1>1, <1>2, <1>3, <1>4 DEF Next, MainStep, ToBeMaster, Lost, SkipLoad, SkipStore,
                                      DoHeartbeat, Restart, vars, serverVars

\* Together with the counters, the type invariant.
LEMMA NextTypes == SInv /\ [Next]_vars => TypeOK'
<1> SUFFICES ASSUME SInv, [Next]_vars PROVE TypeOK'
  OBVIOUS
<1>1. LogTypes' /\ skip_head' \in Nat /\ TableTypes' /\ calls' \in [Thread -> Frame]
  BY NextLogTypes, NextTableTypes, NextRecords
<1>2. client_number' \in 0 .. Cardinality(Client) /\ logging_number' \in 0 .. window_size
  <2>1. CountInv' /\ window_size \in Nat
    BY NextCounts, WindowAssumption
  <2>2. \A S \in SUBSET Client : Cardinality(S) \in Nat /\ Cardinality(S) <= Cardinality(Client)
    BY ClientAssumption, FS_Subset, FS_CardinalityType
  <2>3. Busy' \in SUBSET Client /\ Logging' \in SUBSET Client /\ Cardinality(Client) \in Nat
    BY ClientAssumption, FS_CardinalityType DEF Busy, Logging
  <2> QED BY <2>1, <2>2, <2>3 DEF CountInv
<1> QED BY <1>1, <1>2 DEF LogTypes, TableTypes, TypeOK

-----------------------------------------------------------------------------
(***************************************************************************)
(* The theorems.                                                           *)
(***************************************************************************)
\* At the start nobody is inside.
LEMMA InitServer == Init => SInv
<1> SUFFICES ASSUME Init PROVE SInv
  OBVIOUS
<1>1. Busy = {} /\ Logging = {} /\ Cardinality({}) = 0
  BY FS_EmptySet DEF Init, Busy, Logging, Is, Resting
<1>2. RecordInv /\ FrameInv /\ TryInv /\ TableIsLogged
  BY DEF Init, LogInit, RecordInv, FrameInv, TryInv, TableIsLogged, At, Out, Retries
<1>3. CountInv
  BY <1>1, WindowAssumption DEF Init, CountInv
<1>4. MainInv
  BY <1>1, Threads DEF Init, LogInit, MainInv, At, Out
<1>5. WorkerInv
  BY Threads DEF Init, LogInit, WorkerInv, WorkerRecord, WorkerFine, Resting, Is, At, Out
<1>6. TypeOK
  <2>1. Cardinality(Client) \in Nat /\ window_size \in Nat
    BY ClientAssumption, FS_CardinalityType, WindowAssumption
  <2>2. calls \in [Thread -> Frame]
    BY FrameTypes DEF Init, LogInit
  <2>3. /\ client_number \in 0 .. Cardinality(Client) /\ logging_number \in 0 .. window_size
        /\ {rwhead, movedhead, next_try, skip_head} \subseteq Nat
    BY <2>1 DEF Init, LogInit
  <2>4. /\ failure \in BOOLEAN /\ am_i_primary \in BOOLEAN /\ mv_window \subseteq Nat
        /\ {mh_mutex, rw_mutex} \subseteq Thread \cup {None}
    BY DEF Init, LogInit
  <2>5. /\ local_db \in [Key -> Value \cup {Default}] /\ key_lock \in [Key -> Client \cup {None}]
        /\ thevalue \in [Client -> Value \cup {Default, None}]
    BY DEF Init
  <2> QED BY <2>2, <2>3, <2>4, <2>5 DEF TypeOK
<1> QED BY <1>2, <1>3, <1>4, <1>5, <1>6 DEF SInv

\* The inductive invariant: what a frame of log() says of failure and of what was decided,
\* and that nobody is served before the main thread has won or after it has given up.
THEOREM ServerInvariant == Spec => []SInv
<1>1. SInv /\ [Next]_vars => SInv'
  BY NextTypes, NextRecords, NextFrames, NextTries, NextCounts, NextMain, NextWorkers,
     NextTable DEF SInv
<1> QED BY <1>1, InitServer, PTL DEF Spec

\* Every variable of the server keeps its type; the counters stay within the clients and
\* the window (prologue, epilogue, log_prologue, log_epilogue).
THEOREM ServerTypes == Spec => []TypeOK
BY ServerInvariant, PTL DEF SInv

\* The assertions of replicated_log.cc and kvs_server.cc hold: the calls of the owner that
\* rely on being alone are alone.
THEOREM AssertionsOfOwner == Spec => []OwnerAssertions
<1>1. SInv => OwnerAssertions
  <2> SUFFICES ASSUME SInv PROVE OwnerAssertions
    OBVIOUS
  <2>1. MainInv /\ CountInv /\ FrameInv
    BY DEF SInv
  <2>2. Busy = {} => client_number = 0
    BY <2>1, FS_EmptySet DEF CountInv
  <2>3. main = "recover" => \A t \in Thread : At(t, "out")
    BY <2>1, AllOut DEF MainInv
  <2>4. At(Main, "ret") /\ ~Returns(Main, "OK") => failure
    BY <2>1, Threads DEF FrameInv, Returns, At
  <2> QED BY <2>1, <2>2, <2>3, <2>4 DEF MainInv, OwnerAssertions
<1> QED BY <1>1, ServerInvariant, PTL

\* Whatever threads fail in a term, next_try moves by one (epilogue of replicated_log).
THEOREM TriesOnce == Spec => []OneTryPerTerm
<1>1. SInv => OneTryPerTerm
  BY DEF SInv, TryInv, OneTryPerTerm, Out
<1> QED BY <1>1, ServerInvariant, PTL

\* The table holds nothing that was not logged (kvs_server::put, redo).
THEOREM LoggedFirst == Spec => []TableIsLogged
BY ServerInvariant, PTL DEF SInv

\* The server gives up serving only when a log has failed in this term (epilogue,
\* doheartbeat).
THEOREM ServesUntilFailure == Spec => PrimaryUntilFailure
<1>1. SInv /\ [Next]_vars => [am_i_primary /\ ~am_i_primary' => failure]_vars
  <2> SUFFICES ASSUME SInv, Next, am_i_primary, ~am_i_primary' PROVE failure
    OBVIOUS
  <2>1. Beaten \/ \E c \in Client : Epilogue(c)
    BY DEF Next, MainStep, Serve, Request, Get, PutLock, LogPrologue, LogEpilogue, PutUpdate,
           NotPrimary, Prologue, Redo, ToBeMaster, Lost, Won, SkipLoad, SkipStore,
           DoHeartbeat, Restart, serverVars
  <2>2. CASE Beaten
    BY <2>2, Threads DEF Beaten, SInv, FrameInv, Returns, At
  <2>3. ASSUME NEW c \in Client, Epilogue(c) PROVE failure
    BY <2>3 DEF Epilogue, SInv, WorkerInv, WorkerFine
  <2> QED BY <2>1, <2>2, <2>3
<1> QED BY <1>1, ServerInvariant, PTL DEF Spec, PrimaryUntilFailure

\* With one client more than the window, one waits at most, and only at the limit.
WaitInv == Waiters # {} => logging_number = window_size

\* The one that waits is woken by the first of the others that leaves.
LEMMA NextWaits ==
    ASSUME Cardinality(Client) <= window_size + 1, SInv, WaitInv, [Next]_vars
    PROVE  WaitInv'
<1>0. worker \in [Client -> WorkerRecord]
  BY DEF SInv, WorkerInv
<1>1. CASE UNCHANGED <<worker, logging_number>>
  BY <1>1 DEF WaitInv, Waiters, Is
<1>2. ASSUME NEW c \in Client, LogPrologue(c) PROVE WaitInv'
  <2>1. CASE logging_number = window_size
    BY <1>2, <2>1 DEF LogPrologue, WaitInv
  <2>2. CASE logging_number # window_size
    <3>1. Waiters = {} /\ worker' = [worker EXCEPT ![c].pc = "log"]
      BY <1>2, <2>2 DEF LogPrologue, Move, WaitInv
    <3> QED BY <1>0, <3>1 DEF WaitInv, Waiters, WorkerRecord, Is
  <2> QED BY <2>1, <2>2
<1>3. ASSUME NEW c \in Client, LogEpilogue(c) PROVE Waiters' = {}
  <2>1. \A w \in Client : Is(w, "ln_cv2")' => Is(w, "ln_cv2")
    BY <1>0, <1>3, LogEpilogueWorkers DEF Is
  <2>2. CASE Waiters = {}
    BY <2>1, <2>2 DEF Waiters
  <2>3. CASE Waiters # {}
    <3>1. PICK w \in Waiters :
             worker' = [[worker EXCEPT ![c].pc = "update", ![c].ok = Returns(c, "OK")]
                          EXCEPT ![w].pc = "log_prologue"]
      BY <1>3, <2>3 DEF LogEpilogue, WaitInv
    <3>2. w \in Client /\ w # c /\ ~Is(w, "ln_cv2")'
      BY <1>0, <1>3, <3>1 DEF LogEpilogue, Waiters, Is
    <3>3. \A u \in Waiters : u = w
      <4> SUFFICES ASSUME NEW u \in Waiters, u # w PROVE FALSE
        OBVIOUS
      <4>1. Logging \in SUBSET Client /\ Cardinality(Logging) = window_size
        BY <2>3 DEF SInv, CountInv, WaitInv, Logging
      <4>2. u \in Client /\ u \notin Logging /\ w \notin Logging
        BY DEF Waiters, Logging, Is
      <4>3. /\ Logging \cup {w} \in SUBSET Client
            /\ (Logging \cup {w}) \cup {u} \in SUBSET Client
        BY <3>2, <4>1, <4>2
      <4>4. Cardinality(Logging \cup {w}) = window_size + 1
        BY <3>2, <4>1, <4>2, Counting
      <4>5. Cardinality((Logging \cup {w}) \cup {u}) = window_size + 1 + 1
        BY <4>2, <4>3, <4>4, Counting
      <4>6. Cardinality((Logging \cup {w}) \cup {u}) <= Cardinality(Client)
            /\ Cardinality(Client) \in Nat /\ window_size \in Nat
        BY <4>2, <4>3, Counting, ClientAssumption, FS_CardinalityType, WindowAssumption
      <4> QED BY <4>5, <4>6
    <3> QED BY <2>1, <3>2, <3>3 DEF Waiters
  <2> QED BY <2>2, <2>3
<1>4. ASSUME NEW c \in Client, Get(c) \/ PutLock(c) \/ PutUpdate(c) \/ Epilogue(c)
                              \/ \E op, v : Prologue(c, op, v)
      PROVE  WaitInv'
  <2>1. Waiters' = Waiters /\ logging_number' = logging_number
    BY <1>0, <1>4 DEF Get, PutLock, PutUpdate, Epilogue, Prologue, Move, Resting, Waiters,
                      WorkerRecord, Is
  <2> QED BY <2>1 DEF WaitInv
<1> QED BY <1>1, <1>2, <1>3, <1>4 DEF Next, MainStep, Serve, Request, NotPrimary, Redo, ToBeMaster,
           Lost, Won, SkipLoad, SkipStore, DoHeartbeat, Beaten, Restart, vars, serverVars, WaitInv

\* A put that waits for its turn has somebody to signal it (log_prologue, log_epilogue), if
\* there is at most one client more than the window.
THEOREM SomebodySignals ==
    ASSUME Cardinality(Client) <= window_size + 1
    PROVE  Spec => []NoPutForgotten
<1>1. Init => WaitInv
  BY DEF Init, WaitInv, Waiters, Resting, Is
<1>2. SInv /\ WaitInv /\ [Next]_vars => WaitInv'
  BY NextWaits
<1>3. SInv /\ WaitInv => NoPutForgotten
  <2> SUFFICES ASSUME SInv, WaitInv, Waiters # {}
               PROVE  \E c \in Client : Is(c, "log")
    BY DEF NoPutForgotten
  <2>1. Cardinality(Logging) # 0
    BY WindowAssumption DEF SInv, CountInv, WaitInv
  <2>2. Logging # {}
    BY <2>1, FS_EmptySet
  <2> QED BY <2>2 DEF Logging
<1> QED BY <1>1, <1>2, <1>3, ServerInvariant, PTL DEF Spec

-----------------------------------------------------------------------------
(***************************************************************************)
(* Who ends a wait.                                                        *)
(***************************************************************************)
\* The condition variables: what the main thread waits for has yet to happen.
CondInv ==
    /\ main = "cn_cv" => client_number # 0
    /\ main = "ln_cv" => logging_number # 0

\* The lock of a key is held by a worker past it.
Holds(c) == worker[c].pc \in {"log_prologue", "ln_cv2", "log", "update"}
LockInv == \A k \in Key : key_lock[k] # None => KeyOf[key_lock[k]] = k /\ Holds(key_lock[k])

\* A mutex of the heads is held by a thread inside its section.
Moves(t) == calls[t].pc \in {"test", "advance"}
MutexInv ==
    /\ mh_mutex # None => At(mh_mutex, "store")
    /\ rw_mutex # None => Moves(rw_mutex)

\* The counters reach zero only with a signal.
LEMMA NextCond == ASSUME SInv, CondInv, [Next]_vars PROVE CondInv'
<1>0. client_number \in Nat /\ logging_number \in Nat
  BY ClientAssumption, WindowAssumption, FS_CardinalityType DEF SInv, TypeOK
<1>1. CASE UNCHANGED <<main, client_number, logging_number>>
  BY <1>1 DEF CondInv
<1>2. ASSUME NEW c \in Client, Serve(c) \/ Request(c) PROVE CondInv'
  <2>1. CASE LogPrologue(c)
    <3>1. /\ UNCHANGED <<main, client_number>>
          /\ logging_number' \in {logging_number, logging_number + 1}
      BY <2>1 DEF LogPrologue
    <3> QED BY <1>0, <3>1 DEF CondInv
  <2>2. CASE LogEpilogue(c)
    BY <2>2 DEF LogEpilogue, CondInv
  <2>3. CASE Epilogue(c)
    BY <2>3 DEF Epilogue, CondInv
  <2>4. CASE \E op, v : Prologue(c, op, v)
    BY <1>0, <2>4 DEF Prologue, CondInv
  <2> QED BY <1>1, <1>2, <2>1, <2>2, <2>3, <2>4 DEF Serve, Request, Get, PutLock, PutUpdate,
                                                    NotPrimary, serverVars
<1>3. CASE MainStep
  <2>1. UNCHANGED <<client_number, logging_number>>
    BY <1>3 DEF MainStep, Redo, ToBeMaster, Lost, Won, SkipLoad, SkipStore, DoHeartbeat, Beaten,
                Restart, serverVars
  <2>2. main' = "cn_cv" => client_number # 0
    BY <1>3 DEF MainStep, Redo, ToBeMaster, Lost, Won, SkipLoad, SkipStore, DoHeartbeat, Beaten,
                Restart, serverVars, CondInv
  <2>3. main' = "ln_cv" => logging_number # 0
    BY <1>3 DEF MainStep, Redo, ToBeMaster, Lost, Won, SkipLoad, SkipStore, DoHeartbeat, Beaten,
                Restart, serverVars, CondInv
  <2> QED BY <2>1, <2>2, <2>3 DEF CondInv
<1> QED BY <1>1, <1>2, <1>3 DEF Next, vars, serverVars

\* A worker that steps keeps its lock until it gives it back, and takes only one that is
\* free.
LEMMA NextLock == ASSUME SInv, LockInv, [Next]_vars PROVE LockInv'
<1>0. /\ worker \in [Client -> WorkerRecord] /\ key_lock \in [Key -> Client \cup {None}]
      /\ KeyOf \in [Client -> Key]
  BY KeyAssumption DEF SInv, TypeOK, WorkerInv
<1>1. CASE UNCHANGED <<worker, key_lock>>
  BY <1>1 DEF LockInv, Holds
<1>2. ASSUME key_lock' = key_lock, \A c \in Client : Holds(c) => Holds(c)' PROVE LockInv'
  BY <1>0, <1>2 DEF LockInv
<1>3. ASSUME NEW c \in Client, Serve(c) \/ Request(c) PROVE LockInv'
  <2>1. CASE PutLock(c)
    <3>1. /\ key_lock' = [key_lock EXCEPT ![KeyOf[c]] = c]
          /\ worker' = [worker EXCEPT ![c].pc = "log_prologue"]
      BY <2>1 DEF PutLock, Move
    <3>2. \A d \in Client : Holds(d) => Holds(d)'
      BY <1>0, <3>1 DEF Holds, WorkerRecord
    <3>3. Holds(c)'
      BY <1>0, <3>1 DEF Holds, WorkerRecord
    <3> QED BY <1>0, <3>1, <3>2, <3>3 DEF LockInv
  <2>2. CASE PutUpdate(c)
    <3>1. /\ key_lock' = [key_lock EXCEPT ![KeyOf[c]] = None]
          /\ worker' = [worker EXCEPT ![c].pc = "epilogue"]
      BY <2>2 DEF PutUpdate, Move
    <3>2. \A d \in Client : d # c /\ Holds(d) => Holds(d)'
      BY <1>0, <3>1 DEF Holds
    <3> QED BY <1>0, <3>1, <3>2 DEF LockInv
  <2>3. CASE LogEpilogue(c)
    <3>1. key_lock' = key_lock
      BY <2>3 DEF LogEpilogue
    <3>2. ASSUME NEW d \in Client, Holds(d) PROVE Holds(d)'
      <4>1. CASE d = c
        BY <2>3, <4>1, LogEpilogueWorkers DEF Holds
      <4>2. CASE d # c
        <5>1. \/ worker'[d] = worker[d]
              \/ Is(d, "ln_cv2") /\ worker'[d] = [worker[d] EXCEPT !.pc = "log_prologue"]
          BY <2>3, <4>2, LogEpilogueWorkers
        <5> QED BY <1>0, <3>2, <5>1 DEF Holds, WorkerRecord
      <4> QED BY <4>1, <4>2
    <3> QED BY <1>2, <3>1, <3>2
  <2>4. CASE LogPrologue(c)
    <3>1. /\ \E p \in {"ln_cv2", "log"} : worker' = [worker EXCEPT ![c].pc = p]
          /\ key_lock' = key_lock
      BY <2>4 DEF LogPrologue, Move
    <3> QED BY <1>0, <1>2, <3>1 DEF Holds, WorkerRecord
  <2>5. CASE Get(c) \/ Epilogue(c) \/ \E op, v : Prologue(c, op, v)
    <3>1. /\ ~Holds(c) /\ key_lock' = key_lock
          /\ \A d \in Client : d # c => worker'[d] = worker[d]
      BY <1>0, <2>5 DEF Get, Epilogue, Prologue, Holds, Is
    <3> QED BY <1>2, <3>1 DEF Holds
  <2> QED BY <1>1, <1>3, <2>1, <2>2, <2>3, <2>4, <2>5 DEF Serve, Request, NotPrimary, serverVars
<1>4. CASE MainStep
  BY <1>1, <1>4 DEF MainStep, Redo, ToBeMaster, Lost, Won, SkipLoad, SkipStore, DoHeartbeat, Beaten,
                    Restart, serverVars
<1> QED BY <1>1, <1>3, <1>4 DEF Next, vars, serverVars

\* What a step of log() does to the mutexes.
LEMMA LogStepMutexes ==
    ASSUME SInv, NEW t \in Thread, LogStep(t)
    PROVE  /\ \/ mh_mutex' = None
              \/ mh_mutex' = t /\ At(t, "store")'
              \/ mh_mutex' = mh_mutex /\ ~At(t, "store")
           /\ \/ rw_mutex' = None
              \/ rw_mutex' = t /\ Moves(t)'
              \/ rw_mutex' = rw_mutex /\ (Moves(t) => Moves(t)')
<1> USE DEF At, Goto, Ret, Moves
<1>0. calls \in [Thread -> Frame]
  BY DEF SInv, TypeOK
<1>1. CASE PrologueLoad(t)
  BY <1>0, <1>1 DEF PrologueLoad, Frame
<1>2. CASE PrologueStore(t)
  BY <1>0, <1>2 DEF PrologueStore, Frame
<1>3. CASE MoveMark(t)
  BY <1>0, <1>3 DEF MoveMark, Frame
<1>4. CASE MoveTest(t)
  BY <1>0, <1>4 DEF MoveTest, Frame
<1>5. CASE MoveAdvance(t)
  BY <1>0, <1>5 DEF MoveAdvance, Frame
<1>6. CASE Failed(t) \/ PrologueNumber(t) \/ Prepare(t) \/ AcceptTimeout(t) \/ AcceptLearn(t)
           \/ EpilogueFailure(t) \/ EpilogueNextTry(t) \/ SetFailure(t)
  <2>1. UNCHANGED <<mh_mutex, rw_mutex>> /\ ~At(t, "store") /\ ~Moves(t)
    BY <1>6 DEF Failed, PrologueNumber, Prepare, AcceptTimeout, AcceptLearn,
                EpilogueFailure, EpilogueNextTry, SetFailure
  <2> QED BY <2>1
<1> QED BY <1>1, <1>2, <1>3, <1>4, <1>5, <1>6 DEF LogStep

\* A mutex is taken and given back by log() alone, and no thread leaves log() with one.
LEMMA NextMutex == ASSUME SInv, MutexInv, [Next]_vars PROVE MutexInv'
<1>0. /\ calls \in [Thread -> Frame]
      /\ mh_mutex \in Thread \cup {None} /\ rw_mutex \in Thread \cup {None}
  BY DEF SInv, TypeOK
<1>1. ASSUME NEW t \in Thread, LogStep(t) PROVE MutexInv'
  <2>1. \A u \in Thread : u # t => calls'[u] = calls[u]
    BY <1>1, OtherFrames
  <2>2. mh_mutex' # None => At(mh_mutex, "store")'
    BY <1>0, <1>1, <2>1, LogStepMutexes DEF MutexInv, At
  <2>3. rw_mutex' # None => Moves(rw_mutex)'
    BY <1>0, <1>1, <2>1, LogStepMutexes DEF MutexInv, Moves
  <2> QED BY <2>2, <2>3 DEF MutexInv
<1>2. ASSUME UNCHANGED <<mh_mutex, rw_mutex>>,
             \A u \in Thread : calls[u].pc \notin {"out", "ret"} => calls'[u] = calls[u]
      PROVE  MutexInv'
  BY <1>0, <1>2 DEF MutexInv, At, Moves
<1>3. ASSUME NEW t \in Thread, calls[t].pc \in {"out", "ret"},
             LeaveLog(t) \/ (\E r, st : EnterLog(t, r, st)), UNCHANGED <<mh_mutex, rw_mutex>>
      PROVE  MutexInv'
  <2>1. \A u \in Thread : u # t => calls'[u] = calls[u]
    BY <1>3, OtherFrames
  <2> QED BY <1>2, <1>3, <2>1
<1>4. CASE UNCHANGED <<mh_mutex, rw_mutex, calls>>
  BY <1>2, <1>4
<1>5. ASSUME NEW c \in Client, Serve(c) \/ Request(c) PROVE MutexInv'
  <2>1. c \in Thread /\ (Is(c, "log") <=> ~At(c, "out"))
    BY Threads DEF SInv, WorkerInv, WorkerFine
  <2>2. CASE LogPrologue(c)
    <3>1. calls[c].pc = "out" /\ UNCHANGED <<mh_mutex, rw_mutex>>
      BY <2>1, <2>2 DEF LogPrologue, Is, At
    <3>2. UNCHANGED calls \/ \E r, st : EnterLog(c, r, st)
      BY <2>2 DEF LogPrologue
    <3> QED BY <1>3, <1>4, <2>1, <3>1, <3>2
  <2>3. CASE LogEpilogue(c)
    <3>1. calls[c].pc = "ret" /\ LeaveLog(c) /\ UNCHANGED <<mh_mutex, rw_mutex>>
      BY <2>3 DEF LogEpilogue, At
    <3> QED BY <1>3, <2>1, <3>1
  <2> QED BY <1>1, <1>4, <1>5, <2>1, <2>2, <2>3 DEF Serve, Request, Get, PutLock, PutUpdate,
             Epilogue, Prologue, NotPrimary, logVars
<1>6. CASE MainStep
  <2>0. Main \in Thread
    BY Threads
  <2>1. CASE LogStep(Main)
    BY <1>1, <2>0, <2>1
  <2>2. CASE ToBeMaster \/ DoHeartbeat
    <3>1. calls[Main].pc = "out" /\ UNCHANGED <<mh_mutex, rw_mutex>>
      BY <2>2 DEF ToBeMaster, DoHeartbeat, SInv, MainInv, At
    <3>2. UNCHANGED calls \/ \E r, st : EnterLog(Main, r, st)
      BY <2>2 DEF ToBeMaster, DoHeartbeat
    <3> QED BY <1>3, <1>4, <2>0, <3>1, <3>2
  <2>3. CASE Lost \/ Won \/ Beaten
    <3>1. calls[Main].pc = "ret" /\ LeaveLog(Main) /\ UNCHANGED <<mh_mutex, rw_mutex>>
      BY <2>3 DEF Lost, Won, Beaten, Reset, Returns, At
    <3> QED BY <1>3, <2>0, <3>1
  <2>4. CASE Redo \/ SkipLoad \/ SkipStore \/ Restart
    <3>1. UNCHANGED <<mh_mutex, rw_mutex, calls>>
      BY <2>4 DEF Redo, NextRecord, SkipLoad, SkipStore, Restart, Reset, logVars
    <3> QED BY <1>4, <3>1
  <2> QED BY <1>6, <2>1, <2>2, <2>3, <2>4 DEF MainStep
<1> QED BY <1>1, <1>4, <1>5, <1>6 DEF Next, vars, logVars

\* Of the threads of a server, whatever its clients, each waits for one further on: restart
\* for a worker, the heartbeat for a log, a worker at a key for one past the lock, and a
\* thread at a head for one inside its section (kvs_server::restart, doheartbeat,
\* tiny_table::lock, replicated_log::prologue and move_head).
THEOREM NoWaitIsForNobody == Spec => []SomebodyEndsTheWait
<1>1. Init => CondInv /\ LockInv /\ MutexInv
  BY KeyAssumption DEF Init, LogInit, CondInv, LockInv, MutexInv
<1>2. SInv /\ CondInv /\ [Next]_vars => CondInv'
  BY NextCond
<1>3. SInv /\ LockInv /\ [Next]_vars => LockInv'
  BY NextLock
<1>4. SInv /\ MutexInv /\ [Next]_vars => MutexInv'
  BY NextMutex
<1>5. SInv /\ CondInv /\ LockInv /\ MutexInv => SomebodyEndsTheWait
  <2> SUFFICES ASSUME SInv, CondInv, LockInv, MutexInv PROVE SomebodyEndsTheWait
    OBVIOUS
  <2>1. client_number # 0 => \E c \in Client : ~Is(c, "idle")
    BY FS_EmptySet DEF SInv, CountInv, Busy
  <2>2. logging_number # 0 => \E c \in Client : Is(c, "log")
    BY FS_EmptySet DEF SInv, CountInv, Logging
  <2> QED BY <2>1, <2>2 DEF CondInv, LockInv, MutexInv, Holds, Moves, SomebodyEndsTheWait
<1> QED BY <1>1, <1>2, <1>3, <1>4, <1>5, ServerInvariant, PTL DEF Spec

-----------------------------------------------------------------------------
(***************************************************************************)
(* The server implements the key-value store.                              *)
(***************************************************************************)
\* The requests of the store.
Asked == [w \in Client |-> Requested(w)]

\* Only the request of c changes.
LEMMA OneRequest ==
    ASSUME NEW c \in Client, \A w \in Client : w # c => worker'[w] = worker[w]
    PROVE  Asked' = [Asked EXCEPT ![c] = Requested(c)']
<1>1. ASSUME NEW w \in Client, w # c PROVE Requested(w)' = Requested(w)
  BY <1>1 DEF Requested, Is
<1> QED BY <1>1 DEF Asked

\* No request changes.
LEMMA NoRequest ==
    ASSUME \A w \in Client :
              \/ worker'[w] = worker[w]
              \/ /\ worker[w].pc \notin {"idle", "epilogue"}
                 /\ worker'[w].pc \notin {"idle", "epilogue"}
                 /\ worker'[w].op = worker[w].op /\ worker'[w].val = worker[w].val
    PROVE  Asked' = Asked
<1>1. ASSUME NEW w \in Client PROVE Requested(w)' = Requested(w)
  BY <1>1 DEF Requested, Is
<1> QED BY <1>1 DEF Asked

\* The store's view of a request that is made and of one that is done.
LEMMA IsPending ==
    ASSUME NEW c \in Client, NEW op, Asked[c].state = "pending", Asked[c].op = op
    PROVE  Store!Pending(c, op)
BY DEF Store!Pending, Asked

LEMMA Finished ==
    ASSUME NEW c \in Client, NEW v, NEW status, NEW op, Asked[c].op = op,
           Asked' = [Asked EXCEPT ![c] = [state |-> status, op |-> op, val |-> v]]
    PROVE  Store!Finish(c, status, v)
BY DEF Store!Finish, Asked

\* What is logged only grows.
LEMMA LogGrows == ASSUME SInv, [Next]_vars PROVE Store!Grows
BY FailureStays DEF Store!Grows

\* A step that touches neither the table nor what the clients see: nothing, or a record.
LEMMA LogOrStutter ==
    ASSUME SInv, [Next]_vars, local_db' = local_db, Asked' = Asked
    PROVE  Store!SNext
<1>1. Store!Log
  BY LogGrows DEF Store!Log, Asked
<1> QED BY <1>1 DEF Store!SNext

\* A worker's steps, but for its steps inside log().
LEMMA WorkerStep ==
    ASSUME SInv, NEW c \in Client, Serve(c) \/ Request(c)
    PROVE  [Store!SNext]_(Store!svars)
<1>0. /\ worker \in [Client -> WorkerRecord] /\ WorkerFine(c) /\ KeyOf[c] \in Key
      /\ [Next]_vars
  BY KeyAssumption DEF SInv, WorkerInv, Next
<1>2. Asked[c] = Requested(c)
  BY DEF Asked
<1>3. ASSUME NEW r, worker' = [worker EXCEPT ![c] = r]
      PROVE  worker'[c] = r /\ Asked' = [Asked EXCEPT ![c] = Requested(c)']
  <2>1. worker'[c] = r /\ \A w \in Client : w # c => worker'[w] = worker[w]
    BY <1>0, <1>3
  <2> QED BY <2>1, OneRequest
<1>4. ASSUME NEW op \in {"get", "put"}, NEW v, Prologue(c, op, v),
             op = "get" => v = Default, op = "put" => v \in Value
      PROVE  Store!SNext
  <2>1. /\ worker' = [worker EXCEPT ![c] = [pc |-> "lock", op |-> op, val |-> v, ok |-> TRUE]]
        /\ UNCHANGED <<local_db, decided>>
    BY <1>4 DEF Prologue, logVars
  <2>2. Requested(c)' = [state |-> "pending", op |-> op, val |-> v]
    <3>1. /\ worker'[c].pc = "lock" /\ worker'[c].op = op /\ worker'[c].val = v
      BY <1>0, <2>1
    <3> QED BY <3>1 DEF Requested, Is
  <2>3. Asked[c].state = "idle"
    BY <1>2, <1>4 DEF Prologue, Requested, Is
  <2>4. Asked' = [Asked EXCEPT ![c] = [state |-> "pending", op |-> op, val |-> v]]
    BY <1>3, <2>1, <2>2
  <2>5. Store!Call(c, op, v)
    BY <2>1, <2>3, <2>4 DEF Store!Call, Store!Idle, Asked
  <2> QED BY <1>4, <2>5 DEF Store!SNext
<1>5. CASE Request(c)
  <2>1. CASE NotPrimary(c)
    BY <1>0, <2>1, NoRequest, LogOrStutter DEF NotPrimary
  <2>2. CASE Prologue(c, "get", Default)
    BY <1>4, <2>2
  <2>3. ASSUME NEW v \in Value, Prologue(c, "put", v) PROVE Store!SNext
    BY <1>4, <2>3
  <2> QED BY <1>5, <2>1, <2>2, <2>3 DEF Request
<1>6. CASE Get(c)
  <2>1. /\ worker' = [worker EXCEPT ![c] = [worker[c] EXCEPT !.pc = "epilogue",
                                                             !.val = local_db[KeyOf[c]]]]
        /\ UNCHANGED <<local_db, decided>> /\ Is(c, "lock") /\ worker[c].op = "get"
    BY <1>6 DEF Get, logVars
  <2>2. worker[c].ok = TRUE
    BY <1>0, <2>1 DEF WorkerFine, WorkerRecord, Is
  <2>3. Requested(c) = [state |-> "pending", op |-> "get", val |-> worker[c].val]
    BY <2>1 DEF Requested, Is
  <2>4. Requested(c)' = [state |-> "OK", op |-> "get", val |-> local_db[KeyOf[c]]]
    BY <1>0, <1>3, <2>1, <2>2 DEF Requested, Is, WorkerRecord
  <2>5. Asked' = [Asked EXCEPT ![c] = [state |-> "OK", op |-> "get", val |-> local_db[KeyOf[c]]]]
    BY <1>3, <2>1, <2>4
  <2>6. Store!Pending(c, "get") /\ Store!Finish(c, "OK", local_db[KeyOf[c]])
    <3>1. Asked[c].state = "pending" /\ Asked[c].op = "get"
      BY <1>2, <2>3
    <3> QED BY <2>5, <3>1, IsPending, Finished
  <2>7. Store!DoGet(c)
    BY <2>1, <2>6 DEF Store!DoGet
  <2> QED BY <2>7 DEF Store!SNext
<1>7. CASE PutLock(c) \/ LogPrologue(c)
  <2>1. PICK p \in {"log_prologue", "ln_cv2", "log"} : worker' = [worker EXCEPT ![c].pc = p]
    BY <1>7 DEF PutLock, LogPrologue, Move
  <2>2. worker[c].pc \in {"lock", "log_prologue"} /\ local_db' = local_db
    BY <1>7 DEF PutLock, LogPrologue, Is
  <2>3. Asked' = Asked
    BY <1>0, <2>1, <2>2, NoRequest DEF WorkerRecord
  <2> QED BY <1>0, <2>2, <2>3, LogOrStutter
<1>8. CASE LogStep(c) /\ UNCHANGED serverVars
  BY <1>0, <1>8, NoRequest, LogOrStutter DEF serverVars
<1>9. CASE LogEpilogue(c)
  <2>1. /\ Is(c, "log") /\ worker'[c].pc = "update" /\ worker'[c].op = worker[c].op
        /\ worker'[c].val = worker[c].val
        /\ \A w \in Client : w # c =>
              \/ worker'[w] = worker[w]
              \/ /\ worker[w].pc = "ln_cv2" /\ worker'[w].pc = "log_prologue"
                 /\ worker'[w].op = worker[w].op /\ worker'[w].val = worker[w].val
    <3>1. worker[c] \in WorkerRecord /\ \A w \in Client : worker[w] \in WorkerRecord
      BY <1>0
    <3>2. Is(c, "log") /\ worker'[c].pc = "update" /\ worker'[c].op = worker[c].op
          /\ worker'[c].val = worker[c].val
      BY <1>9, LogEpilogueWorkers
    <3>3. ASSUME NEW w \in Client, w # c
          PROVE  \/ worker'[w] = worker[w]
                 \/ /\ worker[w].pc = "ln_cv2" /\ worker'[w].pc = "log_prologue"
                    /\ worker'[w].op = worker[w].op /\ worker'[w].val = worker[w].val
      <4>1. \/ worker'[w] = worker[w]
            \/ Is(w, "ln_cv2") /\ worker'[w] = [worker[w] EXCEPT !.pc = "log_prologue"]
        BY <1>9, <3>3, LogEpilogueWorkers
      <4> QED BY <3>1, <4>1 DEF WorkerRecord, Is
    <3> QED BY <3>2, <3>3
  <2>2. Asked' = Asked
    BY <2>1, NoRequest DEF Is
  <2> QED BY <1>0, <1>9, <2>2, LogOrStutter DEF LogEpilogue
<1>10. CASE PutUpdate(c)
  <2> DEFINE v == worker[c].val
  <2>1. /\ worker' = [worker EXCEPT ![c] = [worker[c] EXCEPT !.pc = "epilogue"]]
        /\ decided' = decided /\ Is(c, "update")
    BY <1>10 DEF PutUpdate, Move, logVars
  <2>2. worker[c].op = "put" /\ v \in Value
    BY <1>0, <2>1 DEF WorkerFine, Is
  <2>3. Requested(c) = [state |-> "pending", op |-> "put", val |-> v]
    BY <2>1, <2>2 DEF Requested, Is
  <2>4. Asked[c].state = "pending" /\ Asked[c].op = "put" /\ Asked[c].val = v
    BY <1>2, <2>3
  <2> HIDE DEF v
  <2>5. Store!Pending(c, "put")
    BY <2>4, IsPending
  <2>6. CASE worker[c].ok
    <3>1. Requested(c)' = [state |-> "OK", op |-> "put", val |-> v]
      BY <1>0, <1>3, <2>1, <2>2, <2>6 DEF v,  Requested, Is, WorkerRecord
    <3>2. Asked' = [Asked EXCEPT ![c] = [state |-> "OK", op |-> "put", val |-> v]]
      BY <1>3, <2>1, <3>1
    <3>3. local_db' = [local_db EXCEPT ![KeyOf[c]] = v]
      BY <1>10, <2>6 DEF PutUpdate, v
    <3>4. Store!HasPut(decided, KeyOf[c], v)
      BY <1>0, <2>1, <2>6 DEF v, WorkerFine, Update, Store!HasPut
    <3>5. Store!DoPut(c)
      <4>1. Store!Finish(c, "OK", v)
        BY <2>4, <3>2, Finished
      <4> QED BY <2>1, <2>4, <2>5, <3>3, <3>4, <4>1 DEF Store!DoPut, Asked
    <3> QED BY <3>5 DEF Store!SNext
  <2>7. CASE ~worker[c].ok
    <3>1. Requested(c)' = [state |-> "FAIL", op |-> "put", val |-> v]
      BY <1>0, <1>3, <2>1, <2>2, <2>7 DEF v,  Requested, Is, WorkerRecord
    <3>2. Asked' = [Asked EXCEPT ![c] = [state |-> "FAIL", op |-> "put", val |-> v]]
      BY <1>3, <2>1, <3>1
    <3>3. local_db' = local_db
      BY <1>10, <2>7 DEF PutUpdate
    <3>4. Store!Fail(c)
      <4>1. Store!Finish(c, "FAIL", v)
        BY <2>4, <3>2, Finished
      <4> QED BY <2>1, <2>4, <2>5, <3>3, <4>1 DEF Store!Fail, Asked
    <3> QED BY <3>4 DEF Store!SNext
  <2> QED BY <2>6, <2>7
<1>11. CASE Epilogue(c)
  <2>1. /\ worker' = [worker EXCEPT ![c] = Resting] /\ UNCHANGED <<local_db, decided>>
        /\ Is(c, "epilogue")
    BY <1>11 DEF Epilogue, logVars
  <2>2. Requested(c)' = Store!Idle
    <3>1. worker'[c] = Resting
      BY <1>0, <2>1
    <3> QED BY <3>1 DEF Requested, Is, Resting, Store!Idle
  <2>3. Asked[c].state \in {"OK", "FAIL"}
    BY <1>2, <2>1 DEF Requested, Is
  <2>4. Asked' = [Asked EXCEPT ![c] = Store!Idle]
    BY <1>3, <2>1, <2>2
  <2>5. Store!Answer(c)
    BY <2>1, <2>3, <2>4 DEF Store!Answer, Asked
  <2> QED BY <2>5 DEF Store!SNext
<1> QED BY <1>5, <1>6, <1>7, <1>8, <1>9, <1>10, <1>11 DEF Serve

\* Reading the log changes the table while nobody is served.
LEMMA RedoStep == ASSUME SInv, Redo PROVE Store!SNext
<1>0. /\ \A w \in Client : worker[w].pc = "idle" /\ worker' = worker
      /\ [Next]_vars /\ local_db \in [Key -> Value \cup {Default}]
  BY DEF Redo, SInv, MainInv, Busy, Is, Next, MainStep, TypeOK
<1>1. Asked' = Asked
  BY <1>0, NoRequest
<1>2. PICK rec \in Readable(rwhead) :
        /\ NextRecord(rec, IF rec = BeMaster THEN window_size ELSE 0)
        /\ local_db' = IF rec.type = "UPDATE"
                       THEN [local_db EXCEPT ![rec.key] = rec.val] ELSE local_db
  BY DEF Redo
<1>3. CASE rec.type = "UPDATE"
  <2>1. rec \in [type : {"UPDATE"}, key : Key, val : Value]
    BY <1>3, ReadableRecords, Records DEF Record
  <2>2. /\ rec = [type |-> "UPDATE", key |-> rec.key, val |-> rec.val]
        /\ rec.key \in Key /\ rec.val \in Value
    BY <2>1
  <2>3. Store!HasPut(decided', rec.key, rec.val)
    <3>1. [slot |-> rwhead, rec |-> rec] \in decided'
      BY <1>2 DEF NextRecord
    <3> QED BY <2>2, <3>1 DEF Store!HasPut
  <2>4. local_db' = [local_db EXCEPT ![rec.key] = rec.val]
    BY <1>2, <1>3
  <2>5. \A w \in Client : Asked[w].state = "idle"
    BY <1>0 DEF Asked, Requested, Is
  <2>6. Store!Replay
    BY <1>0, <1>1, <2>2, <2>3, <2>4, <2>5, LogGrows DEF Store!Replay, Asked
  <2> QED BY <2>6 DEF Store!SNext
<1>4. CASE rec.type # "UPDATE"
  BY <1>0, <1>1, <1>2, <1>4, LogOrStutter
<1> QED BY <1>3, <1>4

\* Every step of the server is one of the store, or changes nothing there.
LEMMA StoreStep == ASSUME SInv, [Next]_vars PROVE [Store!SNext]_(Store!svars)
<1>1. CASE UNCHANGED vars
  <2>1. Asked' = Asked /\ UNCHANGED <<local_db, decided>>
    BY <1>1, NoRequest DEF vars, serverVars, logVars
  <2> QED BY <2>1 DEF Store!svars, Asked
<1>2. ASSUME MainStep, ~Redo PROVE Store!SNext
  <2>1. worker' = worker /\ local_db' = local_db
    BY <1>2 DEF MainStep, ToBeMaster, Lost, Won, SkipLoad, SkipStore, DoHeartbeat, Beaten,
                Restart, serverVars
  <2> QED BY <2>1, NoRequest, LogOrStutter
<1> QED BY <1>1, <1>2, RedoStep, WorkerStep DEF Next

\* Each key of a server is a register to its clients: every request takes effect at once
\* between its call and its answer, a put answered OK after it was logged and one that
\* failed not at all, and the log brings other values in only while nobody is served
\* (kvs_server::get, put, epilogue, restart, redo).
THEOREM EachKeyIsARegister == Spec => ImplementsStore
<1>1. Init => Store!SInit
  <2> SUFFICES ASSUME Init PROVE Store!SInit
    OBVIOUS
  <2>1. \A w \in Client : Requested(w) = Store!Idle
    BY DEF Init, Requested, Is, Resting, Store!Idle
  <2> QED BY <2>1 DEF Init, LogInit, Store!SInit
<1>2. SInv /\ [Next]_vars => [Store!SNext]_(Store!svars)
  BY StoreStep
<1> QED BY <1>1, <1>2, ServerInvariant, PTL DEF Spec, ImplementsStore, Store!SSpec
=============================================================================
