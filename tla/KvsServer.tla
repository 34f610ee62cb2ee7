----------------------------- MODULE KvsServer -----------------------------
(***************************************************************************)
(* One kvs_server: its main thread, which reads the log, runs for master   *)
(* and beats while it is master, and the worker threads of its clients,    *)
(* which put and get through the log and the table.  The clients behave as *)
(* those of eval-c.cc: each works on its own key, remembers the value of   *)
(* its last successful put, and stops, or stops checking, once a request   *)
(* fails.                                                                  *)
(***************************************************************************)
EXTENDS ReplicatedLog

CONSTANTS
    Client,         \* the clients, each with one worker thread
    Main,           \* the thread in kvs_server::start
    Key, Value,     \* keys, and the values that clients put
    KeyOf,          \* the key a client works on
    Requests,       \* bound: the requests they make, among "get" and "put"
    Checking,       \* bound: the clients that compare what they read with what they put
    Persistent,     \* bound: the clients that go on when they do not compare any more
    Default,        \* the value of a key nobody has put
    window_size,    \* slots a master skips, and puts it logs at a time
    MaxTry          \* bound: the server runs for master while next_try is at most this

ASSUME ThreadAssumption == Thread = Client \cup {Main} /\ Main \notin Client
ASSUME KeyAssumption == KeyOf \in [Client -> Key]
ASSUME WindowAssumption == window_size \in Nat \ {0} /\ MaxTry \in Nat

Update(c, v) == [type |-> "UPDATE", key |-> KeyOf[c], val |-> v]
Heartbeat == [type |-> "HEARTBEAT"]

\* What any server logs.
Record == {BeMaster, Heartbeat} \cup [type : {"UPDATE"}, key : Key, val : Value]

ASSUME RecordAssumption == BeMaster = [type |-> "BEMASTER"] /\ Foreign \subseteq Record
ASSUME ClientAssumption == IsFiniteSet(Client)

VARIABLES
    main,           \* where the main thread is
    skip_head,      \* the rwhead that skip() has loaded
    am_i_primary, client_number,
    logging_number,
    local_db,
    key_lock,       \* key_lock[k]: the worker that holds the lock of k, or None
    worker,         \* worker[c]: where the worker of c is, its request and its value
    thevalue        \* thevalue[c]: the value c expects to read, None once it stops

serverVars == <<main, skip_head, am_i_primary, client_number, logging_number,
                local_db, key_lock, worker, thevalue>>
vars == <<logVars, serverVars>>

Resting == [pc |-> "idle", op |-> "get", val |-> Default, ok |-> TRUE]

Init ==
    /\ LogInit
    /\ main = "recover" /\ skip_head = 0
    /\ am_i_primary = FALSE /\ client_number = 0 /\ logging_number = 0
    /\ local_db = [k \in Key |-> Default]
    /\ key_lock = [k \in Key |-> None]
    /\ worker = [c \in Client |-> Resting]
    /\ thevalue = [c \in Client |-> IF c \in Checking THEN Default ELSE None]

-----------------------------------------------------------------------------
(***************************************************************************)
(* The workers: callback, get and put.                                     *)
(***************************************************************************)
Is(c, pc) == worker[c].pc = pc
Move(c, pc) == worker' = [worker EXCEPT ![c].pc = pc]

\* Mutant of NotPrimary: epilogue runs although prologue refused.
NotPrimaryEpilogue(c) ==
    /\ Is(c, "idle")
    /\ ~am_i_primary
    /\ client_number' = client_number - 1
    /\ thevalue' = [thevalue EXCEPT ![c] = None]
    /\ UNCHANGED <<logVars, main, skip_head, am_i_primary, logging_number,
                   local_db, key_lock, worker>>

NotPrimary(c) ==
    /\ Is(c, "idle")
    /\ ~am_i_primary
    /\ thevalue' = [thevalue EXCEPT ![c] = None]
    /\ UNCHANGED <<logVars, main, skip_head, am_i_primary, client_number,
                   logging_number, local_db, key_lock, worker>>

Prologue(c, op, v) ==
    /\ Is(c, "idle")
    /\ am_i_primary
    /\ client_number' = client_number + 1
    /\ worker' = [worker EXCEPT ![c] = [pc |-> "lock", op |-> op, val |-> v, ok |-> TRUE]]
    /\ UNCHANGED <<logVars, main, skip_head, am_i_primary, logging_number,
                   local_db, key_lock, thevalue>>

Get(c) ==
    /\ Is(c, "lock") /\ worker[c].op = "get"
    /\ key_lock[KeyOf[c]] = None
    /\ worker' = [worker EXCEPT ![c].pc = "epilogue", ![c].val = local_db[KeyOf[c]]]
    /\ UNCHANGED <<logVars, main, skip_head, am_i_primary, client_number,
                   logging_number, local_db, key_lock, thevalue>>

PutLock(c) ==
    /\ Is(c, "lock") /\ worker[c].op = "put"
    /\ key_lock[KeyOf[c]] = None
    /\ key_lock' = [key_lock EXCEPT ![KeyOf[c]] = c]
    /\ Move(c, "log_prologue")
    /\ UNCHANGED <<logVars, main, skip_head, am_i_primary, client_number,
                   logging_number, local_db, thevalue>>

\* log_prologue, and the call of log() with the lease as its timeout.  A worker that
\* waits on ln_cv2 leaves only by a signal, and tests again.
LogPrologue(c) ==
    /\ Is(c, "log_prologue")
    /\ IF logging_number = window_size
       THEN /\ Move(c, "ln_cv2")
            /\ UNCHANGED <<logging_number, calls>>
       ELSE /\ Move(c, "log")
            /\ logging_number' = logging_number + 1
            /\ EnterLog(c, Update(c, worker[c].val), TRUE)
    /\ UNCHANGED <<failure, rwhead, movedhead, next_try, mv_window, mh_mutex,
                   rw_mutex, decided, file, main, skip_head, am_i_primary,
                   client_number, local_db, key_lock, thevalue>>

Waiters == {c \in Client : Is(c, "ln_cv2")}

\* Mutant of LogEpilogue: logging_number is decremented before it is compared.
LogEpilogueLate(c) ==
    /\ Is(c, "log") /\ At(c, "ret")
    /\ LeaveLog(c)
    /\ LET done == [worker EXCEPT ![c].pc = "update", ![c].ok = Returns(c, "OK")] IN
       IF logging_number - 1 = window_size /\ Waiters # {}
       THEN \E w \in Waiters : worker' = [done EXCEPT ![w].pc = "log_prologue"]
       ELSE worker' = done
    /\ logging_number' = logging_number - 1
    /\ main' = IF logging_number' = 0 /\ main = "ln_cv" THEN "heartbeat" ELSE main
    /\ UNCHANGED <<failure, rwhead, movedhead, next_try, mv_window, mh_mutex,
                   rw_mutex, decided, file, skip_head, am_i_primary,
                   client_number, local_db, key_lock, thevalue>>

\* log_epilogue: the signal to ln_cv2 wakes one waiter, if there is one; the signal
\* to ln_cv the main thread, if it waits to beat.
LogEpilogue(c) ==
    /\ Is(c, "log") /\ At(c, "ret")
    /\ LeaveLog(c)
    /\ LET done == [worker EXCEPT ![c].pc = "update", ![c].ok = Returns(c, "OK")] IN
       IF logging_number = window_size /\ Waiters # {}
       THEN \E w \in Waiters : worker' = [done EXCEPT ![w].pc = "log_prologue"]
       ELSE worker' = done
    /\ logging_number' = logging_number - 1
    /\ main' = IF logging_number' = 0 /\ main = "ln_cv" THEN "heartbeat" ELSE main
    /\ UNCHANGED <<failure, rwhead, movedhead, next_try, mv_window, mh_mutex,
                   rw_mutex, decided, file, skip_head, am_i_primary,
                   client_number, local_db, key_lock, thevalue>>

\* Mutant of PutUpdate: the table is updated whatever log() returned.
PutUpdateAlways(c) ==
    /\ Is(c, "update")
    /\ local_db' = [local_db EXCEPT ![KeyOf[c]] = worker[c].val]
    /\ key_lock' = [key_lock EXCEPT ![KeyOf[c]] = None]
    /\ Move(c, "epilogue")
    /\ UNCHANGED <<logVars, main, skip_head, am_i_primary, client_number,
                   logging_number, thevalue>>

\* The rest of put: the table is updated, under the lock of the key, only on OK.
PutUpdate(c) ==
    /\ Is(c, "update")
    /\ local_db' = IF worker[c].ok THEN [local_db EXCEPT ![KeyOf[c]] = worker[c].val]
                   ELSE local_db
    /\ key_lock' = [key_lock EXCEPT ![KeyOf[c]] = None]
    /\ Move(c, "epilogue")
    /\ UNCHANGED <<logVars, main, skip_head, am_i_primary, client_number,
                   logging_number, thevalue>>

\* Mutant of Epilogue: cn_cv is not signalled.
EpilogueSilent(c) ==
    /\ Is(c, "epilogue")
    /\ am_i_primary' = (am_i_primary /\ worker[c].ok)
    /\ client_number' = client_number - 1
    /\ worker' = [worker EXCEPT ![c] = Resting]
    /\ thevalue' = IF ~worker[c].ok THEN [thevalue EXCEPT ![c] = None]
                   ELSE IF worker[c].op = "put" /\ thevalue[c] # None
                   THEN [thevalue EXCEPT ![c] = worker[c].val]
                   ELSE thevalue
    /\ UNCHANGED <<logVars, main, skip_head, logging_number, local_db, key_lock>>

\* Mutant of Epilogue: every request ends the mastership.
EpilogueClears(c) ==
    /\ Is(c, "epilogue")
    /\ am_i_primary' = FALSE
    /\ client_number' = client_number - 1
    /\ main' = IF client_number' = 0 /\ main = "cn_cv" THEN "restart" ELSE main
    /\ worker' = [worker EXCEPT ![c] = Resting]
    /\ thevalue' = IF ~worker[c].ok THEN [thevalue EXCEPT ![c] = None]
                   ELSE IF worker[c].op = "put" /\ thevalue[c] # None
                   THEN [thevalue EXCEPT ![c] = worker[c].val]
                   ELSE thevalue
    /\ UNCHANGED <<logVars, skip_head, logging_number, local_db, key_lock>>

\* epilogue, and the answer to the client.
Epilogue(c) ==
    /\ Is(c, "epilogue")
    /\ am_i_primary' = (am_i_primary /\ worker[c].ok)
    /\ client_number' = client_number - 1
    /\ main' = IF client_number' = 0 /\ main = "cn_cv" THEN "restart" ELSE main
    /\ worker' = [worker EXCEPT ![c] = Resting]
    /\ thevalue' = IF ~worker[c].ok THEN [thevalue EXCEPT ![c] = None]
                   ELSE IF worker[c].op = "put" /\ thevalue[c] # None
                   THEN [thevalue EXCEPT ![c] = worker[c].val]
                   ELSE thevalue
    /\ UNCHANGED <<logVars, skip_head, logging_number, local_db, key_lock>>

Serve(c) ==
    \/ Get(c) \/ PutLock(c)
    \/ LogPrologue(c)
    \/ LogStep(c) /\ UNCHANGED serverVars
    \/ LogEpilogue(c)
    \/ PutUpdate(c) \/ Epilogue(c)

Request(c) ==
    /\ thevalue[c] # None \/ c \in Persistent
    /\ \/ NotPrimary(c)
       \/ "get" \in Requests /\ Prologue(c, "get", Default)
       \/ "put" \in Requests /\ \E v \in Value : Prologue(c, "put", v)

-----------------------------------------------------------------------------
(***************************************************************************)
(* The main thread: recover, to_be_master, serve.                          *)
(***************************************************************************)
\* recover read a record: redo() applies it, and skips the slots of a new master.
Redo ==
    /\ main = "recover"
    /\ \E rec \in Readable(rwhead) :
          /\ NextRecord(rec, IF rec = BeMaster THEN window_size ELSE 0)
          /\ local_db' = IF rec.type = "UPDATE"
                         THEN [local_db EXCEPT ![rec.key] = rec.val] ELSE local_db
    /\ UNCHANGED <<main, skip_head, am_i_primary, client_number, logging_number,
                   key_lock, worker, thevalue>>

\* recover read nothing before the lease and its delta had passed.
ToBeMaster ==
    /\ main = "recover"
    /\ NoRecord
    /\ next_try <= MaxTry
    /\ EnterLog(Main, BeMaster, FALSE)
    /\ main' = "to_be_master"
    /\ UNCHANGED <<failure, rwhead, movedhead, next_try, mv_window, mh_mutex,
                   rw_mutex, decided, file, skip_head, am_i_primary,
                   client_number, logging_number, local_db, key_lock, worker,
                   thevalue>>

Lost ==
    /\ main = "to_be_master"
    /\ At(Main, "ret") /\ ~Returns(Main, "OK")
    /\ LeaveLog(Main)
    /\ Reset
    /\ main' = "recover"
    /\ UNCHANGED <<skip_head, am_i_primary, client_number, logging_number,
                   local_db, key_lock, worker, thevalue>>

\* Clients are let in before the slots are skipped.
Won ==
    /\ main = "to_be_master"
    /\ Returns(Main, "OK")
    /\ LeaveLog(Main)
    /\ am_i_primary' = TRUE
    /\ main' = "skip"
    /\ UNCHANGED <<failure, rwhead, movedhead, next_try, mv_window, mh_mutex,
                   rw_mutex, decided, file, skip_head, client_number,
                   logging_number, local_db, key_lock, worker, thevalue>>

SkipLoad ==
    /\ main = "skip"
    /\ skip_head' = rwhead
    /\ main' = "skip_rwhead"
    /\ UNCHANGED <<logVars, am_i_primary, client_number, logging_number, local_db,
                   key_lock, worker, thevalue>>

SkipStore ==
    /\ \/ /\ main = "skip_rwhead"
          /\ rwhead' = skip_head + window_size
          /\ main' = "skip_movedhead"
          /\ UNCHANGED movedhead
       \/ /\ main = "skip_movedhead"
          /\ movedhead' = skip_head + window_size
          /\ main' = "heartbeat"
          /\ UNCHANGED rwhead
    /\ UNCHANGED <<failure, next_try, mv_window, mh_mutex, rw_mutex, calls, decided,
                   file, skip_head, am_i_primary, client_number, logging_number,
                   local_db, key_lock, worker, thevalue>>

\* doheartbeat: the beat waits until no put is being logged.
DoHeartbeat ==
    /\ main = "heartbeat"
    /\ IF logging_number # 0
       THEN main' = "ln_cv" /\ UNCHANGED calls
       ELSE main' = "beat" /\ EnterLog(Main, Heartbeat, TRUE)
    /\ UNCHANGED <<failure, rwhead, movedhead, next_try, mv_window, mh_mutex,
                   rw_mutex, decided, file, skip_head, am_i_primary,
                   client_number, logging_number, local_db, key_lock, worker,
                   thevalue>>

Beaten ==
    /\ main = "beat"
    /\ At(Main, "ret")
    /\ LeaveLog(Main)
    /\ IF Returns(Main, "OK")
       THEN main' = "heartbeat" /\ UNCHANGED am_i_primary
       ELSE main' = "restart" /\ am_i_primary' = FALSE
    /\ UNCHANGED <<failure, rwhead, movedhead, next_try, mv_window, mh_mutex,
                   rw_mutex, decided, file, skip_head, client_number,
                   logging_number, local_db, key_lock, worker, thevalue>>

\* Mutant of Restart: the workers are not waited for.
RestartAtOnce ==
    /\ main = "restart"
    /\ main' = "recover"
    /\ Reset
    /\ UNCHANGED <<calls, skip_head, am_i_primary, client_number, logging_number,
                   local_db, key_lock, worker, thevalue>>

\* restart, after it has cleared am_i_primary: wait for the workers, then reset.
Restart ==
    /\ main = "restart"
    /\ IF client_number # 0
       THEN /\ main' = "cn_cv"
            /\ UNCHANGED <<failure, rwhead, movedhead, next_try, mv_window,
                           mh_mutex, rw_mutex, decided, file>>
       ELSE /\ main' = "recover"
            /\ Reset
    /\ UNCHANGED <<calls, skip_head, am_i_primary, client_number, logging_number,
                   local_db, key_lock, worker, thevalue>>

MainStep ==
    \/ Redo \/ ToBeMaster \/ Lost \/ Won \/ SkipLoad \/ SkipStore
    \/ LogStep(Main) /\ UNCHANGED serverVars
    \/ DoHeartbeat \/ Beaten \/ Restart

Next == MainStep \/ \E c \in Client : Serve(c) \/ Request(c)

Spec == Init /\ [][Next]_vars

\* Threads run on: every wait but those on a condition variable is a mutex section or
\* a timed wait for paxos, and a signalled thread tests again.
FairSpec ==
    /\ Spec
    /\ WF_vars(MainStep)
    /\ \A c \in Client : WF_vars(Serve(c))

-----------------------------------------------------------------------------
FrameRecord == {None, BeMaster, Heartbeat} \cup {Update(c, v) : c \in Client, v \in Value}

Frame ==
    [pc : {"out", "failed", "prologue", "store", "number", "prepare", "accept",
           "fail", "retry", "set_failure", "move", "test", "advance", "ret"},
     stable : BOOLEAN, rec : FrameRecord,
     slot : Nat, seq : Nat \cup {-1}, r_l : {"OK", "FAIL", "TIMEOUT"}, first : BOOLEAN]

\* The heads, counters and locks keep their types.
TypeOK ==
    /\ failure \in BOOLEAN /\ am_i_primary \in BOOLEAN
    /\ {rwhead, movedhead, next_try, skip_head} \subseteq Nat
    /\ mv_window \subseteq Nat
    /\ {mh_mutex, rw_mutex} \subseteq Thread \cup {None}
    /\ calls \in [Thread -> Frame]
    /\ client_number \in 0 .. Cardinality(Client)
    /\ logging_number \in 0 .. window_size
    /\ local_db \in [Key -> Value \cup {Default}]
    /\ key_lock \in [Key -> Client \cup {None}]
    /\ thevalue \in [Client -> Value \cup {Default, None}]

\* The assertions of the calls that rely on being alone (replicated_log.cc:93 and
\* 173, kvs_server.cc:306): the heads agree when the log is read, there is a failure
\* whenever reset is called, by restart or after a lost election, and no client is
\* served when the server becomes master.
OwnerAssertions ==
    /\ main = "recover" => movedhead = rwhead /\ \A t \in Thread : At(t, "out")
    /\ main = "restart" /\ client_number = 0 => failure
    /\ main = "to_be_master" /\ At(Main, "ret") /\ ~Returns(Main, "OK") => failure
    /\ main = "to_be_master" => client_number = 0

\* However many threads fail in one term, next_try moves by one: the number of a
\* thread in log() is the present one or the one before.
OneTryPerTerm ==
    \A t \in Thread :
        calls[t].seq # Out.seq => calls[t].seq \in {next_try - 1, next_try}

\* The table only holds values whose record was told to the learners: a put that
\* timed out or lost the log shows in no later get, unless the log brings it back.
TableIsLogged ==
    \A k \in Key :
        local_db[k] # Default =>
            \E d \in decided : /\ d.rec.type = "UPDATE"
                              /\ d.rec.key = k /\ d.rec.val = local_db[k]

\* The server stops serving only because a log has failed, in this very term.
PrimaryUntilFailure == [][am_i_primary /\ ~am_i_primary' => failure]_vars

\* A client reads the value of its last put that succeeded (eval-c.cc:131, the
\* assertion of eval_performance).
ReadsOwnWrites ==
    \A c \in Client :
        Is(c, "epilogue") /\ worker[c].op = "get" /\ thevalue[c] # None
            => worker[c].val = thevalue[c]

\* A put waits for its turn only while another is at its own: somebody is left to
\* signal it.
NoPutForgotten ==
    Waiters # {} => \E c \in Client : Is(c, "log") \/ Is(c, "log_prologue")

\* Nobody waits for one that waits for him, or for nobody: the last worker to leave
\* signals cn_cv and the last log() to end signals ln_cv; the lock of a key is held by a
\* worker past it, and a mutex of the heads by a thread between its two ends.
SomebodyEndsTheWait ==
    /\ main = "cn_cv" => \E c \in Client : ~Is(c, "idle")
    /\ main = "ln_cv" => \E c \in Client : Is(c, "log")
    /\ \A k \in Key : key_lock[k] # None =>
          /\ KeyOf[key_lock[k]] = k
          /\ worker[key_lock[k]].pc \in {"log_prologue", "ln_cv2", "log", "update"}
    /\ mh_mutex # None => At(mh_mutex, "store")
    /\ rw_mutex # None => calls[rw_mutex].pc \in {"test", "advance"}

\* A server whose log failed gets back to reading the log, failure reset.
FailureEnds == failure ~> ~failure

\* Every request is answered, however the term ends.
PutReturns == \A c \in Client : ~Is(c, "idle") ~> Is(c, "idle")

-----------------------------------------------------------------------------
\* What a client sees of its worker: a request is done once the table has been read or
\* written, or is not going to be.
Requested(c) ==
    LET w == worker[c] IN
    [state |-> IF w.pc = "idle" THEN "idle" ELSE IF w.pc # "epilogue" THEN "pending"
               ELSE IF w.ok THEN "OK" ELSE "FAIL",
     op |-> w.op, val |-> w.val]

Store == INSTANCE KeyValueStore WITH
    value <- local_db, request <- [c \in Client |-> Requested(c)], log <- decided

\* Each key is a register: a request takes effect at once between its call and its answer,
\* a put that is answered OK after it was logged and one that failed not at all, whatever
\* other workers, the end of the term and the reset do meanwhile; and the log changes a
\* register only while nobody is served.
ImplementsStore == Store!SSpec
=============================================================================
