------------------------- MODULE KvsServerInvariant -------------------------
(***************************************************************************)
(* The inductive invariant of KvsServer: what a frame of log() says of     *)
(* failure, next_try and what was decided, and who is served in which      *)
(* state of the main thread.                                               *)
(***************************************************************************)
EXTENDS KvsServer

\* Every record that is decided, read or applied is one that some server logs.
RecordInv ==
    /\ \A d \in decided : d.rec \in Record
    /\ file \in [Slot -> Record \cup {None}]
    /\ \A t \in Thread : IF At(t, "out") THEN calls[t] = Out ELSE calls[t].rec \in Record

\* A frame of log(): a stable one never prepares, and its status goes with its place.
FrameInv == \A t \in Thread :
    /\ calls[t].stable => ~At(t, "prepare")
    /\ calls[t].pc \in {"move", "test", "advance"} => calls[t].r_l = "OK"
    /\ calls[t].pc \in {"fail", "retry", "set_failure"} => calls[t].r_l # "OK"
    /\ At(t, "retry") \/ (At(t, "ret") /\ calls[t].r_l # "OK") => failure
    /\ calls[t].pc \in {"move", "test", "advance", "ret"} /\ calls[t].r_l = "OK" =>
          \E d \in decided : d.rec = calls[t].rec

\* Who moves next_try: the one thread that found failure unset.
Retries(t) == At(t, "retry") /\ calls[t].first
TryInv ==
    /\ \A t \in Thread : calls[t].seq \in {-1, next_try - 1, next_try}
    /\ ~failure \/ (\E t \in Thread : Retries(t)) =>
          \A t \in Thread : calls[t].seq \in {-1, next_try}
    /\ \A t, u \in Thread : Retries(t) /\ Retries(u) => t = u

\* The workers between prologue and epilogue, and those in log().
Busy == {c \in Client : ~Is(c, "idle")}
Logging == {c \in Client : Is(c, "log")}
CountInv ==
    /\ client_number = Cardinality(Busy)
    /\ logging_number = Cardinality(Logging) /\ logging_number <= window_size

\* The main thread and its frame; whom the server serves meanwhile.
MainInv ==
    /\ main \in {"recover", "to_be_master", "skip", "skip_rwhead", "skip_movedhead",
                 "heartbeat", "ln_cv", "beat", "restart", "cn_cv"}
    /\ main \in {"to_be_master", "beat"} <=> ~At(Main, "out")
    /\ am_i_primary => main \in {"skip", "skip_rwhead", "skip_movedhead",
                                 "heartbeat", "ln_cv", "beat"}
    /\ main \in {"recover", "to_be_master"} => Busy = {}
    /\ main = "recover" => movedhead = rwhead
    /\ main \in {"restart", "cn_cv"} => failure

WorkerRecord ==
    [pc : {"idle", "lock", "log_prologue", "ln_cv2", "log", "update", "epilogue"},
     op : {"get", "put"}, val : Value \cup {Default}, ok : BOOLEAN]

\* A worker and its frame: what it logs is what it was asked to put, and a put that did
\* not end well means failure.
WorkerFine(c) ==
    /\ Is(c, "log") <=> ~At(c, "out")
    /\ Is(c, "log") => calls[c].stable /\ calls[c].rec = Update(c, worker[c].val)
    /\ worker[c].pc \in {"log_prologue", "ln_cv2", "log", "update"} => worker[c].op = "put"
    /\ worker[c].op = "put" => worker[c].val \in Value
    /\ ~worker[c].ok => failure /\ worker[c].pc \in {"update", "epilogue"}
    /\ Is(c, "update") /\ worker[c].ok =>
          \E d \in decided : d.rec = Update(c, worker[c].val)
WorkerInv == worker \in [Client -> WorkerRecord] /\ \A c \in Client : WorkerFine(c)

SInv == TypeOK /\ RecordInv /\ FrameInv /\ TryInv /\ CountInv /\ MainInv /\ WorkerInv
          /\ TableIsLogged
=============================================================================
