---------------------------- MODULE KeyValueStore ----------------------------
(***************************************************************************)
(* What a server promises its clients: a register for every key.  A        *)
(* request takes effect in one step between its call and its answer; a put *)
(* that is answered OK has taken effect once, after it was logged, and one *)
(* that is not has taken none.  Only while nobody is served may the log    *)
(* change a register as well: there the puts of other servers come from,   *)
(* and those of this one that failed and were decided all the same.        *)
(***************************************************************************)
CONSTANTS Client, Key, Value, KeyOf, Default

VARIABLES
    value,      \* value[k]: the register of key k
    request,    \* request[c]: the request of client c
    log         \* what was logged, by this server or another: slots with their records

svars == <<value, request, log>>

Idle == [state |-> "idle", op |-> "get", val |-> Default]

\* These entries of the log hold a put of v for k.
HasPut(entries, k, v) ==
    \E d \in entries : d.rec = [type |-> "UPDATE", key |-> k, val |-> v]

SInit ==
    /\ value = [k \in Key |-> Default]
    /\ request = [c \in Client |-> Idle]
    /\ log = {}

Pending(c, op) == request[c].state = "pending" /\ request[c].op = op
Grows == log \subseteq log'

\* The request of c ends, with this status and value.
Finish(c, status, v) ==
    request' = [request EXCEPT ![c] = [state |-> status, op |-> request[c].op, val |-> v]]

Call(c, op, v) ==
    /\ request[c].state = "idle"
    /\ request' = [request EXCEPT ![c] = [state |-> "pending", op |-> op, val |-> v]]
    /\ UNCHANGED <<value, log>>

DoGet(c) ==
    /\ Pending(c, "get")
    /\ Finish(c, "OK", value[KeyOf[c]])
    /\ UNCHANGED <<value, log>>

DoPut(c) ==
    /\ Pending(c, "put")
    /\ HasPut(log, KeyOf[c], request[c].val)
    /\ value' = [value EXCEPT ![KeyOf[c]] = request[c].val]
    /\ Finish(c, "OK", request[c].val)
    /\ UNCHANGED log

Fail(c) ==
    /\ Pending(c, "put")
    /\ Finish(c, "FAIL", request[c].val)
    /\ UNCHANGED <<value, log>>

Answer(c) ==
    /\ request[c].state \in {"OK", "FAIL"}
    /\ request' = [request EXCEPT ![c] = Idle]
    /\ UNCHANGED <<value, log>>

Log == UNCHANGED <<value, request>> /\ Grows

Replay ==
    /\ \A c \in Client : request[c].state = "idle"
    /\ Grows
    /\ \E k \in Key, v \in Value :
          HasPut(log', k, v) /\ value' = [value EXCEPT ![k] = v]
    /\ UNCHANGED request

SNext ==
    \/ Log
    \/ \E c \in Client :
          \/ Call(c, "get", Default) \/ \E v \in Value : Call(c, "put", v)
          \/ DoGet(c) \/ DoPut(c) \/ Fail(c)
          \/ Answer(c)
    \/ Replay

SSpec == SInit /\ [][SNext]_svars
=============================================================================
