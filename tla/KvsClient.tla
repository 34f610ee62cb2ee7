----------------------------- MODULE KvsClient -----------------------------
(***************************************************************************)
(* One kvs_client and, at the other end of its connections, the workers of *)
(* the servers' connection_manager.  The client's user thread sends one    *)
(* request at a time to the server it takes for the master; its            *)
(* maintainer thread reconnects the dead servers.                          *)
(*                                                                         *)
(* A request or an answer is one message (module Framing reads it).  A     *)
(* request is known by its number, which wraps at MaxRequest.  A slot of   *)
(* conn is a connection: it is free again when both ends have closed it.   *)
(* What the server's callback does is reduced to its status: OK, or FAIL   *)
(* for NOT_PRIMARY, RETRY and TIMEOUT, on which the client acts alike.     *)
(***************************************************************************)
EXTENDS Integers, FiniteSets

CONSTANTS
    server_number,  \* servers are 0 .. server_number - 1
    MaxConn,        \* bound: connections that exist at a time
    MaxRequest,     \* bound: request numbers wrap here
    Dead            \* "-1" in server_connections

Server == 0 .. server_number - 1
Conn == 1 .. MaxConn

ASSUME ClientAssumption ==
    /\ server_number \in Nat \ {0}
    /\ MaxConn \in Nat
    /\ MaxRequest \in Nat \ {0}
    /\ Dead \notin Conn

VARIABLES
    server_connections, primary_server, exiting,
    user,       \* the user thread: where it is, its connection, its request, its status
    cm,         \* the maintainer: where it is, dead_servers left, the socket it opened
    conn,       \* the connections
    alive,      \* the servers whose process runs
    master,     \* the server whose am_i_primary is set
    settled     \* from here on: no crash, no change of master, no loss

client == <<server_connections, primary_server, exiting>>
world == <<alive, master, settled>>
vars == <<client, user, cm, conn, world>>

\* socket: the client's end.  peer: the server's end is "up", "closed" (the client reads
\* an end of file) or "reset" (a send fails).  sent: a request the worker has not read.
\* worker: "recv" or "callback"; request is the one sent or read and not answered,
\* answered and status are those of an answer the client has not read (else 0, "none").
Unused == [server |-> 0, socket |-> "unused", peer |-> "closed", worker |-> "recv",
           sent |-> FALSE, request |-> 0, answered |-> 0, status |-> "none"]

Init ==
    /\ server_connections = [s \in Server |-> Dead]
    /\ primary_server = 0
    /\ exiting = FALSE
    /\ user = [pc |-> "idle", connection |-> Dead, request |-> 0, status |-> "none"]
    /\ cm = [pc |-> "lock", dead |-> {}, socket |-> Dead]
    /\ conn = [k \in Conn |-> Unused]
    /\ alive = Server
    /\ master \in Server
    /\ settled = FALSE

next_server(s) == (s + 1) % server_number

\* A connection after the client has closed its socket.
Closed(c) ==
    IF c.peer = "up"
    THEN [c EXCEPT !.socket = "closed", !.status = "none", !.answered = 0, !.request = 0]
    ELSE Unused

-----------------------------------------------------------------------------
(***************************************************************************)
(* The user thread: get and put, which differ only in what they carry.     *)
(***************************************************************************)
Connected == {s \in Server : server_connections[s] # Dead}
Distance(s) == (s - primary_server) % server_number

\* The connected server that is first, going round from primary_server.
next_connection == {s \in Connected : \A r \in Connected : Distance(s) <= Distance(r)}

\* Mutant of Sends: the server found is not remembered.
SendsForgets(s) ==
    LET k == server_connections[s]
        r == (user.request + 1) % MaxRequest
    IN
    /\ primary_server' = primary_server
    /\ user' = [pc |-> "response", connection |-> k, request |-> r, status |-> "none"]
    /\ conn' = [conn EXCEPT ![k].sent = conn[k].peer = "up",
                            ![k].request = IF conn[k].peer = "up" THEN r ELSE 0]

Sends(s) ==
    LET k == server_connections[s]
        r == (user.request + 1) % MaxRequest
    IN
    /\ primary_server' = s
    /\ user' = [pc |-> "response", connection |-> k, request |-> r, status |-> "none"]
    /\ conn' = [conn EXCEPT ![k].sent = conn[k].peer = "up",
                            ![k].request = IF conn[k].peer = "up" THEN r ELSE 0]

\* next_connection, under sc_mutex, then the two sends.
Request ==
    /\ user.pc = "idle" /\ ~exiting
    /\ \/ \E s \in next_connection : Sends(s)
       \/ /\ Connected = {}
          /\ user' = [user EXCEPT !.status = "FAIL"]
          /\ UNCHANGED <<primary_server, conn>>
    /\ UNCHANGED <<server_connections, exiting, cm, world>>

\* Mutant of Answered: a refusal does not send the client to the next server.
AnsweredStays(status) ==
    /\ user' = [user EXCEPT !.pc = "idle", !.status = status]
    /\ UNCHANGED primary_server

Answered(status) ==
    /\ user' = [user EXCEPT !.pc = "idle", !.status = status]
    /\ primary_server' = IF status = "OK" THEN primary_server
                         ELSE next_server(primary_server)

\* get_response brings an answer.
Response ==
    /\ user.pc = "response"
    /\ conn[user.connection].status # "none"
    /\ Answered(conn[user.connection].status)
    /\ conn' = [conn EXCEPT ![user.connection].status = "none",
                            ![user.connection].answered = 0]
    /\ UNCHANGED <<server_connections, exiting, cm, world>>

\* Mutant of update_connection: a connection that is only late is kept.
update_connectionKeeps ==
    /\ primary_server' = next_server(primary_server)
    /\ IF conn[user.connection].peer = "up"
       THEN UNCHANGED <<server_connections, conn>>
       ELSE /\ conn' = [conn EXCEPT ![user.connection] = Closed(@)]
            /\ server_connections' = [server_connections EXCEPT ![primary_server] = Dead]

\* Mutant of update_connection: the socket is closed and not forgotten.
update_connectionStale ==
    /\ conn' = [conn EXCEPT ![user.connection] = Closed(@)]
    /\ primary_server' = next_server(primary_server)
    /\ UNCHANGED server_connections

update_connection ==
    /\ conn' = [conn EXCEPT ![user.connection] = Closed(@)]
    /\ server_connections' = [server_connections EXCEPT ![primary_server] = Dead]
    /\ primary_server' = next_server(primary_server)

\* The answer takes longer than SO_RCVTIMEO, or the connection is broken.
NoResponse ==
    /\ user.pc = "response"
    /\ settled => conn[user.connection].server # master
    /\ user' = [user EXCEPT !.pc = "idle", !.status = "FAIL"]
    /\ update_connection
    /\ UNCHANGED <<exiting, cm, world>>

\* ~kvs_client tells the maintainer to exit ...
Exit ==
    /\ user.pc = "idle" /\ ~exiting
    /\ exiting' = TRUE
    /\ user' = [user EXCEPT !.pc = "join"]
    /\ UNCHANGED <<server_connections, primary_server, cm, conn, world>>

\* ... and, once it has joined it, closes what the table holds.
Destroy ==
    /\ user.pc = "join" /\ cm.pc = "exit"
    /\ user' = [user EXCEPT !.pc = "destroyed"]
    /\ conn' = [k \in Conn |-> IF \E s \in Server : server_connections[s] = k
                               THEN Closed(conn[k]) ELSE conn[k]]
    /\ UNCHANGED <<client, cm, world>>

-----------------------------------------------------------------------------
(***************************************************************************)
(* The maintainer: connection_maintain and try_to_connect.                 *)
(***************************************************************************)
Maintain ==
    /\ cm.pc = "lock"
    /\ cm' = IF exiting THEN [cm EXCEPT !.pc = "exit"]
             ELSE [cm EXCEPT !.pc = "connect",
                      !.dead = {s \in Server : server_connections[s] = Dead}]
    /\ UNCHANGED <<client, user, conn, world>>

\* The dead servers are tried in the order of their names.
Target == CHOOSE s \in cm.dead : \A r \in cm.dead : s <= r

\* connect() succeeds; the server's start() gives the connection a worker.  The slots of
\* conn are interchangeable: the first that is free is taken.
Connects ==
    /\ cm.pc = "connect" /\ cm.dead # {}
    /\ Target \in alive
    /\ \E k \in Conn :
          /\ conn[k] = Unused /\ \A j \in 1 .. k - 1 : conn[j] # Unused
          /\ conn' = [conn EXCEPT ![k].server = Target, ![k].socket = "open",
                                  ![k].peer = "up"]
          /\ cm' = [cm EXCEPT !.pc = "install", !.socket = k]
    /\ UNCHANGED <<client, user, world>>

\* connect() fails or takes longer than SO_SNDTIMEO.
ConnectFails ==
    /\ cm.pc = "connect" /\ cm.dead # {}
    /\ settled => Target # master
    /\ cm' = [cm EXCEPT !.dead = @ \ {Target}]
    /\ UNCHANGED <<client, user, conn, world>>

\* Mutant of Install: a client that is going away drops the new socket.
InstallUnlessExiting ==
    /\ cm.pc = "install"
    /\ server_connections' = IF exiting THEN server_connections
                             ELSE [server_connections EXCEPT ![Target] = cm.socket]
    /\ cm' = [cm EXCEPT !.pc = "connect", !.dead = @ \ {Target}, !.socket = Dead]
    /\ UNCHANGED <<primary_server, exiting, user, conn, world>>

Install ==
    /\ cm.pc = "install"
    /\ server_connections' = [server_connections EXCEPT ![Target] = cm.socket]
    /\ cm' = [cm EXCEPT !.pc = "connect", !.dead = @ \ {Target}, !.socket = Dead]
    /\ UNCHANGED <<primary_server, exiting, user, conn, world>>

\* After the last one the maintainer sleeps.
Sleep ==
    /\ cm.pc = "connect" /\ cm.dead = {}
    /\ cm' = [cm EXCEPT !.pc = "lock"]
    /\ UNCHANGED <<client, user, conn, world>>

-----------------------------------------------------------------------------
(***************************************************************************)
(* A worker of a server's connection_manager.                              *)
(***************************************************************************)
\* get_request: the request the client has sent.
GetRequest(k) ==
    /\ conn[k].peer = "up" /\ conn[k].worker = "recv" /\ conn[k].sent
    /\ conn' = [conn EXCEPT ![k].sent = FALSE, ![k].worker = "callback"]
    /\ UNCHANGED <<client, user, cm, world>>

\* get_request fails: the client has closed its end, so the worker closes the other.
NoRequest(k) ==
    /\ conn[k].peer = "up" /\ conn[k].worker = "recv"
    /\ conn[k].socket = "closed" /\ ~conn[k].sent
    /\ conn' = [conn EXCEPT ![k] = Unused]
    /\ UNCHANGED <<client, user, cm, world>>

\* What callback may answer: a server that is not the master refuses; the master may fail.
Outcome(s) == IF s # master THEN {"FAIL"}
              ELSE IF settled THEN {"OK"}
              ELSE {"OK", "FAIL"}

\* callback and return_result.  If the client's end is closed the send fails or its
\* result is lost, and the worker closes.
ReturnResult(k) ==
    /\ conn[k].peer = "up" /\ conn[k].worker = "callback"
    /\ IF conn[k].socket = "open"
       THEN \E status \in Outcome(conn[k].server) :
            conn' = [conn EXCEPT ![k].worker = "recv", ![k].status = status,
                                 ![k].answered = conn[k].request, ![k].request = 0]
       ELSE conn' = [conn EXCEPT ![k] = Unused]
    /\ UNCHANGED <<client, user, cm, world>>

-----------------------------------------------------------------------------
(***************************************************************************)
(* The servers around the client.                                          *)
(***************************************************************************)
\* A server's process is killed.  A connection with bytes it has not read is reset, the
\* others are closed.
Kill(s) ==
    /\ ~settled
    /\ alive' = alive \ {s}
    /\ conn' = [k \in Conn |->
          IF conn[k].peer # "up" \/ conn[k].server # s THEN conn[k]
          ELSE IF conn[k].socket = "closed" THEN Unused
          ELSE [conn[k] EXCEPT !.peer = IF conn[k].sent THEN "reset" ELSE "closed",
                               !.sent = FALSE, !.worker = "recv", !.request = 0]]
    /\ UNCHANGED <<client, user, cm, master, settled>>

\* The election of another master; the old one may be dead or have lost its lease.
Elect(s) ==
    /\ ~settled
    /\ s \in alive \ {master}
    /\ master' = s
    /\ UNCHANGED <<client, user, cm, conn, alive, settled>>

Settle ==
    /\ ~settled
    /\ master \in alive
    /\ settled' = TRUE
    /\ UNCHANGED <<client, user, cm, conn, alive, master>>

\* A client that is gone does nothing more.
Gone == user.pc = "destroyed" /\ UNCHANGED vars

User == Request \/ Response \/ NoResponse
Maintainer == Maintain \/ Connects \/ ConnectFails \/ Install \/ Sleep
Worker(k) == GetRequest(k) \/ NoRequest(k) \/ ReturnResult(k)

Next ==
    \/ User \/ Exit \/ Destroy \/ Maintainer \/ Gone \/ Settle
    \/ \E k \in Conn : Worker(k)
    \/ \E s \in Server : Kill(s) \/ Elect(s)

Spec == Init /\ [][Next]_vars

\* Threads are scheduled, recv returns within its timeout, the application goes on
\* asking.  A maintainer does not fail for ever to reach a server that is up: once
\* settled, ConnectFails is off for the master, and Connects is then the only way on.
FairSpec ==
    /\ Spec
    /\ WF_vars(Request) /\ WF_vars(Response \/ NoResponse)
    /\ WF_vars(Maintainer)
    /\ \A k \in Conn : WF_vars(Worker(k))

-----------------------------------------------------------------------------
ConnRecord ==
    [server : Server, socket : {"unused", "open", "closed"},
     peer : {"up", "closed", "reset"}, worker : {"recv", "callback"}, sent : BOOLEAN,
     request : 0 .. MaxRequest - 1, answered : 0 .. MaxRequest - 1,
     status : {"none", "OK", "FAIL"}]

\* Types, with what the positions of the two threads say of their records: a user that
\* waits has a connection that is open, a maintainer about to install has a socket.
TypeOK ==
    /\ server_connections \in [Server -> Conn \cup {Dead}]
    /\ primary_server \in Server /\ exiting \in BOOLEAN
    /\ conn \in [Conn -> ConnRecord]
    /\ user.request \in 0 .. MaxRequest - 1
    /\ user.status \in {"none", "OK", "FAIL"}
    /\ user.pc \in {"idle", "response", "join", "destroyed"}
    /\ user.pc = "response" => conn[user.connection].socket = "open"
    /\ cm.pc \in {"lock", "connect", "install", "exit"}
    /\ cm.pc = "install" <=> cm.socket # Dead
    /\ cm.pc = "install" => cm.dead # {}
    /\ cm.dead \subseteq Server
    /\ alive \subseteq Server /\ master \in Server /\ settled \in BOOLEAN

\* An answer carries no request number: the client takes whatever the connection brings
\* for the answer to the request it has just sent (kvs_client::get_response).  That is
\* right only because a connection whose answer did not come in time is given up.
AnswerMatches ==
    user.pc = "response" /\ conn[user.connection].status # "none"
        => conn[user.connection].answered = user.request

\* The assertions of the client.  update_connection: the connection that failed is that
\* of primary_server.  try_to_connect: nobody has connected the server meanwhile.  get
\* and put: the first send on a connection of the table succeeds.
ClientAssertions ==
    /\ user.pc = "response" => server_connections[primary_server] = user.connection
    /\ cm.pc = "install" => server_connections[Target] = Dead
    /\ user.pc = "idle" =>
          \A s \in Connected : conn[server_connections[s]].peer # "reset"

\* Every open socket is in the table, once and under its own server, or in the
\* maintainer's hands; when the destructor has returned none is open.
NoSocketLeaks ==
    /\ \A k \in Conn : conn[k].socket = "open" =>
          \/ user.pc # "destroyed" /\ cm.socket = k
          \/ user.pc # "destroyed" /\ server_connections[conn[k].server] = k
    /\ user.pc # "destroyed" => \A s \in Connected :
          LET k == conn[server_connections[s]] IN k.socket = "open" /\ k.server = s

\* Once the servers have settled on a master that stays up, a client that goes on asking
\* is always answered OK again, whichever server it takes for the master and whatever
\* connections it has lost.
ReachesMaster == settled ~> (user.status = "OK" \/ exiting)
=============================================================================
