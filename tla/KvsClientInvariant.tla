------------------------- MODULE KvsClientInvariant -------------------------
(***************************************************************************)
(* The inductive invariant of KvsClient: what an open connection may hold, *)
(* by whether the user waits on it.                                        *)
(***************************************************************************)
EXTENDS KvsClient

Waits(k) == user.pc = "response" /\ user.connection = k

\* The table and the open sockets, under the two hands that change them.
TableInv ==
    /\ user.pc # "destroyed" => \A s \in Connected :
          conn[server_connections[s]].socket = "open"
          /\ conn[server_connections[s]].server = s
    /\ \A k \in Conn : conn[k].socket = "open" =>
          /\ user.pc # "destroyed"
          /\ cm.socket = k \/ server_connections[conn[k].server] = k

\* The user waits on the connection of primary_server.
UserInv ==
    /\ user \in [pc : {"idle", "response", "join", "destroyed"},
                 connection : Conn \cup {Dead}, request : 0 .. MaxRequest - 1,
                 status : {"none", "OK", "FAIL"}]
    /\ user.pc = "response" =>
          /\ user.connection \in Conn
          /\ server_connections[primary_server] = user.connection

\* Only the maintainer fills the table: what it found dead stays dead until it is done.
MaintainerInv ==
    /\ cm \in [pc : {"lock", "connect", "install", "exit"}, dead : SUBSET Server,
               socket : Conn \cup {Dead}]
    /\ cm.pc \in {"connect", "install"} =>
          \A s \in cm.dead : server_connections[s] = Dead
    /\ cm.pc = "install" =>
          /\ cm.socket \in Conn /\ conn[cm.socket].socket = "open"
          /\ conn[cm.socket].server = Target
    /\ user.pc = "destroyed" => cm.pc = "exit"

\* A connection nobody waits on is clean: nothing sent, nothing to answer, no answer.
CleanInv == \A k \in Conn :
    conn[k].socket = "open" /\ ~Waits(k) =>
        /\ ~conn[k].sent /\ conn[k].worker = "recv"
        /\ conn[k].status = "none" /\ conn[k].peer # "reset"

\* On the one the user waits on there is one thing at a time: its request, the worker
\* at it, or its answer; a reset connection brings nothing any more.
AnswerInv == \A k \in Conn : Waits(k) =>
    /\ conn[k].sent =>
          conn[k].worker = "recv" /\ conn[k].status = "none" /\ conn[k].peer = "up"
          /\ conn[k].request = user.request
    /\ conn[k].worker = "callback" =>
          conn[k].status = "none" /\ conn[k].peer = "up" /\ conn[k].request = user.request
    /\ conn[k].status # "none" =>
          conn[k].peer # "reset" /\ conn[k].answered = user.request

CInv == TypeOK /\ TableInv /\ UserInv /\ MaintainerInv /\ CleanInv /\ AnswerInv
=============================================================================
