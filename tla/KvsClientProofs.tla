-------------------------- MODULE KvsClientProofs --------------------------
(***************************************************************************)
(* Theorems about KvsClient, for any number of servers, connections and    *)
(* request numbers: CInv is inductive, and the safety properties follow.   *)
(***************************************************************************)
EXTENDS KvsClientInvariant, WellFoundedInduction, TLAPS

\* next_server stays among the servers.
LEMMA NextServerType ==
    ASSUME NEW s \in Server PROVE next_server(s) \in Server
BY ClientAssumption DEF next_server, Server

\* A request number wraps at its bound.
LEMMA NextNumberType ==
    ASSUME NEW r \in 0 .. MaxRequest - 1 PROVE (r + 1) % MaxRequest \in 0 .. MaxRequest - 1
BY ClientAssumption

\* The server that the maintainer tries next is one that it found dead.
LEMMA TargetIsDead ==
    ASSUME cm.dead \subseteq Server, cm.dead # {}
    PROVE  Target \in cm.dead
<1> DEFINE less == {ss \in Nat \X Nat : ss[1] < ss[2]}
<1>1. cm.dead \subseteq Nat
  BY ClientAssumption DEF Server
<1>2. PICK s \in cm.dead : \A r \in cm.dead : ~(<<r, s>> \in less)
  <2>1. IsWellFoundedOn(less, Nat)
    BY NatLessThanWellFounded, Zenon DEF OpToRel
  <2> HIDE DEF less
  <2> QED BY <1>1, <2>1, WFMin
<1>3. \A r \in cm.dead : s <= r
  <2> TAKE r \in cm.dead
  <2>1. r \in Nat /\ s \in Nat
    BY <1>1
  <2>2. r < s => <<r, s>> \in less
    BY <2>1
  <2> HIDE DEF less
  <2> QED BY <1>2, <2>1, <2>2
<1> QED BY <1>3 DEF Target

\* An entry of the table is a connection, and its own.
LEMMA Entries ==
    ASSUME CInv, user.pc # "destroyed", NEW s \in Server, server_connections[s] # Dead
    PROVE  /\ server_connections[s] \in Conn
           /\ conn[server_connections[s]].socket = "open"
           /\ conn[server_connections[s]].server = s
BY DEF CInv, TypeOK, TableInv, Connected

\* A free slot is a connection record, and not open.
LEMMA UnusedType == Unused \in ConnRecord /\ Unused.socket # "open"
BY ClientAssumption DEF ConnRecord, Unused, Server

\* A client's end that is closed is not open, whatever the other end does.
LEMMA ClosedType ==
    ASSUME NEW c \in ConnRecord
    PROVE  Closed(c) \in ConnRecord /\ Closed(c).socket # "open"
<1>1. CASE c.peer = "up"
  <2>1. Closed(c) = [c EXCEPT !.socket = "closed", !.status = "none", !.answered = 0,
                              !.request = 0]
    BY <1>1 DEF Closed
  <2>2. 0 \in 0 .. MaxRequest - 1
    BY ClientAssumption
  <2> QED BY <2>1, <2>2 DEF ConnRecord
<1>2. CASE c.peer # "up"
  BY <1>2, UnusedType DEF Closed
<1> QED BY <1>1, <1>2

\* The socket that the maintainer is about to install is in no entry of the table.
LEMMA SocketIsNew ==
    ASSUME CInv, cm.pc = "install"
    PROVE  /\ Target \in cm.dead /\ Target \in Server
           /\ server_connections[Target] = Dead
           /\ \A s \in Server : server_connections[s] # cm.socket
<1>1. Target \in cm.dead /\ Target \in Server
  BY TargetIsDead DEF CInv, TypeOK
<1>2. server_connections[Target] = Dead
  BY <1>1 DEF CInv, MaintainerInv
<1>3. cm.socket # Dead /\ conn[cm.socket].server = Target /\ user.pc # "destroyed"
  BY DEF CInv, TypeOK, MaintainerInv
<1> QED BY <1>1, <1>2, <1>3, Entries

-----------------------------------------------------------------------------
\* The user thread: the connection that next_connection gives is open and clean, so the
\* request is the only thing on it.
LEMMA RequestKeeps ==
    ASSUME CInv, Request PROVE CInv'
<1> USE DEF CInv
<1>1. CASE \E s \in next_connection : Sends(s)
  <2>1. PICK s \in next_connection : Sends(s)
    BY <1>1
  <2> DEFINE k == server_connections[s]
             r == (user.request + 1) % MaxRequest
  <2>2. s \in Server /\ k # Dead
    BY DEF next_connection, Connected
  <2>3. user.pc = "idle" /\ UNCHANGED <<server_connections, exiting, cm, world>>
    BY DEF Request
  <2>4. k \in Conn /\ conn[k].socket = "open" /\ conn[k].server = s
    BY <2>2, <2>3, Entries
  <2>5. conn[k].worker = "recv" /\ conn[k].status = "none" /\ conn[k].peer # "reset"
    BY <2>3, <2>4 DEF CleanInv, Waits
  <2>6. r \in 0 .. MaxRequest - 1
    BY NextNumberType DEF UserInv
  <2> DEFINE c == [conn[k] EXCEPT !.sent = conn[k].peer = "up",
                                  !.request = IF conn[k].peer = "up" THEN r ELSE 0]
  <2>7. /\ primary_server' = s
        /\ user' = [pc |-> "response", connection |-> k, request |-> r, status |-> "none"]
        /\ conn' = [conn EXCEPT ![k] = c]
    BY <2>1, <2>4 DEF Sends, TypeOK
  <2> HIDE DEF k, r
  <2>8. c \in ConnRecord /\ c.socket = "open" /\ c.server = s /\ c.worker = "recv"
        /\ c.status = "none" /\ c.peer # "reset"
        /\ (c.sent => c.peer = "up" /\ c.request = r)
    <3>1. conn[k] \in ConnRecord
      BY <2>4 DEF TypeOK
    <3>2. CASE conn[k].peer = "up"
      <4>1. c = [conn[k] EXCEPT !.sent = TRUE, !.request = r]
        BY <3>2
      <4> QED BY <2>4, <2>5, <2>6, <3>1, <3>2, <4>1 DEF ConnRecord
    <3>3. CASE conn[k].peer # "up"
      <4>1. c = [conn[k] EXCEPT !.sent = FALSE, !.request = 0]
        BY <3>3
      <4>2. 0 \in 0 .. MaxRequest - 1
        BY ClientAssumption
      <4> QED BY <2>4, <2>5, <3>1, <4>1, <4>2 DEF ConnRecord
    <3> QED BY <3>2, <3>3
  <2> HIDE DEF c
  <2>9. TypeOK'
    BY <2>2, <2>3, <2>4, <2>6, <2>7, <2>8 DEF TypeOK, world
  <2>10. TableInv'
    BY <2>3, <2>4, <2>7, <2>8 DEF TypeOK, TableInv, Connected
  <2>11. UserInv'
    BY <2>3, <2>4, <2>6, <2>7 DEF UserInv, k
  <2>12. Target' = Target
    BY <2>3 DEF Target
  <2>13. MaintainerInv'
    BY <2>3, <2>4, <2>7, <2>8, <2>12 DEF MaintainerInv, TypeOK
  <2>14. CleanInv'
    BY <2>3, <2>4, <2>7, <2>8 DEF CleanInv, Waits, TypeOK
  <2>15. AnswerInv'
    BY <2>3, <2>4, <2>7, <2>8 DEF AnswerInv, Waits, TypeOK
  <2> QED BY <2>9, <2>10, <2>11, <2>13, <2>14, <2>15
<1>2. CASE Connected = {} /\ user' = [user EXCEPT !.status = "FAIL"] /\ UNCHANGED <<primary_server, conn>>
  <2>1. user.pc = "idle" /\ UNCHANGED <<server_connections, exiting, cm, world>>
    BY DEF Request
  <2>2. user'.pc = "idle" /\ user'.request = user.request /\ user'.status = "FAIL"
        /\ user'.connection = user.connection
    BY <1>2, <2>1 DEF UserInv
  <2>3. Target' = Target
    BY <2>1 DEF Target
  <2> QED BY <1>2, <2>1, <2>2, <2>3 DEF TypeOK, TableInv, Connected, UserInv, MaintainerInv, CleanInv, AnswerInv, Waits, world
<1> QED BY <1>1, <1>2 DEF Request

\* What an action does to the maintainer's target and its part of the invariant, when it
\* leaves the maintainer and every open socket alone.
LEMMA MaintainerUnmoved ==
    ASSUME CInv, cm' = cm, user'.pc # "destroyed" \/ cm.pc = "exit",
           \A s \in Server : server_connections'[s] \in {server_connections[s], Dead},
           \A k \in Conn : conn[k].socket = "open" /\ cm.socket = k =>
               conn'[k].socket = "open" /\ conn'[k].server = conn[k].server
    PROVE  MaintainerInv'
<1>1. Target' = Target
  BY DEF Target
<1> QED BY <1>1 DEF CInv, MaintainerInv, TypeOK

\* The answer was the only thing on the connection, which is clean again.
LEMMA ResponseKeeps ==
    ASSUME CInv, Response PROVE CInv'
<1> USE DEF CInv
<1> DEFINE k == user.connection
           c == [conn[k] EXCEPT !.status = "none", !.answered = 0]
<1>1. /\ user.pc = "response" /\ k \in Conn /\ conn[k] \in ConnRecord
      /\ conn[k].status # "none" /\ conn[k].socket = "open"
      /\ UNCHANGED <<server_connections, exiting, cm, world>>
  BY DEF Response, UserInv, TypeOK
<1>2. /\ conn' = [conn EXCEPT ![k] = c]
      /\ user' = [user EXCEPT !.pc = "idle", !.status = conn[k].status]
      /\ primary_server' \in {primary_server, next_server(primary_server)}
  BY <1>1 DEF Response, Answered, TypeOK
<1>3. c \in ConnRecord /\ c.socket = "open" /\ c.server = conn[k].server
      /\ c.status = "none" /\ c.sent = conn[k].sent /\ c.worker = conn[k].worker
      /\ c.peer = conn[k].peer
  <2>1. 0 \in 0 .. MaxRequest - 1
    BY ClientAssumption
  <2> QED BY <1>1, <2>1 DEF ConnRecord
<1>4. ~conn[k].sent /\ conn[k].worker = "recv" /\ conn[k].peer # "reset"
  BY <1>1 DEF AnswerInv, Waits, ConnRecord
<1>5. user'.pc = "idle" /\ user'.status \in {"OK", "FAIL"} /\ user'.request = user.request
      /\ user'.connection = k
  BY <1>1, <1>2 DEF UserInv, ConnRecord
<1> HIDE DEF c, k
<1>6. TypeOK'
  BY <1>1, <1>2, <1>3, <1>5, NextServerType DEF TypeOK, world
<1>7. TableInv'
  BY <1>1, <1>2, <1>3, <1>5 DEF TypeOK, TableInv, Connected
<1>8. UserInv'
  <2>1. user' \in [pc : {"idle", "response", "join", "destroyed"},
                 connection : Conn \cup {Dead}, request : 0 .. MaxRequest - 1,
                 status : {"none", "OK", "FAIL"}]
    BY <1>2, <1>5 DEF UserInv
  <2> QED BY <1>5, <2>1 DEF UserInv
<1>9. MaintainerInv'
  BY <1>1, <1>2, <1>3, <1>5, MaintainerUnmoved DEF TypeOK
<1>10. CleanInv'
  BY <1>1, <1>2, <1>3, <1>4, <1>5 DEF CleanInv, Waits, TypeOK, k
<1>11. AnswerInv'
  BY <1>5 DEF AnswerInv, Waits
<1> QED BY <1>6, <1>7, <1>8, <1>9, <1>10, <1>11

\* Only a connection that is given up may still bring something: it leaves the table and
\* is no longer open.
LEMMA NoResponseKeeps ==
    ASSUME CInv, NoResponse PROVE CInv'
<1> USE DEF CInv
<1> DEFINE k == user.connection
<1>1. /\ user.pc = "response" /\ k \in Conn /\ conn[k] \in ConnRecord
      /\ server_connections[primary_server] = k /\ primary_server \in Server
      /\ UNCHANGED <<exiting, cm, world>>
      /\ conn' = [conn EXCEPT ![k] = Closed(conn[k])]
      /\ server_connections' = [server_connections EXCEPT ![primary_server] = Dead]
      /\ primary_server' = next_server(primary_server)
  BY DEF NoResponse, update_connection, UserInv, TypeOK
<1>2. /\ user' = [user EXCEPT !.pc = "idle", !.status = "FAIL"]
      /\ user'.pc = "idle" /\ user'.status = "FAIL" /\ user'.request = user.request
  BY DEF NoResponse, UserInv
<1>3. Closed(conn[k]) \in ConnRecord /\ Closed(conn[k]).socket # "open"
  BY <1>1, ClosedType
<1>4. \A s \in Server : server_connections[s] = k => s = primary_server
  BY <1>1, Entries, ClientAssumption
<1>5. cm.socket # k
  BY <1>1, SocketIsNew, ClientAssumption DEF TypeOK
<1> HIDE DEF k
<1>6. TypeOK'
  BY <1>1, <1>2, <1>3, NextServerType DEF TypeOK, world
<1>7. TableInv'
  BY <1>1, <1>2, <1>3, <1>4 DEF TypeOK, TableInv, Connected, ConnRecord
<1>8. UserInv'
  BY <1>2 DEF UserInv
<1>9. MaintainerInv'
  BY <1>1, <1>2, <1>5, MaintainerUnmoved DEF TypeOK
<1>10. CleanInv'
  BY <1>1, <1>2, <1>3 DEF CleanInv, Waits, TypeOK, k
<1>11. AnswerInv'
  BY <1>2 DEF AnswerInv, Waits
<1> QED BY <1>6, <1>7, <1>8, <1>9, <1>10, <1>11

\* The destructor waits for nothing but the maintainer ...
LEMMA ExitKeeps ==
    ASSUME CInv, Exit PROVE CInv'
<1> USE DEF CInv, Exit
<1>1. user'.pc = "join" /\ user'.request = user.request /\ user'.status = user.status
  BY DEF UserInv
<1>2. MaintainerInv'
  BY <1>1, MaintainerUnmoved
<1> QED BY <1>1, <1>2 DEF TypeOK, world, TableInv, Connected, UserInv, CleanInv, AnswerInv, Waits

\* ... which holds no socket when it is gone, so the table holds all that are open.
LEMMA DestroyKeeps ==
    ASSUME CInv, Destroy PROVE CInv'
<1> USE DEF CInv
<1>1. user.pc = "join" /\ cm.pc = "exit" /\ cm.socket = Dead
      /\ UNCHANGED <<client, cm, world>>
  BY DEF Destroy, TypeOK
<1>2. user' = [user EXCEPT !.pc = "destroyed"] /\ user'.pc = "destroyed"
      /\ user'.request = user.request /\ user'.status = user.status
  BY DEF Destroy, UserInv
<1>3. conn' \in [Conn -> ConnRecord]
  BY ClosedType DEF Destroy, TypeOK
<1>4. \A k \in Conn : conn'[k].socket # "open"
  <2> SUFFICES ASSUME NEW k \in Conn PROVE conn'[k].socket # "open"
    OBVIOUS
  <2>1. CASE \E s \in Server : server_connections[s] = k
    BY <2>1, ClosedType DEF Destroy, TypeOK
  <2>2. CASE ~ \E s \in Server : server_connections[s] = k
    <3>1. conn[k].server \in Server
      BY DEF TypeOK, ConnRecord
    <3> QED BY <1>1, <2>2, <3>1, ClientAssumption DEF Destroy, TableInv
  <2> QED BY <2>1, <2>2
<1>5. TypeOK'
  BY <1>1, <1>2, <1>3 DEF TypeOK, client, world
<1>6. TableInv'
  BY <1>2, <1>4 DEF TableInv
<1>7. UserInv'
  BY <1>2 DEF UserInv
<1>8. MaintainerInv'
  BY <1>1, <1>2, MaintainerUnmoved, ClientAssumption DEF client
<1>9. CleanInv'
  BY <1>4 DEF CleanInv
<1>10. AnswerInv'
  BY <1>2 DEF AnswerInv, Waits
<1> QED BY <1>5, <1>6, <1>7, <1>8, <1>9, <1>10

\* The maintainer, between two passes over the table.
LEMMA MaintainKeeps ==
    ASSUME CInv, Maintain PROVE CInv'
<1> USE DEF CInv
<1>1. UNCHANGED <<client, user, conn, world>>
  BY DEF Maintain
<1>2. cm.pc = "lock" /\ cm.socket = Dead /\ cm'.socket = Dead
  BY DEF Maintain, TypeOK, MaintainerInv
<1>3. \/ cm'.pc = "exit" /\ cm' = [cm EXCEPT !.pc = "exit"]
      \/ cm'.pc = "connect" /\ cm'.dead = {s \in Server : server_connections[s] = Dead}
         /\ cm' = [cm EXCEPT !.pc = "connect", !.dead = cm'.dead]
  BY DEF Maintain, MaintainerInv
<1>4. cm'.dead \subseteq Server
  BY <1>3 DEF TypeOK, MaintainerInv
<1>5. TypeOK'
  BY <1>1, <1>2, <1>3, <1>4, ClientAssumption DEF TypeOK, client, world
<1>6. MaintainerInv'
  BY <1>1, <1>2, <1>3, <1>4 DEF MaintainerInv, client
<1> QED BY <1>1, <1>2, <1>5, <1>6
        DEF client, TableInv, Connected, UserInv, CleanInv, AnswerInv, Waits

\* A new connection is clean, and in the maintainer's hands.
LEMMA ConnectsKeeps ==
    ASSUME CInv, Connects PROVE CInv'
<1> USE DEF CInv
<1>1. /\ cm.pc = "connect" /\ cm.socket = Dead /\ user.pc # "destroyed"
      /\ UNCHANGED <<client, user, world>>
  BY DEF Connects, TypeOK, MaintainerInv
<1>2. Target \in cm.dead /\ Target \in Server
  BY TargetIsDead DEF Connects, TypeOK
<1>3. PICK k \in Conn :
        /\ conn[k] = Unused
        /\ conn' = [conn EXCEPT ![k].server = Target, ![k].socket = "open", ![k].peer = "up"]
        /\ cm' = [cm EXCEPT !.pc = "install", !.socket = k]
  BY DEF Connects
<1> DEFINE c == [Unused EXCEPT !.server = Target, !.socket = "open", !.peer = "up"]
<1>4. conn' = [conn EXCEPT ![k] = c]
  BY <1>3 DEF TypeOK
<1>5. c \in ConnRecord /\ c.socket = "open" /\ c.server = Target /\ c.peer = "up"
      /\ c.status = "none" /\ c.worker = "recv" /\ ~c.sent
  BY <1>2, UnusedType DEF Unused, ConnRecord
<1>6. cm'.pc = "install" /\ cm'.socket = k /\ cm'.dead = cm.dead
  BY <1>3 DEF MaintainerInv
<1>7. Target' = Target
  BY <1>6 DEF Target
<1>8. conn[k].socket # "open" /\ ~Waits(k)
  BY <1>3, UnusedType DEF Waits, TypeOK
<1> HIDE DEF c
<1>9. TypeOK'
  BY <1>1, <1>2, <1>4, <1>5, <1>6, ClientAssumption DEF TypeOK, client, world
<1>10. TableInv'
  <2>1. \A s \in Connected' : server_connections[s] # k
                            /\ conn[server_connections[s]].socket = "open"
                            /\ conn[server_connections[s]].server = s
                            /\ server_connections[s] \in Conn
    BY <1>1, <1>8, Entries DEF client, Connected
  <2>2. \A s \in Connected' : conn'[server_connections'[s]].socket = "open"
                            /\ conn'[server_connections'[s]].server = s
    BY <1>1, <1>4, <2>1 DEF TypeOK, client
  <2>3. ASSUME NEW j \in Conn, conn'[j].socket = "open", j # k
        PROVE  server_connections'[conn'[j].server] = j
    <3>1. conn'[j] = conn[j]
      BY <1>4, <2>3 DEF TypeOK
    <3> QED BY <1>1, <2>3, <3>1, ClientAssumption DEF TableInv, client
  <2> QED BY <1>1, <1>6, <2>2, <2>3 DEF TableInv
<1>11. MaintainerInv'
  BY <1>1, <1>3, <1>4, <1>5, <1>6, <1>7 DEF TypeOK, MaintainerInv, client
<1>12. CleanInv'
  BY <1>1, <1>4, <1>5 DEF TypeOK, CleanInv, Waits
<1>13. AnswerInv'
  BY <1>1, <1>4, <1>8 DEF TypeOK, AnswerInv, Waits
<1>14. UserInv'
  BY <1>1 DEF UserInv, client
<1> QED BY <1>9, <1>10, <1>11, <1>12, <1>13, <1>14

\* A server that cannot be reached stays dead.
LEMMA ConnectFailsKeeps ==
    ASSUME CInv, ConnectFails PROVE CInv'
<1> USE DEF CInv
<1>1. UNCHANGED <<client, user, conn, world>>
  BY DEF ConnectFails
<1>2. cm.pc = "connect" /\ cm'.pc = "connect" /\ cm'.socket = cm.socket
      /\ cm' = [cm EXCEPT !.dead = cm'.dead] /\ cm'.dead \subseteq cm.dead
  BY DEF ConnectFails, MaintainerInv
<1>3. TypeOK'
  BY <1>1, <1>2 DEF TypeOK, client, world
<1>4. MaintainerInv'
  BY <1>1, <1>2 DEF MaintainerInv, client
<1> QED BY <1>1, <1>2, <1>3, <1>4
        DEF client, TableInv, Connected, UserInv, CleanInv, AnswerInv, Waits

\* The entry is still dead when the socket is put there: nobody else fills the table.
LEMMA InstallKeeps ==
    ASSUME CInv, Install PROVE CInv'
<1> USE DEF CInv
<1> DEFINE k == cm.socket
           s == Target
<1>1. /\ cm.pc = "install" /\ user.pc # "destroyed"
      /\ UNCHANGED <<primary_server, exiting, user, conn, world>>
  BY DEF Install, MaintainerInv
<1>2. /\ k \in Conn /\ conn[k].socket = "open" /\ conn[k].server = s
      /\ s \in cm.dead /\ s \in Server /\ server_connections[s] = Dead
  BY <1>1, SocketIsNew DEF MaintainerInv
<1>3. server_connections' = [server_connections EXCEPT ![s] = k]
  BY DEF Install
<1>4. cm'.pc = "connect" /\ cm'.socket = Dead /\ cm'.dead = cm.dead \ {s}
      /\ cm' = [cm EXCEPT !.pc = "connect", !.dead = cm.dead \ {s}, !.socket = Dead]
  BY DEF Install, MaintainerInv
<1> HIDE DEF k, s
<1>5. TypeOK'
  BY <1>1, <1>2, <1>3, <1>4 DEF TypeOK, world
<1>6. TableInv'
  <2>1. \A r \in Connected' : conn[server_connections'[r]].socket = "open"
                             /\ conn[server_connections'[r]].server = r
    BY <1>1, <1>2, <1>3 DEF TypeOK, TableInv, Connected
  <2>2. ASSUME NEW j \in Conn, conn[j].socket = "open"
        PROVE  server_connections'[conn[j].server] = j
    <3>1. conn[j].server \in Server
      BY DEF TypeOK, ConnRecord
    <3>2. CASE k = j
      BY <1>2, <1>3, <3>2 DEF TypeOK
    <3>3. CASE k # j
      <4>1. server_connections[conn[j].server] = j
        BY <2>2, <3>3 DEF TableInv, k
      <4> QED BY <1>2, <1>3, <3>1, <4>1, ClientAssumption DEF TypeOK
    <3> QED BY <3>2, <3>3
  <2> QED BY <1>1, <2>1, <2>2 DEF TableInv
<1>7. UserInv'
  BY <1>1, <1>2, <1>3, ClientAssumption DEF TypeOK, UserInv
<1>8. MaintainerInv'
  BY <1>1, <1>2, <1>3, <1>4 DEF TypeOK, MaintainerInv
<1>9. CleanInv' /\ AnswerInv'
  BY <1>1 DEF CleanInv, AnswerInv, Waits
<1> QED BY <1>5, <1>6, <1>7, <1>8, <1>9

\* The maintainer goes to sleep.
LEMMA SleepKeeps ==
    ASSUME CInv, Sleep PROVE CInv'
<1> USE DEF CInv
<1>1. UNCHANGED <<client, user, conn, world>>
  BY DEF Sleep
<1>2. cm.pc = "connect" /\ cm'.pc = "lock" /\ cm'.socket = cm.socket
      /\ cm' = [cm EXCEPT !.pc = "lock"] /\ cm'.dead = cm.dead
  BY DEF Sleep, MaintainerInv
<1>3. TypeOK'
  BY <1>1, <1>2 DEF TypeOK, client, world
<1>4. MaintainerInv'
  BY <1>1, <1>2 DEF MaintainerInv, client
<1> QED BY <1>1, <1>2, <1>3, <1>4
        DEF client, TableInv, Connected, UserInv, CleanInv, AnswerInv, Waits

-----------------------------------------------------------------------------
\* What the other ends do to a connection that is open for the client.
Served(k) ==
    /\ ~Waits(k) => /\ ~conn'[k].sent /\ conn'[k].worker = "recv"
                    /\ conn'[k].status = "none" /\ conn'[k].peer # "reset"
    /\ Waits(k) =>
        /\ conn'[k].sent =>
              conn'[k].worker = "recv" /\ conn'[k].status = "none" /\ conn'[k].peer = "up"
              /\ conn'[k].request = user.request
        /\ conn'[k].worker = "callback" =>
              conn'[k].status = "none" /\ conn'[k].peer = "up"
              /\ conn'[k].request = user.request
        /\ conn'[k].status # "none" =>
              conn'[k].peer # "reset" /\ conn'[k].answered = user.request

\* A step of the servers keeps the invariant when each open connection stays open, with
\* its server, and what it holds then is still allowed.
LEMMA ServersKeep ==
    ASSUME CInv, UNCHANGED <<client, user, cm>>,
           alive' \subseteq Server, master' \in Server, settled' \in BOOLEAN,
           conn' \in [Conn -> ConnRecord],
           \A k \in Conn : conn'[k].socket = "open" <=> conn[k].socket = "open",
           \A k \in Conn : conn[k].socket = "open" =>
               conn'[k].server = conn[k].server /\ Served(k)
    PROVE  CInv'
<1> USE DEF CInv
<1>1. \A k \in Conn : Waits(k) => conn[k].socket = "open"
  BY DEF TypeOK, Waits
<1>2. user.pc = "response" => user.connection \in Conn
  BY DEF UserInv
<1>3. TypeOK'
  BY <1>2 DEF TypeOK, client
<1>4. TableInv'
  <2>1. user.pc # "destroyed" => \A s \in Connected :
            /\ server_connections[s] \in Conn
            /\ conn[server_connections[s]].socket = "open"
            /\ conn[server_connections[s]].server = s
    BY Entries DEF Connected
  <2> QED BY <2>1 DEF TableInv, Connected, client
<1>5. UserInv'
  BY DEF UserInv, client
<1>6. Target' = Target
  BY DEF Target
<1>7. MaintainerInv'
  BY <1>6 DEF MaintainerInv, client
<1>8. CleanInv'
  BY DEF CleanInv, Waits, Served
<1>9. AnswerInv'
  BY <1>1 DEF AnswerInv, Waits, Served
<1> QED BY <1>3, <1>4, <1>5, <1>7, <1>8, <1>9

\* A connection that nothing happens to.
LEMMA UntouchedServed ==
    ASSUME CInv, NEW k \in Conn, conn[k].socket = "open", conn'[k] = conn[k]
    PROVE  Served(k)
BY DEF CInv, CleanInv, AnswerInv, Served

\* The worker takes the request: what was sent is now being answered.
LEMMA GetRequestKeeps ==
    ASSUME CInv, NEW k \in Conn, GetRequest(k) PROVE CInv'
<1> DEFINE c == [conn[k] EXCEPT !.sent = FALSE, !.worker = "callback"]
<1>1. conn \in [Conn -> ConnRecord] /\ conn[k] \in ConnRecord
  BY DEF CInv, TypeOK
<1>2. /\ conn[k].peer = "up" /\ conn[k].sent
      /\ conn' = [conn EXCEPT ![k] = c]
      /\ UNCHANGED <<client, user, cm, world>>
  BY <1>1 DEF GetRequest
<1>3. /\ c \in ConnRecord /\ c.socket = conn[k].socket /\ c.server = conn[k].server
      /\ ~c.sent /\ c.worker = "callback" /\ c.status = conn[k].status
      /\ c.peer = "up" /\ c.request = conn[k].request
  BY <1>1, <1>2 DEF ConnRecord
<1> HIDE DEF c
<1>4. conn[k].socket = "open" => Served(k)
  BY <1>1, <1>2, <1>3 DEF CInv, CleanInv, AnswerInv, Served
<1>5. \A j \in Conn : j # k => conn'[j] = conn[j]
  BY <1>1, <1>2
<1>6. alive' \subseteq Server /\ master' \in Server /\ settled' \in BOOLEAN
  BY <1>2 DEF CInv, TypeOK, world
<1>7. conn' \in [Conn -> ConnRecord] /\ conn'[k] = c
  BY <1>1, <1>2, <1>3
<1> QED BY <1>2, <1>3, <1>4, <1>5, <1>6, <1>7, ServersKeep, UntouchedServed

\* The worker closes its end of a connection that the client has closed.
LEMMA NoRequestKeeps ==
    ASSUME CInv, NEW k \in Conn, NoRequest(k) PROVE CInv'
<1>1. conn \in [Conn -> ConnRecord] /\ conn[k].socket # "open"
  BY DEF CInv, TypeOK, NoRequest
<1>2. conn' = [conn EXCEPT ![k] = Unused] /\ UNCHANGED <<client, user, cm, world>>
  BY DEF NoRequest
<1>3. \A j \in Conn : j # k => conn'[j] = conn[j]
  BY <1>1, <1>2
<1>4. alive' \subseteq Server /\ master' \in Server /\ settled' \in BOOLEAN
  BY <1>2 DEF CInv, TypeOK, world
<1>5. conn' \in [Conn -> ConnRecord] /\ conn'[k].socket # "open"
  BY <1>1, <1>2, UnusedType
<1> QED BY <1>1, <1>2, <1>3, <1>4, <1>5, ServersKeep, UntouchedServed

\* The worker answers the request it took, which is the one the user waits for.
LEMMA ReturnResultKeeps ==
    ASSUME CInv, NEW k \in Conn, ReturnResult(k) PROVE CInv'
<1>1. conn \in [Conn -> ConnRecord] /\ conn[k] \in ConnRecord
  BY DEF CInv, TypeOK
<1>2. conn[k].peer = "up" /\ conn[k].worker = "callback"
      /\ UNCHANGED <<client, user, cm, world>>
  BY DEF ReturnResult
<1>3. PICK c : /\ conn' = [conn EXCEPT ![k] = c] /\ c \in ConnRecord
               /\ c.socket = "open" <=> conn[k].socket = "open"
               /\ conn[k].socket = "open" =>
                     /\ c.server = conn[k].server /\ c.worker = "recv"
                     /\ c.sent = conn[k].sent /\ c.peer = "up"
                     /\ c.answered = conn[k].request
  <2>1. CASE conn[k].socket = "open"
    <3>1. PICK status \in Outcome(conn[k].server) :
            conn' = [conn EXCEPT ![k].worker = "recv", ![k].status = status,
                                 ![k].answered = conn[k].request, ![k].request = 0]
      BY <2>1 DEF ReturnResult
    <3> DEFINE d == [conn[k] EXCEPT !.worker = "recv", !.status = status,
                                    !.answered = conn[k].request, !.request = 0]
    <3>2. conn' = [conn EXCEPT ![k] = d]
      BY <1>1, <3>1
    <3>3. status \in {"OK", "FAIL"} /\ 0 \in 0 .. MaxRequest - 1
      BY ClientAssumption DEF Outcome
    <3>4. d \in ConnRecord /\ d.socket = "open" /\ d.server = conn[k].server
          /\ d.worker = "recv" /\ d.sent = conn[k].sent /\ d.peer = "up"
          /\ d.answered = conn[k].request
      BY <1>1, <1>2, <2>1, <3>3 DEF ConnRecord
    <3> HIDE DEF d
    <3> QED BY <2>1, <3>2, <3>4
  <2>2. CASE conn[k].socket # "open"
    BY <2>2, UnusedType DEF ReturnResult
  <2> QED BY <2>1, <2>2
<1>4. conn[k].socket = "open" => Served(k)
  BY <1>1, <1>2, <1>3 DEF CInv, CleanInv, AnswerInv, Served
<1>5. \A j \in Conn : j # k => conn'[j] = conn[j]
  BY <1>1, <1>3
<1>6. alive' \subseteq Server /\ master' \in Server /\ settled' \in BOOLEAN
  BY <1>2 DEF CInv, TypeOK, world
<1>7. conn' \in [Conn -> ConnRecord] /\ conn'[k] = c
  BY <1>1, <1>3
<1> QED BY <1>2, <1>3, <1>4, <1>5, <1>6, <1>7, ServersKeep, UntouchedServed

\* A connection is reset only if a request was on its way, so only the one the user
\* waits on.
LEMMA KillKeeps ==
    ASSUME CInv, NEW s \in Server, Kill(s) PROVE CInv'
<1>1. conn \in [Conn -> ConnRecord]
  BY DEF CInv, TypeOK
<1>2. UNCHANGED <<client, user, cm>> /\ alive' \subseteq Server
      /\ master' \in Server /\ settled' \in BOOLEAN
  BY DEF CInv, TypeOK, Kill
<1>3. ASSUME NEW k \in Conn
      PROVE  /\ conn'[k] \in ConnRecord
             /\ conn'[k].socket = "open" <=> conn[k].socket = "open"
             /\ conn[k].socket = "open" => conn'[k].server = conn[k].server /\ Served(k)
  <2> DEFINE e == IF conn[k].sent THEN "reset" ELSE "closed"
             c == [conn[k] EXCEPT !.peer = e, !.sent = FALSE, !.worker = "recv",
                                  !.request = 0]
  <2>0. conn[k] \in ConnRecord
    BY <1>1
  <2>1. CASE conn[k].peer # "up" \/ conn[k].server # s
    <3>1. conn'[k] = conn[k]
      BY <2>1 DEF Kill
    <3> QED BY <2>0, <3>1, UntouchedServed
  <2>2. CASE conn[k].peer = "up" /\ conn[k].server = s /\ conn[k].socket = "closed"
    <3>1. conn'[k] = Unused
      BY <2>2 DEF Kill
    <3> QED BY <2>2, <3>1, UnusedType
  <2>3. CASE conn[k].peer = "up" /\ conn[k].server = s /\ conn[k].socket # "closed"
    <3>1. conn'[k] = c
      BY <2>3 DEF Kill
    <3>2. e \in {"closed", "reset"} /\ 0 \in 0 .. MaxRequest - 1
          /\ (e = "reset" => conn[k].sent)
      BY ClientAssumption
    <3> HIDE DEF e
    <3>3. c \in ConnRecord /\ c.socket = conn[k].socket /\ c.server = conn[k].server
          /\ ~c.sent /\ c.worker = "recv" /\ c.status = conn[k].status
          /\ c.answered = conn[k].answered /\ c.peer = e
      BY <2>0, <3>2 DEF ConnRecord
    <3> HIDE DEF c
    <3>4. conn[k].socket = "open" => Served(k)
      BY <3>1, <3>2, <3>3 DEF CInv, CleanInv, AnswerInv, Served
    <3> QED BY <3>1, <3>3, <3>4
  <2> QED BY <2>1, <2>2, <2>3
<1>4. conn' \in [Conn -> ConnRecord]
  BY <1>3 DEF Kill
<1> QED BY <1>2, <1>3, <1>4, ServersKeep

\* Whatever leaves the client and its connections alone keeps the invariant.
LEMMA AroundKeeps ==
    ASSUME CInv, UNCHANGED <<client, user, cm, conn>>,
           alive' \subseteq Server, master' \in Server, settled' \in BOOLEAN
    PROVE  CInv'
<1>1. conn \in [Conn -> ConnRecord]
  BY DEF CInv, TypeOK
<1> QED BY <1>1, ServersKeep, UntouchedServed

-----------------------------------------------------------------------------
\* A client starts with no connection.
LEMMA CInvInit == Init => CInv
<1> SUFFICES ASSUME Init PROVE CInv
  OBVIOUS
<1> USE DEF Init
<1>1. 0 \in 0 .. MaxRequest - 1 /\ 0 \in Server
  BY ClientAssumption DEF Server
<1>2. \A k \in Conn : conn[k].socket # "open"
  BY UnusedType
<1>3. TypeOK
  BY <1>1, UnusedType DEF TypeOK
<1>4. TableInv
  BY <1>2 DEF TableInv, Connected
<1>5. UserInv
  BY <1>1 DEF UserInv
<1>6. MaintainerInv
  BY DEF MaintainerInv
<1>7. CleanInv
  BY <1>2 DEF CleanInv
<1>8. AnswerInv
  BY DEF AnswerInv, Waits
<1> QED BY <1>3, <1>4, <1>5, <1>6, <1>7, <1>8 DEF CInv

\* Every step of Next keeps the invariant.
LEMMA CInvNext == CInv /\ [Next]_vars => CInv'
<1> SUFFICES ASSUME CInv, [Next]_vars PROVE CInv'
  OBVIOUS
<1>1. alive \subseteq Server /\ master \in Server /\ settled \in BOOLEAN
  BY DEF CInv, TypeOK
<1>2. CASE User
  BY <1>2, RequestKeeps, ResponseKeeps, NoResponseKeeps DEF User
<1>3. CASE Exit \/ Destroy
  BY <1>3, ExitKeeps, DestroyKeeps
<1>4. CASE Maintainer
  BY <1>4, MaintainKeeps, ConnectsKeeps, ConnectFailsKeeps, InstallKeeps, SleepKeeps
     DEF Maintainer
<1>5. CASE Gone \/ UNCHANGED vars
  BY <1>1, <1>5, AroundKeeps DEF Gone, vars, world
<1>6. CASE Settle
  BY <1>1, <1>6, AroundKeeps DEF Settle
<1>7. CASE \E k \in Conn : Worker(k)
  BY <1>7, GetRequestKeeps, NoRequestKeeps, ReturnResultKeeps DEF Worker
<1>8. CASE \E s \in Server : Kill(s) \/ Elect(s)
  <2>1. ASSUME NEW s \in Server, Elect(s) PROVE CInv'
    BY <1>1, <2>1, AroundKeeps DEF Elect
  <2> QED BY <1>8, <2>1, KillKeeps
<1> QED BY <1>2, <1>3, <1>4, <1>5, <1>6, <1>7, <1>8 DEF Next

\* What an open connection may hold, at any time (kvs_client, connection_manager).
THEOREM ClientInvariant == Spec => []CInv
BY CInvInit, CInvNext, PTL DEF Spec

\* Every variable of KvsClient keeps its type; the user waits on an open connection only.
THEOREM ClientTypes == Spec => []TypeOK
<1>1. CInv => TypeOK
  BY DEF CInv
<1> QED BY <1>1, ClientInvariant, PTL

\* get and put never return the answer to an earlier request (kvs_client::get_response),
\* though answers carry no number.
THEOREM AnswersMatch == Spec => []AnswerMatches
<1>1. CInv => AnswerMatches
  BY DEF CInv, AnswerInv, UserInv, Waits, AnswerMatches
<1> QED BY <1>1, ClientInvariant, PTL

\* The assertions of update_connection, try_to_connect, get and put hold.
THEOREM AssertionsHold == Spec => []ClientAssertions
<1>1. CInv => ClientAssertions
  <2> SUFFICES ASSUME CInv PROVE ClientAssertions
    OBVIOUS
  <2>1. user.pc = "response" => server_connections[primary_server] = user.connection
    BY DEF CInv, UserInv
  <2>2. cm.pc = "install" => server_connections[Target] = Dead
    BY SocketIsNew
  <2>3. user.pc = "idle" =>
          \A s \in Connected : conn[server_connections[s]].peer # "reset"
    BY Entries DEF CInv, CleanInv, Waits, Connected
  <2> QED BY <2>1, <2>2, <2>3 DEF ClientAssertions
<1> QED BY <1>1, ClientInvariant, PTL

\* No socket is lost by the table or by ~kvs_client.
THEOREM NothingLeaks == Spec => []NoSocketLeaks
<1>1. CInv => NoSocketLeaks
  BY DEF CInv, TableInv, NoSocketLeaks
<1> QED BY <1>1, ClientInvariant, PTL
=============================================================================
