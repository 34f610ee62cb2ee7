------------------------------- MODULE Paxos -------------------------------
(***************************************************************************)
(* One Paxos instance per log slot: the acceptor and learner handlers of   *)
(* paxos.cc, the proposer calls prepare / accept / learn, and the way      *)
(* replicated_log::log drives them.  Messages travel over UDP (a set of    *)
(* datagrams in flight: delivered in any order, or never).                 *)
(*                                                                         *)
(* Two kinds of ballot reach an acceptor: "<next_try> <name>" of an        *)
(* unstable log (a server that runs for master, two phases) and the        *)
(* special "-1 @" of a stable log (the master's own slots, second phase    *)
(* only).                                                                  *)
(***************************************************************************)
EXTENDS Integers, FiniteSets

CONSTANTS
    Member,     \* the members, as acceptors and learners (paxos::mymembers)
    Server,     \* the members that log, as the ranks of their names
    Slot,       \* the log slots of the instance
    Window,     \* paxos_log::max_size, the number of slots an acceptor serves
    MaxTry,     \* bound: a server runs for no slot once next_try exceeds it
    Candidate,  \* bound: the servers that run for master
    Retrying,   \* bound: the servers that log again after a failure
    Expiry,     \* the lease expiry times a BEMASTER record may carry
    Owner,      \* Owner[s]: the server whose mastership covers slot s ...
    Nobody,     \* ... or nobody
    NoArg       \* the argument of a record that has only its type token

ASSUME MemberAssumption == IsFiniteSet(Member)
ASSUME ServerAssumption == Server \subseteq Nat \ {0}
ASSUME SlotAssumption == Slot \subseteq Nat /\ Window \in Nat
ASSUME BoundAssumption == 
    MaxTry \in Nat /\ Candidate \subseteq Server /\ Retrying \subseteq Server
ASSUME OwnerAssumption ==
    Owner \in [Slot -> Server \cup {Nobody}] /\ Nobody \notin Server
ASSUME NoArgAssumption == NoArg \notin Expiry \cup Server

\* Mutant of Majority: half of the members.
HalfMajority == Cardinality(Member) \div 2

Majority == Cardinality(Member) \div 2 + 1

(***************************************************************************)
(* Ballots "<try> <name>"; "@" sorts before every server name.             *)
(***************************************************************************)
Special == [try |-> -1, name |-> 0]
NoBallot == [try |-> -2, name |-> 0]    \* the field is absent from the acceptor's map
Regular == [try : Nat, name : Server]
Ballot == Regular \cup {Special, NoBallot}

LargerThan(b1, b2) ==
    b1.try > b2.try \/ (b1.try = b2.try /\ b1.name >= b2.name)

(***************************************************************************)
(* Records, by their tokens: "3 <sec>" (BEMASTER), "1 <key> <value>"       *)
(* (UPDATE, the key and value stand for the server that wrote them) and    *)
(* "2" (HEARTBEAT).                                                        *)
(***************************************************************************)
BeMaster == [type : {"BEMASTER"}, arg : Expiry]
Stable(n) == {[type |-> "UPDATE", arg |-> n], [type |-> "HEARTBEAT", arg |-> NoArg]}
Tokens(r) ==
    IF r.arg = NoArg THEN 1 ELSE IF r.type = "BEMASTER" THEN 2 ELSE 3
FirstToken(r) == [r EXCEPT !.arg = NoArg]
Record == [type : {"BEMASTER", "UPDATE", "HEARTBEAT"},
           arg : Expiry \cup Server \cup {NoArg}]
NoRecord == [type |-> "NONE", arg |-> NoArg]

VARIABLES
    acc,        \* acc[a][s]: acceptor_buffer[s] at server a
    msgs,       \* the datagrams in flight
    call,       \* call[n][s]: the last call of replicated_log::log by n for s
    failure,    \* failure[n]: replicated_log::failure
    next_try    \* next_try[n]: replicated_log::next_try

vars == <<acc, msgs, call, failure, next_try>>

Absent == [st |-> "none", np |-> NoBallot, na |-> NoBallot, va |-> NoRecord]

Idle == [phase |-> "idle", stable |-> FALSE, seq |-> NoBallot,
         record |-> NoRecord, proposal |-> NoRecord, rl |-> "OK",
         replies |-> {}, acks |-> {}]

\* A thread is inside log(), between failed() and the return.
Active(c) == c.phase \in {"entered", "prepare", "accept"}
Busy(n) == \E s \in Slot : Active(call[n][s])

Prepare(n, s, b) ==
    {[type |-> "PREPARE", src |-> n, dst |-> a, slot |-> s, seq |-> b] : a \in Member}
Accept(n, s, b, r) ==
    {[type |-> "ACCEPT", src |-> n, dst |-> a, slot |-> s, seq |-> b, rec |-> r]
        : a \in Member}
\* A learner ignores all but the first: the others need not be in flight.
Learn(to, s, r) ==
    {[type |-> "LEARN", dst |-> a, slot |-> s, rec |-> r]
        : a \in {x \in to : acc[x][s].st # "L"}}
Prepared(m, na, va) ==
    [type |-> "PREPARED", src |-> m.dst, dst |-> m.src, slot |-> m.slot,
     seq |-> m.seq, na |-> na, va |-> va]
Accepted(m) ==
    [type |-> "ACCEPTED", src |-> m.dst, dst |-> m.src, slot |-> m.slot,
     seq |-> m.seq]

Init ==
    /\ acc = [a \in Member |-> [s \in Slot |-> Absent]]
    /\ msgs = {}
    /\ call = [n \in Server |-> [s \in Slot |-> Idle]]
    /\ failure = [n \in Server |-> FALSE]
    /\ next_try = [n \in Server |-> 0]

-----------------------------------------------------------------------------
(***************************************************************************)
(* The acceptor and the learner.  A handler runs under buffer_mutex.       *)
(***************************************************************************)
Consume(m, out) == msgs' = (msgs \ {m}) \cup out
Discard == UNCHANGED <<acc, msgs>>

\* Mutant of InWindow: off by one at the end of the window.
InWindowOrNext(m) == m.slot <= Window

\* first_to_decide stays 0: the servers start with empty files, and check_buffer is off.
InWindow(m) == m.slot < Window

\* The answer of an acceptor that has learned, to the learner of the sender: one of
\* the members, which this module does not match up with the servers that log.
Learned(m) ==
    \E a \in Member : msgs' = msgs \cup Learn({a}, m.slot, acc[m.dst][m.slot].va)

\* Mutant of DoPrepare: the promise is not recorded.
DoPrepareForgets(m) ==
    LET a == acc[m.dst][m.slot] IN
    /\ m.type = "PREPARE"
    /\ InWindow(m) /\ a.st # "L" /\ ~LargerThan(a.np, m.seq)
    /\ acc' = [acc EXCEPT ![m.dst][m.slot].st = "A"]
    /\ Consume(m, {Prepared(m, a.na, a.va)})
    /\ UNCHANGED <<call, failure, next_try>>

\* Mutant of DoPrepare: a ballot already promised is promised again.
DoPrepareAgain(m) ==
    LET a == acc[m.dst][m.slot] IN
    /\ m.type = "PREPARE"
    /\ InWindow(m) /\ a.st # "L" /\ LargerThan(m.seq, a.np)
    /\ acc' = [acc EXCEPT ![m.dst][m.slot] = [a EXCEPT !.st = "A", !.np = m.seq]]
    /\ Consume(m, {Prepared(m, a.na, a.va)})
    /\ UNCHANGED <<call, failure, next_try>>

DoPrepare(m) ==
    LET a == acc[m.dst][m.slot] IN
    /\ m.type = "PREPARE"
    /\ \/ /\ ~InWindow(m) \/ (a.st = "A" /\ LargerThan(a.np, m.seq))
          /\ Discard
       \/ /\ InWindow(m)
          /\ a.st = "L"
          /\ Learned(m)
          /\ UNCHANGED acc
       \/ /\ InWindow(m)
          /\ a.st = "none" \/ (a.st = "A" /\ ~LargerThan(a.np, m.seq))
          /\ acc' = [acc EXCEPT ![m.dst][m.slot] =
                        [a EXCEPT !.st = "A", !.np = m.seq]]
          /\ Consume(m, {Prepared(m, a.na, a.va)})
    /\ UNCHANGED <<call, failure, next_try>>

\* Mutant of DoAccept: the promise is not checked.
DoAcceptAny(m) ==
    /\ m.type = "ACCEPT"
    /\ InWindow(m) /\ acc[m.dst][m.slot].st # "L"
    /\ acc' = [acc EXCEPT ![m.dst][m.slot] =
                  [st |-> "A", np |-> m.seq, na |-> m.seq, va |-> m.rec]]
    /\ Consume(m, {Accepted(m)})
    /\ UNCHANGED <<call, failure, next_try>>

\* Mutant of DoAccept: np is not raised to the accepted ballot.
DoAcceptKeepsPromise(m) ==
    LET a == acc[m.dst][m.slot] IN
    /\ m.type = "ACCEPT"
    /\ InWindow(m) /\ a.st # "L" /\ (a.np = m.seq \/ ~LargerThan(a.np, m.seq))
    /\ acc' = [acc EXCEPT ![m.dst][m.slot] =
                  [a EXCEPT !.st = "A", !.na = m.seq, !.va = m.rec]]
    /\ Consume(m, {Accepted(m)})
    /\ UNCHANGED <<call, failure, next_try>>

DoAccept(m) ==
    LET a == acc[m.dst][m.slot]
        Refused == a.np # m.seq /\ LargerThan(a.np, m.seq)
    IN
    /\ m.type = "ACCEPT"
    /\ \/ /\ ~InWindow(m) \/ (a.st = "A" /\ Refused)
          /\ Discard
       \/ /\ InWindow(m)
          /\ a.st = "L"
          /\ Learned(m)
          /\ UNCHANGED acc
       \/ /\ InWindow(m)
          /\ a.st = "none" \/ (a.st = "A" /\ ~Refused)
          /\ acc' = [acc EXCEPT ![m.dst][m.slot] =
                        [st |-> "A", np |-> m.seq, na |-> m.seq, va |-> m.rec]]
          /\ Consume(m, {Accepted(m)})
    /\ UNCHANGED <<call, failure, next_try>>

\* Mutant of DoLearn: a learned record is overwritten.
DoLearnAgain(m) ==
    /\ m.type = "LEARN"
    /\ InWindow(m)
    /\ acc' = [acc EXCEPT ![m.dst][m.slot].st = "L", ![m.dst][m.slot].va = m.rec]
    /\ Consume(m, {})
    /\ UNCHANGED <<call, failure, next_try>>

DoLearn(m) ==
    LET a == acc[m.dst][m.slot] IN
    /\ m.type = "LEARN"
    /\ \/ /\ ~InWindow(m) \/ a.st = "L"
          /\ Discard
       \/ /\ InWindow(m)
          /\ a.st # "L"
          /\ acc' = [acc EXCEPT ![m.dst][m.slot] =
                        [a EXCEPT !.st = "L", !.va = m.rec]]
          /\ Consume(m, {})
    /\ UNCHANGED <<call, failure, next_try>>

(***************************************************************************)
(* Replies reach the results vector registered for their slot and seq_num, *)
(* if a call still has one registered; others are dropped.                 *)
(***************************************************************************)
Registered(m, phase) ==
    call[m.dst][m.slot].phase = phase /\ call[m.dst][m.slot].seq = m.seq

DoPrepared(m) ==
    /\ m.type = "PREPARED"
    /\ \/ /\ Registered(m, "prepare")
          /\ call' = [call EXCEPT ![m.dst][m.slot].replies = @ \cup {m}]
          /\ Consume(m, {})
       \/ /\ ~Registered(m, "prepare")
          /\ call' = call
          /\ msgs' = msgs
    /\ UNCHANGED <<acc, failure, next_try>>

DoAccepted(m) ==
    /\ m.type = "ACCEPTED"
    /\ \/ /\ Registered(m, "accept")
          /\ call' = [call EXCEPT ![m.dst][m.slot].acks = @ \cup {m}]
          /\ Consume(m, {})
       \/ /\ ~Registered(m, "accept")
          /\ call' = call
          /\ msgs' = msgs
    /\ UNCHANGED <<acc, failure, next_try>>

-----------------------------------------------------------------------------
(***************************************************************************)
(* check_proposed: the value that `proposed' may hold after the loop over  *)
(* the replies, over every order they may have arrived in.  A reply that   *)
(* accepted at the special ballot never beats the initial maximum "-1 @".  *)
(* Only the first token of a record is taken; the second one, if any, is   *)
(* read into the maximum, and beats every later reply.                     *)
(***************************************************************************)
Reported(R) == {m \in R : ~LargerThan(Special, m.na)}

\* Mutant of CheckProposed: nothing is adopted.
AdoptNothing(R) == {NoRecord}

CheckProposed(R) ==
    IF Reported(R) = {} THEN {NoRecord}
    ELSE {FirstToken(m.va) : m \in {q \in Reported(R) :
            Tokens(q.va) >= 2 \/ \A p \in Reported(R) : LargerThan(q.na, p.na)}}

(***************************************************************************)
(* replicated_log::log.  The first step of an unstable log is one action:  *)
(* the server that runs for master has no other thread in log().  A stable *)
(* log reads `failure' first and takes its slot later, in another step.    *)
(***************************************************************************)
LogUnstable(n, s, r) ==
    LET c == call[n][s]
        b == [try |-> next_try[n], name |-> n]
    IN
    /\ ~Busy(n)
    /\ ~failure[n]
    /\ next_try[n] <= MaxTry
    /\ c.phase \in {"idle", "FAIL", "TIMEOUT"} \/ (c.phase = "OK" /\ c.stable)
    /\ call' = [call EXCEPT ![n][s] =
                  [Idle EXCEPT !.phase = "prepare", !.seq = b, !.record = r]]
    /\ msgs' = msgs \cup Prepare(n, s, b)
    /\ UNCHANGED <<acc, failure, next_try>>

LogStable(n, s, r) ==
    /\ Owner[s] = n
    /\ call[n][s].phase = "idle"
    /\ ~failure[n]
    /\ call' = [call EXCEPT ![n][s] =
                  [Idle EXCEPT !.phase = "entered", !.stable = TRUE,
                               !.seq = Special, !.record = r]]
    /\ UNCHANGED <<acc, msgs, failure, next_try>>

AcceptStable(n, s) ==
    LET c == call[n][s] IN
    /\ c.phase = "entered"
    /\ call' = [call EXCEPT ![n][s] =
                  [c EXCEPT !.phase = "accept", !.proposal = c.record]]
    /\ msgs' = msgs \cup Accept(n, s, Special, c.record)
    /\ UNCHANGED <<acc, failure, next_try>>

\* epilogue(true): the first thread to fail takes a new try number.
EpilogueFailed(n) ==
    /\ failure' = [failure EXCEPT ![n] = TRUE]
    /\ next_try' = IF failure[n] THEN next_try
                   ELSE [next_try EXCEPT ![n] = @ + 1]

PrepareTimeout(n, s) ==
    /\ call[n][s].phase = "prepare"
    /\ Cardinality(call[n][s].replies) < Majority
    /\ call' = [call EXCEPT ![n][s].phase = "FAIL"]
    /\ EpilogueFailed(n)
    /\ UNCHANGED <<acc, msgs>>

\* Mutant of PrepareDone: log() proposes `proposed' even when it is empty.
PrepareDoneEmpty(n, s) ==
    LET c == call[n][s] IN
    /\ c.phase = "prepare"
    /\ Cardinality(c.replies) >= Majority
    /\ \E proposed \in CheckProposed(c.replies) :
          /\ call' = [call EXCEPT ![n][s].phase = "accept",
                                  ![n][s].proposal = proposed]
          /\ msgs' = msgs \cup Accept(n, s, c.seq, proposed)
    /\ UNCHANGED <<acc, failure, next_try>>

PrepareDone(n, s) ==
    LET c == call[n][s] IN
    /\ c.phase = "prepare"
    /\ Cardinality(c.replies) >= Majority
    /\ \E proposed \in CheckProposed(c.replies) :
          LET proposal == IF proposed = NoRecord THEN c.record ELSE proposed IN
          /\ call' = [call EXCEPT ![n][s] =
                        [c EXCEPT !.phase = "accept", !.proposal = proposal,
                           !.rl = IF proposed = NoRecord THEN "OK" ELSE "FAIL"]]
          /\ msgs' = msgs \cup Accept(n, s, c.seq, proposal)
    /\ UNCHANGED <<acc, failure, next_try>>

\* Mutant of AcceptTimeout: log() goes on to learn() instead of returning.
AcceptTimeoutLearns(n, s) ==
    /\ call[n][s].phase = "accept"
    /\ Cardinality(call[n][s].acks) < Majority
    /\ call' = [call EXCEPT ![n][s].phase = "TIMEOUT"]
    /\ msgs' = msgs \cup Learn(Member, s, call[n][s].proposal)
    /\ EpilogueFailed(n)
    /\ UNCHANGED acc

AcceptTimeout(n, s) ==
    /\ call[n][s].phase = "accept"
    /\ Cardinality(call[n][s].acks) < Majority
    /\ call' = [call EXCEPT ![n][s].phase = "TIMEOUT"]
    /\ EpilogueFailed(n)
    /\ UNCHANGED <<acc, msgs>>

AcceptDone(n, s) ==
    LET c == call[n][s] IN
    /\ c.phase = "accept"
    /\ Cardinality(c.acks) >= Majority
    /\ call' = [call EXCEPT ![n][s].phase = c.rl]
    /\ msgs' = msgs \cup Learn(Member, s, c.proposal)
    /\ failure' = IF c.rl = "OK" THEN failure ELSE [failure EXCEPT ![n] = TRUE]
    /\ UNCHANGED <<acc, next_try>>

\* replicated_log::reset, once every thread has left log().
Reset(n) ==
    /\ n \in Retrying
    /\ failure[n]
    /\ ~Busy(n)
    /\ failure' = [failure EXCEPT ![n] = FALSE]
    /\ UNCHANGED <<acc, msgs, call, next_try>>

-----------------------------------------------------------------------------
Log(n, s) ==
    \/ n \in Candidate /\ \E r \in BeMaster : LogUnstable(n, s, r)
    \/ \E r \in Stable(n) : LogStable(n, s, r)
    \/ AcceptStable(n, s)
    \/ PrepareTimeout(n, s) \/ PrepareDone(n, s)
    \/ AcceptTimeout(n, s) \/ AcceptDone(n, s)

Receive(m) ==
    \/ DoPrepare(m) \/ DoAccept(m) \/ DoLearn(m)
    \/ DoPrepared(m) \/ DoAccepted(m)

Next ==
    \/ \E n \in Server, s \in Slot : Log(n, s)
    \/ \E m \in msgs : Receive(m)
    \/ \E n \in Server : Reset(n)

Spec == Init /\ [][Next]_vars

-----------------------------------------------------------------------------
PrepareMsg ==
    [type : {"PREPARE"}, src : Server, dst : Member, slot : Slot, seq : Regular]
AcceptMsg ==
    [type : {"ACCEPT"}, src : Server, dst : Member, slot : Slot,
     seq : Regular \cup {Special}, rec : Record]
LearnMsg == [type : {"LEARN"}, dst : Member, slot : Slot, rec : Record]
PreparedMsg ==
    [type : {"PREPARED"}, src : Member, dst : Server, slot : Slot,
     seq : Regular, na : Ballot, va : Record \cup {NoRecord}]
AcceptedMsg ==
    [type : {"ACCEPTED"}, src : Member, dst : Server, slot : Slot,
     seq : Regular \cup {Special}]
Message ==
    PrepareMsg \cup AcceptMsg \cup LearnMsg \cup PreparedMsg \cup AcceptedMsg

Acceptor ==
    [st : {"none", "A", "L"}, np : Ballot, na : Ballot,
     va : Record \cup {NoRecord}]
Call ==
    [phase : {"idle", "entered", "prepare", "accept", "OK", "FAIL", "TIMEOUT"},
     stable : BOOLEAN, seq : Ballot, record : Record \cup {NoRecord},
     proposal : Record \cup {NoRecord}, rl : {"OK", "FAIL"},
     replies : SUBSET PreparedMsg, acks : SUBSET AcceptedMsg]

\* Every variable keeps its type: the fields of acceptor_buffer, the datagrams
\* and the local state of log().
TypeOK ==
    /\ acc \in [Member -> [Slot -> Acceptor]]
    /\ msgs \subseteq Message
    /\ call \in [Server -> [Slot -> Call]]
    /\ failure \in [Server -> BOOLEAN]
    /\ next_try \in [Server -> Nat]

\* n's unstable log for slot s returned OK: n is master (kvs_server.cc, recover).
Won(n, s) == call[n][s].phase = "OK" /\ ~call[n][s].stable

\* At most one server is told that it won the election of a slot, whatever the
\* interleaving of prepares, accepts, timeouts and retries with the same number.
ElectionSafety ==
    \A s \in Slot, n1, n2 \in Server : Won(n1, s) /\ Won(n2, s) => n1 = n2

\* n's call at a regular ballot has the acceptances of a majority.
Chosen(n, s) ==
    ~call[n][s].stable /\ Cardinality(call[n][s].acks) >= Majority

\* n's call went past prepare() with a record of its own, not an adopted one.
OwnProposal(n, s) ==
    /\ call[n][s].phase \in {"accept", "OK", "TIMEOUT"}
    /\ ~call[n][s].stable
    /\ call[n][s].rl = "OK"

\* Once a majority has accepted at a regular ballot, no call with a higher ballot
\* proposes a record of its own: check_proposed makes it adopt.
ChosenBinds ==
    \A s \in Slot, n1, n2 \in Server :
        Chosen(n1, s) /\ OwnProposal(n2, s)
            => LargerThan(call[n1][s].seq, call[n2][s].seq)

\* The results vector counts replies, not senders (prepare and accept compare its
\* size with the majority): this is sound because no acceptor is counted twice in
\* one call, even when a retry reuses the seq_num of the call before it.
OneVotePerAcceptor ==
    \A n \in Server, s \in Slot :
        LET c == call[n][s]
            InFlight == {m \in msgs : /\ m.type \in {"PREPARED", "ACCEPTED"}
                                      /\ m.dst = n /\ m.slot = s /\ m.seq = c.seq}
        IN
        /\ \A m1, m2 \in c.replies : m1.src = m2.src => m1 = m2
        /\ \A m \in InFlight : \A q \in c.replies \cup c.acks :
                m.type = q.type => m.src # q.src

\* A ballot is put to the vote at most once, although a call that adopted leaves
\* next_try alone and the retry prepares with the same number.
OneVotePerBallot ==
    [][\A n \in Server, s \in Slot :
        call[n][s].phase = "prepare" /\ call'[n][s].phase = "accept"
            => /\ \A m \in msgs : ~(/\ m.type \in {"ACCEPT", "ACCEPTED"}
                                    /\ m.slot = s /\ m.seq = call[n][s].seq)
               /\ \A a \in Member : acc[a][s].na # call[n][s].seq]_vars

\* A stable log is answered OK only if no election of that slot was won by a server
\* all of whose prepare replies came from acceptors that had accepted nothing.
FencedOwner ==
    \A s \in Slot, n1, n2 \in Server :
        /\ Won(n1, s)
        /\ \A m \in call[n1][s].replies : m.na = NoBallot
        /\ call[n2][s].stable
        => call[n2][s].phase # "OK"

\* An acceptor never goes back on a promise, and a learned value is final.
AcceptorMonotonic ==
    [][\A a \in Member, s \in Slot :
        /\ LargerThan(acc'[a][s].np, acc[a][s].np)
        /\ acc[a][s].st = "L" => acc'[a][s] = acc[a][s]]_vars

\* The full election records some server has learned for slot s.
LearnedLease(s) ==
    {acc[a][s].va : a \in {x \in Member : acc[x][s].st = "L"}} \cap BeMaster

\* A lease that a server reads from its log was won: no election that timed out or
\* was lost leaves its record, with an expiry time, in anybody's log.
LeaseBacked ==
    \A s \in Slot : \A r \in LearnedLease(s) :
        \E n \in Server : Won(n, s) /\ call[n][s].record = r

\* A slot beyond the acceptors' window is never decided: log() times out on it.
WindowExhausted ==
    \A n \in Server, s \in Slot : s >= Window => call[n][s].phase # "OK"

\* The elections of the log implement Mastership: masters are the callers told OK,
\* the readers of a slot are its learners.
Election == INSTANCE Mastership WITH
    Lease <- BeMaster,
    master <- [s \in Slot |-> {n \in Server : Won(n, s)}],
    lease <- [s \in Slot |-> {call[n][s].record : n \in {x \in Server : Won(x, s)}}],
    published <- [s \in Slot |-> LearnedLease(s)]
ElectsOneMaster == Election!MSpec

-----------------------------------------------------------------------------
(***************************************************************************)
(* What the tests and comments of the repository say, and the code does    *)
(* not do.                                                                 *)
(***************************************************************************)

\* Servers that read a slot read the same record (test/replicated_log/main_3.cc:
\* B and C must read exactly what A logged).
LearnersAgree ==
    \A s \in Slot, a1, a2 \in Member :
        acc[a1][s].st = "L" /\ acc[a2][s].st = "L" => acc[a1][s].va = acc[a2][s].va
=============================================================================
