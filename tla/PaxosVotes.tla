----------------------------- MODULE PaxosVotes -----------------------------
(***************************************************************************)
(* The votes of Paxos: an acceptor is asked once per ballot and counted    *)
(* once, the old master is fenced off by an election that met no trace of  *)
(* it, and beyond the window nothing is decided.                           *)
(***************************************************************************)
EXTENDS PaxosRefinement

\* Where an acceptor has accepted, its later promises say so, and slots beyond the
\* window are never accepted.
FenceInv == \A q \in AcceptedSent :
    /\ q.slot < Window
    /\ acc[q.src][q.slot].na # NoBallot
    /\ q.seq = Special => \A p \in PreparedSent :
          p.src = q.src /\ p.slot = q.slot => p.na # NoBallot

\* A regular ballot carries the name of the server that logs with it.
SourceInv ==
    /\ \A m \in msgs : m.type \in {"PREPARE", "ACCEPT"} /\ m.seq \in Regular
          => m.seq.name = m.src
    /\ \A p \in PreparedSent : p.seq.name = p.dst

\* A ballot was put to the vote: its record is on its way, accepted or answered.
Voted(s, b) ==
    \/ \E m \in msgs : m.type = "ACCEPT" /\ m.slot = s /\ m.seq = b
    \/ \E q \in AcceptedSent : q.slot = s /\ q.seq = b
    \/ \E a \in Member : acc[a][s].na = b

\* A reply that a call counted and went on with.
Spent(p) == \E n \in Server, s \in Slot :
    p \in call[n][s].replies /\ call[n][s].phase # "prepare"

\* A ballot that was put to the vote has used up the promises of a majority.
UsesUp(Q, s, b) == \A a \in Q :
    /\ LargerThan(acc[a][s].np, b)
    /\ \A p \in PreparedSent : p.src = a /\ p.slot = s /\ p.seq = b => Spent(p)
QuorumInv == \A s \in Slot, b \in Regular : Voted(s, b) =>
    \E Q \in SUBSET Member : Cardinality(Q) >= Majority /\ UsesUp(Q, s, b)

\* Each acceptor is asked to accept once per ballot, and answers once.
OnceInv ==
    /\ \A n \in Server, s \in Slot : call[n][s].acks \cap msgs = {}
    /\ \A m \in msgs : m.type = "ACCEPT" => Accepted(m) \notin AcceptedSent
    /\ \A m1, m2 \in msgs : m1.type = "ACCEPT" /\ m2.type = "ACCEPT"
          /\ Accepted(m1) = Accepted(m2) => m1 = m2
    /\ \A n \in Server, s \in Slot : call[n][s].phase \in {"idle", "entered"} =>
          /\ \A m \in msgs : ~(m.type = "ACCEPT" /\ m.src = n /\ m.slot = s)
          /\ \A q \in AcceptedSent : ~(q.dst = n /\ q.slot = s)

\* The four parts together are inductive, given Inv.
VInv == FenceInv /\ SourceInv /\ QuorumInv /\ OnceInv

-----------------------------------------------------------------------------
(***************************************************************************)
(* What a call and its replies are, and what a step adds.                  *)
(***************************************************************************)
\* A step preserves the invariant of PaxosProofs.
LEMMA NextInv == Inv /\ [Next]_vars => Inv'
  BY NextTypes, NextBinding, NextCalls, NextLearns DEF Inv

\* What the replies of one call have in common.
LEMMA CallReplies ==
    ASSUME Inv, NEW n \in Server, NEW s \in Slot
    PROVE  /\ call[n][s] \in Call /\ CallFine(call[n][s], n) /\ RepliesFine(call[n][s], n, s)
           /\ call[n][s].replies \cap msgs = {}
           /\ call[n][s].replies \subseteq PreparedSent
           /\ call[n][s].acks \subseteq AcceptedSent
           /\ \A m \in call[n][s].replies : m.type = "PREPARED" /\ m.src \in Member
           /\ \A m \in call[n][s].acks : m \in AcceptedMsg
  <1>1. call[n][s] \in Call /\ call[n][s].replies \subseteq PreparedSent
    BY CallFacts DEF Inv
  <1>2. CallFine(call[n][s], n) /\ RepliesFine(call[n][s], n, s)
        /\ call[n][s].replies \cap msgs = {}
    BY CallsFine DEF Inv, Calls, ReplyInv, RepliesFine
  <1>3. call[n][s].acks \subseteq AcceptedSent
    BY SentMembers
  <1> QED
    BY <1>1, <1>2, <1>3 DEF Call, PreparedMsg

\* Two replies of one call from one acceptor are the same.
LEMMA RepliesDiffer ==
    ASSUME Inv, NEW n \in Server, NEW s \in Slot
    PROVE  /\ \A m1, m2 \in call[n][s].replies : m1.src = m2.src => m1 = m2
           /\ \A m1, m2 \in call[n][s].acks : m1.src = m2.src => m1 = m2
           /\ \A m \in call[n][s].replies \cup call[n][s].acks : m.src \in Member
  <1> DEFINE c == call[n][s]
  <1>1. /\ RepliesFine(c, n, s) /\ c.replies \subseteq PreparedSent
        /\ \A m \in c.acks : m \in AcceptedMsg
        /\ \A m \in c.replies : m.src \in Member
    BY CallReplies
  <1>2. ASSUME NEW m1 \in c.replies, NEW m2 \in c.replies, m1.src = m2.src
        PROVE  m1 = m2
    <2>1. m1 \in PreparedSent /\ m2 \in PreparedSent
      BY <1>1
    <2>2. m1.dst = m2.dst /\ m1.slot = m2.slot /\ m1.seq = m2.seq
      BY <1>1 DEF RepliesFine
    <2> QED
      BY <1>2, <2>1, <2>2 DEF Inv, Binding, VoteInv
  <1>3. ASSUME NEW m1 \in c.acks, NEW m2 \in c.acks, m1.src = m2.src
        PROVE  m1 = m2
    <2>1. m1.dst = m2.dst /\ m1.slot = m2.slot /\ m1.seq = m2.seq
      BY <1>1 DEF RepliesFine
    <2> QED
      BY <1>1, <1>3, <2>1 DEF AcceptedMsg
  <1>4. \A m \in c.acks : m.src \in Member
    BY <1>1 DEF AcceptedMsg
  <1> QED
    BY <1>1, <1>2, <1>3, <1>4

\* A step that sends no request to accept, and no reply.
NoNew == \A m \in msgs' : m.type \in {"ACCEPT", "PREPARED", "ACCEPTED"} => m \in msgs

\* A call goes to its second phase.
ToVote(n, s) ==
    /\ n \in Server /\ s \in Slot
    /\ PrepareDone(n, s) \/ AcceptStable(n, s)
    /\ \E r : msgs' = msgs \cup Accept(n, s, call[n][s].seq, r)

\* An acceptor takes the request m and answers with r.
Answers(m, r) == call' = call /\ msgs' = (msgs \ {m}) \cup {r}

\* An acceptor promises m; an acceptor accepts m.
Promised(m) ==
    /\ m \in msgs /\ m \in PrepareMsg /\ Promises(m)
    /\ Answers(m, Prepared(m, acc[m.dst][m.slot].na, acc[m.dst][m.slot].va))

Accepts(m) ==
    m \in msgs /\ m \in AcceptMsg /\ m.slot < Window /\ Votes(m) /\ Answers(m, Accepted(m))

\* A step of log() is quiet, or goes to the vote.
LEMMA LogKinds ==
    ASSUME Inv, NEW n \in Server, NEW s \in Slot, Log(n, s)
    PROVE  NoNew \/ ToVote(n, s)
  <1>0. Types
    BY DEF Inv
  <1>1. CASE \E r \in BeMaster : LogUnstable(n, s, r)
    BY <1>0, <1>1, LogUnstableCall DEF NoNew
  <1>2. CASE \E r \in Stable(n) : LogStable(n, s, r)
    BY <1>0, <1>2, LogStableCall DEF NoNew
  <1>3. CASE AcceptStable(n, s)
    <2>1. call[n][s].phase = "entered" /\ CallFine(call[n][s], n)
      BY <1>3, CallReplies DEF AcceptStable
    <2>2. call[n][s].seq = Special
      BY <2>1 DEF CallFine
    <2> QED
      BY <1>3, <2>2 DEF ToVote, AcceptStable
  <1>4. CASE PrepareDone(n, s)
    <2>1. \E r : msgs' = msgs \cup Accept(n, s, call[n][s].seq, r)
      BY <1>4 DEF PrepareDone
    <2> QED
      BY <1>4, <2>1 DEF ToVote
  <1>5. CASE PrepareTimeout(n, s) \/ AcceptTimeout(n, s)
    BY <1>0, <1>5, TimeoutCall DEF NoNew
  <1>6. CASE AcceptDone(n, s)
    BY <1>0, <1>6, AcceptDoneCall DEF NoNew
  <1> QED
    BY <1>1, <1>2, <1>3, <1>4, <1>5, <1>6 DEF Log

\* A PREPARE is discarded, refused or promised.
LEMMA PrepareKinds ==
    ASSUME Inv, NEW m \in msgs, DoPrepare(m)
    PROVE  (NoNew /\ Quiet) \/ Promised(m)
  <1> DEFINE a == acc[m.dst][m.slot]
             p == Prepared(m, a.na, a.va)
  <1>0. Types /\ Binding /\ msgs \subseteq Message
    BY DEF Inv, Types, TypeOK
  <1>1. m \in PrepareMsg
    BY <1>0, MessageKinds DEF DoPrepare
  <1>2. m.dst \in Member /\ m.slot \in Slot /\ m.seq \in Regular
    BY <1>1 DEF PrepareMsg
  <1>3. Quiet \/ Promises(m)
    BY <1>0, DoPrepareEffect
  <1>4. call' = call
    BY DEF DoPrepare
  <1>5. CASE (Discard \/ Learned(m)) /\ UNCHANGED acc
    <2>1. NoNew
      BY <1>5 DEF Discard, Learned, Learn, NoNew
    <2>2. ~Promises(m)
      <3>1. a.np \in Ballot /\ (a.st = "none" => a.np = NoBallot)
        BY <1>0, <1>2, BallotTypes DEF Binding, AcceptorInv, Absent
      <3>2. LargerThan(m.seq, m.seq) /\ ~LargerThan(NoBallot, m.seq)
        BY <1>2, RegularIsAbove, LargerThanOrders
      <3>3. Promises(m) => acc'[m.dst][m.slot].np = m.seq /\ (a.st # "none" => ~LargerThan(a.np, m.seq))
        BY DEF Promises
      <3> QED
        BY <1>5, <3>1, <3>2, <3>3
    <2> QED
      BY <1>3, <2>1, <2>2
  <1>6. CASE Consume(m, {p}) /\ acc' = [acc EXCEPT ![m.dst][m.slot] = [a EXCEPT !.st = "A", !.np = m.seq]]
             /\ (a.st = "none" \/ (a.st = "A" /\ ~LargerThan(a.np, m.seq)))
    <2>1. ~Quiet
      <3>1. acc \in [Member -> [Slot -> Acceptor]] /\ a \in Acceptor
        BY <1>0, <1>2 DEF Types, TypeOK
      <3>2. acc'[m.dst][m.slot].np = m.seq
        BY <1>2, <1>6, <3>1 DEF Acceptor
      <3>3. a.st = "none" => a.np = NoBallot
        BY <1>0, <1>2 DEF Binding, AcceptorInv, Absent
      <3>4. LargerThan(m.seq, m.seq) /\ ~LargerThan(NoBallot, m.seq)
        BY <1>2, RegularIsAbove, LargerThanOrders
      <3>5. a.np # m.seq
        BY <1>6, <3>3, <3>4
      <3> QED
        BY <1>2, <3>2, <3>5 DEF Quiet
    <2> QED
      BY <1>1, <1>3, <1>4, <1>6, <2>1 DEF Promised, Answers, Consume
  <1> QED
    BY <1>5, <1>6 DEF DoPrepare, Discard

\* An ACCEPT is discarded, refused or accepted.
LEMMA AcceptKinds ==
    ASSUME Inv, NEW m \in msgs, DoAccept(m)
    PROVE  (NoNew /\ Quiet) \/ Accepts(m)
  <1> DEFINE a == acc[m.dst][m.slot]
             r == [st |-> "A", np |-> m.seq, na |-> m.seq, va |-> m.rec]
  <1>0. Types /\ msgs \subseteq Message
    BY DEF Inv, Types, TypeOK
  <1>1. m \in AcceptMsg
    BY <1>0, MessageKinds DEF DoAccept
  <1>2. m.dst \in Member /\ m.slot \in Slot /\ m.src \in Server /\ m.seq \in Regular \cup {Special}
    BY <1>1 DEF AcceptMsg
  <1>3. call' = call
    BY DEF DoAccept
  <1>4. CASE (Discard \/ Learned(m)) /\ UNCHANGED acc
    <2>1. NoNew
      BY <1>4 DEF Discard, Learned, Learn, NoNew
    <2>2. PreparedSent' \subseteq PreparedSent /\ AcceptedSent' \subseteq AcceptedSent
      BY <1>3, <2>1, SentMembers DEF NoNew
    <2> QED
      BY <1>4, <2>1, <2>2 DEF Quiet
  <1>5. CASE Consume(m, {Accepted(m)}) /\ InWindow(m) /\ acc' = [acc EXCEPT ![m.dst][m.slot] = r]
             /\ (a.st = "none" \/ (a.st = "A" /\ ~(a.np # m.seq /\ LargerThan(a.np, m.seq))))
    <2>1. acc'[m.dst][m.slot] = r /\ OthersKeep(m)
      BY <1>0, <1>2, <1>5 DEF Types, TypeOK, OthersKeep
    <2>2. Accepted(m).type = "ACCEPTED" /\ msgs' \subseteq msgs \cup {Accepted(m)}
      BY <1>5 DEF Accepted, Consume
    <2>3. PreparedSent' \subseteq PreparedSent /\ AcceptedSent' \subseteq AcceptedSent \cup {Accepted(m)}
      BY <1>3, <2>2, SentMembers
    <2>4. Votes(m)
      BY <1>2, <1>5, <2>1, <2>3 DEF Votes
    <2> QED
      BY <1>1, <1>3, <1>5, <2>4 DEF Accepts, Answers, Consume, InWindow
  <1> QED
    BY <1>4, <1>5 DEF DoAccept, Discard

\* Every step is quiet, and sends nothing or asks for votes; or is a promise, or a vote.
LEMMA StepKinds ==
    ASSUME Inv, [Next]_vars
    PROVE  \/ Quiet /\ (NoNew \/ \E n \in Server, s \in Slot : ToVote(n, s))
           \/ \E m \in msgs : Promised(m) \/ Accepts(m)
  <1>0. Types
    BY DEF Inv
  <1>1. ASSUME NEW n \in Server, NEW s \in Slot, Log(n, s)
        PROVE  Quiet /\ (NoNew \/ ToVote(n, s))
    BY <1>0, <1>1, LogEffect, LogKinds
  <1>2. ASSUME NEW m \in msgs, DoLearn(m) PROVE Quiet /\ NoNew
    BY <1>0, <1>2, DoLearnEffect DEF DoLearn, Discard, Consume, NoNew
  <1>3. ASSUME NEW m \in msgs, DoPrepared(m) \/ DoAccepted(m) PROVE Quiet /\ NoNew
    BY <1>0, <1>3, CountEffect DEF DoPrepared, DoAccepted, Consume, NoNew
  <1>4. ASSUME NEW m \in msgs, Receive(m)
        PROVE  (Quiet /\ NoNew) \/ Promised(m) \/ Accepts(m)
    BY <1>2, <1>3, <1>4, PrepareKinds, AcceptKinds DEF Receive
  <1>5. CASE (\E n \in Server : Reset(n)) \/ UNCHANGED vars
    BY <1>5 DEF Reset, vars, Quiet, NoNew, PreparedSent, AcceptedSent
  <1> QED
    BY <1>1, <1>4, <1>5 DEF Next

\* What a step does to one call, as far as the votes go.
LEMMA CallSteps ==
    ASSUME Inv, [Next]_vars, NEW n \in Server, NEW s \in Slot
    PROVE  /\ call'[n][s].phase = "prepare"
                => call[n][s].phase = "prepare" \/ call'[n][s].replies = {}
           /\ call'[n][s].phase \in {"idle", "entered"} => call[n][s].phase \in {"idle", "entered"}
           /\ call[n][s].phase = "prepare" /\ call'[n][s].phase = "accept" => PrepareDone(n, s)
           /\ \/ call'[n][s].acks \subseteq call[n][s].acks
              \/ \E m \in msgs : call'[n][s].acks \subseteq call[n][s].acks \cup {m} /\ msgs' = msgs \ {m}
  <1>0. Types
    BY DEF Inv
  <1>1. ASSUME NEW n1 \in Server, NEW s1 \in Slot, Log(n1, s1), n1 # n \/ s1 # s
        PROVE  call'[n][s] = call[n][s]
    <2>1. OtherCallsKeep(n1, s1)
      BY <1>0, <1>1, LogUnstableCall, LogStableCall, AcceptStableCall, PrepareDoneCall,
         TimeoutCall, AcceptDoneCall DEF Log
    <2> QED
      BY <1>1, <2>1 DEF OtherCallsKeep
  <1>2. CASE \E r \in BeMaster : LogUnstable(n, s, r)
    <2>1. PICK r \in BeMaster : LogUnstable(n, s, r)
      BY <1>2
    <2>2. call'[n][s] = [Idle EXCEPT !.phase = "prepare", !.record = r,
                             !.seq = [try |-> next_try[n], name |-> n]]
      BY <1>0, <2>1, LogUnstableCall
    <2>3. call'[n][s].phase = "prepare" /\ call'[n][s].replies = {} /\ call'[n][s].acks = {}
      BY <2>2 DEF Idle
    <2> QED
      BY <2>3
  <1>3. CASE \E r \in Stable(n) : LogStable(n, s, r)
    <2>1. PICK r \in Stable(n) : LogStable(n, s, r)
      BY <1>3
    <2>2. call'[n][s] = [Idle EXCEPT !.phase = "entered", !.stable = TRUE,
                             !.seq = Special, !.record = r]
      BY <1>0, <2>1, LogStableCall
    <2>3. call'[n][s].phase = "entered" /\ call'[n][s].acks = {}
      BY <2>2 DEF Idle
    <2>4. call[n][s].phase = "idle"
      BY <2>1 DEF LogStable
    <2> QED
      BY <2>3, <2>4
  <1>4. CASE AcceptStable(n, s)
    BY <1>0, <1>4, AcceptStableCall DEF Keeps
  <1>5. CASE PrepareDone(n, s)
    BY <1>0, <1>5, PrepareDoneCall DEF Keeps
  <1>6. CASE PrepareTimeout(n, s) \/ AcceptTimeout(n, s)
    BY <1>0, <1>6, TimeoutCall DEF Keeps
  <1>7. CASE AcceptDone(n, s)
    <2>1. /\ call[n][s].phase = "accept" /\ call'[n][s].phase = call[n][s].rl
          /\ call'[n][s].acks = call[n][s].acks
      BY <1>0, <1>7, AcceptDoneCall DEF Keeps
    <2>2. call[n][s].rl \in {"OK", "FAIL"}
      BY <1>0, CallFacts DEF Call
    <2> QED
      BY <2>1, <2>2
  <1>8. ASSUME NEW m \in msgs, Receive(m)
        PROVE  /\ call'[n][s].phase = call[n][s].phase
               /\ \/ call'[n][s].acks \subseteq call[n][s].acks
                  \/ call'[n][s].acks \subseteq call[n][s].acks \cup {m} /\ msgs' = msgs \ {m}
    <2>1. CASE DoPrepared(m)
      <3>1. PICK c : c = call[m.dst][m.slot]
        OBVIOUS
      <3>2. \/ call' = call
            \/ /\ m.dst \in Server /\ m.slot \in Slot
               /\ call'[m.dst][m.slot] = [c EXCEPT !.replies = c.replies \cup {m}]
               /\ OtherCallsKeep(m.dst, m.slot)
        BY <1>0, <2>1, <3>1, DoPreparedCall
      <3>3. m.dst \in Server /\ m.slot \in Slot => c \in Call
        BY <1>0, <3>1, CallFacts
      <3>4. \/ call' = call
            \/ /\ call'[m.dst][m.slot].phase = c.phase /\ call'[m.dst][m.slot].acks = c.acks
               /\ OtherCallsKeep(m.dst, m.slot)
        BY <3>2, <3>3 DEF Call
      <3> QED
        BY <3>1, <3>4 DEF OtherCallsKeep
    <2>2. CASE DoAccepted(m)
      <3>1. PICK c : c = call[m.dst][m.slot]
        OBVIOUS
      <3>2. \/ call' = call
            \/ /\ m.dst \in Server /\ m.slot \in Slot
               /\ call'[m.dst][m.slot] = [c EXCEPT !.acks = c.acks \cup {m}]
               /\ OtherCallsKeep(m.dst, m.slot)
               /\ msgs' = msgs \ {m}
        BY <1>0, <2>2, <3>1, DoAcceptedCall
      <3>3. m.dst \in Server /\ m.slot \in Slot => c \in Call
        BY <1>0, <3>1, CallFacts
      <3>4. \/ call' = call
            \/ /\ call'[m.dst][m.slot].phase = c.phase
               /\ call'[m.dst][m.slot].acks = c.acks \cup {m}
               /\ OtherCallsKeep(m.dst, m.slot) /\ msgs' = msgs \ {m}
        BY <3>2, <3>3 DEF Call
      <3> QED
        BY <3>1, <3>4 DEF OtherCallsKeep
    <2>3. CASE DoPrepare(m) \/ DoAccept(m) \/ DoLearn(m)
      BY <2>3 DEF DoPrepare, DoAccept, DoLearn
    <2> QED
      BY <1>8, <2>1, <2>2, <2>3 DEF Receive
  <1>9. CASE call' = call
    BY <1>9
  <1>10. ASSUME NEW n1 \in Server, NEW s1 \in Slot, Log(n1, s1), n1 = n, s1 = s
         PROVE  \/ \E r \in BeMaster : LogUnstable(n, s, r)
                \/ \E r \in Stable(n) : LogStable(n, s, r)
                \/ AcceptStable(n, s) \/ PrepareDone(n, s)
                \/ PrepareTimeout(n, s) \/ AcceptTimeout(n, s) \/ AcceptDone(n, s)
    BY <1>10 DEF Log
  <1>11. \/ \E n1 \in Server, s1 \in Slot : Log(n1, s1)
         \/ \E m \in msgs : Receive(m)
         \/ call' = call
    BY DEF Next, Reset, vars
  <1>12. ASSUME call'[n][s] = call[n][s]
         PROVE  /\ call'[n][s].phase = call[n][s].phase
                /\ call'[n][s].acks \subseteq call[n][s].acks
    BY <1>12
  <1>13. CASE \E n1 \in Server, s1 \in Slot : Log(n1, s1)
    BY <1>1, <1>2, <1>3, <1>4, <1>5, <1>6, <1>7, <1>10, <1>12, <1>13
  <1>14. CASE \E m \in msgs : Receive(m)
    BY <1>8, <1>14
  <1> QED
    BY <1>9, <1>11, <1>13, <1>14

-----------------------------------------------------------------------------
(***************************************************************************)
(* A ballot is put to the vote once.                                       *)
(***************************************************************************)
\* A call that goes to the vote has the promises of a majority, and none was spent.
LEMMA NotVoted ==
    ASSUME Inv, QuorumInv, NEW n \in Server, NEW s \in Slot, PrepareDone(n, s)
    PROVE  call[n][s].seq \in Regular /\ call[n][s].seq.name = n /\ ~Voted(s, call[n][s].seq)
  <1> DEFINE c == call[n][s]
             R == {m.src : m \in c.replies}
  <1>1. /\ c.phase = "prepare" /\ Cardinality(c.replies) >= Majority
        /\ CallFine(c, n) /\ RepliesFine(c, n, s) /\ c.replies \subseteq PreparedSent
    BY CallReplies DEF PrepareDone
  <1>2. c.replies # {}
    BY <1>1, FS_EmptySet, MajorityIsMore
  <1>3. c.seq \in Regular /\ c.seq.name = n
    BY <1>1, <1>2 DEF CallFine
  <1>4. R \subseteq Member /\ Cardinality(R) >= Majority
    <2>1. /\ \A m \in c.replies : m.src \in Member
          /\ \A m1, m2 \in c.replies : m1.src = m2.src => m1 = m2
      BY RepliesDiffer
    <2> QED
      BY <1>1, <2>1, RepliesCountMembers
  <1>5. ASSUME Voted(s, c.seq) PROVE FALSE
    <2>1. PICK Q \in SUBSET Member : Cardinality(Q) >= Majority /\ UsesUp(Q, s, c.seq)
      BY <1>3, <1>5 DEF QuorumInv
    <2>2. Q \cap R # {}
      <3>1. /\ Cardinality(Q) \in Nat /\ Cardinality(R) \in Nat /\ Cardinality(Member) \in Nat
        BY <1>4, FS_Subset, FS_CardinalityType, MemberAssumption
      <3>2. Cardinality(Q) + Cardinality(R) > Cardinality(Member)
        <4> HIDE DEF R
        <4> QED
          BY <1>4, <2>1, <3>1, MajorityIsMore
      <3> HIDE DEF R
      <3> QED
        BY <1>4, <3>2, FS_MajoritiesIntersect, MemberAssumption
    <2>3. PICK m \in c.replies : m.src \in Q
      BY <2>2
    <2>4. m \in PreparedSent /\ m.slot = s /\ m.seq = c.seq /\ m.dst = n
      BY <1>1 DEF RepliesFine
    <2>5. PICK n1 \in Server, s1 \in Slot :
            m \in call[n1][s1].replies /\ call[n1][s1].phase # "prepare"
      BY <2>1, <2>3, <2>4 DEF UsesUp, Spent
    <2>6. n1 = n /\ s1 = s
      <3>1. RepliesFine(call[n1][s1], n1, s1)
        BY CallReplies
      <3> QED
        BY <2>4, <2>5, <3>1 DEF RepliesFine
    <2> QED
      BY <1>1, <2>5, <2>6
  <1> QED
    BY <1>3, <1>5

\* A promise leaves the acceptor below it, so its reply is a new one.
LEMMA PromisedIsNew ==
    ASSUME Inv, NEW m, Promised(m)
    PROVE  /\ ~LargerThan(acc[m.dst][m.slot].np, m.seq)
           /\ m.dst \in Member /\ m.slot \in Slot /\ m.seq \in Regular
           /\ Prepared(m, acc[m.dst][m.slot].na, acc[m.dst][m.slot].va) \notin PreparedSent
  <1> DEFINE a == acc[m.dst][m.slot]
             p == Prepared(m, a.na, a.va)
  <1>1. /\ m.dst \in Member /\ m.slot \in Slot /\ m.seq \in Regular
        /\ a.st # "none" => ~LargerThan(a.np, m.seq)
    BY DEF Promised, Promises
  <1>2. a.st = "none" => a.np = NoBallot
    BY <1>1 DEF Inv, Binding, AcceptorInv, Absent
  <1>3. ~LargerThan(a.np, m.seq)
    BY <1>1, <1>2, RegularIsAbove
  <1>4. p.src = m.dst /\ p.slot = m.slot /\ p.seq = m.seq
    BY DEF Prepared
  <1>5. p \in PreparedSent => LargerThan(acc[p.src][p.slot].np, p.seq)
    BY DEF Inv, Binding, PromiseInv
  <1> QED
    BY <1>1, <1>3, <1>4, <1>5

\* A PREPARED in flight after a step was in flight before it, or is new.
LEMMA PreparedIsNew ==
    ASSUME Inv, [Next]_vars, NEW p \in msgs', p.type = "PREPARED", p \notin msgs
    PROVE  p \notin PreparedSent
  <1>1. ASSUME NEW m \in msgs, Promised(m) PROVE p \notin PreparedSent
    <2>1. p = Prepared(m, acc[m.dst][m.slot].na, acc[m.dst][m.slot].va)
      BY <1>1 DEF Promised, Answers
    <2> QED
      BY <1>1, <2>1, PromisedIsNew
  <1>2. ASSUME NEW m \in msgs, Accepts(m) PROVE FALSE
    BY <1>2 DEF Accepts, Answers, Accepted
  <1>3. ASSUME NEW n \in Server, NEW s \in Slot, ToVote(n, s) PROVE FALSE
    BY <1>3 DEF ToVote, Accept
  <1> QED
    BY <1>1, <1>2, <1>3, StepKinds DEF NoNew

\* A spent reply stays spent as long as anybody has it.
LEMMA SpentStays ==
    ASSUME Inv, [Next]_vars, NEW p \in PreparedSent', p \in PreparedSent, Spent(p)
    PROVE  Spent(p)'
  <1>0. Inv'
    BY NextInv
  <1>1. PICK n \in Server, s \in Slot : p \in call[n][s].replies /\ call[n][s].phase # "prepare"
    BY DEF Spent
  <1>2. p.dst = n /\ p.slot = s /\ p \notin msgs /\ p.type = "PREPARED"
    BY <1>1, CallReplies DEF RepliesFine
  <1>3. p \notin msgs'
    BY <1>2, PreparedIsNew
  <1>4. PICK n1 \in Server, s1 \in Slot : p \in call'[n1][s1].replies
    BY <1>3, SentMembers
  <1>5. p.dst = n1 /\ p.slot = s1
    BY <1>0, <1>4 DEF Inv, Calls, ReplyInv
  <1>6. call'[n][s].phase # "prepare"
    BY <1>1, <1>2, <1>4, <1>5, CallSteps
  <1> QED
    BY <1>2, <1>4, <1>5, <1>6 DEF Spent

\* Promises that are used up stay so.
LEMMA UsesUpStays ==
    ASSUME Inv, [Next]_vars, NEW Q \in SUBSET Member, NEW s \in Slot, NEW b \in Regular,
           UsesUp(Q, s, b)
    PROVE  UsesUp(Q, s, b)'
  <1>1. SUFFICES ASSUME NEW a \in Q
                 PROVE  /\ LargerThan(acc'[a][s].np, b)
                        /\ \A p \in PreparedSent' :
                              p.src = a /\ p.slot = s /\ p.seq = b => Spent(p)'
    BY DEF UsesUp
  <1>2. Types /\ Binding /\ Types'
    BY NextInv DEF Inv
  <1>3. LargerThan(acc[a][s].np, b)
    BY DEF UsesUp
  <1>4. LargerThan(acc'[a][s].np, b)
    <2>1. LargerThan(acc'[a][s].np, acc[a][s].np)
      BY <1>2, PromiseGrows
    <2>2. acc'[a][s].np \in Ballot /\ acc[a][s].np \in Ballot
      <3>1. /\ acc' \in [Member -> [Slot -> Acceptor]] /\ acc \in [Member -> [Slot -> Acceptor]]
        BY <1>2 DEF Types, TypeOK
      <3> QED
        BY <3>1 DEF Acceptor
    <2> QED
      BY <1>3, <2>1, <2>2, LargerThanOrders, RegularIsAbove
  <1>5. ASSUME NEW p \in PreparedSent', p.src = a, p.slot = s, p.seq = b
        PROVE  p \in PreparedSent
    <2>1. ASSUME NEW m \in msgs, Promised(m) PROVE p \in PreparedSent
      <3> DEFINE q == Prepared(m, acc[m.dst][m.slot].na, acc[m.dst][m.slot].va)
      <3>1. p \in PreparedSent \/ p = q
        BY <2>1 DEF Promised, Promises
      <3>2. q.src = m.dst /\ q.slot = m.slot /\ q.seq = m.seq
        BY DEF Prepared
      <3>3. ~LargerThan(acc[m.dst][m.slot].np, m.seq)
        BY <2>1, PromisedIsNew
      <3> HIDE DEF q
      <3> QED
        BY <1>3, <1>5, <3>1, <3>2, <3>3
    <2>2. ASSUME NEW m \in msgs, Accepts(m) PROVE p \in PreparedSent
      BY <2>2 DEF Accepts, Votes
    <2> QED
      BY <2>1, <2>2, StepKinds DEF Quiet
  <1> QED
    BY <1>4, <1>5, SpentStays DEF UsesUp

\* Before a ballot is put to the vote it has the promises of a majority, now spent.
LEMMA ToVoteUsesUp ==
    ASSUME Inv, SourceInv, QuorumInv, [Next]_vars,
           NEW n \in Server, NEW s \in Slot, PrepareDone(n, s), Quiet,
           NEW b, b = call[n][s].seq
    PROVE  \E Q \in SUBSET Member : Cardinality(Q) >= Majority /\ UsesUp(Q, s, b)'
  <1>1. PICK Q : Q = {m.src : m \in call[n][s].replies}
    OBVIOUS
  <1>2. /\ Cardinality(call[n][s].replies) >= Majority
        /\ RepliesFine(call[n][s], n, s) /\ call[n][s].replies \subseteq PreparedSent
    BY CallReplies DEF PrepareDone
  <1>3. Q \subseteq Member /\ Cardinality(Q) >= Majority
    <2>1. /\ \A m \in call[n][s].replies : m.src \in Member
          /\ \A m1, m2 \in call[n][s].replies : m1.src = m2.src => m1 = m2
      BY RepliesDiffer
    <2> QED
      BY <1>1, <1>2, <2>1, RepliesCountMembers
  <1>4. /\ call'[n][s].replies = call[n][s].replies /\ call'[n][s].phase = "accept"
    BY PrepareDoneCall DEF Inv, Keeps
  <1>5. b \in Regular /\ b.name = n
    BY NotVoted
  <1>6. ASSUME NEW a \in Q
        PROVE  /\ LargerThan(acc'[a][s].np, b)
               /\ \A p \in PreparedSent' : p.src = a /\ p.slot = s /\ p.seq = b => Spent(p)'
    <2>1. PICK m \in call[n][s].replies : m.src = a
      BY <1>1, <1>6
    <2>2. m \in PreparedSent /\ m.slot = s /\ m.seq = b /\ m.dst = n
      BY <1>2 DEF RepliesFine
    <2>3. LargerThan(acc[a][s].np, b)
      BY <2>1, <2>2 DEF Inv, Binding, PromiseInv
    <2>4. acc'[a][s].np = acc[a][s].np
      BY <1>3, <1>6 DEF Quiet
    <2>5. ASSUME NEW p \in PreparedSent', p.src = a, p.slot = s, p.seq = b
          PROVE  Spent(p)'
      <3>1. p \in PreparedSent
        BY DEF Quiet
      <3>2. p.dst = n
        BY <1>5, <2>5, <3>1 DEF SourceInv
      <3>3. p = m
        BY <2>1, <2>2, <2>5, <3>1, <3>2 DEF Inv, Binding, VoteInv
      <3> QED
        BY <1>4, <3>3 DEF Spent
    <2> QED
      BY <2>3, <2>4, <2>5
  <1>7. UsesUp(Q, s, b)'
    BY <1>6 DEF UsesUp
  <1> QED
    BY <1>3, <1>7

\* A ballot is put to the vote by the request of the call that prepared it.
LEMMA NewlyVoted ==
    ASSUME Inv, [Next]_vars, NEW s \in Slot, NEW b \in Regular, Voted(s, b)', ~Voted(s, b)
    PROVE  Quiet /\ \E n \in Server : PrepareDone(n, s) /\ call[n][s].seq = b
  <1>1. ASSUME Quiet, NoNew PROVE FALSE
    BY <1>1 DEF Quiet, NoNew, Voted
  <1>2. ASSUME NEW m \in msgs, Promised(m) PROVE FALSE
    <2>1. \A a \in Member : acc'[a][s].na = acc[a][s].na
      BY <1>2 DEF Promised, Promises, OthersKeep
    <2>2. AcceptedSent' \subseteq AcceptedSent
      BY <1>2 DEF Promised, Promises
    <2>3. \A q \in msgs' : q.type = "ACCEPT" => q \in msgs
      BY <1>2 DEF Promised, Answers, Prepared
    <2> QED
      BY <2>1, <2>2, <2>3 DEF Voted
  <1>3. ASSUME NEW m \in msgs, Accepts(m) PROVE FALSE
    <2>1. m.type = "ACCEPT" /\ ~(m.slot = s /\ m.seq = b)
      BY <1>3 DEF Accepts, AcceptMsg, Voted
    <2>2. \A a \in Member : acc'[a][s].na = b => acc[a][s].na = b
      BY <1>3, <2>1 DEF Accepts, Votes, OthersKeep
    <2>3. \A q \in AcceptedSent' : q.slot = s /\ q.seq = b => q \in AcceptedSent
      BY <1>3, <2>1 DEF Accepts, Votes, Accepted
    <2>4. \A q \in msgs' : q.type = "ACCEPT" => q \in msgs
      BY <1>3 DEF Accepts, Answers, Accepted
    <2> QED
      BY <2>2, <2>3, <2>4 DEF Voted
  <1>4. ASSUME NEW n \in Server, NEW s1 \in Slot, ToVote(n, s1), Quiet
        PROVE  PrepareDone(n, s) /\ call[n][s].seq = b
    <2>1. PICK r : msgs' = msgs \cup Accept(n, s1, call[n][s1].seq, r)
      BY <1>4 DEF ToVote
    <2>2. PICK q \in msgs' : q.type = "ACCEPT" /\ q.slot = s /\ q.seq = b /\ q \notin msgs
      BY <1>4 DEF Quiet, Voted
    <2>3. s1 = s /\ call[n][s].seq = b
      BY <2>1, <2>2 DEF Accept
    <2>4. ~AcceptStable(n, s)
      <3>1. CallFine(call[n][s], n)
        BY CallReplies
      <3> QED
        BY <2>3, <3>1, RegularIsAbove DEF AcceptStable, CallFine
    <2> QED
      BY <1>4, <2>3, <2>4 DEF ToVote
  <1> QED
    BY <1>1, <1>2, <1>3, <1>4, StepKinds

\* A ballot newly put to the vote uses up its majority; the others keep theirs.
LEMMA NextQuorum ==
    ASSUME Inv, SourceInv, QuorumInv, [Next]_vars
    PROVE  QuorumInv'
  <1> SUFFICES ASSUME NEW s \in Slot, NEW b \in Regular, Voted(s, b)'
               PROVE  \E Q \in SUBSET Member : Cardinality(Q) >= Majority /\ UsesUp(Q, s, b)'
    BY DEF QuorumInv
  <1>1. CASE Voted(s, b)
    BY <1>1, UsesUpStays DEF QuorumInv
  <1>2. CASE ~Voted(s, b)
    <2>1. Quiet
      BY <1>2, NewlyVoted
    <2>2. PICK n \in Server : PrepareDone(n, s) /\ b = call[n][s].seq
      BY <1>2, NewlyVoted
    <2> QED
      BY <2>1, <2>2, ToVoteUsesUp
  <1> QED
    BY <1>1, <1>2

\* Requests carry the name of their sender in a regular ballot, and answers copy it.
LEMMA NextSource ==
    ASSUME Inv, SourceInv, [Next]_vars
    PROVE  SourceInv'
  <1>0. Types
    BY DEF Inv
  <1>1. ASSUME NEW m \in msgs', m \notin msgs, m.type = "PREPARE" PROVE m.seq.name = m.src
    <2>1. ASSUME NEW n \in Server, NEW s \in Slot, Log(n, s) PROVE m.seq.name = m.src
      <3>1. CASE \E r \in BeMaster : LogUnstable(n, s, r)
        BY <1>1, <3>1 DEF LogUnstable, Prepare
      <3>2. CASE ~\E r \in BeMaster : LogUnstable(n, s, r)
        BY <1>0, <1>1, <2>1, <3>2, LogStableCall, AcceptStableCall, PrepareDoneCall,
           TimeoutCall, AcceptDoneCall DEF Log
      <3> QED
        BY <3>1, <3>2
    <2>2. ASSUME NEW q \in msgs, Receive(q) PROVE FALSE
      <3>1. CASE DoPrepare(q)
        BY <1>1, <3>1 DEF DoPrepare, Discard, Learned, Learn, Consume, Prepared
      <3>2. CASE DoAccept(q)
        BY <1>1, <3>2 DEF DoAccept, Discard, Learned, Learn, Consume, Accepted
      <3>3. CASE DoLearn(q)
        BY <1>1, <3>3 DEF DoLearn, Discard, Consume
      <3>4. CASE DoPrepared(q) \/ DoAccepted(q)
        BY <1>1, <3>4 DEF DoPrepared, DoAccepted, Consume
      <3> QED
        BY <2>2, <3>1, <3>2, <3>3, <3>4 DEF Receive
    <2>3. ~UNCHANGED msgs
      BY <1>1
    <2> QED
      BY <2>1, <2>2, <2>3 DEF Next, Reset, vars
  <1>2. ASSUME NEW m \in msgs', m \notin msgs, m.type = "ACCEPT", m.seq \in Regular
        PROVE  m.seq.name = m.src
    <2>1. ASSUME NEW q \in msgs, Promised(q) \/ Accepts(q) PROVE FALSE
      BY <1>2, <2>1 DEF Promised, Accepts, Answers, Prepared, Accepted
    <2>2. PICK n \in Server, s \in Slot : ToVote(n, s)
      BY <1>2, <2>1, StepKinds DEF NoNew
    <2>3. m.src = n /\ m.seq = call[n][s].seq
      BY <1>2, <2>2 DEF ToVote, Accept
    <2>4. call[n][s].phase \in {"prepare", "entered"} /\ CallFine(call[n][s], n)
      BY <2>2, CallReplies DEF ToVote, PrepareDone, AcceptStable
    <2>5. ~call[n][s].stable
      BY <1>2, <2>3, <2>4, RegularIsAbove DEF CallFine
    <2> QED
      BY <2>3, <2>4, <2>5 DEF CallFine
  <1>3. ASSUME NEW p \in PreparedSent', p \notin PreparedSent PROVE p.seq.name = p.dst
    <2>1. PICK m \in msgs : Promised(m)
      BY <1>3, StepKinds DEF Quiet, Accepts, Votes
    <2>2. p = Prepared(m, acc[m.dst][m.slot].na, acc[m.dst][m.slot].va)
      BY <1>3, <2>1 DEF Promised, Promises
    <2>3. m.seq.name = m.src
      BY <2>1 DEF Promised, PrepareMsg, SourceInv
    <2> QED
      BY <2>2, <2>3 DEF Prepared
  <1>4. \A m \in msgs : m.type \in {"PREPARE", "ACCEPT"} /\ m.seq \in Regular => m.seq.name = m.src
    BY DEF SourceInv
  <1>5. \A p \in PreparedSent : p.seq.name = p.dst
    BY DEF SourceInv
  <1> QED
    BY <1>1, <1>2, <1>3, <1>4, <1>5 DEF SourceInv

\* An acceptor that has promised takes nothing at the special ballot any more; one that
\* has accepted says so when it promises.
LEMMA NextFence ==
    ASSUME Inv, FenceInv, [Next]_vars
    PROVE  FenceInv'
  <1>0. /\ \A m \in PreparedSent : m.src \in Member /\ m.slot \in Slot /\ m.seq \in Regular
        /\ \A m \in AcceptedSent : m.src \in Member /\ m.slot \in Slot
    BY BallotTypes DEF Inv
  <1>1. CASE Quiet
    BY <1>0, <1>1 DEF FenceInv, Quiet
  <1>2. ASSUME NEW m \in msgs, Promised(m) PROVE FenceInv'
    <2> DEFINE a == acc[m.dst][m.slot]
               new == Prepared(m, a.na, a.va)
    <2>1. \A x \in Member, s \in Slot : acc'[x][s].na = acc[x][s].na
      BY <1>2 DEF Promised, Promises, OthersKeep
    <2>2. AcceptedSent' \subseteq AcceptedSent /\ PreparedSent' \subseteq PreparedSent \cup {new}
      BY <1>2 DEF Promised, Promises
    <2>3. new.src = m.dst /\ new.slot = m.slot /\ new.na = acc[m.dst][m.slot].na
      BY DEF Prepared
    <2>4. \A q \in AcceptedSent : q.src = new.src /\ q.slot = new.slot => new.na # NoBallot
      BY <2>3 DEF FenceInv
    <2> HIDE DEF new
    <2> QED
      BY <1>0, <2>1, <2>2, <2>4 DEF FenceInv
  <1>3. ASSUME NEW m \in msgs, Accepts(m) PROVE FenceInv'
    <2> DEFINE a == acc[m.dst][m.slot]
               new == Accepted(m)
    <2>1. /\ m.dst \in Member /\ m.slot \in Slot /\ m.slot < Window
          /\ m.seq \in Regular \cup {Special}
          /\ a.st # "none" => a.np = m.seq \/ ~LargerThan(a.np, m.seq)
          /\ acc'[m.dst][m.slot].na = m.seq /\ OthersKeep(m)
          /\ PreparedSent' \subseteq PreparedSent /\ AcceptedSent' \subseteq AcceptedSent \cup {new}
      BY <1>3 DEF Accepts, Votes
    <2>2. new.src = m.dst /\ new.slot = m.slot /\ new.seq = m.seq
      BY DEF Accepted
    <2>3. m.seq # NoBallot
      BY <2>1, RegularIsAbove, SpecialIsAbove
    <2>4. ASSUME m.seq = Special, NEW p \in PreparedSent, p.src = m.dst, p.slot = m.slot
          PROVE  FALSE
      <3>1. LargerThan(a.np, p.seq) /\ p.seq \in Regular
        BY <1>0, <2>4 DEF Inv, Binding, PromiseInv
      <3>2. a.np \in Ballot /\ (a.st = "none" => a.np = NoBallot)
        BY <2>1, BallotTypes DEF Inv, Binding, AcceptorInv, Absent
      <3>3. /\ p.seq \in Ballot /\ LargerThan(p.seq, Special)
            /\ ~LargerThan(Special, p.seq) /\ ~LargerThan(NoBallot, p.seq)
        BY <3>1, RegularIsAbove
      <3>4. LargerThan(a.np, Special)
        BY <3>1, <3>2, <3>3, LargerThanOrders, SpecialIsAbove
      <3> QED
        BY <2>1, <2>4, <3>1, <3>2, <3>3, <3>4
    <2>5. \A x \in Member, s \in Slot : acc[x][s].na # NoBallot => acc'[x][s].na # NoBallot
      BY <2>1, <2>3 DEF OthersKeep
    <2> HIDE DEF new
    <2>6. ASSUME NEW q \in AcceptedSent
          PROVE  /\ q.slot < Window /\ acc'[q.src][q.slot].na # NoBallot
                 /\ q.seq = Special => \A p \in PreparedSent' :
                       p.src = q.src /\ p.slot = q.slot => p.na # NoBallot
      BY <1>0, <2>1, <2>5 DEF FenceInv
    <2>7. /\ new.slot < Window /\ acc'[new.src][new.slot].na # NoBallot
          /\ new.seq = Special => \A p \in PreparedSent' :
                p.src = new.src /\ p.slot = new.slot => p.na # NoBallot
      BY <2>1, <2>2, <2>3, <2>4
    <2> QED
      BY <2>1, <2>6, <2>7 DEF FenceInv
  <1> QED
    BY <1>1, <1>2, <1>3, StepKinds

\* No vote is asked for twice: the requests a call sends out are the first of its ballot.
LEMMA ToVoteIsNew ==
    ASSUME Inv, QuorumInv, OnceInv, NEW n \in Server, NEW s \in Slot, ToVote(n, s)
    PROVE  /\ \A m \in msgs : ~(/\ m.type = "ACCEPT" /\ m.src = n /\ m.slot = s
                                /\ m.seq = call[n][s].seq)
           /\ \A q \in AcceptedSent : ~(q.dst = n /\ q.slot = s /\ q.seq = call[n][s].seq)
  <1>1. CASE PrepareDone(n, s)
    BY <1>1, NotVoted DEF Voted
  <1>2. CASE AcceptStable(n, s)
    BY <1>2 DEF OnceInv, AcceptStable
  <1> QED
    BY <1>1, <1>2 DEF ToVote

\* No acceptor is asked or answers twice.
LEMMA NextOnce ==
    ASSUME Inv, QuorumInv, OnceInv, [Next]_vars
    PROVE  OnceInv'
  <1> DEFINE New == {m \in msgs' : m.type = "ACCEPT" /\ m \notin msgs}
  <1>1. ASSUME NEW n \in Server, NEW s \in Slot PROVE call'[n][s].acks \cap msgs' = {}
    <2>1. /\ call[n][s].acks \cap msgs = {} /\ call[n][s].acks \subseteq AcceptedSent
          /\ \A q \in call[n][s].acks : q.type = "ACCEPTED"
      BY CallReplies DEF OnceInv, AcceptedMsg
    <2>2. ASSUME NEW q \in msgs', q.type = "ACCEPTED", q \notin msgs PROVE q \notin AcceptedSent
      <3>1. PICK m \in msgs : Accepts(m)
        BY <2>2, StepKinds DEF NoNew, ToVote, Accept, Promised, Answers, Prepared
      <3>2. q = Accepted(m) /\ m.type = "ACCEPT"
        BY <2>2, <3>1 DEF Accepts, Answers, AcceptMsg
      <3> QED
        BY <3>2 DEF OnceInv
    <2>3. call[n][s].acks \cap msgs' = {}
      BY <2>1, <2>2
    <2> QED
      BY <2>3, CallSteps
  <1>2. ASSUME NEW m \in msgs, Accepts(m)
        PROVE  /\ m.type = "ACCEPT" /\ m \notin msgs'
               /\ AcceptedSent' \subseteq AcceptedSent \cup {Accepted(m)}
               /\ \A x \in msgs' : x.type = "ACCEPT" => x \in msgs /\ x # m
    BY <1>2 DEF Accepts, AcceptMsg, Answers, Accepted, Votes
  <1>3. ASSUME ~\E m \in msgs : Accepts(m) PROVE AcceptedSent' \subseteq AcceptedSent
    BY <1>3, StepKinds DEF Quiet, Promised, Promises
  <1>4. ASSUME NEW m \in New
        PROVE  \E n \in Server, s \in Slot :
                  ToVote(n, s) /\ m.src = n /\ m.slot = s /\ m.seq = call[n][s].seq
    <2>1. ~\E x \in msgs : Promised(x) \/ Accepts(x)
      BY <1>4 DEF Promised, Accepts, Answers, Prepared, Accepted
    <2>2. PICK n \in Server, s \in Slot : ToVote(n, s)
      BY <1>4, <2>1, StepKinds DEF NoNew
    <2> QED
      BY <1>4, <2>2 DEF ToVote, Accept
  <1>5. ASSUME NEW m \in New
        PROVE  /\ Accepted(m) \notin AcceptedSent /\ AcceptedSent' \subseteq AcceptedSent
               /\ \A x \in msgs : x.type = "ACCEPT" => Accepted(x) # Accepted(m)
    <2>1. PICK n \in Server, s \in Slot :
            ToVote(n, s) /\ m.src = n /\ m.slot = s /\ m.seq = call[n][s].seq
      BY <1>4, <1>5
    <2>2. Accepted(m) \notin AcceptedSent
      BY <2>1, ToVoteIsNew DEF Accepted
    <2>3. \A x \in msgs : x.type = "ACCEPT" => Accepted(x) # Accepted(m)
      <3>1. \A x : Accepted(x) = Accepted(m) => x.src = n /\ x.slot = s /\ x.seq = call[n][s].seq
        BY <2>1 DEF Accepted
      <3> QED
        BY <2>1, <3>1, ToVoteIsNew
    <2>4. ~\E x \in msgs : Accepts(x)
      BY <1>2, <1>5
    <2> QED
      BY <1>3, <2>2, <2>3, <2>4
  <1>6. ASSUME NEW m \in msgs', m.type = "ACCEPT" PROVE Accepted(m) \notin AcceptedSent'
    <2>1. CASE m \in New
      BY <1>5, <2>1
    <2>2. CASE m \in msgs
      <3>1. Accepted(m) \notin AcceptedSent
        BY <1>6, <2>2 DEF OnceInv
      <3>2. ASSUME NEW x \in msgs, Accepts(x) PROVE Accepted(m) # Accepted(x)
        BY <1>2, <1>6, <2>2, <3>2 DEF OnceInv
      <3> QED
        BY <1>2, <1>3, <3>1, <3>2
    <2> QED
      BY <1>6, <2>1, <2>2
  <1>7. ASSUME NEW m1 \in msgs', NEW m2 \in msgs', m1.type = "ACCEPT", m2.type = "ACCEPT",
               Accepted(m1) = Accepted(m2)
        PROVE  m1 = m2
    <2>1. CASE m1 \in msgs /\ m2 \in msgs
      BY <1>7, <2>1 DEF OnceInv
    <2>2. CASE m1 \in New /\ m2 \in New
      <3>0. PICK n \in Server, s \in Slot : ToVote(n, s)
        BY <1>4, <2>2
      <3>1. PICK r : msgs' = msgs \cup Accept(n, s, call[n][s].seq, r)
        BY <3>0 DEF ToVote
      <3>2. m1.dst = m2.dst
        BY <1>7 DEF Accepted
      <3> QED
        BY <2>2, <3>1, <3>2 DEF Accept
    <2> QED
      BY <1>5, <1>7, <2>1, <2>2
  <1>8. ASSUME NEW n \in Server, NEW s \in Slot, call'[n][s].phase \in {"idle", "entered"}
        PROVE  /\ \A m \in msgs' : ~(m.type = "ACCEPT" /\ m.src = n /\ m.slot = s)
               /\ \A q \in AcceptedSent' : ~(q.dst = n /\ q.slot = s)
    <2>1. call[n][s].phase \in {"idle", "entered"}
      BY <1>8, CallSteps
    <2>2. /\ \A m \in msgs : ~(m.type = "ACCEPT" /\ m.src = n /\ m.slot = s)
          /\ \A q \in AcceptedSent : ~(q.dst = n /\ q.slot = s)
      BY <2>1 DEF OnceInv
    <2>3. ASSUME NEW m \in New PROVE ~(m.src = n /\ m.slot = s)
      <3>1. ToVote(n, s) => call'[n][s].phase = "accept"
        BY PrepareDoneCall, AcceptStableCall DEF ToVote, Inv
      <3> QED
        BY <1>4, <1>8, <2>3, <3>1
    <2>4. ASSUME NEW m \in msgs, Accepts(m)
          PROVE  ~(Accepted(m).dst = n /\ Accepted(m).slot = s)
      BY <1>2, <2>2, <2>4 DEF Accepted
    <2> QED
      BY <1>2, <1>3, <2>2, <2>3, <2>4
  <1> QED
    BY <1>1, <1>6, <1>7, <1>8 DEF OnceInv

-----------------------------------------------------------------------------
(***************************************************************************)
(* The theorems.                                                           *)
(***************************************************************************)
\* Nothing was voted on at the start.
LEMMA InitVotes == Init => VInv
  <1> SUFFICES ASSUME Init PROVE VInv
    OBVIOUS
  <1>1. msgs = {} /\ \A n \in Server, s \in Slot : call[n][s] = Idle
    BY DEF Init
  <1>2. PreparedSent = {} /\ AcceptedSent = {}
    BY <1>1, SentMembers DEF Idle
  <1>3. \A a \in Member, s \in Slot : acc[a][s].na = NoBallot
    BY DEF Init, Absent
  <1>4. \A s \in Slot, b \in Regular : ~Voted(s, b)
    BY <1>1, <1>2, <1>3, RegularIsAbove, SpecialIsAbove DEF Voted
  <1> QED
    BY <1>1, <1>2, <1>4 DEF VInv, FenceInv, SourceInv, QuorumInv, OnceInv, Idle

\* The invariant and its votes hold together.
LEMMA SpecVotes == Spec => [](Inv /\ VInv)
  <1>1. Init => Inv /\ VInv
    BY InitInv, InitVotes
  <1>2. (Inv /\ VInv) /\ [Next]_vars => (Inv /\ VInv)'
    BY NextInv, NextFence, NextSource, NextQuorum, NextOnce DEF VInv
  <1> QED
    BY <1>1, <1>2, PTL DEF Spec

\* results compares the size of its vector with the majority: no acceptor is in it twice,
\* nor will be, for any reuse of seq_nums (results_buffer::fill, replicated_log::log).
THEOREM CountedOnce == Spec => []OneVotePerAcceptor
  <1>1. ASSUME Inv, VInv PROVE OneVotePerAcceptor
    <2> SUFFICES ASSUME NEW n \in Server, NEW s \in Slot
                 PROVE  /\ \A m1, m2 \in call[n][s].replies : m1.src = m2.src => m1 = m2
                        /\ \A m \in msgs : \A q \in call[n][s].replies \cup call[n][s].acks :
                              /\ m.type \in {"PREPARED", "ACCEPTED"} /\ m.type = q.type
                              /\ m.dst = n /\ m.slot = s /\ m.seq = call[n][s].seq
                              => m.src # q.src
      BY DEF OneVotePerAcceptor
    <2>1. \A m1, m2 \in call[n][s].replies : m1.src = m2.src => m1 = m2
      BY <1>1, RepliesDiffer
    <2>2. ASSUME NEW m \in msgs, NEW q \in call[n][s].replies \cup call[n][s].acks,
                 m.type \in {"PREPARED", "ACCEPTED"}, m.type = q.type,
                 m.dst = n, m.slot = s, m.seq = call[n][s].seq, m.src = q.src
          PROVE  FALSE
      <3>1. /\ RepliesFine(call[n][s], n, s) /\ call[n][s].replies \subseteq PreparedSent
            /\ call[n][s].replies \cap msgs = {}
            /\ \A x \in call[n][s].replies : x.type = "PREPARED"
            /\ \A x \in call[n][s].acks : x \in AcceptedMsg
        BY <1>1, CallReplies
      <3>2. q.dst = n /\ q.slot = s /\ q.seq = call[n][s].seq
        BY <3>1 DEF RepliesFine
      <3>3. CASE q \in call[n][s].replies
        <4>1. m \in PreparedSent /\ q \in PreparedSent
          BY <2>2, <3>1, <3>3, SentMembers
        <4>2. m = q
          BY <1>1, <2>2, <3>2, <4>1 DEF Inv, Binding, VoteInv
        <4> QED
          BY <3>1, <3>3, <4>2
      <3>4. CASE q \in call[n][s].acks
        <4>1. q \in AcceptedMsg /\ q.type = "ACCEPTED"
          BY <3>1, <3>4 DEF AcceptedMsg
        <4>2. m \in AcceptedMsg
          BY <1>1, <2>2, <4>1, MessageKinds DEF Inv, Types, TypeOK
        <4>3. m = q
          BY <2>2, <3>2, <4>1, <4>2 DEF AcceptedMsg
        <4> QED
          BY <1>1, <3>4, <4>3 DEF VInv, OnceInv
      <3> QED
        BY <3>3, <3>4
    <2> QED
      BY <2>1, <2>2
  <1> QED
    BY <1>1, SpecVotes, PTL

\* A ballot that a majority was asked to accept is not used again, although a call that
\* adopted leaves next_try alone (replicated_log::log, failed).
THEOREM VotedOnce == Spec => OneVotePerBallot
  <1>1. ASSUME Inv, VInv, [Next]_vars
        PROVE  \A n \in Server, s \in Slot :
                 call[n][s].phase = "prepare" /\ call'[n][s].phase = "accept"
                 => /\ \A m \in msgs : ~(/\ m.type \in {"ACCEPT", "ACCEPTED"}
                                         /\ m.slot = s /\ m.seq = call[n][s].seq)
                    /\ \A a \in Member : acc[a][s].na # call[n][s].seq
    <2> SUFFICES ASSUME NEW n \in Server, NEW s \in Slot,
                        call[n][s].phase = "prepare", call'[n][s].phase = "accept"
                 PROVE  /\ \A m \in msgs : ~(/\ m.type \in {"ACCEPT", "ACCEPTED"}
                                             /\ m.slot = s /\ m.seq = call[n][s].seq)
                        /\ \A a \in Member : acc[a][s].na # call[n][s].seq
      OBVIOUS
    <2>1. PrepareDone(n, s)
      BY <1>1, CallSteps
    <2>2. ~Voted(s, call[n][s].seq)
      BY <1>1, <2>1, NotVoted DEF VInv
    <2> QED
      BY <2>2, SentMembers DEF Voted
  <1> QED
    BY <1>1, SpecVotes, PTL DEF Spec, OneVotePerBallot

\* An election that found no trace of the old master fences it off: its stable log of the
\* slot is never answered OK (paxos::do_accept, the special ballot).
THEOREM FencesOff == Spec => []FencedOwner
  <1>1. ASSUME Inv, VInv PROVE FencedOwner
    <2> SUFFICES ASSUME NEW s \in Slot, NEW n1 \in Server, NEW n2 \in Server,
                        Won(n1, s), \A m \in call[n1][s].replies : m.na = NoBallot,
                        call[n2][s].stable, call[n2][s].phase = "OK"
                 PROVE  FALSE
      BY DEF FencedOwner
    <2> DEFINE R == call[n1][s].replies
               A == call[n2][s].acks
    <2>1. /\ CallFine(call[n1][s], n1) /\ RepliesFine(call[n1][s], n1, s)
          /\ R \subseteq PreparedSent
      BY <1>1, CallReplies
    <2>2. /\ CallFine(call[n2][s], n2) /\ RepliesFine(call[n2][s], n2, s)
          /\ A \subseteq AcceptedSent
      BY <1>1, CallReplies
    <2>3. Cardinality(R) >= Majority
      BY <2>1 DEF CallFine, Won
    <2>4. Cardinality(A) >= Majority /\ call[n2][s].seq = Special
      BY <2>2 DEF CallFine
    <2>5. /\ \A m \in R : m.src \in Member
          /\ \A m1, m2 \in R : m1.src = m2.src => m1 = m2
      BY <1>1, RepliesDiffer
    <2>6. /\ \A m \in A : m.src \in Member
          /\ \A m1, m2 \in A : m1.src = m2.src => m1 = m2
      BY <1>1, RepliesDiffer
    <2>7. PICK p \in R, q \in A : p.src = q.src
      BY <2>3, <2>4, <2>5, <2>6, MajoritiesShareMember
    <2>8. p.slot = s /\ q.slot = s /\ q.seq = Special
      BY <2>1, <2>2, <2>4 DEF RepliesFine
    <2>9. p.na # NoBallot
      BY <1>1, <2>1, <2>2, <2>7, <2>8 DEF VInv, FenceInv
    <2> QED
      BY <2>9
  <1> QED
    BY <1>1, SpecVotes, PTL

\* Past max_size acceptors discard what they are asked, so log() fails there
\* (paxos::do_prepare, do_accept).
THEOREM NothingBeyond == Spec => []WindowExhausted
  <1>1. ASSUME Inv, VInv PROVE WindowExhausted
    <2> SUFFICES ASSUME NEW n \in Server, NEW s \in Slot, s >= Window, call[n][s].phase = "OK"
                 PROVE  FALSE
      BY DEF WindowExhausted
    <2>1. /\ CallFine(call[n][s], n) /\ RepliesFine(call[n][s], n, s)
          /\ call[n][s].acks \subseteq AcceptedSent
      BY <1>1, CallReplies
    <2>2. Cardinality(call[n][s].acks) >= Majority
      BY <2>1 DEF CallFine
    <2>3. call[n][s].acks # {}
      BY <2>2, FS_EmptySet, MajorityIsMore
    <2>4. PICK q \in call[n][s].acks : q \in AcceptedSent
      BY <2>1, <2>3
    <2>5. q.slot = s
      BY <2>1 DEF RepliesFine
    <2>6. s < Window
      BY <1>1, <2>4, <2>5 DEF VInv, FenceInv
    <2> QED
      BY <2>6, SlotAssumption
  <1> QED
    BY <1>1, SpecVotes, PTL
=============================================================================
