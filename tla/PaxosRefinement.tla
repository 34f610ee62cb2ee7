-------------------------- MODULE PaxosRefinement --------------------------
(***************************************************************************)
(* The steps of Paxos: what none of them does to an acceptor, and that     *)
(* each of them is a step, or a stutter, of Mastership.                    *)
(***************************************************************************)
EXTENDS PaxosProofs

\* An acceptor that has learned keeps its record.
LEMMA LearnedStays ==
    ASSUME Types, [Next]_vars, NEW a \in Member, NEW s \in Slot, acc[a][s].st = "L"
    PROVE  acc'[a][s] = acc[a][s]
  <1>1. ASSUME NEW n \in Server, NEW s1 \in Slot, Log(n, s1) PROVE acc' = acc
    BY <1>1, LogUnstableCall, LogStableCall, AcceptStableCall, PrepareDoneCall,
       TimeoutCall, AcceptDoneCall DEF Log
  <1>2. ASSUME NEW m \in msgs, DoPrepare(m) \/ DoAccept(m) \/ DoLearn(m)
        PROVE  acc'[a][s] = acc[a][s]
    <2>1. m.dst \in Member /\ m.slot \in Slot
      <3>1. m \in PrepareMsg \/ m \in AcceptMsg \/ m \in LearnMsg
        BY <1>2, MessageKinds DEF Types, TypeOK, DoPrepare, DoAccept, DoLearn
      <3> QED
        BY <3>1 DEF PrepareMsg, AcceptMsg, LearnMsg
    <2>2. PICK v : \/ acc' = acc
                   \/ /\ acc[m.dst][m.slot].st # "L"
                      /\ acc' = [acc EXCEPT ![m.dst][m.slot] = v]
      BY <1>2 DEF DoPrepare, DoAccept, DoLearn, Discard
    <2> QED
      BY <2>1, <2>2 DEF Types, TypeOK
  <1>3. ASSUME NEW m \in msgs, DoPrepared(m) \/ DoAccepted(m) PROVE acc' = acc
    BY <1>3 DEF DoPrepared, DoAccepted
  <1> QED
    BY <1>1, <1>2, <1>3 DEF Next, Receive, Reset, vars

\* The promise of an acceptor only grows.
LEMMA PromiseGrows ==
    ASSUME Types, Binding, [Next]_vars, NEW a \in Member, NEW s \in Slot
    PROVE  LargerThan(acc'[a][s].np, acc[a][s].np)
  <1>1. acc[a][s].np \in Ballot /\ (acc[a][s].st = "none" => acc[a][s].np = NoBallot)
    BY BallotTypes DEF Binding, AcceptorInv, Absent
  <1>2. LargerThan(acc[a][s].np, acc[a][s].np)
    BY <1>1, LargerThanOrders
  <1>3. CASE Quiet
    BY <1>2, <1>3 DEF Quiet
  <1>4. ASSUME NEW m \in msgs, Promises(m) \/ Votes(m)
        PROVE  LargerThan(acc'[a][s].np, acc[a][s].np)
    <2>1. CASE a # m.dst \/ s # m.slot
      BY <1>2, <1>4, <2>1 DEF Promises, Votes, OthersKeep
    <2>2. CASE a = m.dst /\ s = m.slot
      <3>1. acc'[a][s].np = m.seq /\ m.seq \in Ballot
        BY <1>4, <2>2, RegularIsAbove, SpecialIsAbove DEF Promises, Votes
      <3>2. \/ acc[a][s].np = NoBallot
            \/ acc[a][s].np = m.seq
            \/ ~LargerThan(acc[a][s].np, m.seq)
        BY <1>1, <1>4, <2>2 DEF Promises, Votes
      <3> QED
        BY <1>1, <3>1, <3>2, LargerThanOrders, SpecialIsAbove
    <2> QED
      BY <2>1, <2>2
  <1> QED
    BY <1>3, <1>4, StepEffect

\* An acceptor never goes back on a promise, and a learned value is final.
THEOREM Monotonic == Spec => AcceptorMonotonic
  <1>1. ASSUME Inv, [Next]_vars
        PROVE  \A a \in Member, s \in Slot :
                 /\ LargerThan(acc'[a][s].np, acc[a][s].np)
                 /\ acc[a][s].st = "L" => acc'[a][s] = acc[a][s]
    BY <1>1, PromiseGrows, LearnedStays DEF Inv
  <1> QED
    BY <1>1, SpecInv, PTL DEF Spec, AcceptorMonotonic

-----------------------------------------------------------------------------
Winners(s) == {n \in Server : Won(n, s)}
Leases(s) == {call[n][s].record : n \in Winners(s)}

\* The calls of a step other than a win leave the winners alone.
LEMMA WinnersChange ==
    ASSUME Inv, [Next]_vars, NEW s \in Slot, Winners(s)' # Winners(s)
    PROVE  \E n \in Server :
              /\ AcceptDone(n, s) /\ Won(n, s)' /\ ~Won(n, s)
              /\ call'[n][s].record \in BeMaster
              /\ OtherCallsKeep(n, s) /\ acc' = acc
  <1>1. \A n \in Server : Won(n, s) => Won(n, s)'
    BY WinnerStays DEF Inv
  <1>2. PICK n \in Server : Won(n, s)' /\ ~Won(n, s)
    BY <1>1 DEF Winners
  <1>3. call'[n][s].phase = "OK" /\ ~call'[n][s].stable /\ call'[n][s] # call[n][s]
    BY <1>2 DEF Won
  <1>4. Types /\ Calls
    BY DEF Inv
  <1>5. PICK n1 \in Server, s1 \in Slot : Log(n1, s1)
    <2>1. ASSUME NEW m \in msgs, Receive(m) PROVE FALSE
      <3>1. CASE DoPrepared(m)
        <4> DEFINE o == call[m.dst][m.slot]
        <4>1. \/ call' = call
              \/ /\ m.dst \in Server /\ m.slot \in Slot /\ o.phase = "prepare"
                 /\ call'[m.dst][m.slot] = [o EXCEPT !.replies = o.replies \cup {m}]
                 /\ OtherCallsKeep(m.dst, m.slot)
          BY <1>4, <3>1, DoPreparedCall
        <4>2. m.dst \in Server /\ m.slot \in Slot => o \in Call
          BY <1>4, CallFacts
        <4>3. \/ call' = call
              \/ call'[m.dst][m.slot].phase = "prepare" /\ OtherCallsKeep(m.dst, m.slot)
          BY <4>1, <4>2 DEF Call
        <4> QED
          BY <1>3, <4>3 DEF OtherCallsKeep
      <3>2. CASE DoAccepted(m)
        <4> DEFINE o == call[m.dst][m.slot]
        <4>1. \/ call' = call
              \/ /\ m.dst \in Server /\ m.slot \in Slot /\ o.phase = "accept"
                 /\ call'[m.dst][m.slot] = [o EXCEPT !.acks = o.acks \cup {m}]
                 /\ OtherCallsKeep(m.dst, m.slot)
          BY <1>4, <3>2, DoAcceptedCall
        <4>2. m.dst \in Server /\ m.slot \in Slot => o \in Call
          BY <1>4, CallFacts
        <4>3. \/ call' = call
              \/ call'[m.dst][m.slot].phase = "accept" /\ OtherCallsKeep(m.dst, m.slot)
          BY <4>1, <4>2 DEF Call
        <4> QED
          BY <1>3, <4>3 DEF OtherCallsKeep
      <3> QED
        BY <1>3, <2>1, <3>1, <3>2 DEF Receive, DoPrepare, DoAccept, DoLearn
    <2> QED
      BY <1>3, <2>1 DEF Next, Reset, vars
  <1>6. /\ CallFine(call[n][s], n) /\ CallFine(call[n1][s1], n1)
        /\ RepliesFine(call[n1][s1], n1, s1)
    BY <1>4, CallsFine DEF Calls, ReplyInv, RepliesFine
  <1>7. /\ OtherCallsKeep(n1, s1) /\ acc' = acc
        /\ CallFine(call'[n1][s1], n1)
    BY <1>4, <1>5, <1>6, LogCallFine
  <1>8. n1 = n /\ s1 = s
    BY <1>3, <1>7 DEF OtherCallsKeep
  <1>9. AcceptDone(n, s)
    <2>1. ASSUME NEW r, LogUnstable(n, s, r) PROVE FALSE
      <3>1. call'[n][s] = [Idle EXCEPT !.phase = "prepare", !.record = r,
                             !.seq = [try |-> next_try[n], name |-> n]]
        BY <1>4, <2>1, LogUnstableCall
      <3> QED
        BY <1>3, <3>1 DEF Idle
    <2>2. ASSUME NEW r, LogStable(n, s, r) PROVE FALSE
      <3>1. call'[n][s] = [Idle EXCEPT !.phase = "entered", !.stable = TRUE,
                             !.seq = Special, !.record = r]
        BY <1>4, <2>2, LogStableCall
      <3> QED
        BY <1>3, <3>1 DEF Idle
    <2>3. /\ AcceptStable(n, s) => call'[n][s].phase = "accept"
          /\ PrepareDone(n, s) => call'[n][s].phase = "accept"
          /\ PrepareTimeout(n, s) \/ AcceptTimeout(n, s)
                => call'[n][s].phase \in {"FAIL", "TIMEOUT"}
      BY <1>4, AcceptStableCall, PrepareDoneCall, TimeoutCall
    <2> QED
      BY <1>3, <1>5, <1>8, <2>1, <2>2, <2>3 DEF Log
  <1>10. call'[n][s].record \in BeMaster
    BY <1>3, <1>7, <1>8 DEF CallFine
  <1> QED
    BY <1>2, <1>7, <1>8, <1>9, <1>10

\* The leases that can be read from a slot change only when a learner learns the
\* record of its master.
LEMMA PublishedChange ==
    ASSUME Inv, [Next]_vars, NEW s \in Slot, LearnedLease(s)' # LearnedLease(s)
    PROVE  /\ call' = call
           /\ \E n \in Server : /\ Won(n, s)
                                /\ LearnedLease(s)' = {call[n][s].record}
           /\ \A s1 \in Slot : s1 # s => LearnedLease(s1)' = LearnedLease(s1)
  <1>1. Types /\ Binding /\ Calls /\ LearnInv
    BY DEF Inv
  <1>2. Inv'
    BY NextTypes, NextBinding, NextCalls, NextLearns DEF Inv
  <1>3. LearnedLease(s) \subseteq LearnedLease(s)'
    BY <1>1, LearnedStays DEF LearnedLease
  <1>4. PICK r : r \in LearnedLease(s)' /\ r \notin LearnedLease(s)
    BY <1>3
  <1>5. PICK a \in Member : acc'[a][s].st = "L" /\ acc'[a][s].va = r /\ r \in BeMaster
    BY <1>4 DEF LearnedLease, BeMaster
  <1>6. acc'[a][s] # acc[a][s]
    BY <1>4, <1>5 DEF LearnedLease
  <1>7. PICK m \in msgs : DoLearn(m) /\ m.dst = a /\ m.slot = s
    BY <1>1, <1>5, <1>6, NewlyLearned
  <1>8. call' = call
    BY <1>7 DEF DoLearn
  <1>9. ASSUME NEW q \in LearnedLease(s)'
        PROVE  \E n \in Server : Won(n, s) /\ call[n][s].record = q
    <2>1. \E n \in Server : Won(n, s)' /\ call'[n][s].record = q
      BY <1>2, <1>9 DEF Inv, LearnInv, LeaseBacked
    <2> QED
      BY <1>8, <2>1 DEF Won
  <1>10. PICK n \in Server : Won(n, s) /\ call[n][s].record = r
    BY <1>4, <1>9
  <1>11. \A n1 \in Server : Won(n1, s) => n1 = n
    BY <1>1, <1>10, WinnersAgree DEF ElectionSafety
  <1>12. LearnedLease(s)' = {call[n][s].record}
    BY <1>4, <1>9, <1>10, <1>11
  <1>13. ASSUME NEW s1 \in Slot, s1 # s PROVE LearnedLease(s1)' = LearnedLease(s1)
    <2>1. acc \in [Member -> [Slot -> Acceptor]]
      BY <1>1 DEF Types, TypeOK
    <2>2. PICK v : acc' = [acc EXCEPT ![a][s] = v]
      BY <1>6, <1>7 DEF DoLearn, Discard
    <2>3. \A b \in Member : acc'[b][s1] = acc[b][s1]
      BY <1>13, <2>1, <2>2
    <2> QED
      BY <2>3 DEF LearnedLease
  <1> QED
    BY <1>8, <1>10, <1>12, <1>13

\* Each step of the log's elections is a win, a publication or a stutter of Mastership.
THEOREM Implements == Spec => ElectsOneMaster
  <1> DEFINE master == [s \in Slot |-> {n \in Server : Won(n, s)}]
             lease == [s \in Slot |->
                          {call[n][s].record : n \in {x \in Server : Won(x, s)}}]
             published == [s \in Slot |-> LearnedLease(s)]
  <1>1. Init => Election!MInit
    <2> SUFFICES ASSUME Init PROVE Election!MInit
      OBVIOUS
    <2>1. \A s \in Slot, n \in Server : ~Won(n, s)
      BY DEF Init, Won, Idle
    <2>2. \A s \in Slot : LearnedLease(s) = {}
      BY DEF Init, LearnedLease, Absent
    <2> QED
      BY <2>1, <2>2 DEF Election!MInit
  <1>2. Inv /\ ElectionSafety' /\ [Next]_vars => [Election!MNext]_(Election!mvars)
    <2> SUFFICES ASSUME Inv, ElectionSafety', [Next]_vars
                 PROVE  [Election!MNext]_(Election!mvars)
      OBVIOUS
    <2>1. Types /\ Calls /\ Inv'
      BY NextTypes, NextBinding, NextCalls, NextLearns DEF Inv
    <2>2. CASE \E s \in Slot : Winners(s)' # Winners(s)
      <3>1. PICK s \in Slot, n \in Server :
              /\ AcceptDone(n, s) /\ Won(n, s)' /\ ~Won(n, s)
              /\ call'[n][s].record \in BeMaster
              /\ OtherCallsKeep(n, s) /\ acc' = acc
        BY <2>2, WinnersChange
      <3>2. \A n1 \in Server : Won(n1, s)' => n1 = n
        BY <3>1 DEF ElectionSafety, Won
      <3>3. \A n1 \in Server : ~Won(n1, s)
        BY <2>1, <3>1, <3>2, WinnerStays
      <3>4. ASSUME NEW s1 \in Slot, s1 # s
            PROVE  \A n1 \in Server : /\ Won(n1, s1)' <=> Won(n1, s1)
                                      /\ call'[n1][s1] = call[n1][s1]
        BY <3>1, <3>4 DEF OtherCallsKeep, Won
      <3>5. master' = [master EXCEPT ![s] = {n}]
        BY <3>1, <3>2, <3>4
      <3>6. lease' = [lease EXCEPT ![s] = {call'[n][s].record}]
        <4>1. Winners(s)' = {n}
          BY <3>1, <3>2 DEF Winners
        <4>2. Leases(s)' = {call'[n][s].record}
          BY <4>1 DEF Leases
        <4>3. ASSUME NEW s1 \in Slot, s1 # s PROVE Leases(s1)' = Leases(s1)
          <5>1. Winners(s1)' = Winners(s1)
            BY <3>4, <4>3 DEF Winners
          <5>2. \A x \in Winners(s1) : call'[x][s1] = call[x][s1]
            BY <3>4, <4>3 DEF Winners
          <5> QED
            BY <5>1, <5>2 DEF Leases
        <4>4. lease = [s1 \in Slot |-> Leases(s1)] /\ lease' = [s1 \in Slot |-> Leases(s1)']
          BY DEF Leases, Winners
        <4> HIDE DEF lease
        <4> QED
          BY <4>2, <4>3, <4>4
      <3>7. published' = published
        BY <3>1 DEF LearnedLease
      <3>8. master[s] = {}
        BY <3>3
      <3>9. PICK r \in BeMaster : r = call'[n][s].record
        BY <3>1
      <3>10. Election!Win(n, s, r)
        BY <3>5, <3>6, <3>7, <3>8, <3>9 DEF Election!Win
      <3> QED
        BY <3>10 DEF Election!MNext
    <2>3. CASE \A s \in Slot : Winners(s)' = Winners(s)
      <3>1. \A s \in Slot, n \in Server : Won(n, s)' <=> Won(n, s)
        BY <2>3 DEF Winners
      <3>2. master' = master
        BY <3>1
      <3>3. lease' = lease
        <4>1. \A s \in Slot, n \in Server :
                Won(n, s) => call'[n][s].record = call[n][s].record
          BY <2>1, WinnerStays
        <4> QED
          BY <3>1, <4>1
      <3>4. CASE \E s \in Slot : LearnedLease(s)' # LearnedLease(s)
        <4>1. PICK s \in Slot : LearnedLease(s)' # LearnedLease(s)
          BY <3>4
        <4>2. PICK n \in Server : Won(n, s) /\ LearnedLease(s)' = {call[n][s].record}
          BY <4>1, PublishedChange
        <4>3. \A s1 \in Slot : s1 # s => LearnedLease(s1)' = LearnedLease(s1)
          BY <4>1, PublishedChange
        <4>4. \A n1 \in Server : Won(n1, s) => n1 = n
          BY <4>2, WinnersAgree DEF Inv, ElectionSafety
        <4>5. master[s] # {} /\ lease[s] = {call[n][s].record}
          BY <4>2, <4>4
        <4>6. published' = [published EXCEPT ![s] = lease[s]]
          BY <4>2, <4>3, <4>5
        <4>7. Election!Publish(s)
          BY <3>2, <3>3, <4>5, <4>6 DEF Election!Publish
        <4> QED
          BY <4>7 DEF Election!MNext
      <3>5. CASE \A s \in Slot : LearnedLease(s)' = LearnedLease(s)
        <4>1. published' = published
          BY <3>5
        <4> QED
          BY <3>2, <3>3, <4>1 DEF Election!mvars
      <3> QED
        BY <3>4, <3>5
    <2> QED
      BY <2>2, <2>3
  <1> QED
    BY <1>1, <1>2, SpecInv, OneMaster, PTL DEF Spec, ElectsOneMaster, Election!MSpec
=============================================================================
