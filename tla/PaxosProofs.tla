---------------------------- MODULE PaxosProofs ----------------------------
(***************************************************************************)
(* Theorems about Paxos, for any members, servers, slots and bounds.       *)
(***************************************************************************)
EXTENDS PaxosInvariant, FiniteSetTheorems, TLAPS

-----------------------------------------------------------------------------
(***************************************************************************)
(* Ballots are totally ordered by largerthan; the special ballot is below  *)
(* every regular one.                                                      *)
(***************************************************************************)
LEMMA BallotIsPair ==
    ASSUME NEW b \in Ballot
    PROVE  /\ b.try \in Int /\ b.name \in Int
           /\ b = [try |-> b.try, name |-> b.name]
           /\ b \in Regular => b.try >= 0 /\ b.name \in Server
  <1>1. CASE b \in Regular
    <2>1. b.try \in Nat /\ b.name \in Server /\ b = [try |-> b.try, name |-> b.name]
      BY <1>1 DEF Regular
    <2> QED
      BY <2>1, ServerAssumption
  <1>2. CASE b = Special \/ b = NoBallot
    <2>1. b \notin Regular
      BY <1>2 DEF Regular, Special, NoBallot
    <2> QED
      BY <1>2, <2>1 DEF Special, NoBallot
  <1> QED
    BY <1>1, <1>2 DEF Ballot

LEMMA LargerThanOrders ==
    ASSUME NEW b1 \in Ballot, NEW b2 \in Ballot, NEW b3 \in Ballot
    PROVE  /\ LargerThan(b1, b1)
           /\ LargerThan(b1, b2) \/ LargerThan(b2, b1)
           /\ LargerThan(b1, b2) /\ LargerThan(b2, b3) => LargerThan(b1, b3)
           /\ LargerThan(b1, b2) /\ LargerThan(b2, b1) => b1 = b2
  BY BallotIsPair DEF LargerThan

LEMMA RegularIsAbove ==
    ASSUME NEW b \in Regular
    PROVE  /\ b \in Ballot
           /\ ~LargerThan(Special, b) /\ ~LargerThan(NoBallot, b)
           /\ LargerThan(b, Special) /\ LargerThan(b, NoBallot)
           /\ b # Special
  <1>1. b \in Ballot
    BY DEF Ballot
  <1>2. b.try >= 0 /\ b.try \in Int
    BY <1>1, BallotIsPair
  <1> QED
    BY <1>1, <1>2 DEF LargerThan, Special, NoBallot

LEMMA SpecialIsAbove ==
    /\ Special \in Ballot /\ NoBallot \in Ballot /\ Special \notin Regular
    /\ LargerThan(Special, NoBallot) /\ LargerThan(Special, Special)
    /\ ~LargerThan(NoBallot, Special)
    /\ \A b \in Ballot : LargerThan(b, NoBallot)
  <1>1. \A b \in Regular : LargerThan(b, NoBallot) /\ b # Special
    BY RegularIsAbove
  <1> QED
    BY <1>1 DEF Ballot, LargerThan, Special, NoBallot

(***************************************************************************)
(* Majorities of the members, counted as replies, share a member.          *)
(***************************************************************************)
LEMMA MajorityIsMore ==
    /\ Majority \in Nat /\ Majority >= 1
    /\ Majority + Majority > Cardinality(Member)
  <1>1. Cardinality(Member) \in Nat
    BY MemberAssumption, FS_CardinalityType
  <1> QED
    BY <1>1 DEF Majority

LEMMA RepliesCountMembers ==
    ASSUME NEW R, \A m \in R : m.src \in Member,
           \A m1, m2 \in R : m1.src = m2.src => m1 = m2
    PROVE  /\ IsFiniteSet(R)
           /\ Cardinality({m.src : m \in R}) = Cardinality(R)
           /\ {m.src : m \in R} \subseteq Member
  <1> DEFINE S == {m.src : m \in R}
             f == [m \in R |-> m.src]
  <1>1. S \subseteq Member
    OBVIOUS
  <1>2. IsFiniteSet(S)
    BY <1>1, FS_Subset, MemberAssumption
  <1>3. f \in Injection(R, S) /\ f \in Surjection(R, S)
    BY DEF Injection, Surjection, IsInjective
  <1>4. IsFiniteSet(R) /\ Cardinality(R) = Cardinality(S)
    BY <1>2, <1>3, FS_Injection
  <1> QED
    BY <1>1, <1>4

LEMMA MajoritiesShareMember ==
    ASSUME NEW R1, \A m \in R1 : m.src \in Member,
           \A m1, m2 \in R1 : m1.src = m2.src => m1 = m2,
           Cardinality(R1) >= Majority,
           NEW R2, \A m \in R2 : m.src \in Member,
           \A m1, m2 \in R2 : m1.src = m2.src => m1 = m2,
           Cardinality(R2) >= Majority
    PROVE  \E m1 \in R1, m2 \in R2 : m1.src = m2.src
  <1> DEFINE S1 == {m.src : m \in R1}
             S2 == {m.src : m \in R2}
  <1>1. S1 \subseteq Member /\ Cardinality(S1) >= Majority
    BY RepliesCountMembers
  <1>2. S2 \subseteq Member /\ Cardinality(S2) >= Majority
    BY RepliesCountMembers
  <1>3. /\ Cardinality(S1) \in Nat /\ Cardinality(S2) \in Nat
        /\ Cardinality(Member) \in Nat
    BY <1>1, <1>2, FS_Subset, FS_CardinalityType, MemberAssumption
  <1>4. Cardinality(S1) + Cardinality(S2) > Cardinality(Member)
    <2> HIDE DEF S1, S2
    <2> QED BY <1>1, <1>2, <1>3, MajorityIsMore
  <1>5. S1 \cap S2 # {}
    <2> HIDE DEF S1, S2
    <2> QED BY <1>1, <1>2, <1>4, FS_MajoritiesIntersect, MemberAssumption
  <1> QED
    BY <1>5

-----------------------------------------------------------------------------
(***************************************************************************)
(* Types.                                                                  *)
(***************************************************************************)
LEMMA RecordTypes ==
    /\ \A r \in Record \cup {NoRecord} : FirstToken(r) \in Record \cup {NoRecord}
    /\ \A r \in Record : FirstToken(r) \in Record
    /\ \A r \in Record : FirstToken(r).arg = NoArg
    /\ NoRecord \notin Record
    /\ BeMaster \subseteq Record
    /\ \A n \in Server : Stable(n) \subseteq Record
  BY DEF Record, NoRecord, FirstToken, BeMaster, Stable

LEMMA IdleType == Idle \in Call /\ Absent \in Acceptor
  BY SpecialIsAbove DEF Idle, Call, Absent, Acceptor

LEMMA MessageKinds ==
    ASSUME NEW m \in Message
    PROVE  /\ m.type = "PREPARE" => m \in PrepareMsg
           /\ m.type = "ACCEPT" => m \in AcceptMsg
           /\ m.type = "LEARN" => m \in LearnMsg
           /\ m.type = "PREPARED" => m \in PreparedMsg
           /\ m.type = "ACCEPTED" => m \in AcceptedMsg
  BY DEF Message, PrepareMsg, AcceptMsg, LearnMsg, PreparedMsg, AcceptedMsg

\* What the acceptors and the calls put on the network is well typed.
LEMMA SentTypes ==
    /\ \A n \in Server, s \in Slot, b \in Regular : Prepare(n, s, b) \subseteq Message
    /\ \A n \in Server, s \in Slot, b \in Regular \cup {Special}, r \in Record :
          Accept(n, s, b, r) \subseteq Message
    /\ \A s \in Slot, r \in Record : \A to \in SUBSET Member :
          Learn(to, s, r) \subseteq Message
  <1>1. \A n \in Server, s \in Slot, b \in Regular : Prepare(n, s, b) \subseteq Message
    BY DEF Prepare, Message, PrepareMsg
  <1>2. \A n \in Server, s \in Slot, b \in Regular \cup {Special}, r \in Record :
          Accept(n, s, b, r) \subseteq Message
    BY DEF Accept, Message, AcceptMsg
  <1>3. \A s \in Slot, r \in Record : \A to \in SUBSET Member :
          Learn(to, s, r) \subseteq Message
    BY DEF Learn, Message, LearnMsg
  <1> QED
    BY <1>1, <1>2, <1>3

\* Membership in the sets of replies, now and after a step.
LEMMA SentMembers ==
    /\ \A m : m \in PreparedSent
            <=> \/ m \in msgs /\ m.type = "PREPARED"
                \/ \E n \in Server, s \in Slot : m \in call[n][s].replies
    /\ \A m : m \in AcceptedSent
            <=> \/ m \in msgs /\ m.type = "ACCEPTED"
                \/ \E n \in Server, s \in Slot : m \in call[n][s].acks
    /\ \A m : m \in PreparedSent'
            <=> \/ m \in msgs' /\ m.type = "PREPARED"
                \/ \E n \in Server, s \in Slot : m \in call'[n][s].replies
    /\ \A m : m \in AcceptedSent'
            <=> \/ m \in msgs' /\ m.type = "ACCEPTED"
                \/ \E n \in Server, s \in Slot : m \in call'[n][s].acks
  BY DEF PreparedSent, AcceptedSent

LEMMA SentAreReplies ==
    ASSUME TypeOK
    PROVE  PreparedSent \subseteq PreparedMsg /\ AcceptedSent \subseteq AcceptedMsg
  <1>1. \A n \in Server, s \in Slot :
          call[n][s].replies \subseteq PreparedMsg /\ call[n][s].acks \subseteq AcceptedMsg
    BY DEF TypeOK, Call
  <1>2. msgs \subseteq Message
    BY DEF TypeOK
  <1> QED
    BY <1>1, <1>2, SentMembers, MessageKinds

-----------------------------------------------------------------------------
(***************************************************************************)
(* Type correctness.  Each action preserves TypeOK and RecordInv together. *)
(***************************************************************************)
Types == TypeOK /\ RecordInv

\* The initial states are well typed.
LEMMA InitTypes == Init => Types
  <1> SUFFICES ASSUME Init PROVE Types
    OBVIOUS
  <1>1. TypeOK
    BY IdleType DEF Init, TypeOK
  <1>2. PreparedSent = {}
    BY SentMembers DEF Init, Idle
  <1>3. ~IsReport(Absent)
    BY SpecialIsAbove DEF IsReport, Absent
  <1>4. RecordInv
    BY <1>2, <1>3 DEF RecordInv, Init, Absent, Idle
  <1> QED
    BY <1>1, <1>4 DEF Types

LEMMA DoPrepareTypes ==
    ASSUME Types, NEW m \in msgs, DoPrepare(m)
    PROVE  Types'
  <1> USE DEF Types
  <1> DEFINE a == acc[m.dst][m.slot]
  <1>1. m \in PrepareMsg
    BY MessageKinds DEF TypeOK, DoPrepare
  <1>2. /\ m.dst \in Member /\ m.src \in Server /\ m.slot \in Slot
        /\ m.seq \in Regular /\ m.type = "PREPARE"
    BY <1>1 DEF PrepareMsg
  <1>3. a \in Acceptor
    BY <1>2 DEF TypeOK
  <1>4. UNCHANGED <<call, failure, next_try>>
    BY DEF DoPrepare
  <1>5. CASE Discard
    BY <1>4, <1>5 DEF Discard, TypeOK, RecordInv, PreparedSent
  <1>6. CASE a.st = "L" /\ Learned(m) /\ UNCHANGED acc
    <2>1. PICK to \in SUBSET Member : msgs' = msgs \cup Learn(to, m.slot, a.va)
      BY <1>6 DEF Learned
    <2>2. a.va \in Record
      BY <1>2, <1>6 DEF RecordInv
    <2>3. TypeOK'
      BY <1>2, <1>4, <1>6, <2>1, <2>2, SentTypes DEF TypeOK
    <2>4. PreparedSent' = PreparedSent
      BY <1>4, <2>1, SentMembers DEF Learn
    <2> QED
      BY <1>4, <1>6, <2>3, <2>4 DEF RecordInv
  <1>7. ASSUME acc' = [acc EXCEPT ![m.dst][m.slot] = [a EXCEPT !.st = "A", !.np = m.seq]],
               Consume(m, {Prepared(m, a.na, a.va)})
        PROVE  Types'
    <2> DEFINE r == [a EXCEPT !.st = "A", !.np = m.seq]
               p == Prepared(m, a.na, a.va)
    <2>1. r \in Acceptor /\ r.na = a.na /\ r.va = a.va /\ r.st = "A"
      BY <1>2, <1>3, RegularIsAbove DEF Acceptor
    <2>2. p \in PreparedMsg /\ p.na = a.na /\ p.va = a.va
      BY <1>2, <1>3 DEF Prepared, PreparedMsg, Acceptor
    <2>3. /\ acc' \in [Member -> [Slot -> Acceptor]]
          /\ acc'[m.dst][m.slot] = r
          /\ \A a1 \in Member, s1 \in Slot :
                a1 # m.dst \/ s1 # m.slot => acc'[a1][s1] = acc[a1][s1]
      BY <1>2, <1>7, <2>1 DEF TypeOK
    <2>4. msgs' \subseteq msgs \cup {p}
      BY <1>7 DEF Consume
    <2>5. TypeOK'
      BY <1>4, <2>2, <2>3, <2>4 DEF TypeOK, Message
    <2>6. PreparedSent' \subseteq PreparedSent \cup {p}
      BY <1>4, <2>4, SentMembers
    <2>7. \A a1 \in Member, s1 \in Slot :
            acc'[a1][s1].st = "L" \/ IsReport(acc'[a1][s1]) => acc'[a1][s1].va \in Record
      <3> HIDE DEF r
      <3>1. r.st # "L" /\ (IsReport(r) => r.va \in Record)
        BY <1>2, <2>1 DEF RecordInv, IsReport
      <3> QED
        BY <1>2, <2>3, <3>1 DEF RecordInv
    <2>8. IsReport(p) => p.va \in Record
      BY <1>2, <2>2 DEF RecordInv, IsReport
    <2> QED
      BY <1>4, <2>5, <2>6, <2>7, <2>8 DEF RecordInv
  <1> QED
    BY <1>5, <1>6, <1>7 DEF DoPrepare

LEMMA DoAcceptTypes ==
    ASSUME Types, NEW m \in msgs, DoAccept(m)
    PROVE  Types'
  <1> USE DEF Types
  <1> DEFINE a == acc[m.dst][m.slot]
  <1>1. m \in AcceptMsg
    BY MessageKinds DEF TypeOK, DoAccept
  <1>2. /\ m.dst \in Member /\ m.src \in Server /\ m.slot \in Slot
        /\ m.seq \in Regular \cup {Special} /\ m.rec \in Record /\ m.type = "ACCEPT"
    BY <1>1 DEF AcceptMsg
  <1>3. UNCHANGED <<call, failure, next_try>>
    BY DEF DoAccept
  <1>4. CASE Discard
    BY <1>3, <1>4 DEF Discard, TypeOK, RecordInv, PreparedSent
  <1>5. CASE a.st = "L" /\ Learned(m) /\ UNCHANGED acc
    <2>1. PICK to \in SUBSET Member : msgs' = msgs \cup Learn(to, m.slot, a.va)
      BY <1>5 DEF Learned
    <2>2. a.va \in Record
      BY <1>2, <1>5 DEF RecordInv
    <2>3. TypeOK'
      BY <1>2, <1>3, <1>5, <2>1, <2>2, SentTypes DEF TypeOK
    <2>4. PreparedSent' = PreparedSent
      BY <1>3, <2>1, SentMembers DEF Learn
    <2> QED
      BY <1>3, <1>5, <2>3, <2>4 DEF RecordInv
  <1>6. ASSUME acc' = [acc EXCEPT ![m.dst][m.slot] =
                         [st |-> "A", np |-> m.seq, na |-> m.seq, va |-> m.rec]],
               Consume(m, {Accepted(m)})
        PROVE  Types'
    <2> DEFINE r == [st |-> "A", np |-> m.seq, na |-> m.seq, va |-> m.rec]
    <2>1. r \in Acceptor /\ r.va \in Record
      BY <1>2, RegularIsAbove, SpecialIsAbove DEF Acceptor
    <2>2. Accepted(m) \in AcceptedMsg
      BY <1>2 DEF Accepted, AcceptedMsg
    <2>3. /\ acc' \in [Member -> [Slot -> Acceptor]]
          /\ acc'[m.dst][m.slot] = r
          /\ \A a1 \in Member, s1 \in Slot :
                a1 # m.dst \/ s1 # m.slot => acc'[a1][s1] = acc[a1][s1]
      BY <1>2, <1>6, <2>1 DEF TypeOK
    <2>4. msgs' \subseteq msgs \cup {Accepted(m)}
      BY <1>6 DEF Consume
    <2>5. TypeOK'
      BY <1>3, <2>2, <2>3, <2>4 DEF TypeOK, Message
    <2>6. PreparedSent' \subseteq PreparedSent
      BY <1>3, <2>2, <2>4, SentMembers DEF AcceptedMsg
    <2>7. \A a1 \in Member, s1 \in Slot :
            acc'[a1][s1].st = "L" \/ IsReport(acc'[a1][s1]) => acc'[a1][s1].va \in Record
      <3> HIDE DEF r
      <3> QED
        BY <1>2, <2>1, <2>3 DEF RecordInv
    <2> QED
      BY <1>3, <2>5, <2>6, <2>7 DEF RecordInv
  <1> QED
    BY <1>4, <1>5, <1>6 DEF DoAccept

LEMMA DoLearnTypes ==
    ASSUME Types, NEW m \in msgs, DoLearn(m)
    PROVE  Types'
  <1> USE DEF Types
  <1> DEFINE a == acc[m.dst][m.slot]
             r == [a EXCEPT !.st = "L", !.va = m.rec]
  <1>1. m \in LearnMsg
    BY MessageKinds DEF TypeOK, DoLearn
  <1>2. m.dst \in Member /\ m.slot \in Slot /\ m.rec \in Record
    BY <1>1 DEF LearnMsg
  <1>3. UNCHANGED <<call, failure, next_try>>
    BY DEF DoLearn
  <1>4. CASE Discard
    BY <1>3, <1>4 DEF Discard, TypeOK, RecordInv, PreparedSent
  <1>5. ASSUME acc' = [acc EXCEPT ![m.dst][m.slot] = r], Consume(m, {})
        PROVE  Types'
    <2>1. a \in Acceptor
      BY <1>2 DEF TypeOK
    <2>2. r \in Acceptor /\ r.va \in Record
      BY <1>2, <2>1 DEF Acceptor
    <2>3. /\ acc' \in [Member -> [Slot -> Acceptor]]
          /\ acc'[m.dst][m.slot] = r
          /\ \A a1 \in Member, s1 \in Slot :
                a1 # m.dst \/ s1 # m.slot => acc'[a1][s1] = acc[a1][s1]
      BY <1>2, <1>5, <2>2 DEF TypeOK
    <2>4. msgs' \subseteq msgs
      BY <1>5 DEF Consume
    <2>5. TypeOK'
      BY <1>3, <2>3, <2>4 DEF TypeOK
    <2>6. PreparedSent' \subseteq PreparedSent
      BY <1>3, <2>4, SentMembers
    <2>7. \A a1 \in Member, s1 \in Slot :
            acc'[a1][s1].st = "L" \/ IsReport(acc'[a1][s1]) => acc'[a1][s1].va \in Record
      <3> HIDE DEF r
      <3> QED
        BY <1>2, <2>2, <2>3 DEF RecordInv
    <2> QED
      BY <1>3, <2>5, <2>6, <2>7 DEF RecordInv
  <1> QED
    BY <1>4, <1>5 DEF DoLearn

\* A step that only changes one call, to a well-typed record that counts no reply
\* but those it has or finds in flight, and sends no PREPARED.
LEMMA CallTypes ==
    ASSUME Types, NEW n \in Server, NEW s \in Slot, NEW c \in Call,
           call' = [call EXCEPT ![n][s] = c],
           c.replies \subseteq PreparedSent,
           c.phase # "idle" => c.record \in Record /\ c.seq \in Regular \cup {Special},
           c.phase = "accept" => c.proposal \in Record,
           msgs' \subseteq Message,
           \A m \in msgs' : m.type = "PREPARED" => m \in msgs,
           acc' = acc, failure' \in [Server -> BOOLEAN], next_try' \in [Server -> Nat]
    PROVE  Types'
  <1>1. /\ call' \in [Server -> [Slot -> Call]]
        /\ call'[n][s] = c
        /\ \A n1 \in Server, s1 \in Slot :
              n1 # n \/ s1 # s => call'[n1][s1] = call[n1][s1]
    BY DEF Types, TypeOK
  <1>2. TypeOK'
    BY <1>1 DEF Types, TypeOK
  <1>3. PreparedSent' \subseteq PreparedSent
    BY <1>1, SentMembers
  <1>4. \A n1 \in Server, s1 \in Slot :
          /\ call'[n1][s1].phase # "idle"
                => call'[n1][s1].record \in Record /\ call'[n1][s1].seq \in Regular \cup {Special}
          /\ call'[n1][s1].phase = "accept" => call'[n1][s1].proposal \in Record
    BY <1>1 DEF Types, RecordInv
  <1> QED
    BY <1>2, <1>3, <1>4 DEF Types, RecordInv

LEMMA DoPreparedTypes ==
    ASSUME Types, NEW m \in msgs, DoPrepared(m)
    PROVE  Types'
  <1> DEFINE c == [call[m.dst][m.slot] EXCEPT !.replies = @ \cup {m}]
  <1>1. m \in PreparedMsg /\ m \in PreparedSent /\ m.type = "PREPARED"
    BY MessageKinds, SentMembers DEF Types, TypeOK, DoPrepared
  <1>2. m.dst \in Server /\ m.slot \in Slot
    BY <1>1 DEF PreparedMsg
  <1>3. UNCHANGED <<acc, failure, next_try>>
    BY DEF DoPrepared
  <1>4. CASE call' = call /\ msgs' = msgs
    BY <1>3, <1>4 DEF Types, TypeOK, RecordInv, PreparedSent
  <1>5. CASE /\ call' = [call EXCEPT ![m.dst][m.slot].replies = @ \cup {m}]
             /\ Consume(m, {})
    <2>1. call[m.dst][m.slot] \in Call
      BY <1>2 DEF Types, TypeOK
    <2>2. c \in Call
      BY <1>1, <2>1 DEF Call
    <2>3. call' = [call EXCEPT ![m.dst][m.slot] = c]
      BY <1>2, <1>5 DEF Types, TypeOK
    <2>4. c.replies \subseteq PreparedSent
      <3>1. call[m.dst][m.slot].replies \subseteq PreparedSent
        BY <1>2, SentMembers
      <3> QED
        BY <1>1, <2>1, <3>1 DEF Call
    <2>5. /\ c.phase # "idle" => c.record \in Record /\ c.seq \in Regular \cup {Special}
          /\ c.phase = "accept" => c.proposal \in Record
      BY <1>2, <2>1 DEF Types, RecordInv, Call
    <2>6. msgs' \subseteq msgs /\ msgs \subseteq Message
      BY <1>5 DEF Consume, Types, TypeOK
    <2>7. failure' \in [Server -> BOOLEAN] /\ next_try' \in [Server -> Nat]
      BY <1>3 DEF Types, TypeOK
    <2> HIDE DEF c
    <2> QED
      BY <1>2, <1>3, <2>2, <2>3, <2>4, <2>5, <2>6, <2>7, CallTypes
  <1> QED
    BY <1>4, <1>5 DEF DoPrepared

LEMMA DoAcceptedTypes ==
    ASSUME Types, NEW m \in msgs, DoAccepted(m)
    PROVE  Types'
  <1> DEFINE c == [call[m.dst][m.slot] EXCEPT !.acks = @ \cup {m}]
  <1>1. m \in AcceptedMsg
    BY MessageKinds DEF Types, TypeOK, DoAccepted
  <1>2. m.dst \in Server /\ m.slot \in Slot
    BY <1>1 DEF AcceptedMsg
  <1>3. UNCHANGED <<acc, failure, next_try>>
    BY DEF DoAccepted
  <1>4. CASE call' = call /\ msgs' = msgs
    BY <1>3, <1>4 DEF Types, TypeOK, RecordInv, PreparedSent
  <1>5. CASE /\ call' = [call EXCEPT ![m.dst][m.slot].acks = @ \cup {m}]
             /\ Consume(m, {})
    <2>1. call[m.dst][m.slot] \in Call
      BY <1>2 DEF Types, TypeOK
    <2>2. c \in Call
      BY <1>1, <2>1 DEF Call
    <2>3. call' = [call EXCEPT ![m.dst][m.slot] = c]
      BY <1>2, <1>5 DEF Types, TypeOK
    <2>4. c.replies \subseteq PreparedSent
      <3>1. call[m.dst][m.slot].replies \subseteq PreparedSent
        BY <1>2, SentMembers
      <3> QED
        BY <2>1, <3>1 DEF Call
    <2>5. /\ c.phase # "idle" => c.record \in Record /\ c.seq \in Regular \cup {Special}
          /\ c.phase = "accept" => c.proposal \in Record
      BY <1>2, <2>1 DEF Types, RecordInv, Call
    <2>6. msgs' \subseteq msgs /\ msgs \subseteq Message
      BY <1>5 DEF Consume, Types, TypeOK
    <2>7. failure' \in [Server -> BOOLEAN] /\ next_try' \in [Server -> Nat]
      BY <1>3 DEF Types, TypeOK
    <2> HIDE DEF c
    <2> QED
      BY <1>2, <1>3, <2>2, <2>3, <2>4, <2>5, <2>6, <2>7, CallTypes
  <1> QED
    BY <1>4, <1>5 DEF DoAccepted

LEMMA LogUnstableTypes ==
    ASSUME Types, NEW n \in Server, NEW s \in Slot, NEW r \in BeMaster,
           LogUnstable(n, s, r)
    PROVE  Types'
  <1> DEFINE b == [try |-> next_try[n], name |-> n]
             c == [Idle EXCEPT !.phase = "prepare", !.seq = b, !.record = r]
  <1>1. b \in Regular
    BY DEF Regular, Types, TypeOK
  <1>2. r \in Record
    BY RecordTypes
  <1>3. c \in Call /\ c.replies = {} /\ c.phase = "prepare" /\ c.record = r /\ c.seq = b
    BY <1>1, <1>2, RegularIsAbove DEF Idle, Call
  <1>4. /\ call' = [call EXCEPT ![n][s] = c]
        /\ msgs' = msgs \cup Prepare(n, s, b)
        /\ UNCHANGED <<acc, failure, next_try>>
    BY DEF LogUnstable
  <1>5. msgs' \subseteq Message
    BY <1>1, <1>4, SentTypes DEF Types, TypeOK
  <1>6. \A m \in msgs' : m.type = "PREPARED" => m \in msgs
    BY <1>4 DEF Prepare
  <1>7. failure' \in [Server -> BOOLEAN] /\ next_try' \in [Server -> Nat]
    BY <1>4 DEF Types, TypeOK
  <1> HIDE DEF c, b
  <1> QED
    BY <1>1, <1>2, <1>3, <1>4, <1>5, <1>6, <1>7, CallTypes

LEMMA LogStableTypes ==
    ASSUME Types, NEW n \in Server, NEW s \in Slot, NEW r \in Stable(n),
           LogStable(n, s, r)
    PROVE  Types'
  <1> DEFINE c == [Idle EXCEPT !.phase = "entered", !.stable = TRUE,
                               !.seq = Special, !.record = r]
  <1>1. r \in Record
    BY RecordTypes
  <1>2. c \in Call /\ c.replies = {} /\ c.phase = "entered" /\ c.record = r /\ c.seq = Special
    BY <1>1, SpecialIsAbove DEF Idle, Call
  <1>3. /\ call' = [call EXCEPT ![n][s] = c]
        /\ UNCHANGED <<acc, msgs, failure, next_try>>
    BY DEF LogStable
  <1>4. /\ failure' \in [Server -> BOOLEAN] /\ next_try' \in [Server -> Nat]
        /\ msgs' \subseteq Message
    BY <1>3 DEF Types, TypeOK
  <1> HIDE DEF c
  <1> QED
    BY <1>1, <1>2, <1>3, <1>4, CallTypes

\* The call that a step goes on with: its type, its record and its replies.
LEMMA CallFacts ==
    ASSUME Types, NEW n \in Server, NEW s \in Slot
    PROVE  /\ call[n][s] \in Call
           /\ call[n][s].phase # "idle"
                 => call[n][s].record \in Record /\ call[n][s].seq \in Regular \cup {Special}
           /\ call[n][s].phase = "accept" => call[n][s].proposal \in Record
           /\ call[n][s].replies \subseteq PreparedSent
           /\ failure \in [Server -> BOOLEAN] /\ next_try \in [Server -> Nat]
           /\ msgs \subseteq Message
  BY SentMembers DEF Types, TypeOK, RecordInv

\* check_proposed leaves `proposed' empty exactly when no reply reports a value, and
\* otherwise leaves the type token of one of the reported records.
LEMMA CheckProposedAdopts ==
    ASSUME Types, NEW R \in SUBSET PreparedSent, NEW p \in CheckProposed(R)
    PROVE  \/ p = NoRecord /\ \A m \in R : ~IsReport(m)
           \/ p \in Record /\ p.arg = NoArg /\ p # NoRecord /\ \E m \in R : IsReport(m)
  <1>1. CASE Reported(R) = {}
    BY <1>1 DEF CheckProposed, Reported, IsReport
  <1>2. CASE Reported(R) # {}
    <2>1. PICK m \in Reported(R) : p = FirstToken(m.va)
      BY <1>2 DEF CheckProposed
    <2>2. m \in R /\ IsReport(m)
      BY DEF Reported, IsReport
    <2>3. m.va \in Record
      BY <2>2 DEF Types, RecordInv
    <2> QED
      BY <2>1, <2>2, <2>3, RecordTypes
  <1> QED
    BY <1>1, <1>2

LEMMA AcceptStableTypes ==
    ASSUME Types, NEW n \in Server, NEW s \in Slot, AcceptStable(n, s)
    PROVE  Types'
  <1> DEFINE o == call[n][s]
             c == [o EXCEPT !.phase = "accept", !.proposal = o.record]
  <1>1. /\ o \in Call /\ o.record \in Record /\ o.replies \subseteq PreparedSent
        /\ o.seq \in Regular \cup {Special}
    BY CallFacts DEF AcceptStable
  <1>2. /\ c \in Call /\ c.replies = o.replies /\ c.seq = o.seq
        /\ c.record = o.record /\ c.proposal = o.record
    BY <1>1 DEF Call
  <1>3. /\ call' = [call EXCEPT ![n][s] = c]
        /\ msgs' = msgs \cup Accept(n, s, Special, o.record)
        /\ UNCHANGED <<acc, failure, next_try>>
    BY DEF AcceptStable
  <1>4. msgs' \subseteq Message
    BY <1>1, <1>3, SentTypes, CallFacts
  <1>5. \A m \in msgs' : m.type = "PREPARED" => m \in msgs
    BY <1>3 DEF Accept
  <1>6. failure' \in [Server -> BOOLEAN] /\ next_try' \in [Server -> Nat]
    BY <1>3, CallFacts
  <1> HIDE DEF c, o
  <1> QED
    BY <1>1, <1>2, <1>3, <1>4, <1>5, <1>6, CallTypes

\* Returning, with or without taking a new try number, sends nothing.
LEMMA ReturnTypes ==
    ASSUME Types, NEW n \in Server, NEW s \in Slot, NEW ph \in {"OK", "FAIL", "TIMEOUT"},
           call[n][s].phase # "idle",
           call' = [call EXCEPT ![n][s].phase = ph],
           \A m \in msgs' : m.type = "PREPARED" => m \in msgs,
           msgs' \subseteq Message, UNCHANGED acc,
           failure' \in [Server -> BOOLEAN], next_try' \in [Server -> Nat]
    PROVE  Types'
  <1> DEFINE o == call[n][s]
             c == [o EXCEPT !.phase = ph]
  <1>1. /\ o \in Call /\ o.record \in Record /\ o.replies \subseteq PreparedSent
        /\ o.seq \in Regular \cup {Special}
    BY CallFacts
  <1>2. /\ c \in Call /\ c.replies = o.replies /\ c.seq = o.seq
        /\ c.record = o.record /\ c.phase # "accept"
    BY <1>1 DEF Call
  <1>3. call' = [call EXCEPT ![n][s] = c] /\ acc' = acc
    BY DEF Types, TypeOK
  <1>4. /\ c.replies \subseteq PreparedSent
        /\ c.phase # "idle" => c.record \in Record /\ c.seq \in Regular \cup {Special}
        /\ c.phase = "accept" => c.proposal \in Record
    BY <1>1, <1>2
  <1> HIDE DEF c
  <1> QED
    BY <1>2, <1>3, <1>4, CallTypes

LEMMA EpilogueTypes ==
    ASSUME Types, NEW n \in Server, EpilogueFailed(n)
    PROVE  failure' \in [Server -> BOOLEAN] /\ next_try' \in [Server -> Nat]
  BY DEF Types, TypeOK, EpilogueFailed

LEMMA TimeoutTypes ==
    ASSUME Types, NEW n \in Server, NEW s \in Slot,
           PrepareTimeout(n, s) \/ AcceptTimeout(n, s)
    PROVE  Types'
  <1>1. EpilogueFailed(n) /\ msgs' = msgs /\ acc' = acc
    BY DEF PrepareTimeout, AcceptTimeout
  <1>2. call[n][s].phase # "idle"
    BY DEF PrepareTimeout, AcceptTimeout
  <1>3. PICK ph \in {"FAIL", "TIMEOUT"} : call' = [call EXCEPT ![n][s].phase = ph]
    BY DEF PrepareTimeout, AcceptTimeout
  <1> QED
    BY <1>1, <1>2, <1>3, EpilogueTypes, ReturnTypes, CallFacts

LEMMA AcceptDoneTypes ==
    ASSUME Types, NEW n \in Server, NEW s \in Slot, AcceptDone(n, s)
    PROVE  Types'
  <1> DEFINE o == call[n][s]
  <1>1. o \in Call /\ o.proposal \in Record /\ o.phase = "accept"
    BY CallFacts DEF AcceptDone
  <1>2. o.rl \in {"OK", "FAIL", "TIMEOUT"}
    BY <1>1 DEF Call
  <1>3. msgs' = msgs \cup Learn(Member, s, o.proposal)
    BY DEF AcceptDone
  <1>4. msgs' \subseteq Message
    BY <1>1, <1>3, SentTypes, CallFacts
  <1>5. \A m \in msgs' : m.type = "PREPARED" => m \in msgs
    BY <1>3 DEF Learn
  <1>6. failure' \in [Server -> BOOLEAN] /\ next_try' \in [Server -> Nat]
    BY CallFacts DEF AcceptDone
  <1>7. call' = [call EXCEPT ![n][s].phase = o.rl] /\ UNCHANGED acc
    BY DEF AcceptDone
  <1> QED
    BY <1>1, <1>2, <1>4, <1>5, <1>6, <1>7, ReturnTypes

LEMMA PrepareDoneTypes ==
    ASSUME Types, NEW n \in Server, NEW s \in Slot, PrepareDone(n, s)
    PROVE  Types'
  <1> DEFINE o == call[n][s]
  <1>1. /\ o \in Call /\ o.record \in Record /\ o.replies \subseteq PreparedSent
        /\ o.seq \in Regular \cup {Special}
    BY CallFacts DEF PrepareDone
  <1>2. PICK p \in CheckProposed(o.replies) :
          LET q == IF p = NoRecord THEN o.record ELSE p IN
          /\ call' = [call EXCEPT ![n][s] =
                        [o EXCEPT !.phase = "accept", !.proposal = q,
                           !.rl = IF p = NoRecord THEN "OK" ELSE "FAIL"]]
          /\ msgs' = msgs \cup Accept(n, s, o.seq, q)
    BY DEF PrepareDone
  <1> DEFINE q == IF p = NoRecord THEN o.record ELSE p
             c == [o EXCEPT !.phase = "accept", !.proposal = q,
                     !.rl = IF p = NoRecord THEN "OK" ELSE "FAIL"]
  <1>3. q \in Record
    BY <1>1, CheckProposedAdopts
  <1>4. /\ c \in Call /\ c.replies = o.replies /\ c.seq = o.seq
        /\ c.record = o.record /\ c.proposal = q
    BY <1>1, <1>3 DEF Call
  <1>5. UNCHANGED <<acc, failure, next_try>>
    BY DEF PrepareDone
  <1>6. \A m \in msgs' : m.type = "PREPARED" => m \in msgs
    BY <1>2 DEF Accept
  <1>7. msgs' \subseteq Message
    BY <1>1, <1>2, <1>3, SentTypes, CallFacts
  <1>8. failure' \in [Server -> BOOLEAN] /\ next_try' \in [Server -> Nat]
    BY <1>5, CallFacts
  <1>9. call' = [call EXCEPT ![n][s] = c] /\ acc' = acc
    BY <1>2, <1>5
  <1> HIDE DEF c, q, o
  <1> QED
    BY <1>1, <1>3, <1>4, <1>6, <1>7, <1>8, <1>9, CallTypes

\* Types are preserved by every step.
LEMMA NextTypes == Types /\ [Next]_vars => Types'
  <1> SUFFICES ASSUME Types, [Next]_vars PROVE Types'
    OBVIOUS
  <1>1. ASSUME NEW n \in Server, NEW s \in Slot, Log(n, s) PROVE Types'
    BY <1>1, LogUnstableTypes, LogStableTypes, AcceptStableTypes, TimeoutTypes,
       PrepareDoneTypes, AcceptDoneTypes DEF Log
  <1>2. ASSUME NEW m \in msgs, Receive(m) PROVE Types'
    BY <1>2, DoPrepareTypes, DoAcceptTypes, DoLearnTypes, DoPreparedTypes,
       DoAcceptedTypes DEF Receive
  <1>3. ASSUME NEW n \in Server, Reset(n) PROVE Types'
    BY <1>3 DEF Reset, Types, TypeOK, RecordInv, PreparedSent
  <1>4. CASE UNCHANGED vars
    BY <1>4 DEF vars, Types, TypeOK, RecordInv, PreparedSent
  <1> QED
    BY <1>1, <1>2, <1>3, <1>4 DEF Next

\* Every variable keeps its type.
THEOREM TypeCorrect == Spec => []TypeOK
  <1>1. Init => Types
    BY InitTypes
  <1>2. Types /\ [Next]_vars => Types'
    BY NextTypes
  <1>3. Types => TypeOK
    BY DEF Types
  <1> QED
    BY <1>1, <1>2, <1>3, PTL DEF Spec

-----------------------------------------------------------------------------
(***************************************************************************)
(* What a step does to the acceptors and to the replies sent: nothing that *)
(* matters, a promise, or a vote.                                          *)
(***************************************************************************)
Quiet ==
    /\ \A a \in Member, s \in Slot :
          /\ acc'[a][s].np = acc[a][s].np /\ acc'[a][s].na = acc[a][s].na
          /\ acc'[a][s].st = "none" => acc'[a][s] = acc[a][s]
    /\ PreparedSent' \subseteq PreparedSent
    /\ AcceptedSent' \subseteq AcceptedSent

OthersKeep(m) ==
    \A a \in Member, s \in Slot :
        a # m.dst \/ s # m.slot => acc'[a][s] = acc[a][s]

Promises(m) ==
    LET old == acc[m.dst][m.slot]
        new == acc'[m.dst][m.slot]
    IN
    /\ m.dst \in Member /\ m.src \in Server /\ m.slot \in Slot /\ m.seq \in Regular
    /\ old.st # "none" => ~LargerThan(old.np, m.seq)
    /\ new.st = "A" /\ new.np = m.seq /\ new.na = old.na
    /\ OthersKeep(m)
    /\ PreparedSent' \subseteq PreparedSent \cup {Prepared(m, old.na, old.va)}
    /\ AcceptedSent' \subseteq AcceptedSent

Votes(m) ==
    LET old == acc[m.dst][m.slot]
        new == acc'[m.dst][m.slot]
    IN
    /\ m.dst \in Member /\ m.src \in Server /\ m.slot \in Slot
    /\ m.seq \in Regular \cup {Special}
    /\ old.st # "none" => old.np = m.seq \/ ~LargerThan(old.np, m.seq)
    /\ new.st = "A" /\ new.np = m.seq /\ new.na = m.seq
    /\ OthersKeep(m)
    /\ PreparedSent' \subseteq PreparedSent
    /\ AcceptedSent' \subseteq AcceptedSent \cup {Accepted(m)}

\* A step that changes no acceptor is quiet if each reply it leaves in flight, or
\* counted, was sent before.
LEMMA QuietStep ==
    ASSUME acc' = acc,
           \A m \in msgs' : m.type \in {"PREPARED", "ACCEPTED"} => m \in msgs,
           \A n \in Server, s \in Slot :
               /\ call'[n][s].replies \subseteq PreparedSent
               /\ call'[n][s].acks \subseteq AcceptedSent
    PROVE  Quiet
  <1>1. PreparedSent' \subseteq PreparedSent /\ AcceptedSent' \subseteq AcceptedSent
    BY SentMembers
  <1> QED
    BY <1>1 DEF Quiet

LEMMA DoPrepareEffect ==
    ASSUME Types, NEW m \in msgs, DoPrepare(m)
    PROVE  Quiet \/ Promises(m)
  <1> DEFINE a == acc[m.dst][m.slot]
             r == [a EXCEPT !.st = "A", !.np = m.seq]
             p == Prepared(m, a.na, a.va)
  <1>1. m \in PrepareMsg
    BY MessageKinds DEF Types, TypeOK, DoPrepare
  <1>2. /\ m.dst \in Member /\ m.src \in Server /\ m.slot \in Slot
        /\ m.seq \in Regular /\ m.type = "PREPARE"
    BY <1>1 DEF PrepareMsg
  <1>3. call' = call
    BY DEF DoPrepare
  <1>4. CASE Discard
    BY <1>3, <1>4 DEF Discard, Quiet, PreparedSent, AcceptedSent
  <1>5. CASE Learned(m) /\ UNCHANGED acc
    <2>1. \A q \in msgs' : q.type \in {"PREPARED", "ACCEPTED"} => q \in msgs
      BY <1>5 DEF Learned, Learn
    <2>2. PreparedSent' \subseteq PreparedSent /\ AcceptedSent' \subseteq AcceptedSent
      BY <1>3, <2>1, SentMembers
    <2> QED
      BY <1>5, <2>2 DEF Quiet
  <1>6. ASSUME acc' = [acc EXCEPT ![m.dst][m.slot] = r], Consume(m, {p}),
               a.st = "none" \/ (a.st = "A" /\ ~LargerThan(a.np, m.seq))
        PROVE  Promises(m)
    <2>1. a \in Acceptor
      BY <1>2 DEF Types, TypeOK
    <2>2. r.st = "A" /\ r.np = m.seq /\ r.na = a.na
      BY <2>1 DEF Acceptor
    <2>3. acc'[m.dst][m.slot] = r /\ OthersKeep(m)
      BY <1>2, <1>6 DEF Types, TypeOK, OthersKeep
    <2>4. p.type = "PREPARED" /\ msgs' \subseteq msgs \cup {p}
      BY <1>6 DEF Prepared, Consume
    <2>5. PreparedSent' \subseteq PreparedSent \cup {p} /\ AcceptedSent' \subseteq AcceptedSent
      BY <1>3, <2>4, SentMembers
    <2> QED
      BY <1>2, <1>6, <2>2, <2>3, <2>5 DEF Promises
  <1> QED
    BY <1>4, <1>5, <1>6 DEF DoPrepare

LEMMA DoAcceptEffect ==
    ASSUME Types, NEW m \in msgs, DoAccept(m)
    PROVE  Quiet \/ Votes(m)
  <1> DEFINE a == acc[m.dst][m.slot]
             r == [st |-> "A", np |-> m.seq, na |-> m.seq, va |-> m.rec]
  <1>1. m \in AcceptMsg
    BY MessageKinds DEF Types, TypeOK, DoAccept
  <1>2. /\ m.dst \in Member /\ m.src \in Server /\ m.slot \in Slot
        /\ m.seq \in Regular \cup {Special} /\ m.type = "ACCEPT"
    BY <1>1 DEF AcceptMsg
  <1>3. call' = call
    BY DEF DoAccept
  <1>4. CASE Discard
    BY <1>3, <1>4 DEF Discard, Quiet, PreparedSent, AcceptedSent
  <1>5. CASE Learned(m) /\ UNCHANGED acc
    <2>1. \A q \in msgs' : q.type \in {"PREPARED", "ACCEPTED"} => q \in msgs
      BY <1>5 DEF Learned, Learn
    <2>2. PreparedSent' \subseteq PreparedSent /\ AcceptedSent' \subseteq AcceptedSent
      BY <1>3, <2>1, SentMembers
    <2> QED
      BY <1>5, <2>2 DEF Quiet
  <1>6. ASSUME acc' = [acc EXCEPT ![m.dst][m.slot] = r], Consume(m, {Accepted(m)}),
               a.st = "none" \/ (a.st = "A" /\ ~(a.np # m.seq /\ LargerThan(a.np, m.seq)))
        PROVE  Votes(m)
    <2>1. acc'[m.dst][m.slot] = r /\ OthersKeep(m)
      BY <1>2, <1>6 DEF Types, TypeOK, OthersKeep
    <2>2. Accepted(m).type = "ACCEPTED" /\ msgs' \subseteq msgs \cup {Accepted(m)}
      BY <1>6 DEF Accepted, Consume
    <2>3. PreparedSent' \subseteq PreparedSent /\ AcceptedSent' \subseteq AcceptedSent \cup {Accepted(m)}
      BY <1>3, <2>2, SentMembers
    <2> QED
      BY <1>2, <1>6, <2>1, <2>3 DEF Votes
  <1> QED
    BY <1>4, <1>5, <1>6 DEF DoAccept

LEMMA DoLearnEffect ==
    ASSUME Types, NEW m \in msgs, DoLearn(m)
    PROVE  Quiet
  <1>1. m.dst \in Member /\ m.slot \in Slot /\ call' = call
    BY MessageKinds DEF Types, TypeOK, DoLearn, LearnMsg
  <1>2. CASE Discard
    BY <1>1, <1>2 DEF Discard, Quiet, PreparedSent, AcceptedSent
  <1>3. ASSUME acc' = [acc EXCEPT ![m.dst][m.slot] =
                         [acc[m.dst][m.slot] EXCEPT !.st = "L", !.va = m.rec]],
               Consume(m, {})
        PROVE  Quiet
    <2>1. msgs' \subseteq msgs
      BY <1>3 DEF Consume
    <2>2. PreparedSent' \subseteq PreparedSent /\ AcceptedSent' \subseteq AcceptedSent
      BY <1>1, <2>1, SentMembers
    <2>3. acc \in [Member -> [Slot -> Acceptor]]
      BY DEF Types, TypeOK
    <2>4. \A a \in Member, s \in Slot :
            /\ acc'[a][s].np = acc[a][s].np /\ acc'[a][s].na = acc[a][s].na
            /\ acc'[a][s].st = "none" => acc'[a][s] = acc[a][s]
      BY <1>1, <1>3, <2>3 DEF Acceptor
    <2> QED
      BY <2>2, <2>4 DEF Quiet
  <1> QED
    BY <1>2, <1>3 DEF DoLearn

OtherCallsKeep(n, s) ==
    \A n1 \in Server, s1 \in Slot :
        n1 # n \/ s1 # s => call'[n1][s1] = call[n1][s1]

\* Counting a reply changes nothing else, and takes the reply out of the air.
LEMMA DoPreparedCall ==
    ASSUME Types, NEW m \in msgs, DoPrepared(m), NEW c, c = call[m.dst][m.slot]
    PROVE  /\ m \in PreparedMsg /\ m.dst \in Server /\ m.slot \in Slot /\ acc' = acc
           /\ \/ call' = call /\ msgs' = msgs
              \/ /\ c.phase = "prepare" /\ c.seq = m.seq
                 /\ call'[m.dst][m.slot] = [c EXCEPT !.replies = c.replies \cup {m}]
                 /\ OtherCallsKeep(m.dst, m.slot)
                 /\ msgs' = msgs \ {m}
  <1>1. m \in PreparedMsg
    BY MessageKinds DEF Types, TypeOK, DoPrepared
  <1>2. m.dst \in Server /\ m.slot \in Slot
    BY <1>1 DEF PreparedMsg
  <1>3. call \in [Server -> [Slot -> Call]]
    BY DEF Types, TypeOK
  <1>4. CASE Registered(m, "prepare")
    <2>1. call' = [call EXCEPT ![m.dst][m.slot].replies = @ \cup {m}]
      BY <1>4 DEF DoPrepared
    <2>2. call'[m.dst][m.slot] = [c EXCEPT !.replies = c.replies \cup {m}]
      BY <1>2, <1>3, <2>1
    <2>3. OtherCallsKeep(m.dst, m.slot)
      BY <1>2, <1>3, <2>1 DEF OtherCallsKeep
    <2>4. acc' = acc /\ msgs' = msgs \ {m} /\ c.phase = "prepare" /\ c.seq = m.seq
      BY <1>4 DEF DoPrepared, Consume, Registered
    <2> QED
      BY <1>1, <1>2, <2>2, <2>3, <2>4
  <1>5. CASE ~Registered(m, "prepare")
    BY <1>1, <1>2, <1>5 DEF DoPrepared
  <1> QED
    BY <1>4, <1>5

LEMMA DoAcceptedCall ==
    ASSUME Types, NEW m \in msgs, DoAccepted(m), NEW c, c = call[m.dst][m.slot]
    PROVE  /\ m \in AcceptedMsg /\ m.dst \in Server /\ m.slot \in Slot /\ acc' = acc
           /\ \/ call' = call /\ msgs' = msgs
              \/ /\ c.phase = "accept" /\ c.seq = m.seq
                 /\ call'[m.dst][m.slot] = [c EXCEPT !.acks = c.acks \cup {m}]
                 /\ OtherCallsKeep(m.dst, m.slot)
                 /\ msgs' = msgs \ {m}
  <1>1. m \in AcceptedMsg
    BY MessageKinds DEF Types, TypeOK, DoAccepted
  <1>2. m.dst \in Server /\ m.slot \in Slot
    BY <1>1 DEF AcceptedMsg
  <1>3. call \in [Server -> [Slot -> Call]]
    BY DEF Types, TypeOK
  <1>4. CASE Registered(m, "accept")
    <2>1. call' = [call EXCEPT ![m.dst][m.slot].acks = @ \cup {m}]
      BY <1>4 DEF DoAccepted
    <2>2. call'[m.dst][m.slot] = [c EXCEPT !.acks = c.acks \cup {m}]
      BY <1>2, <1>3, <2>1
    <2>3. OtherCallsKeep(m.dst, m.slot)
      BY <1>2, <1>3, <2>1 DEF OtherCallsKeep
    <2>4. acc' = acc /\ msgs' = msgs \ {m} /\ c.phase = "accept" /\ c.seq = m.seq
      BY <1>4 DEF DoAccepted, Consume, Registered
    <2> QED
      BY <1>1, <1>2, <2>2, <2>3, <2>4
  <1>5. CASE ~Registered(m, "accept")
    BY <1>1, <1>2, <1>5 DEF DoAccepted
  <1> QED
    BY <1>4, <1>5

LEMMA CountEffect ==
    ASSUME Types, NEW m \in msgs, DoPrepared(m) \/ DoAccepted(m)
    PROVE  Quiet
  <1> DEFINE c == call[m.dst][m.slot]
  <1>1. CASE call' = call /\ acc' = acc /\ msgs' = msgs
    BY <1>1 DEF Quiet, PreparedSent, AcceptedSent
  <1>2. ASSUME OtherCallsKeep(m.dst, m.slot), acc' = acc, msgs' = msgs \ {m},
               m.dst \in Server, m.slot \in Slot,
               call'[m.dst][m.slot].replies \subseteq PreparedSent,
               call'[m.dst][m.slot].acks \subseteq AcceptedSent
        PROVE  Quiet
    <2>1. \A n \in Server, s \in Slot :
            /\ call'[n][s].replies \subseteq PreparedSent
            /\ call'[n][s].acks \subseteq AcceptedSent
      BY <1>2, SentMembers DEF OtherCallsKeep
    <2> QED
      BY <1>2, <2>1, QuietStep
  <1>3. CASE DoPrepared(m) /\ ~UNCHANGED <<call, msgs>>
    <2>1. /\ m.dst \in Server /\ m.slot \in Slot /\ acc' = acc
          /\ call'[m.dst][m.slot] = [c EXCEPT !.replies = c.replies \cup {m}]
          /\ OtherCallsKeep(m.dst, m.slot)
          /\ msgs' = msgs \ {m}
      BY <1>3, DoPreparedCall
    <2>2. c \in Call
      BY <2>1, CallFacts
    <2>3. /\ call'[m.dst][m.slot].replies = c.replies \cup {m}
          /\ call'[m.dst][m.slot].acks = c.acks
      BY <2>1, <2>2 DEF Call
    <2>4. m \in PreparedSent /\ c.replies \subseteq PreparedSent /\ c.acks \subseteq AcceptedSent
      BY <1>3, <2>1, SentMembers DEF DoPrepared
    <2> QED
      BY <1>2, <2>1, <2>3, <2>4
  <1>4. CASE DoAccepted(m) /\ ~UNCHANGED <<call, msgs>>
    <2>1. /\ m.dst \in Server /\ m.slot \in Slot /\ acc' = acc
          /\ call'[m.dst][m.slot] = [c EXCEPT !.acks = c.acks \cup {m}]
          /\ OtherCallsKeep(m.dst, m.slot)
          /\ msgs' = msgs \ {m}
      BY <1>4, DoAcceptedCall
    <2>2. c \in Call
      BY <2>1, CallFacts
    <2>3. /\ call'[m.dst][m.slot].acks = c.acks \cup {m}
          /\ call'[m.dst][m.slot].replies = c.replies
      BY <2>1, <2>2 DEF Call
    <2>4. m \in AcceptedSent /\ c.replies \subseteq PreparedSent /\ c.acks \subseteq AcceptedSent
      BY <1>4, <2>1, SentMembers DEF DoAccepted
    <2> QED
      BY <1>2, <2>1, <2>3, <2>4
  <1>5. acc' = acc
    BY DEF DoPrepared, DoAccepted
  <1> QED
    BY <1>1, <1>3, <1>4, <1>5

Keeps(c, o) ==
    /\ c.stable = o.stable /\ c.seq = o.seq /\ c.record = o.record
    /\ c.replies = o.replies /\ c.acks = o.acks

\* What each step of log() leaves in the call's record.
LEMMA LogUnstableCall ==
    ASSUME Types, NEW n \in Server, NEW s \in Slot, NEW r, LogUnstable(n, s, r)
    PROVE  /\ call'[n][s] = [Idle EXCEPT !.phase = "prepare", !.record = r,
                               !.seq = [try |-> next_try[n], name |-> n]]
           /\ OtherCallsKeep(n, s) /\ acc' = acc
           /\ \A m \in msgs' : m.type # "PREPARE" => m \in msgs
  <1>1. call \in [Server -> [Slot -> Call]]
    BY DEF Types, TypeOK
  <1>2. \A m \in msgs' : m.type # "PREPARE" => m \in msgs
    BY DEF LogUnstable, Prepare
  <1> QED
    BY <1>1, <1>2 DEF LogUnstable, OtherCallsKeep

LEMMA LogStableCall ==
    ASSUME Types, NEW n \in Server, NEW s \in Slot, NEW r, LogStable(n, s, r)
    PROVE  /\ call'[n][s] = [Idle EXCEPT !.phase = "entered", !.stable = TRUE,
                               !.seq = Special, !.record = r]
           /\ OtherCallsKeep(n, s) /\ acc' = acc /\ msgs' = msgs
  <1>1. call \in [Server -> [Slot -> Call]]
    BY DEF Types, TypeOK
  <1> QED
    BY <1>1 DEF LogStable, OtherCallsKeep

LEMMA AcceptStableCall ==
    ASSUME Types, NEW n \in Server, NEW s \in Slot, AcceptStable(n, s)
    PROVE  /\ Keeps(call'[n][s], call[n][s])
           /\ call[n][s].phase = "entered" /\ call'[n][s].phase = "accept"
           /\ call'[n][s].proposal = call[n][s].record /\ call'[n][s].rl = call[n][s].rl
           /\ OtherCallsKeep(n, s) /\ acc' = acc
           /\ \A m \in msgs' : m.type # "ACCEPT" => m \in msgs
  <1> DEFINE o == call[n][s]
             c == [o EXCEPT !.phase = "accept", !.proposal = o.record]
  <1>1. call \in [Server -> [Slot -> Call]] /\ o \in Call
    BY DEF Types, TypeOK
  <1>2. \A m \in msgs' : m.type # "ACCEPT" => m \in msgs
    BY DEF AcceptStable, Accept
  <1>3. call' = [call EXCEPT ![n][s] = c] /\ acc' = acc /\ o.phase = "entered"
    BY DEF AcceptStable
  <1>4. /\ c.phase = "accept" /\ c.proposal = o.record /\ c.rl = o.rl
        /\ Keeps(c, o)
    BY <1>1 DEF Call, Keeps
  <1> HIDE DEF c
  <1>5. call'[n][s] = c /\ OtherCallsKeep(n, s)
    BY <1>1, <1>3 DEF OtherCallsKeep
  <1> QED
    BY <1>2, <1>3, <1>4, <1>5

LEMMA PrepareDoneCall ==
    ASSUME Types, NEW n \in Server, NEW s \in Slot, PrepareDone(n, s)
    PROVE  /\ Keeps(call'[n][s], call[n][s])
           /\ call[n][s].phase = "prepare" /\ call'[n][s].phase = "accept"
           /\ Cardinality(call[n][s].replies) >= Majority
           /\ \E p \in CheckProposed(call[n][s].replies) :
                 IF p = NoRecord
                 THEN call'[n][s].proposal = call[n][s].record /\ call'[n][s].rl = "OK"
                 ELSE call'[n][s].proposal = p /\ call'[n][s].rl = "FAIL"
           /\ OtherCallsKeep(n, s) /\ acc' = acc
           /\ \A m \in msgs' : m.type # "ACCEPT" => m \in msgs
  <1> DEFINE o == call[n][s]
  <1>1. call \in [Server -> [Slot -> Call]] /\ o \in Call
    BY DEF Types, TypeOK
  <1>2. PICK p \in CheckProposed(o.replies) :
          LET q == IF p = NoRecord THEN o.record ELSE p IN
          /\ call' = [call EXCEPT ![n][s] =
                        [o EXCEPT !.phase = "accept", !.proposal = q,
                           !.rl = IF p = NoRecord THEN "OK" ELSE "FAIL"]]
          /\ msgs' = msgs \cup Accept(n, s, o.seq, q)
    BY DEF PrepareDone
  <1> DEFINE c == [o EXCEPT !.phase = "accept",
                     !.proposal = IF p = NoRecord THEN o.record ELSE p,
                     !.rl = IF p = NoRecord THEN "OK" ELSE "FAIL"]
  <1>3. call' = [call EXCEPT ![n][s] = c]
    BY <1>2
  <1>4. \A m \in msgs' : m.type # "ACCEPT" => m \in msgs
    BY <1>2 DEF Accept
  <1>5. acc' = acc /\ o.phase = "prepare" /\ Cardinality(o.replies) >= Majority
    BY DEF PrepareDone
  <1>6. /\ c.phase = "accept" /\ Keeps(c, o)
        /\ IF p = NoRecord
           THEN c.proposal = o.record /\ c.rl = "OK"
           ELSE c.proposal = p /\ c.rl = "FAIL"
    BY <1>1 DEF Call, Keeps
  <1> HIDE DEF c
  <1>7. call'[n][s] = c /\ OtherCallsKeep(n, s)
    BY <1>1, <1>3 DEF OtherCallsKeep
  <1> QED
    BY <1>4, <1>5, <1>6, <1>7

LEMMA TimeoutCall ==
    ASSUME Types, NEW n \in Server, NEW s \in Slot,
           PrepareTimeout(n, s) \/ AcceptTimeout(n, s)
    PROVE  /\ Keeps(call'[n][s], call[n][s])
           /\ call'[n][s].proposal = call[n][s].proposal /\ call'[n][s].rl = call[n][s].rl
           /\ \/ call[n][s].phase = "prepare" /\ call'[n][s].phase = "FAIL"
              \/ call[n][s].phase = "accept" /\ call'[n][s].phase = "TIMEOUT"
           /\ OtherCallsKeep(n, s) /\ acc' = acc /\ msgs' = msgs
  <1> DEFINE o == call[n][s]
  <1>1. call \in [Server -> [Slot -> Call]] /\ o \in Call
    BY DEF Types, TypeOK
  <1>2. /\ acc' = acc /\ msgs' = msgs
        /\ \E ph \in {"FAIL", "TIMEOUT"} :
              /\ call' = [call EXCEPT ![n][s].phase = ph]
              /\ o.phase = IF ph = "FAIL" THEN "prepare" ELSE "accept"
    BY DEF PrepareTimeout, AcceptTimeout
  <1>3. PICK ph \in {"FAIL", "TIMEOUT"} :
          /\ call' = [call EXCEPT ![n][s].phase = ph]
          /\ o.phase = IF ph = "FAIL" THEN "prepare" ELSE "accept"
    BY <1>2
  <1> DEFINE c == [o EXCEPT !.phase = ph]
  <1>4. call' = [call EXCEPT ![n][s] = c]
    BY <1>1, <1>3
  <1>5. c.phase = ph /\ Keeps(c, o) /\ c.proposal = o.proposal /\ c.rl = o.rl
    BY <1>1 DEF Call, Keeps
  <1> HIDE DEF c
  <1>6. call'[n][s] = c /\ OtherCallsKeep(n, s)
    BY <1>1, <1>4 DEF OtherCallsKeep
  <1> QED
    BY <1>2, <1>3, <1>5, <1>6

LEMMA AcceptDoneCall ==
    ASSUME Types, NEW n \in Server, NEW s \in Slot, AcceptDone(n, s)
    PROVE  /\ Keeps(call'[n][s], call[n][s])
           /\ call'[n][s].proposal = call[n][s].proposal /\ call'[n][s].rl = call[n][s].rl
           /\ call[n][s].phase = "accept" /\ call'[n][s].phase = call[n][s].rl
           /\ Cardinality(call[n][s].acks) >= Majority
           /\ OtherCallsKeep(n, s) /\ acc' = acc
           /\ \A m \in msgs' : m \notin msgs =>
                 m.type = "LEARN" /\ m.slot = s /\ m.rec = call[n][s].proposal
  <1> DEFINE o == call[n][s]
             c == [o EXCEPT !.phase = o.rl]
  <1>1. call \in [Server -> [Slot -> Call]] /\ o \in Call
    BY DEF Types, TypeOK
  <1>2. \A m \in msgs' : m \notin msgs =>
          m.type = "LEARN" /\ m.slot = s /\ m.rec = o.proposal
    BY DEF AcceptDone, Learn
  <1>3. /\ call' = [call EXCEPT ![n][s].phase = o.rl]
        /\ acc' = acc /\ o.phase = "accept" /\ Cardinality(o.acks) >= Majority
    BY DEF AcceptDone
  <1>4. call' = [call EXCEPT ![n][s] = c]
    BY <1>1, <1>3
  <1>5. c.phase = o.rl /\ Keeps(c, o) /\ c.proposal = o.proposal /\ c.rl = o.rl
    BY <1>1 DEF Call, Keeps
  <1> HIDE DEF c
  <1>6. call'[n][s] = c /\ OtherCallsKeep(n, s)
    BY <1>1, <1>4 DEF OtherCallsKeep
  <1> QED
    BY <1>2, <1>3, <1>5, <1>6

LEMMA LogEffect ==
    ASSUME Types, NEW n \in Server, NEW s \in Slot, Log(n, s)
    PROVE  Quiet
  <1>1. call[n][s] \in Call
    BY CallFacts
  <1>2. /\ acc' = acc /\ OtherCallsKeep(n, s)
        /\ \A m \in msgs' : m.type \in {"PREPARED", "ACCEPTED"} => m \in msgs
        /\ \/ call'[n][s].replies = {} /\ call'[n][s].acks = {}
           \/ /\ call'[n][s].replies = call[n][s].replies
              /\ call'[n][s].acks = call[n][s].acks
    <2>1. CASE \E r \in BeMaster : LogUnstable(n, s, r)
      <3>1. PICK r \in BeMaster : LogUnstable(n, s, r)
        BY <2>1
      <3>2. call'[n][s] = [Idle EXCEPT !.phase = "prepare", !.record = r,
                             !.seq = [try |-> next_try[n], name |-> n]]
        BY <3>1, LogUnstableCall
      <3>3. call'[n][s].replies = {} /\ call'[n][s].acks = {}
        BY <3>2 DEF Idle
      <3> QED
        BY <3>1, <3>3, LogUnstableCall
    <2>2. CASE \E r \in Stable(n) : LogStable(n, s, r)
      <3>1. PICK r \in Stable(n) : LogStable(n, s, r)
        BY <2>2
      <3>2. call'[n][s] = [Idle EXCEPT !.phase = "entered", !.stable = TRUE,
                             !.seq = Special, !.record = r]
        BY <3>1, LogStableCall
      <3>3. call'[n][s].replies = {} /\ call'[n][s].acks = {}
        BY <3>2 DEF Idle
      <3> QED
        BY <3>1, <3>3, LogStableCall
    <2>3. CASE AcceptStable(n, s)
      BY <2>3, AcceptStableCall DEF Keeps
    <2>4. CASE PrepareDone(n, s)
      BY <2>4, PrepareDoneCall DEF Keeps
    <2>5. CASE PrepareTimeout(n, s) \/ AcceptTimeout(n, s)
      BY <2>5, TimeoutCall DEF Keeps
    <2>6. CASE AcceptDone(n, s)
      BY <2>6, AcceptDoneCall DEF Keeps
    <2> QED
      BY <2>1, <2>2, <2>3, <2>4, <2>5, <2>6 DEF Log
  <1>3. \A n1 \in Server, s1 \in Slot :
          /\ call'[n1][s1].replies \subseteq PreparedSent
          /\ call'[n1][s1].acks \subseteq AcceptedSent
    BY <1>2, SentMembers DEF OtherCallsKeep
  <1> QED
    BY <1>2, <1>3, QuietStep

\* Every step is quiet, a promise or a vote.
LEMMA StepEffect ==
    ASSUME Types, [Next]_vars
    PROVE  Quiet \/ \E m \in msgs : Promises(m) \/ Votes(m)
  <1>1. ASSUME NEW n \in Server, NEW s \in Slot, Log(n, s) PROVE Quiet
    BY <1>1, LogEffect
  <1>2. ASSUME NEW m \in msgs, Receive(m) PROVE Quiet \/ Promises(m) \/ Votes(m)
    BY <1>2, DoPrepareEffect, DoAcceptEffect, DoLearnEffect, CountEffect DEF Receive
  <1>3. ASSUME NEW n \in Server, Reset(n) PROVE Quiet
    BY <1>3 DEF Reset, Quiet, PreparedSent, AcceptedSent
  <1>4. CASE UNCHANGED vars
    BY <1>4 DEF vars, Quiet, PreparedSent, AcceptedSent
  <1> QED
    BY <1>1, <1>2, <1>3, <1>4 DEF Next

-----------------------------------------------------------------------------
(***************************************************************************)
(* The invariants on acceptors and replies.                                *)
(***************************************************************************)
Binding == AcceptorInv /\ PromiseInv /\ ReportInv /\ VoteInv

\* The ballots of an acceptor and of the replies sent are ballots.
LEMMA BallotTypes ==
    ASSUME Types
    PROVE  /\ \A a \in Member, s \in Slot : acc[a][s].np \in Ballot /\ acc[a][s].na \in Ballot
           /\ \A m \in PreparedSent : /\ m.src \in Member /\ m.slot \in Slot
                                       /\ m.seq \in Regular /\ m.na \in Ballot
           /\ \A m \in AcceptedSent : /\ m.src \in Member /\ m.slot \in Slot
                                       /\ m.seq \in Regular \cup {Special}
  <1>1. TypeOK
    BY DEF Types
  <1>2. \A a \in Member, s \in Slot : acc[a][s] \in Acceptor
    BY <1>1 DEF TypeOK
  <1>3. PreparedSent \subseteq PreparedMsg /\ AcceptedSent \subseteq AcceptedMsg
    BY <1>1, SentAreReplies
  <1> QED
    BY <1>2, <1>3 DEF Acceptor, PreparedMsg, AcceptedMsg

LEMMA QuietBinding == Types /\ Binding /\ Quiet => Binding'
  <1> SUFFICES ASSUME Types, Binding, Quiet PROVE Binding'
    OBVIOUS
  <1>1. /\ \A m \in PreparedSent : m.src \in Member /\ m.slot \in Slot
        /\ \A m \in AcceptedSent : m.src \in Member /\ m.slot \in Slot
    BY BallotTypes
  <1>2. AcceptorInv'
    BY DEF Binding, AcceptorInv, Quiet
  <1>3. PromiseInv'
    BY <1>1 DEF Binding, PromiseInv, Quiet, LargerThan
  <1>4. ReportInv'
    BY DEF Binding, ReportInv, Quiet
  <1>5. VoteInv'
    BY DEF Binding, VoteInv, Quiet
  <1> QED
    BY <1>2, <1>3, <1>4, <1>5 DEF Binding

\* A step that changes one acceptor, whose ballots only grow, respects the
\* invariants if what it adds to the replies does.
LEMMA PromisesBinding ==
    ASSUME Types, Binding, NEW m, Promises(m)
    PROVE  Binding'
  <1> DEFINE old == acc[m.dst][m.slot]
             new == acc'[m.dst][m.slot]
             b == m.seq
             p == Prepared(m, old.na, old.va)
  <1>1. /\ m.dst \in Member /\ m.slot \in Slot /\ b \in Regular
        /\ new.st = "A" /\ new.np = b /\ new.na = old.na
        /\ OthersKeep(m)
        /\ PreparedSent' \subseteq PreparedSent \cup {p}
        /\ AcceptedSent' \subseteq AcceptedSent
    BY DEF Promises
  <1>2. /\ p.src = m.dst /\ p.slot = m.slot /\ p.seq = b /\ p.na = old.na
    BY DEF Prepared
  <1>3. old.np \in Ballot /\ old.na \in Ballot /\ b \in Ballot
    BY <1>1, BallotTypes, RegularIsAbove
  <1>4. LargerThan(old.np, old.na)
    BY <1>1 DEF Binding, AcceptorInv
  <1>5. ~LargerThan(old.np, b)
    <2>1. old.st = "none" => old.np = NoBallot
      BY <1>1 DEF Binding, AcceptorInv, Absent
    <2> QED
      BY <1>1, <2>1, RegularIsAbove DEF Promises
  <1>6. LargerThan(b, old.np) /\ LargerThan(b, old.na)
    BY <1>3, <1>4, <1>5, LargerThanOrders
  <1>7. AcceptorInv'
    <2>1. LargerThan(new.np, new.na)
      BY <1>1, <1>6
    <2>2. ASSUME NEW a \in Member, NEW s \in Slot, a # m.dst \/ s # m.slot
          PROVE  acc'[a][s] = acc[a][s]
      BY <1>1, <2>2 DEF OthersKeep
    <2>3. \A a \in Member, s \in Slot :
            /\ acc[a][s].st = "none" => acc[a][s] = Absent
            /\ LargerThan(acc[a][s].np, acc[a][s].na)
      BY DEF Binding, AcceptorInv
    <2>4. ASSUME NEW a \in Member, NEW s \in Slot
          PROVE  /\ acc'[a][s].st = "none" => acc'[a][s] = Absent
                 /\ LargerThan(acc'[a][s].np, acc'[a][s].na)
      <3>1. CASE a = m.dst /\ s = m.slot
        BY <1>1, <2>1, <3>1
      <3>2. CASE a # m.dst \/ s # m.slot
        BY <2>2, <2>3, <3>2
      <3> QED
        BY <3>1, <3>2
    <2> QED
      BY <2>4 DEF AcceptorInv, Absent, NoBallot, NoRecord, LargerThan
  <1>8. PromiseInv'
    <2>1. ASSUME NEW q \in PreparedSent PROVE LargerThan(acc'[q.src][q.slot].np, q.seq)
      <3>1. /\ q.src \in Member /\ q.slot \in Slot /\ q.seq \in Ballot
            /\ acc[q.src][q.slot].np \in Ballot
        BY BallotTypes, RegularIsAbove
      <3>2. LargerThan(acc[q.src][q.slot].np, q.seq)
        BY DEF Binding, PromiseInv
      <3>3. CASE q.src = m.dst /\ q.slot = m.slot
        BY <1>1, <1>3, <1>6, <3>1, <3>2, <3>3, LargerThanOrders
      <3>4. CASE q.src # m.dst \/ q.slot # m.slot
        BY <1>1, <3>1, <3>2, <3>4 DEF OthersKeep
      <3> QED
        BY <3>3, <3>4
    <2>2. ASSUME NEW q \in AcceptedSent, q.seq \in Regular
          PROVE  LargerThan(acc'[q.src][q.slot].na, q.seq)
      <3>1. q.src \in Member /\ q.slot \in Slot
        BY BallotTypes
      <3>2. LargerThan(acc[q.src][q.slot].na, q.seq)
        BY <2>2 DEF Binding, PromiseInv
      <3>3. acc'[q.src][q.slot].na = acc[q.src][q.slot].na
        BY <1>1, <3>1 DEF OthersKeep
      <3> QED
        BY <3>2, <3>3
    <2>3. LargerThan(acc'[p.src][p.slot].np, p.seq)
      BY <1>1, <1>2, <1>3, LargerThanOrders
    <2>4. \A q \in PreparedSent' : LargerThan(acc'[q.src][q.slot].np, q.seq)
      BY <1>1, <2>1, <2>3
    <2>5. \A q \in AcceptedSent' :
            q.seq \in Regular => LargerThan(acc'[q.src][q.slot].na, q.seq)
      BY <1>1, <2>2
    <2> QED
      BY <2>4, <2>5 DEF PromiseInv, LargerThan
  <1>9. ReportInv'
    <2>1. ASSUME NEW q \in AcceptedSent, p.src = q.src, p.slot = q.slot, q.seq \in Regular
          PROVE  IsReport(p)
      <3>1. LargerThan(old.na, q.seq)
        BY <1>2, <2>1 DEF Binding, PromiseInv
      <3>2. q.seq \in Ballot /\ Special \in Ballot /\ ~LargerThan(Special, q.seq)
        BY <2>1, RegularIsAbove, SpecialIsAbove
      <3>3. ~LargerThan(Special, old.na)
        BY <1>3, <3>1, <3>2, LargerThanOrders
      <3> QED
        BY <1>2, <3>3 DEF IsReport
    <2>2. \A q1 \in PreparedSent, q2 \in AcceptedSent :
            /\ q1.src = q2.src /\ q1.slot = q2.slot
            /\ q2.seq \in Regular /\ ~LargerThan(q2.seq, q1.seq)
            => IsReport(q1)
      BY DEF Binding, ReportInv
    <2> HIDE DEF p
    <2> QED
      BY <1>1, <2>1, <2>2 DEF ReportInv
  <1>10. VoteInv'
    <2>1. ASSUME NEW q \in PreparedSent, q.src = p.src, q.slot = p.slot, q.seq = p.seq
          PROVE  FALSE
      <3>1. LargerThan(acc[q.src][q.slot].np, q.seq)
        BY DEF Binding, PromiseInv
      <3> QED
        BY <1>2, <1>5, <2>1, <3>1
    <2>2. \A q1, q2 \in PreparedSent :
            q1.src = q2.src /\ q1.dst = q2.dst /\ q1.slot = q2.slot /\ q1.seq = q2.seq
               => q1 = q2
      BY DEF Binding, VoteInv
    <2> HIDE DEF p
    <2> QED
      BY <1>1, <2>1, <2>2 DEF VoteInv
  <1> QED
    BY <1>7, <1>8, <1>9, <1>10 DEF Binding

LEMMA VotesBinding ==
    ASSUME Types, Binding, NEW m, Votes(m)
    PROVE  Binding'
  <1> DEFINE old == acc[m.dst][m.slot]
             new == acc'[m.dst][m.slot]
             b == m.seq
             v == Accepted(m)
  <1>1. /\ m.dst \in Member /\ m.slot \in Slot /\ b \in Regular \cup {Special}
        /\ new.st = "A" /\ new.np = b /\ new.na = b
        /\ OthersKeep(m)
        /\ PreparedSent' \subseteq PreparedSent
        /\ AcceptedSent' \subseteq AcceptedSent \cup {v}
    BY DEF Votes
  <1>2. v.src = m.dst /\ v.slot = m.slot /\ v.seq = b
    BY DEF Accepted
  <1>3. old.np \in Ballot /\ old.na \in Ballot /\ b \in Ballot
    BY <1>1, BallotTypes, RegularIsAbove, SpecialIsAbove
  <1>4. LargerThan(old.np, old.na)
    BY <1>1 DEF Binding, AcceptorInv
  <1>5. LargerThan(b, old.np)
    <2>1. old.st = "none" => old.np = NoBallot
      BY <1>1 DEF Binding, AcceptorInv, Absent
    <2> QED
      BY <1>1, <1>3, <2>1, SpecialIsAbove, LargerThanOrders DEF Votes
  <1>6. LargerThan(b, old.na) /\ LargerThan(b, b)
    BY <1>3, <1>4, <1>5, LargerThanOrders
  <1>7. AcceptorInv'
    <2>1. \A a \in Member, s \in Slot :
            /\ acc[a][s].st = "none" => acc[a][s] = Absent
            /\ LargerThan(acc[a][s].np, acc[a][s].na)
      BY DEF Binding, AcceptorInv
    <2>2. ASSUME NEW a \in Member, NEW s \in Slot
          PROVE  /\ acc'[a][s].st = "none" => acc'[a][s] = Absent
                 /\ LargerThan(acc'[a][s].np, acc'[a][s].na)
      <3>1. CASE a = m.dst /\ s = m.slot
        BY <1>1, <1>6, <3>1
      <3>2. CASE a # m.dst \/ s # m.slot
        BY <1>1, <2>1, <3>2 DEF OthersKeep
      <3> QED
        BY <3>1, <3>2
    <2> QED
      BY <2>2 DEF AcceptorInv, Absent, NoBallot, NoRecord, LargerThan
  <1>8. PromiseInv'
    <2>1. ASSUME NEW q \in PreparedSent PROVE LargerThan(acc'[q.src][q.slot].np, q.seq)
      <3>1. /\ q.src \in Member /\ q.slot \in Slot /\ q.seq \in Ballot
            /\ acc[q.src][q.slot].np \in Ballot
        BY BallotTypes, RegularIsAbove
      <3>2. LargerThan(acc[q.src][q.slot].np, q.seq)
        BY DEF Binding, PromiseInv
      <3>3. CASE q.src = m.dst /\ q.slot = m.slot
        BY <1>1, <1>3, <1>5, <3>1, <3>2, <3>3, LargerThanOrders
      <3>4. CASE q.src # m.dst \/ q.slot # m.slot
        BY <1>1, <3>1, <3>2, <3>4 DEF OthersKeep
      <3> QED
        BY <3>3, <3>4
    <2>2. ASSUME NEW q \in AcceptedSent, q.seq \in Regular
          PROVE  LargerThan(acc'[q.src][q.slot].na, q.seq)
      <3>1. /\ q.src \in Member /\ q.slot \in Slot /\ q.seq \in Ballot
            /\ acc[q.src][q.slot].na \in Ballot
        BY <2>2, BallotTypes, RegularIsAbove
      <3>2. LargerThan(acc[q.src][q.slot].na, q.seq)
        BY <2>2 DEF Binding, PromiseInv
      <3>3. CASE q.src = m.dst /\ q.slot = m.slot
        BY <1>1, <1>3, <1>6, <3>1, <3>2, <3>3, LargerThanOrders
      <3>4. CASE q.src # m.dst \/ q.slot # m.slot
        BY <1>1, <3>1, <3>2, <3>4 DEF OthersKeep
      <3> QED
        BY <3>3, <3>4
    <2>3. LargerThan(acc'[v.src][v.slot].na, v.seq)
      BY <1>1, <1>2, <1>6
    <2>4. \A q \in PreparedSent' : LargerThan(acc'[q.src][q.slot].np, q.seq)
      BY <1>1, <2>1
    <2>5. \A q \in AcceptedSent' :
            q.seq \in Regular => LargerThan(acc'[q.src][q.slot].na, q.seq)
      BY <1>1, <2>2, <2>3
    <2> QED
      BY <2>4, <2>5 DEF PromiseInv, LargerThan
  <1>9. ReportInv'
    <2>1. ASSUME NEW q \in PreparedSent, q.src = v.src, q.slot = v.slot
          PROVE  LargerThan(v.seq, q.seq)
      <3>1. q.seq \in Ballot
        BY BallotTypes, RegularIsAbove
      <3>2. LargerThan(old.np, q.seq)
        BY <1>2, <2>1 DEF Binding, PromiseInv
      <3> QED
        BY <1>2, <1>3, <1>5, <3>1, <3>2, LargerThanOrders
    <2>2. \A q1 \in PreparedSent, q2 \in AcceptedSent :
            /\ q1.src = q2.src /\ q1.slot = q2.slot
            /\ q2.seq \in Regular /\ ~LargerThan(q2.seq, q1.seq)
            => IsReport(q1)
      BY DEF Binding, ReportInv
    <2> HIDE DEF v
    <2> QED
      BY <1>1, <2>1, <2>2 DEF ReportInv
  <1>10. VoteInv'
    BY <1>1 DEF Binding, VoteInv
  <1> QED
    BY <1>7, <1>8, <1>9, <1>10 DEF Binding

LEMMA InitBinding == Init => Binding
  <1> SUFFICES ASSUME Init PROVE Binding
    OBVIOUS
  <1>1. PreparedSent = {} /\ AcceptedSent = {}
    BY DEF Init, PreparedSent, AcceptedSent, Idle
  <1>2. \A a \in Member, s \in Slot : acc[a][s] = Absent
    BY DEF Init
  <1>3. AcceptorInv
    BY <1>2 DEF AcceptorInv, Absent, NoBallot, LargerThan
  <1> QED
    BY <1>1, <1>3 DEF Binding, PromiseInv, ReportInv, VoteInv

LEMMA NextBinding == Types /\ Binding /\ [Next]_vars => Binding'
  BY StepEffect, QuietBinding, PromisesBinding, VotesBinding

-----------------------------------------------------------------------------
(***************************************************************************)
(* The local state of log().                                               *)
(***************************************************************************)
\* The first half of ReplyInv, of one call.
RepliesFine(c, n, s) ==
    \A m \in c.replies \cup c.acks : m.dst = n /\ m.slot = s /\ m.seq = c.seq

LEMMA CallsFine ==
    /\ CallInv <=> \A n \in Server, s \in Slot : CallFine(call[n][s], n)
    /\ CallInv' <=> \A n \in Server, s \in Slot : CallFine(call'[n][s], n)
  BY DEF CallInv, CallFine

\* Every step of log() keeps the invariant of its call, and counts no new reply.
LEMMA LogCallFine ==
    ASSUME Types, NEW n \in Server, NEW s \in Slot, Log(n, s),
           CallFine(call[n][s], n), RepliesFine(call[n][s], n, s)
    PROVE  /\ CallFine(call'[n][s], n) /\ RepliesFine(call'[n][s], n, s)
           /\ OtherCallsKeep(n, s) /\ acc' = acc
           /\ \A m \in msgs' : m.type \in {"PREPARED", "ACCEPTED"} => m \in msgs
           /\ call'[n][s].replies \subseteq call[n][s].replies
  <1> DEFINE o == call[n][s]
             c == call'[n][s]
  <1>1. o \in Call /\ next_try[n] \in Nat
    BY CallFacts
  <1>2. CASE \E r \in BeMaster : LogUnstable(n, s, r)
    <2>1. PICK r \in BeMaster : LogUnstable(n, s, r)
      BY <1>2
    <2>2. c = [Idle EXCEPT !.phase = "prepare", !.record = r,
                 !.seq = [try |-> next_try[n], name |-> n]]
      BY <2>1, LogUnstableCall
    <2>3. /\ c.phase = "prepare" /\ c.stable = FALSE /\ c.rl = "OK" /\ c.acks = {}
          /\ c.replies = {} /\ c.seq = [try |-> next_try[n], name |-> n] /\ c.record = r
      BY <2>2 DEF Idle
    <2>4. c.seq \in Regular /\ c.seq.name = n
      BY <1>1, <2>3 DEF Regular
    <2>5. CallFine(c, n) /\ RepliesFine(c, n, s)
      BY <2>3, <2>4 DEF CallFine, RepliesFine
    <2> QED
      BY <2>1, <2>3, <2>5, LogUnstableCall
  <1>3. CASE \E r \in Stable(n) : LogStable(n, s, r)
    <2>1. PICK r \in Stable(n) : LogStable(n, s, r)
      BY <1>3
    <2>2. c = [Idle EXCEPT !.phase = "entered", !.stable = TRUE,
                 !.seq = Special, !.record = r]
      BY <2>1, LogStableCall
    <2>3. /\ c.phase = "entered" /\ c.stable = TRUE /\ c.rl = "OK" /\ c.acks = {}
          /\ c.replies = {} /\ c.seq = Special /\ c.record = r
      BY <2>2 DEF Idle
    <2>4. CallFine(c, n) /\ RepliesFine(c, n, s)
      BY <2>3 DEF CallFine, RepliesFine
    <2> QED
      BY <2>1, <2>3, <2>4, LogStableCall
  <1>4. CASE AcceptStable(n, s)
    <2>1. /\ Keeps(c, o) /\ o.phase = "entered" /\ c.phase = "accept"
          /\ c.proposal = o.record /\ c.rl = o.rl
      BY <1>4, AcceptStableCall
    <2>2. CallFine(c, n) /\ RepliesFine(c, n, s)
      BY <2>1 DEF CallFine, RepliesFine, Keeps
    <2> QED
      BY <1>4, <2>1, <2>2, AcceptStableCall DEF Keeps
  <1>5. CASE PrepareDone(n, s)
    <2>1. /\ Keeps(c, o) /\ o.phase = "prepare" /\ c.phase = "accept"
          /\ Cardinality(o.replies) >= Majority
      BY <1>5, PrepareDoneCall
    <2>2. PICK p \in CheckProposed(o.replies) :
            IF p = NoRecord
            THEN c.proposal = o.record /\ c.rl = "OK"
            ELSE c.proposal = p /\ c.rl = "FAIL"
      BY <1>5, PrepareDoneCall
    <2>3. o.replies # {}
      BY <2>1, FS_EmptySet, MajorityIsMore
    <2>4. ~o.stable
      BY <2>3 DEF CallFine
    <2>5. \/ p = NoRecord /\ \A m \in o.replies : ~IsReport(m)
          \/ p # NoRecord /\ p.arg = NoArg
      BY CheckProposedAdopts, CallFacts
    <2>6. CallFine(c, n) /\ RepliesFine(c, n, s)
      BY <2>1, <2>2, <2>4, <2>5 DEF CallFine, RepliesFine, Keeps
    <2> QED
      BY <1>5, <2>1, <2>6, PrepareDoneCall DEF Keeps
  <1>6. CASE PrepareTimeout(n, s) \/ AcceptTimeout(n, s)
    <2>1. /\ Keeps(c, o) /\ c.proposal = o.proposal /\ c.rl = o.rl
          /\ \/ o.phase = "prepare" /\ c.phase = "FAIL"
             \/ o.phase = "accept" /\ c.phase = "TIMEOUT"
      BY <1>6, TimeoutCall
    <2>2. CallFine(c, n) /\ RepliesFine(c, n, s)
      BY <2>1 DEF CallFine, RepliesFine, Keeps
    <2> QED
      BY <1>6, <2>1, <2>2, TimeoutCall DEF Keeps
  <1>7. CASE AcceptDone(n, s)
    <2>1. /\ Keeps(c, o) /\ c.proposal = o.proposal /\ c.rl = o.rl
          /\ o.phase = "accept" /\ c.phase = o.rl
          /\ Cardinality(o.acks) >= Majority
      BY <1>7, AcceptDoneCall
    <2>2. o.rl \in {"OK", "FAIL"}
      BY <1>1 DEF Call
    <2>3. CallFine(c, n) /\ RepliesFine(c, n, s)
      BY <2>1, <2>2 DEF CallFine, RepliesFine, Keeps
    <2> QED
      BY <1>7, <2>1, <2>3, AcceptDoneCall DEF Keeps
  <1> QED
    BY <1>2, <1>3, <1>4, <1>5, <1>6, <1>7 DEF Log

\* Counting a reply keeps the invariant of the call that counts it.
LEMMA CountCallFine ==
    ASSUME Types, NEW m \in msgs, DoPrepared(m) \/ DoAccepted(m),
           ~UNCHANGED <<call, msgs>>,
           CallFine(call[m.dst][m.slot], m.dst),
           RepliesFine(call[m.dst][m.slot], m.dst, m.slot)
    PROVE  /\ m.dst \in Server /\ m.slot \in Slot
           /\ CallFine(call'[m.dst][m.slot], m.dst)
           /\ RepliesFine(call'[m.dst][m.slot], m.dst, m.slot)
           /\ OtherCallsKeep(m.dst, m.slot) /\ acc' = acc /\ msgs' = msgs \ {m}
           /\ call'[m.dst][m.slot].replies \subseteq call[m.dst][m.slot].replies \cup {m}
  <1> DEFINE o == call[m.dst][m.slot]
             c == call'[m.dst][m.slot]
  <1>1. CASE DoPrepared(m)
    <2>1. /\ m \in PreparedMsg /\ m.dst \in Server /\ m.slot \in Slot /\ acc' = acc
          /\ o.phase = "prepare" /\ o.seq = m.seq
          /\ c = [o EXCEPT !.replies = o.replies \cup {m}]
          /\ OtherCallsKeep(m.dst, m.slot) /\ msgs' = msgs \ {m}
      BY <1>1, DoPreparedCall
    <2>2. o \in Call
      BY <2>1, CallFacts
    <2>3. /\ c.phase = o.phase /\ c.stable = o.stable /\ c.seq = o.seq
          /\ c.record = o.record /\ c.proposal = o.proposal /\ c.rl = o.rl
          /\ c.acks = o.acks /\ c.replies = o.replies \cup {m}
      BY <2>1, <2>2 DEF Call
    <2>4. m.seq \in Regular /\ ~o.stable
      BY <2>1, SpecialIsAbove DEF PreparedMsg, CallFine
    <2>5. CallFine(c, m.dst) /\ RepliesFine(c, m.dst, m.slot)
      BY <2>1, <2>3, <2>4 DEF CallFine, RepliesFine
    <2> QED
      BY <2>1, <2>3, <2>5
  <1>2. CASE DoAccepted(m)
    <2>1. /\ m.dst \in Server /\ m.slot \in Slot /\ acc' = acc
          /\ o.phase = "accept" /\ o.seq = m.seq
          /\ c = [o EXCEPT !.acks = o.acks \cup {m}]
          /\ OtherCallsKeep(m.dst, m.slot) /\ msgs' = msgs \ {m}
      BY <1>2, DoAcceptedCall
    <2>2. o \in Call
      BY <2>1, CallFacts
    <2>3. /\ c.phase = o.phase /\ c.stable = o.stable /\ c.seq = o.seq
          /\ c.record = o.record /\ c.proposal = o.proposal /\ c.rl = o.rl
          /\ c.replies = o.replies /\ c.acks = o.acks \cup {m}
      BY <2>1, <2>2 DEF Call
    <2>4. CallFine(c, m.dst) /\ RepliesFine(c, m.dst, m.slot)
      BY <2>1, <2>3 DEF CallFine, RepliesFine
    <2> QED
      BY <2>1, <2>3, <2>4
  <1> QED
    BY <1>1, <1>2

\* An acceptor's promise is a reply it had not sent before.
LEMMA PromiseIsFresh ==
    ASSUME Types, Binding, NEW m \in msgs, Receive(m), UNCHANGED call
    PROVE  \A q \in msgs' : q.type = "PREPARED" => q \in msgs \/ q \notin PreparedSent
  <1>1. CASE DoPrepare(m)
    <2> DEFINE a == acc[m.dst][m.slot]
               p == Prepared(m, a.na, a.va)
    <2>1. CASE Discard \/ Learned(m)
      BY <2>1 DEF Discard, Learned, Learn
    <2>2. ASSUME Consume(m, {p}),
                 a.st = "none" \/ (a.st = "A" /\ ~LargerThan(a.np, m.seq))
          PROVE  p \notin PreparedSent
      <3>1. m.dst \in Member /\ m.slot \in Slot /\ m.seq \in Regular
        BY <1>1, MessageKinds DEF Types, TypeOK, DoPrepare, PrepareMsg
      <3>2. a.st = "none" => a.np = NoBallot
        BY <3>1 DEF Binding, AcceptorInv, Absent
      <3>3. ~LargerThan(a.np, m.seq)
        BY <2>2, <3>1, <3>2, RegularIsAbove
      <3>4. p.src = m.dst /\ p.slot = m.slot /\ p.seq = m.seq
        BY DEF Prepared
      <3>5. p \in PreparedSent => LargerThan(acc[p.src][p.slot].np, p.seq)
        BY DEF Binding, PromiseInv
      <3> QED
        BY <3>3, <3>4, <3>5
    <2>3. \/ Discard \/ Learned(m)
          \/ /\ Consume(m, {p})
             /\ a.st = "none" \/ (a.st = "A" /\ ~LargerThan(a.np, m.seq))
      BY <1>1 DEF DoPrepare
    <2> HIDE DEF p, a
    <2> QED
      BY <2>1, <2>2, <2>3 DEF Consume
  <1>2. CASE DoAccept(m)
    BY <1>2 DEF DoAccept, Discard, Learned, Learn, Consume, Accepted
  <1>3. CASE DoLearn(m)
    BY <1>3 DEF DoLearn, Discard, Consume
  <1>4. CASE DoPrepared(m) \/ DoAccepted(m)
    BY <1>4 DEF DoPrepared, DoAccepted, Consume
  <1> QED
    BY <1>1, <1>2, <1>3, <1>4 DEF Receive

Calls == CallInv /\ ReplyInv

LEMMA InitCalls == Init => Calls
  <1> SUFFICES ASSUME Init PROVE Calls
    OBVIOUS
  <1>1. \A n \in Server, s \in Slot : call[n][s] = Idle
    BY DEF Init
  <1>2. ReplyInv
    BY <1>1 DEF ReplyInv, Idle
  <1>3. ASSUME NEW n \in Server PROVE CallFine(Idle, n)
    BY DEF CallFine, Idle
  <1> QED
    BY <1>1, <1>2, <1>3, CallsFine DEF Calls

\* The invariants of the calls are preserved by every step.
LEMMA NextCalls == Types /\ Binding /\ Calls /\ [Next]_vars => Calls'
  <1> SUFFICES ASSUME Types, Binding, Calls, [Next]_vars PROVE Calls'
    OBVIOUS
  <1>1. \A n \in Server, s \in Slot :
          /\ CallFine(call[n][s], n) /\ RepliesFine(call[n][s], n, s)
          /\ call[n][s].replies \cap msgs = {}
          /\ call[n][s].replies \subseteq PreparedSent
          /\ \A m \in call[n][s].replies : m.type = "PREPARED"
    <2>1. \A n \in Server, s \in Slot :
            call[n][s].replies \subseteq PreparedSent /\ call[n][s] \in Call
      BY CallFacts
    <2>2. \A n \in Server, s \in Slot : \A m \in call[n][s].replies : m.type = "PREPARED"
      BY <2>1 DEF Call, PreparedMsg
    <2> QED
      BY <2>1, <2>2, CallsFine DEF Calls, ReplyInv, RepliesFine
  <1>2. SUFFICES ASSUME NEW n \in Server, NEW s \in Slot
                 PROVE  /\ CallFine(call'[n][s], n) /\ RepliesFine(call'[n][s], n, s)
                        /\ call'[n][s].replies \cap msgs' = {}
    BY CallsFine DEF Calls, ReplyInv, RepliesFine
  <1>3. ASSUME NEW n1 \in Server, NEW s1 \in Slot, Log(n1, s1)
        PROVE  /\ CallFine(call'[n][s], n) /\ RepliesFine(call'[n][s], n, s)
               /\ call'[n][s].replies \cap msgs' = {}
    <2>1. /\ CallFine(call'[n1][s1], n1) /\ RepliesFine(call'[n1][s1], n1, s1)
          /\ OtherCallsKeep(n1, s1)
          /\ \A m \in msgs' : m.type \in {"PREPARED", "ACCEPTED"} => m \in msgs
          /\ call'[n1][s1].replies \subseteq call[n1][s1].replies
      BY <1>1, <1>3, LogCallFine
    <2>2. CASE n = n1 /\ s = s1
      BY <1>1, <2>1, <2>2
    <2>3. CASE n # n1 \/ s # s1
      <3>1. call'[n][s] = call[n][s]
        BY <2>1, <2>3 DEF OtherCallsKeep
      <3> QED
        BY <1>1, <2>1, <3>1
    <2> QED
      BY <2>2, <2>3
  <1>4. ASSUME NEW m \in msgs, Receive(m), UNCHANGED call
        PROVE  /\ CallFine(call'[n][s], n) /\ RepliesFine(call'[n][s], n, s)
               /\ call'[n][s].replies \cap msgs' = {}
    <2>1. \A q \in msgs' : q.type = "PREPARED" => q \in msgs \/ q \notin PreparedSent
      BY <1>4, PromiseIsFresh
    <2> QED
      BY <1>1, <1>4, <2>1
  <1>5. ASSUME NEW m \in msgs, DoPrepared(m) \/ DoAccepted(m), ~UNCHANGED <<call, msgs>>
        PROVE  /\ CallFine(call'[n][s], n) /\ RepliesFine(call'[n][s], n, s)
               /\ call'[n][s].replies \cap msgs' = {}
    <2>1. m.dst \in Server /\ m.slot \in Slot
      <3>1. m \in PreparedMsg \/ m \in AcceptedMsg
        BY <1>5, MessageKinds DEF Types, TypeOK, DoPrepared, DoAccepted
      <3> QED
        BY <3>1 DEF PreparedMsg, AcceptedMsg
    <2>2. /\ CallFine(call'[m.dst][m.slot], m.dst)
          /\ RepliesFine(call'[m.dst][m.slot], m.dst, m.slot)
          /\ OtherCallsKeep(m.dst, m.slot) /\ msgs' = msgs \ {m}
          /\ call'[m.dst][m.slot].replies \subseteq call[m.dst][m.slot].replies \cup {m}
      BY <1>1, <1>5, <2>1, CountCallFine
    <2>3. CASE n = m.dst /\ s = m.slot
      BY <1>1, <2>2, <2>3
    <2>4. CASE n # m.dst \/ s # m.slot
      <3>1. call'[n][s] = call[n][s]
        BY <2>2, <2>4 DEF OtherCallsKeep
      <3> QED
        BY <1>1, <2>2, <3>1
    <2> QED
      BY <2>3, <2>4
  <1>6. CASE UNCHANGED <<call, msgs>>
    BY <1>1, <1>6
  <1>7. \/ \E n1 \in Server, s1 \in Slot : Log(n1, s1)
        \/ \E m \in msgs : Receive(m) /\ UNCHANGED call
        \/ \E m \in msgs : (DoPrepared(m) \/ DoAccepted(m)) /\ ~UNCHANGED <<call, msgs>>
        \/ UNCHANGED <<call, msgs>>
    BY DEF Next, Receive, Reset, vars, DoPrepare, DoAccept, DoLearn
  <1> QED
    BY <1>3, <1>4, <1>5, <1>6, <1>7

-----------------------------------------------------------------------------
(***************************************************************************)
(* Elections.                                                              *)
(***************************************************************************)
\* What a majority accepted, no later call of a server passes over: the two
\* majorities share an acceptor, whose reply reports the value.
LEMMA ChosenIsReported == Types /\ Binding /\ Calls => ChosenBinds
  <1> SUFFICES ASSUME Types, Binding, Calls,
                      NEW s \in Slot, NEW n1 \in Server, NEW n2 \in Server,
                      Chosen(n1, s), OwnProposal(n2, s),
                      ~LargerThan(call[n1][s].seq, call[n2][s].seq)
               PROVE  FALSE
    BY DEF ChosenBinds
  <1> DEFINE c1 == call[n1][s]
             c2 == call[n2][s]
  <1>1. /\ CallFine(c1, n1) /\ CallFine(c2, n2)
        /\ RepliesFine(c1, n1, s) /\ RepliesFine(c2, n2, s)
    BY CallsFine DEF Calls, ReplyInv, RepliesFine
  <1>2. /\ c1 \in Call /\ c2 \in Call
        /\ c1.acks \subseteq AcceptedSent /\ c2.replies \subseteq PreparedSent
    BY CallFacts, SentMembers
  <1>3. ~c1.stable /\ Cardinality(c1.acks) >= Majority
    BY DEF Chosen
  <1>4. c1.seq \in Regular
    <2>1. c1.acks # {}
      <3>1. Cardinality({}) = 0
        BY FS_EmptySet
      <3>2. Cardinality(c1.acks) >= Majority
        BY <1>3
      <3> HIDE DEF c1
      <3> QED
        BY <3>1, <3>2, MajorityIsMore
    <2>2. c1.phase # "idle"
      BY <1>1, <2>1 DEF CallFine
    <2> QED
      BY <1>1, <1>3, <2>2 DEF CallFine
  <1>5. Cardinality(c2.replies) >= Majority /\ \A m \in c2.replies : ~IsReport(m)
    BY <1>1 DEF CallFine, OwnProposal
  <1>6. /\ \A m \in c1.acks : m.src \in Member
        /\ \A m1, m2 \in c1.acks : m1.src = m2.src => m1 = m2
    <2>1. c1.acks \subseteq AcceptedMsg
      BY <1>2 DEF Call
    <2>2. ASSUME NEW m1 \in c1.acks, NEW m2 \in c1.acks, m1.src = m2.src
          PROVE  m1 = m2
      <3>1. m1.dst = m2.dst /\ m1.slot = m2.slot /\ m1.seq = m2.seq
        BY <1>1 DEF RepliesFine
      <3> QED
        BY <2>1, <2>2, <3>1 DEF AcceptedMsg
    <2> QED
      BY <2>1, <2>2 DEF AcceptedMsg
  <1>7. /\ \A m \in c2.replies : m.src \in Member
        /\ \A m1, m2 \in c2.replies : m1.src = m2.src => m1 = m2
    <2>1. \A m \in c2.replies : m.src \in Member
      BY <1>2, BallotTypes
    <2>2. ASSUME NEW m1 \in c2.replies, NEW m2 \in c2.replies, m1.src = m2.src
          PROVE  m1 = m2
      <3>1. m1 \in PreparedSent /\ m2 \in PreparedSent
        BY <1>2
      <3>2. m1.dst = m2.dst /\ m1.slot = m2.slot /\ m1.seq = m2.seq
        BY <1>1 DEF RepliesFine
      <3> QED
        BY <2>2, <3>1, <3>2 DEF Binding, VoteInv
    <2> QED
      BY <2>1, <2>2
  <1>8. PICK q \in c1.acks, p \in c2.replies : q.src = p.src
    BY <1>3, <1>5, <1>6, <1>7, MajoritiesShareMember
  <1>9. q.slot = s /\ p.slot = s /\ q.seq = c1.seq /\ p.seq = c2.seq
    BY <1>1 DEF RepliesFine
  <1>10. IsReport(p)
    BY <1>2, <1>4, <1>8, <1>9 DEF Binding, ReportInv
  <1> QED
    BY <1>5, <1>10

\* Two winners would each have to be passed over by the other.
LEMMA WinnersAgree == Types /\ Binding /\ Calls => ElectionSafety
  <1> SUFFICES ASSUME Types, Binding, Calls,
                      NEW s \in Slot, NEW n1 \in Server, NEW n2 \in Server,
                      Won(n1, s), Won(n2, s)
               PROVE  n1 = n2
    BY DEF ElectionSafety
  <1>1. ASSUME NEW n \in Server, Won(n, s)
        PROVE  /\ Chosen(n, s) /\ OwnProposal(n, s)
               /\ call[n][s].seq \in Regular /\ call[n][s].seq.name = n
    <2>1. CallFine(call[n][s], n)
      BY CallsFine DEF Calls
    <2> QED
      BY <1>1, <2>1 DEF CallFine, Won, Chosen, OwnProposal
  <1>2. /\ LargerThan(call[n1][s].seq, call[n2][s].seq)
        /\ LargerThan(call[n2][s].seq, call[n1][s].seq)
    BY <1>1, ChosenIsReported DEF ChosenBinds
  <1>3. call[n1][s].seq = call[n2][s].seq
    BY <1>1, <1>2, RegularIsAbove, LargerThanOrders
  <1> QED
    BY <1>1, <1>3

\* Who has won has won for good, with the same record.
LEMMA WinnerStays ==
    ASSUME Types, [Next]_vars, NEW n \in Server, NEW s \in Slot, Won(n, s)
    PROVE  Won(n, s)' /\ call'[n][s].record = call[n][s].record
  <1>1. call[n][s].phase = "OK" /\ ~call[n][s].stable
    BY DEF Won
  <1>2. ASSUME NEW n1 \in Server, NEW s1 \in Slot, Log(n1, s1)
        PROVE  call'[n][s] = call[n][s]
    <2>1. OtherCallsKeep(n1, s1)
      BY <1>2, LogUnstableCall, LogStableCall, AcceptStableCall, PrepareDoneCall,
         TimeoutCall, AcceptDoneCall DEF Log
    <2>2. CASE n = n1 /\ s = s1
      BY <1>1, <1>2, <2>2 DEF Log, LogUnstable, LogStable, AcceptStable,
         PrepareTimeout, PrepareDone, AcceptTimeout, AcceptDone
    <2>3. CASE n # n1 \/ s # s1
      BY <2>1, <2>3 DEF OtherCallsKeep
    <2> QED
      BY <2>2, <2>3
  <1>3. ASSUME NEW m \in msgs, Receive(m)
        PROVE  call'[n][s] = call[n][s]
    <2>1. CASE DoPrepared(m)
      <3>1. \/ call' = call
            \/ call[m.dst][m.slot].phase = "prepare" /\ OtherCallsKeep(m.dst, m.slot)
        BY <2>1, DoPreparedCall
      <3> QED
        BY <1>1, <3>1 DEF OtherCallsKeep
    <2>2. CASE DoAccepted(m)
      <3>1. \/ call' = call
            \/ call[m.dst][m.slot].phase = "accept" /\ OtherCallsKeep(m.dst, m.slot)
        BY <2>2, DoAcceptedCall
      <3> QED
        BY <1>1, <3>1 DEF OtherCallsKeep
    <2>3. CASE DoPrepare(m) \/ DoAccept(m) \/ DoLearn(m)
      BY <2>3 DEF DoPrepare, DoAccept, DoLearn
    <2> QED
      BY <1>3, <2>1, <2>2, <2>3 DEF Receive
  <1>4. call'[n][s] = call[n][s]
    BY <1>2, <1>3 DEF Next, Reset, vars
  <1> QED
    BY <1>1, <1>4 DEF Won

\* A record that a server told OK has written.
Backed(r, s) == \E n \in Server : Won(n, s) /\ call[n][s].record = r

LEMMA LearnedIsBacked ==
    /\ LearnInv <=> /\ \A m \in msgs : m.type = "LEARN" /\ m.rec \in BeMaster
                           => Backed(m.rec, m.slot)
                    /\ \A a \in Member, s \in Slot :
                          acc[a][s].st = "L" /\ acc[a][s].va \in BeMaster
                              => Backed(acc[a][s].va, s)
    /\ LearnInv' <=> /\ \A m \in msgs' : m.type = "LEARN" /\ m.rec \in BeMaster
                           => Backed(m.rec, m.slot)'
                     /\ \A a \in Member, s \in Slot :
                          acc'[a][s].st = "L" /\ acc'[a][s].va \in BeMaster
                              => Backed(acc[a][s].va, s)'
  BY DEF LearnInv, LeaseBacked, LearnedLease, Backed, Won, BeMaster

LEMMA BackedStays ==
    ASSUME Types, [Next]_vars, NEW r, NEW s \in Slot, Backed(r, s)
    PROVE  \E n \in Server : Won(n, s)' /\ call'[n][s].record = r
  <1>1. PICK n \in Server : Won(n, s) /\ call[n][s].record = r
    BY DEF Backed
  <1> QED
    BY <1>1, WinnerStays

\* A record learned, or sent to a learner, for the first time: the proposer was told OK.
LEMMA AcceptDoneBacked ==
    ASSUME Types, Calls, NEW n \in Server, NEW s \in Slot, AcceptDone(n, s),
           call[n][s].proposal \in BeMaster
    PROVE  /\ Won(n, s)' /\ call'[n][s].record = call[n][s].proposal
           /\ ~call[n][s].stable /\ call[n][s].rl = "OK"
  <1> DEFINE o == call[n][s]
  <1>1. CallFine(o, n) /\ o \in Call
    BY CallsFine, CallFacts DEF Calls
  <1>2. /\ o.phase = "accept" /\ call'[n][s].phase = o.rl
        /\ call'[n][s].stable = o.stable /\ call'[n][s].record = o.record
    BY AcceptDoneCall DEF Keeps
  <1>3. o.proposal.type = "BEMASTER" /\ o.proposal.arg # NoArg
    BY NoArgAssumption DEF BeMaster
  <1>4. ~o.stable
    BY <1>1, <1>2, <1>3 DEF CallFine, Stable, NoRecord
  <1>5. o.rl = "OK"
    BY <1>1, <1>2, <1>3 DEF CallFine, Call
  <1>6. o.proposal = o.record
    BY <1>1, <1>2, <1>4, <1>5 DEF CallFine
  <1> QED
    BY <1>2, <1>4, <1>5, <1>6 DEF Won

\* The messages of a step other than AcceptDone tell learners what is learned already.
LEMMA OldLearn ==
    ASSUME Types, [Next]_vars, NEW m \in msgs', m.type = "LEARN", m \notin msgs
    PROVE  \/ \E n \in Server, s \in Slot :
                 AcceptDone(n, s) /\ m.slot = s /\ m.rec = call[n][s].proposal
           \/ \E a \in Member : /\ m.slot \in Slot /\ acc[a][m.slot].st = "L"
                                /\ m.rec = acc[a][m.slot].va
  <1>1. ASSUME NEW n \in Server, NEW s \in Slot, Log(n, s)
        PROVE  AcceptDone(n, s) /\ m.slot = s /\ m.rec = call[n][s].proposal
    BY <1>1, LogUnstableCall, LogStableCall, AcceptStableCall, PrepareDoneCall,
       TimeoutCall, AcceptDoneCall DEF Log
  <1>2. ASSUME NEW q \in msgs, Receive(q)
        PROVE  \E a \in Member : /\ m.slot \in Slot /\ acc[a][m.slot].st = "L"
                                 /\ m.rec = acc[a][m.slot].va
    <2>1. CASE DoPrepare(q) \/ DoAccept(q)
      <3>1. q.dst \in Member /\ q.slot \in Slot
        <4>1. q \in PrepareMsg \/ q \in AcceptMsg
          BY <2>1, MessageKinds DEF Types, TypeOK, DoPrepare, DoAccept
        <4> QED
          BY <4>1 DEF PrepareMsg, AcceptMsg
      <3>2. Learned(q) /\ acc[q.dst][q.slot].st = "L"
        BY <2>1 DEF DoPrepare, DoAccept, Discard, Consume, Prepared, Accepted
      <3>3. m.slot = q.slot /\ m.rec = acc[q.dst][q.slot].va
        BY <3>2 DEF Learned, Learn
      <3> QED
        BY <3>1, <3>2, <3>3
    <2>2. CASE DoLearn(q) \/ DoPrepared(q) \/ DoAccepted(q)
      BY <2>2 DEF DoLearn, DoPrepared, DoAccepted, Discard, Consume
    <2> QED
      BY <1>2, <2>1, <2>2 DEF Receive
  <1>3. ~UNCHANGED msgs
    OBVIOUS
  <1> QED
    BY <1>1, <1>2, <1>3 DEF Next, Reset, vars

\* An acceptor that has learned after a step had learned, or was told to by a LEARN.
LEMMA NewlyLearned ==
    ASSUME Types, [Next]_vars, NEW a \in Member, NEW s \in Slot, acc'[a][s].st = "L"
    PROVE  \/ acc'[a][s] = acc[a][s]
           \/ \E m \in msgs : /\ DoLearn(m) /\ m.dst = a /\ m.slot = s
                              /\ acc'[a][s].va = m.rec
  <1>1. ASSUME NEW n \in Server, NEW s1 \in Slot, Log(n, s1) PROVE acc' = acc
    BY <1>1, LogUnstableCall, LogStableCall, AcceptStableCall, PrepareDoneCall,
       TimeoutCall, AcceptDoneCall DEF Log
  <1>2. ASSUME NEW m \in msgs, DoPrepare(m) \/ DoAccept(m)
        PROVE  acc'[a][s] = acc[a][s]
    <2>1. \/ acc' = acc
          \/ /\ m.dst \in Member /\ m.slot \in Slot
             /\ acc'[m.dst][m.slot].st = "A" /\ OthersKeep(m)
      <3>1. m.dst \in Member /\ m.slot \in Slot
        <4>1. m \in PrepareMsg \/ m \in AcceptMsg
          BY <1>2, MessageKinds DEF Types, TypeOK, DoPrepare, DoAccept
        <4> QED
          BY <4>1 DEF PrepareMsg, AcceptMsg
      <3>2. acc \in [Member -> [Slot -> Acceptor]] /\ acc[m.dst][m.slot] \in Acceptor
        BY <3>1 DEF Types, TypeOK
      <3>3. \/ acc' = acc
            \/ acc' = [acc EXCEPT ![m.dst][m.slot] =
                         [acc[m.dst][m.slot] EXCEPT !.st = "A", !.np = m.seq]]
            \/ acc' = [acc EXCEPT ![m.dst][m.slot] =
                         [st |-> "A", np |-> m.seq, na |-> m.seq, va |-> m.rec]]
        BY <1>2 DEF DoPrepare, DoAccept, Discard
      <3>4. CASE acc' = [acc EXCEPT ![m.dst][m.slot] =
                           [acc[m.dst][m.slot] EXCEPT !.st = "A", !.np = m.seq]]
        BY <3>1, <3>2, <3>4 DEF OthersKeep, Acceptor
      <3>5. CASE acc' = [acc EXCEPT ![m.dst][m.slot] =
                           [st |-> "A", np |-> m.seq, na |-> m.seq, va |-> m.rec]]
        BY <3>1, <3>2, <3>5 DEF OthersKeep
      <3> QED
        BY <3>1, <3>3, <3>4, <3>5
    <2> QED
      BY <2>1 DEF OthersKeep
  <1>3. ASSUME NEW m \in msgs, DoLearn(m), acc'[a][s] # acc[a][s]
        PROVE  m.dst = a /\ m.slot = s /\ acc'[a][s].va = m.rec
    <2>1. m.dst \in Member /\ m.slot \in Slot
      BY <1>3, MessageKinds DEF Types, TypeOK, DoLearn, LearnMsg
    <2>2. acc \in [Member -> [Slot -> Acceptor]] /\ acc[m.dst][m.slot] \in Acceptor
      BY <2>1 DEF Types, TypeOK
    <2>3. acc' = [acc EXCEPT ![m.dst][m.slot] =
                    [acc[m.dst][m.slot] EXCEPT !.st = "L", !.va = m.rec]]
      BY <1>3 DEF DoLearn, Discard
    <2> QED
      BY <1>3, <2>1, <2>2, <2>3 DEF Acceptor
  <1>4. ASSUME NEW m \in msgs, DoPrepared(m) \/ DoAccepted(m) PROVE acc' = acc
    BY <1>4 DEF DoPrepared, DoAccepted
  <1> QED
    BY <1>1, <1>2, <1>3, <1>4 DEF Next, Receive, Reset, vars

LEMMA NextLearns == Types /\ Binding /\ Calls /\ LearnInv /\ [Next]_vars => LearnInv'
  <1> SUFFICES ASSUME Types, Binding, Calls, LearnInv, [Next]_vars PROVE LearnInv'
    OBVIOUS
  <1>1. /\ \A m \in msgs : m.type = "LEARN" /\ m.rec \in BeMaster => Backed(m.rec, m.slot)
        /\ \A a \in Member, s \in Slot :
              acc[a][s].st = "L" /\ acc[a][s].va \in BeMaster => Backed(acc[a][s].va, s)
    BY LearnedIsBacked
  <1>2. ASSUME NEW r, NEW s \in Slot, Backed(r, s) PROVE Backed(r, s)'
    BY <1>2, BackedStays DEF Backed
  <1>3. \A m \in msgs : m.type = "LEARN" => m.slot \in Slot
    BY MessageKinds DEF Types, TypeOK, LearnMsg
  <1>4. ASSUME NEW m \in msgs', m.type = "LEARN", m.rec \in BeMaster
        PROVE  Backed(m.rec, m.slot)'
    <2>1. CASE m \in msgs
      BY <1>1, <1>2, <1>3, <1>4, <2>1
    <2>2. CASE m \notin msgs
      <3>1. CASE \E n \in Server, s \in Slot :
                   AcceptDone(n, s) /\ m.slot = s /\ m.rec = call[n][s].proposal
        BY <1>4, <3>1, AcceptDoneBacked DEF Backed
      <3>2. CASE \E a \in Member : /\ m.slot \in Slot /\ acc[a][m.slot].st = "L"
                                   /\ m.rec = acc[a][m.slot].va
        BY <1>1, <1>2, <1>4, <3>2
      <3> QED
        BY <1>4, <2>2, <3>1, <3>2, OldLearn
    <2> QED
      BY <2>1, <2>2
  <1>5. ASSUME NEW a \in Member, NEW s \in Slot,
               acc'[a][s].st = "L", acc'[a][s].va \in BeMaster
        PROVE  Backed(acc[a][s].va, s)'
    <2>1. PICK r : r = acc'[a][s].va
      OBVIOUS
    <2>2. ASSUME acc'[a][s] = acc[a][s] PROVE Backed(r, s)
      <3>1. Backed(acc[a][s].va, s)
        BY <1>1, <1>5, <2>2
      <3> QED
        BY <2>1, <2>2, <3>1
    <2>3. ASSUME \E m \in msgs : /\ DoLearn(m) /\ m.dst = a /\ m.slot = s
                                 /\ acc'[a][s].va = m.rec
          PROVE  Backed(r, s)
      <3>1. PICK m \in msgs : DoLearn(m) /\ m.slot = s /\ acc'[a][s].va = m.rec
        BY <2>3
      <3>2. m.type = "LEARN" /\ m.rec = r
        BY <2>1, <3>1 DEF DoLearn
      <3> QED
        BY <1>1, <1>5, <2>1, <3>1, <3>2
    <2>4. Backed(r, s)
      BY <1>5, <2>2, <2>3, NewlyLearned
    <2>5. \E n \in Server : Won(n, s)' /\ call'[n][s].record = r
      BY <2>4, BackedStays
    <2> QED
      BY <2>1, <2>5 DEF Backed
  <1> QED
    BY <1>4, <1>5, LearnedIsBacked

-----------------------------------------------------------------------------
Inv == Types /\ Binding /\ Calls /\ LearnInv

LEMMA InitInv == Init => Inv
  <1> SUFFICES ASSUME Init PROVE Inv
    OBVIOUS
  <1>1. LearnInv
    BY LearnedIsBacked DEF Init, Absent
  <1> QED
    BY <1>1, InitTypes, InitBinding, InitCalls DEF Inv

\* The inductive invariant: what promises, votes and calls say of each other.
THEOREM Invariant == Spec => []IInv
  <1>1. Inv /\ [Next]_vars => Inv'
    BY NextTypes, NextBinding, NextCalls, NextLearns DEF Inv
  <1>2. Inv => IInv
    BY DEF Inv, IInv, Types, Binding, Calls
  <1> QED
    BY <1>1, <1>2, InitInv, PTL DEF Spec

LEMMA SpecInv == Spec => []Inv
  <1>1. Inv /\ [Next]_vars => Inv'
    BY NextTypes, NextBinding, NextCalls, NextLearns DEF Inv
  <1> QED
    BY <1>1, InitInv, PTL DEF Spec

\* At most one server is told that it won the election of a slot, with any number of
\* members and servers and after any number of retries.
THEOREM OneMaster == Spec => []ElectionSafety
  <1>1. Inv => ElectionSafety
    BY WinnersAgree DEF Inv
  <1> QED
    BY <1>1, SpecInv, PTL

\* What a majority has accepted at a regular ballot, every later call adopts.
THEOREM ChosenBindsLater == Spec => []ChosenBinds
  <1>1. Inv => ChosenBinds
    BY ChosenIsReported DEF Inv
  <1> QED
    BY <1>1, SpecInv, PTL

\* No server ever reads a lease that no master holds.
THEOREM LeasesAreBacked == Spec => []LeaseBacked
  <1>1. Inv => LeaseBacked
    BY DEF Inv, LearnInv
  <1> QED
    BY <1>1, SpecInv, PTL
=============================================================================
