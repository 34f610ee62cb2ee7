------------------------ MODULE ResultsBufferProofs ------------------------
(***************************************************************************)
(* Theorems about ResultsBuffer, for any threads, members, slots and       *)
(* sequence numbers.                                                       *)
(***************************************************************************)
EXTENDS ResultsBuffer, FiniteSetTheorems, TLAPS

\* The labels between register_ and the return of the phase.
Inside == {"broadcast", "unregister", "wait", "erase"}
CallerRecord == [pc : Inside \cup {"away"}, slot : Slot \cup {None}, seq : Seq \cup {None},
                 signalled : BOOLEAN]

\* The acceptors whose reply to the call of c has come.
Counted(c) == {a \in Acceptor :
    [slot |-> caller[c].slot, seq |-> caller[c].seq, from |-> a] \in answered \ replies}

\* A thread inside a phase has a slot of its own.
CallerInv ==
    /\ caller \in [Caller -> CallerRecord]
    /\ \A c \in Caller : caller[c].pc \in Inside => caller[c].slot \in Slot /\ caller[c].seq \in Seq
    /\ \A c, d \in Caller :
          caller[c].pc \in Inside /\ caller[d].pc \in Inside /\ caller[c].slot = caller[d].slot
              => c = d

\* An entry or a context is that of a thread inside a phase of the slot.
EntryInv ==
    /\ myresults \in [Slot -> SUBSET [seq : Seq, caller : Caller]]
    /\ mycontexts \in [Slot -> SUBSET [seq : Seq, caller : Caller]]
    /\ \A s \in Slot : \A e \in myresults[s] \cup mycontexts[s] :
          /\ caller[e.caller].pc \in Inside
          /\ caller[e.caller].slot = s /\ caller[e.caller].seq = e.seq

\* A vector holds no more results than there are acceptors that answered.
SizeInv ==
    /\ size \in [Caller -> Nat]
    /\ \A c \in Caller : size[c] <= Cardinality(Acceptor)
    /\ \A c \in Caller : caller[c].pc \in Inside => size[c] <= Cardinality(Counted(c))
    /\ replies \subseteq answered
    /\ answered \subseteq [slot : Slot, seq : Seq, from : Acceptor]

\* The inductive invariant.
BInv == CallerInv /\ EntryInv /\ SizeInv

\* No more replies can have come than there are acceptors.
LEMMA CountedBound ==
    ASSUME NEW c \in Caller
    PROVE  Cardinality(Counted(c)) \in Nat /\ Cardinality(Counted(c)) <= Cardinality(Acceptor)
           /\ IsFiniteSet(Counted(c)) /\ Cardinality(Acceptor) \in Nat
<1>1. Counted(c) \in SUBSET Acceptor
  BY DEF Counted
<1> QED BY <1>1, AcceptorAssumption, FS_Subset, FS_CardinalityType

\* At the start no thread is inside a phase.
LEMMA BInvInit == Init => BInv
<1> SUFFICES ASSUME Init PROVE BInv
  OBVIOUS
<1> USE DEF Init, Away
<1>1. CallerInv
  BY DEF CallerInv, CallerRecord, Inside
<1>2. EntryInv
  BY DEF EntryInv
<1>3. Cardinality(Acceptor) \in Nat
  BY AcceptorAssumption, FS_CardinalityType
<1>4. SizeInv
  BY <1>3 DEF SizeInv, Inside
<1> QED BY <1>1, <1>2, <1>4 DEF BInv

\* register_: the slot is the thread's alone, and the vector is empty.
LEMMA RegisterKeeps ==
    ASSUME BInv, NEW c \in Caller, NEW s \in Slot, NEW q \in Seq, Register(c, s, q)
    PROVE  BInv'
<1> DEFINE r == [pc |-> "broadcast", slot |-> s, seq |-> q, signalled |-> FALSE]
           e == [seq |-> q, caller |-> c]
<1>1. /\ caller[c].pc = "away" /\ \A d \in Caller : caller[d].slot # s
      /\ caller' = [caller EXCEPT ![c] = r]
      /\ myresults' = [myresults EXCEPT ![s] = {e}]
      /\ size' = [size EXCEPT ![c] = 0]
      /\ UNCHANGED <<mycontexts, answered, replies>>
  BY DEF Register, Is
<1>2. r \in CallerRecord /\ r.pc \in Inside /\ r.slot = s /\ r.seq = q
  BY DEF CallerRecord, Inside
<1>3. caller \in [Caller -> CallerRecord]
  BY DEF BInv, CallerInv
<1>4. caller' \in [Caller -> CallerRecord] /\ caller'[c] = r
      /\ \A d \in Caller : d # c => caller'[d] = caller[d]
  BY <1>1, <1>2, <1>3
<1>5. e \in [seq : Seq, caller : Caller] /\ e.caller = c /\ e.seq = q
  OBVIOUS
<1> HIDE DEF r, e
<1>6. CallerInv'
  BY <1>1, <1>2, <1>4 DEF BInv, CallerInv
<1>7. EntryInv'
  <2>1. myresults' \in [Slot -> SUBSET [seq : Seq, caller : Caller]]
        /\ mycontexts' \in [Slot -> SUBSET [seq : Seq, caller : Caller]]
    BY <1>1, <1>5 DEF BInv, EntryInv
  <2>2. ASSUME NEW u \in Slot, NEW x \in myresults'[u] \cup mycontexts'[u]
        PROVE  /\ caller'[x.caller].pc \in Inside
               /\ caller'[x.caller].slot = u /\ caller'[x.caller].seq = x.seq
    <3>1. CASE u = s /\ x \in myresults'[u]
      BY <1>1, <1>2, <1>4, <1>5, <3>1 DEF BInv, EntryInv
    <3>2. CASE x \in mycontexts[u] \/ u # s
      <4>1. x \in myresults[u] \cup mycontexts[u]
        BY <1>1, <2>2, <3>2 DEF BInv, EntryInv
      <4>2. x.caller \in Caller /\ caller[x.caller].pc \in Inside
            /\ caller[x.caller].slot = u /\ caller[x.caller].seq = x.seq
        BY <4>1 DEF BInv, EntryInv
      <4>3. x.caller # c
        BY <1>1, <4>2 DEF Inside
      <4> QED BY <1>4, <4>2, <4>3
    <3> QED BY <1>1, <2>2, <3>1, <3>2
  <2> QED BY <2>1, <2>2 DEF EntryInv
<1>8. SizeInv'
  <2>1. \A d \in Caller : d # c => Counted(d)' = Counted(d)
    BY <1>1, <1>4 DEF Counted
  <2>2. IsFiniteSet(Counted(c)')
    <3>1. Counted(c)' \in SUBSET Acceptor
      BY DEF Counted
    <3> QED BY <3>1, AcceptorAssumption, FS_Subset
  <2>3. Cardinality(Counted(c)') \in Nat
    BY <2>2, FS_CardinalityType
  <2>4. Cardinality(Acceptor) \in Nat
    BY AcceptorAssumption, FS_CardinalityType
  <2>5. size' \in [Caller -> Nat] /\ size'[c] = 0
        /\ \A d \in Caller : d # c => size'[d] = size[d]
    BY <1>1 DEF BInv, SizeInv
  <2>6. \A d \in Caller : caller'[d].pc \in Inside => size'[d] <= Cardinality(Counted(d)')
    BY <1>4, <2>1, <2>3, <2>5 DEF BInv, SizeInv
  <2>7. \A d \in Caller : size'[d] <= Cardinality(Acceptor)
    BY <2>4, <2>5 DEF BInv, SizeInv
  <2> QED BY <1>1, <2>5, <2>6, <2>7 DEF BInv, SizeInv
<1> QED BY <1>6, <1>7, <1>8 DEF BInv

\* A thread moves on inside its phase.
LEMMA MovesOn ==
    ASSUME BInv, NEW c \in Caller, caller[c].pc \in Inside,
           caller' \in [Caller -> CallerRecord], caller'[c].pc \in Inside,
           caller'[c].slot = caller[c].slot, caller'[c].seq = caller[c].seq,
           \A d \in Caller : d # c => caller'[d] = caller[d],
           size' = size, answered' \ replies' = answered \ replies
    PROVE  /\ CallerInv'
           /\ \A d \in Caller : Counted(d)' = Counted(d)
           /\ \A d \in Caller : size'[d] <= Cardinality(Acceptor)
           /\ \A d \in Caller : caller'[d].pc \in Inside => size'[d] <= Cardinality(Counted(d)')
<1>1. CallerInv'
  BY DEF BInv, CallerInv
<1>2. \A d \in Caller : Counted(d)' = Counted(d)
  BY DEF Counted
<1> QED BY <1>1, <1>2 DEF BInv, SizeInv

\* The requests go out: replies may come from now on.
LEMMA BroadcastKeeps ==
    ASSUME BInv, NEW c \in Caller, Broadcast(c) PROVE BInv'
<1>1. caller[c].pc = "broadcast" /\ caller[c].slot \in Slot /\ caller[c].seq \in Seq
      /\ UNCHANGED <<myresults, mycontexts, size>>
  BY DEF Broadcast, Is, BInv, CallerInv, Inside
<1>2. PICK willing \in SUBSET Acceptor :
        LET sent == {[slot |-> caller[c].slot, seq |-> caller[c].seq, from |-> a]
                          : a \in willing} \ answered
        IN  answered' = answered \cup sent /\ replies' = replies \cup sent
  BY DEF Broadcast
<1> DEFINE sent == {[slot |-> caller[c].slot, seq |-> caller[c].seq, from |-> a]
                          : a \in willing} \ answered
<1>3. sent \subseteq [slot : Slot, seq : Seq, from : Acceptor] /\ sent \cap answered = {}
  BY <1>1
<1>4. answered' = answered \cup sent /\ replies' = replies \cup sent
  BY <1>2
<1>5. caller' = [caller EXCEPT ![c].pc = "unregister"]
  BY DEF Broadcast
<1> HIDE DEF sent
<1>6. caller' \in [Caller -> CallerRecord] /\ caller'[c].pc \in Inside
      /\ caller'[c].slot = caller[c].slot /\ caller'[c].seq = caller[c].seq
      /\ \A d \in Caller : d # c => caller'[d] = caller[d]
  BY <1>5 DEF BInv, CallerInv, CallerRecord, Inside
<1>7. answered' \ replies' = answered \ replies
  BY <1>3, <1>4
<1>8. CallerInv' /\ (\A d \in Caller : size'[d] <= Cardinality(Acceptor))
      /\ \A d \in Caller : caller'[d].pc \in Inside => size'[d] <= Cardinality(Counted(d)')
  BY <1>1, <1>6, <1>7, MovesOn DEF Inside
<1>9. EntryInv'
  BY <1>1, <1>6 DEF BInv, EntryInv
<1>10. SizeInv'
  BY <1>1, <1>3, <1>4, <1>8 DEF BInv, SizeInv
<1> QED BY <1>8, <1>9, <1>10 DEF BInv

\* unregister, up to its end.
LEMMA WaitingKeeps ==
    ASSUME BInv, NEW c \in Caller, Unregister(c) \/ Wake(c) \/ TimedOut(c) PROVE BInv'
<1>1. /\ caller[c].pc \in Inside /\ caller[c].slot \in Slot /\ caller[c].seq \in Seq
      /\ UNCHANGED <<myresults, size, answered, replies>>
  BY DEF Unregister, Wake, TimedOut, Is, BInv, CallerInv, Inside
<1>2. caller' \in [Caller -> CallerRecord] /\ caller'[c].pc \in Inside
      /\ caller'[c].slot = caller[c].slot /\ caller'[c].seq = caller[c].seq
      /\ \A d \in Caller : d # c => caller'[d] = caller[d]
  <2> DEFINE p == IF size[c] < Majority THEN "wait" ELSE "erase"
  <2>1. p \in Inside /\ "erase" \in Inside
    BY DEF Inside
  <2> HIDE DEF p
  <2>2. \/ caller' = [caller EXCEPT ![c].pc = p]
        \/ caller' = [caller EXCEPT ![c].signalled = FALSE, ![c].pc = p]
        \/ caller' = [caller EXCEPT ![c].pc = "erase"]
    BY DEF Unregister, Wake, TimedOut, p
  <2>3. caller \in [Caller -> CallerRecord] /\ caller[c] \in CallerRecord
    BY DEF BInv, CallerInv
  <2>4. CASE caller' = [caller EXCEPT ![c].pc = p]
    BY <2>1, <2>3, <2>4 DEF CallerRecord
  <2>5. CASE caller' = [caller EXCEPT ![c].signalled = FALSE, ![c].pc = p]
    BY <2>1, <2>3, <2>5 DEF CallerRecord
  <2>6. CASE caller' = [caller EXCEPT ![c].pc = "erase"]
    BY <2>1, <2>3, <2>6 DEF CallerRecord
  <2> QED BY <2>2, <2>4, <2>5, <2>6
<1>3. CallerInv' /\ (\A d \in Caller : size'[d] <= Cardinality(Acceptor))
      /\ \A d \in Caller : caller'[d].pc \in Inside => size'[d] <= Cardinality(Counted(d)')
  BY <1>1, <1>2, MovesOn
<1>4. EntryInv'
  <2>1. CASE mycontexts' = mycontexts
    BY <1>1, <1>2, <2>1 DEF BInv, EntryInv
  <2>2. CASE Unregister(c)
    <3>1. mycontexts' = [mycontexts EXCEPT ![caller[c].slot] = @ \cup {Entry(c)}]
      BY <2>2 DEF Unregister
    <3>2. Entry(c) \in [seq : Seq, caller : Caller] /\ Entry(c).caller = c
          /\ Entry(c).seq = caller[c].seq
      BY <1>1 DEF Entry
    <3>3. mycontexts' \in [Slot -> SUBSET [seq : Seq, caller : Caller]]
          /\ \A s \in Slot : \A e \in mycontexts'[s] :
                e \in mycontexts[s] \/ (s = caller[c].slot /\ e = Entry(c))
      BY <1>1, <3>1, <3>2 DEF BInv, EntryInv
    <3> QED BY <1>1, <1>2, <3>2, <3>3 DEF BInv, EntryInv
  <2> QED BY <2>1, <2>2 DEF Wake, TimedOut
<1>5. SizeInv'
  BY <1>1, <1>3 DEF BInv, SizeInv
<1> QED BY <1>3, <1>4, <1>5 DEF BInv

\* The end of unregister: entry and context go before the frame does.
LEMMA EraseKeeps ==
    ASSUME BInv, NEW c \in Caller, Erase(c) PROVE BInv'
<1>1. /\ caller[c].pc \in Inside /\ caller[c].slot \in Slot
      /\ caller' = [caller EXCEPT ![c] = Away]
      /\ myresults' = [myresults EXCEPT ![caller[c].slot] = {}]
      /\ mycontexts' = [mycontexts EXCEPT ![caller[c].slot] = {}]
      /\ UNCHANGED <<size, answered, replies>>
  BY DEF Erase, Is, BInv, CallerInv, Inside
<1>2. Away \in CallerRecord /\ Away.pc \notin Inside
  BY DEF Away, CallerRecord, Inside
<1>3. caller' \in [Caller -> CallerRecord] /\ caller'[c] = Away
      /\ \A d \in Caller : d # c => caller'[d] = caller[d]
  BY <1>1, <1>2 DEF BInv, CallerInv
<1>4. CallerInv'
  BY <1>2, <1>3 DEF BInv, CallerInv
<1>5. EntryInv'
  <2>1. myresults' \in [Slot -> SUBSET [seq : Seq, caller : Caller]]
        /\ mycontexts' \in [Slot -> SUBSET [seq : Seq, caller : Caller]]
    BY <1>1 DEF BInv, EntryInv
  <2>2. ASSUME NEW u \in Slot, NEW x \in myresults'[u] \cup mycontexts'[u]
        PROVE  /\ caller'[x.caller].pc \in Inside
               /\ caller'[x.caller].slot = u /\ caller'[x.caller].seq = x.seq
    <3>1. u # caller[c].slot /\ x \in myresults[u] \cup mycontexts[u]
      BY <1>1, <2>2 DEF BInv, EntryInv
    <3>2. x.caller \in Caller /\ caller[x.caller].pc \in Inside
          /\ caller[x.caller].slot = u /\ caller[x.caller].seq = x.seq
      BY <3>1 DEF BInv, EntryInv
    <3> QED BY <1>3, <3>1, <3>2
  <2> QED BY <2>1, <2>2 DEF EntryInv
<1>6. SizeInv'
  <2>1. \A d \in Caller : d # c => Counted(d)' = Counted(d)
    BY <1>1, <1>3 DEF Counted
  <2> QED BY <1>1, <1>2, <1>3, <2>1 DEF BInv, SizeInv
<1> QED BY <1>4, <1>5, <1>6 DEF BInv

\* A reply that is taken in: the owner of the entry is the call it answers.
LEMMA FillKeeps ==
    ASSUME BInv, NEW m \in replies, Fill(m) PROVE BInv'
<1> DEFINE entries == OfSeq(myresults[m.slot], m.seq)
<1>1. /\ m \in answered /\ m.slot \in Slot /\ m.seq \in Seq /\ m.from \in Acceptor
      /\ m = [slot |-> m.slot, seq |-> m.seq, from |-> m.from]
      /\ replies' = replies \ {m} /\ UNCHANGED <<myresults, mycontexts, answered>>
  BY DEF Fill, BInv, SizeInv
<1>2. CASE entries = {}
  <2>1. UNCHANGED <<size, caller>>
    BY <1>2 DEF Fill
  <2>2. \A d \in Caller : Cardinality(Counted(d)) <= Cardinality(Counted(d)')
                          /\ Cardinality(Counted(d)') \in Nat
    <3> TAKE d \in Caller
    <3>1. Counted(d)' \in SUBSET Acceptor /\ Counted(d) \in SUBSET Counted(d)'
      BY <1>1, <2>1 DEF Counted
    <3>2. IsFiniteSet(Counted(d)')
      BY <3>1, AcceptorAssumption, FS_Subset
    <3> QED BY <3>1, <3>2, FS_Subset, FS_CardinalityType
  <2>3. CallerInv' /\ EntryInv'
    BY <1>1, <2>1 DEF BInv, CallerInv, EntryInv
  <2>4. \A d \in Caller : caller[d].pc \in Inside => size[d] <= Cardinality(Counted(d)')
    <3> TAKE d \in Caller
    <3>1. size[d] \in Nat /\ Cardinality(Counted(d)) \in Nat
      BY CountedBound DEF BInv, SizeInv
    <3> QED BY <2>2, <3>1 DEF BInv, SizeInv
  <2>5. SizeInv'
    BY <1>1, <2>1, <2>4 DEF BInv, SizeInv
  <2> QED BY <2>3, <2>5 DEF BInv
<1>3. CASE entries # {}
  <2>0. PICK owner : owner = (CHOOSE e \in entries : TRUE).caller
    OBVIOUS
  <2> DEFINE b(d) == caller[d].signalled \/
                        /\ \E x \in OfSeq(mycontexts[m.slot], m.seq) : x.caller = d
                        /\ size'[owner] >= Majority
                        /\ Is(d, "wait")
  <2>1. /\ size' = [size EXCEPT ![owner] = @ + 1]
        /\ caller' = [d \in Caller |-> [caller[d] EXCEPT !.signalled = b(d)]]
    BY <1>3, <2>0 DEF Fill
  <2>2. \A d \in Caller : b(d) \in BOOLEAN
    BY DEF BInv, CallerInv, CallerRecord
  <2>3. (CHOOSE e \in entries : TRUE) \in entries
    BY <1>3
  <2>4. owner \in Caller /\ caller[owner].pc \in Inside
        /\ caller[owner].slot = m.slot /\ caller[owner].seq = m.seq
    BY <1>1, <2>0, <2>3 DEF OfSeq, BInv, EntryInv
  <2> HIDE DEF b
  <2>5. caller' \in [Caller -> CallerRecord]
        /\ \A d \in Caller : caller'[d].pc = caller[d].pc /\ caller'[d].slot = caller[d].slot
                             /\ caller'[d].seq = caller[d].seq
    BY <2>1, <2>2 DEF BInv, CallerInv, CallerRecord
  <2>6. CallerInv'
    BY <2>5 DEF BInv, CallerInv
  <2>7. EntryInv'
    BY <1>1, <2>5 DEF BInv, EntryInv
  <2>8. ASSUME NEW d \in Caller
        PROVE  /\ Counted(d) \in SUBSET Counted(d)'
               /\ IsFiniteSet(Counted(d)')
               /\ Cardinality(Counted(d)') <= Cardinality(Acceptor)
               /\ Cardinality(Counted(d)) <= Cardinality(Counted(d)')
               /\ Cardinality(Counted(d)') \in Nat
    <3>1. Counted(d)' \in SUBSET Acceptor /\ Counted(d) \in SUBSET Counted(d)'
      BY <1>1, <2>5 DEF Counted
    <3>2. IsFiniteSet(Counted(d)') /\ Cardinality(Counted(d)') <= Cardinality(Acceptor)
      BY <3>1, AcceptorAssumption, FS_Subset
    <3> QED BY <3>1, <3>2, FS_Subset, FS_CardinalityType
  <2>9. size[owner] + 1 <= Cardinality(Counted(owner)')
    <3>1. m.from \notin Counted(owner) /\ m.from \in Counted(owner)'
      BY <1>1, <2>4, <2>5 DEF Counted
    <3>2. Counted(owner) \cup {m.from} \in SUBSET Counted(owner)'
      BY <2>4, <2>8, <3>1
    <3>3. Cardinality(Counted(owner) \cup {m.from}) = Cardinality(Counted(owner)) + 1
      BY <2>4, <3>1, CountedBound, FS_AddElement
    <3>4. Cardinality(Counted(owner) \cup {m.from}) <= Cardinality(Counted(owner)')
      BY <2>4, <2>8, <3>2, FS_Subset
    <3>5. size[owner] \in Nat /\ Cardinality(Counted(owner)) \in Nat
          /\ size[owner] <= Cardinality(Counted(owner)) /\ Cardinality(Counted(owner)') \in Nat
      BY <2>4, <2>8, CountedBound DEF BInv, SizeInv
    <3> QED BY <3>3, <3>4, <3>5
  <2>10. size' \in [Caller -> Nat] /\ size'[owner] = size[owner] + 1
         /\ \A d \in Caller : d # owner => size'[d] = size[d]
    BY <2>1, <2>4 DEF BInv, SizeInv
  <2>11. ASSUME NEW d \in Caller
         PROVE  /\ size'[d] <= Cardinality(Acceptor)
                /\ caller'[d].pc \in Inside => size'[d] <= Cardinality(Counted(d)')
    <3>1. size[d] \in Nat /\ Cardinality(Counted(d)) \in Nat /\ Cardinality(Acceptor) \in Nat
      BY CountedBound DEF BInv, SizeInv
    <3>2. CASE d = owner
      BY <2>8, <2>9, <2>10, <3>1, <3>2
    <3>3. CASE d # owner
      BY <2>5, <2>8, <2>10, <3>1, <3>3 DEF BInv, SizeInv
    <3> QED BY <3>2, <3>3
  <2>12. SizeInv'
    BY <1>1, <2>10, <2>11 DEF BInv, SizeInv
  <2> QED BY <2>6, <2>7, <2>12 DEF BInv
<1> QED BY <1>2, <1>3

\* Every step keeps the invariant.
LEMMA BInvNext == BInv /\ [Next]_vars => BInv'
<1> SUFFICES ASSUME BInv, [Next]_vars PROVE BInv'
  OBVIOUS
<1>1. CASE \E c \in Caller : Phase(c)
  BY <1>1, RegisterKeeps, BroadcastKeeps, WaitingKeeps, EraseKeeps DEF Phase
<1>2. CASE \E m \in replies : Fill(m)
  BY <1>2, FillKeeps
<1>3. CASE UNCHANGED vars
  <2>1. \A c \in Caller : Counted(c)' = Counted(c)
    BY <1>3 DEF Counted, vars
  <2> QED BY <1>3, <2>1 DEF vars, BInv, CallerInv, EntryInv, SizeInv
<1> QED BY <1>1, <1>2, <1>3 DEF Next

\* A vector never holds more results than there are acceptors, although fill counts
\* pushes and not senders, and a seq_num may be registered again (results_buffer::fill).
THEOREM BufferTypes == Spec => []TypeOK
<1>1. BInv => TypeOK
  <2> SUFFICES ASSUME BInv PROVE TypeOK
    OBVIOUS
  <2>1. size \in [Caller -> 0 .. Cardinality(Acceptor)]
    <3>1. Cardinality(Acceptor) \in Nat
      BY AcceptorAssumption, FS_CardinalityType
    <3> QED BY <3>1 DEF BInv, SizeInv
  <2> QED BY <2>1 DEF BInv, EntryInv, SizeInv, TypeOK
<1> QED BY <1>1, BInvInit, BInvNext, PTL DEF Spec

\* The vector and the condition variable that fill reaches are on the stack of a call
\* that has not returned (results_buffer::fill, unregister).
THEOREM PointersAlive == Spec => []NoDanglingPointer
<1>1. BInv => NoDanglingPointer
  <2> SUFFICES ASSUME BInv, NEW s \in Slot
               PROVE  /\ \A e \in myresults[s] \cup mycontexts[s] :
                            caller[e.caller].slot = s /\ caller[e.caller].seq = e.seq
                      /\ Cardinality(myresults[s]) <= 1
    BY DEF NoDanglingPointer
  <2>1. \A e, f \in myresults[s] : e = f
    <3> TAKE e, f \in myresults[s]
    <3>1. e \in [seq : Seq, caller : Caller] /\ f \in [seq : Seq, caller : Caller]
      BY DEF BInv, EntryInv
    <3>2. e.caller = f.caller /\ e.seq = f.seq
      BY <3>1 DEF BInv, EntryInv, CallerInv
    <3> QED BY <3>1, <3>2
  <2>2. \A e \in myresults[s] \cup mycontexts[s] :
           caller[e.caller].slot = s /\ caller[e.caller].seq = e.seq
    BY DEF BInv, EntryInv
  <2>3. Cardinality(myresults[s]) <= 1
    <3>1. CASE myresults[s] = {}
      BY <3>1, FS_EmptySet
    <3>2. CASE myresults[s] # {}
      <4>1. PICK e \in myresults[s] : myresults[s] = {e}
        BY <2>1, <3>2
      <4>2. Cardinality(myresults[s]) = 1
        BY <4>1, FS_Singleton
      <4> QED BY <4>2
    <3> QED BY <3>1, <3>2
  <2> QED BY <2>2, <2>3
<1> QED BY <1>1, BInvInit, BInvNext, PTL DEF Spec

\* A thread that waits has its context in the buffer, and its signal once its vector is full
\* enough.
WakeInv ==
    \A c \in Caller : Is(c, "wait") =>
        /\ Entry(c) \in mycontexts[caller[c].slot]
        /\ size[c] >= Majority => caller[c].signalled

\* unregister tests the vector after it has put its context where fill looks for it, and
\* nobody else takes it away.
LEMMA NextWake == ASSUME BInv, WakeInv, [Next]_vars PROVE WakeInv'
<1>0. /\ caller \in [Caller -> CallerRecord] /\ size \in [Caller -> Nat] /\ Majority \in Nat
      /\ mycontexts \in [Slot -> SUBSET [seq : Seq, caller : Caller]]
      /\ \A c \in Caller : Is(c, "wait") => caller[c].slot \in Slot
  BY MajorityAssumption DEF BInv, CallerInv, EntryInv, SizeInv, Is, Inside
<1>1. ASSUME NEW d \in Caller, caller'[d] = caller[d], size'[d] = size[d],
             Is(d, "wait") => mycontexts[caller[d].slot] \subseteq mycontexts'[caller[d].slot],
             Is(d, "wait")'
      PROVE  /\ (Entry(d) \in mycontexts[caller[d].slot])'
             /\ (size[d] >= Majority => caller[d].signalled)'
  BY <1>1 DEF WakeInv, Entry, Is
<1>2. CASE UNCHANGED vars
  BY <1>1, <1>2 DEF vars, WakeInv
<1>3. ASSUME NEW c \in Caller, Phase(c) PROVE WakeInv'
  <2>1. CASE Unregister(c)
    <3>1. /\ Is(c, "unregister") /\ caller[c].slot \in Slot
          /\ mycontexts' = [mycontexts EXCEPT ![caller[c].slot] = @ \cup {Entry(c)}]
          /\ caller' = [caller EXCEPT ![c].pc = IF size[c] < Majority THEN "wait" ELSE "erase"]
          /\ size' = size
      BY <2>1 DEF Unregister, BInv, CallerInv, Is, Inside
    <3>2. /\ caller'[c].slot = caller[c].slot /\ Entry(c)' = Entry(c)
          /\ caller'[c].pc = "wait" => size[c] < Majority
      BY <1>0, <3>1 DEF CallerRecord, Entry
    <3>3. Is(c, "wait")' => /\ (Entry(c) \in mycontexts[caller[c].slot])'
                            /\ (size[c] >= Majority => caller[c].signalled)'
      BY <1>0, <3>1, <3>2 DEF Is
    <3>4. \A d \in Caller : d # c =>
             /\ caller'[d] = caller[d]
             /\ Is(d, "wait") => mycontexts[caller[d].slot] \subseteq mycontexts'[caller[d].slot]
      BY <1>0, <3>1
    <3> QED BY <1>1, <3>1, <3>3, <3>4 DEF WakeInv
  <2>2. CASE Wake(c)
    <3>1. /\ caller' = [caller EXCEPT ![c].signalled = FALSE,
                          ![c].pc = IF size[c] < Majority THEN "wait" ELSE "erase"]
          /\ size' = size /\ mycontexts' = mycontexts /\ Is(c, "wait")
      BY <2>2 DEF Wake
    <3>2. /\ caller'[c].slot = caller[c].slot /\ Entry(c)' = Entry(c)
          /\ caller'[c].pc = "wait" => size[c] < Majority
      BY <1>0, <3>1 DEF CallerRecord, Entry
    <3>3. Is(c, "wait")' => /\ (Entry(c) \in mycontexts[caller[c].slot])'
                            /\ (size[c] >= Majority => caller[c].signalled)'
      BY <1>0, <3>1, <3>2 DEF Is, WakeInv
    <3>4. \A d \in Caller : d # c => caller'[d] = caller[d]
      BY <1>0, <3>1
    <3> QED BY <1>1, <3>1, <3>3, <3>4 DEF WakeInv
  <2>3. CASE Erase(c)
    <3>1. /\ Is(c, "erase") /\ caller' = [caller EXCEPT ![c] = Away] /\ size' = size
          /\ mycontexts' = [mycontexts EXCEPT ![caller[c].slot] = {}]
      BY <2>3 DEF Erase
    <3>2. \A d \in Caller : d # c => caller'[d] = caller[d]
      BY <1>0, <3>1
    <3>3. ~Is(c, "wait")'
      BY <1>0, <3>1 DEF Is, Away
    <3>4. \A d \in Caller : d # c /\ Is(d, "wait") => caller[d].slot # caller[c].slot
      BY <3>1 DEF BInv, CallerInv, Is, Inside
    <3>5. \A d \in Caller : d # c /\ Is(d, "wait") =>
             mycontexts[caller[d].slot] \subseteq mycontexts'[caller[d].slot]
      BY <1>0, <3>1, <3>4
    <3> QED BY <1>1, <3>1, <3>2, <3>3, <3>5 DEF WakeInv
  <2>4. CASE TimedOut(c) \/ Broadcast(c) \/ \E s \in Slot, q \in Seq : Register(c, s, q)
    <3>1. /\ \A d \in Caller : d # c => caller'[d] = caller[d] /\ size'[d] = size[d]
          /\ mycontexts' = mycontexts
      BY <1>0, <2>4 DEF TimedOut, Broadcast, Register
    <3>2. \/ \E p \in {"erase", "unregister"} : caller' = [caller EXCEPT ![c].pc = p]
          \/ \E r : r.pc = "broadcast" /\ caller' = [caller EXCEPT ![c] = r]
      BY <2>4 DEF TimedOut, Broadcast, Register
    <3>3. ~Is(c, "wait")'
      BY <1>0, <3>2 DEF Is, CallerRecord
    <3> QED BY <1>1, <3>1, <3>3 DEF WakeInv
  <2> QED BY <1>3, <2>1, <2>2, <2>3, <2>4 DEF Phase
<1>4. ASSUME NEW m \in replies, Fill(m) PROVE WakeInv'
  <2> DEFINE entries == OfSeq(myresults[m.slot], m.seq)
             contexts == OfSeq(mycontexts[m.slot], m.seq)
  <2>1. mycontexts' = mycontexts
    BY <1>4 DEF Fill
  <2>2. CASE entries = {}
    BY <1>1, <1>4, <2>1, <2>2 DEF Fill, WakeInv
  <2>3. CASE entries # {}
    <3>0. PICK owner : owner = (CHOOSE e \in entries : TRUE).caller
      OBVIOUS
    <3> DEFINE b(d) == caller[d].signalled \/ /\ \E x \in contexts : x.caller = d
                                              /\ size'[owner] >= Majority
                                              /\ Is(d, "wait")
    <3>1. /\ size' = [size EXCEPT ![owner] = @ + 1]
          /\ caller' = [d \in Caller |-> [caller[d] EXCEPT !.signalled = b(d)]]
      BY <1>4, <2>3, <3>0 DEF Fill
    <3>2. \A d \in Caller : b(d) \in BOOLEAN
      BY <1>0 DEF CallerRecord
    <3>3. owner \in Caller /\ caller[owner].slot = m.slot /\ caller[owner].seq = m.seq
      <4>1. m.slot \in Slot /\ (CHOOSE e \in entries : TRUE) \in entries
        BY <2>3 DEF BInv, SizeInv
      <4> QED BY <3>0, <4>1 DEF OfSeq, BInv, EntryInv
    <3>4. ASSUME NEW d \in Caller, Is(d, "wait")'
          PROVE  /\ (Entry(d) \in mycontexts[caller[d].slot])'
                 /\ (size[d] >= Majority => caller[d].signalled)'
      <4>1. /\ Is(d, "wait") /\ Entry(d)' = Entry(d) /\ caller'[d].slot = caller[d].slot
        <5> HIDE DEF b
        <5> QED BY <1>0, <3>1, <3>2, <3>4 DEF CallerRecord, Entry, Is
      <4>2. caller'[d].signalled = b(d)
        <5> HIDE DEF b
        <5> QED BY <1>0, <3>1, <3>2 DEF CallerRecord
      <4>3. Entry(d) \in mycontexts[caller[d].slot]
        BY <4>1 DEF WakeInv
      <4>4. CASE d = owner
        <5>1. Entry(d) \in contexts /\ Entry(d).caller = d
          BY <3>3, <4>3, <4>4 DEF OfSeq, Entry
        <5>2. size'[d] >= Majority => b(d)
          BY <4>1, <4>4, <5>1
        <5> HIDE DEF b
        <5> QED BY <2>1, <4>1, <4>2, <4>3, <5>2
      <4>5. CASE d # owner
        <5>1. size'[d] = size[d]
          BY <1>0, <3>1, <4>5
        <5>2. size'[d] >= Majority => b(d)
          BY <4>1, <5>1 DEF WakeInv
        <5> HIDE DEF b
        <5> QED BY <2>1, <4>1, <4>2, <4>3, <5>2
      <4> QED BY <4>4, <4>5
    <3> QED BY <3>4 DEF WakeInv
  <2> QED BY <2>2, <2>3
<1> QED BY <1>2, <1>3, <1>4 DEF Next

\* A call whose majority has come while it waits, or before it did, has been signalled: what
\* is left of a call's return is the scheduling of its thread (results_buffer::fill and
\* unregister).
THEOREM NoneMissed == Spec => []NoMissedWakeup
<1>1. Init => WakeInv
  BY DEF Init, WakeInv, Away, Is
<1>2. WakeInv => NoMissedWakeup
  BY DEF WakeInv, NoMissedWakeup
<1> QED BY <1>1, <1>2, BInvInit, BInvNext, NextWake, PTL DEF Spec
=============================================================================
