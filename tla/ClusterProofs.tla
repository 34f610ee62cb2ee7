---------------------------- MODULE ClusterProofs ----------------------------
(***************************************************************************)
(* Theorems about Cluster, for any servers, slots and window: until one of *)
(* the circumstances fails that the code leans on, one record is decided   *)
(* per slot, and every server reads what was acknowledged behind no hole.  *)
(***************************************************************************)
EXTENDS ClusterInvariant, FiniteSetTheorems, WellFoundedInduction, TLAPS

-----------------------------------------------------------------------------
\* A term's record, and what it is not.
LEMMA UpdateType ==
    ASSUME NEW n \in Server
    PROVE  /\ Update(n).first = first[n]
           /\ first[n] \in Slot => Update(n) \in StableRecord
BY DEF Update, StableRecord

LEMMA EntryFields ==
    ASSUME NEW s, NEW r
    PROVE  /\ Entry(s, r).slot = s /\ Entry(s, r).rec = r
           /\ s \in Slot /\ r \in StableRecord
              => Entry(s, r) \in [slot : Slot, rec : StableRecord]
BY DEF Entry

\* A step after which the code is still on firm ground has broken nothing.
LEMMA FailsNot ==
    ASSUME Sound'
    PROVE  \A x, y, z, p, q, r :
              broken' = broken \cup Fails(x, p) \cup Fails(y, q) \cup Fails(z, r)
              => ~p /\ ~q /\ ~r
BY Zenon DEF Sound, Fails

\* move_head ends where no mark follows, and all that it passes is marked.
LEMMA MovedHead ==
    ASSUME NEW head \in Nat, NEW marked, marked \subseteq Slot
    PROVE  /\ Moved(head, marked) \in Nat /\ Moved(head, marked) >= head
           /\ head <= MaxSlot => Moved(head, marked) <= MaxSlot
           /\ \A s \in head + 1 .. Moved(head, marked) : s \in marked
<1> DEFINE less == {ss \in Nat \X Nat : ss[1] < ss[2]}
           last == head + MaxSlot
           ends == {h \in head .. last : h + 1 \notin marked}
<1>1. ends \subseteq Nat /\ last \in ends
  BY SizeAssumption DEF Slot
<1>2. PICK h \in ends : \A g \in ends : ~(<<g, h>> \in less)
  <2>1. IsWellFoundedOn(less, Nat)
    BY NatLessThanWellFounded, Zenon DEF OpToRel
  <2> HIDE DEF less, ends
  <2> QED BY <1>1, <2>1, WFMin
<1>3. \A g \in ends : h <= g
  <2> TAKE g \in ends
  <2>1. g \in Nat /\ h \in Nat
    BY <1>1
  <2>2. g < h => <<g, h>> \in less
    BY <2>1
  <2> HIDE DEF less
  <2> QED BY <1>2, <2>1, <2>2
<1>4. ASSUME NEW s \in head + 1 .. h PROVE s \in marked
  <2>1. s - 1 \in head .. last /\ ~(h <= s - 1)
    BY <1>1, SizeAssumption
  <2>2. s - 1 \notin ends
    BY <1>3, <2>1
  <2>3. (s - 1) + 1 \in marked
    BY <2>1, <2>2
  <2> QED BY <2>3
<1>5. h \in head .. last /\ h + 1 \notin marked
  OBVIOUS
<1> DEFINE m == Moved(head, marked)
<1>6. m \in head .. last /\ \A s \in head + 1 .. m : s \in marked
  <2> HIDE DEF ends
  <2> QED BY <1>4, <1>5 DEF Moved
<1>7. m = head \/ m \in head + 1 .. m
  BY <1>6, SizeAssumption
<1>8. m = head \/ m \in Slot
  BY <1>6, <1>7
<1> HIDE DEF m
<1>9. QED BY <1>6, <1>8, SizeAssumption DEF m, Slot

-----------------------------------------------------------------------------
\* A master's head stays before every later election: it passes only what its own term
\* has decided.
LEMMA Below ==
    ASSUME LInv, NEW n \in Server, pc[n] = "serve", NEW e \in Elected, e > Term(n)
    PROVE  rwhead[n] < e
<1>1. e \in Slot /\ BeMaster \in chosen[e]
  BY DEF Elected
<1>2. first[n] \in Nat /\ TermOf(n) /\ Term(n) \in Elected /\ Term(n) = first[n] - window_size
  BY DEF LInv, TermInv, Master, Term
<1>3. first[n] < e
  BY <1>2, <1>1, SizeAssumption DEF LInv, HeadInv, Elected, Slot
<1>4. SUFFICES ASSUME rwhead[n] >= e PROVE FALSE
  BY <1>1, SizeAssumption DEF LInv, Typed, Types, HeadsInOrder, Slot
<1>5. e \in mv_window[n]
  BY <1>1, <1>2, <1>3, <1>4, SizeAssumption DEF TermOf, Slot, LInv, Typed, Types, HeadsInOrder
<1>6. Update(n) \in chosen[e]
  BY <1>5, <1>2, <1>3, <1>1, SizeAssumption DEF TermOf, Slot
<1>7. Update(n) = BeMaster
  BY <1>1, <1>6 DEF LInv, OpenInv
<1>8. first[n] \in Slot
  BY <1>1, <1>2, <1>3, SizeAssumption DEF Slot
<1> QED BY <1>7, <1>8, UpdateType, BeMasterAssumption

\* What masters are calling: slots of their own terms.
LEMMA Disjoint ==
    ASSUME LInv, NEW n \in Server, NEW m \in Server, pc[n] = "serve", pc[m] = "serve",
           Term(n) < Term(m), NEW s \in Slot, s <= rwhead[n] + window_size
    PROVE  s < first[m]
<1>1. Term(m) \in Elected /\ first[m] \in Nat /\ Term(m) = first[m] - window_size
  BY DEF LInv, TermInv, Master, Term
<1>2. Term(n) \in Elected
  BY DEF LInv, TermInv, Master
<1>3. rwhead[n] < Term(m)
  BY <1>1, <1>2, Below, SizeAssumption DEF Elected, Slot
<1> QED BY <1>1, <1>3, SizeAssumption DEF Elected, Slot, LInv, Typed, Types, HeadsInOrder

\* Where nothing has been decided at the head of a server that runs for master, no
\* election is near and nobody is past it.
LEMMA Virgin ==
    ASSUME LInv, NEW n \in Server, pc[n] = "to_be_master", chosen[rwhead[n]] = {}
    PROVE  /\ rwhead[n] \in Slot /\ rwhead[n] \in promised
           /\ \A e \in Elected : e + window_size < rwhead[n]
           /\ \A k \in Server : rwhead[k] <= rwhead[n]
<1> DEFINE s == rwhead[n]
<1>1. s \in promised /\ s \in Slot
  BY DEF LInv, PromiseInv, Typed, Types, HeadsInOrder
<1>2. ASSUME NEW e \in Elected PROVE s <= e \/ s > e + window_size
  BY <1>1, <1>2 DEF LInv, HeadInv, HeadOf
<1>3. ASSUME NEW e \in Elected PROVE s # e
  BY <1>3 DEF Elected
<1>4. ~Gap(s)
  BY <1>1, <1>2, SizeAssumption DEF Gap, Elected, Slot
<1>5. ASSUME NEW k \in Server PROVE rwhead[k] <= s
  <2>1. s < rwhead[k] => chosen[s] # {} \/ Gap(s)
    BY <1>1 DEF LInv, HeadInv
  <2>2. ~(s < rwhead[k])
    BY <2>1, <1>4
  <2> QED BY <1>1, <2>2 DEF LInv, Typed, Types, HeadsInOrder
<1>6. ASSUME NEW e \in Elected PROVE e + window_size < s
  <2>1. PICK k \in Server : e <= rwhead[k]
    BY DEF LInv, HeadInv
  <2>2. e \in Slot /\ rwhead[k] \in Nat /\ s \in Nat
    BY <1>1, SizeAssumption DEF Elected, Slot, LInv, Typed, Types, HeadsInOrder
  <2>3. e < s
    BY <2>1, <2>2, <1>5, <1>3, SizeAssumption DEF Slot
  <2> QED BY <2>2, <2>3, <1>2, SizeAssumption DEF Slot
<1> QED BY <1>1, <1>5, <1>6

-----------------------------------------------------------------------------
LEMMA Initially == Init => LInv
<1> SUFFICES ASSUME Init PROVE LInv
  OBVIOUS
<1>1. Typed
  BY DEF Init, Typed, Types, HeadsInOrder, StableRecord
<1>2. Elected = {} /\ \A s \in Slot : chosen[s] = {}
  BY DEF Init, Elected
<1>3. PromiseInv /\ OpenInv
  BY <1>2 DEF Init, PromiseInv, OpenInv
<1>4. TermInv /\ ReadInv
  BY <1>2, SizeAssumption DEF Init, TermInv, Master, ReadInv, Slot
<1>5. HeadInv
  BY <1>2, SizeAssumption DEF Init, HeadInv, Slot
<1> QED BY <1>1, <1>3, <1>4, <1>5 DEF LInv

\* The elections and what they skip depend on what is decided, and on nothing else.
LEMMA Elections ==
    ASSUME UNCHANGED chosen
    PROVE  Elected' = Elected /\ \A s : Gap(s)' = Gap(s)
BY DEF Elected, Gap

\* A term stands as long as nobody touches its master and the slots decide no less.
LEMMA OthersTerm ==
    ASSUME LInv, NEW n \in Server, TermOf(n), pc[n] = "serve", first[n] \in Nat,
           first'[n] = first[n], pc'[n] = pc[n], rwhead'[n] = rwhead[n],
           movedhead'[n] = movedhead[n], mv_window'[n] = mv_window[n],
           local_db'[n] = local_db[n], calls'[n] = calls[n], failure'[n] = failure[n],
           \A s \in Slot : chosen[s] \subseteq chosen'[s]
    PROVE  TermOf(n)'
<1>1. Term(n)' = Term(n) /\ Update(n)' = Update(n)
  BY DEF Term, Update
<1>2. \A s \in mv_window[n] : s \in Slot
  BY DEF LInv, Typed, Types, HeadsInOrder
<1>3. \A s, r : Entry(s, r)' = Entry(s, r)
  BY DEF Entry
<1>4. (\/ first[n] \in Slot /\ chosen[first[n]] # {}
       \/ \E c \in calls[n] : c.slot = first[n]
       \/ calls[n] = {} /\ ~failure[n] /\ movedhead[n] = first[n])'
  BY DEF TermOf
<1>5. (\A s \in mv_window[n] : s # Term(n) =>
          /\ first[n] <= s /\ s < movedhead[n]
          /\ Update(n) \in chosen[s] /\ Entry(s, Update(n)) \in local_db[n])'
  BY <1>1, <1>2, <1>3 DEF TermOf
<1>6. (\A c \in calls[n] :
          /\ c.rec = Update(n)
          /\ first[n] <= c.slot /\ c.slot < movedhead[n]
          /\ c.slot <= rwhead[n] + window_size)'
  BY <1>1 DEF TermOf
<1>7. (/\ rwhead[n] >= first[n] /\ movedhead[n] >= first[n]
       /\ \A s \in first[n] + 1 .. rwhead[n] : s \in mv_window[n])'
  BY DEF TermOf
<1> QED BY <1>4, <1>5, <1>6, <1>7 DEF TermOf

-----------------------------------------------------------------------------
\* A new call is at a slot that no other call that can end well is at.
LEMMA LogKeeps ==
    ASSUME LInv, Sound', NEW n \in Server, Log(n) PROVE LInv'
<1> DEFINE s == movedhead[n]
<1>1. PICK ok \in BOOLEAN :
        /\ Primary(n) /\ ~failure[n] /\ s \in Slot
        /\ IF ok THEN s \notin promised ELSE s \in promised \/ chosen[s] # {}
        /\ movedhead' = [movedhead EXCEPT ![n] = s + 1]
        /\ calls' = [calls EXCEPT ![n] =
              @ \cup {[slot |-> s, rec |-> Update(n), open |-> ok]}]
        /\ broken' = broken \cup Fails("alone", pc[n] = "skip")
                            \cup Fails("window", s > rwhead[n] + window_size)
                            \cup Fails("learned", ok /\ chosen[s] # {})
        /\ UNCHANGED <<pc, failure, rwhead, mv_window, first, local_db, slots, acked>>
  BY DEF Log
<1>2. /\ pc[n] = "serve" /\ ~(s > rwhead[n] + window_size)
      /\ ok <=> s \notin promised /\ chosen[s] = {}
  <2>1. /\ ~(pc[n] = "skip") /\ ~(s > rwhead[n] + window_size)
        /\ ~(ok /\ chosen[s] # {})
    BY <1>1, FailsNot
  <2> QED BY <1>1, <2>1 DEF Primary
<1> DEFINE c == [slot |-> s, rec |-> Update(n), open |-> ok]
<1>3. /\ s <= rwhead[n] + window_size
      /\ calls' = [calls EXCEPT ![n] = @ \cup {c}]
  BY <1>1, <1>2, SizeAssumption DEF Slot, LInv, Typed, Types, HeadsInOrder
<1>4. c.slot = s /\ c.rec = Update(n) /\ (c.open <=> ok)
  OBVIOUS
<1> HIDE DEF c
<1>5. /\ first[n] \in Nat /\ TermOf(n) /\ Term(n) = first[n] - window_size
      /\ first[n] <= s /\ first[n] \in Slot
  BY <1>1, <1>2, <1>3, SizeAssumption DEF LInv, TermInv, Term, TermOf, Slot
<1>6. c \in [slot : Slot, rec : StableRecord, open : BOOLEAN]
  BY <1>1, <1>5, UpdateType DEF c
<1>7. UNCHANGED <<pc, failure, rwhead, mv_window, first, local_db, promised, proposed,
                  chosen, acked>>
  BY <1>1 DEF slots
<1>8. Elected' = Elected /\ \A t : Gap(t)' = Gap(t)
  BY <1>7, Elections
<1>9. Typed'
  <2>1. s \in Nat /\ movedhead' = [movedhead EXCEPT ![n] = s + 1]
    BY <1>1, SizeAssumption DEF Slot
  <2>2. movedhead' \in [Server -> Nat] /\ HeadsInOrder'
    <3> HIDE DEF s
    <3>1. s = movedhead[n]
      BY DEF s
    <3> QED BY <1>7, <2>1, <3>1 DEF LInv, Typed, Types, HeadsInOrder
  <2>3. calls' \in [Server -> SUBSET [slot : Slot, rec : StableRecord, open : BOOLEAN]]
    <3>1. calls \in [Server -> SUBSET [slot : Slot, rec : StableRecord, open : BOOLEAN]]
      BY DEF LInv, Typed, Types
    <3> HIDE DEF s
    <3> QED BY <1>3, <1>6, <3>1
  <2> HIDE DEF s
  <2> QED BY <1>7, <2>2, <2>3 DEF LInv, Typed, Types
<1>10. PromiseInv'
  BY <1>2, <1>3, <1>4, <1>7, <1>8 DEF LInv, PromiseInv, Typed, Types, HeadsInOrder
<1>11. OpenInv'
  <2>1. ASSUME NEW m \in Server, NEW d \in calls[m], d.open, ok, d.slot = s
        PROVE  FALSE
    <3>1. pc[m] = "serve" /\ TermOf(m) /\ d.slot \in Slot /\ first[m] \in Nat
      BY <2>1 DEF LInv, TermInv, Typed, Types, HeadsInOrder
    <3>2. d.slot < movedhead[m] /\ first[m] <= d.slot /\ d.slot <= rwhead[m] + window_size
      BY <3>1 DEF TermOf
    <3>3. m # n
      BY <3>1, <3>2, <2>1 DEF Slot
    <3>4. Term(m) # Term(n) /\ Term(m) \in Elected /\ Term(n) \in Elected
      BY <3>1, <3>3, <1>2 DEF LInv, TermInv, Master
    <3>5. CASE Term(n) < Term(m)
      <4>1. s < first[m]
        BY <1>1, <1>2, <1>3, <3>1, <3>5, Disjoint
      <4> QED BY <4>1, <3>1, <3>2, <2>1 DEF Slot
    <3>6. CASE Term(m) < Term(n)
      <4>1. d.slot < first[n]
        BY <1>1, <1>2, <1>3, <3>1, <3>2, <3>6, Disjoint
      <4> QED BY <4>1, <1>5, <2>1, <3>1 DEF Slot
    <3> QED BY <3>4, <3>5, <3>6 DEF Elected, Slot
  <2>2. (\A t \in Slot : \A r, q \in chosen[t] : r = q)'
    BY <1>7 DEF LInv, OpenInv
  <2>3. (\A m \in Server : \A d \in calls[m] : d.open => chosen[d.slot] = {})'
    BY <1>2, <1>3, <1>4, <1>7 DEF LInv, OpenInv, Typed, Types, HeadsInOrder
  <2>4. ASSUME NEW m \in Server, NEW k \in Server, NEW d \in calls'[m], NEW g \in calls'[k],
               d.open, g.open, d.slot = g.slot
        PROVE  m = k /\ d = g
    <3>1. d \in calls[m] \/ (m = n /\ d = c)
      BY <1>3 DEF LInv, Typed, Types, HeadsInOrder
    <3>2. g \in calls[k] \/ (k = n /\ g = c)
      BY <1>3 DEF LInv, Typed, Types, HeadsInOrder
    <3>3. CASE d \in calls[m] /\ g \in calls[k]
      BY <2>4, <3>3 DEF LInv, OpenInv
    <3>4. CASE d \in calls[m] /\ k = n /\ g = c
      BY <2>1, <2>4, <3>4, <1>4
    <3>5. CASE g \in calls[k] /\ m = n /\ d = c
      BY <2>1, <2>4, <3>5, <1>4
    <3> QED BY <3>1, <3>2, <3>3, <3>4, <3>5
  <2> QED BY <2>2, <2>3, <2>4 DEF OpenInv
<1>12. TermInv'
  <2>1. \A m \in Server : Term(m)' = Term(m) /\ (Master(m)' <=> Master(m))
    BY <1>7 DEF Term, Master
  <2>2. \A m \in Server : m # n => calls'[m] = calls[m] /\ movedhead'[m] = movedhead[m]
    BY <1>1, <1>3 DEF LInv, Typed, Types, HeadsInOrder
  <2>3. calls'[n] = calls[n] \cup {c} /\ movedhead'[n] = s + 1
    BY <1>1, <1>3 DEF LInv, Typed, Types, HeadsInOrder
  <2>4. ASSUME NEW m \in Server, pc[m] = "serve", m # n PROVE TermOf(m)'
    BY <2>2, <2>4, <1>7, OthersTerm DEF LInv, TermInv
  <2>5. TermOf(n)'
    <3>1. Update(n)' = Update(n) /\ Term(n)' = Term(n)
      BY <1>7, <2>1 DEF Update
    <3>2. \A t, r : Entry(t, r)' = Entry(t, r)
      BY DEF Entry
    <3>3. (/\ rwhead[n] >= first[n] /\ movedhead[n] >= first[n]
           /\ \A t \in first[n] + 1 .. rwhead[n] : t \in mv_window[n])'
      BY <1>5, <1>7, <2>3, <1>1 DEF TermOf, Slot
    <3>4. (\A t \in mv_window[n] : t # Term(n) =>
              /\ first[n] <= t /\ t < movedhead[n]
              /\ Update(n) \in chosen[t] /\ Entry(t, Update(n)) \in local_db[n])'
      BY <1>1, <1>5, <1>7, <2>3, <3>1, <3>2 DEF TermOf, LInv, Typed, Types, HeadsInOrder, Slot
    <3>5. (\A d \in calls[n] :
              /\ d.rec = Update(n)
              /\ first[n] <= d.slot /\ d.slot < movedhead[n]
              /\ d.slot <= rwhead[n] + window_size)'
      <4> SUFFICES ASSUME NEW d \in calls'[n]
                   PROVE  (/\ d.rec = Update(n)
                           /\ first[n] <= d.slot /\ d.slot < movedhead[n]
                           /\ d.slot <= rwhead[n] + window_size)'
        OBVIOUS
      <4>1. CASE d \in calls[n]
        BY <4>1, <1>1, <1>5, <1>7, <2>3, <3>1 DEF TermOf, LInv, Typed, Types, HeadsInOrder, Slot
      <4>2. CASE d = c
        BY <4>2, <1>1, <1>3, <1>4, <1>5, <1>7, <2>3, <3>1 DEF Slot
      <4> QED BY <4>1, <4>2, <2>3
    <3>6. (\/ first[n] \in Slot /\ chosen[first[n]] # {}
           \/ \E d \in calls[n] : d.slot = first[n]
           \/ calls[n] = {} /\ ~failure[n] /\ movedhead[n] = first[n])'
      BY <1>4, <1>5, <1>7, <2>3 DEF TermOf
    <3> QED BY <3>3, <3>4, <3>5, <3>6 DEF TermOf
  <2>6. (\A m \in Server : pc[m] # "serve" => calls[m] = {} /\ ~failure[m])'
    BY <1>1, <1>2, <1>3, <1>7, <2>2 DEF LInv, TermInv
  <2>7. (\A m \in Server : pc[m] = "serve" => first[m] \in Nat /\ TermOf(m))'
    BY <1>7, <2>4, <2>5 DEF LInv, TermInv
  <2>8. (\A m \in Server : pc[m] = "skip" => mv_window[m] = {rwhead[m]})'
    BY <1>7 DEF LInv, TermInv
  <2>9. (/\ \A m \in Server : Master(m) => Term(m) \in Elected
         /\ \A m, k \in Server : Master(m) /\ Master(k) /\ Term(m) = Term(k) => m = k)'
    BY <1>8, <2>1 DEF LInv, TermInv
  <2> QED BY <2>6, <2>7, <2>8, <2>9 DEF TermInv
<1>13. HeadInv'
  BY <1>7, <1>8 DEF LInv, HeadInv, HeadOf
<1>14. ReadInv'
  <2>1. \A t, r : Entry(t, r)' = Entry(t, r)
    BY DEF Entry
  <2> QED BY <1>7, <1>8, <2>1 DEF LInv, ReadInv
<1> QED BY <1>9, <1>10, <1>11, <1>12, <1>13, <1>14 DEF LInv

\* A call that fails leaves its slot to nobody, and is not the first of its term.
LEMMA LogTimeoutKeeps ==
    ASSUME LInv, Sound', NEW n \in Server, LogTimeout(n) PROVE LInv'
<1>1. PICK c \in calls[n] :
        /\ c.slot # first[n]
        /\ calls' = [calls EXCEPT ![n] = @ \ {c}]
        /\ failure' = [failure EXCEPT ![n] = TRUE]
        /\ UNCHANGED <<pc, heads, first, local_db, slots, acked>>
  <2>1. PICK c \in calls[n] :
          /\ calls' = [calls EXCEPT ![n] = @ \ {c}]
          /\ failure' = [failure EXCEPT ![n] = TRUE]
          /\ broken' = broken \cup Fails("first", c.slot = first[n])
          /\ UNCHANGED <<pc, heads, first, local_db, slots, acked>>
    BY DEF LogTimeout
  <2>2. c.slot # first[n]
    BY <2>1 DEF Sound, Fails
  <2> QED BY <2>1, <2>2
<1>2. pc[n] = "serve" /\ TermOf(n) /\ first[n] \in Nat
  BY DEF LInv, TermInv
<1>3. UNCHANGED <<pc, rwhead, movedhead, mv_window, first, local_db, promised, proposed,
                  chosen, acked>>
  BY <1>1 DEF heads, slots
<1>4. Elected' = Elected /\ \A t : Gap(t)' = Gap(t)
  BY <1>3, Elections
<1>5. \A m \in Server : calls'[m] \subseteq calls[m]
  BY <1>1 DEF LInv, Typed, Types, HeadsInOrder
<1>6. Typed'
  BY <1>1, <1>3, <1>5 DEF LInv, Typed, Types, HeadsInOrder
<1>7. PromiseInv' /\ OpenInv'
  <2>1. PromiseInv'
    BY <1>3, <1>4, <1>5 DEF LInv, PromiseInv
  <2>2. OpenInv'
    BY <1>3, <1>5 DEF LInv, OpenInv
  <2> QED BY <2>1, <2>2
<1>8. TermInv'
  <2>1. \A m \in Server : Term(m)' = Term(m) /\ (Master(m)' <=> Master(m))
    BY <1>3 DEF Term, Master
  <2>2. \A m \in Server : m # n => calls'[m] = calls[m] /\ failure'[m] = failure[m]
    BY <1>1 DEF LInv, Typed, Types, HeadsInOrder
  <2>3. calls'[n] = calls[n] \ {c}
    BY <1>1 DEF LInv, Typed, Types, HeadsInOrder
  <2>4. ASSUME NEW m \in Server, pc[m] = "serve", m # n PROVE TermOf(m)'
    BY <2>2, <2>4, <1>3, OthersTerm DEF LInv, TermInv
  <2>5. TermOf(n)'
    <3>1. Update(n)' = Update(n) /\ Term(n)' = Term(n)
      BY <1>3, <2>1 DEF Update
    <3>2. \A t, r : Entry(t, r)' = Entry(t, r)
      BY DEF Entry
    <3>3. (/\ rwhead[n] >= first[n] /\ movedhead[n] >= first[n]
           /\ \A t \in first[n] + 1 .. rwhead[n] : t \in mv_window[n])'
      BY <1>2, <1>3 DEF TermOf
    <3>4. (\A t \in mv_window[n] : t # Term(n) =>
              /\ first[n] <= t /\ t < movedhead[n]
              /\ Update(n) \in chosen[t] /\ Entry(t, Update(n)) \in local_db[n])'
      BY <1>2, <1>3, <3>1, <3>2 DEF TermOf
    <3>5. (\A d \in calls[n] :
              /\ d.rec = Update(n)
              /\ first[n] <= d.slot /\ d.slot < movedhead[n]
              /\ d.slot <= rwhead[n] + window_size)'
      BY <1>2, <1>3, <1>5, <3>1 DEF TermOf
    <3>6. (\/ first[n] \in Slot /\ chosen[first[n]] # {}
           \/ \E d \in calls[n] : d.slot = first[n]
           \/ calls[n] = {} /\ ~failure[n] /\ movedhead[n] = first[n])'
      BY <1>1, <1>2, <1>3, <2>3 DEF TermOf
    <3> QED BY <3>3, <3>4, <3>5, <3>6 DEF TermOf
  <2>6. (\A m \in Server : pc[m] # "serve" => calls[m] = {} /\ ~failure[m])'
    BY <1>2, <1>3, <2>2 DEF LInv, TermInv
  <2>7. (\A m \in Server : pc[m] = "serve" => first[m] \in Nat /\ TermOf(m))'
    BY <1>3, <2>4, <2>5 DEF LInv, TermInv
  <2>8. (\A m \in Server : pc[m] = "skip" => mv_window[m] = {rwhead[m]})'
    BY <1>3 DEF LInv, TermInv
  <2>9. (/\ \A m \in Server : Master(m) => Term(m) \in Elected
         /\ \A m, k \in Server : Master(m) /\ Master(k) /\ Term(m) = Term(k) => m = k)'
    BY <1>4, <2>1 DEF LInv, TermInv
  <2> QED BY <2>6, <2>7, <2>8, <2>9 DEF TermInv
<1>9. HeadInv'
  BY <1>3, <1>4 DEF LInv, HeadInv, HeadOf
<1>10. ReadInv'
  <2>1. \A t, r : Entry(t, r)' = Entry(t, r)
    BY DEF Entry
  <2> QED BY <1>3, <1>4, <2>1 DEF LInv, ReadInv
<1> QED BY <1>6, <1>7, <1>8, <1>9, <1>10 DEF LInv

-----------------------------------------------------------------------------
\* A server that is no master before and after the step, and the terms of the others.
LEMMA NoMaster ==
    ASSUME LInv, NEW n \in Server, pc' \in [Server -> {"recover", "to_be_master", "skip", "serve"}],
           ~Master(n)', calls'[n] = {}, ~failure'[n],
           Elected \subseteq Elected',
           \A s \in Slot : chosen[s] \subseteq chosen'[s],
           \A m \in Server : m # n =>
               /\ first'[m] = first[m] /\ pc'[m] = pc[m] /\ rwhead'[m] = rwhead[m]
               /\ movedhead'[m] = movedhead[m] /\ mv_window'[m] = mv_window[m]
               /\ local_db'[m] = local_db[m] /\ calls'[m] = calls[m]
               /\ failure'[m] = failure[m]
    PROVE  TermInv'
<1>1. ASSUME NEW m \in Server, m # n
      PROVE Term(m)' = Term(m) /\ (Master(m)' <=> Master(m))
  BY <1>1 DEF Term, Master
<1>2. \A m \in Server : pc'[m] = "serve" => m # n /\ pc[m] = "serve"
  BY DEF Master
<1>3. ASSUME NEW m \in Server, pc'[m] = "serve" PROVE first'[m] \in Nat /\ TermOf(m)'
  BY <1>2, <1>3, OthersTerm DEF LInv, TermInv
<1>4. (\A m \in Server : pc[m] # "serve" => calls[m] = {} /\ ~failure[m])'
  BY DEF LInv, TermInv
<1>5. (\A m \in Server : pc[m] = "skip" => mv_window[m] = {rwhead[m]})'
  BY DEF LInv, TermInv, Master
<1>6. (/\ \A m \in Server : Master(m) => Term(m) \in Elected
       /\ \A m, k \in Server : Master(m) /\ Master(k) /\ Term(m) = Term(k) => m = k)'
  BY <1>1 DEF LInv, TermInv
<1> QED BY <1>3, <1>4, <1>5, <1>6 DEF TermInv

\* The heads go back to where the log was read: the term's first slot is decided.
LEMMA RestartKeeps ==
    ASSUME LInv, NEW n \in Server, Restart(n) PROVE LInv'
<1>1. /\ pc[n] = "serve" /\ failure[n] /\ calls[n] = {}
      /\ pc' = [pc EXCEPT ![n] = "recover"]
      /\ failure' = [failure EXCEPT ![n] = FALSE]
      /\ movedhead' = [movedhead EXCEPT ![n] = rwhead[n]]
      /\ mv_window' = [mv_window EXCEPT ![n] = {}]
      /\ first' = [first EXCEPT ![n] = None]
      /\ UNCHANGED <<rwhead, calls, local_db, promised, proposed, chosen, acked>>
  BY DEF Restart, slots
<1>2. Elected' = Elected /\ \A t : Gap(t)' = Gap(t)
  BY <1>1, Elections
<1>3. Typed'
  BY <1>1 DEF LInv, Typed, Types, HeadsInOrder
<1>4. PromiseInv' /\ OpenInv'
  <2>1. PromiseInv'
    BY <1>1, <1>2 DEF LInv, PromiseInv, Typed, Types, HeadsInOrder
  <2>2. OpenInv'
    BY <1>1 DEF LInv, OpenInv
  <2> QED BY <2>1, <2>2
<1>5. TermInv'
  BY <1>1, <1>2, <1>3, NoMaster DEF LInv, Typed, Types, HeadsInOrder, Master
<1>6. HeadInv'
  <2>1. first[n] \in Slot /\ chosen[first[n]] # {}
    BY <1>1 DEF LInv, TermInv, TermOf
  <2>2. ASSUME NEW k \in Server, NEW e \in Elected PROVE HeadOf(k, e)'
    BY <1>1, <2>1 DEF LInv, HeadInv, HeadOf, Typed, Types, HeadsInOrder
  <2> QED BY <1>1, <1>2, <2>2 DEF LInv, HeadInv
<1>7. ReadInv'
  <2>1. \A t, r : Entry(t, r)' = Entry(t, r)
    BY DEF Entry
  <2> QED BY <1>1, <1>2, <2>1 DEF LInv, ReadInv
<1> QED BY <1>3, <1>4, <1>5, <1>6, <1>7 DEF LInv

\* A server that runs for a slot finds it undecided, and its calls are over.
LEMMA ToBeMasterKeeps ==
    ASSUME LInv, Sound', NEW n \in Server, ToBeMaster(n) PROVE LInv'
<1> DEFINE s == rwhead[n]
<1>1. /\ pc[n] = "recover" /\ s \in Slot /\ chosen[s] = {}
      /\ \A m \in Server : s \notin {c.slot : c \in calls[m]}
      /\ pc' = [pc EXCEPT ![n] = "to_be_master"]
      /\ promised' = promised \cup {s}
      /\ UNCHANGED <<failure, rwhead, movedhead, mv_window, first, calls, local_db, proposed,
                     chosen, acked>>
  <2>1. /\ pc[n] = "recover" /\ s \in Slot
        /\ pc' = [pc EXCEPT ![n] = "to_be_master"]
        /\ promised' = promised \cup {s}
        /\ broken' = broken \cup Fails("learned", chosen[s] # {})
              \cup Fails("expired", \E m \in Server : \E c \in calls[m] : c.slot = s)
        /\ UNCHANGED <<failure, rwhead, movedhead, mv_window, first, calls, local_db, proposed,
                       chosen, acked>>
    BY DEF ToBeMaster, heads
  <2>2. chosen[s] = {}
    BY <2>1 DEF Sound, Fails
  <2>3. ~\E m \in Server : \E c \in calls[m] : c.slot = s
    BY <2>1 DEF Sound, Fails
  <2>4. \A m \in Server : s \notin {c.slot : c \in calls[m]}
    BY <2>3
  <2> QED BY <2>1, <2>2, <2>4
<1>2. Elected' = Elected /\ \A t : Gap(t)' = Gap(t)
  BY <1>1, Elections
<1>3. Typed'
  BY <1>1 DEF LInv, Typed, Types, HeadsInOrder
<1>4. PromiseInv' /\ OpenInv'
  <2>1. PromiseInv'
    <3>1. (\A t \in promised : chosen[t] \subseteq {BeMaster})'
      BY <1>1 DEF LInv, PromiseInv
    <3>2. (\A m \in Server : \A c \in calls[m] : c.slot \in promised => ~c.open)'
      BY <1>1 DEF LInv, PromiseInv
    <3>3. (\A m \in Server : pc[m] = "to_be_master" => rwhead[m] \in promised)'
      BY <1>1 DEF LInv, PromiseInv, Typed, Types, HeadsInOrder
    <3> QED BY <1>1, <1>2, <3>1, <3>2, <3>3 DEF LInv, PromiseInv
  <2>2. OpenInv'
    BY <1>1 DEF LInv, OpenInv
  <2> QED BY <2>1, <2>2
<1>5. TermInv'
  BY <1>1, <1>2, <1>3, NoMaster DEF LInv, Typed, Types, HeadsInOrder, Master, TermInv
<1>6. HeadInv'
  <2>1. ASSUME NEW k \in Server, NEW e \in Elected PROVE HeadOf(k, e)'
    BY <1>1 DEF LInv, HeadInv, HeadOf, Typed, Types, HeadsInOrder
  <2> QED BY <1>1, <1>2, <2>1 DEF LInv, HeadInv
<1>7. ReadInv'
  <2>1. \A t, r : Entry(t, r)' = Entry(t, r)
    BY DEF Entry
  <2> QED BY <1>1, <1>2, <2>1 DEF LInv, ReadInv
<1> QED BY <1>3, <1>4, <1>5, <1>6, <1>7 DEF LInv

\* The clauses of HeadInv and ReadInv that a step of one head has to re-establish.
LEMMA OneHead ==
    ASSUME LInv, NEW n \in Server, Elected' = Elected, \A t : Gap(t)' = Gap(t),
           chosen' = chosen, acked' = acked,
           rwhead'[n] \in Nat, rwhead[n] <= rwhead'[n],
           \A k \in Server : k # n =>
               /\ rwhead'[k] = rwhead[k] /\ first'[k] = first[k] /\ pc'[k] = pc[k]
               /\ local_db'[k] = local_db[k],
           local_db[n] \subseteq local_db'[n],
           \A e \in Elected : HeadOf(n, e)',
           \A s \in Slot : rwhead[n] <= s /\ s < rwhead'[n] =>
               /\ chosen[s] # {} \/ Gap(s)
               /\ ~Gap(s) => \A r \in chosen[s] : r # BeMaster => Entry(s, r) \in local_db'[n]
    PROVE  HeadInv' /\ ReadInv'
<1>1. \A t, r : Entry(t, r)' = Entry(t, r)
  BY DEF Entry
<1>2. \A k \in Server : rwhead[k] \in Nat /\ rwhead[k] <= rwhead'[k]
  BY DEF LInv, Typed, Types, HeadsInOrder
<1>3. ASSUME NEW k \in Server, NEW e \in Elected PROVE HeadOf(k, e)'
  <2>1. CASE k = n
    BY <2>1
  <2>2. CASE k # n
    BY <2>2 DEF LInv, HeadInv, HeadOf
  <2> QED BY <2>1, <2>2
<1>4. ASSUME NEW k \in Server, NEW s \in Slot, s < rwhead'[k] PROVE chosen[s] # {} \/ Gap(s)
  BY <1>2, <1>4, SizeAssumption DEF LInv, HeadInv, Slot
<1>5. ASSUME NEW e \in Elected PROVE \E k \in Server : e <= rwhead'[k]
  <2>1. PICK k \in Server : e <= rwhead[k]
    BY DEF LInv, HeadInv
  <2>2. e \in Nat
    BY SizeAssumption DEF Elected, Slot
  <2>3. rwhead[k] \in Nat /\ rwhead'[k] \in Nat
    <3>1. rwhead[k] \in Nat
      BY <1>2
    <3>2. k # n => rwhead'[k] = rwhead[k]
      OBVIOUS
    <3> QED BY <3>1, <3>2
  <2> QED BY <1>2, <2>1, <2>2, <2>3
<1>6. HeadInv'
  <2>1. (\A e, f \in Elected : e < f => e + window_size < f)'
    BY DEF LInv, HeadInv
  <2> QED BY <1>3, <1>4, <1>5, <2>1 DEF HeadInv
<1>7. ASSUME NEW k \in Server, NEW s \in Slot, s < rwhead'[k], ~Gap(s),
             NEW r \in chosen[s], r # BeMaster
      PROVE Entry(s, r) \in local_db'[k]
  <2>1. CASE s < rwhead[k]
    <3>1. Entry(s, r) \in local_db[k]
      BY <1>7, <2>1 DEF LInv, ReadInv
    <3> QED BY <3>1
  <2>2. CASE ~(s < rwhead[k])
    BY <1>2, <1>7, <2>2, SizeAssumption DEF Slot
  <2> QED BY <2>1, <2>2
<1>8. ReadInv'
  BY <1>1, <1>7 DEF LInv, ReadInv
<1> QED BY <1>6, <1>8

\* recover reads one slot, and passes the window after an election.
LEMMA RedoKeeps ==
    ASSUME LInv, NEW n \in Server, Redo(n) PROVE LInv'
<1> DEFINE s == rwhead[n]
<1>1. PICK rec \in chosen[s] :
        IF rec = BeMaster
        THEN Advance(n, 1 + window_size) /\ UNCHANGED local_db
        ELSE /\ Advance(n, 1)
             /\ local_db' = [local_db EXCEPT ![n] = @ \cup {Entry(rwhead[n], rec)}]
  BY DEF Redo
<1>2. pc[n] = "recover" /\ s \in Slot
      /\ UNCHANGED <<pc, failure, mv_window, first, calls, promised, proposed, chosen, acked>>
  BY DEF Redo, slots
<1>3. Elected' = Elected /\ \A t : Gap(t)' = Gap(t)
  BY <1>2, Elections
<1>4. \A r \in chosen[s] : r = rec
  BY <1>2 DEF LInv, OpenInv
<1> DEFINE k == IF rec = BeMaster THEN 1 + window_size ELSE 1
<1>5. k \in Nat \ {0} /\ rwhead' = [rwhead EXCEPT ![n] = s + k]
      /\ movedhead' = [movedhead EXCEPT ![n] = s + k]
  BY <1>1, SizeAssumption DEF Advance
<1>6. local_db' = [local_db EXCEPT ![n] = @ \cup IF rec = BeMaster THEN {} ELSE {Entry(s, rec)}]
  BY <1>1 DEF LInv, Typed, Types, HeadsInOrder
<1>7. rec # BeMaster => Entry(s, rec) \in [slot : Slot, rec : StableRecord]
  BY <1>2, EntryFields DEF LInv, Typed, Types, HeadsInOrder
<1>8. rwhead'[n] = s + k /\ local_db[n] \subseteq local_db'[n]
      /\ (rec # BeMaster => Entry(s, rec) \in local_db'[n])
  BY <1>5, <1>6 DEF LInv, Typed, Types, HeadsInOrder
<1>9. \A j \in Server : j # n =>
        /\ rwhead'[j] = rwhead[j] /\ movedhead'[j] = movedhead[j]
        /\ local_db'[j] = local_db[j]
  BY <1>5, <1>6 DEF LInv, Typed, Types, HeadsInOrder
<1>10. Typed'
  <2>1. local_db' \in [Server -> SUBSET [slot : Slot, rec : StableRecord]]
    BY <1>6, <1>7 DEF LInv, Typed, Types, HeadsInOrder
  <2>2. rwhead' \in [Server -> Nat] /\ movedhead' \in [Server -> Nat]
        /\ \A j \in Server : rwhead'[j] <= movedhead'[j]
    BY <1>2, <1>5, SizeAssumption DEF LInv, Typed, Types, HeadsInOrder, Slot
  <2> QED BY <1>2, <2>1, <2>2 DEF LInv, Typed, Types, HeadsInOrder
<1>11. PromiseInv' /\ OpenInv'
  <2>1. PromiseInv'
    BY <1>2, <1>3, <1>9 DEF LInv, PromiseInv
  <2>2. OpenInv'
    BY <1>2 DEF LInv, OpenInv
  <2> QED BY <2>1, <2>2
<1>12. TermInv'
  BY <1>2, <1>3, <1>9, <1>10, NoMaster DEF LInv, Typed, Types, HeadsInOrder, Master, TermInv
<1>13. HeadInv' /\ ReadInv'
  <2>1. \A e \in Elected : HeadOf(n, e)'
    <3> TAKE e \in Elected
    <3>1. e \in Slot /\ BeMaster \in chosen[e]
      BY DEF Elected
    <3>2. s <= e \/ s > e + window_size \/ s = e + window_size
      BY <1>2 DEF LInv, HeadInv, HeadOf
    <3>3. s >= e + window_size => rwhead'[n] > e + window_size
      BY <1>2, <1>5, <1>8, <3>1, SizeAssumption DEF Slot
    <3>4. CASE s < e
      <4>1. CASE rec = BeMaster
        <5>1. s \in Elected
          BY <1>2, <4>1 DEF Elected
        <5>2. s + window_size < e
          BY <3>4, <5>1 DEF LInv, HeadInv
        <5> QED BY <1>2, <1>8, <3>1, <4>1, <5>2, SizeAssumption DEF HeadOf, Slot
      <4>2. CASE rec # BeMaster
        BY <1>2, <1>8, <3>1, <3>4, <4>2, SizeAssumption DEF HeadOf, Slot
      <4> QED BY <4>1, <4>2
    <3>5. CASE s = e
      <4>1. rec = BeMaster
        BY <1>4, <3>1, <3>5
      <4> QED BY <1>8, <3>1, <3>5, <4>1, SizeAssumption DEF HeadOf, Slot
    <3>6. CASE s >= e + window_size
      BY <3>3, <3>6 DEF HeadOf
    <3> QED BY <1>2, <3>1, <3>2, <3>4, <3>5, <3>6, SizeAssumption DEF Slot
  <2>2. ASSUME NEW t \in Slot, s <= t, t < rwhead'[n]
        PROVE  /\ chosen[t] # {} \/ Gap(t)
               /\ ~Gap(t) => \A r \in chosen[t] : r # BeMaster => Entry(t, r) \in local_db'[n]
    <3>1. CASE t = s
      BY <1>4, <1>8, <3>1
    <3>2. CASE t # s
      <4>1. rec = BeMaster /\ s \in Elected
        BY <1>2, <1>8, <2>2, <3>2, SizeAssumption DEF Elected, Slot
      <4>2. s < t /\ t <= s + window_size
        BY <1>2, <1>8, <2>2, <3>2, <4>1, SizeAssumption DEF Slot
      <4>3. Gap(t)
        BY <4>1, <4>2 DEF Gap
      <4> QED BY <4>3
    <3> QED BY <3>1, <3>2
  <2>3. rwhead'[n] \in Nat /\ s <= rwhead'[n]
    BY <1>2, <1>5, <1>8, SizeAssumption DEF Slot
  <2> QED BY <1>2, <1>3, <1>8, <1>9, <2>1, <2>2, <2>3, OneHead
<1> QED BY <1>10, <1>11, <1>12, <1>13 DEF LInv

\* The new master goes on behind the window of its election.
LEMMA SkipKeeps ==
    ASSUME LInv, NEW n \in Server, Skip(n) PROVE LInv'
<1> DEFINE s == rwhead[n]
<1>1. /\ pc[n] = "skip"
      /\ rwhead' = [rwhead EXCEPT ![n] = s + window_size]
      /\ movedhead' = [movedhead EXCEPT ![n] = s + window_size]
      /\ first' = [first EXCEPT ![n] = rwhead'[n]]
      /\ pc' = [pc EXCEPT ![n] = "serve"]
      /\ UNCHANGED <<failure, mv_window, calls, local_db, promised, proposed, chosen, acked>>
  BY DEF Skip, Advance, slots
<1>2. Elected' = Elected /\ \A t : Gap(t)' = Gap(t)
  BY <1>1, Elections
<1>3. s \in Elected /\ s \in Slot /\ BeMaster \in chosen[s] /\ Term(n) = s
  BY <1>1 DEF LInv, TermInv, Master, Term, Elected
<1>4. /\ calls[n] = {} /\ ~failure[n] /\ mv_window[n] = {s}
  BY <1>1 DEF LInv, TermInv
<1>5. /\ rwhead'[n] = s + window_size /\ movedhead'[n] = s + window_size
      /\ first'[n] = s + window_size /\ pc'[n] = "serve" /\ s + window_size \in Nat
  BY <1>1, <1>3, SizeAssumption DEF LInv, Typed, Types, HeadsInOrder, Slot
<1>6. \A j \in Server : j # n =>
        /\ rwhead'[j] = rwhead[j] /\ movedhead'[j] = movedhead[j]
        /\ first'[j] = first[j] /\ pc'[j] = pc[j]
  BY <1>1 DEF LInv, Typed, Types, HeadsInOrder
<1>7. Typed'
  BY <1>1, <1>5, <1>6 DEF LInv, Typed, Types, HeadsInOrder
<1>8. PromiseInv' /\ OpenInv'
  <2>1. PromiseInv'
    BY <1>1, <1>2, <1>5, <1>6 DEF LInv, PromiseInv
  <2>2. OpenInv'
    BY <1>1 DEF LInv, OpenInv
  <2> QED BY <2>1, <2>2
<1>9. TermInv'
  <2>1. Term(n)' = s /\ Master(n) /\ Master(n)'
    BY <1>1, <1>3, <1>5, SizeAssumption DEF Term, Master, Slot
  <2>2. \A m \in Server : Term(m)' = Term(m) /\ (Master(m)' <=> Master(m))
    BY <1>3, <1>6, <2>1 DEF Term, Master
  <2>3. ASSUME NEW m \in Server, pc[m] = "serve", m # n PROVE TermOf(m)'
    BY <2>3, <1>1, <1>6, OthersTerm DEF LInv, TermInv
  <2>4. TermOf(n)'
    <3>1. \A t \in first'[n] + 1 .. rwhead'[n] : FALSE
      BY <1>5
    <3>2. \A t \in mv_window'[n] : t = Term(n)'
      BY <1>1, <1>4, <2>1
    <3>3. calls'[n] = {} /\ ~failure'[n]
      BY <1>1, <1>4
    <3> QED BY <1>5, <3>1, <3>2, <3>3 DEF TermOf
  <2>5. (\A m \in Server : pc[m] # "serve" => calls[m] = {} /\ ~failure[m])'
    BY <1>1, <1>6, <1>4 DEF LInv, TermInv
  <2>6. (\A m \in Server : pc[m] = "serve" => first[m] \in Nat /\ TermOf(m))'
    BY <1>5, <1>6, <2>3, <2>4 DEF LInv, TermInv
  <2>7. (\A m \in Server : pc[m] = "skip" => mv_window[m] = {rwhead[m]})'
    BY <1>1, <1>5, <1>6 DEF LInv, TermInv
  <2>8. (/\ \A m \in Server : Master(m) => Term(m) \in Elected
         /\ \A m, k \in Server : Master(m) /\ Master(k) /\ Term(m) = Term(k) => m = k)'
    BY <1>2, <2>2 DEF LInv, TermInv
  <2> QED BY <2>5, <2>6, <2>7, <2>8 DEF TermInv
<1>10. HeadInv' /\ ReadInv'
  <2>1. \A e \in Elected : HeadOf(n, e)'
    <3> TAKE e \in Elected
    <3>1. e \in Slot
      BY DEF Elected
    <3>2. s < e => s + window_size < e
      BY <1>3 DEF LInv, HeadInv
    <3>3. e < s => e + window_size < s
      BY <1>3 DEF LInv, HeadInv
    <3>4. CASE e = s
      BY <1>5, <3>4 DEF HeadOf
    <3>5. CASE e # s
      BY <1>3, <1>5, <3>1, <3>2, <3>3, <3>5, SizeAssumption DEF HeadOf, Slot
    <3> QED BY <3>4, <3>5
  <2>2. ASSUME NEW t \in Slot, s <= t, t < rwhead'[n]
        PROVE  /\ chosen[t] # {} \/ Gap(t)
               /\ ~Gap(t) => \A r \in chosen[t] : r # BeMaster => Entry(t, r) \in local_db'[n]
    <3>1. CASE t = s
      BY <1>3, <3>1 DEF LInv, OpenInv
    <3>2. CASE t # s
      <4>1. s < t /\ t <= s + window_size
        BY <1>3, <1>5, <2>2, <3>2, SizeAssumption DEF Slot
      <4>2. Gap(t)
        BY <1>3, <4>1 DEF Gap
      <4> QED BY <4>2
    <3> QED BY <3>1, <3>2
  <2>3. rwhead'[n] \in Nat /\ s <= rwhead'[n]
    BY <1>3, <1>5, SizeAssumption DEF Slot
  <2> QED BY <1>1, <1>2, <1>6, <2>1, <2>2, <2>3, OneHead
<1> QED BY <1>7, <1>8, <1>9, <1>10 DEF LInv

-----------------------------------------------------------------------------
\* A new election, by its winner or by one who adopts its record: beyond all others, and
\* no server has been past it.
LEMMA NewElection ==
    ASSUME LInv, NEW n \in Server, pc[n] = "to_be_master", chosen[rwhead[n]] = {},
           chosen' = [chosen EXCEPT ![rwhead[n]] = @ \cup {BeMaster}],
           pc'[n] \notin {"to_be_master", "serve"},
           \A k \in Server : k # n => pc'[k] = pc[k],
           UNCHANGED <<rwhead, first, calls, local_db, promised, acked>>
    PROVE  /\ PromiseInv' /\ OpenInv' /\ HeadInv' /\ ReadInv'
           /\ Elected' = Elected \cup {rwhead[n]}
           /\ \A t \in Slot : chosen[t] \subseteq chosen'[t]
<1> DEFINE s == rwhead[n]
<1>1. /\ s \in Slot /\ s \in promised
      /\ \A e \in Elected : e + window_size < s
      /\ \A k \in Server : rwhead[k] <= s
  BY Virgin
<1>2. chosen'[s] = {BeMaster} /\ \A t \in Slot : t # s => chosen'[t] = chosen[t]
  BY <1>1 DEF LInv, Typed, Types, HeadsInOrder
<1>3. Elected' = Elected \cup {s}
  BY <1>1, <1>2 DEF Elected
<1>4. \A t \in Slot : chosen[t] \subseteq chosen'[t]
  BY <1>2
<1>5. \A t : Gap(t) => Gap(t)'
  BY <1>3 DEF Gap
<1>6. PromiseInv'
  <2>1. (\A t \in promised : chosen[t] \subseteq {BeMaster})'
    BY <1>2 DEF LInv, PromiseInv, Typed, Types, HeadsInOrder
  <2>2. (\A k \in Server : pc[k] = "to_be_master" => rwhead[k] \in promised)'
    BY DEF LInv, PromiseInv
  <2> QED BY <1>1, <1>3, <2>1, <2>2 DEF LInv, PromiseInv
<1>7. OpenInv'
  <2>1. (\A t \in Slot : \A r, q \in chosen[t] : r = q)'
    BY <1>2 DEF LInv, OpenInv
  <2>2. (\A k \in Server : \A c \in calls[k] : c.open => chosen[c.slot] = {})'
    BY <1>1, <1>2 DEF LInv, OpenInv, PromiseInv, Typed, Types, HeadsInOrder
  <2> QED BY <2>1, <2>2 DEF LInv, OpenInv
<1>8. HeadInv'
  <2>1. (\A e, f \in Elected : e < f => e + window_size < f)'
    BY <1>1, <1>3, SizeAssumption DEF LInv, HeadInv, Elected, Slot
  <2>2. ASSUME NEW k \in Server, NEW e \in Elected' PROVE HeadOf(k, e)'
    <3>1. CASE e \in Elected
      <4>1. HeadOf(k, e)
        BY <3>1 DEF LInv, HeadInv
      <4>2. pc[k] = "serve" => pc'[k] = "serve"
        OBVIOUS
      <4> QED BY <4>1, <4>2, <1>4 DEF HeadOf
    <3>2. CASE e = s
      BY <1>1, <3>2 DEF HeadOf
    <3> QED BY <1>3, <3>1, <3>2
  <2>3. (\A k \in Server, t \in Slot : t < rwhead[k] => chosen[t] # {} \/ Gap(t))'
    BY <1>4, <1>5 DEF LInv, HeadInv
  <2>4. (\A e \in Elected : \E k \in Server : e <= rwhead[k])'
    <3>1. s <= rwhead[n]
      BY <1>1, SizeAssumption DEF Slot
    <3> QED BY <1>3, <3>1 DEF LInv, HeadInv
  <2> QED BY <2>1, <2>2, <2>3, <2>4 DEF HeadInv
<1>9. ReadInv'
  <2>1. \A t, r : Entry(t, r)' = Entry(t, r)
    BY DEF Entry
  <2>2. ASSUME NEW k \in Server, NEW t \in Slot, t < rwhead[k], ~Gap(t)',
               NEW r \in chosen'[t], r # BeMaster
        PROVE  Entry(t, r) \in local_db[k]
    BY <1>2, <1>5, <2>2 DEF LInv, ReadInv
  <2>3. (\A e \in acked :
            /\ e.rec \in chosen[e.slot]
            /\ e.rec.first \in Nat /\ e.rec.first <= e.slot
            /\ e.rec.first - window_size \in Elected)'
    BY <1>3, <1>4 DEF LInv, ReadInv, Typed, Types, HeadsInOrder
  <2> QED BY <2>1, <2>2, <2>3 DEF ReadInv
<1> QED BY <1>3, <1>4, <1>6, <1>7, <1>8, <1>9

LEMMA WonKeeps ==
    ASSUME LInv, Sound', NEW n \in Server, Won(n) PROVE LInv'
<1> DEFINE s == rwhead[n]
<1>1. /\ pc[n] = "to_be_master" /\ s \in Slot
      /\ BeMaster \notin chosen[s]
      /\ pc' = [pc EXCEPT ![n] = "skip"]
      /\ movedhead' = [movedhead EXCEPT ![n] = s + 1]
      /\ mv_window' = [mv_window EXCEPT ![n] = {s}]
      /\ chosen' = [chosen EXCEPT ![s] = @ \cup {BeMaster}]
      /\ UNCHANGED <<failure, rwhead, first, calls, local_db, promised, proposed, acked>>
  BY DEF Won, LInv, PromiseInv, Typed, Types, HeadsInOrder
<1>2. chosen[s] = {}
  BY <1>1 DEF LInv, PromiseInv
<1>3. pc'[n] = "skip" /\ \A k \in Server : k # n => pc'[k] = pc[k]
  BY <1>1 DEF LInv, Typed, Types, HeadsInOrder
<1>4. /\ PromiseInv' /\ OpenInv' /\ HeadInv' /\ ReadInv' /\ Elected' = Elected \cup {s}
      /\ \A t \in Slot : chosen[t] \subseteq chosen'[t]
  BY <1>1, <1>2, <1>3, NewElection
<1>5. Typed'
  <2>1. movedhead' \in [Server -> Nat] /\ \A k \in Server : rwhead'[k] <= movedhead'[k]
    BY <1>1, SizeAssumption DEF LInv, Typed, Types, HeadsInOrder, Slot
  <2>2. chosen' \in [Slot -> SUBSET (StableRecord \cup {BeMaster})]
    BY <1>1 DEF LInv, Typed, Types, HeadsInOrder
  <2> QED BY <1>1, <2>1, <2>2 DEF LInv, Typed, Types, HeadsInOrder
<1>6. TermInv'
  <2>1. \A m \in Server : m # n =>
          /\ Term(m)' = Term(m) /\ (Master(m)' <=> Master(m))
          /\ movedhead'[m] = movedhead[m] /\ mv_window'[m] = mv_window[m]
    BY <1>1, <1>3 DEF Term, Master, LInv, Typed, Types, HeadsInOrder
  <2>2. Term(n)' = s /\ mv_window'[n] = {s} /\ calls[n] = {} /\ ~failure[n]
    BY <1>1, <1>3 DEF Term, LInv, Typed, Types, HeadsInOrder, TermInv
  <2>3. s \notin Elected
    BY <1>2 DEF Elected
  <2>4. ASSUME NEW m \in Server, pc'[m] = "serve" PROVE first'[m] \in Nat /\ TermOf(m)'
    <3>1. m # n /\ pc[m] = "serve"
      BY <1>3, <2>4
    <3> QED BY <3>1, <1>1, <1>3, <1>4, <2>1, OthersTerm DEF LInv, TermInv
  <2>5. (\A m \in Server : pc[m] # "serve" => calls[m] = {} /\ ~failure[m])'
    BY <1>1, <1>3, <2>2 DEF LInv, TermInv
  <2>6. (\A m \in Server : pc[m] = "skip" => mv_window[m] = {rwhead[m]})'
    BY <1>1, <1>3, <2>1, <2>2 DEF LInv, TermInv
  <2>7. (/\ \A m \in Server : Master(m) => Term(m) \in Elected
         /\ \A m, k \in Server : Master(m) /\ Master(k) /\ Term(m) = Term(k) => m = k)'
    BY <1>4, <2>1, <2>2, <2>3 DEF LInv, TermInv
  <2> QED BY <2>4, <2>5, <2>6, <2>7 DEF TermInv
<1> QED BY <1>4, <1>5, <1>6 DEF LInv

LEMMA LostKeeps ==
    ASSUME LInv, NEW n \in Server, Lost(n) PROVE LInv'
<1> DEFINE s == rwhead[n]
<1>1. /\ pc[n] = "to_be_master" /\ s \in Slot /\ s \in promised
      /\ pc' = [pc EXCEPT ![n] = "recover"]
      /\ UNCHANGED <<failure, rwhead, movedhead, mv_window, first, calls, local_db, promised,
                     acked>>
  BY DEF Lost, LInv, PromiseInv, Typed, Types, HeadsInOrder, heads
<1>2. /\ proposed' \subseteq Slot
      /\ chosen' = chosen \/ chosen' = [chosen EXCEPT ![s] = @ \cup {BeMaster}]
  BY <1>1 DEF Lost, LInv, Typed, Types, HeadsInOrder
<1>3. pc'[n] = "recover" /\ \A k \in Server : k # n => pc'[k] = pc[k]
  BY <1>1 DEF LInv, Typed, Types, HeadsInOrder
<1>4. Typed'
  <2>1. chosen' \in [Slot -> SUBSET (StableRecord \cup {BeMaster})]
    BY <1>2 DEF LInv, Typed, Types, HeadsInOrder
  <2> QED BY <1>1, <1>2, <2>1 DEF LInv, Typed, Types, HeadsInOrder
<1>5. /\ PromiseInv' /\ OpenInv' /\ HeadInv' /\ ReadInv' /\ Elected \subseteq Elected'
      /\ \A t \in Slot : chosen[t] \subseteq chosen'[t]
  <2>1. CASE chosen' # chosen
    <3>1. chosen' = [chosen EXCEPT ![s] = @ \cup {BeMaster}]
      BY <1>2, <2>1
    <3>2. BeMaster \notin chosen[s]
      BY <2>1, <3>1, <1>1 DEF LInv, Typed, Types, HeadsInOrder
    <3>3. chosen[s] = {}
      BY <1>1, <3>2 DEF LInv, PromiseInv
    <3> QED BY <1>1, <1>3, <3>1, <3>3, NewElection
  <2>2. CASE chosen' = chosen
    <3>1. Elected' = Elected /\ \A t : Gap(t)' = Gap(t)
      BY <2>2, Elections
    <3>2. PromiseInv'
      BY <1>1, <1>3, <2>2, <3>1 DEF LInv, PromiseInv
    <3>3. OpenInv'
      BY <1>1, <2>2 DEF LInv, OpenInv
    <3>4. HeadInv'
      <4>1. ASSUME NEW k \in Server, NEW e \in Elected PROVE HeadOf(k, e)'
        BY <1>1, <1>3, <2>2 DEF LInv, HeadInv, HeadOf
      <4> QED BY <1>1, <2>2, <3>1, <4>1 DEF LInv, HeadInv
    <3>5. ReadInv'
      <4>1. \A t, r : Entry(t, r)' = Entry(t, r)
        BY DEF Entry
      <4> QED BY <1>1, <2>2, <3>1, <4>1 DEF LInv, ReadInv
    <3> QED BY <2>2, <3>1, <3>2, <3>3, <3>4, <3>5
  <2> QED BY <2>1, <2>2
<1>6. TermInv'
  BY <1>1, <1>3, <1>4, <1>5, NoMaster DEF LInv, Typed, Types, HeadsInOrder, Master, TermInv
<1> QED BY <1>4, <1>5, <1>6 DEF LInv

-----------------------------------------------------------------------------
\* A call that ends well decides a slot that was undecided, and whoever has passed that
\* slot had skipped it.
LEMMA LogOKKeeps ==
    ASSUME LInv, NEW n \in Server, LogOK(n) PROVE LInv'
<1>1. PICK c \in calls[n] :
        /\ c.open
        /\ calls' = [calls EXCEPT ![n] = @ \ {c}]
        /\ chosen' = [chosen EXCEPT ![c.slot] = @ \cup {c.rec}]
        /\ acked' = acked \cup {Entry(c.slot, c.rec)}
        /\ local_db' = [local_db EXCEPT ![n] = @ \cup {Entry(c.slot, c.rec)}]
        /\ mv_window' = [mv_window EXCEPT ![n] = @ \cup {c.slot}]
        /\ rwhead' = [rwhead EXCEPT ![n] = Moved(@, mv_window'[n])]
        /\ UNCHANGED <<pc, failure, movedhead, first, promised, proposed>>
  BY DEF LogOK
<1> DEFINE s == c.slot
           u == Update(n)
           f == first[n]
           h == rwhead'[n]
<1>2. /\ pc[n] = "serve" /\ TermOf(n) /\ f \in Nat /\ Term(n) = f - window_size
      /\ Term(n) \in Elected
  BY DEF LInv, TermInv, Master, Term
<1>3. /\ s \in Slot /\ c.rec = u /\ chosen[s] = {} /\ s \notin promised
      /\ f <= s /\ s < movedhead[n] /\ f \in Slot
  <2>1. s \in Slot /\ c.rec = u /\ f <= s /\ s < movedhead[n]
    BY <1>2 DEF TermOf, LInv, Typed, Types, HeadsInOrder
  <2>2. chosen[s] = {} /\ s \notin promised
    BY <1>1 DEF LInv, OpenInv, PromiseInv
  <2> QED BY <1>2, <2>1, <2>2, SizeAssumption DEF Slot
<1>4. u \in StableRecord /\ u.first = f /\ u # BeMaster
      /\ Entry(s, u) \in [slot : Slot, rec : StableRecord]
      /\ Entry(s, u).slot = s /\ Entry(s, u).rec = u
  BY <1>3, UpdateType, EntryFields, BeMasterAssumption
<1> HIDE DEF s, u, f, h
<1>5. /\ calls'[n] = calls[n] \ {c} /\ mv_window'[n] = mv_window[n] \cup {s}
      /\ local_db'[n] = local_db[n] \cup {Entry(s, u)}
      /\ h = Moved(rwhead[n], mv_window'[n])
      /\ chosen'[s] = {u}
  BY <1>1, <1>3 DEF LInv, Typed, Types, HeadsInOrder, s, h
<1>6. /\ \A t \in Slot : t # s => chosen'[t] = chosen[t]
      /\ \A t \in Slot : chosen[t] \subseteq chosen'[t]
  BY <1>1, <1>3 DEF LInv, Typed, Types, HeadsInOrder, s
<1>7. \A m \in Server : m # n =>
        /\ calls'[m] = calls[m] /\ mv_window'[m] = mv_window[m]
        /\ local_db'[m] = local_db[m] /\ rwhead'[m] = rwhead[m]
  BY <1>1 DEF LInv, Typed, Types, HeadsInOrder
<1>8. Elected' = Elected /\ \A t : Gap(t)' = Gap(t)
  <2>1. Elected' = Elected
    BY <1>3, <1>4, <1>5, <1>6 DEF Elected
  <2> QED BY <2>1 DEF Gap
<1>9. rwhead[n] \in f .. MaxSlot - 1
  <2>1. rwhead[n] \in Nat /\ rwhead[n] >= f
    BY <1>2 DEF TermOf, LInv, Typed, Types, HeadsInOrder, f
  <2>2. CASE rwhead[n] = f
    BY <1>3, <2>2, SizeAssumption DEF Slot, f
  <2>3. CASE rwhead[n] > f
    <3>1. rwhead[n] \in mv_window[n]
      BY <1>2, <2>1, <2>3 DEF TermOf, f
    <3> QED BY <2>1, <3>1, SizeAssumption DEF LInv, Typed, Types, HeadsInOrder, Slot
  <2> QED BY <1>3, <2>1, <2>2, <2>3 DEF Slot
<1>10. /\ h \in rwhead[n] .. MaxSlot
       /\ \A t \in rwhead[n] + 1 .. h : t \in mv_window'[n]
  <2>1. mv_window'[n] \subseteq Slot
    BY <1>3, <1>5 DEF LInv, Typed, Types, HeadsInOrder
  <2>2. rwhead[n] \in 0 .. MaxSlot
    BY <1>2, <1>9, SizeAssumption DEF f
  <2>3. /\ rwhead[n] \in Nat /\ h \in Nat /\ h >= rwhead[n] /\ h <= MaxSlot
        /\ \A t \in rwhead[n] + 1 .. h : t \in mv_window'[n]
    BY <1>5, <2>1, <2>2, MovedHead
  <2> QED BY <2>3, SizeAssumption
<1>11. h \in Nat /\ rwhead[n] \in Nat /\ f <= h
  BY <1>2, <1>9, <1>10, SizeAssumption DEF f
<1>12. \A t \in mv_window'[n] : t # Term(n) =>
         /\ f <= t /\ t < movedhead[n]
         /\ u \in chosen'[t] /\ Entry(t, u) \in local_db'[n]
  <2> SUFFICES ASSUME NEW t \in mv_window'[n], t # Term(n)
               PROVE  /\ f <= t /\ t < movedhead[n]
                      /\ u \in chosen'[t] /\ Entry(t, u) \in local_db'[n]
    OBVIOUS
  <2>1. CASE t = s
    BY <1>3, <1>5, <2>1 DEF f, s, u
  <2>2. CASE t \in mv_window[n]
    <3>1. /\ f <= t /\ t < movedhead[n]
          /\ u \in chosen[t] /\ Entry(t, u) \in local_db[n]
      BY <1>2, <2>2 DEF TermOf, f, u
    <3>2. t \in Slot
      BY <2>2 DEF LInv, Typed, Types, HeadsInOrder
    <3> QED BY <1>5, <1>6, <3>1, <3>2
  <2> QED BY <1>5, <2>1, <2>2
\* What the head has passed since the first slot of the term.
<1>13. \A t \in f + 1 .. h : t \in mv_window'[n] /\ t # Term(n)
  <2> TAKE t \in f + 1 .. h
  <2>1. t # Term(n)
    BY <1>2, <1>11, SizeAssumption DEF f
  <2>2. CASE t <= rwhead[n]
    <3>1. t \in mv_window[n]
      BY <1>2, <1>11, <2>2 DEF TermOf, f
    <3> QED BY <1>5, <2>1, <3>1
  <2>3. CASE t > rwhead[n]
    BY <1>10, <1>11, <2>1, <2>3
  <2> QED BY <1>2, <1>11, <2>2, <2>3 DEF f
<1>14. h <= movedhead[n]
  <2>1. CASE h = f
    BY <1>2, <2>1 DEF TermOf, f, h
  <2>2. CASE h # f
    <3>1. h \in mv_window'[n] /\ h # Term(n)
      BY <1>2, <1>11, <1>13, <2>2 DEF f
    <3> QED BY <1>11, <1>12, <3>1 DEF LInv, Typed, Types, HeadsInOrder
  <2> QED BY <2>1, <2>2
<1>15. Typed'
  <2>1. calls' \in [Server -> SUBSET [slot : Slot, rec : StableRecord, open : BOOLEAN]]
    BY <1>1, <1>5, <1>7 DEF LInv, Typed, Types, HeadsInOrder
  <2>2. acked' \subseteq [slot : Slot, rec : StableRecord]
    BY <1>1, <1>3, <1>4 DEF LInv, Typed, Types, HeadsInOrder, s, u
  <2>3. local_db' \in [Server -> SUBSET [slot : Slot, rec : StableRecord]]
    BY <1>1, <1>4, <1>5, <1>7 DEF LInv, Typed, Types, HeadsInOrder
  <2>4. mv_window' \in [Server -> SUBSET Slot]
    BY <1>1, <1>3, <1>5, <1>7 DEF LInv, Typed, Types, HeadsInOrder
  <2>5. rwhead' \in [Server -> Nat]
    BY <1>1, <1>7, <1>11 DEF LInv, Typed, Types, HeadsInOrder, h
  <2>6. movedhead' \in [Server -> Nat] /\ \A k \in Server : rwhead'[k] <= movedhead'[k]
    BY <1>1, <1>7, <1>14 DEF LInv, Typed, Types, HeadsInOrder, h
  <2>7. chosen' \in [Slot -> SUBSET (StableRecord \cup {BeMaster})]
    BY <1>1, <1>3, <1>4 DEF LInv, Typed, Types, HeadsInOrder, s
  <2> QED BY <1>1, <2>1, <2>2, <2>3, <2>4, <2>5, <2>6, <2>7 DEF LInv, Typed, Types, HeadsInOrder
<1>16. PromiseInv'
  <2>1. (\A t \in promised : chosen[t] \subseteq {BeMaster})'
    BY <1>1, <1>3, <1>6 DEF LInv, PromiseInv, Typed, Types, HeadsInOrder
  <2>2. (\A m \in Server : \A d \in calls[m] : d.slot \in promised => ~d.open)'
    BY <1>1, <1>5, <1>7 DEF LInv, PromiseInv
  <2>3. (\A m \in Server : pc[m] = "to_be_master" => rwhead[m] \in promised)'
    BY <1>1, <1>2, <1>7 DEF LInv, PromiseInv
  <2> QED BY <1>1, <1>8, <2>1, <2>2, <2>3 DEF LInv, PromiseInv
<1>17. OpenInv'
  <2>1. (\A t \in Slot : \A r, q \in chosen[t] : r = q)'
    BY <1>5, <1>6 DEF LInv, OpenInv
  <2>2. \A m \in Server : \A d \in calls'[m] : d \in calls[m] /\ d.slot \in Slot
    BY <1>5, <1>7 DEF LInv, Typed, Types, HeadsInOrder
  <2>3. ASSUME NEW m \in Server, NEW d \in calls'[m], d.open PROVE d.slot # s
    BY <1>1, <1>5, <2>2, <2>3 DEF LInv, OpenInv, s
  <2>4. (\A m \in Server : \A d \in calls[m] : d.open => chosen[d.slot] = {})'
    BY <1>6, <2>2, <2>3 DEF LInv, OpenInv
  <2>5. (\A j, m \in Server : \A d \in calls[j], g \in calls[m] :
            d.open /\ g.open /\ d.slot = g.slot => j = m /\ d = g)'
    BY <2>2 DEF LInv, OpenInv
  <2> QED BY <2>1, <2>4, <2>5 DEF OpenInv
<1>18. TermInv'
  <2>1. \A m \in Server : Term(m)' = Term(m) /\ (Master(m)' <=> Master(m))
    BY <1>1, <1>2, <1>7 DEF Term, Master
  <2>2. ASSUME NEW m \in Server, pc[m] = "serve", m # n PROVE TermOf(m)'
    BY <2>2, <1>1, <1>6, <1>7, OthersTerm DEF LInv, TermInv
  <2>3. TermOf(n)'
    <3>1. Update(n)' = u /\ first'[n] = f
      BY <1>1 DEF Update, u, f
    <3>2. \A t, r : Entry(t, r)' = Entry(t, r)
      BY DEF Entry
    <3>3. (/\ rwhead[n] >= first[n] /\ movedhead[n] >= first[n]
           /\ \A t \in first[n] + 1 .. rwhead[n] : t \in mv_window[n])'
      <4>1. movedhead'[n] >= first'[n]
        BY <1>1, <1>2 DEF TermOf
      <4>2. rwhead'[n] >= first'[n]
        BY <1>2, <1>11, <3>1 DEF h, f
      <4> QED BY <1>13, <3>1, <4>1, <4>2 DEF h
    <3>4. (\A t \in mv_window[n] : t # Term(n) =>
              /\ first[n] <= t /\ t < movedhead[n]
              /\ Update(n) \in chosen[t] /\ Entry(t, Update(n)) \in local_db[n])'
      BY <1>1, <1>12, <2>1, <3>1, <3>2
    <3>5. (\A d \in calls[n] :
              /\ d.rec = Update(n)
              /\ first[n] <= d.slot /\ d.slot < movedhead[n]
              /\ d.slot <= rwhead[n] + window_size)'
      <4> SUFFICES ASSUME NEW d \in calls'[n]
                   PROVE  (/\ d.rec = Update(n)
                           /\ first[n] <= d.slot /\ d.slot < movedhead[n]
                           /\ d.slot <= rwhead[n] + window_size)'
        OBVIOUS
      <4>1. /\ d.rec = u /\ f <= d.slot /\ d.slot < movedhead[n]
            /\ d.slot <= rwhead[n] + window_size /\ d.slot \in Nat
        BY <1>2, <1>5, SizeAssumption DEF TermOf, u, f, LInv, Typed, Types, HeadsInOrder, Slot
      <4>2. rwhead[n] <= rwhead'[n] /\ rwhead'[n] \in Nat
        BY <1>10, <1>11 DEF h
      <4> QED BY <1>1, <1>11, <3>1, <4>1, <4>2, SizeAssumption
    <3>6. (\/ first[n] \in Slot /\ chosen[first[n]] # {}
           \/ \E d \in calls[n] : d.slot = first[n]
           \/ calls[n] = {} /\ ~failure[n] /\ movedhead[n] = first[n])'
      <4>1. CASE s = f
        BY <1>3, <1>5, <3>1, <4>1
      <4>2. CASE s # f
        BY <1>1, <1>2, <1>3, <1>5, <1>6, <3>1, <4>2 DEF TermOf, s, f
      <4> QED BY <4>1, <4>2
    <3> QED BY <3>3, <3>4, <3>5, <3>6 DEF TermOf
  <2>4. (\A m \in Server : pc[m] # "serve" => calls[m] = {} /\ ~failure[m])'
    BY <1>1, <1>2, <1>7 DEF LInv, TermInv
  <2>5. (\A m \in Server : pc[m] = "serve" => first[m] \in Nat /\ TermOf(m))'
    BY <1>1, <2>2, <2>3 DEF LInv, TermInv
  <2>6. (\A m \in Server : pc[m] = "skip" => mv_window[m] = {rwhead[m]})'
    BY <1>1, <1>2, <1>7 DEF LInv, TermInv
  <2>7. (/\ \A m \in Server : Master(m) => Term(m) \in Elected
         /\ \A m, k \in Server : Master(m) /\ Master(k) /\ Term(m) = Term(k) => m = k)'
    BY <1>8, <2>1 DEF LInv, TermInv
  <2> QED BY <2>4, <2>5, <2>6, <2>7 DEF TermInv
<1>19. \A e \in Elected : HeadOf(n, e)'
  <2> TAKE e \in Elected
  <2>1. e \in Slot /\ BeMaster \in chosen'[e]
    BY <1>8 DEF Elected
  <2>2. e \notin f + 1 .. h
    BY <1>4, <1>12, <1>13, <1>17, <2>1 DEF OpenInv
  <2>3. e > Term(n) => e > f
    <3>1. e > Term(n) => Term(n) + window_size < e
      BY <1>2 DEF LInv, HeadInv
    <3>2. Term(n) + window_size = f
      BY <1>2, SizeAssumption DEF f
    <3> QED BY <3>1, <3>2
  <2>4. e < Term(n) => e + window_size < Term(n)
    BY <1>2 DEF LInv, HeadInv
  <2>5. CASE e > Term(n)
    BY <1>2, <1>11, <2>1, <2>2, <2>3, <2>5, SizeAssumption DEF HeadOf, Slot, h, f
  <2>6. CASE e = Term(n)
    <3>1. e + window_size = f /\ first'[n] = f /\ pc'[n] = "serve"
      BY <1>1, <1>2, <2>6, SizeAssumption DEF f
    <3> QED BY <1>2, <1>11, <3>1 DEF HeadOf, h, f
  <2>7. CASE e < Term(n)
    BY <1>2, <1>11, <2>1, <2>4, <2>7, SizeAssumption DEF HeadOf, Slot, h, f
  <2> QED BY <1>2, <2>1, <2>5, <2>6, <2>7, SizeAssumption DEF Slot, f
\* Where the head had stopped: the first slot of the term, or a marked one.
<1>20. ASSUME NEW t \in Slot, rwhead[n] <= t, t < h
       PROVE  /\ chosen'[t] # {} \/ Gap(t)
              /\ ~Gap(t) => \A r \in chosen'[t] : Entry(t, r) \in local_db'[n]
  <2>1. CASE t = f
    <3>1. Gap(t)
      BY <1>2, <2>1, SizeAssumption DEF Gap, f
    <3> QED BY <3>1
  <2>2. CASE t # f
    <3>1. t \in f + 1 .. h
      BY <1>2, <1>9, <1>11, <1>20, <2>2, SizeAssumption DEF Slot, f
    <3>2. u \in chosen'[t] /\ Entry(t, u) \in local_db'[n]
      BY <1>12, <1>13, <3>1
    <3>3. \A r \in chosen'[t] : r = u
      BY <1>17, <3>2 DEF OpenInv
    <3> QED BY <3>2, <3>3
  <2> QED BY <2>1, <2>2
<1>21. HeadInv'
  <2>1. ASSUME NEW k \in Server, NEW e \in Elected PROVE HeadOf(k, e)'
    <3>1. CASE k = n
      BY <1>19, <3>1
    <3>2. CASE k # n
      BY <1>1, <1>6, <1>7, <3>2 DEF LInv, HeadInv, HeadOf
    <3> QED BY <3>1, <3>2
  <2>2. ASSUME NEW k \in Server, NEW t \in Slot, t < rwhead'[k] PROVE chosen'[t] # {} \/ Gap(t)
    <3>1. CASE t < rwhead[k]
      BY <1>6, <3>1 DEF LInv, HeadInv
    <3>2. CASE k = n /\ ~(t < rwhead[k])
      BY <1>11, <1>20, <2>2, <3>2 DEF h, Slot
    <3> QED BY <1>7, <2>2, <3>1, <3>2
  <2>3. ASSUME NEW e \in Elected PROVE \E k \in Server : e <= rwhead'[k]
    <3>1. PICK k \in Server : e <= rwhead[k]
      BY DEF LInv, HeadInv
    <3>2. e \in Nat /\ rwhead[k] \in Nat
      BY SizeAssumption DEF LInv, Typed, Types, HeadsInOrder, Elected, Slot
    <3>3. CASE k = n
      BY <1>10, <1>11, <3>1, <3>2, <3>3 DEF h
    <3> QED BY <1>7, <3>1, <3>3
  <2>4. (\A e, g \in Elected : e < g => e + window_size < g)'
    BY <1>8 DEF LInv, HeadInv
  <2> QED BY <1>8, <2>1, <2>2, <2>3, <2>4 DEF HeadInv
<1>22. ReadInv'
  <2>1. \A t, r : Entry(t, r)' = Entry(t, r)
    BY DEF Entry
  <2>2. ASSUME NEW k \in Server, NEW t \in Slot, t < rwhead'[k], ~Gap(t),
               NEW r \in chosen'[t], r # BeMaster
        PROVE  Entry(t, r) \in local_db'[k]
    <3>1. CASE t < rwhead[k]
      <4>1. t # s
        BY <1>3, <2>2, <3>1 DEF LInv, HeadInv
      <4>2. Entry(t, r) \in local_db[k]
        BY <1>6, <2>2, <3>1, <4>1 DEF LInv, ReadInv
      <4> QED BY <1>5, <1>7, <4>2
    <3>2. CASE k = n /\ ~(t < rwhead[k])
      BY <1>11, <1>20, <2>2, <3>2 DEF h, Slot
    <3> QED BY <1>7, <2>2, <3>1, <3>2
  <2>3. ASSUME NEW e \in acked'
        PROVE  /\ e.rec \in chosen'[e.slot]
               /\ e.rec.first \in Nat /\ e.rec.first <= e.slot
               /\ e.rec.first - window_size \in Elected
    <3>1. CASE e \in acked
      BY <1>6, <3>1 DEF LInv, ReadInv, Typed, Types, HeadsInOrder
    <3>2. CASE e = Entry(s, u)
      BY <1>2, <1>3, <1>4, <1>5, <3>2 DEF f, s
    <3>3. e \in acked \/ e = Entry(s, u)
      BY <1>1, <1>3 DEF s, u
    <3> QED BY <3>1, <3>2, <3>3
  <2> QED BY <1>8, <2>1, <2>2, <2>3 DEF ReadInv
<1> QED BY <1>15, <1>16, <1>17, <1>18, <1>21, <1>22 DEF LInv

-----------------------------------------------------------------------------
LEMMA NextKeeps ==
    ASSUME LInv, Sound', [Next]_vars PROVE LInv'
<1>1. ASSUME NEW n \in Server,
             \/ Log(n) \/ LogOK(n) \/ LogTimeout(n) \/ Restart(n)
             \/ Redo(n) \/ ToBeMaster(n) \/ Won(n) \/ Lost(n) \/ Skip(n)
      PROVE  LInv'
  <2>1. CASE Log(n) \/ LogOK(n) \/ LogTimeout(n) \/ Restart(n)
    BY <2>1, LogKeeps, LogOKKeeps, LogTimeoutKeeps, RestartKeeps
  <2>2. CASE Redo(n) \/ ToBeMaster(n) \/ Won(n) \/ Lost(n) \/ Skip(n)
    BY <2>2, RedoKeeps, ToBeMasterKeeps, WonKeeps, LostKeeps, SkipKeeps
  <2> QED BY <1>1, <2>1, <2>2
<1>2. CASE UNCHANGED vars
  <2>1. UNCHANGED <<pc, failure, rwhead, movedhead, mv_window, first, calls, local_db,
                    promised, proposed, chosen, acked>>
    BY <1>2 DEF vars, heads, slots
  <2>2. Elected' = Elected /\ \A t : Gap(t)' = Gap(t)
    BY <2>1, Elections
  <2>3. Typed'
    BY <2>1 DEF LInv, Typed, Types, HeadsInOrder
  <2>4. PromiseInv'
    BY <2>1, <2>2 DEF LInv, PromiseInv
  <2>5. OpenInv'
    BY <2>1 DEF LInv, OpenInv
  <2>6. TermInv'
    <3>1. \A m \in Server : Term(m)' = Term(m) /\ (Master(m)' <=> Master(m))
      BY <2>1 DEF Term, Master
    <3>2. ASSUME NEW m \in Server, pc'[m] = "serve" PROVE first'[m] \in Nat /\ TermOf(m)'
      BY <2>1, <3>2, OthersTerm DEF LInv, TermInv
    <3> QED BY <2>1, <2>2, <3>1, <3>2 DEF LInv, TermInv
  <2>7. HeadInv'
    BY <2>1, <2>2 DEF LInv, HeadInv, HeadOf
  <2>8. ReadInv'
    <3>1. \A t, r : Entry(t, r)' = Entry(t, r)
      BY DEF Entry
    <3> QED BY <2>1, <2>2, <3>1 DEF LInv, ReadInv
  <2> QED BY <2>3, <2>4, <2>5, <2>6, <2>7, <2>8 DEF LInv
<1> QED BY <1>1, <1>2 DEF Next

\* What is broken stays broken.
LEMMA BrokenGrows ==
    ASSUME [Next]_vars PROVE Sound' => Sound
<1>1. CASE Next
  <2>1. broken \subseteq broken'
    BY <1>1, Zenon DEF Next, Log, LogOK, LogTimeout, Restart, Redo, ToBeMaster, Won, Lost, Skip
  <2> QED BY <2>1 DEF Sound
<1>2. CASE UNCHANGED vars
  BY <1>2 DEF vars, Sound
<1> QED BY <1>1, <1>2

\* The servers over one log keep LInv until a circumstance fails that they lean on.
THEOREM LogInvariant == Spec => []LInvWhileSound
<1>1. Init => LInvWhileSound
  BY Initially DEF LInvWhileSound
<1>2. LInvWhileSound /\ [Next]_vars => LInvWhileSound'
  BY NextKeeps, BrokenGrows DEF LInvWhileSound
<1> QED BY <1>1, <1>2, PTL DEF Spec

\* In every circumstance the types hold: a server runs for a slot alone, and what it logs
\* as master carries a slot.
LEMMA TypesAtFirst == Init => TypesInv
BY SizeAssumption DEF Init, TypesInv, Types, StableRecord

LEMMA TypesKept ==
    ASSUME TypesInv, [Next]_vars PROVE TypesInv'
<1>1. ASSUME NEW n \in Server, Log(n) PROVE TypesInv'
  <2>1. PICK ok \in BOOLEAN :
          /\ Primary(n) /\ movedhead[n] \in Slot
          /\ movedhead' = [movedhead EXCEPT ![n] = @ + 1]
          /\ calls' = [calls EXCEPT ![n] =
                @ \cup {[slot |-> movedhead[n], rec |-> Update(n), open |-> ok]}]
          /\ UNCHANGED <<pc, failure, rwhead, mv_window, first, local_db, slots, acked>>
    BY <1>1 DEF Log
  <2>2. first[n] \in Slot \cup {None}
    BY <2>1, SizeAssumption DEF TypesInv, Types, Slot, Primary
  <2>3. Update(n) \in StableRecord
    BY <2>2 DEF Update, StableRecord
  <2>4. [slot |-> movedhead[n], rec |-> Update(n), open |-> ok]
            \in [slot : Slot, rec : StableRecord, open : BOOLEAN]
    BY <2>1, <2>3
  <2>5. movedhead[n] \in Nat /\ movedhead[n] + 1 \in Nat
    BY DEF TypesInv, Types
  <2>6. calls' \in [Server -> SUBSET [slot : Slot, rec : StableRecord, open : BOOLEAN]]
    BY <2>1, <2>4 DEF TypesInv, Types
  <2>7. Types'
    BY <2>1, <2>5, <2>6 DEF TypesInv, Types, slots
  <2> QED BY <2>1, <2>5, <2>7 DEF TypesInv, Types, Primary
<1>2. ASSUME NEW n \in Server, LogOK(n) PROVE TypesInv'
  <2>1. PICK c \in calls[n] :
          /\ calls' = [calls EXCEPT ![n] = @ \ {c}]
          /\ chosen' = [chosen EXCEPT ![c.slot] = @ \cup {c.rec}]
          /\ acked' = acked \cup {Entry(c.slot, c.rec)}
          /\ local_db' = [local_db EXCEPT ![n] = @ \cup {Entry(c.slot, c.rec)}]
          /\ mv_window' = [mv_window EXCEPT ![n] = @ \cup {c.slot}]
          /\ rwhead' = [rwhead EXCEPT ![n] = Moved(@, mv_window'[n])]
          /\ UNCHANGED <<pc, failure, movedhead, first, promised, proposed>>
    BY <1>2 DEF LogOK
  <2>2. c.slot \in Slot /\ c.rec \in StableRecord
    BY <2>1 DEF TypesInv, Types
  <2>3. Entry(c.slot, c.rec) \in [slot : Slot, rec : StableRecord]
    BY <2>2, EntryFields
  <2>4. mv_window' \in [Server -> SUBSET Slot]
    BY <2>1, <2>2 DEF TypesInv, Types
  <2>5. Moved(rwhead[n], mv_window'[n]) \in Nat
    BY <2>4, MovedHead DEF TypesInv, Types
  <2>6. rwhead' \in [Server -> Nat]
    BY <2>1, <2>5 DEF TypesInv, Types
  <2>7. Types'
    BY <2>1, <2>2, <2>3, <2>4, <2>6 DEF TypesInv, Types
  <2>8. pc[n] \notin {"recover", "to_be_master"}
    BY <2>1 DEF TypesInv
  <2> QED BY <2>1, <2>7, <2>8 DEF TypesInv, Types
<1>3. ASSUME NEW n \in Server, LogTimeout(n) \/ Restart(n) PROVE TypesInv'
  <2>1. CASE LogTimeout(n)
    <3>1. /\ failure' = [failure EXCEPT ![n] = TRUE]
          /\ \E c \in calls[n] : calls' = [calls EXCEPT ![n] = @ \ {c}]
          /\ UNCHANGED <<pc, rwhead, movedhead, mv_window, first, local_db, promised,
                         proposed, chosen, acked>>
      BY <2>1 DEF LogTimeout, heads, slots
    <3>2. calls' \in [Server -> SUBSET [slot : Slot, rec : StableRecord, open : BOOLEAN]]
      BY <3>1 DEF TypesInv, Types
    <3>3. \A m \in Server : calls'[m] \subseteq calls[m]
      BY <3>1 DEF TypesInv, Types
    <3>4. Types'
      BY <3>1, <3>2 DEF TypesInv, Types
    <3> QED BY <3>1, <3>3, <3>4 DEF TypesInv
  <2>2. CASE Restart(n)
    <3>1. Types'
      BY <2>2 DEF Restart, TypesInv, Types, slots
    <3> QED BY <2>2, <3>1 DEF Restart, TypesInv, Types
  <2> QED BY <1>3, <2>1, <2>2
<1>4. ASSUME NEW n \in Server, Redo(n) PROVE TypesInv'
  <2>1. PICK rec \in chosen[rwhead[n]], k \in {1, 1 + window_size} :
          /\ rwhead[n] \in Slot /\ pc[n] = "recover" /\ Advance(n, k)
          /\ \/ UNCHANGED local_db
             \/ /\ rec # BeMaster
                /\ local_db' = [local_db EXCEPT ![n] = @ \cup {Entry(rwhead[n], rec)}]
          /\ UNCHANGED <<pc, failure, mv_window, first, calls, slots, acked>>
    BY <1>4 DEF Redo
  <2>2. rec # BeMaster => Entry(rwhead[n], rec) \in [slot : Slot, rec : StableRecord]
    BY <2>1, EntryFields DEF TypesInv, Types
  <2>3. local_db' \in [Server -> SUBSET [slot : Slot, rec : StableRecord]]
    BY <2>1, <2>2 DEF TypesInv, Types
  <2>4. rwhead' \in [Server -> Nat] /\ movedhead' \in [Server -> Nat]
        /\ \A m \in Server : m # n => rwhead'[m] = rwhead[m] /\ movedhead'[m] = movedhead[m]
    BY <2>1, SizeAssumption DEF Advance, TypesInv, Types
  <2> QED BY <2>1, <2>3, <2>4 DEF TypesInv, Types, slots
<1>5. ASSUME NEW n \in Server, ToBeMaster(n) PROVE TypesInv'
  BY <1>5 DEF ToBeMaster, TypesInv, Types, heads
<1>6. ASSUME NEW n \in Server, Won(n) PROVE TypesInv'
  <2>1. rwhead[n] \in Slot /\ rwhead[n] + 1 \in Nat
    BY <1>6 DEF Won, TypesInv, Types
  <2>2. chosen' \in [Slot -> SUBSET (StableRecord \cup {BeMaster})]
    BY <1>6, <2>1 DEF Won, TypesInv, Types
  <2>3. mv_window' \in [Server -> SUBSET Slot] /\ movedhead' \in [Server -> Nat]
    BY <1>6, <2>1 DEF Won, TypesInv, Types
  <2>4. Types'
    BY <1>6, <2>2, <2>3 DEF Won, TypesInv, Types
  <2> QED BY <1>6, <2>4 DEF Won, TypesInv, Types
<1>7. ASSUME NEW n \in Server, Lost(n) PROVE TypesInv'
  <2>1. rwhead[n] \in Slot
    BY <1>7 DEF Lost, TypesInv, Types
  <2>2. proposed' \subseteq Slot /\ chosen' \in [Slot -> SUBSET (StableRecord \cup {BeMaster})]
    BY <1>7, <2>1 DEF Lost, TypesInv, Types
  <2> QED BY <1>7, <2>1, <2>2 DEF Lost, TypesInv, Types, heads
<1>8. ASSUME NEW n \in Server, Skip(n) PROVE TypesInv'
  <2>1. rwhead[n] + window_size \in Nat
    BY SizeAssumption DEF TypesInv, Types
  <2> QED BY <1>8, <2>1 DEF Skip, Advance, TypesInv, Types, slots
<1>9. CASE UNCHANGED vars
  BY <1>9 DEF vars, heads, slots, TypesInv, Types
<1> QED BY <1>1, <1>2, <1>3, <1>4, <1>5, <1>6, <1>7, <1>8, <1>9 DEF Next

LEMMA BrokenType ==
    ASSUME broken \subseteq Circumstance, [Next]_vars PROVE broken' \subseteq Circumstance
<1>1. CASE Next
  <2>1. ASSUME NEW w, NEW c \in Circumstance PROVE Fails(c, w) \subseteq Circumstance
    BY DEF Fails
  <2>2. {"learned", "expired", "first", "alone", "window"} \subseteq Circumstance
    BY DEF Circumstance
  <2>3. PICK n \in Server :
           \/ Log(n) \/ LogOK(n) \/ LogTimeout(n) \/ Restart(n)
           \/ Redo(n) \/ ToBeMaster(n) \/ Won(n) \/ Lost(n) \/ Skip(n)
    BY <1>1 DEF Next
  <2>4. CASE Log(n)
    BY <2>1, <2>2, <2>4, Zenon DEF Log
  <2>5. CASE LogTimeout(n)
    BY <2>1, <2>2, <2>5, Zenon DEF LogTimeout
  <2>6. CASE ToBeMaster(n)
    BY <2>1, <2>2, <2>6, Zenon DEF ToBeMaster
  <2>7. CASE Won(n)
    BY <2>1, <2>2, <2>7, Zenon DEF Won
  <2>8. CASE LogOK(n) \/ Restart(n) \/ Redo(n) \/ Lost(n) \/ Skip(n)
    BY <2>8, Zenon DEF LogOK, Restart, Redo, Lost, Skip
  <2> QED BY <2>3, <2>4, <2>5, <2>6, <2>7, <2>8
<1>2. CASE UNCHANGED vars
  BY <1>2 DEF vars
<1> QED BY <1>1, <1>2

\* Nothing gets out of its type, whatever circumstance fails; and while none has, what a
\* server logs next is never behind what it reads.
THEOREM LogTypes == Spec => []TypeOK
<1> DEFINE I == TypesInv /\ broken \subseteq Circumstance
<1>1. Init => I
  BY TypesAtFirst DEF Init
<1>2. I /\ [Next]_vars => I'
  BY TypesKept, BrokenType
<1>3. I /\ LInvWhileSound => TypeOK
  BY DEF TypesInv, LInvWhileSound, LInv, Typed, TypeOK
<1> HIDE DEF I
<1> QED BY <1>1, <1>2, <1>3, LogInvariant, PTL DEF Spec

\* Until a circumstance fails one record is decided per slot, although log() writes at a ballot that elections never
\* read: a master's calls end before the first slot of the next master's term.
THEOREM OneRecord == Spec => []OneRecordPerSlot
<1>1. ASSUME LInv, NEW s \in Slot PROVE Cardinality(chosen[s]) <= 1
  <2>1. CASE chosen[s] = {}
    BY <2>1, FS_EmptySet
  <2>2. CASE chosen[s] # {}
    <3>1. PICK r \in chosen[s] : chosen[s] = {r}
      BY <1>1, <2>2 DEF LInv, OpenInv
    <3>2. Cardinality({r}) = 1
      BY FS_Singleton
    <3> QED BY <3>1, <3>2
  <2> QED BY <2>1, <2>2
<1>2. LInvWhileSound => OneRecordPerSlot
  BY <1>1 DEF OneRecordPerSlot, LInvWhileSound
<1> QED BY LogInvariant, <1>2, PTL

\* Until a circumstance fails, what a master has acknowledged behind no hole, but for its
\* first record, is in the table of every server whose head has passed it: no later
\* election skips it.
THEOREM AcknowledgedSurvives == Spec => []SurvivesTerm
<1>1. ASSUME LInv, NEW e \in acked, Unbroken(e), e.slot > e.rec.first, NEW n \in Passed(e)
      PROVE  e \in local_db[n]
  <2> DEFINE t == e.rec.first - window_size
  <2>1. /\ e.slot \in Slot /\ e.rec \in StableRecord /\ e = Entry(e.slot, e.rec)
        /\ e.rec \in chosen[e.slot] /\ e.rec.first \in Nat /\ t \in Elected
        /\ e.rec # BeMaster
    BY <1>1, BeMasterAssumption DEF LInv, Typed, Types, HeadsInOrder, ReadInv, Entry
  <2>2. ~Gap(e.slot)
    <3> SUFFICES ASSUME NEW f \in Elected, f < e.slot, e.slot <= f + window_size
                 PROVE  FALSE
      BY DEF Gap
    <3>1. f \in Slot /\ BeMaster \in chosen[f]
      BY DEF Elected
    <3>2. (f < t => f + window_size < t) /\ (t < f => t + window_size < f)
      BY <1>1, <2>1 DEF LInv, HeadInv
    <3>3. t < f /\ e.rec.first < f
      BY <1>1, <2>1, <3>1, <3>2, SizeAssumption DEF Slot
    <3>4. Entry(f, e.rec) \in acked
      BY <1>1, <2>1, <3>1, <3>3, SizeAssumption DEF Unbroken, Slot
    <3>5. e.rec \in chosen[f]
      BY <1>1, <3>4, EntryFields DEF LInv, ReadInv
    <3> QED BY <1>1, <2>1, <3>1, <3>5 DEF LInv, OpenInv
  <2>3. n \in Server /\ e.slot < rwhead[n]
    BY <1>1, <2>1 DEF Passed, LInv, Typed, Types, HeadsInOrder, Slot
  <2> QED BY <1>1, <2>1, <2>2, <2>3 DEF LInv, ReadInv
<1>2. LInvWhileSound => SurvivesTerm
  BY <1>1 DEF SurvivesTerm, LInvWhileSound
<1> QED BY LogInvariant, <1>2, PTL

-----------------------------------------------------------------------------
(***************************************************************************)
(* The servers implement the shared log.                                   *)
(***************************************************************************)
\* The elections and the reserved slots of the shared log are those of the invariant.
LEMMA SharedNames ==
    /\ Shared!Elections = Elected
    /\ \A t : Shared!Reserved(t) <=> Gap(t)
BY DEF Shared!Elections, Shared!Reserved, Elected, Gap

\* After a step there is nothing left for n to do at slot t.
Behind(n, t) ==
    chosen'[t] # {} /\ \A r \in chosen'[t] \ {BeMaster} : Entry(t, r) \in local_db'[n]

\* A slot decides once.
LEMMA Decides ==
    ASSUME LInv, NEW t \in Slot, NEW r \in chosen[t]
    PROVE  chosen[t] = {r}
BY DEF LInv, OpenInv

\* Nobody has read past a slot that is undecided and not reserved.
LEMMA UnreadSlot ==
    ASSUME LInv, NEW s \in Slot, chosen[s] = {}
    PROVE  Shared!Unread(s) \/ Shared!Reserved(s)
<1> SUFFICES ASSUME ~Gap(s), NEW k \in Server PROVE rwhead[k] <= s
  BY SharedNames DEF Shared!Unread
<1>1. ~(s < rwhead[k])
  BY DEF LInv, HeadInv
<1>2. rwhead[k] \in Nat /\ s \in Nat
  BY SizeAssumption DEF Slot, LInv, Typed, Types, HeadsInOrder
<1> QED BY <1>1, <1>2

\* An election that is decided.
LEMMA ElectStep ==
    ASSUME LInv, NEW n \in Server, pc[n] = "to_be_master", chosen[rwhead[n]] = {},
           chosen' = [chosen EXCEPT ![rwhead[n]] = @ \cup {BeMaster}],
           UNCHANGED <<rwhead, local_db, acked>>
    PROVE  Shared!LNext
<1> DEFINE s == rwhead[n]
<1>1. s \in Slot /\ Shared!Unread(s)
  BY Virgin DEF Shared!Unread
<1>2. chosen' = [chosen EXCEPT ![s] = {BeMaster}]
  BY <1>1 DEF LInv, Typed, Types, HeadsInOrder
<1>3. Shared!Elect(s)
  BY <1>1, <1>2 DEF Shared!Elect
<1> QED BY <1>1, <1>3 DEF Shared!LNext

\* A head that goes on past slots that are done with or reserved.
LEMMA OnwardStep ==
    ASSUME Typed, Typed', NEW n \in Server, NEW h,
           rwhead' = [rwhead EXCEPT ![n] = h], h >= rwhead[n],
           \A t \in Slot : rwhead[n] <= t /\ t < h => Gap(t) \/ Behind(n, t)
    PROVE  Shared!Onward(n)
<1>1. rwhead' \in [Server -> Nat] /\ rwhead'[n] = h
  BY DEF Typed, Types, HeadsInOrder
<1>2. \A m \in Server \ {n} : rwhead'[m] = rwhead[m]
  BY DEF Typed, Types, HeadsInOrder
<1>3. ASSUME NEW t \in Slot, rwhead[n] <= t, t < rwhead'[n]
      PROVE  Shared!Reserved(t) \/ Shared!Done(n, t)'
  <2>1. CASE Gap(t)
    BY <2>1, SharedNames
  <2>2. CASE Behind(n, t)
    BY <2>2 DEF Behind, Shared!Done, Shared!At, Entry
  <2> QED BY <1>1, <1>3, <2>1, <2>2
<1> QED BY <1>1, <1>2, <1>3 DEF Shared!Onward

\* Redo reads a slot; after an election it goes past those that are reserved.
LEMMA RedoShared ==
    ASSUME LInv, NEW n \in Server, Redo(n) PROVE Shared!LNext
<1> DEFINE s == rwhead[n]
<1>1. PICK rec \in chosen[s] :
        IF rec = BeMaster
        THEN Advance(n, 1 + window_size) /\ UNCHANGED local_db
        ELSE /\ Advance(n, 1)
             /\ local_db' = [local_db EXCEPT ![n] = @ \cup {Entry(rwhead[n], rec)}]
  BY DEF Redo
<1>2. s \in Slot /\ s \in Nat /\ UNCHANGED <<chosen, acked>>
  BY SizeAssumption DEF Redo, Slot, slots
<1>3. Typed /\ Typed' /\ chosen[s] = {rec} /\ chosen'[s] = {rec}
  BY <1>2, RedoKeeps, Decides DEF LInv
<1>4. CASE rec = BeMaster
  <2>1. rwhead' = [rwhead EXCEPT ![n] = s + (1 + window_size)] /\ local_db' = local_db
    BY <1>1, <1>4 DEF Advance
  <2>2. s \in Elected
    BY <1>2, <1>3, <1>4 DEF Elected
  <2>3. ASSUME NEW t \in Slot, s <= t, t < s + (1 + window_size)
        PROVE  Gap(t) \/ Behind(n, t)
    <3>1. CASE t = s
      BY <1>3, <1>4, <3>1 DEF Behind
    <3>2. CASE t # s
      BY <1>2, <2>2, <2>3, <3>2, SizeAssumption DEF Gap, Slot
    <3> QED BY <3>1, <3>2
  <2>4. Shared!Onward(n)
    <3>1. s + (1 + window_size) >= rwhead[n]
      BY <1>2, SizeAssumption
    <3> QED BY <1>3, <2>1, <2>3, <3>1, OnwardStep, Zenon
  <2>5. Shared!Follow(n)
    BY <1>2, <2>1, <2>4 DEF Shared!Follow
  <2> QED BY <2>5 DEF Shared!LNext
<1>5. CASE rec # BeMaster
  <2>1. /\ rwhead' = [rwhead EXCEPT ![n] = s + 1]
        /\ local_db' = [local_db EXCEPT ![n] = @ \cup {Shared!At(s, rec)}]
    BY <1>1, <1>5 DEF Advance, Shared!At, Entry
  <2>2. Entry(s, rec) \in local_db'[n]
    BY <1>3, <2>1 DEF Typed, Types, HeadsInOrder, Shared!At, Entry
  <2>3. ASSUME NEW t \in Slot, s <= t, t < s + 1
        PROVE  Gap(t) \/ Behind(n, t)
    <3>1. t = s
      BY <1>2, <2>3, SizeAssumption DEF Slot
    <3> QED BY <1>3, <2>2, <3>1 DEF Behind
  <2>4. Shared!Onward(n)
    <3>1. s + 1 >= rwhead[n]
      BY <1>2
    <3> QED BY <1>3, <2>1, <2>3, <3>1, OnwardStep, Zenon
  <2>5. Shared!Follow(n)
    BY <1>1, <1>2, <1>5, <2>1, <2>4 DEF Shared!Follow
  <2> QED BY <2>5 DEF Shared!LNext
<1> QED BY <1>4, <1>5

\* The winner goes past its election and the slots reserved by it, to the first of its term.
LEMMA SkipShared ==
    ASSUME LInv, NEW n \in Server, Skip(n) PROVE Shared!LNext
<1> DEFINE s == rwhead[n]
<1>1. /\ pc[n] = "skip" /\ rwhead' = [rwhead EXCEPT ![n] = s + window_size]
      /\ UNCHANGED <<local_db, chosen, acked>>
  BY DEF Skip, Advance, slots
<1>2. s \in Elected /\ s \in Slot /\ s \in Nat
  BY <1>1, SizeAssumption DEF LInv, TermInv, Master, Term, Elected, Slot
<1>3. Typed /\ Typed' /\ chosen[s] = {BeMaster}
  BY <1>2, SkipKeeps, Decides DEF LInv, Elected
<1>4. ASSUME NEW t \in Slot, s <= t, t < s + window_size
      PROVE  Gap(t) \/ Behind(n, t)
  <2>1. CASE t = s
    BY <1>1, <1>3, <2>1 DEF Behind
  <2>2. CASE t # s
    BY <1>2, <1>4, <2>2, SizeAssumption DEF Gap, Slot
  <2> QED BY <2>1, <2>2
<1>5. Shared!Onward(n)
  <2>1. s + window_size >= rwhead[n]
    BY <1>2, SizeAssumption
  <2> QED BY <1>1, <1>3, <1>4, <2>1, OnwardStep, Zenon
<1>6. Shared!Follow(n)
  BY <1>1, <1>5 DEF Shared!Follow
<1> QED BY <1>6 DEF Shared!LNext

\* A stable log that ends well: its slot is undecided, in the term of its master, and
\* nobody has read past it.
LEMMA LogOKShared ==
    ASSUME LInv, NEW n \in Server, LogOK(n) PROVE Shared!LNext
<1>1. PICK c \in calls[n] :
        /\ c.open
        /\ chosen' = [chosen EXCEPT ![c.slot] = @ \cup {c.rec}]
        /\ acked' = acked \cup {Entry(c.slot, c.rec)}
        /\ local_db' = [local_db EXCEPT ![n] = @ \cup {Entry(c.slot, c.rec)}]
        /\ mv_window' = [mv_window EXCEPT ![n] = @ \cup {c.slot}]
        /\ rwhead' = [rwhead EXCEPT ![n] = Moved(@, mv_window'[n])]
        /\ UNCHANGED <<pc, first>>
  BY DEF LogOK
<1> DEFINE s == c.slot
           u == Update(n)
           f == first[n]
           h == Moved(rwhead[n], mv_window'[n])
<1>2. LInv' /\ Typed /\ Typed'
  BY LogOKKeeps DEF LInv
<1>3. pc[n] = "serve" /\ TermOf(n) /\ f \in Nat /\ Term(n) = f - window_size /\ Term(n) \in Elected
  BY DEF LInv, TermInv, Master, Term
<1>4. /\ s \in Slot /\ s \in Nat /\ c.rec = u /\ f <= s /\ f \in Slot
      /\ s <= rwhead[n] + window_size /\ chosen[s] = {}
  <2>1. s \in Slot /\ c.rec = u /\ f <= s /\ s <= rwhead[n] + window_size
    BY <1>2, <1>3 DEF TermOf, Typed, Types, HeadsInOrder
  <2>2. chosen[s] = {}
    BY <1>1 DEF LInv, OpenInv
  <2> QED BY <1>3, <2>1, <2>2, SizeAssumption DEF Slot
<1>5. u \in StableRecord /\ u.by = n /\ u.first = f
  BY <1>4 DEF Update, StableRecord
<1>6. Shared!InTerm(f, s)
  <2>1. f - window_size \in Elected
    BY <1>3
  <2>2. ASSUME NEW e \in Elected, f < e + window_size PROVE s < e + window_size
    <3>1. e \in Nat /\ rwhead[n] \in Nat
      BY <1>2, SizeAssumption DEF Elected, Slot, Typed, Types, HeadsInOrder
    <3>2. e > Term(n)
      BY <1>3, <2>2, <3>1, SizeAssumption
    <3>3. rwhead[n] < e
      BY <1>3, <3>2, Below
    <3> QED BY <1>4, <3>1, <3>3, SizeAssumption
  <2> QED BY <1>3, <1>4, <2>1, <2>2, SharedNames DEF Shared!InTerm
<1>7. rwhead[n] \in f .. MaxSlot - 1
  <2>1. rwhead[n] \in Nat /\ rwhead[n] >= f
    BY <1>2, <1>3 DEF TermOf, Typed, Types, HeadsInOrder
  <2>2. CASE rwhead[n] = f
    BY <1>4, <2>2, SizeAssumption DEF Slot
  <2>3. CASE rwhead[n] > f
    <3>1. rwhead[n] \in mv_window[n]
      BY <1>3, <2>1, <2>3 DEF TermOf
    <3> QED BY <1>2, <2>1, <3>1, SizeAssumption DEF Typed, Types, HeadsInOrder, Slot
  <2> QED BY <1>4, <2>1, <2>2, <2>3, SizeAssumption DEF Slot
<1>8. /\ mv_window'[n] \subseteq Slot /\ rwhead[n] \in 0 .. MaxSlot
      /\ rwhead' = [rwhead EXCEPT ![n] = h]
  BY <1>1, <1>2, <1>3, <1>7, SizeAssumption DEF Typed, Types, HeadsInOrder
<1>9. h \in rwhead[n] .. MaxSlot /\ rwhead'[n] = h
  <2>1. rwhead[n] \in Nat /\ h \in Nat /\ h >= rwhead[n] /\ h <= MaxSlot
    BY <1>8, MovedHead
  <2> QED BY <1>2, <1>8, <2>1, SizeAssumption DEF Typed, Types, HeadsInOrder
<1>10. ASSUME NEW t \in Slot, rwhead[n] <= t, t < h
       PROVE  Gap(t) \/ Behind(n, t)
  <2>0. t \in Nat /\ h \in Nat /\ f <= t
    BY <1>3, <1>7, <1>9, <1>10, SizeAssumption DEF Slot
  <2>1. CASE t = f
    <3>1. Term(n) < t /\ t <= Term(n) + window_size
      BY <1>3, <2>1, SizeAssumption
    <3> QED BY <1>3, <3>1 DEF Gap
  <2>2. CASE t # f
    <3>1. TermOf(n)' /\ first'[n] = f /\ Update(n)' = u /\ Term(n)' = Term(n)
      BY <1>1, <1>2, <1>3 DEF LInv, TermInv, Update, Term
    <3>2. t \in mv_window'[n]
      <4>1. t \in f + 1 .. h
        BY <1>3, <1>10, <2>0, <2>2
      <4> QED BY <1>9, <3>1, <4>1 DEF TermOf
    <3>3. t # Term(n)
      BY <1>3, <2>0, SizeAssumption
    <3>4. u \in chosen'[t] /\ Entry(t, u) \in local_db'[n]
      BY <3>1, <3>2, <3>3 DEF TermOf, Entry
    <3>5. chosen'[t] = {u}
      BY <1>2, <3>4 DEF LInv, OpenInv
    <3> QED BY <3>4, <3>5 DEF Behind
  <2> QED BY <2>1, <2>2
<1>11. Shared!Onward(n)
  <2>1. h >= rwhead[n]
    BY <1>3, <1>7, <1>9, SizeAssumption
  <2> QED BY <1>2, <1>8, <1>10, <2>1, OnwardStep, Zenon
<1>12. /\ chosen' = [chosen EXCEPT ![s] = {u}]
       /\ acked' = acked \cup {Shared!At(s, u)}
       /\ local_db' = [local_db EXCEPT ![n] = @ \cup {Shared!At(s, u)}]
  BY <1>1, <1>2, <1>4 DEF Typed, Types, HeadsInOrder, Shared!At, Entry
<1>13. Shared!Unread(s) \/ Shared!Reserved(s)
  BY <1>4, UnreadSlot
<1>14. Shared!Append(n, s)
  <2> HIDE DEF s, u, f, h
  <2> QED BY <1>4, <1>5, <1>6, <1>11, <1>12, <1>13 DEF Shared!Append
<1> QED BY <1>4, <1>14 DEF Shared!LNext

\* Every step of the servers is one of the shared log, or changes nothing there.
LEMMA SharedStep ==
    ASSUME LInv, Sound', [Next]_vars
    PROVE  [Shared!LNext]_(Shared!lvars)
<1>1. ASSUME UNCHANGED <<chosen, rwhead, local_db, acked>>
      PROVE  UNCHANGED Shared!lvars
  BY <1>1 DEF Shared!lvars
<1>2. ASSUME NEW n \in Server, Log(n) \/ LogTimeout(n) \/ Restart(n) \/ ToBeMaster(n)
      PROVE  UNCHANGED <<chosen, rwhead, local_db, acked>>
  BY <1>2 DEF Log, LogTimeout, Restart, ToBeMaster, heads, slots
<1>3. ASSUME NEW n \in Server, Won(n) PROVE Shared!LNext
  
  <2>1. chosen[rwhead[n]] = {}
    BY <1>3 DEF Won, LInv, PromiseInv, Sound, Fails
  <2> QED BY <1>3, <2>1, ElectStep DEF Won
<1>4. ASSUME NEW n \in Server, Lost(n)
      PROVE  Shared!LNext \/ UNCHANGED <<chosen, rwhead, local_db, acked>>
  <2>1. pc[n] = "to_be_master" /\ UNCHANGED <<rwhead, local_db, acked>>
    BY <1>4 DEF Lost, heads
  <2>2. CASE chosen' = chosen
    BY <2>1, <2>2
  <2>3. CASE chosen' = [chosen EXCEPT ![rwhead[n]] = @ \cup {BeMaster}]
    <3>1. CASE chosen[rwhead[n]] = {}
      BY <2>1, <2>3, <3>1, ElectStep
    <3>2. CASE chosen[rwhead[n]] # {}
      <4>1. rwhead[n] \in Slot /\ chosen[rwhead[n]] = {BeMaster}
        BY <2>1, <3>2 DEF LInv, PromiseInv, Typed, Types, HeadsInOrder
      <4>2. chosen' = chosen
        BY <2>3, <4>1 DEF LInv, Typed, Types, HeadsInOrder
      <4> QED BY <2>2, <4>2
    <3> QED BY <3>1, <3>2
  <2> QED BY <1>4, <2>2, <2>3 DEF Lost
<1>5. CASE UNCHANGED vars
  BY <1>1, <1>5 DEF vars, heads, slots
<1>6. ASSUME NEW n \in Server,
             \/ Log(n) \/ LogOK(n) \/ LogTimeout(n) \/ Restart(n)
             \/ Redo(n) \/ ToBeMaster(n) \/ Won(n) \/ Lost(n) \/ Skip(n)
      PROVE  Shared!LNext \/ UNCHANGED Shared!lvars
  BY <1>1, <1>2, <1>3, <1>4, <1>6, LogOKShared, RedoShared, SkipShared
<1> QED BY <1>5, <1>6 DEF Next

\* Until a circumstance fails the servers together, with their failures, resets and
\* elections, take only the steps of one
\* log that is decided slot by slot and read in order: no write of an old master lands in
\* the next one's term or in a slot that somebody has read past.
THEOREM OneLog == Spec => ImplementsSharedLog
<1>1. Init => Shared!LInit
  BY DEF Init, Shared!LInit
<1>2. LInvWhileSound /\ [Next]_vars => [Sound' => [Shared!LNext]_(Shared!lvars)]_vars
  BY SharedStep, BrokenGrows DEF LInvWhileSound
<1> QED BY <1>1, <1>2, LogInvariant, PTL DEF Spec, ImplementsSharedLog
=============================================================================
