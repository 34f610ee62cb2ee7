---------------------------- MODULE LeaseProofs ----------------------------
(***************************************************************************)
(* What holds of the lease of a master, whatever lease_counter holds when  *)
(* its term starts, however long a heartbeat waits and is logged, and      *)
(* however late the follower reads.                                        *)
(***************************************************************************)
EXTENDS Lease, SequenceTheorems, WellFoundedInduction, TLAPS

-----------------------------------------------------------------------------
(***************************************************************************)
(* Types, for counters that may start with any number.                     *)
(***************************************************************************)
Lease == [lease : Int, counter : Int]

\* A renewal leaves less than a second, on either side of zero, and loses nothing.
LEMMA Renew ==
    ASSUME NEW l \in Lease, NEW c \in Nat
    PROVE  /\ renew_lease(l, c) \in [lease : Int, counter : -9 .. 9]
           /\ Worth(renew_lease(l, c)) = Worth(l) + c
<1> DEFINE x == l.counter + c
           q == CDiv(x, 10)
<1>1. x \in Int /\ l.lease \in Int /\ l.counter \in Int
  BY DEF Lease
<1>2. q \in Int /\ x - 10 * q \in -9 .. 9
  <2>1. CASE x >= 0
    <3>1. q = x \div 10
      BY <2>1 DEF CDiv
    <3> HIDE DEF x, q
    <3>2. x \div 10 \in Int /\ x - 10 * (x \div 10) \in 0 .. 9
      BY <1>1
    <3> QED BY <1>1, <3>1, <3>2
  <2>2. CASE ~(x >= 0)
    <3> DEFINE y == -x
    <3>1. q = -(y \div 10)
      BY <2>2 DEF CDiv
    <3>2. y \in Nat /\ x = -y
      BY <1>1, <2>2
    <3> HIDE DEF x, q, y
    <3>3. y \div 10 \in Int /\ y - 10 * (y \div 10) \in 0 .. 9
      BY <3>2
    <3>4. x - 10 * q = -(y - 10 * (y \div 10))
      BY <3>1, <3>2, <3>3
    <3> QED BY <3>1, <3>3, <3>4
  <2> QED BY <2>1, <2>2
<1>3. renew_lease(l, c) = [lease |-> l.lease + 10 * q, counter |-> x - 10 * q]
  BY DEF renew_lease, Second, CMod
<1>4. (l.lease + 10 * q) + (x - 10 * q) = l.lease + x
  <2> HIDE DEF q, x
  <2> QED BY <1>1, <1>2
<1>5. l.lease + x = (l.lease + l.counter) + c
  BY <1>1
<1> HIDE DEF q, x
<1> QED BY <1>1, <1>2, <1>3, <1>4, <1>5 DEF Worth

\* What the follower has not read yet.
UnreadRecord == [worth : {Put, Heartbeat}, behind : Nat]

\* The parts of the state, by their types.
LEMMA Typed ==
    ASSUME TypeOK
    PROVE  /\ master \in Lease /\ follower \in Lease
           /\ start.master \in Int /\ start.follower \in Int
           /\ Worth(master) \in Int /\ Worth(follower) \in Int
           /\ unread \in Seq(UnreadRecord)
           /\ missed \in Nat /\ late \in Nat /\ timer \in Nat
<1>1. start.master \in Int /\ start.follower \in Int
  BY RestAssumption DEF TypeOK
<1>2. -9 .. 9 \cup {start.master} \subseteq Int /\ -9 .. 9 \cup {start.follower} \subseteq Int
  BY <1>1
<1>3. master \in Lease /\ follower \in Lease
  BY <1>2 DEF TypeOK, Lease
<1>4. \A l \in Lease : Worth(l) \in Int
  BY DEF Lease, Worth
<1>5. unread \in Seq(UnreadRecord) /\ missed \in Nat /\ late \in Nat /\ timer \in Nat
  BY DEF TypeOK, UnreadRecord, Put, Heartbeat
<1> QED BY <1>1, <1>3, <1>4, <1>5

\* A term starts with variables of their types.
LEMMA TypeInit == Init => TypeOK
<1> SUFFICES ASSUME Init PROVE TypeOK
  OBVIOUS
<1>0. PICK begun \in 0 .. Second - 1 : \E won \in 1 .. 3 * Second - begun : \E m, f \in Rest :
          /\ master = [lease |-> Granted * Second - begun - won, counter |-> m]
          /\ follower = [lease |-> master.lease, counter |-> f]
          /\ start = [master |-> m, follower |-> f]
  BY DEF Init
<1>1. PICK won \in 1 .. 3 * Second - begun, m \in Rest, f \in Rest :
          /\ master = [lease |-> Granted * Second - begun - won, counter |-> m]
          /\ follower = [lease |-> master.lease, counter |-> f]
          /\ start = [master |-> m, follower |-> f]
  BY <1>0
<1>2. Granted * Second - begun - won \in Int
  BY DEF Granted, Second
<1>3. /\ start \in [master : Rest, follower : Rest]
      /\ master \in [lease : Int, counter : -9 .. 9 \cup {start.master}]
      /\ follower \in [lease : Int, counter : -9 .. 9 \cup {start.follower}]
  BY <1>1, <1>2
<1>4. unread \in Seq([worth : {Put, Heartbeat}, behind : Nat])
  BY DEF Init
<1> QED BY <1>3, <1>4 DEF Init, TypeOK

\* Every step keeps them.
LEMMA TypeNext == TypeOK /\ [Next]_vars => TypeOK'
<1> SUFFICES ASSUME TypeOK, [Next]_vars PROVE TypeOK'
  OBVIOUS
<1>0. Put \in Nat /\ Heartbeat \in Nat /\ Second \in Nat /\ Paid \in Nat
  BY DEF Put, Heartbeat, Second, Paid
<1>1. ASSUME NEW w \in {Put, Heartbeat}, Logged(w), start' = start
      PROVE  /\ master' \in [lease : Int, counter : -9 .. 9 \cup {start.master}]'
             /\ unread' \in Seq(UnreadRecord) /\ missed' \in {0, Put, Heartbeat}
  <2>1. master' \in [lease : Int, counter : -9 .. 9]
    BY <1>0, <1>1, Renew, Typed DEF Logged
  <2>2. [worth |-> w, behind |-> late] \in UnreadRecord
    BY Typed DEF UnreadRecord
  <2>3. Append(unread, [worth |-> w, behind |-> late]) \in Seq(UnreadRecord)
    BY Typed, <2>2, AppendProperties
  <2>4. unread' \in Seq(UnreadRecord)
    BY Typed, <1>1, <2>3 DEF Logged
  <2>5. missed' \in {0, Put, Heartbeat}
    BY <1>1 DEF Logged, TypeOK
  <2> QED BY <2>1, <2>4, <2>5
<1>2. CASE Beat
  <2>1. Logged(Heartbeat) /\ start' = start
    BY <1>2 DEF Beat
  <2>2. late' \in Nat
    BY <1>0, <1>2, Typed DEF Beat
  <2> QED BY <1>1, <1>2, <2>1, <2>2 DEF Beat, TypeOK, UnreadRecord
<1>3. CASE LogPut
  <2>1. Logged(Put) /\ start' = start
    BY <1>3 DEF LogPut
  <2> QED BY <1>1, <1>3, <2>1 DEF LogPut, TypeOK, UnreadRecord
<1>4. CASE StartBeat
  BY <1>4, Typed DEF StartBeat, TypeOK, Lease
<1>5. CASE BeatTimesOut
  BY <1>5 DEF BeatTimesOut, TypeOK
<1>6. CASE WakeUp
  BY <1>6 DEF WakeUp, TypeOK
<1>7. CASE Redo
  <2>1. Head(unread) \in UnreadRecord /\ unread' \in Seq(UnreadRecord)
    BY Typed, <1>7, HeadTailProperties DEF Redo
  <2>2. Head(unread).worth \in Nat
    BY <1>0, <2>1 DEF UnreadRecord
  <2>3. follower' \in [lease : Int, counter : -9 .. 9]
    BY <1>7, <2>2, Renew, Typed DEF Redo
  <2> QED BY <1>7, <2>1, <2>3 DEF Redo, TypeOK, UnreadRecord
<1>8. CASE Tick
  <2>1. unread' \in Seq(UnreadRecord)
    <3>1. ASSUME NEW i \in DOMAIN unread
          PROVE  [unread[i] EXCEPT !.behind = @ + 1] \in UnreadRecord
      <4>1. unread[i] \in UnreadRecord
        BY Typed, <3>1
      <4> QED BY <4>1 DEF UnreadRecord
    <3>2. unread' = [i \in 1 .. Len(unread) |-> [unread[i] EXCEPT !.behind = @ + 1]]
      BY Typed, <1>8 DEF Tick
    <3>3. Len(unread) \in Nat /\ DOMAIN unread = 1 .. Len(unread)
      BY Typed, LenProperties
    <3>4. unread' \in [1 .. Len(unread) -> UnreadRecord]
      BY <3>1, <3>2, <3>3
    <3> QED BY <3>3, <3>4, SeqDef
  <2>2. /\ master' \in [lease : Int, counter : -9 .. 9 \cup {start.master}]
        /\ follower' \in [lease : Int, counter : -9 .. 9 \cup {start.follower}]
    <3>1. ASSUME NEW S, NEW l \in [lease : Int, counter : S]
          PROVE  [l EXCEPT !.lease = @ - 1] \in [lease : Int, counter : S]
      OBVIOUS
    <3>2. master' = [master EXCEPT !.lease = @ - 1] /\ follower' = [follower EXCEPT !.lease = @ - 1]
      BY <1>8 DEF Tick
    <3>3. /\ master \in [lease : Int, counter : -9 .. 9 \cup {start.master}]
          /\ follower \in [lease : Int, counter : -9 .. 9 \cup {start.follower}]
      BY DEF TypeOK
    <3> QED BY <3>1, <3>2, <3>3
  <2>3. timer' \in Nat /\ late' \in Nat /\ due' \in Int
    <3>1. /\ timer' = timer + 1
          /\ late' = IF timer < Paid THEN late ELSE late + 1
          /\ due' = IF main = "log" THEN due - 1 ELSE due
      BY <1>8 DEF Tick
    <3>2. due \in Int
      BY DEF TypeOK
    <3> QED BY <3>1, <3>2, Typed
  <2> QED BY <1>8, <2>1, <2>2, <2>3 DEF Tick, TypeOK, UnreadRecord
<1>9. CASE UNCHANGED vars
  BY <1>9 DEF vars, TypeOK
<1> QED BY <1>2, <1>3, <1>4, <1>5, <1>6, <1>7, <1>8, <1>9 DEF Next

\* Every variable keeps its type, whatever lease_counter starts with: from its first
\* renewal on it holds less than a second.
THEOREM LeaseTypes == Spec => []TypeOK
BY TypeInit, TypeNext, PTL DEF Spec

-----------------------------------------------------------------------------
(***************************************************************************)
(* The master's lease: a heartbeat pays for the second of sleep and two    *)
(* tenths of waiting and logging, and `late' counts the rest.              *)
(***************************************************************************)
\* What is left of the lease, had the counter started at zero.
TimeLeft == Worth(master) - start.master

\* An election leaves two seconds; each round takes what its heartbeat pays for, and what
\* it is late.  The timeout of a heartbeat has no use for the rest in the counter.
MasterInv ==
    /\ TimeLeft + late >= 18
    /\ main \in {"wait", "log"} => TimeLeft + late >= 20 - timer
    /\ main = "sleep" => TimeLeft + late >= 30 - timer /\ TimeLeft + late >= 20
    /\ main = "log" => /\ due + late + Shortfall(start.master) >= 11 - timer
                       /\ due + late + Shortfall(start.master) >= 9

\* The first term of a master starts with two seconds left.
LEMMA MasterInit == Init => MasterInv
<1> SUFFICES ASSUME Init PROVE MasterInv
  OBVIOUS
<1>0. PICK begun \in 0 .. Second - 1 : \E won \in 1 .. 3 * Second - begun : \E m, f \in Rest :
          /\ master = [lease |-> Granted * Second - begun - won, counter |-> m]
          /\ follower = [lease |-> master.lease, counter |-> f]
          /\ start = [master |-> m, follower |-> f]
  BY DEF Init
<1>1. PICK won \in 1 .. 3 * Second - begun, m \in Rest, f \in Rest :
          /\ master = [lease |-> Granted * Second - begun - won, counter |-> m]
          /\ start = [master |-> m, follower |-> f]
  BY <1>0
<1>2. m \in Int
  BY RestAssumption
<1>3. TimeLeft = Granted * Second - begun - won
  BY <1>1, <1>2 DEF TimeLeft, Worth, Granted, Second
<1>4. Granted * Second - begun - won >= 20 /\ Granted * Second - begun - won \in Int
  BY DEF Granted, Second
<1> QED BY <1>3, <1>4 DEF Init, MasterInv

\* What is left grows by a record that is logged, and shrinks with time.
LEMMA TimeLeftNext ==
    ASSUME TypeOK
    PROVE  /\ TimeLeft \in Int
           /\ \A w \in {Put, Heartbeat} :
                 Logged(w) /\ start' = start => TimeLeft' = TimeLeft + w
           /\ Tick => TimeLeft' = TimeLeft - 1
           /\ UNCHANGED <<master, start>> => TimeLeft' = TimeLeft
<1>1. ASSUME NEW w \in {Put, Heartbeat}, Logged(w), start' = start
      PROVE  TimeLeft' = TimeLeft + w
  <2>1. w \in Nat
    BY DEF Put, Heartbeat
  <2>2. master' = renew_lease(master, w)
    BY <1>1 DEF Logged
  <2>3. Worth(master)' = Worth(master) + w
    BY <2>1, <2>2, Renew, Typed DEF Worth
  <2> QED BY <1>1, <2>1, <2>3, Typed DEF TimeLeft
<1>2. ASSUME Tick PROVE TimeLeft' = TimeLeft - 1
  <2>1. master' = [master EXCEPT !.lease = @ - 1] /\ start' = start
    BY <1>2 DEF Tick
  <2>2. Worth(master)' = Worth(master) - 1
    BY <2>1, Typed DEF Worth, Lease
  <2> QED BY <2>1, <2>2, Typed DEF TimeLeft
<1> QED BY <1>1, <1>2, Typed DEF TimeLeft, Worth

\* Every step keeps what is left.
LEMMA MasterNext == TypeOK /\ MasterInv /\ [Next]_vars => MasterInv'
<1> SUFFICES ASSUME TypeOK, MasterInv, [Next]_vars PROVE MasterInv'
  OBVIOUS
<1>0. /\ TimeLeft \in Int /\ late \in Nat /\ timer \in Nat /\ due \in Int
      /\ Shortfall(start.master) \in Nat
  BY Typed, TimeLeftNext DEF TypeOK, Shortfall
<1>1. CASE Beat
  <2>1. TimeLeft' = TimeLeft + 12
    BY <1>1, TimeLeftNext DEF Beat, Heartbeat
  <2>2. Paid = 2
    BY <1>1 DEF Beat, Paid, Heartbeat, Second
  <2>3. late' \in Nat /\ (timer >= 2 => late' = late) /\ (timer < 2 => late' >= late - (2 - timer))
    BY <1>0, <1>1, <2>2 DEF Beat
  <2>4. TimeLeft' + late' >= 30
    BY <1>0, <1>1, <2>1, <2>3 DEF Beat, MasterInv
  <2> QED BY <1>0, <1>1, <2>1, <2>3, <2>4 DEF Beat, MasterInv
<1>2. CASE LogPut
  <2>1. TimeLeft' = TimeLeft + 1
    BY <1>2, TimeLeftNext DEF LogPut, Put
  <2>2. UNCHANGED <<main, timer, due, late, start>>
    BY <1>2 DEF LogPut
  <2> QED BY <1>0, <2>1, <2>2 DEF MasterInv
<1>3. CASE StartBeat
  <2>1. TimeLeft' = TimeLeft
    BY <1>3, TimeLeftNext DEF StartBeat
  <2>2. due' + Shortfall(start.master) >= TimeLeft - 9
    <3>1. due' = master.lease
      BY <1>3 DEF StartBeat
    <3>2. /\ master.counter \in -9 .. 9 \cup {start.master} /\ start.master \in Int
          /\ master.lease \in Int
      BY Typed DEF TypeOK
    <3> QED BY <3>1, <3>2 DEF TimeLeft, Worth, Shortfall
  <2>3. due' \in Int
    BY <1>3, Typed DEF StartBeat, Lease
  <2>4. main = "wait" /\ main' = "log" /\ UNCHANGED <<timer, late, start>>
    BY <1>3 DEF StartBeat
  <2> QED BY <1>0, <2>1, <2>2, <2>3, <2>4 DEF MasterInv
<1>4. CASE BeatTimesOut
  <2>1. TimeLeft' = TimeLeft
    BY <1>4, TimeLeftNext DEF BeatTimesOut
  <2> QED BY <1>4, <2>1 DEF BeatTimesOut, MasterInv
<1>5. CASE WakeUp
  <2>1. TimeLeft' = TimeLeft
    BY <1>5, TimeLeftNext DEF WakeUp
  <2> QED BY <1>0, <1>5, <2>1 DEF WakeUp, MasterInv
<1>6. CASE Redo
  <2>1. TimeLeft' = TimeLeft
    BY <1>6, TimeLeftNext DEF Redo
  <2> QED BY <1>6, <2>1 DEF Redo, MasterInv
<1>7. CASE Tick
  <2>1. TimeLeft' = TimeLeft - 1
    BY <1>7, TimeLeftNext
  <2>2. /\ timer' = timer + 1 /\ UNCHANGED <<main, start>>
        /\ late' = IF timer < Paid THEN late ELSE late + 1
        /\ due' = IF main = "log" THEN due - 1 ELSE due
        /\ main # "over"
    BY <1>7 DEF Tick
  <2>3. Paid = IF main = "sleep" THEN 10 ELSE 2
    BY DEF Paid, Heartbeat, Second
  <2>4. main \in {"wait", "log", "sleep"}
    BY <2>2 DEF TypeOK
  <2>5. Shortfall(start.master)' = Shortfall(start.master)
    BY <2>2 DEF Shortfall
  <2>6. CASE timer < Paid
    <3>1. late' = late
      BY <2>2, <2>6
    <3> QED BY <1>0, <2>1, <2>2, <2>3, <2>4, <2>5, <2>6, <3>1 DEF MasterInv
  <2>7. CASE ~(timer < Paid)
    <3>1. late' = late + 1
      BY <2>2, <2>7
    <3> QED BY <1>0, <2>1, <2>2, <2>3, <2>4, <2>5, <2>7, <3>1 DEF MasterInv
  <2> QED BY <2>6, <2>7
<1>8. CASE UNCHANGED vars
  <2>1. TimeLeft' = TimeLeft
    BY <1>8, TimeLeftNext DEF vars
  <2> QED BY <1>8, <2>1 DEF vars, MasterInv
<1> QED BY <1>1, <1>2, <1>3, <1>4, <1>5, <1>6, <1>7, <1>8 DEF Next

\* A heartbeat times out only after its master was nine tenths of a second late in all,
\* however late that is and whatever lease_counter starts with, the shortfall of a
\* negative start counted in: kvs_server::to_be_master, doheartbeat, heartbeater.
THEOREM MasterKeeps == Spec => []MasterKeepsLease
<1>1. TypeOK /\ MasterInv => MasterKeepsLease
  <2> SUFFICES ASSUME TypeOK, MasterInv, main = "log", due <= 0
               PROVE  late + Shortfall(start.master) >= 9
    BY DEF MasterKeepsLease
  <2>1. late \in Nat /\ due \in Int /\ Shortfall(start.master) \in Nat
    BY Typed DEF TypeOK, Shortfall
  <2> QED BY <2>1 DEF MasterInv
<1>2. Init => TypeOK /\ MasterInv
  BY TypeInit, MasterInit
<1>3. TypeOK /\ MasterInv /\ [Next]_vars => (TypeOK /\ MasterInv)'
  BY TypeNext, MasterNext
<1> QED BY <1>1, <1>2, <1>3, PTL DEF Spec

-----------------------------------------------------------------------------
(***************************************************************************)
(* The account: every second that the master's lease has is in the         *)
(* follower's lease, in a record to be read, or in the record that is      *)
(* never read.                                                             *)
(***************************************************************************)
\* f is a running balance: it starts with what the follower has got and will never get,
\* grows by each record to be read, and ends with what is left to the master.  What it is
\* before a record, with the time by which that record is behind, is all the time that
\* the master had when it logged the record.
Balance(f) ==
    /\ f \in [0 .. Len(unread) -> Int]
    /\ f[0] = (Worth(follower) - start.follower) + missed
    /\ f[Len(unread)] = TimeLeft
    /\ \A i \in 1 .. Len(unread) :
          f[i] = f[i - 1] + unread[i].worth /\ f[i - 1] + unread[i].behind >= 18

\* The account has a running balance.  Inductive, where the sum of the records is not
\* convenient: a record is added at one end and taken off at the other.
Balanced == \E f : Balance(f)

\* At the start nothing is to be read.
LEMMA BalancedInit == Init => Balanced
<1> SUFFICES ASSUME Init PROVE Balanced
  OBVIOUS
<1>1. TypeOK
  BY TypeInit
<1>2. Len(unread) = 0 /\ missed = 0
  BY DEF Init
<1>3. TimeLeft = (Worth(follower) - start.follower) + missed /\ TimeLeft \in Int
  <2>1. /\ master.lease = follower.lease
        /\ start.master = master.counter /\ start.follower = follower.counter
    BY DEF Init
  <2> QED BY <1>1, <1>2, <2>1, Typed DEF TimeLeft, Worth, Lease
<1> DEFINE f == [i \in 0 .. 0 |-> TimeLeft]
<1>4. Balance(f)
  BY <1>2, <1>3 DEF Balance
<1> QED BY <1>4 DEF Balanced

\* A record that is logged extends the balance, or is never read.
LEMMA BalancedLogged ==
    ASSUME TypeOK, Balanced, MasterInv, NEW w \in {Put, Heartbeat}, Logged(w),
           UNCHANGED <<follower, start>>
    PROVE  Balanced'
<1> DEFINE n == Len(unread)
           had == Worth(follower) - start.follower
<1>0. PICK f : Balance(f)
  BY DEF Balanced
<1>1. n \in Nat /\ unread \in Seq(UnreadRecord)
  BY Typed, LenProperties
<1>2. w \in Nat /\ TimeLeft \in Int /\ had \in Int /\ missed \in Nat /\ late \in Nat
  BY Typed, TimeLeftNext DEF Put, Heartbeat
<1>3. TimeLeft' = TimeLeft + w
  BY TimeLeftNext
<1>4. Worth(follower)' - start'.follower = had
  BY DEF Worth
<1>5. CASE missed = 0
  <2> DEFINE g == [i \in 0 .. n |-> f[i] + w]
  <2>1. unread' = unread /\ missed' = w
    BY <1>5 DEF Logged
  <2>2. f \in [0 .. n -> Int] /\ 0 \in 0 .. n /\ n \in 0 .. n
    BY <1>0, <1>1 DEF Balance
  <2>3. g \in [0 .. n -> Int]
    BY <1>2, <2>2
  <2>4. g[0] = had + w
    BY <1>0, <1>2, <1>5, <2>2 DEF Balance
  <2>5. g[n] = TimeLeft + w
    BY <1>0, <1>2, <2>2 DEF Balance
  <2>6. ASSUME NEW i \in 1 .. n
        PROVE  g[i] = g[i - 1] + unread[i].worth /\ g[i - 1] + unread[i].behind >= 18
    <3>1. i \in 0 .. n /\ i - 1 \in 0 .. n
      BY <1>1
    <3>2. unread[i].worth \in Int /\ unread[i].behind \in Int
      <4>1. unread[i] \in UnreadRecord
        BY <1>1
      <4> QED BY <4>1 DEF UnreadRecord, Put, Heartbeat
    <3>3. f[i] = f[i - 1] + unread[i].worth /\ f[i - 1] + unread[i].behind >= 18
      BY <1>0 DEF Balance
    <3> QED BY <1>2, <2>2, <3>1, <3>2, <3>3
  <2>7. PICK h : h = g
    OBVIOUS
  <2> HIDE DEF g, had
  <2>8. Balance(h)'
    BY <1>3, <1>4, <2>1, <2>3, <2>4, <2>5, <2>6, <2>7 DEF Balance
  <2> QED BY <2>8 DEF Balanced
<1>6. CASE missed # 0
  <2> DEFINE r == [worth |-> w, behind |-> late]
             g == [i \in 0 .. n + 1 |-> IF i = n + 1 THEN TimeLeft + w ELSE f[i]]
  <2>1. unread' = Append(unread, r) /\ missed' = missed
    BY <1>6 DEF Logged
  <2>2. f \in [0 .. n -> Int] /\ 0 \in 0 .. n /\ n \in 0 .. n
    BY <1>0, <1>1 DEF Balance
  <2>3. Len(unread') = n + 1 /\ unread'[n + 1] = r
    BY <1>1, <2>1, AppendProperties
  <2>4. \A i \in 1 .. n : unread'[i] = unread[i]
    BY <1>1, <2>1, AppendProperties
  <2>5. g \in [0 .. n + 1 -> Int]
    <3>1. ASSUME NEW i \in 0 .. n + 1 PROVE g[i] \in Int
      <4>1. CASE i = n + 1
        BY <1>2, <4>1
      <4>2. CASE i # n + 1
        <5>1. i \in 0 .. n
          BY <1>1, <4>2
        <5> QED BY <2>2, <4>2, <5>1
      <4> QED BY <4>1, <4>2
    <3> QED BY <3>1
  <2>6. g[0] = had + missed /\ g[n + 1] = TimeLeft + w
    BY <1>0, <1>1 DEF Balance
  <2>7. ASSUME NEW i \in 1 .. n + 1
        PROVE  g[i] = g[i - 1] + unread'[i].worth /\ g[i - 1] + unread'[i].behind >= 18
    <3>1. CASE i = n + 1
      <4>1. g[i - 1] = TimeLeft
        BY <1>0, <1>1, <3>1 DEF Balance
      <4>2. g[i] = TimeLeft + w
        BY <1>1, <3>1
      <4>3. TimeLeft + late >= 18
        BY DEF MasterInv
      <4> QED BY <2>3, <3>1, <4>1, <4>2, <4>3
    <3>2. CASE i # n + 1
      <4>1. i \in 1 .. n /\ i \in 0 .. n + 1 /\ i - 1 \in 0 .. n + 1 /\ i - 1 # n + 1
        BY <1>1, <3>2
      <4>2. g[i] = f[i] /\ g[i - 1] = f[i - 1]
        BY <3>2, <4>1
      <4> QED BY <1>0, <2>4, <4>1, <4>2 DEF Balance
    <3> QED BY <3>1, <3>2
  <2>8. PICK h : h = g
    OBVIOUS
  <2> HIDE DEF g, had
  <2>9. Balance(h)'
    BY <1>3, <1>4, <2>1, <2>3, <2>5, <2>6, <2>7, <2>8 DEF Balance
  <2> QED BY <2>9 DEF Balanced
<1> QED BY <1>5, <1>6

\* A record that is read moves from the front of the balance into the follower's lease.
LEMMA BalancedRedo ==
    ASSUME TypeOK, Balanced, Redo
    PROVE  Balanced'
<1> DEFINE n == Len(unread)
           w == Head(unread).worth
<1>0. PICK f : Balance(f)
  BY DEF Balanced
<1>1. n \in Nat /\ unread \in Seq(UnreadRecord) /\ unread # <<>>
  BY Typed, LenProperties DEF Redo
<1>2. n > 0 /\ unread[1] = Head(unread) /\ Head(unread) \in UnreadRecord
  BY <1>1, HeadTailProperties, EmptySeq
<1>3. w \in Nat
  BY <1>2 DEF UnreadRecord, Put, Heartbeat
<1>4. unread' = Tail(unread) /\ missed' = missed /\ master' = master /\ start' = start
  BY DEF Redo
<1>5. Len(unread') = n - 1 /\ \A i \in 1 .. n - 1 : unread'[i] = unread[i + 1]
  BY <1>1, <1>4, HeadTailProperties
<1>6. Worth(follower)' = Worth(follower) + w
  <2>1. follower' = renew_lease(follower, w)
    BY DEF Redo
  <2> QED BY <1>3, <2>1, Renew, Typed DEF Worth
<1>7. Worth(follower) \in Int /\ start.follower \in Int /\ missed \in Nat
  BY Typed
<1> DEFINE g == [i \in 0 .. n - 1 |-> f[i + 1]]
<1>8. g \in [0 .. n - 1 -> Int]
  BY <1>0, <1>1 DEF Balance
<1>9. g[0] = ((Worth(follower) - start.follower) + missed) + w
  <2>1. g[0] = f[1] /\ 1 \in 1 .. n
    BY <1>1, <1>2
  <2>2. f[1] = f[0] + unread[1].worth
    BY <1>0, <2>1 DEF Balance
  <2> QED BY <1>0, <1>2, <1>3, <1>7, <2>1, <2>2 DEF Balance
<1>10. g[n - 1] = TimeLeft
  BY <1>0, <1>1, <1>2 DEF Balance
<1>11. ASSUME NEW i \in 1 .. n - 1
       PROVE  g[i] = g[i - 1] + unread'[i].worth /\ g[i - 1] + unread'[i].behind >= 18
  <2>1. i + 1 \in 1 .. n /\ i \in 0 .. n - 1 /\ i - 1 \in 0 .. n - 1
    BY <1>1
  <2>2. g[i] = f[i + 1] /\ g[i - 1] = f[i]
    BY <2>1
  <2>3. f[i + 1] = f[i] + unread[i + 1].worth /\ f[i] + unread[i + 1].behind >= 18
    BY <1>0, <2>1 DEF Balance
  <2> QED BY <1>5, <2>2, <2>3
<1>12. TimeLeft' = TimeLeft
  BY <1>4 DEF TimeLeft, Worth
<1>13. PICK h : h = g
  OBVIOUS
<1>14. ((Worth(follower) - start.follower) + missed) + w
           = ((Worth(follower) + w) - start.follower) + missed
  BY <1>3, <1>7
<1> HIDE DEF g, w
<1>15. Balance(h)'
  BY <1>4, <1>5, <1>6, <1>8, <1>9, <1>10, <1>11, <1>12, <1>13, <1>14 DEF Balance
<1> QED BY <1>15 DEF Balanced

\* Time is taken off both leases alike, and every record gets as much later.
LEMMA BalancedTick ==
    ASSUME TypeOK, Balanced, Tick
    PROVE  Balanced'
<1> DEFINE n == Len(unread)
<1>0. PICK f : Balance(f)
  BY DEF Balanced
<1>1. n \in Nat /\ unread \in Seq(UnreadRecord) /\ DOMAIN unread = 1 .. n
  BY Typed, LenProperties
<1>2. Worth(follower) \in Int /\ start.follower \in Int /\ missed \in Nat /\ TimeLeft \in Int
  BY Typed, TimeLeftNext
<1>3. TimeLeft' = TimeLeft - 1
  BY TimeLeftNext
<1>4. Worth(follower)' = Worth(follower) - 1 /\ start' = start /\ missed' = missed
  <2>1. \A l \in Lease : Worth([l EXCEPT !.lease = @ - 1]) = Worth(l) - 1
    BY DEF Lease, Worth
  <2>2. /\ follower' = [follower EXCEPT !.lease = @ - 1]
        /\ start' = start /\ missed' = missed
    BY DEF Tick
  <2>3. Worth(follower') = Worth(follower) - 1
    BY <2>1, <2>2, Typed
  <2> QED BY <2>2, <2>3 DEF Worth
<1>5. unread' = [i \in 1 .. n |-> [unread[i] EXCEPT !.behind = @ + 1]]
  BY <1>1 DEF Tick
<1>6. Len(unread') = n
  <2>1. unread' \in Seq(UnreadRecord)
    <3>1. TypeOK'
      BY TypeNext DEF Next
    <3> QED BY <3>1 DEF TypeOK, UnreadRecord
  <2>2. DOMAIN unread' = 1 .. n
    BY <1>5
  <2> QED BY <1>1, <2>1, <2>2, LenProperties
<1>7. ASSUME NEW i \in 1 .. n
      PROVE  /\ unread'[i].worth = unread[i].worth /\ unread[i].worth \in Int
             /\ unread'[i].behind = unread[i].behind + 1 /\ unread[i].behind \in Int
  <2>1. unread[i] \in UnreadRecord
    BY <1>1
  <2> QED BY <1>5, <2>1 DEF UnreadRecord, Put, Heartbeat
<1> DEFINE g == [i \in 0 .. n |-> f[i] - 1]
<1>8. f \in [0 .. n -> Int] /\ 0 \in 0 .. n /\ n \in 0 .. n
  BY <1>0, <1>1 DEF Balance
<1>9. g \in [0 .. n -> Int]
  BY <1>8
<1>10. g[0] = ((Worth(follower) - 1) - start.follower) + missed /\ g[n] = TimeLeft - 1
  <2>1. g[0] = f[0] - 1 /\ g[n] = f[n] - 1
    BY <1>8
  <2>2. f[0] = (Worth(follower) - start.follower) + missed /\ f[n] = TimeLeft
    BY <1>0 DEF Balance
  <2> HIDE DEF g
  <2> QED BY <1>2, <2>1, <2>2
<1>11. ASSUME NEW i \in 1 .. n
       PROVE  g[i] = g[i - 1] + unread'[i].worth /\ g[i - 1] + unread'[i].behind >= 18
  <2>1. i \in 0 .. n /\ i - 1 \in 0 .. n
    BY <1>1
  <2>2. f[i] = f[i - 1] + unread[i].worth /\ f[i - 1] + unread[i].behind >= 18
    BY <1>0 DEF Balance
  <2>3. g[i] = f[i] - 1 /\ g[i - 1] = f[i - 1] - 1 /\ f[i] \in Int /\ f[i - 1] \in Int
    BY <1>8, <2>1
  <2>4. /\ unread'[i].worth = unread[i].worth /\ unread[i].worth \in Int
        /\ unread'[i].behind = unread[i].behind + 1 /\ unread[i].behind \in Int
    BY <1>7
  <2> HIDE DEF g
  <2>5. g[i] = g[i - 1] + unread[i].worth
    BY <2>2, <2>3, <2>4
  <2>6. g[i - 1] + (unread[i].behind + 1) >= 18
    BY <2>2, <2>3, <2>4
  <2> QED BY <2>4, <2>5, <2>6
<1>12. PICK h : h = g
  OBVIOUS
<1> HIDE DEF g
<1>13. Balance(h)'
  BY <1>3, <1>4, <1>6, <1>9, <1>10, <1>11, <1>12 DEF Balance
<1> QED BY <1>13 DEF Balanced

\* Every step keeps the account in balance.
LEMMA BalancedNext == TypeOK /\ MasterInv /\ Balanced /\ [Next]_vars => Balanced'
<1> SUFFICES ASSUME TypeOK, MasterInv, Balanced, [Next]_vars PROVE Balanced'
  OBVIOUS
<1>1. CASE Beat
  BY <1>1, BalancedLogged DEF Beat
<1>2. CASE LogPut
  BY <1>2, BalancedLogged DEF LogPut
<1>3. CASE StartBeat
  BY <1>3 DEF StartBeat, Balanced, Balance, TimeLeft, Worth
<1>4. CASE BeatTimesOut
  BY <1>4 DEF BeatTimesOut, Balanced, Balance, TimeLeft, Worth
<1>5. CASE WakeUp
  BY <1>5 DEF WakeUp, Balanced, Balance, TimeLeft, Worth
<1>6. CASE Redo
  BY <1>6, BalancedRedo
<1>7. CASE Tick
  BY <1>7, BalancedTick
<1>8. CASE UNCHANGED vars
  BY <1>8 DEF vars, Balanced, Balance, TimeLeft, Worth
<1> QED BY <1>1, <1>2, <1>3, <1>4, <1>5, <1>6, <1>7, <1>8 DEF Next

\* The sum that UnreadUpTo names exists and is what the balance has grown by: the least
\* place where they differed would follow one where they do not.
LEMMA BalanceIsSum ==
    ASSUME TypeOK, NEW f, Balance(f)
    PROVE  \A i \in 0 .. Len(unread) : UnreadUpTo[i] \in Int /\ f[i] = f[0] + UnreadUpTo[i]
<1> DEFINE n == Len(unread)
           Sums(h) == [i \in 0 .. n |-> IF i = 0 THEN 0 ELSE h[i - 1] + unread[i].worth]
           g == [i \in 0 .. n |-> f[i] - f[0]]
<1>1. n \in Nat /\ unread \in Seq(UnreadRecord) /\ f \in [0 .. n -> Int]
  BY Typed, LenProperties DEF Balance
<1>2. ASSUME NEW i \in 1 .. n PROVE unread[i].worth \in Int
  <2>1. unread[i] \in UnreadRecord
    BY <1>1
  <2> QED BY <2>1 DEF UnreadRecord, Put, Heartbeat
<1>3. g = Sums(g)
  <2>1. ASSUME NEW i \in 0 .. n PROVE g[i] = Sums(g)[i]
    <3>1. 0 \in 0 .. n
      BY <1>1
    <3>2. CASE i = 0
      BY <1>1, <3>1, <3>2
    <3>3. CASE i # 0
      <4>1. i \in 1 .. n /\ i - 1 \in 0 .. n
        BY <1>1, <3>3
      <4>2. f[i] = f[i - 1] + unread[i].worth
        BY <4>1 DEF Balance
      <4>3. unread[i].worth \in Int /\ f[i - 1] \in Int /\ f[0] \in Int
        BY <1>1, <1>2, <3>1, <4>1
      <4>4. f[i] - f[0] = (f[i - 1] - f[0]) + unread[i].worth
        BY <4>2, <4>3
      <4> QED BY <3>3, <4>1, <4>4
    <3> QED BY <3>2, <3>3
  <2> QED BY <2>1
<1>4. UnreadUpTo = Sums(UnreadUpTo)
  <2>1. UnreadUpTo = CHOOSE h : h = Sums(h)
    BY DEF UnreadUpTo
  <2> HIDE DEF Sums, g
  <2> QED BY <1>3, <2>1
<1>5. ASSUME NEW i \in 0 .. n PROVE UnreadUpTo[i] = g[i]
  <2> DEFINE Differ == {k \in 0 .. n : UnreadUpTo[k] # g[k]}
             less == {ss \in Nat \X Nat : ss[1] < ss[2]}
  <2>1. SUFFICES ASSUME Differ # {} PROVE FALSE
    OBVIOUS
  <2>2. Differ \subseteq Nat
    BY <1>1
  <2>3. IsWellFoundedOn(less, Nat)
    BY NatLessThanWellFounded, Zenon DEF OpToRel
  <2>4. PICK k \in Differ : \A m \in Differ : ~(<<m, k>> \in less)
    <3> HIDE DEF Differ, less
    <3> QED BY <2>1, <2>2, <2>3, WFMin
  <2>5. k \in 0 .. n /\ UnreadUpTo[k] # g[k]
    OBVIOUS
  <2>6. UnreadUpTo[k] = Sums(UnreadUpTo)[k] /\ g[k] = Sums(g)[k]
    <3> HIDE DEF Sums, g
    <3> QED BY <1>3, <1>4
  <2>7. k # 0
    BY <2>5, <2>6
  <2>8. k - 1 \in 0 .. n /\ <<k - 1, k>> \in less
    BY <1>1, <2>5, <2>7
  <2>9. UnreadUpTo[k - 1] = g[k - 1]
    <3>1. k - 1 \notin Differ
      <4> HIDE DEF less, Differ
      <4> QED BY <2>4, <2>8
    <3> QED BY <2>8, <3>1
  <2>10. Sums(UnreadUpTo)[k] = Sums(g)[k]
    <3> HIDE DEF g
    <3> QED BY <2>5, <2>7, <2>9
  <2> QED BY <2>5, <2>6, <2>10
<1> TAKE i \in 0 .. Len(unread)
<1>6. UnreadUpTo[i] = f[i] - f[0] /\ f[i] \in Int /\ f[0] \in Int
  <2>1. 0 \in 0 .. n
    BY <1>1
  <2> QED BY <1>1, <1>5, <2>1
<1> QED BY <1>6

\* The account in a sum.
LEMMA BalancedAccount == TypeOK /\ Balanced => LeaseAccounting
<1> SUFFICES ASSUME TypeOK, Balanced PROVE LeaseAccounting
  OBVIOUS
<1>0. PICK f : Balance(f)
  BY DEF Balanced
<1> DEFINE n == Len(unread)
<1>1. n \in Nat
  BY Typed, LenProperties
<1>2. UnreadUpTo[n] \in Int /\ f[n] = f[0] + UnreadUpTo[n]
  BY <1>0, <1>1, BalanceIsSum
<1>3. Worth(follower) \in Int /\ start.follower \in Int /\ missed \in Nat
  BY Typed
<1>4. TimeLeft = ((Worth(follower) - start.follower) + missed) + UnreadUpTo[n]
  BY <1>0, <1>2 DEF Balance
<1> QED BY <1>2, <1>3, <1>4 DEF LeaseAccounting, Unread, TimeLeft

\* The three parts are kept together.
LEMMA LeaseInvariant == Spec => [](TypeOK /\ MasterInv /\ Balanced)
<1>1. Init => TypeOK /\ MasterInv /\ Balanced
  BY TypeInit, MasterInit, BalancedInit
<1>2. TypeOK /\ MasterInv /\ Balanced /\ [Next]_vars => (TypeOK /\ MasterInv /\ Balanced)'
  BY TypeNext, MasterNext, BalancedNext
<1> QED BY <1>1, <1>2, PTL DEF Spec

\* No lease is made or lost, whatever the counters start with, whatever puts are logged
\* and however late the follower reads: kvs_server::renew_lease at both ends of the log.
THEOREM NothingLost == Spec => []LeaseAccounting
BY LeaseInvariant, BalancedAccount, PTL

-----------------------------------------------------------------------------
\* A follower that runs has a lease that ended long ago, and what its master had when the
\* next record was logged, or has now, says how long it can be.
LEMMA FollowerWaits == TypeOK /\ MasterInv /\ Balanced => InterferesOnlyIfBehind
<1> SUFFICES ASSUME TypeOK, MasterInv, Balanced, follower.lease + delta <= 0
             PROVE  Lag + missed + Shortfall(start.follower) >= delta + 9
  BY DEF InterferesOnlyIfBehind, Interferes
<1>0. PICK f : Balance(f)
  BY DEF Balanced
<1> DEFINE had == Worth(follower) - start.follower
           n == Len(unread)
<1>1. /\ n \in Nat /\ unread \in Seq(UnreadRecord)
      /\ had \in Int /\ missed \in Nat /\ late \in Nat /\ TimeLeft \in Int
      /\ f \in [0 .. n -> Int] /\ f[0] = had + missed
  BY <1>0, Typed, TimeLeftNext, LenProperties DEF Balance
<1>2. Lag \in Nat /\ f[0] + Lag >= 18
  <2>1. CASE unread = <<>>
    <3>1. Lag = late /\ n = 0
      BY <2>1 DEF Lag
    <3>2. f[0] = TimeLeft
      BY <1>0, <3>1 DEF Balance
    <3> QED BY <1>1, <3>1, <3>2 DEF MasterInv
  <2>2. CASE unread # <<>>
    <3>1. n > 0 /\ unread[1] = Head(unread) /\ Head(unread) \in UnreadRecord
      BY <1>1, <2>2, HeadTailProperties, EmptySeq
    <3>2. Lag = unread[1].behind /\ Lag \in Nat
      BY <2>2, <3>1 DEF Lag, UnreadRecord
    <3>3. 1 \in 1 .. n /\ 1 - 1 = 0
      BY <1>1, <3>1
    <3>4. f[1 - 1] + unread[1].behind >= 18
      BY <1>0, <3>3 DEF Balance
    <3> QED BY <3>2, <3>3, <3>4
  <2> QED BY <2>1, <2>2
<1>3. follower.lease >= had - 9 - Shortfall(start.follower)
      \/ follower.lease = had
  <2>1. /\ follower.lease \in Int /\ start.follower \in Int
        /\ follower.counter \in -9 .. 9 \cup {start.follower}
    BY Typed DEF TypeOK
  <2> QED BY <2>1 DEF Worth, Shortfall
<1>4. delta \in Nat /\ Shortfall(start.follower) \in Nat /\ follower.lease \in Int
  BY TimeAssumption, Typed DEF Shortfall, Lease
<1> HIDE DEF had
<1> QED BY <1>1, <1>2, <1>3, <1>4

\* A follower runs against its master only when it is behind, or short of lease from the
\* start, by nine tenths of a second more than it waits: kvs_server::recover, which adds
\* the place in the priority to the lease it knows.
THEOREM NoneRunsUnlessBehind == Spec => []InterferesOnlyIfBehind
BY LeaseInvariant, FollowerWaits, PTL
=============================================================================
