-------------------------------- MODULE Lease --------------------------------
(***************************************************************************)
(* The lease of a master in one term, and the copy of it that a follower   *)
(* keeps by reading the log.  Clocks agree; time is in tenths of a second, *)
(* the lease that one put is worth (renew_lease).  What is still to come   *)
(* is kept instead of the time of day: `lease' is expire_time minus now.   *)
(*                                                                         *)
(* Nothing is assumed of how long a heartbeat waits, is logged or is read: *)
(* history variables say how late it all is, and the properties how much   *)
(* of that the lease bears.                                                *)
(***************************************************************************)
EXTENDS Integers, Sequences

CONSTANTS
    Rest,           \* what lease_counter may hold at the start of a term: anything in
                    \* a program that has just started and never set it
    MaxLate,        \* bound: by how much the master is late
    MaxLag,         \* bound: by how much the follower is behind with a record
    MaxLease,       \* bound: while the lease is longer than this no put is made, and
                    \* beats take the time they pay for: else it grows for ever
    delta           \* how long after the end of the lease the follower waits

ASSUME RestAssumption == Rest \subseteq Int
ASSUME TimeAssumption == {MaxLate, MaxLag, MaxLease, delta} \subseteq Nat

Second == 10

VARIABLES
    main,           \* the master's heartbeater: "wait" for puts to end, "log", "sleep",
                    \* or "over" when a heartbeat has timed out
    timer,          \* for how long it has been waiting and logging, or sleeping
    due,            \* the timeout of the heartbeat: a copy of the lease
    master,         \* the master's [lease, counter]
    follower,       \* the follower's
    unread,         \* the records the follower has yet to read, as [worth, behind]
    late,           \* history: the time that beats and sleeps took beyond what a
                    \* heartbeat pays for, and no shorter beat has made up
    missed,         \* history: the worth of the term's first record, that the follower
                    \* never reads; 0 before it is logged
    start           \* history: what the two counters started with

vars == <<main, timer, due, master, follower, unread, late, missed, start>>

\* Division and remainder of C, which round towards zero.
CDiv(a, b) == IF a >= 0 THEN a \div b ELSE -((-a) \div b)
CMod(a, b) == a - b * CDiv(a, b)

\* Mutant of renew_lease: what is left below a second is lost.
renew_leaseDrops(l, c) ==
    [lease |-> l.lease + Second * CDiv(l.counter + c, 10), counter |-> 0]

\* Mutant of renew_lease: what has gone to expire_time is not taken off.
renew_leaseKeeps(l, c) ==
    [lease |-> l.lease + Second * CDiv(l.counter + c, 10), counter |-> l.counter + c]

\* Whole seconds go to expire_time, the rest stays in lease_counter.
renew_lease(l, c) ==
    [lease |-> l.lease + Second * CDiv(l.counter + c, 10),
     counter |-> CMod(l.counter + c, 10)]

Put == 1

Heartbeat == 12

\* What a heartbeat pays for: a second of sleep, and of waiting and logging the rest.
Paid == IF main = "sleep" THEN Second ELSE Heartbeat - Second

\* Mutant of Granted: the election may use up the lease it wins.
GrantedElection == 3

\* The lease of a new master, in seconds.
Granted == 5

\* to_be_master cuts the time of day to seconds and gives the election 3; the
\* follower reads the end of the lease in the record.
Init ==
    /\ main = "wait" /\ timer = 0 /\ due = 0
    /\ \E begun \in 0 .. Second - 1 : \E won \in 1 .. 3 * Second - begun :
       \E m, f \in Rest :
          /\ master = [lease |-> Granted * Second - begun - won, counter |-> m]
          /\ follower = [lease |-> master.lease, counter |-> f]
          /\ start = [master |-> m, follower |-> f]
    /\ unread = <<>>
    /\ late = 0 /\ missed = 0

\* A record is logged.  The follower does not read the first one of a term: the master
\* has skipped to its slot, the follower to the one after it (module Cluster).
Logged(worth) ==
    /\ master' = renew_lease(master, worth)
    /\ IF missed = 0
       THEN missed' = worth /\ UNCHANGED unread
       ELSE unread' = Append(unread, [worth |-> worth, behind |-> late]) /\ UNCHANGED missed

\* doheartbeat goes on once no put is being logged, with the lease of that moment.
StartBeat ==
    /\ main = "wait"
    /\ main' = "log" /\ due' = master.lease
    /\ UNCHANGED <<timer, master, follower, unread, late, missed, start>>

\* The heartbeat is logged; heartbeater sleeps a second.
Beat ==
    /\ main = "log"
    /\ master.lease <= MaxLease \/ timer >= Paid
    /\ Logged(Heartbeat)
    /\ main' = "sleep" /\ timer' = 0 /\ due' = 0
    /\ late' = IF timer >= Paid THEN late
               ELSE IF late > Paid - timer THEN late - (Paid - timer) ELSE 0
    /\ UNCHANGED <<follower, start>>

\* log() times out, and the term ends.
BeatTimesOut ==
    /\ main = "log" /\ due <= 0
    /\ main' = "over"
    /\ UNCHANGED <<timer, due, master, follower, unread, late, missed, start>>

WakeUp ==
    /\ main = "sleep" /\ timer >= Second
    /\ main' = "wait" /\ timer' = 0
    /\ UNCHANGED <<due, master, follower, unread, late, missed, start>>

\* A put is logged, before the heartbeat, beside it or between two.
LogPut ==
    /\ main # "over"
    /\ master.lease <= MaxLease
    /\ Logged(Put)
    /\ UNCHANGED <<main, timer, due, follower, late, start>>

\* Mutant of Redo: a heartbeat is worth no more than a put.
RedoPut ==
    /\ unread # <<>>
    /\ follower' = renew_lease(follower, Put)
    /\ unread' = Tail(unread)
    /\ UNCHANGED <<main, timer, due, master, late, missed, start>>

\* The LEARN of a record has come, and the follower reads it.
Redo ==
    /\ unread # <<>>
    /\ follower' = renew_lease(follower, Head(unread).worth)
    /\ unread' = Tail(unread)
    /\ UNCHANGED <<main, timer, due, master, late, missed, start>>

Tick ==
    /\ main # "over"
    /\ timer < Paid \/ late < MaxLate
    /\ \A i \in DOMAIN unread : unread[i].behind < MaxLag
    /\ timer' = timer + 1
    /\ late' = IF timer < Paid THEN late ELSE late + 1
    /\ due' = IF main = "log" THEN due - 1 ELSE due
    /\ master' = [master EXCEPT !.lease = @ - 1]
    /\ follower' = [follower EXCEPT !.lease = @ - 1]
    /\ unread' = [i \in DOMAIN unread |-> [unread[i] EXCEPT !.behind = @ + 1]]
    /\ UNCHANGED <<main, missed, start>>

Next == StartBeat \/ Beat \/ BeatTimesOut \/ WakeUp \/ LogPut \/ Redo \/ Tick

Spec == Init /\ [][Next]_vars

-----------------------------------------------------------------------------
\* Types; a lease_counter holds less than a second, from its first renewal on.
TypeOK ==
    /\ main \in {"wait", "log", "sleep", "over"} /\ timer \in Nat /\ due \in Int
    /\ start \in [master : Rest, follower : Rest]
    /\ master \in [lease : Int, counter : -9 .. 9 \cup {start.master}]
    /\ follower \in [lease : Int, counter : -9 .. 9 \cup {start.follower}]
    /\ unread \in Seq([worth : {Put, Heartbeat}, behind : Nat])
    /\ late \in Nat /\ missed \in {0, Put, Heartbeat}

\* What a counter that starts below zero takes from the lease.
Shortfall(counter) == IF counter < 0 THEN -counter ELSE 0

\* A heartbeat times out only after the master was held up, by its puts, by paxos or by
\* the scheduler, for nine tenths of a second in all beyond what its heartbeats have paid
\* for; or if lease_counter started with as much below zero (kvs_server.cc:424, "account
\* for scheduling's overhead" at 441).
MasterKeepsLease == main = "log" /\ due <= 0 => late + Shortfall(start.master) >= 9

Worth(l) == l.lease + l.counter

\* What the records still to be read are worth together: the first i of them, and all.
UnreadUpTo[i \in 0 .. Len(unread)] ==
    IF i = 0 THEN 0 ELSE UnreadUpTo[i - 1] + unread[i].worth
Unread == UnreadUpTo[Len(unread)]

\* No lease is made or lost: but for what the counters started with, the follower's is the
\* master's without the records it has yet to read and the first of the term.
LeaseAccounting ==
    Worth(master) - start.master = Worth(follower) - start.follower + Unread + missed

\* recover times out and the follower runs for master, although there is one.
Interferes == main # "over" /\ follower.lease + delta <= 0

\* How late the follower is with the next record.
Lag == IF unread = <<>> THEN late ELSE Head(unread).behind

\* A follower runs against its master only when its lag, the record it never reads and a
\* counter that started below zero come to nine tenths of a second more than delta
\* (kvs_server.cc:385, "try to eliminate interference to the new master").
InterferesOnlyIfBehind ==
    Interferes => Lag + missed + Shortfall(start.follower) >= delta + 9

\* Where all is on time no follower runs against a master that beats (kvs_server.cc:385,
\* "try to eliminate interference to the new master").
NoInterference == ~Interferes
=============================================================================
