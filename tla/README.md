# A verification project for KV-Smith

KV-Smith is a replicated key-value store. A handful of servers keep a common log
(one Paxos instance per slot); the server that logs a BEMASTER record becomes master,
serves its clients from a table in memory, and logs every put; the others read the
log and wait for the master's lease to end. This directory holds TLA+ models of the
servers, of the log and of the clients, the TLC configurations that check them, and
proofs, checked by TLAPS, about each of them. `PROJECT.json` lists the runs, the mutants that each
property detects, the source lines each definition stands for, and the hazards.

    tlc -workers 2 -config KvsServe.cfg MCKvsServer      # a run
    tlapm PaxosProofs.tla                                # proofs

## 1. Inventory

| component | state | operations | talks to |
|---|---|---|---|
| `paxos` (paxos.cc) | `acceptor_buffer[slot]`: A or L, np, na, value; two `results_buffer`s | `prepare`, `accept`, `learn` (proposer); `do_prepare`, `do_accept`, `do_learn`, `do_prepared`, `do_accepted` (network callbacks) | the network; `log_file::write` on LEARN; called by `replicated_log` |
| `results_buffer` | `myresults`, `mycontexts` per slot and seq_num | `register_`, `unregister` (timed wait), `fill` (signals) | paxos threads and network workers meet here |
| `replicated_log` | `rwhead`, `movedhead`, `next_try`, `failure`, `mv_window`, four mutexes | `log` (many threads), `next_record`, `reset`, `skip` (the owner, alone) | `paxos`, `log_file`; called by `kvs_server` |
| `log_file` | a cache of records and a condition variable (the file is not written) | `write`, `read` with timeout, `check_file` at start | written by `paxos`, read by `replicated_log` |
| `paxos_log` | an append-only trace of the acceptor | `write`, `size` | its size is the window of the acceptors |
| `asynchronous_network` | one UDP socket, workers | `inject`, `do_work` | `paxos::callback` |
| `kvs_server` | `am_i_primary`, `client_number`, `logging_number`, lease, `local_db` | `callback` → `get`, `put` (worker threads); `start`: `recover`, `to_be_master`, `serve`, `restart` (main thread) | `replicated_log`, `tiny_table`, `connection_manager` |
| `tiny_table` | 100 values, 100 mutexes | `lock`, `select`, `update`, `unlock` | |
| `connection_manager` | one worker thread per connection | `get_request`, `return_result` | TCP; `kvs_server::callback` |
| `kvs_client` | `server_connections`, `primary_server`, `exiting` | `get`, `put` (user thread), `connection_maintain` (maintainer), destructor | TCP |
| `eval-c.cc`, `eval-s.cc` | the measurements, with assertions on what clients read | | |

What is hard here: a server has a main thread, a thread per connection and the network
workers, with seven mutexes and three condition variables; datagrams are lost and
reordered; every wait for Paxos has a timeout and is retried with numbers that are not
always new; the old master's one-phase writes race the election of the next; `skip` and
`reset` rely on being alone; leases run on clocks and on copies read from a log; connections die
under the client and answers come late.

What makes each part correct:

* paxos: one winner per slot; what a majority has accepted binds later ballots; a
  lease in the log belongs to a winner; an acceptor keeps its promises.
* results_buffer: no pointer to a frame that has returned; a majority wakes its call;
  no reply counts twice.
* replicated_log: one try number per failed term; heads that agree when the log is
  read; one call per slot.
* kvs_server: mastership ends only by a failure, and a failure ends by a reset; the
  table shows what was logged; no put is left waiting; a client reads what it wrote.
* the servers together: one record per slot; what a master has acknowledged is known to
  whoever comes after it.
* the lease: how late a master may be before it loses it, how far a follower may be behind
  before it runs against its master, and that no copy of it drifts.
* kvs_client: an answer belongs to its request; the table of connections and the open
  sockets agree; a client finds the master again.

`PROJECT.json` lists the hazards behind these, each at its line, with the properties
aimed at it or the reason why none is yet.

## 2. Modules

| module | models | checked by |
|---|---|---|
| `Paxos` | acceptors, learners, proposers and messages; how `log()` drives them | `election`, `owner`; `disagree` |
| `Mastership` | abstract: what the log promises to servers that run for master | `ElectsOneMaster` in `election` |
| `SharedLog` | abstract: one log that every server reads a prefix of | `ImplementsSharedLog` in `cluster` |
| `KeyValueStore` | abstract: a register per key, as a client of one server sees it | `ImplementsStore` in `serve` |
| `ProposedLoop` | the loop of `check_proposed`, against `CheckProposed` of `Paxos` | an assumption, evaluated in `owner` |
| `PaxosInvariant` | the inductive invariant of `Paxos` | `IInv` in `owner` |
| `PaxosProofs`, `PaxosRefinement`, `PaxosVotes` | theorems | tlapm |
| `ReplicatedLog` | the threads inside one server's `log()`, the heads, the owner's calls | through `KvsServer` |
| `KvsServer` | extends it: workers, main thread, table, clients | `serve`, `live`; `reads` |
| `KvsServerInvariant` | the inductive invariant of `KvsServer` | |
| `KvsServerProofs` | theorems | tlapm |
| `Cluster` | several servers over one log: slots, terms, what is acknowledged and read | `cluster`; `missed` |
| `ClusterInvariant` | the inductive invariant of `Cluster` | `LInvWhileSound` in `cluster` |
| `ClusterProofs` | theorems | tlapm |
| `Lease` | `renew_lease`, `expire_time` and `delta` on a clock, master and follower | `lease`; `interfere` |
| `LeaseProofs` | theorems | tlapm |
| `ResultsBuffer` | `register_` / `unregister` / `fill` | `results` |
| `ResultsBufferProofs` | its inductive invariant, theorems | tlapm |
| `KvsClient` | the client, its maintainer, the workers at the other end | `client` |
| `KvsClientInvariant` | the inductive invariant of `KvsClient` | `CInv` in `client` |
| `KvsClientProofs` | theorems | tlapm |
| `Framing` | `get_response` / `get_request` over several `recv` calls | an assumption, evaluated in `client` |
| `MCPaxos`, `MCPaxosLoop`, `MCKvsServer`, `MCCluster`, `MCLease`, `MCKvsClient` | values of the constants for TLC, symmetry sets | |

How they fit together: `Paxos` decides a slot and is what `ReplicatedLog`, `KvsServer` and `Cluster`
see by its results; `KvsServer` is one server with all its threads, `Cluster` several servers
with their threads reduced to the calls of `log()` under way; `Lease` gives the times that the
others leave open; `KvsClient` meets a server through the statuses it answers.

### Paxos

`acc[a][s]` is `acceptor_buffer[s]` of member `a`; a field that the map does not hold is
`NoBallot` or `NoRecord`. `call[n][s]` is the last call of `log()` by server `n` for slot
`s`: where it is, its sequence number, record, proposal and the replies its results
vector holds. A handler is one action, as it runs under `buffer_mutex`.

* `largerthan` writes the maximum back into its argument, so a prepare that passes the
  test raises np by the comparison itself; `DoPrepare` and `DoAccept` say the outcome.
* A handler that discards a datagram is a stutter: the datagram stays in flight and is
  never useful again. That covers loss, delay and reordering. UDP duplication is not
  modelled. A LEARN to a member that has learned is not put in flight, as it would change nothing.
* Members (as acceptors and learners) and servers (as proposers) are the same processes
  but different constants, which keeps `Member` symmetric; a LEARN sent back by
  `learned()` goes to any member, a superset of the code's destination.
* `CheckProposed` gives the values `proposed` may end with over all orders of the
  replies, with the loop's habits: a reply at "-1 @" never beats the initial maximum, one
  token of the record is kept, a second token becomes the maximum and beats all the rest.
  `ProposedLoop` has the loop itself, reply by reply, and the assumption
  `LoopIsCheckProposed`: over every order of two or three replies with any vote, its
  outcomes are the set that `Paxos` uses. That one token is kept (paxos.cc:169) means that an
  adopted BEMASTER is decided as "3", without its second.
* An unstable log is one action up to its broadcast: the server that runs for master has
  no other thread in `log()` (checked by `OwnerAssertions` of `KvsServer`).
  A stable log tests `failure` and takes its slot in two steps.
* `Owner[s]` is the server whose mastership covers slot `s`, so which server logs
  stable records there, once per slot.
* Servers start with empty files and never come back after a crash, so
  `first_to_decide` stays 0 and `passive_catchup` is never reached. A crashed server is
  one that takes no more steps, which no action is forced to do.

### ReplicatedLog and KvsServer

One server. Paxos is seen through its results: a prepare ends by its timeout, with
nothing to adopt, or with an election record to adopt; an accept ends by its timeout or
its majority. A slot at or beyond `MaxSlot` (the acceptors' window) only times out.

* `calls[t]` is the frame of `log()` in thread `t`. A mutex section is one step, except
  where `skip()` accesses the same integer without the mutex. There the loads and
  stores of the `-O2` build are steps of their own: `PrologueLoad` / `PrologueStore`
  (which hold `mh_mutex` between them), `MoveTest` / `MoveAdvance` (`rw_mutex`),
  `SkipLoad` and the two stores of `SkipStore`. An increment after a test may use the
  value loaded or load it again.
* `decided` holds the records the learners were told; a LEARN reaches this server's
  cache when its slot is read, which is the only place where the cache matters.
  `Foreign` are the records of other servers.
* The lease is not computed: a wait may time out at any time. `recover` may find no
  record although one is decided, unless it has read it before.
* A client works on one key. One in `Checking` remembers its last successful put (`thevalue` of
  eval-c.cc) and stops comparing at the first request that fails; one in `Persistent`
  goes on all the same, as the second loop of `eval_failover` does. What a client compares
  changes nothing for the server, so `serve` and `live` have clients that never do.
* Condition variables wake only by a signal; spurious wakeups are not modelled.

`KeyValueStore` is what clients are promised. Its `value` is `local_db`, its `log` is
`decided`, and `Requested(c)` is what a client can tell of its worker: a request is
pending from its prologue until the table has been read or written or is not going to be,
and then has its status. So `Get` implements `DoGet`, `PutUpdate` implements `DoPut` or `Fail`,
`Redo` of a put implements `Replay`, and the locks, the waits, the rounds of Paxos and the
main thread are stutters or `Log`. `Replay` is what the store does not promise away: while nobody is
served, a put of this server that failed and was decided all the same may take effect, or
an old value come back (`reads`).

`SomebodyEndsTheWait` names, for each wait that has no timeout, the thread that ends it: for `cn_cv` a
busy worker, for `ln_cv` a worker in `log()`, for the lock of a key the worker that holds it, past
the lock, for `mh_mutex` and `rw_mutex` a thread between its two halves of a section. Each is
further on than the one that waits; with `NoPutForgotten` for `ln_cv2`, no wait goes round in a circle.

### Cluster

Several servers and one log. `calls[n]` are the stable logs under way at server n, each
with its slot; an action is a call of the main thread or the beginning or end of a
log. What `Paxos` does with a slot is kept in three facts: a majority has promised to a
server that runs for it (and refuses "-1 @" from then on), an election has left its record
at some acceptor, and which records were decided. `acked` is what was answered OK.

The code leans on circumstances it does not enforce. None of them is assumed: the steps in which
one fails are steps of the model, and the history variable `broken` records it.

| in `broken` | the step | what the code leans on |
|---|---|---|
| learned | a server runs for a slot whose record has been decided, or logs there | LEARN is sent once (paxos.cc:114), "-1 @" is never adopted (paxos.cc:158) |
| expired | a server runs for a slot at which a call of a master is under way | calls wait until the lease (kvs_server.cc:121, 434) |
| first | the first record logged after `skip` times out | `move_head` never tests the head's own slot (replicated_log.cc:155) |
| alone | a put is logged between `am_i_primary = true` and `skip` | kvs_server.cc:307-309 |
| window | a call begins more than `window_size` slots ahead of the head | `log_prologue` counts calls, not slots (kvs_server.cc:258) |

The properties say what holds until the first such step: `Sound` is `broken = {}`, and a
formula `Sound => P` says that P does not fail before one of the five has. They name all the ways
in which two masters may come to share a slot or an acknowledged put may be lost. No
shorter list would do: after any one of the five alone, TLC finds a slot
with two records and a put that did not survive. For
instance, after "first" a master whose first log failed stands one slot before the
slots of its own term, is elected there again, and shares slots with a server that was
elected one further on. So the hazards behind the five are not claimed to be
handled: they are listed in `PROJECT.json` without a property.

`cluster` and `missed` have the constraint `Sound`, so TLC does not go on from a state in
which a circumstance has failed. That loses nothing: nothing ever leaves `broken`, and
from there on each property of the two runs is true, but for the types,
which `LogTypes` proves for every behaviour.

`SharedLog` is what the servers promise together: one log, each slot decided once and read in
order. `decided` is `chosen`, `read` are the heads, `table` the tables, `answered` what was acknowledged. The
prologue of a put, its failure, resets and lost elections are stutters; `LogOK` is `Append`, which is one
step although a put takes many: the slot is one that nobody has read past, or one that the term
itself has reserved. `Won` is `Elect`, `Redo` and `Skip` are `Follow`. The slots between
an election and the term it begins are reserved: the log promises nothing to who writes
there, and nobody need read them.

`SurvivesTerm` speaks of records behind no hole (`reads` shows what a hole does) and not of
the first record of a term, which no reader ever sees: the winner skips from the slot of
its election, the reader from the one after (`missed`).

### Lease

One term of a master, and one follower that reads. Time is in tenths of a second,
`lease` is `expire_time` minus now. The division is that of C, which rounds towards zero.
The heartbeater waits until no put is being logged, takes a copy of the lease as its timeout
(`StartBeat`), logs (`Beat`, or `BeatTimesOut`, which ends the term) and sleeps. Puts are logged in
any of these states. `unread` are the records that the follower has not read, whether their LEARN has
reached it or not: what `recover` sees is that its own cache has none (log_file.cc:69-74).

Nothing is assumed of times or counters. History variables measure them:
`late` is how much longer than the heartbeats pay for (a second of sleep and two
tenths of waiting and logging) the master took so far, `behind` of a record for how long it is unread
(with what the master was late when it logged it), `start` what
the two `lease_counter`s held. The code sets the counter only after a term (`restart`), so
it starts with any number: `Rest` is any set of integers. The properties say how much
the lease bears: `MasterKeepsLease`, nine tenths of being late, less what a negative
counter took; `InterferesOnlyIfBehind`, nine tenths more than `delta` for lag, counter
and the record that is never read. Both bounds are met in `lease`.

`delta` is two seconds per place in the order of the names. `lease` has the follower of
priority 1 (20 tenths), `interfere` that of priority
0: with a master that is never late and a follower that reads at once, the first heartbeat of the
term, which it skips, is enough. `LeaseAccounting` is the exact balance: the two copies differ by the records that are
unread, the first of the term, and where the counters started. A put whose log times out ends
the term as well; it is not in `Lease`.

### ResultsBuffer

Every section under `results_mutex` is one step. Threads hold different slots: this is
the assertion of `register_`, an obligation of `replicated_log` that holds as long as
nobody logs while `skip` runs (see `Cluster`, "alone"). An acceptor answers a seq_num once (`OneVotePerAcceptor` in `Paxos`).
`NoMissedWakeup` is the safety half of `MajorityWakes`: the replies that complete a majority before
the call has put its context into the buffer are found by its own test, those after by `fill`.

### KvsClient

One client with its two threads, and for each connection the worker of the server.
Requests and answers are whole messages: `Framing` has the two loops over `recv`, and
its assumption `MessageIsWhole` that a text arrives whole, for every text up to seven
bytes, cut in every way that a buffer of six allows. The request number is a ghost, used only
to state `AnswerMatches`. Servers may be killed (an end of file, or a reset if bytes were unread),
and elected, until `Settle`; a slot of `conn` is reused when both ends are closed. NOT_PRIMARY, RETRY
and TIMEOUT are one status, FAIL: the client goes on to the next server on each.

## 3. Runs

| run | bounds | shows |
|---|---|---|
| election | 3 members, one slot, 2 candidates; the higher-named runs again with its old seq_num after adopting | ElectionSafety, ChosenBinds, LeaseBacked, OneVotePerAcceptor, OneVotePerBallot, ElectsOneMaster |
| owner | stable log of server 1 against the election of server 2, and a slot beyond the window | TypeOK, FencedOwner, WindowExhausted, IInv, AcceptorMonotonic |
| serve | 2 clients that get and put, `window_size` 2, 3 slots, foreign records, two elections | TypeOK, OwnerAssertions, OneTryPerTerm, TableIsLogged, SomebodyEndsTheWait, PrimaryUntilFailure, ImplementsStore |
| live | 2 clients that get and put, `window_size` 1, 2 slots | NoPutForgotten, FailureEnds, PutReturns |
| results | 2 threads, 1 slot, 2 seq_nums, 3 acceptors, 2 calls each | TypeOK, NoDanglingPointer, NoMissedWakeup, MajorityWakes |
| client | 2 servers, 3 connections at a time, any number of elections and requests | TypeOK, AnswerMatches, ClientAssertions, NoSocketLeaks, CInv, ReachesMaster |
| cluster | 3 servers, 9 slots, `window_size` 2, 2 calls at a time at each server | TypeOK, LInvWhileSound, SurvivesTerm, OneRecordPerSlot, ImplementsSharedLog |
| lease | counters that start with -17, -9 or 9; up to 0.1 s late, records up to 0.1 s behind; no put while the lease is over 1.7 s | TypeOK, MasterKeepsLease, LeaseAccounting, InterferesOnlyIfBehind |

The bounds: two candidates and three members are the least for a split majority and an
adoption; one slot suffices where slots do not interact (an acceptor treats each by itself). The sequence
numbers of a run are bounded by `MaxTry`, as a server that exceeds it stops running. In
`KvsServer` two workers and the main thread are the least for a failure seen by several
threads, and a window of two for a hole with a put behind it. `MaxTry = 0` (`live`) leaves
one term and the reading that follows it, `MaxTry = 1` (`serve`, `reads`) a second election. The clients of `serve` have a
key each, since two that share one never log at the same time; the theorems about
`ImplementsStore` and `SomebodyEndsTheWait` have any number of clients on any key. `client` bounds only how many
connections exist at a time. Nine slots hold three elections of `cluster`: enough for a
master to fail, be followed by another and come back, behind the others or before them; three
servers are a master, its successor and a reader of both. In `lease` the counters
stand for less than and more than a second below zero and for the largest rest: -9 is the least at which a heartbeat
of a master that is on time can time out, -17 at which a follower of priority 1 can run. An election
leaves two seconds, so with `MaxLease` below that a put may still be the first record of a term; without it the lease would grow for ever. Each property has a mutant in `PROJECT.json`, a plausible
slip in the code that TLC finds under the run's own bounds.

`CHECK_DEADLOCK FALSE` stands in the runs that stop for good: all of `Paxos`
(servers stop retrying), `results` (after `MaxCalls` calls), `cluster` and `missed` (no
slot is left, or a circumstance has failed), `lease` and `interfere` (the term is over).

Fairness. `Paxos`, `Cluster` and `Lease` assume none. `KvsServer!FairSpec`: weak fairness of each thread,
since every wait that is not on a condition variable is a mutex section or a timed wait
for Paxos; a request itself is not fair. `PutReturns` holds with at most
`window_size` + 1 clients, each on its own key. With two clients waiting, one of them
would wait for ever, as `log_epilogue` signals `ln_cv2` only at the limit
(kvs_server.cc:268); the program, with 100 keys and a window of 1000, never has one waiting.
`ResultsBuffer!FairSpec`: a thread that can run does; neither the timeout nor the
network is fair. `KvsClient!FairSpec`: the threads run, `recv` returns within `SO_RCVTIMEO`, the application goes on asking, and once
settled a connect to the master succeeds.

### Where the code and the repository's own statements differ

| run | statement | what the run shows |
|---|---|---|
| disagree | readers of a slot read the same record (main_3.cc) | the replies at "-1 @" are not adopted (paxos.cc:158) |
| reads | a get returns the last put (eval-c.cc:131) | a put behind a timed-out slot is lost by `reset` (replicated_log.cc:175) |
| missed | a reader reads the election and the first record after it (main_3.cc:103-104) | reader and winner skip from different slots (kvs_server.cc:309, 390) |
| interfere | "try to eliminate interference to the new master" (kvs_server.cc:385) | `deltato` is set and never used; priority 0 waits for nothing beyond its copy of the lease, which never has the term's first heartbeat |

The comment at replicated_log.cc:14-16 asks for a brand-new sequence number for each
proposal. A call that adopted ends in `set_failure()`, which leaves `next_try` alone, so
its number is used again: this is in the model, and `OneVotePerAcceptor` and
`OneVotePerBallot` show that it does no harm.

## 4. Proofs

For every value of the constants, under the assumptions their modules state.

| module | theorems | about |
|---|---|---|
| `PaxosProofs` | `TypeCorrect`, `Invariant` | `TypeOK`, and the inductive `IInv` |
| | `OneMaster`, `ChosenBindsLater`, `LeasesAreBacked` | `ElectionSafety`, `ChosenBinds`, `LeaseBacked` |
| `PaxosRefinement` | `Monotonic`, `Implements` | `AcceptorMonotonic`; `Paxos` implements `Mastership` |
| `PaxosVotes` | `CountedOnce`, `VotedOnce` | `OneVotePerAcceptor`, `OneVotePerBallot` |
| | `FencesOff`, `NothingBeyond` | `FencedOwner`, `WindowExhausted` |
| `KvsServerProofs` | `ServerInvariant`, `ServerTypes` | the inductive `SInv`, `TypeOK` |
| | `AssertionsOfOwner`, `TriesOnce`, `LoggedFirst` | `OwnerAssertions`, `OneTryPerTerm`, `TableIsLogged` |
| | `ServesUntilFailure`, `SomebodySignals` | `PrimaryUntilFailure`, `NoPutForgotten` |
| | `NoWaitIsForNobody` | `SomebodyEndsTheWait` |
| | `EachKeyIsARegister` | `KvsServer` implements `KeyValueStore` |
| `ClusterProofs` | `LogInvariant`, `LogTypes` | the inductive `LInvWhileSound`, `TypeOK` |
| | `OneRecord`, `AcknowledgedSurvives` | `OneRecordPerSlot`, `SurvivesTerm` |
| | `OneLog` | `Cluster` implements `SharedLog` until a circumstance fails |
| `LeaseProofs` | `MasterKeeps`, `LeaseTypes` | `MasterKeepsLease`, `TypeOK` |
| | `NothingLost`, `NoneRunsUnlessBehind` | `LeaseAccounting`, `InterferesOnlyIfBehind` |
| `KvsClientProofs` | `ClientInvariant`, `ClientTypes` | the inductive `CInv`, `TypeOK` |
| | `AnswersMatch`, `AssertionsHold`, `NothingLeaks` | `AnswerMatches`, `ClientAssertions`, `NoSocketLeaks` |
| `ResultsBufferProofs` | `BufferTypes`, `PointersAlive`, `NoneMissed` | `TypeOK`, `NoDanglingPointer`, `NoMissedWakeup` |

`Paxos`: any finite set of members, any servers, slots, window, owner and bounds.
Safety is about what acceptors have promised and accepted, while a caller sees
only replies, possibly late ones. So the invariant relates every reply, in flight or counted, to its sender:
`PromiseInv` (a PREPARED binds np, an ACCEPTED binds na from below), `ReportInv` (an
acceptor that had accepted at a regular ballot before promising a higher one said so),
`VoteInv` (one answer per ballot). `CallInv` says that a call proposes its own record only if
no counted reply reported an acceptance above "-1 @". Two majorities share an
acceptor (`Cardinality` of finite sets); the shared one has reported, so the later call
has adopted: `ChosenBinds`. Two winners would both have proposed their own record with a
majority of acceptances: `ElectionSafety`. `LearnInv` says a full election
record is sent only by a winner; with it the refinement maps winning to `Win`, a first learner
to `Publish` and all else to a stutter. Nothing in the argument needs that
prepares carry new numbers, only that an acceptor answers a number once.

The votes (`PaxosVotes`) do need that a number used again does no harm. A ballot that was put to
the vote has used up the promises of a majority: those acceptors have promised more, and every promise
of theirs for the ballot is counted in a call that went on (`QuorumInv`), so no later call finds a majority for it.
Hence an acceptor is asked once per ballot and answers once (`OnceInv`), which makes acceptances worth counting.
An acceptor that accepted says so in every later promise, and one that promised takes nothing
at "-1 @" any more (`FenceInv`): an election that met no trace and a stable log of the old master cannot both have a majority.

`KvsServer`: any finite set of clients, any keys, values, window and foreign records. `FrameInv` says that a
log that did not end well has set `failure`, and one that did has had its own record decided (a stable log never
adopts). `CountInv` makes the counters the numbers of busy and logging workers, so that `client_number = 0` means nobody
is left inside; `MainInv` says that nobody is served while the main thread reads or runs for master: hence `reset` never
meets a thread in `log()` and always finds a failure (`OwnerAssertions`), failure stays as long as a worker that met it, and no term is ended without one
(`PrimaryUntilFailure`). `TryInv`: only the thread that finds `failure` unset moves `next_try`, and until it has, every number
in use is the present one. Mutual exclusion of the mutexes is not needed for any of these. `SomebodySignals`
needs that there are at most `window_size` + 1 clients, as the run does. `SInv` was checked on the instance of `serve` as well.

`NoWaitIsForNobody` adds to `SInv` what each wait is for: whoever takes the last count to zero moves the
main thread on (`CondInv`), a lock is taken on the way in and given back on the way out
(`LockInv`), a mutex likewise (`MutexInv`). `EachKeyIsARegister` maps each step of a worker to a step of the store or to nothing. A put takes effect at
`PutUpdate`, where `FrameInv` and `WorkerFine` say that an OK stands for this very record among the
decided; a step inside `log()` only lets the log grow; `MainInv` says that `Redo` meets nobody.
The proof needs neither the locks nor the mutexes, since the model writes the table and reads
it in one step each.

`Cluster`: any servers, slots, window and number of calls, and no assumption on what the five circumstances do. `LogTypes` holds
whatever fails. The rest is `Sound => LInv`, inductive because a state that is `Sound` comes after one that is, by a step in which nothing fails.
The invariant is about where heads may stand. Elections are more than a window apart, and every head is at an election
or before it, or past the slots that its winner skips; only the winner stands at the last of these, as long as its
first record is not decided ("first"; `HeadInv`). A slot below any head is decided or skipped. So a server
that runs for an undecided slot is beyond all elections and no head has been further (lemma `Virgin`; "learned"). A
master's head passes only what its own term has decided (`TermInv`), hence stays before every later election, and with "window"
its calls end before the first slot of the next term: two calls that may still end well never share a slot (`OpenInv`). A slot that is
promised has no such call ("expired", `PromiseInv`). "alone" keeps calls out of the moment in which a winner has not
skipped yet. For `SurvivesTerm`: a record behind no hole cannot lie in the slots that another election skips, as that
election would be in the term, at a slot that the master had logged before; and whoever passed a slot that nobody skips has read it (`ReadInv`).

`OneLog` takes the steps that `LInv` has made safe and maps them. `HeadInv` gives that a slot
won or written is one that no head has passed, or that is reserved (`UnreadSlot`); `TermInv` that a record appended is of the
last term before its slot; `ReadInv` that a head goes past nothing but reserved slots and
slots whose record is in the table (`OnwardStep`).
`Lease`: any counters, any delays, any load and any priority. `MasterInv` says what is left to the master (`TimeLeft`:
its lease and counter, less what the counter started with) together with `late`: an election leaves two seconds,
`renew_lease` loses nothing of what it is given, each round of beat and sleep
pays for itself or adds to `late`, so the sum is never under 1.8 s. The copy that a heartbeat
takes as its timeout lacks what is in the counter, nine tenths at most: `MasterKeepsLease`.

The balance `LeaseAccounting` sums over the records that are unread. A sum over a sequence is not
inductive in a convenient way, as records are added at one end and read at the other; a running balance is: a function
`f` on the places of the sequence that starts at what the follower holds, grows by what each record is worth, and
ends at what the master holds (`Balanced`: there is such an `f`). Reading shifts it, logging extends it, a tick lowers it. That `f` has
grown by the sum that the property names is shown without induction over data: of all places where
the two differ there would be a least one, and its predecessor refutes it. `NothingLost` is this
sum. For `NoneRunsUnlessBehind` each place of `f` also says how the master stood: `f` before a record, and the time by
which that record is behind, are at least 1.8 s together, as the master's lease and `late` were when it
logged it. At the first place this is the follower's own lease, with the record it never reads.

`KvsClient`: any number of servers, connections and requests. Answers carry no number, so what makes
`AnswerMatches` true is what a connection may hold: one that nobody waits on is clean, on the one the user
waits on there is one thing at a time (the request, the worker at it, or the answer), and only a
connection that was given up, and so closed, can still bring anything (`CleanInv`, `AnswerInv`). That the table is
filled by the maintainer alone, and only where it found an entry dead (`MaintainerInv`), gives the assertions;
that an open socket is in the table or in the maintainer's hand (`TableInv`), that none is lost.

`ResultsBuffer`: any threads and any finite set of acceptors. A thread inside a phase has a slot of its own
(`CallerInv`), every entry and context is that of a thread inside a phase of its slot (`EntryInv`): so no pointer
outlives its frame. A vector holds at most as many results as acceptors have answered its call (`SizeInv`). While a call waits
its context is in the buffer, so a `fill` that completes the majority finds it (`WakeInv`).

Only model-checked, as liveness under fairness and `ENABLED` are beyond the prover: `FailureEnds`,
`PutReturns`, `MajorityWakes`, `ReachesMaster`. And the assumptions `LoopIsCheckProposed` of `ProposedLoop` and
`MessageIsWhole` of `Framing`, which are about recursive definitions over data. All else that a passing run checks is a theorem.

## 5. Plan

Order: what decides who is master first, then the server around it, then its clients.

1. done: `Paxos`, `Mastership`, `PaxosInvariant`, `PaxosProofs`, `PaxosRefinement`, `PaxosVotes`.
2. done: `ReplicatedLog`, `KvsServer`.
3. done: `ResultsBuffer`, `KvsClient`.
4. done: `ProposedLoop`, `Framing`.
5. done: `Cluster`, `Lease`.
6. done: proofs of `Paxos`, its refinement, `KvsServer`, `Cluster`, `Lease`, `KvsClient`,
   `ResultsBuffer`.
7. done: `SharedLog`, implemented by `Cluster`, and `KeyValueStore`, implemented by `KvsServer`, with proofs.
8. `Lease` with puts that hold up a beat: done. With two followers: left.

## 6. Not modelled

* Text formats and the widths of buffers: the parsing of a request, the 99 bytes of a datagram.
* The content of files: this code writes the acceptors' file and never reads it back,
  and never writes the log. So a server that is started again after a crash
  has forgotten everything (the call of `init_acceptor_buffer` is commented out,
  paxos.cc:15); the models have servers that stop, none that come back.
  `passive_catchup` is reached only with a non-empty file.
* In `Lease`: clocks that differ, puts that time out, a second follower, and the term after the first heartbeat that timed out.
* `gen_log`, `paxos_log_old` (not compiled), the test programs and the measuring
  scripts. The commented-out `testandset` is not part of the program.
