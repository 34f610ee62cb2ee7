---------------------------- MODULE ProposedLoop ----------------------------
(***************************************************************************)
(* The loop of check_proposed, reply by reply, against CheckProposed, the  *)
(* set of its outcomes that module Paxos works with.                       *)
(***************************************************************************)
EXTENDS Paxos
LOCAL INSTANCE SequencesExt

\* max_seq_num and proposed before the first reply.
Start == [max |-> Special, proposed |-> NoRecord]

\* A reply that is empty or not above the maximum is passed over.  Of any other the first
\* token becomes `proposed', and the ballot the maximum; but a second token, read "for
\* assert working", takes its place, as a ballot whose name is the empty string.
Reply(loop, m) ==
    IF m.na = NoBallot \/ LargerThan(loop.max, m.na) THEN loop
    ELSE [proposed |-> FirstToken(m.va),
          max |-> IF Tokens(m.va) = 1 THEN m.na ELSE [try |-> m.va.arg, name |-> -1]]

check_proposed(results) == FoldLeft(Reply, Start, results).proposed

(***************************************************************************)
(* Votes of up to three ballots beside "-1 @", on an election record, on   *)
(* what is left of one that was adopted, and on a heartbeat.               *)
(***************************************************************************)
LOCAL Votes ==
    {[na |-> NoBallot, va |-> NoRecord]} \cup
    [na : {Special} \cup {b \in [try : {0, 1}, name : 1 .. 2] : b.try + b.name <= 2},
     va : BeMaster \cup {FirstToken(r) : r \in BeMaster} \cup
          {[type |-> "HEARTBEAT", arg |-> NoArg]}]

\* Two or three replies of different acceptors, each with any of the votes.
LOCAL Replies ==
    UNION {{{[src |-> a, na |-> vote[a].na, va |-> vote[a].va] : a \in 1 .. k}
               : vote \in [1 .. k -> Votes]} : k \in 2 .. 3}

\* Over every order in which the replies of a call may arrive, the loop leaves in
\* `proposed' the values that CheckProposed lists, no other and no fewer.
ASSUME LoopIsCheckProposed ==
    \A R \in Replies :
        CheckProposed(R) = {check_proposed(results) : results \in SetToSeqs(R)}
=============================================================================
