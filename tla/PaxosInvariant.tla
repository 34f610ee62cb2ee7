--------------------------- MODULE PaxosInvariant ---------------------------
(***************************************************************************)
(* The inductive invariant of Paxos: what the replies that an acceptor has *)
(* sent, in flight or counted, say of its state and of each other.         *)
(***************************************************************************)
EXTENDS Paxos

\* The PREPAREDs (the ACCEPTEDs) in flight and those that a call has counted.
PreparedSent ==
    {m \in msgs : m.type = "PREPARED"}
        \cup UNION {call[n][s].replies : n \in Server, s \in Slot}
AcceptedSent ==
    {m \in msgs : m.type = "ACCEPTED"}
        \cup UNION {call[n][s].acks : n \in Server, s \in Slot}

IsReport(m) == ~LargerThan(Special, m.na)

\* The local state of log().
CallFine(c, n) ==
    /\ c.phase = "idle" => c = Idle
    /\ c.phase = "entered" => c.stable
    /\ c.stable => /\ c.rl = "OK" /\ c.replies = {} /\ c.seq = Special
                   /\ c.record \in Stable(n) \cup {NoRecord}
                   /\ c.phase # "entered" => c.proposal = c.record
    /\ ~c.stable /\ c.phase # "idle" => /\ c.seq \in Regular /\ c.seq.name = n
                                         /\ c.record \in BeMaster
    /\ c.phase \in {"idle", "prepare"} => c.acks = {} /\ c.rl = "OK"
    /\ c.phase = "OK" => c.rl = "OK" /\ Cardinality(c.acks) >= Majority
    /\ c.phase \in {"accept", "OK", "TIMEOUT"} /\ ~c.stable /\ c.rl = "OK"
          => /\ c.proposal = c.record
             /\ Cardinality(c.replies) >= Majority
             /\ \A m \in c.replies : ~IsReport(m)
    /\ c.phase = "accept" /\ c.rl = "FAIL" => c.proposal.arg = NoArg

CallInv == \A n \in Server, s \in Slot : CallFine(call[n][s], n)

\* A counted reply answers the call that counts it, and is no longer in flight.
ReplyInv ==
    \A n \in Server, s \in Slot :
        /\ \A m \in call[n][s].replies \cup call[n][s].acks :
              m.dst = n /\ m.slot = s /\ m.seq = call[n][s].seq
        /\ call[n][s].replies \cap msgs = {}

\* An acceptor answers a prepare of a ballot once.
VoteInv ==
    \A m1, m2 \in PreparedSent :
        m1.src = m2.src /\ m1.dst = m2.dst /\ m1.slot = m2.slot /\ m1.seq = m2.seq
            => m1 = m2

\* Values are records, and numbers ballots, wherever the code goes on to use them as such.
RecordInv ==
    /\ \A a \in Member, s \in Slot :
          acc[a][s].st = "L" \/ IsReport(acc[a][s]) => acc[a][s].va \in Record
    /\ \A m \in PreparedSent : IsReport(m) => m.va \in Record
    /\ \A n \in Server, s \in Slot :
          /\ call[n][s].phase # "idle"
                => call[n][s].record \in Record /\ call[n][s].seq \in Regular \cup {Special}
          /\ call[n][s].phase = "accept" => call[n][s].proposal \in Record

AcceptorInv ==
    \A a \in Member, s \in Slot :
        /\ acc[a][s].st = "none" => acc[a][s] = Absent
        /\ LargerThan(acc[a][s].np, acc[a][s].na)

\* A promise and an acceptance bind the acceptor that sent them.
PromiseInv ==
    /\ \A m \in PreparedSent : LargerThan(acc[m.src][m.slot].np, m.seq)
    /\ \A m \in AcceptedSent : m.seq \in Regular
            => LargerThan(acc[m.src][m.slot].na, m.seq)

\* An acceptor that accepted at a regular ballot and promised a higher one has
\* reported what it had accepted.
ReportInv ==
    \A p \in PreparedSent, q \in AcceptedSent :
        /\ p.src = q.src /\ p.slot = q.slot
        /\ q.seq \in Regular /\ ~LargerThan(q.seq, p.seq)
        => IsReport(p)

\* A full election record is sent to the learners, and learned, only after its
\* proposer was told OK.
LearnInv ==
    /\ \A m \in msgs : m.type = "LEARN" /\ m.rec \in BeMaster
            => \E n \in Server : Won(n, m.slot) /\ call[n][m.slot].record = m.rec
    /\ LeaseBacked

IInv ==
    /\ TypeOK /\ RecordInv /\ CallInv /\ ReplyInv /\ VoteInv
    /\ AcceptorInv /\ PromiseInv /\ ReportInv /\ LearnInv
=============================================================================
