--------------------------- MODULE ResultsBuffer ---------------------------
(***************************************************************************)
(* results_buffer: where the thread of a paxos phase meets the network     *)
(* workers that bring the replies.  A phase registers its vector,          *)
(* broadcasts, and waits in unregister for a majority or its timeout;      *)
(* meanwhile fill() pushes replies and signals.  Every section runs under  *)
(* results_mutex and is one step.  Threads hold different slots: this is   *)
(* what replicated_log owes its paxos.                                     *)
(***************************************************************************)
EXTENDS Integers, FiniteSets

CONSTANTS
    Caller,         \* the threads in a phase of paxos
    Acceptor,       \* the members that may answer
    Slot, Seq,      \* slot_num and seq_num
    Majority,
    MaxCalls,       \* bound: the calls that one thread makes
    None

ASSUME MajorityAssumption == Majority \in Nat \ {0} /\ MaxCalls \in Nat
ASSUME AcceptorAssumption == IsFiniteSet(Acceptor)

VARIABLES
    myresults,      \* myresults[s]: the entries [seq, caller] of the slot
    mycontexts,     \* mycontexts[s]: the contexts [seq, caller] of the slot
    size,           \* size[c]: the length of the vector of c
    caller,         \* caller[c]: where c is, and its slot and seq_num
    answered,       \* the replies sent: an acceptor answers a seq_num once (Paxos)
    replies,        \* the replies in flight
    calls           \* calls[c]: how many calls c has made

vars == <<myresults, mycontexts, size, caller, answered, replies, calls>>

Away == [pc |-> "away", slot |-> None, seq |-> None, signalled |-> FALSE]

Init ==
    /\ myresults = [s \in Slot |-> {}]
    /\ mycontexts = [s \in Slot |-> {}]
    /\ size = [c \in Caller |-> 0]
    /\ caller = [c \in Caller |-> Away]
    /\ answered = {} /\ replies = {}
    /\ calls = [c \in Caller |-> 0]

Is(c, pc) == caller[c].pc = pc
Entry(c) == [seq |-> caller[c].seq, caller |-> c]
OfSeq(entries, q) == {e \in entries : e.seq = q}

-----------------------------------------------------------------------------
\* Mutant of Register: the vector of the call before is used again.
RegisterKeepsResults(c, s, q) ==
    /\ Is(c, "away") /\ calls[c] < MaxCalls
    /\ \A d \in Caller : caller[d].slot # s
    /\ myresults' = [myresults EXCEPT ![s] = {[seq |-> q, caller |-> c]}]
    /\ caller' = [caller EXCEPT ![c] =
                     [pc |-> "broadcast", slot |-> s, seq |-> q, signalled |-> FALSE]]
    /\ calls' = [calls EXCEPT ![c] = @ + 1]
    /\ UNCHANGED <<mycontexts, size, answered, replies>>

Register(c, s, q) ==
    /\ Is(c, "away") /\ calls[c] < MaxCalls
    /\ \A d \in Caller : caller[d].slot # s
    /\ myresults' = [myresults EXCEPT ![s] = {[seq |-> q, caller |-> c]}]
    /\ size' = [size EXCEPT ![c] = 0]
    /\ caller' = [caller EXCEPT ![c] =
                     [pc |-> "broadcast", slot |-> s, seq |-> q, signalled |-> FALSE]]
    /\ calls' = [calls EXCEPT ![c] = @ + 1]
    /\ UNCHANGED <<mycontexts, answered, replies>>

\* Between register_ and unregister: any of the acceptors answer.
Broadcast(c) ==
    /\ Is(c, "broadcast")
    /\ \E willing \in SUBSET Acceptor :
          LET sent == {[slot |-> caller[c].slot, seq |-> caller[c].seq, from |-> a]
                          : a \in willing} \ answered
          IN  answered' = answered \cup sent /\ replies' = replies \cup sent
    /\ caller' = [caller EXCEPT ![c].pc = "unregister"]
    /\ UNCHANGED <<myresults, mycontexts, size, calls>>

\* Mutant of Unregister: it waits before it looks at the vector.
UnregisterWaits(c) ==
    /\ Is(c, "unregister")
    /\ mycontexts' = [mycontexts EXCEPT ![caller[c].slot] = @ \cup {Entry(c)}]
    /\ caller' = [caller EXCEPT ![c].pc = "wait"]
    /\ UNCHANGED <<myresults, size, answered, replies, calls>>

\* unregister installs its context and tests the vector before it waits.
Unregister(c) ==
    /\ Is(c, "unregister")
    /\ mycontexts' = [mycontexts EXCEPT ![caller[c].slot] = @ \cup {Entry(c)}]
    /\ caller' = [caller EXCEPT ![c].pc =
                     IF size[c] < Majority THEN "wait" ELSE "erase"]
    /\ UNCHANGED <<myresults, size, answered, replies, calls>>

\* The wait ends by a signal, and the vector is tested again, or by the timeout.
Wake(c) ==
    /\ Is(c, "wait") /\ caller[c].signalled
    /\ caller' = [caller EXCEPT ![c].signalled = FALSE,
                     ![c].pc = IF size[c] < Majority THEN "wait" ELSE "erase"]
    /\ UNCHANGED <<myresults, mycontexts, size, answered, replies, calls>>

TimedOut(c) ==
    /\ Is(c, "wait")
    /\ caller' = [caller EXCEPT ![c].pc = "erase"]
    /\ UNCHANGED <<myresults, mycontexts, size, answered, replies, calls>>

\* Mutant of Erase: the entry goes, the context stays.
EraseResults(c) ==
    /\ Is(c, "erase")
    /\ myresults' = [myresults EXCEPT ![caller[c].slot] = {}]
    /\ caller' = [caller EXCEPT ![c] = Away]
    /\ UNCHANGED <<mycontexts, size, answered, replies, calls>>

\* The end of unregister, still under the mutex, and the return: the context and then
\* the vector cease to exist.
Erase(c) ==
    /\ Is(c, "erase")
    /\ myresults' = [myresults EXCEPT ![caller[c].slot] = {}]
    /\ mycontexts' = [mycontexts EXCEPT ![caller[c].slot] = {}]
    /\ caller' = [caller EXCEPT ![c] = Away]
    /\ UNCHANGED <<size, answered, replies, calls>>

\* fill, for reply m: the owner of the entry gets one more result, and the owner of the
\* context is signalled once there are enough.
Fill(m) ==
    LET entries == OfSeq(myresults[m.slot], m.seq)
        contexts == OfSeq(mycontexts[m.slot], m.seq)
    IN
    /\ replies' = replies \ {m}
    /\ IF entries = {} THEN UNCHANGED <<size, caller>>
       ELSE LET owner == (CHOOSE e \in entries : TRUE).caller IN
            /\ size' = [size EXCEPT ![owner] = @ + 1]
            /\ caller' = [d \in Caller |->
                  [caller[d] EXCEPT !.signalled =
                      @ \/ /\ \E x \in contexts : x.caller = d
                           /\ size'[owner] >= Majority
                           /\ Is(d, "wait")]]
    /\ UNCHANGED <<myresults, mycontexts, answered, calls>>

Phase(c) ==
    \/ \E s \in Slot, q \in Seq : Register(c, s, q)
    \/ Broadcast(c) \/ Unregister(c)
    \/ Wake(c) \/ TimedOut(c) \/ Erase(c)

Next ==
    \/ \E c \in Caller : Phase(c)
    \/ \E m \in replies : Fill(m)

Spec == Init /\ [][Next]_vars

\* A signalled thread runs on; nothing is assumed of the timeout or of the network.
FairSpec == Spec /\ \A c \in Caller : WF_vars(Unregister(c) \/ Wake(c) \/ Erase(c))

-----------------------------------------------------------------------------
\* Types; a vector holds at most one result per acceptor, although it counts results
\* and not senders, and a seq_num may be registered again while its replies are late.
TypeOK ==
    /\ myresults \in [Slot -> SUBSET [seq : Seq, caller : Caller]]
    /\ mycontexts \in [Slot -> SUBSET [seq : Seq, caller : Caller]]
    /\ size \in [Caller -> 0 .. Cardinality(Acceptor)]
    /\ replies \subseteq answered
    /\ answered \subseteq [slot : Slot, seq : Seq, from : Acceptor]

\* The pointers that fill() follows are alive: an entry and a context belong to a call
\* that has not left unregister, at its own slot and seq_num (the vector and the
\* condition are on the stack of that call).
NoDanglingPointer ==
    \A s \in Slot :
        /\ \A e \in myresults[s] \cup mycontexts[s] :
              caller[e.caller].slot = s /\ caller[e.caller].seq = e.seq
        /\ Cardinality(myresults[s]) <= 1

\* No wakeup is missed: a call that waits although its vector holds a majority has a
\* signal on its way, whether the replies came before its context or after.
NoMissedWakeup ==
    \A c \in Caller : Is(c, "wait") /\ size[c] >= Majority => caller[c].signalled

\* A call that has its majority leaves, whether or not its timeout ever comes.
MajorityWakes ==
    \A c \in Caller :
        caller[c].pc \in {"unregister", "wait"} /\ size[c] >= Majority ~> Is(c, "away")
=============================================================================
