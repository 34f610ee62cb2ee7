-------------------------- MODULE ClusterInvariant --------------------------
(***************************************************************************)
(* The inductive invariant of Cluster while nothing is broken: elections   *)
(* are more than a window apart, every head is before an election or past  *)
(* the slots it skips, and the stable logs of a term stay before the first *)
(* slot of the next.                                                       *)
(***************************************************************************)
EXTENDS Cluster

\* The slots with the record of an election, and those that a new master skips.
Elected == {s \in Slot : BeMaster \in chosen[s]}
Gap(s) == \E e \in Elected : e < s /\ s <= e + window_size

\* A master, and the slot of its election.
Master(n) == pc[n] \in {"skip", "serve"}
Term(n) == IF pc[n] = "skip" THEN rwhead[n] ELSE first[n] - window_size

\* A slot that has been promised to somebody who runs for it decides nothing else.
PromiseInv ==
    /\ \A s \in promised : chosen[s] \subseteq {BeMaster}
    /\ \A n \in Server : \A c \in calls[n] : c.slot \in promised => ~c.open
    /\ Elected \subseteq promised
    /\ \A n \in Server : pc[n] = "to_be_master" => rwhead[n] \in promised

\* A call that can still end well is alone at its slot, and a slot decides once.
OpenInv ==
    /\ \A s \in Slot : \A r, q \in chosen[s] : r = q
    /\ \A n \in Server : \A c \in calls[n] : c.open => chosen[c.slot] = {}
    /\ \A n, m \in Server : \A c \in calls[n], d \in calls[m] :
          c.open /\ d.open /\ c.slot = d.slot => n = m /\ c = d

\* The term of a master: what it has called and marked lies from its first slot on, its
\* head has passed only slots that are marked, and its first slot is decided or under way.
TermOf(n) ==
    /\ rwhead[n] >= first[n] /\ movedhead[n] >= first[n]
    /\ \A s \in first[n] + 1 .. rwhead[n] : s \in mv_window[n]
    /\ \A s \in mv_window[n] : s # Term(n) =>
          /\ first[n] <= s /\ s < movedhead[n]
          /\ Update(n) \in chosen[s] /\ Entry(s, Update(n)) \in local_db[n]
    /\ \A c \in calls[n] :
          /\ c.rec = Update(n)
          /\ first[n] <= c.slot /\ c.slot < movedhead[n]
          /\ c.slot <= rwhead[n] + window_size
    /\ \/ first[n] \in Slot /\ chosen[first[n]] # {}
       \/ \E c \in calls[n] : c.slot = first[n]
       \/ calls[n] = {} /\ ~failure[n] /\ movedhead[n] = first[n]
TermInv ==
    /\ \A n \in Server : pc[n] # "serve" => calls[n] = {} /\ ~failure[n]
    /\ \A n \in Server : pc[n] = "skip" => mv_window[n] = {rwhead[n]}
    /\ \A n \in Server : pc[n] = "serve" => first[n] \in Nat /\ TermOf(n)
    /\ \A n \in Server : Master(n) => Term(n) \in Elected
    /\ \A n, m \in Server : Master(n) /\ Master(m) /\ Term(n) = Term(m) => n = m

\* A head is at an election or before it, or past all the slots that are skipped; or at
\* the last of them, where the one who won begins.
HeadOf(k, e) ==
    \/ rwhead[k] <= e
    \/ rwhead[k] > e + window_size
    \/ /\ rwhead[k] = e + window_size
       /\ \/ pc[k] = "serve" /\ first[k] = rwhead[k]
          \/ rwhead[k] \in Slot /\ chosen[rwhead[k]] # {}
HeadInv ==
    /\ \A e, f \in Elected : e < f => e + window_size < f
    /\ \A k \in Server, e \in Elected : HeadOf(k, e)
    /\ \A k \in Server, s \in Slot : s < rwhead[k] => chosen[s] # {} \/ Gap(s)
    /\ \A e \in Elected : \E k \in Server : e <= rwhead[k]

\* Whoever has passed a slot has read what is decided there, but for those it skipped;
\* and what was acknowledged is decided, in a slot of its term.
ReadInv ==
    /\ \A k \in Server, s \in Slot : s < rwhead[k] /\ ~Gap(s) =>
          \A r \in chosen[s] : r # BeMaster => Entry(s, r) \in local_db[k]
    /\ \A e \in acked :
          /\ e.rec \in chosen[e.slot]
          /\ e.rec.first \in Nat /\ e.rec.first <= e.slot
          /\ e.rec.first - window_size \in Elected

Typed == Types /\ HeadsInOrder

LInv == Typed /\ PromiseInv /\ OpenInv /\ TermInv /\ HeadInv /\ ReadInv

\* It holds until one of the circumstances fails.
LInvWhileSound == Sound => LInv

\* What the types need besides, in every circumstance: the main thread runs for a slot,
\* alone, and only while a server serves does its term have a first slot.
TypesInv ==
    /\ Types
    /\ \A n \in Server :
          /\ pc[n] \in {"recover", "to_be_master"} => calls[n] = {}
          /\ pc[n] = "to_be_master" => rwhead[n] \in Slot
          /\ IF pc[n] = "serve" THEN first[n] \in Nat /\ first[n] <= movedhead[n]
             ELSE first[n] = None
=============================================================================
