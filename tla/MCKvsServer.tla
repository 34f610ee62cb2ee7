---------------------------- MODULE MCKvsServer ----------------------------
(***************************************************************************)
(* Instances of KvsServer for TLC.                                         *)
(***************************************************************************)
EXTENDS KvsServerInvariant, TLC

CONSTANTS c1, c2, k1, k2, v1, v2

BeMasterRecord == [type |-> "BEMASTER"]
KeyPerClient ==
    [c \in Client |-> IF c = c1 THEN k1 ELSE k2]
NothingForeign == {}
ForeignRecords ==
    {BeMasterRecord} \cup {[type |-> "UPDATE", key |-> k, val |-> v1] : k \in Key}

\* Clients are interchanged with their keys.
Swap(f) == {[x \in DOMAIN f |-> x], f}
ClientSymmetry == Swap(c1 :> c2 @@ c2 :> c1 @@ k1 :> k2 @@ k2 :> k1)
=============================================================================
