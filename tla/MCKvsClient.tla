---------------------------- MODULE MCKvsClient ----------------------------
(***************************************************************************)
(* KvsClient, its invariant and the framing of its messages, for TLC.      *)
(***************************************************************************)
EXTENDS KvsClientInvariant, Framing
=============================================================================
