---------------------------- MODULE MCPaxosLoop ----------------------------
(***************************************************************************)
(* MCPaxos with the loop of check_proposed, for TLC.                       *)
(***************************************************************************)
EXTENDS MCPaxos, ProposedLoop
=============================================================================
