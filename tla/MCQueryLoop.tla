---------------------------- MODULE MCQueryLoop -----------------------------
(***************************************************************************)
(* One query with up to two tool_use blocks an answer.                     *)
(***************************************************************************)
EXTENDS QueryLoop
=============================================================================
