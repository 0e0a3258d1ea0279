------------------------- MODULE MCTelegramChannel -------------------------
(***************************************************************************)
(* An instance of TelegramChannel for TLC.                                 *)
(***************************************************************************)
EXTENDS TelegramChannel
=============================================================================
