----------------------------- MODULE MCCodeGen -----------------------------
(***************************************************************************)
(* Instance of CodeGen for TLC: bytes of three bits, all of them, and      *)
(* words of six bits, those near a limit.                                  *)
(***************************************************************************)
EXTENDS CodeGen

MCBase == <<<<1, 6>>, <<4, 3>>>>
=============================================================================
