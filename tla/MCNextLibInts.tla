--------------------------- MODULE MCNextLibInts ---------------------------
(***************************************************************************)
(* Instance of NextLibInts for TLC: the banks of the TurboSoundAYFX demo,  *)
(* a program that pages one slot the effects also use and one the player   *)
(* also uses.                                                              *)
(***************************************************************************)
EXTENDS NextLibInts

MCPages == {<<1, 255>>, <<1, 30>>}
NoPages == {}
=============================================================================
