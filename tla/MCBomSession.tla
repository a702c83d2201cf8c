---------------------------- MODULE MCBomSession ----------------------------
(***************************************************************************)
(* Instance of BomSession for TLC.  Part numbers and handlers are each     *)
(* interchangeable, and only safety is checked.                            *)
(***************************************************************************)
EXTENDS BomSession, TLC

MCSymmetry == Permutations(Mpn) \cup Permutations(Handler)
=============================================================================
