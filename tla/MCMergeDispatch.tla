-------------------------- MODULE MCMergeDispatch --------------------------
(***************************************************************************)
(* Instances of MergeDispatch for TLC.  Sessions are interchangeable, and  *)
(* so are handlers: the symmetry set is used where no liveness property is *)
(* checked.                                                                *)
(***************************************************************************)
EXTENDS MergeDispatch, TLC

SessionsAndHandlers == Permutations(Session) \cup Permutations(Handler)
=============================================================================
