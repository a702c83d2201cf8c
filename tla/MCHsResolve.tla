----------------------------- MODULE MCHsResolve -----------------------------
(***************************************************************************)
(* Instance of HsResolve for TLC: one trace of single requests and one of  *)
(* a batch, one upload, and two lists of recommendations, a sure one and   *)
(* one that is headed by a doubtful code.  Handlers are interchangeable.   *)
(***************************************************************************)
EXTENDS HsResolve, TLC

CONSTANTS c1, c2, t1, tb, u1

Sure     == [code |-> c1, high |-> TRUE]
Doubtful == [code |-> c1, high |-> FALSE]
Other    == [code |-> c2, high |-> FALSE]

MCFound == {<<Sure>>, <<Other, Doubtful>>}

\* A request with a manual datasheet, a forced one, a line of a batch.
Want(t, u, f) == [trace |-> t, upload |-> u, forced |-> f]
MCAsks == {Want(t1, u1, FALSE), Want(t1, None, TRUE), Want(tb, None, FALSE)}

MCSymmetry == Permutations(Handler)
=============================================================================
