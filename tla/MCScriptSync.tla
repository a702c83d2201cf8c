---------------------------- MODULE MCScriptSync ----------------------------
(***************************************************************************)
(* Instance of ScriptSync for TLC: two versions and two contents, of which *)
(* one has dependencies.                                                   *)
(***************************************************************************)
EXTENDS ScriptSync

CONSTANTS a, b, x, y

MCNames == <<a, b>>
=============================================================================
