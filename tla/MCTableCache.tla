---------------------------- MODULE MCTableCache ----------------------------
(***************************************************************************)
(* Instance of TableCache for TLC.                                         *)
(***************************************************************************)
EXTENDS TableCache

\* The tables share nothing but the map: the requests of a behaviour are about one of
\* them.  Without the refresher only names of makers heal.
MCCases ==
    {[mode |-> m[1], asked |-> {m[2]}, rows |-> {r \in Row : r.table = m[2] /\ m[2] # "alias"}] :
        m \in {<<"loop", "platform">>, <<"once", "platform">>, <<"loop", "auth">>,
               <<"loop", "alias">>, <<"off", "alias">>, <<"loop", "installed">>}}

=============================================================================
