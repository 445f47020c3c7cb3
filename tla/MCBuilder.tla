------------------------------ MODULE MCBuilder ------------------------------
(***************************************************************************)
(* Values for the constants of Builder, small enough for TLC.              *)
(***************************************************************************)
EXTENDS BuilderProperties, TLC

\* Two actions, one repeated, and one alone, for which two results are too many.
MCActionLists == {<<"read", "write">>, <<"write", "write">>, <<"write">>}

\* No key and no value is told from another, except by being the same.
KeysAndValues == Permutations(Keys) \cup Permutations(Values)
=============================================================================
