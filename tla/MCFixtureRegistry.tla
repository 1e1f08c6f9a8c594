--------------------------- MODULE MCFixtureRegistry ---------------------------
(***************************************************************************)
(* The instance of FixtureRegistry for TLC: ids and places are             *)
(* interchangeable, the saves are not (one has experiment records).        *)
(***************************************************************************)
EXTENDS FixtureRegistry, TLC

InterchangeableNames == Permutations(Ids) \cup Permutations(Paths)
=============================================================================
