------------------------------- MODULE MCAssets --------------------------------
(* Instance of Assets for TLC.                                             *)
EXTENDS Assets, TLC, FiniteSets

CONSTANT Plain \* types that are never given an asset field

\* A second race excuses no more than the first.
OneRace == Cardinality(excused) <= 1
OneToken == Cardinality(tokens) <= 1
\* Either the type lost its field, or an item moved to another: not both.
OneCause == Plain \cap fields = {} /\ \A i \in Items : type[i] \in Plain => fields # {}

\* Clients are alike, and nothing chooses one of them.
Alike == Permutations(Clients)
================================================================================
