--------------------------- MODULE MCRevisionStore ---------------------------
(* The sessions, events and values of each run are in its .cfg file.        *)
EXTENDS RevisionStore, TLC

Symmetric == Permutations(Writers) \cup Permutations(Events) \cup Permutations(Values)
=============================================================================
