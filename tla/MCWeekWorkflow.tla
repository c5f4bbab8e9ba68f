--------------------------- MODULE MCWeekWorkflow ---------------------------
(* Instances of WeekWorkflow for TLC. *)
EXTENDS WeekWorkflow, TLC

\* Handlers differ in nothing, nor do requests, nor do entries.
Symmetry ==
  Permutations(Handlers) \cup Permutations(Requests) \cup Permutations(Entries)
=============================================================================
