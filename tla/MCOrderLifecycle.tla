-------------------------- MODULE MCOrderLifecycle --------------------------
EXTENDS OrderLifecycle, TLC
Symmetry == Permutations(Requests) \cup Permutations(Workers)

(* Two handlers at a time; two requests only where nothing has crashed. *)
Busy == {t \in Threads : pc[t] # "idle"}
TwoAtATime ==
  Cardinality(Busy') <= 2 /\ (Requests \subseteq Busy' /\ Cardinality(Requests) > 1 => faults' = 0)
=============================================================================
