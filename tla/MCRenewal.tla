------------------------------ MODULE MCRenewal ------------------------------
(* Renewal for TLC: two orders, one client. *)
EXTENDS Renewal, TLC
Symmetry == Permutations(Requests) \cup Permutations(Orders) \cup Permutations(Customers)
=============================================================================
