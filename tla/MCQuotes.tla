------------------------------ MODULE MCQuotes ------------------------------
(* Small instances of Quotes for TLC.                                      *)
EXTENDS Quotes, TLC

(* Users, ids and requests are each interchangeable.                       *)
Symmetry ==
  Permutations(Users) \cup Permutations(Kids) \cup Permutations(Notes)
    \cup Permutations(Requests)

=============================================================================
