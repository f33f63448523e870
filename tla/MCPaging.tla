------------------------------ MODULE MCPaging ------------------------------
(* Small instances of Paging for TLC.                                      *)
EXTENDS Paging, TLC

(* Quotes are interchangeable, ranks are not.                              *)
Symmetry == Permutations(Ids)

=============================================================================
