----------------------------- MODULE MCAccounts ------------------------------
(* Small instances of Accounts for TLC.                                    *)
EXTENDS Accounts, TLC

CONSTANTS shouted, plain

(* Two spellings of one address, "me@EXAMPLE.com" and "me@example.com".    *)
Spellings == {shouted, plain}
LowerDomain == [a \in Spellings |-> plain]

(* Ids, requests and the passwords that bcrypt takes are interchangeable.  *)
Symmetry ==
  Permutations(Ids) \cup Permutations(Passwords \ TooLong)
    \cup Permutations(Requests)

=============================================================================
