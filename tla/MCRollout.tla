------------------------------ MODULE MCRollout ------------------------------
(* Small instances of Rollout for TLC.                                     *)
EXTENDS Rollout, TLC

=============================================================================
