------------------------------ MODULE MCRelay ------------------------------
(* Small instances of Relay for TLC; the .cfg files give the sets.         *)
EXTENDS Relay, TLC

=============================================================================
