-------------------------- MODULE MCSessionStore --------------------------
(* Small instances of SessionStore for TLC; the .cfg files give the sets.  *)
EXTENDS SessionStore, TLC

StoreSymmetry == Permutations(Workers) \cup Permutations(Kinds)

=============================================================================
