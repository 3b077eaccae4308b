---------------------------- MODULE MCTurnQueue ----------------------------
(* Small instances of TurnQueue for TLC; the .cfg files give the sets.     *)
EXTENDS TurnQueue, TLC

MsgSymmetry == Permutations(Msgs \ Beats)

=============================================================================
