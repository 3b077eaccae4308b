----------------------------- MODULE MCProviders -----------------------------
(* Chats and models are interchangeable.                                   *)
EXTENDS Providers, TLC

ProvidersSymmetry == Permutations(Chats) \cup Permutations(Models)
MCRefs == <<CHOOSE n \in Globals : TRUE>>
=============================================================================
