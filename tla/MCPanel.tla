------------------------------- MODULE MCPanel -------------------------------
(***************************************************************************)
(* Instances of Panel for TLC: topics that interact are in one behaviour.     *)
(***************************************************************************)
EXTENDS Panel, TLC

MCTraffic == {{"ticket"}, {"rule", "account"}, {"lead"}, {"account", "webhook"}}

Symmetric == Permutations(Thread) \union Permutations(Event)
=============================================================================
