-------------------------- MODULE MCWebhookReplay --------------------------
(***************************************************************************)
(* The smallest replay lifetime the assumption allows, and two events, so  *)
(* that a call can purge the entry of the other event.                     *)
(***************************************************************************)
EXTENDS WebhookReplay, TLC

Symmetry == Permutations(Requests) \cup Permutations(Events)
=============================================================================
