----------------------------- MODULE MCLifecycle -----------------------------
(* An instance of Lifecycle: lists of up to two subscribers, one of which  *)
(* never answers.                                                          *)
EXTENDS Lifecycle

CONSTANTS alice, bob, mute

MCLists == {<< >>, <<alice, bob>>, <<bob, mute>>}
=============================================================================
