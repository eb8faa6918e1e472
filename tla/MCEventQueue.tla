---------------------------- MODULE MCEventQueue ----------------------------
(***************************************************************************)
(* EventQueue with two pushing threads of the library and the application  *)
(* thread that cancels (it pushes as well, so up to MaxEvents + 3 events). *)
(***************************************************************************)
EXTENDS EventQueue

CONSTANTS w1, w2, canceler, connected, disconnected

MCWorkers == {w1, w2}
MCEvent == {connected, disconnected}

=============================================================================
