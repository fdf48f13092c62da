----------------------- MODULE MCRequestCoordinator -----------------------
(* A small instance of RequestCoordinator for TLC.                          *)
EXTENDS RequestCoordinator

CONSTANTS c1, c2
=============================================================================
