------------------------------ MODULE MCNotify ------------------------------
(* Two application handlers and a pipe of two messages: main can fill the  *)
(* pipe before the loop, and an upcall can notify into a pipe that is not  *)
(* empty.                                                                  *)
EXTENDS Notify

CONSTANTS h1, h2

MCHandlers == {h1, h2}
=============================================================================
