---------------------------- MODULE MCSharedQueue ----------------------------
(***************************************************************************)
(* SharedQueue for TLC: three nodes, one consumer calling dequeue and one  *)
(* calling dequeue_timed, so that both wait on the pipe at once and a      *)
(* second item can arrive while the first is being taken.                  *)
(***************************************************************************)
EXTENDS SharedQueue

CONSTANTS n1, n2, n3, c1, c2, x1

MCNodes == {n1, n2, n3}
MCConsumers == {c1, c2}
MCTimed == {c2}
NoAttachers == {}
OneAttacher == {x1}
=============================================================================
