-------------------------- MODULE MCQueueLifecycle --------------------------
(***************************************************************************)
(* QueueLifecycle for TLC: one attacher, and nine blocks, as many as a     *)
(* logger create that succeeds takes (three shared data, three registry   *)
(* entries and their names), so that no malloc fails.                     *)
(***************************************************************************)
EXTENDS QueueLifecycle

CONSTANTS a1, b1, b2, b3, b4, b5, b6, b7, b8, b9

MCAttachers == {a1}
MCBlocks == {b1, b2, b3, b4, b5, b6, b7, b8, b9}
=============================================================================
