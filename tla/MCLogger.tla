------------------------------ MODULE MCLogger ------------------------------
(***************************************************************************)
(* Logger for TLC: two message blocks, the daemon, and two logging         *)
(* processes: one runs enqueue_logmsg.c (set_category and set_level to all *)
(* bits, then one enqueue), the other logs twice as tests/logger.c's       *)
(* parent does, so that its first enqueue can find the masks still 0 and   *)
(* three messages compete for two blocks.  One dump_logs process and the  *)
(* timed child of tests/logger.c compete with the daemon for the messages. *)
(***************************************************************************)
EXTENDS Logger

CONSTANTS b1, b2, p1, p2, d1, r1

MCBlocks == {b1, b2}
MCProcs == {p1, p2}
MCDumpers == {d1}
MCReaders == {r1}
NoDumpers == {}
NoReaders == {}
MCBits == {"module", "error"}

EnqAll == [kind |-> "enqueue", cat |-> MCBits, lvl |-> MCBits]

MCProgram ==
  [p \in MCProcs |->
     IF p = p1 THEN <<[kind |-> "set_category", mask |-> MCBits],
                      [kind |-> "set_level", mask |-> MCBits],
                      EnqAll>>
               ELSE <<EnqAll, EnqAll>>]

\* Two processes each enable a different level.
SplitProgram ==
  [p \in MCProcs |->
     <<[kind |-> "set_level", mask |-> IF p = p1 THEN {"module"} ELSE {"error"}]>>]
=============================================================================
