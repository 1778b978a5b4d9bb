-------------------------- MODULE MCAllocatorScript --------------------------
(* The allocator driven the way tests/allocator_shm.c drives it: malloc the *)
(* sizes of Script in order, and free any block handed out at any moment,   *)
(* so that every free order and every interleaving of frees with the       *)
(* remaining mallocs is explored.                                           *)
EXTENDS AllocatorShm

CONSTANT Script     \* the malloc sizes, in call order

VARIABLE pos        \* index of the next malloc of Script

svars == <<vars, pos>>

ScriptInit == Init /\ pos = 1

ScriptMalloc ==
  /\ pos <= Len(Script)
  /\ Malloc(Script[pos])
  /\ pos' = pos + 1

ScriptFree == FreeOwned /\ UNCHANGED pos

\* The script has run to completion and every block has been returned.
Finished == pos > Len(Script) /\ owned = {} /\ UNCHANGED svars

ScriptNext == ScriptMalloc \/ ScriptFree \/ Finished

ScriptSpec == ScriptInit /\ [][ScriptNext]_svars

\* test_9, 64-bit: a 1024-byte region and the sizes {11,17,2,6,341}.
Test9Script == <<11, 17, 2, 6, 341>>
\* test_5: three 100-byte blocks freed in all six orders.
Test5Script == <<100, 100, 100>>
Test9Requests == ToSet(Test9Script)
Test5Requests == ToSet(Test5Script)
\* A 128-byte region: a 40-byte and a 48-byte block, the first one freed,
\* then a 40-byte request that fits the remaining head block exactly.
ExactHeadScript == <<16, 24, 16>>
ExactHeadRequests == ToSet(ExactHeadScript)
MCSmallSegSize == 128
MCW == 8
MCHeaderSize == 96
MCNullOffset == 56
MCSegSize == 1024
=============================================================================
