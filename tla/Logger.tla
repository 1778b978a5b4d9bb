------------------------------- MODULE Logger -------------------------------
(***************************************************************************)
(* The logger of src/src/logger.c over the shared queue it wraps, with the *)
(* consumer of examples/logger: processes that log (enqueue_logmsg.c,       *)
(* tests/logger.c) set the shared category and level masks and call       *)
(* enqueue; the logger daemon's reactor wakes on the queue's doorbell      *)
(* descriptor and its handle_input (examples/logger/handler.c) dequeues    *)
(* one message, writes it out and frees it.  dump_logs (examples/logger)   *)
(* is a second consumer: it calls the blocking dequeue in a loop, prints  *)
(* and frees each message, and exits on NULL.  The child of tests/logger.c *)
(* test_1 is a third: it loops on dequeue_timed, frees what it gets, and   *)
(* leaves the loop on the first NULL, a timeout or an empty list.          *)
(*                                                                         *)
(* The queue is SharedQueue itself, instanced with the daemon, dump_logs  *)
(* and the test's child as its consumers, the last one timed.  The shared  *)
(* allocator the messages come from is kept as the set of message-sized   *)
(* blocks it can still hand out; its malloc and free are atomic under its  *)
(* own semaphore.  A message's time, originator and text are written into *)
(* the block the producer owns and are left out.  hist, the messages      *)
(* dequeued in order, is a history variable for the FIFO refinement.     *)
(***************************************************************************)
EXTENDS Integers, Sequences, FiniteSets, SequencesExt

CONSTANTS Blocks,   \* message blocks the allocator can hand out
          Nil,
          Daemon,   \* the logger process of examples/logger/main.c
          Dumpers,  \* processes running dump_logs
          Readers,  \* children of tests/logger.c test_1
          Procs,    \* processes that log
          Bits,     \* the bits of a category or level mask
          Program   \* Program[p]: the logger calls process p makes

VARIABLES lhead, ltail, lnxt, lprv, lcount,
          active, writes, reads, pipe, pc, deqd,
          free, sem, cmask, lmask, ppc, ops, tmp, blk, got, alive, hist

Q == INSTANCE SharedQueue WITH Nodes <- Blocks, Consumers <- {Daemon} \cup Dumpers \cup Readers,
                               Timed <- Readers, Attachers <- {}

qvars == <<lhead, ltail, lnxt, lprv, lcount, active, writes, reads, pipe, pc, deqd>>
lvars == <<free, sem, cmask, lmask, ppc, ops, tmp, blk, got, alive, hist>>
\* What the consumers' own code keeps: the message each holds, and the
\* dump_logs and test processes still running.
cvars == <<free, got, alive, hist>>
Consumers == {Daemon} \cup Dumpers \cup Readers
vars == <<qvars, lvars>>

Op(p) == Program[p][ops[p]]

\* The state examples/shm_init leaves and the attaches find: the queue
\* created empty, the shared data memset (both masks 0) and sem_init'ed
\* to 1, every block free.
Init ==
  /\ Q!Init
  /\ free = Blocks
  /\ sem = 1
  /\ cmask = {} /\ lmask = {}
  /\ ppc = [p \in Procs |-> "idle"]
  /\ ops = [p \in Procs |-> 0]
  /\ tmp = [p \in Procs |-> {}]
  /\ blk = [p \in Procs |-> Nil]
  /\ got = [c \in Consumers |-> Nil]
  /\ alive = Dumpers \cup Readers
  /\ hist = <<>>

Goto(p, l) == ppc' = [ppc EXCEPT ![p] = l]

\* The process makes its next logger call.
Start(p) ==
  /\ ppc[p] = "idle"
  /\ ops[p] < Len(Program[p])
  /\ ops' = [ops EXCEPT ![p] = @ + 1]
  /\ Goto(p, IF Program[p][ops[p] + 1].kind = "enqueue" THEN "wait" ELSE "read")
  /\ UNCHANGED <<qvars, free, sem, cmask, lmask, tmp, blk, got, alive, hist>>

\* set_category and set_level: "mask |= m" on the shared data, without
\* the semaphore; the load and the store are separate steps.
SetRead(p) ==
  /\ ppc[p] = "read"
  /\ tmp' = [tmp EXCEPT ![p] = IF Op(p).kind = "set_category" THEN cmask ELSE lmask]
  /\ Goto(p, "store")
  /\ UNCHANGED <<qvars, free, sem, cmask, lmask, ops, blk, got, alive, hist>>

SetWrite(p) ==
  /\ ppc[p] = "store"
  /\ IF Op(p).kind = "set_category"
       THEN cmask' = tmp[p] \cup Op(p).mask /\ UNCHANGED lmask
       ELSE lmask' = tmp[p] \cup Op(p).mask /\ UNCHANGED cmask
  /\ Goto(p, "idle")
  /\ UNCHANGED <<qvars, free, sem, ops, tmp, blk, got, alive, hist>>

\* enqueue: sem_wait on the logger's semaphore.
Wait(p) ==
  /\ ppc[p] = "wait"
  /\ sem > 0
  /\ sem' = sem - 1
  /\ Goto(p, "filter")
  /\ UNCHANGED <<qvars, free, cmask, lmask, ops, tmp, blk, got, alive, hist>>

\* Mutant: sem_post before the malloc, on the success path too.
FilterEarlyPost(p) ==
  /\ ppc[p] = "filter"
  /\ sem' = sem + 1
  /\ IF Op(p).cat \cap cmask = {} \/ Op(p).lvl \cap lmask = {} \/ free = {}
       THEN /\ Goto(p, "idle")
            /\ UNCHANGED <<free, blk>>
       ELSE \E b \in free :
              /\ free' = free \ {b}
              /\ blk' = [blk EXCEPT ![p] = b]
              /\ Goto(p, "enqueue")
  /\ UNCHANGED <<qvars, cmask, lmask, ops, tmp, got, alive, hist>>

\* enqueue under the semaphore: -1 (after sem_post) unless the category
\* and the level each share a bit with the shared masks, or when the
\* allocator has no block; otherwise a block is taken and filled in.
Filter(p) ==
  /\ ppc[p] = "filter"
  /\ IF Op(p).cat \cap cmask = {} \/ Op(p).lvl \cap lmask = {} \/ free = {}
       THEN /\ sem' = sem + 1
            /\ Goto(p, "idle")
            /\ UNCHANGED <<free, blk>>
       ELSE \E b \in free :
              /\ free' = free \ {b}
              /\ blk' = [blk EXCEPT ![p] = b]
              /\ Goto(p, "enqueue")
              /\ UNCHANGED sem
  /\ UNCHANGED <<qvars, cmask, lmask, ops, tmp, got, alive, hist>>

\* enqueue: the shared queue's enqueue of the block (its return value is
\* ignored), then sem_post and return 0.
Enqueue(p) ==
  /\ ppc[p] = "enqueue"
  /\ Q!Enq(blk[p])
  /\ sem' = sem + 1
  /\ blk' = [blk EXCEPT ![p] = Nil]
  /\ Goto(p, "idle")
  /\ UNCHANGED <<free, cmask, lmask, ops, tmp, got, alive, hist>>

\* The logger's dequeue, the queue's dequeue, under the semaphore: the
\* consumer gets the head of the list, or NULL.
Locked(c) ==
  /\ Q!DeqLocked(c)
  /\ got' = [got EXCEPT ![c] = Q!L!ListHead]
  /\ hist' = IF Q!L!ListHead = Nil THEN hist ELSE Append(hist, Q!L!ListHead)

\* Mutant: the message is written out but never freed.
FreeLeaks(c) ==
  /\ pc[c] = "idle"
  /\ got[c] # Nil
  /\ deqd' = SelectSeq(deqd, LAMBDA x : x # got[c])
  /\ got' = [got EXCEPT ![c] = Nil]
  /\ UNCHANGED <<lhead, ltail, lnxt, lprv, lcount, active, writes, reads, pipe, pc>>
  /\ UNCHANGED <<free, sem, cmask, lmask, ppc, ops, tmp, blk, alive, hist>>

\* The consumer writes the message out and gives it back to the allocator
\* with the logger's free.
Free(c) ==
  /\ pc[c] = "idle"
  /\ got[c] # Nil
  /\ free' = free \cup {got[c]}
  /\ deqd' = SelectSeq(deqd, LAMBDA x : x # got[c])
  /\ got' = [got EXCEPT ![c] = Nil]
  /\ UNCHANGED <<lhead, ltail, lnxt, lprv, lcount, active, writes, reads, pipe, pc>>
  /\ UNCHANGED <<sem, cmask, lmask, ppc, ops, tmp, blk, alive, hist>>

\* The daemon's reactor finds the doorbell descriptor readable and calls
\* handle_input, which calls the logger's dequeue, the queue's dequeue.
DaemonSelect ==
  /\ pipe > 0
  /\ got[Daemon] = Nil
  /\ Q!DeqStart(Daemon)
  /\ UNCHANGED lvars

DaemonRead == Q!DeqRead(Daemon) /\ UNCHANGED lvars

\* handle_input returns 0 at once on NULL.
DaemonLocked == Locked(Daemon) /\ UNCHANGED <<free, sem, cmask, lmask, ppc, ops, tmp, blk, alive>>

\* handle_input, after a non-NULL dequeue: the message is written to the
\* log file or syslog, then freed.
DaemonFree == Free(Daemon)

\* dump_logs: while (1) dequeue.
DumpStart(d) ==
  /\ d \in alive
  /\ got[d] = Nil
  /\ Q!DeqStart(d)
  /\ UNCHANGED lvars

DumpRead(d) == Q!DeqRead(d) /\ UNCHANGED lvars

\* dump_logs: a NULL dequeue prints "Failed to dequeue message" and the
\* process returns -1.
DumpLocked(d) ==
  /\ Locked(d)
  /\ alive' = IF Q!L!ListHead = Nil THEN alive \ {d} ELSE alive
  /\ UNCHANGED <<free, sem, cmask, lmask, ppc, ops, tmp, blk>>

\* dump_logs: printf of the message, then the logger's free.
DumpFree(d) == Free(d)

Producer(p) ==
  Start(p) \/ SetRead(p) \/ SetWrite(p) \/ Wait(p) \/ Filter(p) \/ Enqueue(p)

DaemonStep == DaemonSelect \/ DaemonRead \/ DaemonLocked \/ DaemonFree

DumpStep(d) == DumpStart(d) \/ DumpRead(d) \/ DumpLocked(d) \/ DumpFree(d)

\* tests/logger.c test_1's child: while (1) dequeue_timed with a 1 s
\* timeout.
ReaderStart(r) ==
  /\ r \in alive
  /\ got[r] = Nil
  /\ Q!DeqStart(r)
  /\ UNCHANGED lvars

\* dequeue_timed's pselect: on a timeout it returns NULL, and the child
\* breaks out of its loop and exits.
ReaderSelect(r) ==
  /\ Q!DtSelect(r)
  /\ alive' = IF pipe > 0 THEN alive ELSE alive \ {r}
  /\ UNCHANGED <<free, sem, cmask, lmask, ppc, ops, tmp, blk, got, hist>>

ReaderRead(r) == Q!DeqRead(r) /\ UNCHANGED lvars

\* The dequeue that follows the pselect: NULL on an empty list ends the
\* loop as a timeout does.
ReaderLocked(r) == DumpLocked(r)

\* The child frees the message with the allocator's free and counts it.
ReaderFree(r) == Free(r)

ReaderStep(r) == ReaderStart(r) \/ ReaderSelect(r) \/ ReaderRead(r) \/ ReaderLocked(r) \/ ReaderFree(r)

\* Every process has made all its calls, every message is freed, and the
\* consumers wait for ever: the daemon in pselect or, when dump_logs took
\* the byte its pselect saw, in read(); dump_logs and the test's child in
\* read() or exited.
Finished ==
  /\ \A p \in Procs : ppc[p] = "idle" /\ ops[p] = Len(Program[p])
  /\ pipe = 0 /\ deqd = <<>>
  /\ pc[Daemon] \in {"idle", "read"}
  /\ \A d \in Dumpers \cup Readers : pc[d] = "read" \/ d \notin alive
  /\ UNCHANGED vars

Next == \/ \E p \in Procs : Producer(p)
        \/ DaemonStep
        \/ \E d \in Dumpers : DumpStep(d)
        \/ \E r \in Readers : ReaderStep(r)
        \/ Finished

\* Each process runs its calls to the end, dump_logs loops, and the
\* daemon's reactor dispatches a readable descriptor (the reactor's own
\* run shows that).
Fairness == /\ \A p \in Procs : WF_vars(Producer(p))
            /\ WF_vars(DaemonStep)
            /\ \A d \in Dumpers : WF_vars(DumpStep(d))
            /\ \A r \in Readers : WF_vars(ReaderStep(r))

Spec == Init /\ [][Next]_vars /\ Fairness

TypeOK ==
  /\ Q!TypeOK
  /\ free \subseteq Blocks
  /\ sem \in {0, 1}
  /\ cmask \subseteq Bits /\ lmask \subseteq Bits
  /\ ppc \in [Procs -> {"idle", "read", "store", "wait", "filter", "enqueue"}]
  /\ tmp \in [Procs -> SUBSET Bits]
  /\ blk \in [Procs -> Blocks \cup {Nil}]
  /\ got \in [Consumers -> Blocks \cup {Nil}]
  /\ alive \subseteq Dumpers \cup Readers
  /\ hist \in Seq(Blocks)

\* Where each block is: free in the allocator, owned by a process between
\* its malloc and the enqueue, in the queue's list, or held by a consumer
\* between its dequeue and its free.
Held == {blk[p] : p \in Procs} \ {Nil}
Taken == {got[c] : c \in Consumers} \ {Nil}

\* No message block is lost or in two places: across the producers'
\* enqueue, the queue, and the daemon's and dump_logs' dequeue and free,
\* every block is in exactly one of the four, no two processes hold the
\* same one, and the blocks the consumers hold are those the queue handed
\* out.
BlocksConserved ==
  /\ free \cup Held \cup ToSet(Q!L!ListSeq) \cup Taken = Blocks
  /\ Cardinality(Held) = Cardinality({p \in Procs : blk[p] # Nil})
  /\ Cardinality(Taken) = Cardinality({c \in Consumers : got[c] # Nil})
  /\ LET place == <<free, Held, ToSet(Q!L!ListSeq), Taken>> IN
       \A i, j \in 1..4 : i # j => place[i] \cap place[j] = {}
  /\ ToSet(deqd) = Taken

\* Every message an enqueue put in the queue is written out and its block
\* freed, by the daemon or by dump_logs: the doorbell it rang, or the one
\* rung again for it, wakes one of them, and a consumer that took the byte
\* finds a message under the semaphore.
Logged == \A b \in Blocks : b \in ToSet(Q!L!ListSeq) ~> b \in free

\* A dequeue made because pselect saw the doorbell readable returns: the
\* daemon's handle_input, run by its reactor, and the test child's
\* dequeue_timed do not stay in the queue's blocking read(), so the
\* reactor gets back to its heartbeat timer and the timed call keeps its
\* timeout.  pselect only reports a byte; another consumer can take it
\* before the read.
ReadyReadReturns == \A c \in {Daemon} \cup Readers : pc[c] = "read" ~> pc[c] = "idle"

\* The queue's own properties hold with the logger's processes as its
\* producers and consumers: a single doorbell signal, outstanding only for
\* a message in the list (SharedQueue's NoSpuriousSignal), and a well-formed
\* list under enqueue and the three consumers' dequeues (ListIntact).
NoSpuriousSignal == Q!NoSpuriousSignal

ListIntact == Q!ListIntact

\* The logger is a FIFO: the messages its consumers dequeue come out in
\* the order the enqueues put them in, though blocks are freed and reused.
LQ == INSTANCE AbstractQueue WITH Items <- Blocks, q <- Q!L!ListSeq, out <- hist

FifoRefinement == LQ!Spec

\* The shared masks only grow: set_category and set_level OR bits in, and
\* unset_category and unset_level store nothing, so a bit a completed
\* set_* added is never lost to another process's set_*.
MasksMonotone == [][cmask \subseteq cmask' /\ lmask \subseteq lmask']_vars
=============================================================================
