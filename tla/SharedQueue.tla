---------------------------- MODULE SharedQueue ----------------------------
(***************************************************************************)
(* The shared queue of src/src/shared_queue.c: a SharedInList plus the     *)
(* doorbell header (active_doorbell, writes, reads) and the named pipe,    *)
(* kept as its number of pending bytes.  high_water is left out: every     *)
(* line that changes it changes writes or reads the same way, so it is     *)
(* always writes - reads.                                                  *)
(*                                                                         *)
(* Producers call enqueue, which is one step (add_tail and update_doorbell *)
(* under the queue semaphore).  Consumers call dequeue or, if they are in  *)
(* Timed, dequeue_timed, in a loop; dequeue blocks in read() on the pipe   *)
(* outside the semaphore, so its read and its locked section are two       *)
(* steps, and dequeue_timed's pselect is a third before them.  Attachers   *)
(* run the tail of ipt_shared_queue_attach, which clears active_doorbell   *)
(* and calls update_doorbell without taking the semaphore.                 *)
(***************************************************************************)
EXTENDS Integers, Sequences, FiniteSets, SequencesExt

CONSTANTS Nodes, Nil, Consumers, Timed, Attachers

VARIABLES lhead, ltail, lnxt, lprv, lcount,
          active, writes, reads, pipe, pc, deqd

L == INSTANCE SharedInList

vars == <<lhead, ltail, lnxt, lprv, lcount, active, writes, reads, pipe, pc, deqd>>
doorbell == <<active, writes, reads, pipe>>

\* Nodes a producer may still enqueue: neither queued nor handed out.
Fresh == Nodes \ (ToSet(L!ListSeq) \cup ToSet(deqd))

\* ipt_shared_queue_create: an empty list and a zeroed header.
Init ==
  /\ L!Init
  /\ active = 0 /\ writes = 0 /\ reads = 0 /\ pipe = 0
  /\ pc = [x \in Consumers \cup Attachers |-> IF x \in Consumers THEN "idle" ELSE "a_clear"]
  /\ deqd = <<>>

\* Mutant: the doorbell is rung whatever active_doorbell says.
RingsNoActiveTest(act, hd) == hd # Nil

\* update_doorbell's test: no signal outstanding and a head to signal.
Rings(act, hd) == act = 0 /\ hd # Nil

\* update_doorbell's effect, for the list head hd it reads: one byte into
\* the pipe, active_doorbell set, writes counted.  The write to a FIFO
\* opened O_RDWR blocks rather than fails, so its error return is not taken.
UpdateDoorbell(act, hd) ==
  IF Rings(act, hd)
    THEN /\ pipe' = pipe + 1 /\ active' = 1 /\ writes' = writes + 1
    ELSE /\ pipe' = pipe /\ active' = act /\ writes' = writes

\* Mutant: enqueue tests the head before it links the node.
EnqDoorbellFirst(n) ==
  /\ n \in Fresh
  /\ L!AddTail(n)
  /\ UpdateDoorbell(active, L!ListHead)
  /\ UNCHANGED <<reads, pc, deqd>>

\* enqueue: add_tail, then update_doorbell on the new head.
Enq(n) ==
  /\ n \in Fresh
  /\ L!AddTail(n)
  /\ UpdateDoorbell(active, lhead')
  /\ UNCHANGED <<reads, pc, deqd>>

Goto(x, l) == pc' = [pc EXCEPT ![x] = l]

\* The call a consumer makes next.
DeqStart(c) ==
  /\ pc[c] = "idle"
  /\ Goto(c, IF c \in Timed THEN "select" ELSE "read")
  /\ UNCHANGED <<lhead, ltail, lnxt, lprv, lcount, doorbell, deqd>>

\* dequeue_timed's handle_is_read_ready: pselect reports the pipe readable
\* when a byte is pending; otherwise it may time out, and the call returns
\* NULL.
DtSelect(c) ==
  /\ pc[c] = "select"
  /\ Goto(c, IF pipe > 0 THEN "read" ELSE "idle")
  /\ UNCHANGED <<lhead, ltail, lnxt, lprv, lcount, doorbell, deqd>>

\* dequeue's read(): blocks until a byte is pending, then takes it.
DeqRead(c) ==
  /\ pc[c] = "read"
  /\ pipe > 0
  /\ pipe' = pipe - 1
  /\ Goto(c, "locked")
  /\ UNCHANGED <<lhead, ltail, lnxt, lprv, lcount, active, writes, reads, deqd>>

\* dequeue under the semaphore: clear active_doorbell, count the read; if
\* the list is empty return NULL, else remove the head, ring again for what
\* is left, and return the node.
DeqLocked(c) ==
  /\ pc[c] = "locked"
  /\ reads' = reads + 1
  /\ Goto(c, "idle")
  /\ IF L!ListHead = Nil
       THEN /\ active' = 0
            /\ UNCHANGED <<lhead, ltail, lnxt, lprv, lcount, writes, pipe, deqd>>
       ELSE /\ L!PrivateRemove(L!ListHead)
            /\ UpdateDoorbell(0, lhead')
            /\ deqd' = Append(deqd, L!ListHead)

\* ipt_shared_queue_attach, line 355: active_doorbell = 0, unlocked.
AttachClear(x) ==
  /\ pc[x] = "a_clear"
  /\ active' = 0
  /\ Goto(x, "a_ring")
  /\ UNCHANGED <<lhead, ltail, lnxt, lprv, lcount, writes, reads, pipe, deqd>>

\* ipt_shared_queue_attach, line 357: update_doorbell, unlocked.
AttachRing(x) ==
  /\ pc[x] = "a_ring"
  /\ UpdateDoorbell(active, L!ListHead)
  /\ Goto(x, "attached")
  /\ UNCHANGED <<lhead, ltail, lnxt, lprv, lcount, reads, deqd>>

Consumer(c) == DeqStart(c) \/ DtSelect(c) \/ DeqRead(c) \/ DeqLocked(c)

\* Processes that attached before the others started.
Next ==
  \/ \E n \in Nodes : Enq(n)
  \/ \E c \in Consumers : Consumer(c)

\* Processes that may attach while the others run.
NextWithAttach ==
  \/ Next
  \/ \E x \in Attachers : AttachClear(x) \/ AttachRing(x)

\* Every consumer keeps calling and is scheduled when it can run.
Fairness == \A c \in Consumers : WF_vars(Consumer(c))

Spec == Init /\ [][Next]_vars /\ Fairness

SpecWithAttach == Init /\ [][NextWithAttach]_vars /\ Fairness

TypeOK ==
  /\ L!TypeOK
  /\ active \in {0, 1}
  /\ {writes, reads, pipe} \subseteq Nat
  /\ pc \in [Consumers \cup Attachers ->
               {"idle", "select", "read", "locked", "a_clear", "a_ring", "attached"}]
  /\ deqd \in Seq(Nodes)

\* The list under the queue stays well formed (SharedInList's
\* ListWellFormed) while enqueue's add_tail and dequeue's private_remove of
\* the head interleave with the unlocked pipe reads.
ListIntact == L!ListWellFormed

\* Spec section 4.4: writes - reads on the doorbell is always 0 or 1.
DoorbellSingle == writes - reads \in {0, 1}

\* Bytes in the pipe, plus those read by consumers not yet in the locked
\* section.
Pending == pipe + Cardinality({c \in Consumers : pc[c] = "locked"})

\* No spurious or doubled signal: a signal is outstanding (in the pipe or
\* in a consumer's hands) exactly when writes - reads says so and
\* active_doorbell is set, there is never more than one, and while there is
\* one the list holds an item for it.  Enqueue rings only on the
\* empty-to-non-empty edge and dequeue re-rings only for what is left, both
\* under the semaphore, while the pipe read happens outside it; a second
\* signal would make a dequeue find the list empty and return NULL.
NoSpuriousSignal ==
  /\ writes - reads = Pending
  /\ Pending \in {0, 1}
  /\ (active = 1) = (Pending = 1)
  /\ Pending = 1 => L!ListSeq # <<>>

\* The queue is the FIFO of AbstractQueue: its contents are the list from
\* head to tail, and the nodes dequeued come out in the order enqueued.
AQ == INSTANCE AbstractQueue WITH Items <- Nodes, q <- L!ListSeq, out <- deqd

FifoRefinement == AQ!Spec

\* No lost signal: every node enqueued is eventually returned by some
\* dequeue.  A node left in the list with no signal outstanding waits for
\* the next enqueue, and for ever after the last one.
Delivered == \A n \in Nodes : n \in ToSet(L!ListSeq) ~> n \in ToSet(deqd)

\* A dequeue_timed call returns: its pselect bounds the wait, so a timed
\* consumer that has started a call is back to idle eventually.  The
\* blocking read() after pselect is not bounded, and another consumer may
\* take the byte pselect saw.
TimedCallReturns == \A c \in Timed : pc[c] = "select" ~> pc[c] = "idle"
=============================================================================
