--------------------------- MODULE QueueLifecycle ---------------------------
(***************************************************************************)
(* How the logger and its shared queue come into being and are found:     *)
(* ipt_logger_create (src/src/logger.c), with the ipt_shared_queue_create  *)
(* and ipt_shared_in_list_create it calls, run by one process              *)
(* (examples/shm_init), and ipt_logger_attach, with ipt_shared_queue_attach *)
(* and ipt_shared_in_list_attach, run by the processes that attach to it  *)
(* (the logger programs of examples/logger), up to the semaphore wait of   *)
(* their first enqueue.                                                    *)
(*                                                                         *)
(* The logger's, the queue's and the list's shared data are blocks of the *)
(* segment allocator, and all three are found by name in its registry     *)
(* ("l" for the logger's name, "q" for name.sq, "sl" for name.sq.sl).  The allocator is kept as the set  *)
(* of blocks it can still hand out: each malloc takes one, or fails when   *)
(* none is left, and each is atomic under the segment semaphore, as are    *)
(* find_registered_object and register_object's final link.                *)
(* register_object is three steps: the lookup, the malloc of the entry,   *)
(* and the malloc of the copy of the name with the link that follows it   *)
(* (a step between those two sees the name missing either way).  The      *)
(* doorbell is the named pipe: its existence and the bytes written to it. *)
(* Nothing is enqueued while the processes start, so the list is empty.   *)
(* The logger's semaphore is kept as its value, 0 from the memset until    *)
(* sem_init sets it to 1.                                                  *)
(* Process-local mallocs are not modelled.  sem_init with pshared 1 and    *)
(* value 1 does not fail on Linux, so its failure paths are not either.    *)
(***************************************************************************)
EXTENDS Naturals, FiniteSets

CONSTANTS Attachers,  \* processes calling ipt_shared_queue_attach
          Blocks,     \* the segment blocks these calls can get
          Nil         \* NULL

Names == {"l", "q", "sl"}

VARIABLES free,     \* blocks the allocator can hand out
          reg,      \* reg[n]: the item registered under name n, or Nil
          entries,  \* blocks holding the registry's entries and names
          fifo,     \* the doorbell's named pipe exists in /tmp
          cpc,      \* where the creating process is
          rstage,   \* the step of register_object the creator is in
          qsd, slsd,\* the creator's queue and list shared data
          ent,      \* register_object's n_ptr
          lsinit,   \* the list's head and tail have been set to __null__
          active,   \* the queue's active_doorbell
          doorbell, \* doorbell bytes written and not read
          apc,      \* where each attaching process is
          aq,       \* the queue shared data each attacher found
          lsd,      \* the creator's logger shared data
          lsem,     \* the value of the logger's semaphore
          lsemok    \* sem_init has run on it

lvars == <<lsd, lsem, lsemok>>

vars == <<free, reg, entries, fifo, cpc, rstage, qsd, slsd, ent, lsinit,
          active, doorbell, apc, aq, lvars>>

\* A fresh segment: nothing allocated or registered, no pipe in /tmp.
Init ==
  /\ free = Blocks
  /\ reg = [n \in Names |-> Nil]
  /\ entries = {}
  /\ fifo = FALSE
  /\ cpc = "malloc_l" /\ rstage = "find"
  /\ qsd = Nil /\ slsd = Nil /\ ent = Nil
  /\ lsinit = FALSE /\ active = 0 /\ doorbell = 0
  /\ apc = [a \in Attachers |-> "find_l"]
  /\ aq = [a \in Attachers |-> Nil]
  /\ lsd = Nil /\ lsem = 0 /\ lsemok = FALSE

avars == <<apc, aq>>

\* The block a malloc that succeeds hands out.  The blocks are
\* interchangeable, so which one it is does not matter to the properties,
\* and the allocator's choice is fixed.
Alloc == CHOOSE b \in free : TRUE

\* ipt_logger_create: the malloc of the logger's shared data, which is
\* then memset to 0 (masks and semaphore); NULL when it fails.
MallocL ==
  /\ cpc = "malloc_l"
  /\ IF free = {}
       THEN cpc' = "failed" /\ UNCHANGED <<free, lsd>>
       ELSE LET b == Alloc IN free' = free \ {b} /\ lsd' = b /\ cpc' = "reg_l"
  /\ UNCHANGED <<reg, entries, fifo, rstage, qsd, slsd, ent, lsinit, active, doorbell, avars, lsem, lsemok>>

\* create: mkfifo fails when the pipe exists; then open(O_RDWR), which
\* on failure unlinks it.
MkFifo ==
  /\ cpc = "mkfifo"
  /\ IF fifo THEN cpc' = "q_failed" /\ UNCHANGED fifo
             ELSE cpc' = "open" /\ fifo' = TRUE
  /\ UNCHANGED <<free, reg, entries, rstage, qsd, slsd, ent, lsinit, active, doorbell, avars, lvars>>

OpenFifo ==
  /\ cpc = "open"
  /\ \/ cpc' = "malloc_q" /\ UNCHANGED fifo
     \/ cpc' = "q_failed" /\ fifo' = FALSE
  /\ UNCHANGED <<free, reg, entries, rstage, qsd, slsd, ent, lsinit, active, doorbell, avars, lvars>>

\* create: malloc of the queue's shared data; on NULL, unlink and return.
MallocQ ==
  /\ cpc = "malloc_q"
  /\ IF free = {}
       THEN cpc' = "q_failed" /\ fifo' = FALSE /\ UNCHANGED <<free, qsd>>
       ELSE LET b == Alloc IN free' = free \ {b} /\ qsd' = b /\ cpc' = "reg_q" /\ UNCHANGED fifo
  /\ UNCHANGED <<reg, entries, rstage, slsd, ent, lsinit, active, doorbell, avars, lvars>>

\* The name and item register_object is registering, and where its caller
\* goes on: register_object returns 0 or 1, and all three callers test
\* "< 0", so they go on either way.
Registering == {"reg_l", "reg_q", "reg_sl"}
RegName == CASE cpc = "reg_l" -> "l" [] cpc = "reg_q" -> "q" [] OTHER -> "sl"
RegItem == CASE cpc = "reg_l" -> lsd [] cpc = "reg_q" -> qsd [] OTHER -> slsd
AfterReg == CASE cpc = "reg_l" -> "mkfifo" [] cpc = "reg_q" -> "find_sl" [] OTHER -> "init_sl"

\* register_object: 1 when the name is found; 1 when either malloc fails,
\* the entry kept by the first when the second fails; else the link.
RegFind ==
  /\ cpc \in Registering /\ rstage = "find"
  /\ IF reg[RegName] # Nil THEN cpc' = AfterReg /\ UNCHANGED rstage
                           ELSE rstage' = "entry" /\ UNCHANGED cpc
  /\ UNCHANGED <<free, reg, entries, fifo, qsd, slsd, ent, lsinit, active, doorbell, avars, lvars>>

RegEntry ==
  /\ cpc \in Registering /\ rstage = "entry"
  /\ IF free = {}
       THEN cpc' = AfterReg /\ rstage' = "find" /\ UNCHANGED <<free, ent>>
       ELSE LET b == Alloc IN free' = free \ {b} /\ ent' = b /\ rstage' = "name" /\ UNCHANGED cpc
  /\ UNCHANGED <<reg, entries, fifo, qsd, slsd, lsinit, active, doorbell, avars, lvars>>

RegNameCopy ==
  /\ cpc \in Registering /\ rstage = "name"
  /\ IF free = {}
       THEN cpc' = AfterReg /\ rstage' = "find" /\ UNCHANGED <<free, reg, entries>>
       ELSE LET b == Alloc IN
              /\ free' = free \ {b}
              /\ entries' = entries \cup {ent, b}
              /\ reg' = [reg EXCEPT ![RegName] = RegItem]
              /\ cpc' = AfterReg /\ rstage' = "find"
  /\ UNCHANGED <<fifo, qsd, slsd, ent, lsinit, active, doorbell, avars, lvars>>

\* ipt_shared_in_list_create: NULL when the name is registered already, or
\* when the malloc of its shared data fails; the queue's create then frees
\* its own shared data and returns NULL.
FindSl ==
  /\ cpc = "find_sl"
  /\ IF reg["sl"] # Nil
       THEN cpc' = "q_failed" /\ free' = free \cup {qsd}
       ELSE cpc' = "malloc_sl" /\ UNCHANGED free
  /\ UNCHANGED <<reg, entries, fifo, rstage, qsd, slsd, ent, lsinit, active, doorbell, avars, lvars>>

MallocSl ==
  /\ cpc = "malloc_sl"
  /\ IF free = {}
       THEN cpc' = "q_failed" /\ free' = free \cup {qsd} /\ UNCHANGED slsd
       ELSE LET b == Alloc IN free' = free \ {b} /\ slsd' = b /\ cpc' = "reg_sl"
  /\ UNCHANGED <<reg, entries, fifo, rstage, qsd, ent, lsinit, active, doorbell, avars, lvars>>

\* After registering: the list's sem_init and head = tail = __null__, then
\* the queue's active_doorbell = 0.  Until then the list's head is the
\* memset 0 offset, which ipt_op_drf resolves to the head field itself.
InitSl ==
  /\ cpc = "init_sl"
  /\ lsinit' = TRUE /\ active' = 0
  /\ cpc' = "sem_init"
  /\ UNCHANGED <<free, reg, entries, fifo, rstage, qsd, slsd, ent, doorbell, avars, lvars>>

\* ipt_logger_create, when the queue's create returns NULL: the logger's
\* shared data is freed, and its name stays registered.
FreeL ==
  /\ cpc = "q_failed"
  /\ free' = free \cup {lsd}
  /\ cpc' = "failed"
  /\ UNCHANGED <<reg, entries, fifo, rstage, qsd, slsd, ent, lsinit, active, doorbell, avars, lvars>>

\* ipt_logger_create, after the queue's create: sem_init(&sem, 1, 1).
SemInit ==
  /\ cpc = "sem_init"
  /\ lsem' = 1 /\ lsemok' = TRUE
  /\ cpc' = "created"
  /\ UNCHANGED <<free, reg, entries, fifo, rstage, qsd, slsd, ent, lsinit, active, doorbell, avars, lsd>>

Creator == MallocL \/ RegFind \/ RegEntry \/ RegNameCopy \/ MkFifo \/ OpenFifo
           \/ MallocQ \/ FindSl \/ MallocSl \/ InitSl \/ FreeL \/ SemInit

cvars == <<cpc, rstage, qsd, slsd, ent, lsinit>>

GotoA(a, l) == apc' = [apc EXCEPT ![a] = l]

\* ipt_logger_attach: find_registered_object of the logger's name.
AFindL(a) ==
  /\ apc[a] = "find_l"
  /\ GotoA(a, IF reg["l"] = Nil THEN "null" ELSE "open")
  /\ UNCHANGED <<free, reg, entries, fifo, active, doorbell, aq, cvars, lvars>>

\* The queue's attach: open(O_RDWR) of the doorbell pipe fails when it
\* does not exist.
AOpen(a) ==
  /\ apc[a] = "open"
  /\ GotoA(a, IF fifo THEN "find_q" ELSE "null")
  /\ UNCHANGED <<free, reg, entries, fifo, active, doorbell, aq, cvars, lvars>>

\* attach: find_registered_object of the queue's name.
AFindQ(a) ==
  /\ apc[a] = "find_q"
  /\ IF reg["q"] = Nil THEN GotoA(a, "null") /\ UNCHANGED aq
                       ELSE GotoA(a, "find_sl") /\ aq' = [aq EXCEPT ![a] = reg["q"]]
  /\ UNCHANGED <<free, reg, entries, fifo, active, doorbell, cvars, lvars>>

\* ipt_shared_in_list_attach returns a list when find_registered_object
\* finds name.sl, and NULL otherwise.
SlAttached == reg["sl"] # Nil

\* On a NULL list the queue's attach frees the shared data it found and
\* returns NULL.
AFindSl(a) ==
  /\ apc[a] = "find_sl"
  /\ IF ~SlAttached THEN GotoA(a, "null") /\ free' = free \cup {aq[a]}
                        ELSE GotoA(a, "prime") /\ UNCHANGED free
  /\ UNCHANGED <<reg, entries, fifo, active, doorbell, aq, cvars, lvars>>

\* attach primes the pump: active_doorbell = 0, then update_doorbell,
\* which writes a byte when the list's head() is not NULL.
APrime(a) ==
  /\ apc[a] = "prime"
  /\ IF lsinit THEN active' = 0 /\ UNCHANGED doorbell
               ELSE active' = 1 /\ doorbell' = doorbell + 1
  /\ GotoA(a, "sem_wait")
  /\ UNCHANGED <<free, reg, entries, fifo, aq, cvars, lvars>>

\* The attached process's first enqueue: sem_wait on the logger's
\* semaphore, which blocks while its value is 0.  The rest of enqueue is
\* the Logger module's.
SemWait(a) ==
  /\ apc[a] = "sem_wait"
  /\ lsem > 0
  /\ lsem' = lsem - 1
  /\ GotoA(a, "enqueue")
  /\ UNCHANGED <<free, reg, entries, fifo, active, doorbell, aq, cvars, lsd, lsemok>>

Attacher(a) == AFindL(a) \/ AOpen(a) \/ AFindQ(a) \/ AFindSl(a) \/ APrime(a) \/ SemWait(a)

Next == Creator \/ \E a \in Attachers : Attacher(a)

Spec == Init /\ [][Next]_vars

TypeOK ==
  /\ free \subseteq Blocks /\ entries \subseteq Blocks
  /\ reg \in [Names -> Blocks \cup {Nil}]
  /\ apc \in [Attachers -> {"find_l", "open", "find_q", "find_sl", "prime",
                            "sem_wait", "enqueue", "null"}]
  /\ doorbell \in Nat /\ active \in {0, 1}
  /\ lsem \in {0, 1} /\ lsemok \in BOOLEAN

\* Whatever order create and the attaches run in, every name in the
\* registry names a block that is allocated, that no other name names and
\* that does not hold a registry entry: the logger's, the queue's and the
\* list's shared data stay theirs while their names are registered.  The
\* queue attach's error path frees the shared data it found without
\* deregistering it, and so does the logger create's when the queue's
\* create fails.
RegisteredLive ==
  \A n \in Names :
    reg[n] # Nil =>
      /\ reg[n] \notin free \cup entries
      /\ \A m \in Names \ {n} : reg[m] # reg[n]

\* A doorbell byte is pending only for a node in the list; nothing is
\* enqueued here, so none is written.  An attach that primes the queue
\* between the list's registration and its initialisation sees the head
\* field's own address as a node.
NoSpuriousDoorbell == doorbell = 0

\* A process that attached to the logger waits on the logger's semaphore
\* only once the creator's sem_init has run.  ipt_logger_create registers
\* the logger's name before it creates the queue and calls sem_init only
\* after, so an attach that finds both in between sem_waits on the
\* memset semaphore, which POSIX leaves undefined, and sem_init then
\* resets a semaphore that has a waiter.
SemInitBeforeWait == \A a \in Attachers : apc[a] \in {"sem_wait", "enqueue"} => lsemok
=============================================================================
