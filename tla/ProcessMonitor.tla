--------------------------- MODULE ProcessMonitor ---------------------------
(***************************************************************************)
(* The process monitor of src/src/process_monitor.c: a fixed table of      *)
(* entries in shared memory guarded by one process-shared semaphore.       *)
(* Processes run a Program of calls: register_process, remove_process,     *)
(* set_expire_interval, handle_timeout (the reactor timer's upcall) and    *)
(* ipt_process_monitor_for_each, which the monitor program of             *)
(* examples/process_monitor and view_procs call; for_each takes and        *)
(* releases the semaphore once per entry around a read-only upcall.       *)
(* Each call is sem_wait, then its body, then sem_post; register_process's *)
(* body is two steps, the lookups and the write of the entry it picked,    *)
(* so that a second process inside the semaphore can be seen between them. *)
(*                                                                         *)
(* The data of an entry is abstracted to in_use and name: path, argv, pid, *)
(* update_time and expire_interval are written but no property reads them, *)
(* so set_expire_interval and handle_timeout are their lookups and the     *)
(* semaphore.  Processes in Late run ipt_process_monitor_attach, whose     *)
(* sem_init resets the semaphore to 1 whoever holds it, while the others   *)
(* are already using the table.                                            *)
(***************************************************************************)
EXTENDS Integers, Sequences, FiniteSets

CONSTANTS Procs, Slots, Names, None, Program, Late

VARIABLES sem, used, name, pc, ops, slot, ret, reg

vars == <<sem, used, name, pc, ops, slot, ret, reg>>

Op(p) == Program[p][ops[p]]

\* The state after every process but the Late ones has attached: create's
\* memset leaves the table empty and the semaphore 0, and each attach's
\* sem_init sets it to 1.  No process in the repository calls create, so
\* none of them uses the table without attaching first.
Init ==
  /\ sem = 1
  /\ used = [s \in Slots |-> FALSE]
  /\ name = [s \in Slots |-> None]
  /\ pc = [p \in Procs |-> IF p \in Late THEN "attach" ELSE "idle"]
  /\ ops = [p \in Procs |-> 0]
  /\ slot = [p \in Procs |-> None]
  /\ ret = [p \in Procs |-> 0]
  /\ reg = {}

Goto(p, l) == pc' = [pc EXCEPT ![p] = l]

\* sem_post and the call's return value.
Return(p, r) ==
  /\ sem' = sem + 1
  /\ Goto(p, "idle")
  /\ ret' = [ret EXCEPT ![p] = r]

\* find_entry(match_process_name): the in-use entry with this name.
FindName(n) == {s \in Slots : used[s] /\ name[s] = n}

\* find_entry(match_free): the entries not in use.
FindFree == {s \in Slots : ~used[s]}

\* find_entry scans from entry 0 and returns the first match.
First(S) == CHOOSE s \in S : \A t \in S : s <= t

\* ipt_process_monitor_attach: sem_init(&sem, 1, 1), unlocked.
Attach(p) ==
  /\ pc[p] = "attach"
  /\ sem' = 1
  /\ Goto(p, "idle")
  /\ UNCHANGED <<used, name, ops, slot, ret, reg>>

\* The process makes its next call; slot is the call's local entry
\* pointer or loop index, unset.
Start(p) ==
  /\ pc[p] = "idle"
  /\ ops[p] < Len(Program[p])
  /\ ops' = [ops EXCEPT ![p] = @ + 1]
  /\ Goto(p, "wait")
  /\ slot' = [slot EXCEPT ![p] = None]
  /\ UNCHANGED <<sem, used, name, ret, reg>>

\* Mutant: sem_trywait whose failure is ignored.
WaitUnchecked(p) ==
  /\ pc[p] = "wait"
  /\ sem' = IF sem > 0 THEN sem - 1 ELSE sem
  /\ Goto(p, Op(p).kind)
  /\ UNCHANGED <<used, name, ops, slot, ret, reg>>

\* sem_wait: blocks while the semaphore is 0.
Wait(p) ==
  /\ pc[p] = "wait"
  /\ sem > 0
  /\ sem' = sem - 1
  /\ Goto(p, Op(p).kind)
  /\ UNCHANGED <<used, name, ops, slot, ret, reg>>

\* Mutant: the path for an existing name posts twice.
RegFindPostTwice(p) ==
  LET n == Op(p).name IN
  /\ pc[p] = "register"
  /\ \/ /\ FindName(n) # {}
        /\ sem' = sem + 2 /\ Goto(p, "idle") /\ ret' = [ret EXCEPT ![p] = 0]
        /\ reg' = reg \cup {n}
        /\ UNCHANGED slot
     \/ /\ FindName(n) = {} /\ FindFree # {}
        /\ slot' = [slot EXCEPT ![p] = First(FindFree)]
        /\ Goto(p, "write")
        /\ UNCHANGED <<sem, ret, reg>>
     \/ /\ FindName(n) = {} /\ FindFree = {}
        /\ Return(p, -1)
        /\ UNCHANGED <<slot, reg>>
  /\ UNCHANGED <<used, name, ops>>

\* register_process under the semaphore: an entry in use with the name is
\* taken over and the call returns 0; otherwise the first free entry is
\* picked, or the call returns -1 when the table is full.
RegFind(p) ==
  LET n == Op(p).name IN
  /\ pc[p] = "register"
  /\ \/ /\ FindName(n) # {}
        /\ Return(p, 0)
        /\ reg' = reg \cup {n}
        /\ UNCHANGED slot
     \/ /\ FindName(n) = {} /\ FindFree # {}
        /\ slot' = [slot EXCEPT ![p] = First(FindFree)]
        /\ Goto(p, "write")
        /\ UNCHANGED <<sem, ret, reg>>
     \/ /\ FindName(n) = {} /\ FindFree = {}
        /\ Return(p, -1)
        /\ UNCHANGED <<slot, reg>>
  /\ UNCHANGED <<used, name, ops>>

\* Mutant: in_use is not set on the new entry.
RegWriteNoInUse(p) ==
  /\ pc[p] = "write"
  /\ name' = [name EXCEPT ![slot[p]] = Op(p).name]
  /\ Return(p, 0)
  /\ reg' = reg \cup {Op(p).name}
  /\ UNCHANGED <<used, ops, slot>>

\* register_process: the picked entry gets the name and is marked in use,
\* then sem_post and return 0.
RegWrite(p) ==
  /\ pc[p] = "write"
  /\ name' = [name EXCEPT ![slot[p]] = Op(p).name]
  /\ used' = [used EXCEPT ![slot[p]] = TRUE]
  /\ Return(p, 0)
  /\ reg' = reg \cup {Op(p).name}
  /\ UNCHANGED <<ops, slot>>

\* Mutant: the -1 path returns without sem_post.
RemoveProcessKeepsLock(p) ==
  LET n == Op(p).name IN
  /\ pc[p] = "remove"
  /\ IF FindName(n) = {}
       THEN Goto(p, "idle") /\ ret' = [ret EXCEPT ![p] = -1] /\ UNCHANGED <<sem, used, reg>>
       ELSE /\ used' = [used EXCEPT ![First(FindName(n))] = FALSE]
            /\ Return(p, 0)
            /\ reg' = reg \ {n}
  /\ UNCHANGED <<name, ops, slot>>

\* remove_process: the entry with the name is marked free; -1 if none.
RemoveProcess(p) ==
  LET n == Op(p).name IN
  /\ pc[p] = "remove"
  /\ IF FindName(n) = {}
       THEN Return(p, -1) /\ UNCHANGED <<used, reg>>
       ELSE /\ used' = [used EXCEPT ![First(FindName(n))] = FALSE]
            /\ Return(p, 0)
            /\ reg' = reg \ {n}
  /\ UNCHANGED <<name, ops, slot>>

\* set_expire_interval: looks the name up, sets the interval if found.
SetExpireInterval(p) ==
  /\ pc[p] = "expire"
  /\ Return(p, IF FindName(Op(p).name) = {} THEN -1 ELSE 0)
  /\ UNCHANGED <<used, name, ops, slot, reg>>

\* handle_timeout: looks the name up, stamps update_time if found; 0 always.
HandleTimeout(p) ==
  /\ pc[p] = "timeout"
  /\ Return(p, 0)
  /\ UNCHANGED <<used, name, ops, slot, reg>>

\* for_each, for entry slot[p] (the loop index i, from the first entry):
\* the upcall reads the entry, then sem_post; the next entry starts with
\* its own sem_wait, and after the last the call returns.
ForEach(p) ==
  LET i == IF slot[p] = None THEN First(Slots) ELSE slot[p]
      last == \A t \in Slots : t <= i
  IN /\ pc[p] = "for_each"
     /\ sem' = sem + 1
     /\ Goto(p, IF last THEN "idle" ELSE "wait")
     /\ slot' = [slot EXCEPT ![p] = IF last THEN None ELSE i + 1]
     /\ UNCHANGED <<used, name, ops, ret, reg>>

Step(p) ==
  \/ Start(p) \/ Wait(p) \/ RegFind(p) \/ RegWrite(p)
  \/ RemoveProcess(p) \/ SetExpireInterval(p) \/ HandleTimeout(p) \/ ForEach(p)

\* Every program has run to its end.
Finished ==
  /\ \A p \in Procs : pc[p] = "idle" /\ ops[p] = Len(Program[p])
  /\ UNCHANGED vars

\* Processes that attached before any of them used the table.
Next == (\E p \in Procs : Step(p)) \/ Finished

\* Processes that attach while the others use it.
NextWithAttach == Next \/ \E p \in Late : Attach(p)

\* Each process keeps running its program: sem_wait returns once the
\* semaphore is posted, and the rest of a call does not block.
Fairness == \A p \in Procs : WF_vars(Step(p))

Spec == Init /\ [][Next]_vars /\ Fairness

SpecWithAttach == Init /\ [][NextWithAttach]_vars /\ Fairness

Kinds == {"register", "remove", "expire", "timeout", "for_each"}

TypeOK ==
  /\ sem \in {0, 1}
  /\ used \in [Slots -> BOOLEAN]
  /\ name \in [Slots -> Names \cup {None}]
  /\ pc \in [Procs -> {"attach", "idle", "wait", "write"} \cup Kinds]
  /\ slot \in [Procs -> Slots \cup {None}]
  /\ reg \subseteq Names

\* The semaphore gives mutual exclusion: at most one process is between
\* its sem_wait and its sem_post.
MutualExclusion ==
  Cardinality({p \in Procs : pc[p] \in Kinds \cup {"write"}}) <= 1

\* The table is the registrations: the names of the entries in use are
\* exactly those whose last register_process returned 0 with no successful
\* remove_process since, each in one entry.  A register that picks a free
\* entry and writes it later, in another step, loses a registration if a
\* second process picks the same entry in between.
TableIsRegistrations ==
  /\ {name[s] : s \in {t \in Slots : used[t]}} = reg
  /\ \A s, t \in Slots : used[s] /\ used[t] /\ name[s] = name[t] => s = t

\* Every call returns and every program runs to its end: each path of
\* each call, its -1 returns included, posts the semaphore it took, and
\* for_each posts it after every entry, so no process is left waiting in
\* sem_wait.  The registry's deregister_object is an example of a call
\* whose error path keeps it.
AllCallsReturn == <>(\A p \in Procs : pc[p] = "idle" /\ ops[p] = Len(Program[p]))
=============================================================================
