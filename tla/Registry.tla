------------------------------ MODULE Registry ------------------------------
(***************************************************************************)
(* The named-object registry of src/src/allocator_shm.c: register_object,  *)
(* deregister_object and find_registered_object, called by several         *)
(* processes that share one segment.                                       *)
(*                                                                         *)
(* A registry entry (struct reg_obj) is a block from the segment           *)
(* allocator; its node prev/next links and its item and name fields are    *)
(* the block's contents, kept in prv, nxt, itm and nm.  The allocator is   *)
(* abstracted to what the registry sees of it: malloc returns some block   *)
(* not in use, or NULL when none is left, and free returns the block to    *)
(* the pool without touching the entry fields (private_free writes only    *)
(* the block header, which lies before them).  Every call into the         *)
(* allocator, and every section between sem_wait and sem_post, is one     *)
(* step.  The steps of one call are the ones between which the code        *)
(* releases the segment semaphore: register_object looks the name up,      *)
(* allocates the entry, allocates the name and links the entry, each under *)
(* its own sem_wait.  A process that returns from deregister_object        *)
(* without sem_post keeps the semaphore forever (holder).                  *)
(***************************************************************************)
EXTENDS Integers, Sequences, FiniteSets

CONSTANTS
  Procs,      \* the processes attached to the segment
  Names,      \* the names they register
  Blocks,     \* the segment's blocks, as the registry's mallocs see them
  Nil,        \* the __null__ sentinel, and "no process" for holder
  Program     \* each process's calls, in order

VARIABLES
  heap,       \* blocks handed out by malloc
  nxt, prv,   \* node.next, node.prev of each block's struct reg_obj
  nm, itm,    \* the name string and the item of each block's struct reg_obj
  nmp,        \* the block holding the copy of the name (reg_obj.name)
  head, tail, \* ro_list_head, ro_list_tail
  holder,     \* the process that keeps the semaphore, or Nil
  pc, ops,    \* each process's program counter and calls made
  ent, nblk,  \* register_object's n_ptr and name_ptr
  cur, ret,   \* deregister_object's cur_ptr, and each call's result
  entries,    \* ghost: the entries registered and not yet deregistered
  expect      \* ghost: the item deregister_object unlinked

vars == <<heap, nxt, prv, nm, itm, nmp, head, tail, holder, pc, ops, ent, nblk,
          cur, ret, entries, expect>>

Ptr == Blocks \cup {Nil}
Call(k, n) == [kind |-> k, name |-> n]
Op(p) == Program[p][ops[p]]

\* The registry as its walks see it, from ro_list_head along next; a walk
\* that comes back to a block it has seen never ends.
RECURSIVE Walk(_, _)
Walk(b, seen) ==
  IF b = Nil THEN <<>>
  ELSE IF b \in seen THEN <<b>>
  ELSE <<b>> \o Walk(nxt[b], seen \cup {b})
RegList == Walk(head, {})
Cyclic == RegList # <<>> /\ nxt[RegList[Len(RegList)]] # Nil

\* The first entry of the walk whose name is x, or Nil.
Lookup(x) ==
  LET hits == {i \in 1 .. Len(RegList) : nm[RegList[i]] = x}
  IN IF hits = {} THEN Nil ELSE RegList[CHOOSE i \in hits : \A j \in hits : i <= j]

Init ==
  /\ heap = {}
  /\ nxt = [b \in Blocks |-> Nil] /\ prv = [b \in Blocks |-> Nil]
  /\ nm = [b \in Blocks |-> Nil] /\ itm = [b \in Blocks |-> Nil]
  /\ nmp = [b \in Blocks |-> Nil]
  /\ head = Nil /\ tail = Nil
  /\ holder = Nil
  /\ pc = [p \in Procs |-> "idle"]
  /\ ent = [p \in Procs |-> Nil] /\ nblk = [p \in Procs |-> Nil]
  /\ cur = [p \in Procs |-> Nil] /\ ret = [p \in Procs |-> Nil]
  /\ ops = [p \in Procs |-> 0]
  /\ entries = {}
  /\ expect = [p \in Procs |-> Nil]

\* A step that takes the segment semaphore: nobody keeps it.
Locked == holder = Nil

Goto(p, l) == pc' = [pc EXCEPT ![p] = l]
Return(p, r) == pc' = [pc EXCEPT ![p] = "idle"] /\ ret' = [ret EXCEPT ![p] = r]
Links == <<nxt, prv, nm, itm, nmp, head, tail>>

\* A process starts the next call of its program.
Start(p) ==
  /\ pc[p] = "idle" /\ ops[p] < Len(Program[p])
  /\ ops' = [ops EXCEPT ![p] = @ + 1]
  /\ Goto(p, IF Program[p][ops[p] + 1].kind = "register" THEN "r_find" ELSE "d_unlink")
  /\ UNCHANGED <<heap, Links, holder, ent, nblk, cur, ret, entries, expect>>

\* register_object: find_registered_object under the semaphore; a name
\* already registered returns 1.
RegFind(p) ==
  /\ pc[p] = "r_find" /\ Locked /\ ~Cyclic
  /\ IF Lookup(Op(p).name) # Nil THEN Return(p, 1)
     ELSE Goto(p, "r_malloc_entry") /\ UNCHANGED ret
  /\ UNCHANGED <<heap, Links, holder, ops, ent, nblk, cur, entries, expect>>

\* private_malloc: some block not in use, or NULL when there is none.
Malloc(p, var, next) ==
  /\ Locked
  /\ \/ \E b \in Blocks \ heap :
          /\ heap' = heap \cup {b}
          /\ var' = [var EXCEPT ![p] = b]
          /\ Goto(p, next) /\ UNCHANGED ret
     \/ heap = Blocks /\ Return(p, 1) /\ UNCHANGED <<heap, var>>

\* register_object: malloc the entry; NULL returns 1.
RegMallocEntry(p) ==
  /\ pc[p] = "r_malloc_entry" /\ Malloc(p, ent, "r_malloc_name")
  /\ UNCHANGED <<Links, holder, ops, nblk, cur, entries, expect>>

\* register_object: malloc the name; NULL returns 1, and the entry malloced
\* just before is not freed.
RegMallocName(p) ==
  /\ pc[p] = "r_malloc_name" /\ Malloc(p, nblk, "r_link")
  /\ UNCHANGED <<Links, holder, ops, ent, cur, entries, expect>>

\* register_object's locked section: copy the name, fill the entry and
\* append it at ro_list_tail, setting the old tail's next when there is one
\* (linkTail).
AppendEntry(p, name, item, linkTail) ==
  LET n == ent[p]
      nxt1 == [nxt EXCEPT ![n] = Nil]
  IN /\ pc[p] = "r_link" /\ Locked
     /\ head' = IF head = Nil THEN n ELSE head
     /\ prv' = [prv EXCEPT ![n] = tail]
     /\ nxt' = IF tail # Nil /\ linkTail THEN [nxt1 EXCEPT ![tail] = n] ELSE nxt1
     /\ tail' = n
     /\ nm' = [nm EXCEPT ![n] = name]
     /\ itm' = [itm EXCEPT ![n] = item]
     /\ nmp' = [nmp EXCEPT ![n] = nblk[p]]
     /\ entries' = entries \cup {n}
     /\ Return(p, 0)
     /\ UNCHANGED <<heap, holder, ops, ent, nblk, cur, expect>>

\* Mutant: the old tail's next is not set to the new entry.
RegLinkNoTailNext(p) == AppendEntry(p, Op(p).name, p, FALSE)
\* Mutant: the item and name fields are set from each other's value.
RegLinkSwapped(p) == AppendEntry(p, p, Op(p).name, TRUE)

RegLink(p) == AppendEntry(p, Op(p).name, p, TRUE)

\* Mutant: a single entry does not reset head and tail.
UnlinkNoReset(c) ==
  LET nxt1 == IF prv[c] # Nil THEN [nxt EXCEPT ![prv[c]] = nxt[c]] ELSE nxt
      prv1 == IF nxt1[c] # Nil THEN [prv EXCEPT ![nxt1[c]] = prv[c]] ELSE prv
  IN [nxt |-> nxt1, prv |-> prv1, head |-> head, tail |-> tail]

\* deregister_object's unlinking of the entry c from its neighbours; head
\* and tail are reset only when c was the only entry.
Unlink(c) ==
  LET nxt1 == IF prv[c] # Nil THEN [nxt EXCEPT ![prv[c]] = nxt[c]] ELSE nxt
      prv1 == IF nxt1[c] # Nil THEN [prv EXCEPT ![nxt1[c]] = prv[c]] ELSE prv
      alone == prv1[c] = Nil /\ nxt1[c] = Nil
  IN [nxt |-> nxt1, prv |-> prv1,
      head |-> IF alone THEN Nil ELSE head, tail |-> IF alone THEN Nil ELSE tail]

\* deregister_object's locked section: find the entry by name; when there is
\* none, return NULL without sem_post.  Otherwise unlink it from its
\* neighbours, and reset ro_list_head and ro_list_tail when it was alone.
DeregUnlink(p) ==
  LET c == Lookup(Op(p).name)
  IN /\ pc[p] = "d_unlink" /\ Locked /\ ~Cyclic
     /\ IF c = Nil
          THEN /\ holder' = p /\ Return(p, Nil)
               /\ UNCHANGED <<Links, cur, entries, expect>>
          ELSE LET u == Unlink(c)
               IN /\ nxt' = u.nxt /\ prv' = u.prv /\ head' = u.head /\ tail' = u.tail
                  /\ cur' = [cur EXCEPT ![p] = c]
                  /\ entries' = entries \ {c}
                  /\ expect' = [expect EXCEPT ![p] = itm[c]]
                  /\ Goto(p, "d_free_name")
                  /\ UNCHANGED <<nm, itm, nmp, holder, ret>>
     /\ UNCHANGED <<heap, ops, ent, nblk>>

DeregFreeName(p) ==
  /\ pc[p] = "d_free_name" /\ Locked
  /\ heap' = heap \ {nmp[cur[p]]}
  /\ Goto(p, "d_free_entry")
  /\ UNCHANGED <<Links, holder, ops, ent, nblk, cur, ret, entries, expect>>

DeregFreeEntry(p) ==
  /\ pc[p] = "d_free_entry" /\ Locked
  /\ heap' = heap \ {cur[p]}
  /\ Goto(p, "d_return")
  /\ UNCHANGED <<Links, holder, ops, ent, nblk, cur, ret, entries, expect>>

\* deregister_object: the item is read from the entry after it was freed.
DeregReturn(p) ==
  /\ pc[p] = "d_return"
  /\ Return(p, itm[cur[p]])
  /\ UNCHANGED <<heap, Links, holder, ops, ent, nblk, cur, entries, expect>>

\* Every process has made all its calls.
Finished ==
  /\ \A p \in Procs : pc[p] = "idle" /\ ops[p] = Len(Program[p])
  /\ UNCHANGED vars

Step(p) ==
  \/ Start(p) \/ RegFind(p) \/ RegMallocEntry(p) \/ RegMallocName(p) \/ RegLink(p)
  \/ DeregUnlink(p) \/ DeregFreeName(p) \/ DeregFreeEntry(p) \/ DeregReturn(p)

Next == (\E p \in Procs : Step(p)) \/ Finished

\* Each process keeps running unless the semaphore it waits for is kept.
Spec == Init /\ [][Next]_vars /\ \A p \in Procs : WF_vars(Step(p))

-----------------------------------------------------------------------------
(* Properties                                                              *)

TypeOK ==
  /\ heap \subseteq Blocks
  /\ nxt \in [Blocks -> Ptr] /\ prv \in [Blocks -> Ptr] /\ nmp \in [Blocks -> Ptr]
  /\ head \in Ptr /\ tail \in Ptr /\ entries \subseteq Blocks
  /\ nm \in [Blocks -> Names \cup {Nil}] /\ itm \in [Blocks -> Procs \cup {Nil}]
  /\ holder \in Procs \cup {Nil}

\* Names are unique (spec section 3): register_object's lookup and its link
\* are separate critical sections, and no two registered entries may carry
\* the same name.
UniqueNames == \A a, b \in entries : a # b => nm[a] # nm[b]

\* The list find_registered_object walks from ro_list_head, in order, is
\* exactly the registered entries, ends at ro_list_tail, and every prev
\* link names the entry before: register_object's append and
\* deregister_object's unlink keep head, tail and both links consistent.
ListIsEntries ==
  /\ ~Cyclic
  /\ Len(RegList) = Cardinality(entries)
  /\ \A i \in 1 .. Len(RegList) :
        /\ RegList[i] \in entries
        /\ prv[RegList[i]] = IF i = 1 THEN Nil ELSE RegList[i - 1]
  /\ tail = IF RegList = <<>> THEN Nil ELSE RegList[Len(RegList)]

ReturnsItem ==
  [][\A p \in Procs : pc[p] = "d_return" /\ pc'[p] = "idle" => ret'[p] = expect[p]]_vars

\* Every call returns: no process waits forever on the segment semaphore.
CallsReturn == \A p \in Procs : pc[p] # "idle" ~> pc[p] = "idle"
=============================================================================
