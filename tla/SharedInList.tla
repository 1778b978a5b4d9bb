---------------------------- MODULE SharedInList ----------------------------
(***************************************************************************)
(* The intrusive shared list of src/src/shared_in_list.c.  Each node's     *)
(* prev and next links and the list's head, tail and count are kept as the *)
(* code keeps them; Nil is the list's own __null__ sentinel, and it is in  *)
(* the domain of the link functions because private_remove writes the      *)
(* sentinel's "next" and "prev" when it unlinks the head or the tail.      *)
(* Every operation runs between sem_wait and sem_post on the list's        *)
(* semaphore, so each is one step.  A node's links are garbage until it is *)
(* added, and add_tail and add_head write both before anything reads them, *)
(* so Init fixes them to Nil without losing a behaviour.                   *)
(***************************************************************************)
EXTENDS Integers, Sequences, FiniteSets, SequencesExt

CONSTANTS Nodes, Nil

VARIABLES lhead, ltail, lnxt, lprv, lcount

lvars == <<lhead, ltail, lnxt, lprv, lcount>>

Ptr == Nodes \cup {Nil}

\* The list as head(), next() walk it: from head along next to the sentinel.
RECURSIVE WalkFrom(_, _)
WalkFrom(n, seen) ==
  IF n = Nil \/ n \in seen THEN <<>> ELSE <<n>> \o WalkFrom(lnxt[n], seen \cup {n})
ListSeq == WalkFrom(lhead, {})

\* Mutant: head() hands out the tail.
ListHeadTail == ltail

\* head(): the first node, Nil for the sentinel.
ListHead == lhead

\* ipt_shared_in_list_create: head and tail on the sentinel, count zero
\* (memset).
Init ==
  /\ lhead = Nil /\ ltail = Nil /\ lcount = 0
  /\ lnxt = [p \in Ptr |-> Nil] /\ lprv = [p \in Ptr |-> Nil]

\* add_tail.
AddTail(n) ==
  /\ IF ltail = Nil
       THEN /\ lnxt' = [lnxt EXCEPT ![n] = Nil]
            /\ lprv' = [lprv EXCEPT ![n] = Nil]
       ELSE /\ lnxt' = [lnxt EXCEPT ![ltail] = n, ![n] = Nil]
            /\ lprv' = [lprv EXCEPT ![n] = ltail]
  /\ ltail' = n
  /\ lhead' = IF lhead = Nil THEN n ELSE lhead
  /\ lcount' = lcount + 1

\* add_head: both of its tests compare a pointer with itself, so every call
\* takes the "empty list" branch.
AddHead(n) ==
  /\ lhead' = n
  /\ lnxt' = [lnxt EXCEPT ![n] = Nil]
  /\ lprv' = [lprv EXCEPT ![n] = Nil]
  /\ ltail' = n
  /\ lcount' = lcount + 1

\* Mutant: count is not decremented.
PrivateRemoveKeepCount(n) ==
  /\ lhead' = IF lhead = n THEN lnxt[n] ELSE lhead
  /\ ltail' = IF ltail = n THEN lprv[n] ELSE ltail
  /\ LET nxt1 == [lnxt EXCEPT ![lprv[n]] = lnxt[n]]
     IN /\ lnxt' = nxt1
        /\ lprv' = [lprv EXCEPT ![nxt1[n]] = lprv[n]]
  /\ UNCHANGED lcount

\* private_remove: head and tail move past n, then n's neighbours are
\* linked to each other, through the sentinel when n is at an end.
PrivateRemove(n) ==
  /\ lhead' = IF lhead = n THEN lnxt[n] ELSE lhead
  /\ ltail' = IF ltail = n THEN lprv[n] ELSE ltail
  /\ LET nxt1 == [lnxt EXCEPT ![lprv[n]] = lnxt[n]]
     IN /\ lnxt' = nxt1
        /\ lprv' = [lprv EXCEPT ![nxt1[n]] = lprv[n]]
  /\ lcount' = lcount - 1

\* The list on its own: callers add nodes that are not in it and remove
\* nodes that are.
Next ==
  \/ \E n \in Nodes \ ToSet(ListSeq) : AddTail(n) \/ AddHead(n)
  \/ \E n \in ToSet(ListSeq) : PrivateRemove(n)

Spec == Init /\ [][Next]_lvars

TypeOK ==
  /\ lhead \in Ptr /\ ltail \in Ptr
  /\ lnxt \in [Ptr -> Ptr] /\ lprv \in [Ptr -> Ptr]
  /\ lcount \in 0 .. Cardinality(Nodes)

\* The links the code keeps agree with each other: walking next from head
\* reaches the sentinel without a cycle, after count nodes, and ends at
\* tail; every node's prev is its predecessor on that walk.  add_tail and
\* private_remove each rewrite several of these fields, and a node removed
\* from one end leaves a write through the sentinel behind.
ListWellFormed ==
  LET s == ListSeq IN
  /\ (s = <<>> \/ lnxt[s[Len(s)]] = Nil)
  /\ lcount = Len(s)
  /\ ltail = IF s = <<>> THEN Nil ELSE s[Len(s)]
  /\ \A i \in 1 .. Len(s) : lprv[s[i]] = IF i = 1 THEN Nil ELSE s[i - 1]
=============================================================================
