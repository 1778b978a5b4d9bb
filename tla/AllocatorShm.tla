---------------------------- MODULE AllocatorShm ----------------------------
(***************************************************************************)
(* The shared-memory segment allocator of src/src/allocator_shm.c: the     *)
(* address-ordered free list with first-fit allocation from the high end   *)
(* of a free block and coalescing on free.                                 *)
(*                                                                         *)
(* Memory is a function from word addresses to the word stored there.      *)
(* Addresses are byte offsets from the first byte after the segment       *)
(* header (struct shared_data); the header itself occupies the negative    *)
(* offsets, and the "__null__" sentinel byte lives inside it.  A block     *)
(* header (struct __node__) is three words: prev, next (relative pointers) *)
(* and size.  A relative pointer is stored as the code stores it,          *)
(* location - target (ipt_op_set), and read back as location - offset      *)
(* (ipt_op_drf), so headers that overlap are read the way the C code       *)
(* reads them.  malloc and free run entirely between sem_wait and sem_post *)
(* on the segment semaphore, so each is one atomic step.                   *)
(***************************************************************************)
EXTENDS Integers, Sequences, FiniteSets, FiniteSetsExt, SequencesExt

CONSTANTS
  W,            \* sizeof(ptrdiff_t): the alignment and the word size
  SegSize,      \* the size argument of ipt_allocator_shm_create, in bytes
  HeaderSize,   \* sizeof(struct shared_data)
  NullOffset,   \* offsetof(struct shared_data, __null__)
  Requests      \* the sizes callers pass to malloc

ASSUME /\ W > 0 /\ SegSize % W = 0 /\ HeaderSize % W = 0
       /\ Requests \subseteq Nat \ {0}

NodeSize == 3 * W                       \* sizeof(struct __node__)
PrevF == 0                              \* offsetof(struct __node__, prev)
NextF == W                              \* offsetof(struct __node__, next)
SizeF == 2 * W                          \* offsetof(struct __node__, size)

\* The address of the null sentinel, &sd_ptr->__null__.
Null == NullOffset - HeaderSize

\* Every word of the mapping: the segment header and the block region.
Addr == {a \in -HeaderSize .. SegSize - W : a % W = 0}

\* A bound on any walk of an acyclic free list: it has at most this many blocks.
Fuel == SegSize \div W + 1

\* What a loop over the free list yields when it never reaches the sentinel.
Spin == -HeaderSize - W

VARIABLES
  mem,                  \* the contents of the mapped segment, word by word
  free_list_head,       \* sd_ptr->free_list_head, as a resolved address
  free_list_tail,       \* sd_ptr->free_list_tail, as a resolved address
  bytes_allocated,      \* sd_ptr->bytes_allocated
  num_blocks_allocated, \* sd_ptr->num_blocks_allocated
  owned                 \* ghost: the blocks malloc handed out, <<header, size>>

vars == <<mem, free_list_head, free_list_tail, bytes_allocated,
          num_blocks_allocated, owned>>

-----------------------------------------------------------------------------
(* offset_ptr.h                                                            *)

\* ipt_op_set(loc, ptr): store the displacement of ptr from the field itself.
OpSet(m, loc, ptr) == [m EXCEPT ![loc] = loc - ptr]

\* ipt_op_drf(loc): resolve the displacement stored at loc.
OpDrf(m, loc) == loc - m[loc]

\* The fields of the block header at a, read from memory m.
PrevOf(m, a) == OpDrf(m, a + PrevF)
NextOf(m, a) == OpDrf(m, a + NextF)
SizeOf(m, a) == m[a + SizeF]
SetSize(m, a, s) == [m EXCEPT ![a + SizeF] = s]

\* Mutant: the request is used unrounded.
AlignNone(size) == size

\* The malloc size rounding: up to a multiple of sizeof(ptrdiff_t).
Align(size) == IF size % W = 0 THEN size ELSE size - (size % W) + W

-----------------------------------------------------------------------------
(* The free list as the code walks it, from the head along next.          *)

RECURSIVE WalkFrom(_, _, _)
WalkFrom(m, a, fuel) ==
  IF a = Null \/ fuel = 0 \/ a \notin Addr THEN <<>>
  ELSE <<a>> \o WalkFrom(m, NextOf(m, a), fuel - 1)

FreeList == WalkFrom(mem, free_list_head, Fuel)

\* private_malloc's loop: the first block on the list at least need bytes long.
RECURSIVE FirstFit(_, _, _)
FirstFit(a, need, fuel) ==
  IF a = Null THEN Null
  ELSE IF fuel = 0 THEN Spin
  ELSE IF SizeOf(mem, a) < need THEN FirstFit(NextOf(mem, a), need, fuel - 1)
  ELSE a

\* Mutant: the loop skips every block that has a successor, whatever its address.
RECURSIVE FreeStopToTail(_, _, _)
FreeStopToTail(a, n, fuel) ==
  IF a = Null THEN Null
  ELSE IF fuel = 0 THEN Spin
  ELSE IF NextOf(mem, a) # Null THEN FreeStopToTail(NextOf(mem, a), n, fuel - 1)
  ELSE a

\* private_free's loop: skip blocks below n that have a successor.
RECURSIVE FreeStop(_, _, _)
FreeStop(a, n, fuel) ==
  IF a = Null THEN Null
  ELSE IF fuel = 0 THEN Spin
  ELSE IF NextOf(mem, a) # Null /\ a < n THEN FreeStop(NextOf(mem, a), n, fuel - 1)
  ELSE a

-----------------------------------------------------------------------------
\* ipt_allocator_shm_create: a zero-filled segment holding one free block
\* that spans the whole region, and an empty free-list neighbourhood.
Init ==
  /\ mem = LET z == [a \in Addr |-> 0]
               m1 == OpSet(z, 0 + PrevF, Null)
               m2 == OpSet(m1, 0 + NextF, Null)
           IN SetSize(m2, 0, SegSize)
  /\ free_list_head = 0
  /\ free_list_tail = 0
  /\ bytes_allocated = 0
  /\ num_blocks_allocated = 0
  /\ owned = {}

\* Mutant: the new block's header is left out of the cut.
CarveAtNoHeader(cur, size) == cur + SizeOf(mem, cur) - size

\* Where private_malloc puts the new block: at the top of the free block cur.
CarveAt(cur, size) == cur + SizeOf(mem, cur) - size - NodeSize

\* private_malloc with a fit found at cur: the chunk is cut from the top of
\* cur, and the "exact size" test runs on cur's size after the cut.
Carve(cur, size) ==
  LET n  == CarveAt(cur, size)
      m1 == SetSize(mem, cur, SizeOf(mem, cur) - (NodeSize + size))
      m2 == SetSize(m1, n, NodeSize + size)
      exact == SizeOf(m2, cur) = NodeSize + size
      m3 == IF exact /\ PrevOf(m2, cur) # Null
              THEN OpSet(m2, PrevOf(m2, cur) + NextF, NextOf(m2, cur)) ELSE m2
      m4 == IF exact /\ NextOf(m3, cur) # Null
              THEN OpSet(m3, NextOf(m3, cur) + PrevF, PrevOf(m3, cur)) ELSE m3
  IN /\ mem' = m4
     /\ free_list_head' = IF exact /\ free_list_head = cur
                            THEN PrevOf(m4, cur) ELSE free_list_head
     /\ free_list_tail' = IF exact /\ free_list_tail = cur
                            THEN NextOf(m4, cur) ELSE free_list_tail
     /\ bytes_allocated' = bytes_allocated + size
     /\ num_blocks_allocated' = num_blocks_allocated + 1
     /\ owned' = owned \cup {<<n, NodeSize + size>>}

Malloc(req) ==
  LET size == Align(req)
      cur  == FirstFit(free_list_head, NodeSize + size, Fuel)
  IN /\ cur # Spin                       \* else the loop never ends
     /\ IF cur = Null THEN UNCHANGED vars   \* returns NULL
        ELSE Carve(cur, size)
\* Mutant: the block's header is counted twice in the adjacency test.
AdjacentHeaderTwice(m, a, b) == a + SizeOf(m, a) + NodeSize = b

\* The coalescing test of private_free: the block at a ends where b begins.
Adjacent(m, a, b) == a + SizeOf(m, a) = b

\* private_free, "insert after the current tail" branch, with the merge of
\* n into the old tail when they touch.
FreeAfterTail(n, cur) ==
  LET m1 == OpSet(mem, n + PrevF, cur)
      m2 == OpSet(m1, n + NextF, Null)
      m3 == OpSet(m2, cur + NextF, n)
      m4 == IF Adjacent(m3, cur, n)
              THEN LET ma == SetSize(m3, cur, SizeOf(m3, cur) + SizeOf(m3, n))
                   IN OpSet(ma, cur + NextF, NextOf(ma, n))
              ELSE m3
  IN [m |-> m4, head |-> free_list_head, tail |-> n]

\* private_free, interior branch: link n in front of cur, merge it with cur
\* when they touch, then merge it into its predecessor when they touch.
FreeInterior(n, cur) ==
  LET m1 == OpSet(mem, PrevOf(mem, cur) + NextF, n)
      m2 == OpSet(m1, n + NextF, cur)
      m3 == OpSet(m2, n + PrevF, PrevOf(m2, cur))
      m4 == OpSet(m3, cur + PrevF, n)
      withNext == Adjacent(m4, n, cur)
      m5 == IF withNext
              THEN LET ma == SetSize(m4, n, SizeOf(m4, n) + SizeOf(m4, cur))
                   IN OpSet(ma, n + NextF, NextOf(ma, cur))
              ELSE m4
      c  == IF withNext THEN n ELSE cur
      p  == PrevOf(m5, n)
      m6 == IF Adjacent(m5, p, n)
              THEN IF c = n
                     THEN LET ma == SetSize(m5, p, SizeOf(m5, p) + SizeOf(m5, n))
                          IN OpSet(ma, p + NextF, NextOf(ma, n))
                     ELSE LET ma == SetSize(m5, p, SizeOf(m5, p) + SizeOf(m5, n))
                              mb == OpSet(ma, p + NextF, c)
                          IN OpSet(mb, c + PrevF, PrevOf(mb, n))
              ELSE m5
  IN [m |-> m6, head |-> free_list_head, tail |-> free_list_tail]

\* private_free, "insert before the current head" branch, with the merge of
\* n into the old head when they touch.
FreeBeforeHead(n, cur) ==
  LET m1 == OpSet(mem, n + NextF, cur)
      m2 == OpSet(m1, n + PrevF, Null)
      m3 == OpSet(m2, cur + PrevF, n)
      m4 == IF Adjacent(m3, n, cur)
              THEN LET ma == SetSize(m3, n, SizeOf(m3, n) + SizeOf(m3, cur))
                   IN OpSet(ma, n + NextF, NextOf(ma, cur))
              ELSE m3
  IN [m |-> m4, head |-> n, tail |-> free_list_tail]

\* private_free(ptr)'s relinking of the block whose header is at n: the loop
\* stops at the first block that is not below n or has no successor, one of
\* the three branches links n there, and an empty list is seeded with n.
FreeLink(n) ==
  LET cur == FreeStop(free_list_head, n, Fuel)
      r == IF cur = Null THEN [m |-> mem, head |-> free_list_head, tail |-> free_list_tail]
           ELSE IF PrevOf(mem, cur) = Null /\ n < cur THEN FreeBeforeHead(n, cur)
           ELSE IF NextOf(mem, cur) = Null /\ cur < n THEN FreeAfterTail(n, cur)
           ELSE FreeInterior(n, cur)
      m1 == OpSet(r.m, n + PrevF, Null)
      m2 == OpSet(m1, n + NextF, Null)
  IN IF cur = Spin THEN [spin |-> TRUE]
     ELSE IF r.head = Null THEN [spin |-> FALSE, m |-> m2, head |-> n, tail |-> n]
     ELSE [spin |-> FALSE] @@ r

\* Mutant: the counters use the block's size read after the relinking.
FreeSizeAfterLink(n) ==
  LET r == FreeLink(n)
  IN /\ ~r.spin
     /\ mem' = r.m /\ free_list_head' = r.head /\ free_list_tail' = r.tail
     /\ num_blocks_allocated' = num_blocks_allocated - 1
     /\ bytes_allocated' = bytes_allocated - (SizeOf(r.m, n) - NodeSize)

\* private_free: relink the block, then update the counters by the size the
\* block header held before the relinking (tmp_size).
Free(n) ==
  LET r == FreeLink(n)
  IN /\ ~r.spin
     /\ mem' = r.m
     /\ free_list_head' = r.head
     /\ free_list_tail' = r.tail
     /\ num_blocks_allocated' = num_blocks_allocated - 1
     /\ bytes_allocated' = bytes_allocated - (SizeOf(mem, n) - NodeSize)

FreeOwned ==
  \E b \in owned : /\ Free(b[1])
                   /\ owned' = owned \ {b}

Next ==
  \/ \E req \in Requests : Malloc(req)
  \/ FreeOwned

Spec == Init /\ [][Next]_vars

-----------------------------------------------------------------------------
(* Properties                                                              *)

\* The blocks on the free list, as <<header, size>> pairs.
FreeBlocks == {<<a, SizeOf(mem, a)>> : a \in ToSet(FreeList)}

Span(b) == b[1] .. (b[1] + b[2] - 1)

TypeOK ==
  /\ mem \in [Addr -> Int]
  /\ free_list_head \in Addr \cup {Null}
  /\ free_list_tail \in Addr \cup {Null}
  /\ bytes_allocated \in Nat
  /\ num_blocks_allocated \in Nat
  /\ owned \subseteq (Addr \X Nat)

\* malloc never hands out memory that is on the free list or already handed
\* out: every handed-out block and every free block lie inside the region
\* and no two of them share a byte.
NoOverlap ==
  LET bs == owned \cup FreeBlocks
  IN /\ \A b \in bs : b[1] >= 0 /\ b[1] + b[2] <= SegSize
     /\ \A b1, b2 \in bs : b1 # b2 => Span(b1) \cap Span(b2) = {}

FreeListOrdered ==
  LET fl == FreeList
  IN /\ Len(fl) < Fuel
     /\ \A i \in 1 .. Len(fl) - 1 : fl[i] < fl[i + 1]

\* free_list_tail names the last block of the free list (the sentinel when
\* the list is empty).
TailIsLast ==
  LET fl == FreeList
  IN free_list_tail = IF fl = <<>> THEN Null ELSE fl[Len(fl)]

\* After every malloc and free no two free blocks that touch stay separate.
Coalesced ==
  LET fl == FreeList
  IN \A i \in 1 .. Len(fl) - 1 : fl[i] + SizeOf(mem, fl[i]) # fl[i + 1]

\* The statistics blocks_allocated() and bytes_allocated() report agree with
\* the blocks actually handed out and not yet freed.
CountersAgree ==
  /\ num_blocks_allocated = Cardinality(owned)
  /\ bytes_allocated = MapThenSumSet(LAMBDA b : b[2] - NodeSize, owned)

\* Round trip (the spec's first testable property): once every block handed
\* out has been freed, whatever the order, both counters are back to zero and
\* the free list is again the single block spanning the region.
RoundTrip ==
  owned = {} =>
    /\ num_blocks_allocated = 0 /\ bytes_allocated = 0
    /\ FreeList = <<0>> /\ SizeOf(mem, 0) = SegSize

\* free_list_head and free_list_tail agree on whether the free list is
\* empty: one of them is the sentinel exactly when the other one is.
HeadTailAgree == (free_list_head = Null) <=> (free_list_tail = Null)
=============================================================================
