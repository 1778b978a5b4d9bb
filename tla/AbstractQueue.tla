---------------------------- MODULE AbstractQueue ----------------------------
(***************************************************************************)
(* What a shared queue promises its callers (spec section 4.4): items come *)
(* out in the order they went in, each once.  q is the queue's contents,   *)
(* out the items dequeued so far, in order.                                *)
(***************************************************************************)
EXTENDS Sequences

CONSTANT Items

VARIABLES q, out

Init == q = <<>> /\ out = <<>>

\* enqueue: the item goes to the back.
Put(x) == q' = Append(q, x) /\ UNCHANGED out

\* dequeue: the front item is handed to the caller.
Get == q # <<>> /\ q' = Tail(q) /\ out' = Append(out, Head(q))

Next == (\E x \in Items : Put(x)) \/ Get

Spec == Init /\ [][Next]_<<q, out>>
=============================================================================
