----------------------------- MODULE MCRegistry -----------------------------
(* Programs of registry calls for the processes of Registry.  Processes,  *)
(* names and blocks are model values.                                      *)
EXTENDS Registry

CONSTANTS p1, p2, a, b, c, b1, b2, b3, b4, b5, b6

Reg(n) == Call("register", n)
Dereg(n) == Call("deregister", n)

\* Two processes each register their own name twice, with blocks enough for
\* three entries: only the lookup stops a second entry of a name.
ConcurrentProcs == {p1, p2}
ConcurrentProgram == [p \in ConcurrentProcs |-> IF p = p1 THEN <<Reg(a), Reg(a)>> ELSE <<Reg(b), Reg(b)>>]
FourBlocks == {b1, b2, b3, b4}
SixBlocks == {b1, b2, b3, b4, b5, b6}

\* Each process registers its own name and deregisters it, and p1 then
\* registers again, with blocks for two entries at once: a deregister can
\* remove the first, the last or the only entry, and a block freed by one
\* process can be malloced by the other.
DeregProgram == [p \in ConcurrentProcs |-> IF p = p1 THEN <<Reg(a), Dereg(a), Reg(a)>> ELSE <<Reg(b), Dereg(b)>>]
SoloProcs == {p1}
TwoBlocks == {b1, b2}
ThreeBlocks == {b1, b2, b3}

\* Both processes register the same name.
SameNameProgram == [p \in ConcurrentProcs |-> <<Reg(a)>>]
\* Deregister the first of two entries, then register again.
HeadProgram == [p \in SoloProcs |-> <<Reg(a), Reg(b), Dereg(a), Reg(c)>>]
\* Two registrations with blocks for one and a half.
FailProgram == [p \in SoloProcs |-> <<Reg(a), Reg(b)>>]
\* A deregister of a name nobody registered, beside a register.
MissingProgram == [p \in ConcurrentProcs |-> IF p = p1 THEN <<Dereg(a)>> ELSE <<Reg(a)>>]
\* A deregister racing a register that reuses the freed entry.
ReuseProgram == [p \in ConcurrentProcs |-> IF p = p1 THEN <<Reg(a), Dereg(a)>> ELSE <<Reg(b)>>]
=============================================================================
