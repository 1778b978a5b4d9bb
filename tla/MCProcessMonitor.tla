-------------------------- MODULE MCProcessMonitor --------------------------
(***************************************************************************)
(* ProcessMonitor for TLC: two processes and a table of two entries (the  *)
(* code has MAX_NUMBER_PROCESS_ENTRIES = 16), so that three names can fill *)
(* it.  p1 registers a process name twice (a restart), sets its interval, *)
(* removes it and fires its timer after; p2 registers two names, which     *)
(* fills the table when p1's entry is in use, then removes one; m1, the    *)
(* monitor program of examples/process_monitor, walks the table twice     *)
(* with for_each, an entry per semaphore section.                          *)
(***************************************************************************)
EXTENDS ProcessMonitor, TLC

CONSTANTS p1, p2, m1, a, b, c

Call(k, n) == [kind |-> k, name |-> n]

MCProcs == {p1, p2, m1}
TwoSlots == 1 .. 2
MCNames == {a, b, c}
MCProgram ==
  p1 :> << Call("register", a), Call("register", a), Call("expire", a),
           Call("remove", a), Call("timeout", a) >>
  @@ p2 :> << Call("register", b), Call("register", c), Call("remove", c),
              Call("expire", c) >>
  @@ m1 :> << Call("for_each", None), Call("for_each", None) >>
NoLate == {}
LateP2 == {p2}
=============================================================================
