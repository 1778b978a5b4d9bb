------------------------------ MODULE Timespec ------------------------------
(***************************************************************************)
(* The time arithmetic of src/src/support.c, on which the reactor's timer  *)
(* table runs.  A struct timespec is a record [sec, nsec] and a            *)
(* ipt_time_value_t a record [sec, usec].  Times are counted in units of   *)
(* which NS make a second: nsec (and usec) range over 0..NS-1 units, so    *)
(* the multiplications by 1000 that turn microseconds into nanoseconds are *)
(* the identity on units.                                                  *)
(***************************************************************************)
EXTENDS Integers

CONSTANT NS

ASSUME NS \in Nat \ {0}

\* The number of units a normalised timespec stands for.
Total(t) == t.sec * NS + t.nsec

\* The normalised timespec of x units: floor division, so that a negative
\* x has a negative sec and an nsec in 0..NS-1.
TsOf(x) == [sec |-> x \div NS, nsec |-> x % NS]

\* timespec_compare: -1, 0 or 1, ordering by sec and then by nsec.
TimespecCompare(a, b) ==
  CASE a.sec < b.sec \/ (a.sec = b.sec /\ a.nsec < b.nsec) -> -1
    [] a.sec > b.sec \/ (a.sec = b.sec /\ a.nsec > b.nsec) -> 1
    [] OTHER -> 0

TimespecMax(a, b) == IF TimespecCompare(a, b) < 0 THEN b ELSE a

TimespecMin(a, b) == IF TimespecCompare(a, b) < 0 THEN a ELSE b

\* Mutant: the borrow leaves sec alone.
TimespecDiffNoBorrow(a, b) ==
  LET nsec == a.nsec - b.nsec IN
  [sec |-> a.sec - b.sec, nsec |-> IF nsec < 0 THEN NS + nsec ELSE nsec]

\* timespec_diff: field-wise subtraction, borrowing a second when the
\* nanoseconds go negative.  Its comment says it "assumes a > b".
TimespecDiff(a, b) ==
  LET sec == a.sec - b.sec
      nsec == a.nsec - b.nsec
  IN IF nsec < 0 THEN [sec |-> sec - 1, nsec |-> NS + nsec]
                 ELSE [sec |-> sec, nsec |-> nsec]

\* ipt_time_value_to_timespec: whole seconds of usec carried into sec.
TimeValueToTimespec(tv) ==
  [sec |-> tv.sec + tv.usec \div NS, nsec |-> tv.usec % NS]
=============================================================================
