------------------------------ MODULE MCReactor ------------------------------
(* Constants of Reactor for TLC.  Handlers and signals are model values;   *)
(* a second is NS = 2 units of half a second.                              *)
EXTENDS Reactor

CONSTANTS h1, h2, sigterm

\* One application handler in the one node beside the notify handler, and
\* two timer nodes.
MCHandlers == {h1}
MCSlots == 1..2
MCSignals == {sigterm}
\* Two handlers and two free nodes, for two handlers of one signal.
TwoHandlers == {h1, h2}
ThreeSlots == 1..3
\* The masks the repository's handlers register with, and WRITE.
MCMasks == {"R", "W"}
\* A one-shot of half a second and an interval of one second, as the
\* examples schedule whole-second intervals; the loop's tv is one second.
MCOneShots == {1}
MCIntervals == {2}
=============================================================================
