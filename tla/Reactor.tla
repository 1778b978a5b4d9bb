------------------------------ MODULE Reactor ------------------------------
(***************************************************************************)
(* The reactor of src/src/reactor.c: a single-threaded event loop over a   *)
(* table of event handlers (ehs) and a table of timers (tms), both of the  *)
(* same fixed size, and the notify pipe.  run_event_loop is split into its *)
(* pselect (Enter, then one of the Return outcomes), one step per timer    *)
(* slot of dispatch_timers and one step per READ, WRITE and SIGNAL test of *)
(* each slot of dispatch_handlers, so that the calls an upcall makes back  *)
(* into the reactor (register, remove, schedule, notify) fall between      *)
(* them as they do in the code.                                            *)
(*                                                                         *)
(* Time is Timespec's units; a timer keeps left, its expire_time minus the *)
(* current time, which Tick lowers as time passes.  Everything the code    *)
(* does with a timer depends on that difference only, and a left below 0   *)
(* behaves as -1 does, so left stops there.  Descriptors are the handlers  *)
(* themselves; whether one is ready is the environment's choice, except    *)
(* the notify pipe's read end, which is ready exactly when it holds a      *)
(* message.  calls is the list of upcalls the last step made.              *)
(***************************************************************************)
EXTENDS Integers, Sequences, FiniteSets, SequencesExt, Timespec

CONSTANTS Handlers,   \* the application's event handlers
          Notify,     \* the reactor's own notify handler
          Nil,        \* NULL
          Slots,      \* 1..MAX_NUMBER_EHS = 1..MAX_NUMBER_TMS
          Signals,    \* signal numbers an application registers
          Masks,      \* masks the application passes to register_handler
          OneShots,   \* one_shot values passed to schedule_timer, in units
          Intervals,  \* interval values passed to schedule_timer, in units
          TV,         \* the tv passed to run_event_loop, in units
          MaxPipe     \* notify messages the pipe holds before send_n waits

VARIABLES ehs, tms, chan, installed, pending,
          phase, idx, sub, sleft, rfds, wfds, wready, calls

vars == <<ehs, tms, chan, installed, pending,
          phase, idx, sub, sleft, rfds, wfds, wready, calls>>

loop == <<phase, idx, sub, sleft, rfds, wfds, wready>>

\* The notify pipe with the thread's errno and the O_NONBLOCK modes of its
\* two ends, which send_n and recv_n (Notify) read and leave behind.
N == INSTANCE Notify WITH pipe <- chan.pipe, errno <- chan.errno, mode <- chan.mode,
       phase <- "loop", calls <- 0, sent <- <<>>, dispatched <- <<>>,
       Cap <- MaxPipe, MaxCalls <- 0

Chan(s) == [pipe |-> s.pipe, errno |-> s.errno, mode |-> s.mode]

\* A memset node of either table.
FreeEh == [in_use |-> FALSE, eh |-> Nil, mask |-> {}, signum |-> 0]
FreeTm == [in_use |-> FALSE, eh |-> Nil, left |-> 0, interval |-> 0]

\* The state ipt_reactor_create leaves: everything zeroed, the notify
\* handler registered for READ in the first node, every signal blocked and
\* no sigaction installed.
Init ==
  /\ ehs = [i \in Slots |-> IF i = 1
                             THEN [in_use |-> TRUE, eh |-> Notify, mask |-> {"R"}, signum |-> 0]
                             ELSE FreeEh]
  /\ tms = [i \in Slots |-> FreeTm]
  /\ chan = [pipe |-> <<>>, errno |-> "other", mode |-> [e \in {"r", "w"} |-> "block"]]
  /\ installed = {}
  /\ pending = {}
  /\ phase = "setup" /\ idx = 1 /\ sub = "R" /\ sleft = 0
  /\ rfds = {} /\ wfds = {} /\ wready = {}
  /\ calls = <<>>

\* An upcall: kind names the function pointer called, self the handler it
\* belongs to, this the handler passed as its first argument, slot the
\* node being dispatched and sig the signal number passed to handle_signal.
Up(kind, self, this, sig) ==
  [kind |-> kind, self |-> self, this |-> this, slot |-> idx, sig |-> sig]

LastSlot == CHOOSE i \in Slots : \A j \in Slots : j <= i

FirstSlot(S) == CHOOSE i \in S : \A j \in S : i <= j

\* find_event_node_by_handler, find_event_node_by_signum and
\* get_next_available_handler: the first node that matches.
NodesOf(h) == {i \in Slots : ehs[i].in_use /\ ehs[i].eh = h}
NodesOfSignal(s) == {i \in Slots : ehs[i].in_use /\ ehs[i].signum = s}
FreeNodes == {i \in Slots : ~ehs[i].in_use}

\* The application calls the reactor from main before its loop on
\* run_event_loop, as every program of the repository does.  From inside
\* an upcall (the last step made one) the repository's handlers call
\* register_handler (acceptor_handler.c), schedule_timer (from handle_close
\* in tests/reactor_signal.c) and notify (tests/reactor_notify.c).
Setup == phase = "setup"
Callable == Setup \/ (phase \in {"timers", "handlers"} /\ calls # <<>>)

\* register_handler: an existing node of the handler gets the mask added;
\* otherwise the first free node is taken, its signum left as it was; -1
\* when the table is full.
RegisterHandler(h, m) ==
  /\ Callable
  /\ ehs' = CASE NodesOf(h) # {} ->
                   [ehs EXCEPT ![FirstSlot(NodesOf(h))].mask = @ \cup {m}]
              [] FreeNodes # {} ->
                   [ehs EXCEPT ![FirstSlot(FreeNodes)] =
                                 [@ EXCEPT !.eh = h, !.in_use = TRUE, !.mask = {m}]]
              [] OTHER -> ehs
  /\ UNCHANGED <<tms, chan, installed, pending, loop, calls>>

\* register_sig_handler: an existing node of the handler gets SIGNAL and
\* the signum, and the call returns 0 there; a signum some node already
\* has, or a full table, gives -1; otherwise a new node is filled and
\* sigaction installs signal_handler for the signal.  The sigaddset and
\* sigprocmask change nothing: create already filled and blocked the set.
RegisterSigHandler(h, s) ==
  /\ Setup
  /\ \/ /\ NodesOf(h) # {}
        /\ ehs' = [ehs EXCEPT ![FirstSlot(NodesOf(h))].mask = @ \cup {"S"},
                              ![FirstSlot(NodesOf(h))].signum = s]
        /\ UNCHANGED installed
     \/ /\ NodesOf(h) = {}
        /\ NodesOfSignal(s) = {}
        /\ FreeNodes # {}
        /\ ehs' = [ehs EXCEPT ![FirstSlot(FreeNodes)] =
                                [in_use |-> TRUE, eh |-> h, mask |-> {"S"}, signum |-> s]]
        /\ installed' = installed \cup {s}
  /\ UNCHANGED <<tms, chan, pending, loop, calls>>

\* remove_handler: the handler's node gets handle_close with its mask,
\* unless DONT_CALL is in the mask passed, and is zeroed.  The sigaction
\* that would restore the default is commented out.
RemoveHandler(h, dontCall) ==
  /\ Setup
  /\ NodesOf(h) # {}
  /\ ehs' = [ehs EXCEPT ![FirstSlot(NodesOf(h))] = FreeEh]
  /\ calls' = IF dontCall THEN calls ELSE <<Up("close", h, h, 0)>>
  /\ UNCHANGED <<tms, chan, installed, pending, loop>>

\* schedule_timer: -1 when both times are NULL; otherwise the first free
\* timer node gets the handler and expires one_shot from now, or interval
\* from now when one_shot is NULL; interval is kept for re-arming.  -1 when
\* the table is full.  active_timers, tested against MAX_NUMBER_TMS, is
\* never changed from 0.
ScheduleTimer(h, os, iv) ==
  LET free == {i \in Slots : ~tms[i].in_use} IN
  /\ Callable
  /\ os # Nil \/ iv # Nil
  /\ free # {}
  /\ tms' = [tms EXCEPT ![FirstSlot(free)] =
               [in_use |-> TRUE, eh |-> h,
                left |-> IF os # Nil THEN os ELSE iv,
                interval |-> IF iv # Nil THEN iv ELSE 0]]
  /\ UNCHANGED <<ehs, chan, installed, pending, loop, calls>>

\* remove_timer: the handler's first timer node is zeroed; -1 if none.
RemoveTimer(h) ==
  LET mine == {i \in Slots : tms[i].in_use /\ tms[i].eh = h} IN
  /\ Setup
  /\ mine # {}
  /\ tms' = [tms EXCEPT ![FirstSlot(mine)] = FreeTm]
  /\ UNCHANGED <<ehs, chan, installed, pending, loop, calls>>

\* notify: send_n of the message to the pipe, Notify's transfer; on a
\* full pipe send_n waits out its tv and the call returns -1.
NotifyCall(h) ==
  /\ Callable
  /\ chan' = Chan(N!SendLoop(N!Io(chan.pipe, chan.errno, chan.mode, "w"), h))
  /\ UNCHANGED <<ehs, tms, installed, pending, loop, calls>>

-----------------------------------------------------------------------------
(* run_event_loop                                                          *)

\* dispatch_timers' test, "timespec_diff(expire, now) < 0 or its tv_nsec
\* < 1000000": every time is a whole number of units, so a tv_nsec under a
\* millisecond is a tv_nsec of 0 units.
Due(left) ==
  LET d == TsOf(left) IN TimespecCompare(d, TsOf(0)) < 0 \/ d.nsec = 0

\* get_expire_time: the earliest expire_time of a timer in use, less now
\* and at least 0; the default {0xffffff, 0xffffff} when there is none,
\* which the loop's tv always undercuts.
ExpireIn ==
  LET inUse == {i \in Slots : tms[i].in_use}
      m == CHOOSE i \in inUse : \A j \in inUse : tms[i].left <= tms[j].left
  IN IF inUse = {} THEN TV ELSE Total(TimespecMax(TsOf(tms[m].left), TsOf(0)))

\* load_masks: the descriptors of the nodes in use with READ and WRITE.
LoadR == {ehs[i].eh : i \in {j \in Slots : ehs[j].in_use /\ "R" \in ehs[j].mask}}
LoadW == {ehs[i].eh : i \in {j \in Slots : ehs[j].in_use /\ "W" \in ehs[j].mask}}

\* main enters its loop on run_event_loop.
Begin ==
  /\ phase = "setup"
  /\ phase' = "idle"
  /\ UNCHANGED <<ehs, tms, chan, installed, pending, idx, sub, sleft, rfds, wfds, wready, calls>>

\* run_event_loop up to pselect: the fd sets are loaded and pselect waits
\* at most min(get_expire_time, tv), with the signals of this->sigset
\* unblocked; errno = 0 before it.
Enter ==
  /\ phase = "idle"
  /\ phase' = "select"
  /\ sleft' = Total(TimespecMin(TsOf(ExpireIn), TsOf(TV)))
  /\ calls' = <<>>
  /\ chan' = [chan EXCEPT !.errno = "other"]
  /\ UNCHANGED <<ehs, tms, installed, pending, idx, sub, rfds, wfds, wready>>

\* One unit of time passes, except between the clock_gettime that reads
\* current_time and the end of dispatch_timers, where the code compares
\* every timer with that one reading.
Tick ==
  /\ phase # "timers"
  /\ \/ \E i \in Slots : tms[i].in_use /\ tms[i].left > -1
     \/ phase = "select" /\ sleft > 0
  /\ tms' = [i \in Slots |-> IF tms[i].in_use
                               THEN [tms[i] EXCEPT !.left = IF @ > -1 THEN @ - 1 ELSE @]
                               ELSE tms[i]]
  /\ sleft' = IF phase = "select" /\ sleft > 0 THEN sleft - 1 ELSE sleft
  /\ UNCHANGED <<ehs, chan, installed, pending, phase, idx, sub, rfds, wfds, wready, calls>>

StartTimers ==
  /\ phase' = "timers" /\ idx' = 1 /\ sleft' = 0 /\ calls' = <<>>
  /\ UNCHANGED <<ehs, tms, installed, sub>>

\* pselect returns 0 when its time is up and nothing is ready; the notify
\* pipe holding a message would have made it return at once.
Timeout ==
  /\ phase = "select" /\ sleft = 0 /\ chan.pipe = <<>>
  /\ rfds' = {} /\ wfds' = {} /\ wready' = {}
  /\ UNCHANGED <<pending, chan>>
  /\ StartTimers

\* pselect returns the descriptors that are ready, at any time before its
\* timeout; the notify pipe is among them exactly when it holds a message.
Ready(R, W) ==
  /\ phase = "select"
  /\ R \subseteq LoadR /\ W \subseteq LoadW /\ R \cup W # {}
  /\ (Notify \in R) = (chan.pipe # <<>>)
  /\ rfds' = R /\ wfds' = W /\ wready' = W
  /\ UNCHANGED <<pending, chan>>
  /\ StartTimers

\* A caught signal interrupts pselect: signal_handler adds it to
\* __pending_sigset and pselect fails with EINTR, leaving the fd sets as
\* they were loaded.  The code then clears read_fds twice, and write_fds
\* keeps every descriptor registered for WRITE.
Interrupted(s) ==
  /\ phase = "select"
  /\ s \in installed
  /\ pending' = pending \cup {s}
  /\ rfds' = {} /\ wfds' = LoadW /\ wready' = {}
  /\ chan' = [chan EXCEPT !.errno = "other"]
  /\ StartTimers

\* pselect fails otherwise: run_event_loop returns -1 before dispatching
\* and before clearing __pending_sigset.
Failed ==
  /\ phase = "select"
  /\ phase' = "idle" /\ sleft' = 0 /\ calls' = <<>>
  /\ chan' = [chan EXCEPT !.errno = "other"]
  /\ UNCHANGED <<ehs, tms, installed, pending, idx, sub, rfds, wfds, wready>>

ReturnOk ==
  Timeout \/ (\E R \in SUBSET LoadR, W \in SUBSET LoadW : Ready(R, W))
          \/ (\E s \in Signals : Interrupted(s))

\* Mutant: the timer loop stops one node short of MAX_NUMBER_TMS.
DispatchTimerSkipsLast ==
  LET t == tms[idx] IN
  /\ phase = "timers"
  /\ IF t.in_use /\ Due(t.left) /\ idx # LastSlot
       THEN \/ /\ calls' = <<Up("timeout", t.eh, t.eh, 0)>>
               /\ tms' = [tms EXCEPT ![idx] = IF t.interval # 0
                                                THEN [t EXCEPT !.left = t.interval]
                                                ELSE FreeTm]
            \/ /\ calls' = <<Up("timeout", t.eh, t.eh, 0), Up("close", t.eh, ehs[idx].eh, 0)>>
               /\ tms' = [tms EXCEPT ![idx] = FreeTm]
       ELSE UNCHANGED <<tms, calls>>
  /\ IF idx = LastSlot THEN phase' = "handlers" /\ idx' = 1
                       ELSE idx' = idx + 1 /\ UNCHANGED phase
  /\ UNCHANGED <<ehs, chan, installed, pending, sub, sleft, rfds, wfds, wready>>

\* dispatch_timers, for the timer node idx: a node in use whose time has
\* come gets handle_timeout.  If that fails, handle_close is called through
\* the timer's handler but on ehs[idx].eh_ptr, the event node of the same
\* index, and the node is zeroed; otherwise an interval timer is re-armed
\* interval from now and a one-shot timer is zeroed.
DispatchTimer ==
  LET t == tms[idx] IN
  /\ phase = "timers"
  /\ IF t.in_use /\ Due(t.left)
       THEN \/ /\ calls' = <<Up("timeout", t.eh, t.eh, 0)>>
               /\ tms' = [tms EXCEPT ![idx] = IF t.interval # 0
                                                THEN [t EXCEPT !.left = t.interval]
                                                ELSE FreeTm]
            \/ /\ calls' = <<Up("timeout", t.eh, t.eh, 0), Up("close", t.eh, ehs[idx].eh, 0)>>
               /\ tms' = [tms EXCEPT ![idx] = FreeTm]
       ELSE UNCHANGED <<tms, calls>>
  /\ IF idx = LastSlot THEN phase' = "handlers" /\ idx' = 1
                       ELSE idx' = idx + 1 /\ UNCHANGED phase
  /\ UNCHANGED <<ehs, chan, installed, pending, sub, sleft, rfds, wfds, wready>>

\* An upcall of kind to the handler of node idx that may fail; on failure
\* handle_close follows and the node becomes closed.
UpcallOrClose(kind, sig, closed) ==
  LET h == ehs[idx].eh IN
  \/ calls' = <<Up(kind, h, h, sig)>> /\ UNCHANGED ehs
  \/ calls' = <<Up(kind, h, h, sig), Up("close", h, h, 0)>> /\ ehs' = [ehs EXCEPT ![idx] = closed]

\* Mutant: the slot loop runs one past the last node.
NextSlotPastEnd ==
  /\ sub' = "R"
  /\ IF idx = LastSlot + 1
       THEN /\ phase' = "idle" /\ idx' = 1 /\ pending' = {}
            /\ rfds' = {} /\ wfds' = {} /\ wready' = {}
       ELSE /\ idx' = idx + 1
            /\ UNCHANGED <<phase, pending, rfds, wfds, wready>>

\* Mutant: sigemptyset of the pending set inside the slot loop.
NextSlotClearsEachSlot ==
  /\ sub' = "R"
  /\ pending' = {}
  /\ IF idx = LastSlot
       THEN /\ phase' = "idle" /\ idx' = 1
            /\ rfds' = {} /\ wfds' = {} /\ wready' = {}
       ELSE /\ idx' = idx + 1
            /\ UNCHANGED <<phase, rfds, wfds, wready>>

\* The end of the slot loop of dispatch_handlers; after the last slot
\* run_event_loop clears __pending_sigset and returns.
NextSlot ==
  /\ sub' = "R"
  /\ IF idx = LastSlot
       THEN /\ phase' = "idle" /\ idx' = 1 /\ pending' = {}
            /\ rfds' = {} /\ wfds' = {} /\ wready' = {}
       ELSE /\ idx' = idx + 1
            /\ UNCHANGED <<phase, pending, rfds, wfds, wready>>

\* dispatch_handlers skips a node not in use.
SkipNode ==
  /\ phase = "handlers" /\ sub = "R"
  /\ ~ehs[idx].in_use
  /\ NextSlot
  /\ UNCHANGED <<ehs, tms, chan, installed, sleft, calls>>

\* notify_handle_input: recv_n of one message from the pipe, which is
\* readable, then handle_input of the handler it names and handle_close on
\* failure.  It returns 0 whatever happens, so the notify node stays.
NotifyHandleInput ==
  LET r == N!RecvLoop(N!Io(chan.pipe, chan.errno, chan.mode, "r"))
      h == r.buf
  IN
  /\ chan' = Chan(r)
  /\ \/ calls' = <<Up("input", h, h, 0)>>
     \/ calls' = <<Up("input", h, h, 0), Up("close", h, h, 0)>>
  /\ UNCHANGED ehs

\* dispatch_handlers' READ test for a node in use: handle_input if READ is
\* in its mask and read_fds has its descriptor; on failure handle_close and
\* in_use = 0, the rest of the node left as it was.
DispatchRead ==
  LET n == ehs[idx] IN
  /\ phase = "handlers" /\ sub = "R"
  /\ n.in_use
  /\ IF "R" \in n.mask /\ n.eh \in rfds
       THEN IF n.eh = Notify THEN NotifyHandleInput
            ELSE UpcallOrClose("input", 0, [n EXCEPT !.in_use = FALSE]) /\ UNCHANGED chan
       ELSE UNCHANGED <<ehs, chan, calls>>
  /\ sub' = "W"
  /\ UNCHANGED <<tms, installed, pending, phase, idx, sleft, rfds, wfds, wready>>

\* The WRITE test, on the same node without looking at in_use again.
DispatchWrite ==
  LET n == ehs[idx] IN
  /\ phase = "handlers" /\ sub = "W"
  /\ IF "W" \in n.mask /\ n.eh \in wfds
       THEN UpcallOrClose("output", 0, [n EXCEPT !.in_use = FALSE])
       ELSE UNCHANGED <<ehs, calls>>
  /\ sub' = "S"
  /\ UNCHANGED <<tms, chan, installed, pending, phase, idx, sleft, rfds, wfds, wready>>

\* The SIGNAL test: handle_signal if SIGNAL is in the mask and the node's
\* signum is pending; on failure handle_close and the node is zeroed.
DispatchSignal ==
  LET n == ehs[idx] IN
  /\ phase = "handlers" /\ sub = "S"
  /\ IF "S" \in n.mask /\ n.signum \in pending
       THEN UpcallOrClose("signal", n.signum, FreeEh)
       ELSE UNCHANGED <<ehs, calls>>
  /\ NextSlot
  /\ UNCHANGED <<tms, chan, installed, sleft>>

\* The application's calls into the reactor: any call from main before
\* the loop, and from an upcall the calls with the arguments the
\* repository's handlers pass (READ, a one-shot timer, a notification).
Api ==
  \/ \E h \in Handlers, m \in Masks : Setup /\ RegisterHandler(h, m)
  \/ \E h \in Handlers, s \in Signals : RegisterSigHandler(h, s)
  \/ \E h \in Handlers, d \in BOOLEAN : RemoveHandler(h, d)
  \/ \E h \in Handlers, os \in OneShots \cup {Nil}, iv \in Intervals \cup {Nil} :
       Setup /\ ScheduleTimer(h, os, iv)
  \/ \E h \in Handlers : RemoveTimer(h) \/ NotifyCall(h)
  \/ \E h \in Handlers : ~Setup /\ RegisterHandler(h, "R")
  \/ \E h \in Handlers, os \in OneShots : ~Setup /\ ScheduleTimer(h, os, Nil)

\* The steps of run_event_loop, called again and again by main.
EventLoop ==
  \/ Begin \/ Enter \/ ReturnOk \/ Failed \/ DispatchTimer
  \/ SkipNode \/ DispatchRead \/ DispatchWrite \/ DispatchSignal

Next == Api \/ EventLoop \/ Tick

\* main keeps calling run_event_loop (every program of the repository loops
\* on it), time keeps passing although the loop stops it while it
\* dispatches timers, and pselect does not fail for ever: the descriptors
\* the loop passes it stay open.
Fairness == WF_vars(EventLoop) /\ SF_vars(Tick) /\ SF_vars(ReturnOk)

Spec == Init /\ [][Next]_vars /\ Fairness

-----------------------------------------------------------------------------
Kinds == {"timeout", "close", "input", "output", "signal"}

TypeOK ==
  /\ ehs \in [Slots -> [in_use : BOOLEAN, eh : Handlers \cup {Notify, Nil},
                        mask : SUBSET {"R", "W", "S"}, signum : Signals \cup {0}]]
  /\ tms \in [Slots -> [in_use : BOOLEAN, eh : Handlers \cup {Nil},
                        left : -1..(TV + NS * 4), interval : Intervals \cup {0}]]
  /\ chan.pipe \in Seq(Handlers) /\ Len(chan.pipe) <= MaxPipe
  /\ chan.errno \in {"EAGAIN", "other"}
  /\ chan.mode \in [{"r", "w"} -> {"block", "nonblock"}]
  /\ installed \subseteq Signals /\ pending \subseteq Signals
  /\ phase \in {"setup", "idle", "select", "timers", "handlers"}
  /\ idx \in Slots /\ sub \in {"R", "W", "S"} /\ sleft \in 0..TV
  /\ rfds \cup wfds \cup wready \subseteq Handlers \cup {Notify}
  /\ \A c \in ToSet(calls) : c.kind \in Kinds /\ c.slot \in Slots

\* support.c's time arithmetic is exact where dispatch_timers uses it: for
\* every timer in use and any clock reading now, timespec_diff of its
\* expire_time and now is the normalised time left, and timespec_compare
\* of that with zero has its sign, though timespec_diff's comment asks for
\* a > b and an overdue timer breaks that; ipt_time_value_to_timespec
\* keeps the value of a time value with up to two seconds of microseconds.
\* This is what lets the model keep each timer's time left as units.
TimespecAgrees ==
  LET Now == [sec : 0..1, nsec : 0..NS-1]
      Sign(x) == IF x < 0 THEN -1 ELSE IF x > 0 THEN 1 ELSE 0
  IN /\ \A i \in Slots, now \in Now :
          tms[i].in_use =>
            LET d == TimespecDiff(TsOf(Total(now) + tms[i].left), now) IN
            /\ d = TsOf(tms[i].left)
            /\ TimespecCompare(d, TsOf(0)) = Sign(tms[i].left)
     /\ \A tv \in [sec : 0..1, usec : 0..2*NS-1] :
          TimeValueToTimespec(tv) = TsOf(tv.sec * NS + tv.usec)

\* Every timer in use gets its handle_timeout, unless it is removed first:
\* get_expire_time bounds pselect's wait by the earliest timer, and the
\* pass that follows dispatches every timer whose time has come.
TimerFires ==
  \A i \in Slots :
    tms[i].in_use ~> ~tms[i].in_use
                     \/ \E c \in ToSet(calls) : c.kind = "timeout" /\ c.slot = i

\* The nodes registered for SIGNAL with signal s.
SigNodes(s) == {i \in Slots : ehs[i].in_use /\ "S" \in ehs[i].mask /\ ehs[i].signum = s}

\* A caught signal reaches handle_signal of the node registered for it,
\* unless that node is gone first: signal_handler records it in
\* __pending_sigset, and the pass that pselect's EINTR starts dispatches
\* it before sigemptyset clears the set, or a failed pselect leaves it for
\* the next pass.
SignalsHandled ==
  \A s \in Signals :
    (s \in pending /\ SigNodes(s) # {}) ~>
      \/ SigNodes(s) = {}
      \/ \E c \in ToSet(calls) : c.kind = "signal" /\ c.sig = s

\* A step that makes new upcalls.
Upcalls == calls' # calls /\ calls' # <<>>

\* A timer is not dispatched before its expire_time, less the millisecond
\* of skew dispatch_timers allows: every handle_timeout is made with less
\* than a millisecond (no whole unit) left.
TimerNotEarly ==
  [][Upcalls => \A c \in ToSet(calls') : c.kind = "timeout" => tms[c.slot].left <= 0]_vars

\* handle_output is only called for a descriptor pselect reported writable
\* in this pass.
OutputOnlyWhenReady ==
  \A c \in ToSet(calls) : c.kind = "output" => c.self \in wready

\* Every upcall passes the handler it belongs to as its this argument.
SelfArgument == \A c \in ToSet(calls) : c.this = c.self

\* No handle_output or handle_signal follows the handle_close that closed a
\* node in the same pass: they are made only on nodes in use.
NoUpcallAfterClose ==
  [][Upcalls => \A c \in ToSet(calls') :
                  c.kind \in {"output", "signal"} => ehs[c.slot].in_use]_vars

\* register_sig_handler's comment "only allow a single handler per signum":
\* at most one node in use is registered for SIGNAL with each signal.
OneHandlerPerSignal == \A s \in Signals : Cardinality(SigNodes(s)) <= 1

\* Every signal a node is registered for has signal_handler installed by
\* sigaction; otherwise its default action applies when pselect unblocks it.
SignalsInstalled == \A s \in Signals : SigNodes(s) # {} => s \in installed
=============================================================================
