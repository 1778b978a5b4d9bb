------------------------------- MODULE Notify -------------------------------
(***************************************************************************)
(* The reactor's notify channel: notify() (src/src/reactor.c) writes a     *)
(* notify_msg_t into the write end of the reactor's pipe with send_n, and  *)
(* the notify handler's handle_input, which the loop calls when the read   *)
(* end is readable, reads one with recv_n and calls the handle_input of    *)
(* the handler named in it.  send_n and recv_n (src/src/support.c) loop    *)
(* over non-blocking write() and read() calls and, when errno is EAGAIN,   *)
(* wait with handle_is_write_ready or handle_is_read_ready.                *)
(*                                                                         *)
(* A message is the handler it names.  Writes of a notify_msg_t are far   *)
(* below PIPE_BUF, so write() puts a whole message or fails with EAGAIN,   *)
(* and read() of one returns a whole message or fails with EAGAIN; Cap is  *)
(* the number of messages the pipe holds.  Every caller of notify in the   *)
(* repository runs on the reactor's own thread (main before the loop, or   *)
(* an upcall), so nothing fills or drains the pipe while send_n or recv_n *)
(* runs: each is one step, computed by a RECURSIVE operator, and its waits *)
(* see the pipe as it is.  errno is the thread's: "EAGAIN", or "other" for *)
(* any other value (it is 0 when the program starts).                      *)
(***************************************************************************)
EXTENDS Integers, Sequences

CONSTANTS Handlers,  \* application handlers named in notify messages
          Cap,       \* messages the pipe holds
          MaxCalls   \* bound on the notify calls of a behaviour

ASSUME Cap \in Nat \ {0} /\ MaxCalls \in Nat

VARIABLES pipe,       \* the messages in the pipe, oldest first
          errno,
          mode,       \* O_NONBLOCK of the read ("r") and write ("w") ends
          phase,      \* "setup": main before the loop; "loop": run_event_loop
          calls,      \* notify calls made
          sent,       \* ghost: the messages of the notify calls that returned 0
          dispatched  \* ghost: the handlers the notify handler called

vars == <<pipe, errno, mode, phase, calls, sent, dispatched>>

\* What a transfer leaves: the pipe, errno, the modes, the message read
\* into the buffer, and the return value (-1, or 1 for sizeof(msg)).
\* record_and_set_non_blocking_mode keeps the mode found in saved, and
\* restore_mode puts it back.
Io(p, e, md, end) ==
  [pipe |-> p, errno |-> e, mode |-> [md EXCEPT ![end] = "nonblock"],
   saved |-> md[end], buf |-> "none", ret |-> 0]

Restore(s, end) == [s.mode EXCEPT ![end] = s.saved]

\* handle_is_write_ready and handle_is_read_ready: pselect on the one
\* descriptor for tv; 0 when it is ready, -1 on timeout.  Nothing else
\* runs on the reactor's thread meanwhile, so the pipe they see is the
\* pipe as the caller left it.
WriteReady(p) == Len(p) < Cap
ReadReady(p) == p # <<>>

\* One pass of send_n's loop and what follows it.  write() appends the
\* message, or fails with EAGAIN on a full pipe.  Then, whatever write()
\* returned, errno = EAGAIN sends the call to handle_is_write_ready, which
\* finds room or times out; with room, n = 0 and the loop writes again.
\* Otherwise n < 0 restores the mode and returns -1, and n > 0 ends the
\* loop, restores the mode and returns the length.
RECURSIVE SendLoop(_, _)
SendLoop(s, m) ==
  LET full == Len(s.pipe) >= Cap
      w == IF full THEN [s EXCEPT !.errno = "EAGAIN"]
                   ELSE [s EXCEPT !.pipe = Append(@, m)]
  IN IF w.errno = "EAGAIN" /\ WriteReady(w.pipe)
       THEN SendLoop(w, m)
       ELSE [w EXCEPT !.mode = Restore(w, "w"), !.ret = IF full THEN -1 ELSE 1]

SendN(m) == SendLoop(Io(pipe, errno, mode, "w"), m)

\* One pass of recv_n's loop.  read() takes the oldest message into the
\* buffer, or fails with EAGAIN on an empty pipe (the write end stays open,
\* so it never returns 0).  errno = EAGAIN sends the call to
\* handle_is_read_ready; when a message is there, n = 0 and the next read
\* lands on the same buffer.  Otherwise n < 0 returns -1 without
\* restore_mode, and n > 0 ends the loop, restores and returns.
RECURSIVE RecvLoop(_)
RecvLoop(s) ==
  LET empty == s.pipe = <<>>
      r == IF empty THEN [s EXCEPT !.errno = "EAGAIN"]
                    ELSE [s EXCEPT !.pipe = Tail(@), !.buf = Head(s.pipe)]
  IN IF r.errno = "EAGAIN" /\ ReadReady(r.pipe)
       THEN RecvLoop(r)
       ELSE IF empty THEN [r EXCEPT !.ret = -1]
                     ELSE [r EXCEPT !.mode = Restore(r, "r"), !.ret = 1]


\* ipt_reactor_create: pipe() gives two blocking descriptors; the process
\* has made no failing call yet.
Init ==
  /\ pipe = <<>>
  /\ errno = "other"
  /\ mode = [e \in {"r", "w"} |-> "block"]
  /\ phase = "setup"
  /\ calls = 0
  /\ sent = <<>>
  /\ dispatched = <<>>

\* The state after notify(h): send_n's transfer; notify returns 0 when
\* send_n did not return a negative value.
AfterNotify(s, h) ==
  /\ pipe' = s.pipe
  /\ errno' = s.errno
  /\ calls' = calls + 1
  /\ sent' = IF s.ret < 0 THEN sent ELSE Append(sent, h)

\* notify, called by main before the loop (tests/reactor_notify.c).
Notify(h) ==
  /\ phase = "setup"
  /\ calls < MaxCalls
  /\ AfterNotify(SendN(h), h)
  /\ mode' = SendN(h).mode
  /\ UNCHANGED <<phase, dispatched>>

\* main enters while (!exit_flag) run_event_loop.
Begin ==
  /\ phase = "setup"
  /\ phase' = "loop"
  /\ UNCHANGED <<pipe, errno, mode, calls, sent, dispatched>>

\* One pass of run_event_loop: errno = 0 before pselect (reactor.c:453);
\* pselect finds the read end readable and dispatch_handlers calls
\* notify_handle_input: recv_n, then the upcall msg.eh_ptr->handle_input,
\* which (as in tests/reactor_notify.c) may notify its own handler again
\* from inside.  recv_n is called with a message in the pipe, so its -1
\* ("Catastrophic error", return 0) does not happen here.
NotifyHandleInput ==
  /\ phase = "loop"
  /\ pipe # <<>>
  /\ LET r == RecvLoop(Io(pipe, "other", mode, "r")) IN
     /\ dispatched' = Append(dispatched, r.buf)
     /\ \/ /\ pipe' = r.pipe /\ errno' = r.errno /\ mode' = r.mode
           /\ UNCHANGED <<calls, sent>>
        \/ /\ calls < MaxCalls
           /\ LET s == SendLoop(Io(r.pipe, r.errno, r.mode, "w"), r.buf)
              IN AfterNotify(s, r.buf) /\ mode' = s.mode
  /\ UNCHANGED phase

Next == (\E h \in Handlers : Notify(h)) \/ Begin \/ NotifyHandleInput

Spec == Init /\ [][Next]_vars

TypeOK ==
  /\ pipe \in Seq(Handlers) /\ Len(pipe) <= Cap
  /\ errno \in {"EAGAIN", "other"}
  /\ mode \in [{"r", "w"} -> {"block", "nonblock"}]
  /\ phase \in {"setup", "loop"}
  /\ calls \in 0 .. MaxCalls

\* Every notify that returned 0 put exactly one message in the pipe, and
\* the notify handler calls each message's handler once, in order: what
\* was dispatched, followed by what is still in the pipe, is what notify
\* reported sent.  send_n and recv_n test errno after a successful
\* write() or read(), so a stale EAGAIN left by an earlier failure would
\* break this; run_event_loop's errno = 0 before each pass keeps a failed
\* notify of main's setup from reaching the handler's recv_n.
PipeIsPending == dispatched \o pipe = sent
=============================================================================
