---------------------------- MODULE W32Process ----------------------------
(***************************************************************************)
(* A process of the Windows build on top of win32compat: it copies bytes   *)
(* from a socket or pipe to a pipe while children of it come and go and    *)
(* signals arrive.  Reads and writes are overlapped operations of the      *)
(* system; their completion routines, and the routines that note a signal, *)
(* are APCs, which only run when the thread waits alertably: in            *)
(* wait_for_any_event, under every blocking call, and in SleepEx(0).       *)
(* A child's exit is noticed by the same wait.                             *)
(*                                                                         *)
(* What the program does is either the loop of sshd-session (poll,         *)
(* nonblocking reads and writes, children collected after SIGCHLD) or a    *)
(* chain of blocking atomicio calls.  Bytes are numbered, so that the copy *)
(* can be compared with the original.                                      *)
(***************************************************************************)
EXTENDS W32Children

CONSTANTS
    ReadBuffer,     \* READ_BUFFER_SIZE, INTERNAL_RECV_BUFFER_SIZE
    WriteBuffer,    \* WRITE_BUFFER_SIZE
    AppBuffer,      \* how much the program buffers, and reads at once
    PipeSize,       \* what the output pipe holds
    Setups          \* the situations to consider

\* Every buffer has room for something.
ASSUME SizeAssumption == {ReadBuffer, WriteBuffer, AppBuffer} \subseteq Nat \ {0}

VARIABLES
    setup,      \* the situation: what may happen in this behaviour
    table,      \* children
    exited,     \* the child processes that have exited
    sig,        \* pending_signals, queued APCs, and what the handlers noted
    rd,         \* the w32_io read from, and the operation under way on it
    wr,         \* the w32_io written to, likewise
    app,        \* the program: where it is and what it has buffered
    source,     \* the other end of what is read
    sink        \* the other end of the pipe written to

vars == <<setup, table, exited, sig, rd, wr, app, source, sink>>

Quiet == {"ALRM", "WINCH"}      \* the signals that do not make calls fail

Reading == [pending |-> FALSE, ready |-> <<>>, error |-> "none",
            op |-> "idle", got |-> <<>>, err |-> "none"]
Writing == [pending |-> FALSE, buf |-> <<>>, error |-> "none",
            op |-> "idle", err |-> "none", handle |-> "open"]

Init ==
    /\ setup \in Setups
    /\ table = NoChildren
    /\ exited = {}
    /\ sig = [pending |-> {}, apcs |-> {}, raised |-> {}, handled |-> {},
              term |-> FALSE, reaping |-> FALSE]
    /\ rd = Reading
    /\ wr = Writing
    /\ app = [pc |-> "loop", buf |-> <<>>, ended |-> FALSE, ready |-> {},
              copied |-> 0, spawned |-> 0, open |-> TRUE]
    /\ source = [sent |-> 0, avail |-> <<>>, end |-> "none"]
    /\ sink = [pipe |-> <<>>, drained |-> <<>>, gone |-> FALSE]

----------------------------------------------------------------------------
(* The system: the other ends, completions, children, signals.             *)

Send ==
    /\ source.end = "none" /\ source.sent < setup.bytes
    /\ source' = [source EXCEPT !.sent = @ + 1, !.avail = Append(@, source.sent + 1)]
    /\ UNCHANGED <<setup, table, exited, sig, rd, wr, app, sink>>

SourceEnds ==
    /\ source.end = "none"
    /\ \E how \in IF setup.socket THEN {"eof", "reset"} ELSE {"eof"} :
        source' = [source EXCEPT !.end = how]
    /\ UNCHANGED <<setup, table, exited, sig, rd, wr, app, sink>>

\* A read operation completes with what there is, or with the end.
Completable == source.avail # <<>> \/ source.end # "none"
Given == SubSeq(source.avail, 1, IF Len(source.avail) < ReadBuffer
                                 THEN Len(source.avail) ELSE ReadBuffer)
CompletedRead(r) ==
    [r EXCEPT !.op = "done", !.got = Given,
              !.err = IF Given = <<>> THEN source.end ELSE "none"]
ReadCompletes ==
    /\ rd.op = "issued" /\ Completable
    /\ rd' = CompletedRead(rd)
    /\ source' = [source EXCEPT !.avail = SubSeq(@, Len(Given) + 1, Len(@))]
    /\ UNCHANGED <<setup, table, exited, sig, wr, app, sink>>

\* A write operation completes once the pipe holds all of it, or fails once
\* nobody reads the pipe any more.  The bytes are taken from the buffer now.
Room(w) == Len(sink.pipe) + Len(w.buf) <= PipeSize
CompletedWrite(w) ==
    [w EXCEPT !.op = "done", !.err = IF sink.gone THEN "broken" ELSE "none"]
Filled(w) == IF sink.gone THEN sink ELSE [sink EXCEPT !.pipe = @ \o w.buf]
WriteCompletes ==
    /\ wr.op = "issued" /\ (sink.gone \/ Room(wr))
    /\ wr' = CompletedWrite(wr)
    /\ sink' = Filled(wr)
    /\ UNCHANGED <<setup, table, exited, sig, rd, app, source>>

Drain ==
    /\ ~sink.gone /\ sink.pipe # <<>>
    /\ sink' = [sink EXCEPT !.pipe = Tail(@), !.drained = Append(@, Head(sink.pipe))]
    /\ UNCHANGED <<setup, table, exited, sig, rd, wr, app, source>>

SinkGone ==
    /\ setup.fragile /\ ~sink.gone
    /\ sink' = [sink EXCEPT !.gone = TRUE]
    /\ UNCHANGED <<setup, table, exited, sig, rd, wr, app, source>>

ChildExit ==
    /\ \E i \in DOMAIN table.kids :
        /\ table.kids[i].pid \notin exited
        /\ exited' = exited \cup {table.kids[i].pid}
    /\ UNCHANGED <<setup, table, sig, rd, wr, app, source, sink>>

\* native_sig_handler and the timer queue an APC to the main thread.
Signal ==
    /\ \E s \in setup.signals \ sig.raised :
        sig' = [sig EXCEPT !.apcs = @ \cup {s}, !.raised = @ \cup {s}]
    /\ UNCHANGED <<setup, table, exited, rd, wr, app, source, sink>>

----------------------------------------------------------------------------
(* Alertable waits.                                                        *)

\* ReadCompletionRoutine, WSARecvCompletionRoutine and WriteCompletionRoutine.
ReadCompletion(r) ==
    IF r.op = "done"
    THEN [r EXCEPT !.op = "idle", !.pending = FALSE, !.ready = r.got,
                   !.error = r.err, !.got = <<>>, !.err = "none"]
    ELSE r
WriteCompletion(w) ==
    IF w.op = "done"
    THEN [w EXCEPT !.op = "idle", !.pending = FALSE, !.error = w.err,
                   !.err = "none", !.buf = <<>>]
    ELSE w

Alerted == rd.op = "done" \/ wr.op = "done" \/ sig.apcs # {}

\* SleepEx(0, TRUE): whatever is queued runs; a signal is only noted.
\* Here r is the read operation; the write's follows where it is called.
SleepEx(r) ==
    /\ rd' = ReadCompletion(r)
    /\ sig' = [sig EXCEPT !.pending = @ \cup sig.apcs, !.apcs = {}]

\* sw_process_pending_signals, with t the children, s pending and q still
\* queued; r is what it returns.  The handler of SIGCHLD sets a flag; where
\* SIGCHLD is ignored, sw_cleanup_child_zombies runs before anything else.
sw_process_pending_signals(t, s, q, r) ==
    LET child == "CHLD" \in s
        ignored == IF setup.ignore THEN Quiet \cup {"CHLD"} ELSE Quiet
    IN  /\ table' = t
        /\ sig' = [sig EXCEPT !.pending = {}, !.apcs = q,
                              !.handled = @ \cup (s \ {"CHLD"}),
                              !.term = @ \/ (child /\ ~setup.ignore),
                              !.reaping = child /\ setup.ignore]
        /\ r = IF s \subseteq ignored THEN 0 ELSE -1

\* Mutant: the exit is noted without a signal.
SilentChild(r) ==
    LET S == Signalled(table, exited)
    IN  /\ S # {} /\ r = 0
        /\ table' = sw_child_to_zombie(table, First(S))
        /\ UNCHANGED <<sig, rd, wr>>

\* The order of a child's exit and the queued APCs is up to the system.
NotesChild(r) ==
    LET S == Signalled(table, exited)
    IN  /\ S # {}
        /\ sw_process_pending_signals(sw_child_to_zombie(table, First(S)),
                                      sig.pending \cup {"CHLD"}, sig.apcs, r)
        /\ UNCHANGED <<rd, wr>>
RunsAPCs(r) ==
    /\ Alerted
    /\ rd' = ReadCompletion(rd)
    /\ wr' = WriteCompletion(wr)
    /\ sw_process_pending_signals(table, sig.pending \cup sig.apcs, {}, r)
TimesOut(r) ==
    /\ ~Alerted /\ Signalled(table, exited) = {}
    /\ r = 0
    /\ UNCHANGED <<table, sig, rd, wr>>

\* With a zero timeout (poll) it returns at once, and pending signals that no
\* APC comes with stay pending.
wait_for_any_event(poll, r) ==
    \/ NotesChild(r)
    \/ RunsAPCs(r)
    \/ poll /\ TimesOut(r)

----------------------------------------------------------------------------
(* Reading.                                                                *)

Available(r) == r.ready # <<>> \/ r.error # "none"
IssuedRead(r) == [r EXCEPT !.pending = TRUE, !.op = "issued"]

\* A read from a pipe nobody will write to any more fails at once.
AtEnd == ~setup.socket /\ source.avail = <<>> /\ source.end # "none"

\* Mutant: a read is started although what the last one got is not used up.
HastyOnSelect(r) ==
    IF r.pending THEN r
    ELSE IF AtEnd THEN [r EXCEPT !.error = source.end] ELSE IssuedRead(r)

\* fileio_on_select and socketio_on_select start a read if one is needed.
on_select(r) ==
    IF r.pending \/ Available(r) THEN r
    ELSE IF AtEnd THEN [r EXCEPT !.error = source.end] ELSE IssuedRead(r)

Left(x) == app.ready \ {x}
After(x) == IF setup.blocking \/ Left(x) = {} THEN "loop" ELSE "io"

\* The last part of fileio_read and socketio_recv: data or an end there is.
Take ==
    LET k == AppBuffer - Len(app.buf)
        n == IF Len(rd.ready) < k THEN Len(rd.ready) ELSE k
    IN  IF rd.error # "none"
        THEN /\ rd' = [rd EXCEPT !.error = IF setup.socket /\ @ = "eof" THEN @ ELSE "none"]
             /\ app' = [app EXCEPT !.ended = TRUE, !.ready = Left("r"), !.pc = After("r")]
        ELSE /\ rd' = [rd EXCEPT !.ready = SubSeq(@, n + 1, Len(@))]
             /\ app' = [app EXCEPT !.buf = @ \o SubSeq(rd.ready, 1, n),
                                   !.ready = Left("r"), !.pc = After("r")]

AtRead ==
    \/ app.pc = "io" /\ "r" \in app.ready
    \/ setup.blocking /\ app.pc = "loop" /\ ~app.ended /\ app.buf = <<>>

Read ==
    /\ AtRead /\ Available(rd)
    /\ Take
    /\ UNCHANGED <<setup, table, exited, sig, wr, source, sink>>

\* A blocking read that finds the operation of an earlier one under way.
ReadPending ==
    /\ AtRead /\ rd.pending
    /\ app' = [app EXCEPT !.pc = "late"]
    /\ UNCHANGED <<setup, table, exited, sig, rd, wr, source, sink>>

ReadFails ==
    /\ AtRead /\ ~Available(rd) /\ ~rd.pending /\ AtEnd
    /\ app' = [app EXCEPT !.ended = TRUE, !.pc = After("r")]
    /\ UNCHANGED <<setup, table, exited, sig, rd, wr, source, sink>>

\* The operation may complete at once, and then its APC runs here.  A socket
\* that does not lets no APC run.
ReadStarts ==
    /\ AtRead /\ ~Available(rd) /\ ~rd.pending
    /\ app' = [app EXCEPT !.pc = "rwait"]
    /\ \/ /\ Completable
          /\ SleepEx(CompletedRead(IssuedRead(rd))) /\ wr' = WriteCompletion(wr)
          /\ source' = [source EXCEPT !.avail = SubSeq(@, Len(Given) + 1, Len(@))]
       \/ /\ IF setup.socket THEN rd' = IssuedRead(rd) /\ UNCHANGED <<wr, sig>>
             ELSE SleepEx(IssuedRead(rd)) /\ wr' = WriteCompletion(wr)
          /\ UNCHANGED source
    /\ UNCHANGED <<setup, table, exited, sink>>

ReadWaits ==
    /\ app.pc \in {"rwait", "late"} /\ ~Available(rd)
    /\ \E r \in {0, -1} :
        /\ wait_for_any_event(FALSE, r)
        /\ app' = [app EXCEPT !.pc = IF r = 0 THEN @ ELSE "loop"]
    /\ UNCHANGED <<setup, exited, source, sink>>

\* fileio_read that found an operation under way fails with EAGAIN even now,
\* and atomicio polls.
ReadWaited ==
    /\ app.pc \in {"rwait", "late"} /\ Available(rd)
    /\ IF app.pc = "late" /\ ~setup.socket
       THEN app' = [app EXCEPT !.pc = "poll"] /\ UNCHANGED rd
       ELSE Take
    /\ UNCHANGED <<setup, table, exited, sig, wr, source, sink>>

----------------------------------------------------------------------------
(* Writing.                                                                *)

Chunk == SubSeq(app.buf, app.copied + 1,
                IF app.copied + WriteBuffer < Len(app.buf)
                THEN app.copied + WriteBuffer ELSE Len(app.buf))

AtWrite ==
    \/ app.pc = "io" /\ "r" \notin app.ready /\ "w" \in app.ready
    \/ setup.blocking /\ app.pc = "loop" /\ app.buf # <<>>
    \/ app.pc = "chunk"

\* fileio_write_wrapper returns: what earlier chunks took, or the failure.
\* The program tries again, or gives the pipe up.
Written(a, n, failure) ==
    IF n = 0 /\ failure = "broken"
    THEN [a EXCEPT !.buf = <<>>, !.ended = TRUE, !.copied = 0, !.ready = Left("w"), !.pc = After("w")]
    ELSE [a EXCEPT !.buf = SubSeq(@, n + 1, Len(@)), !.copied = 0,
                   !.ready = Left("w"), !.pc = After("w")]
Failed(failure) == Written(app, app.copied, failure)
ChunkTaken(n) ==
    IF app.copied + n = Len(app.buf) THEN Written(app, app.copied + n, "none")
    ELSE [app EXCEPT !.copied = @ + n, !.pc = "chunk"]

IssuedWrite(w) == [w EXCEPT !.buf = Chunk, !.pending = TRUE, !.op = "issued"]

\* The end of fileio_write: what the completion routine reports, if it ran.
Accepted(w, n) ==
    /\ wr' = IF w.pending THEN w ELSE [w EXCEPT !.error = "none"]
    /\ app' = IF ~w.pending /\ w.error # "none" THEN Failed("broken") ELSE ChunkTaken(n)

\* Mutant: a write under way does not keep the next one from its buffer.
NeverPending(w) == FALSE

WriteBusy(w) == w.pending

WritePending ==
    /\ AtWrite /\ WriteBusy(wr)
    /\ app' = IF setup.blocking THEN [app EXCEPT !.pc = "wlate"] ELSE Failed("again")
    /\ UNCHANGED <<setup, table, exited, sig, rd, wr, source, sink>>

WriteFails ==
    /\ AtWrite /\ ~WriteBusy(wr)
    /\ wr.error # "none" \/ sink.gone
    /\ wr' = [wr EXCEPT !.error = "none"]
    /\ app' = Failed("broken")
    /\ UNCHANGED <<setup, table, exited, sig, rd, source, sink>>

Write ==
    /\ AtWrite /\ ~WriteBusy(wr) /\ wr.error = "none"
    /\ LET w == IssuedWrite(wr)
           now == WriteCompletion(CompletedWrite(w))
       IN  \/ /\ setup.blocking
              /\ wr' = w
              /\ app' = [app EXCEPT !.pc = "wwait"]
              /\ UNCHANGED <<sig, rd, sink>>
           \/ /\ ~setup.blocking /\ (sink.gone \/ Room(w))
              /\ SleepEx(rd)
              /\ Accepted(now, Len(Chunk))
              /\ sink' = Filled(w)
           \/ /\ ~setup.blocking
              /\ SleepEx(rd)
              /\ Accepted(w, Len(Chunk))
              /\ UNCHANGED sink
    /\ UNCHANGED <<setup, table, exited, source>>

\* A blocking write that waits: for an earlier operation, or for its own.
\* Only a completed write makes it forget that it was interrupted.
WriteWaits ==
    /\ app.pc \in {"wlate", "wwait"} /\ wr.pending
    /\ \E r \in {0, -1} :
        /\ wait_for_any_event(FALSE, r)
        /\ app' = IF r = -1 /\ (app.pc = "wlate" \/ wr'.pending) THEN Failed("eintr") ELSE app
    /\ UNCHANGED <<setup, exited, source, sink>>

WriteWaited ==
    /\ app.pc \in {"wlate", "wwait"} /\ ~wr.pending
    /\ IF app.pc = "wlate"
       THEN app' = [app EXCEPT !.pc = "chunk"] /\ UNCHANGED <<rd, wr, sig>>
       ELSE SleepEx(rd) /\ Accepted(wr, Len(Chunk))
    /\ UNCHANGED <<setup, table, exited, source, sink>>

----------------------------------------------------------------------------
(* Closing the pipe.                                                       *)

Closing == app.open /\ app.ended /\ app.buf = <<>>

Close ==
    /\ app.pc = "loop" /\ Closing
    /\ app' = [app EXCEPT !.pc = "close"]
    /\ UNCHANGED <<setup, table, exited, sig, rd, wr, source, sink>>

Closed == [app EXCEPT !.pc = "loop", !.open = FALSE]

\* fileio_close waits for the write under way; if the wait fails it returns
\* without closing the handle, and w32_close forgets the descriptor.
CloseWaits ==
    /\ app.pc = "close" /\ wr.pending
    /\ \E r \in {0, -1} :
        /\ wait_for_any_event(FALSE, r)
        /\ app' = IF r = -1 THEN Closed ELSE app
    /\ UNCHANGED <<setup, exited, source, sink>>

CloseHandle ==
    /\ app.pc = "close" /\ ~wr.pending
    /\ SleepEx(rd)
    /\ wr' = [wr EXCEPT !.handle = "closed"]
    /\ app' = Closed
    /\ UNCHANGED <<setup, table, exited, source, sink>>

----------------------------------------------------------------------------
(* The loop: children are collected, then poll waits for something to do.  *)

WantRead == ~app.ended /\ Len(app.buf) < AppBuffer
WantWrite == app.open /\ app.buf # <<>>
Interest == (IF WantRead THEN {"r"} ELSE {}) \cup
            (IF WantWrite /\ ~setup.blocking THEN {"w"} ELSE {})

\* collect_children.
Collect ==
    /\ ~setup.blocking /\ app.pc = "loop" /\ sig.term
    /\ sig' = [sig EXCEPT !.term = FALSE, !.reaping = TRUE]
    /\ UNCHANGED <<setup, table, exited, rd, wr, app, source, sink>>

\* The loop of waitpid(-1, ..., WNOHANG) in collect_children and in
\* sw_cleanup_child_zombies, which ends when there is nobody to reap.
Reap ==
    /\ sig.reaping
    /\ table' = ReapOne(table, exited)
    /\ sig' = [sig EXCEPT !.reaping = table' # table]
    /\ UNCHANGED <<setup, exited, rd, wr, app, source, sink>>

Turn ==
    /\ ~setup.blocking /\ app.pc = "loop" /\ ~Closing /\ ~sig.term
    /\ rd' = IF WantRead THEN on_select(rd) ELSE rd
    /\ app' = [app EXCEPT !.pc = "poll"]
    /\ UNCHANGED <<setup, table, exited, sig, wr, source, sink>>

\* w32_select after its first loop: it polls once, then waits until something
\* is ready.  A signal makes it fail and the program start over.
IsReady == {x \in Interest : IF x = "r" THEN Available(rd') ELSE ~wr'.pending}
Select ==
    /\ app.pc \in {"poll", "select"}
    /\ \E r \in {0, -1} :
        /\ wait_for_any_event(app.pc = "poll", r)
        /\ app' = IF r = -1 THEN [app EXCEPT !.pc = "loop"]
                  ELSE IF IsReady = {} THEN [app EXCEPT !.pc = "select"]
                  ELSE [app EXCEPT !.pc = "io", !.ready = IsReady]
    /\ UNCHANGED <<setup, exited, source, sink>>

\* spawn_child_internal, and the profile registered by the caller.  A child
\* that does not fit the table is terminated.
Spawn ==
    /\ app.pc = "loop" /\ app.spawned < setup.pids
    /\ LET pid == app.spawned + 1
       IN  /\ IF Len(table.kids) = MaxChildren THEN UNCHANGED table
              ELSE \E t \in {register_child(table, pid)} :
                    table' \in {t, register_child_profile(t, pid)}
           /\ app' = [app EXCEPT !.spawned = pid]
    /\ UNCHANGED <<setup, exited, sig, rd, wr, source, sink>>

\* waitpid for one child, which the program has started for a command.  It
\* is not alertable and returns when the child has exited.
WaitPid ==
    /\ app.pc = "loop"
    /\ \E i \in DOMAIN table.kids :
        /\ table.kids[i].pid \in exited
        /\ table' = ReapPid(table, table.kids[i].pid)
    /\ UNCHANGED <<setup, exited, sig, rd, wr, app, source, sink>>

----------------------------------------------------------------------------
System == \/ Send \/ SourceEnds \/ ReadCompletes \/ WriteCompletes
          \/ Drain \/ SinkGone \/ ChildExit \/ Signal

Calls ==
    \/ Collect \/ Turn \/ Select \/ Close \/ CloseWaits \/ CloseHandle
    \/ Read \/ ReadPending \/ ReadFails \/ ReadStarts \/ ReadWaits \/ ReadWaited
    \/ Write \/ WritePending \/ WriteFails \/ WriteWaits \/ WriteWaited

Program == Reap \/ (~sig.reaping /\ Calls)

Next == System \/ Program \/ (~sig.reaping /\ (Spawn \/ WaitPid))

Spec == Init /\ [][Next]_vars

\* The program takes its steps, the system completes operations, and the two
\* ends go on: the source ends some day, the sink reads what there is.
\* Nothing makes a child exit or a signal arrive.
FairSpec ==
    /\ Spec
    /\ WF_vars(Program)
    /\ WF_vars(ReadCompletes) /\ WF_vars(WriteCompletes)
    /\ WF_vars(SourceEnds) /\ WF_vars(Drain)

----------------------------------------------------------------------------
Numbered(n) == [i \in 1 .. n |-> i]
Delivered == sink.drained \o sink.pipe

\* What comes out of the pipe is what went in, in order, without loss or
\* repetition, whatever is interrupted; and once the sink sees the pipe
\* closed after an orderly end, it has all of it (the buffers and pending
\* flags of fileio_read, socketio_recv, fileio_write and fileio_close).
CopyFaithful ==
    /\ Delivered = Numbered(Len(Delivered))
    /\ (wr.handle = "closed" /\ source.end = "eof" /\ ~sink.gone)
            => Len(Delivered) = source.sent

\* The table of children stays what its comment says, across insertions,
\* removals from the middle and children found dead: every child that was
\* registered is in it or was reaped, never both, the zombies have exited,
\* and only children that have exited are reported as such
\* (register_child, sw_remove_child_at_index, sw_child_to_zombie).
ChildrenTracked ==
    LET pids == [i \in DOMAIN table.kids |-> table.kids[i].pid]
    IN  /\ IsInjective(pids)
        /\ Range(pids) \cap table.reaped = {}
        /\ \A i \in Live(table) + 1 .. Len(pids) : pids[i] \in exited
        /\ table.reaped \subseteq exited
        /\ table.registered = Range(pids) \cup table.reaped

\* A user's profile is unloaded when, and not before, the child it was
\* loaded for is gone, and until then it stays in the entry of that child,
\* however the entries of the table moved (register_child_profile,
\* sw_child_to_zombie, sw_remove_child_at_index).
ProfilesFollow ==
    /\ table.unloaded = table.loaded \cap table.reaped
    /\ \A i \in DOMAIN table.kids :
          table.kids[i].profile = IF table.kids[i].pid \in table.loaded
                                  THEN table.kids[i].pid ELSE NoProfile

\* No wakeup of the copying is lost: if the source ends in an orderly way,
\* the sink gets everything.
CopyCompletes ==
    <>(\/ source.end = "reset" \/ sink.gone
       \/ source.end = "eof" /\ Len(sink.drained) = source.sent)

\* Every child that exits is reaped by the loop, whether it handles or
\* ignores SIGCHLD.
ChildrenReaped ==
    \A pid \in 1 .. MaxChildren + 1 : pid \in exited ~> pid \in table.reaped

\* The wait under all blocking calls wakes up on any signal, so a signal
\* that arrives is handled some day (wait_for_any_event).
SignalsHandled ==
    \A s \in {"INT", "ALRM"} : s \in sig.raised ~> s \in sig.handled
=====
