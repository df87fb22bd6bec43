------------------------------ MODULE Session ------------------------------
(***************************************************************************)
(* One ptybridge session: the engine loop of engine.rs, the three threads   *)
(* that feed it (the PTY reader of pty.rs, the output forwarder and the     *)
(* control reader of engine.rs), the two bounded channels between them, the *)
(* PTY with the child behind it, and the host at the other end of stdio.    *)
(*                                                                          *)
(*   child -> kout -> rdHand -> ptyQ -> fwHand -> chan -> engine            *)
(*                                    engine -> stdout -> view (host)       *)
(*                     (host) sent -> ctlHand -> chan                       *)
(*                                    engine -> typed -> child              *)
(*                                                                          *)
(* A chunk is what one read of the PTY returns; chunks are numbered from 1  *)
(* in the order the child wrote them.  A thread's "hand" is the value it    *)
(* has taken from its source and not yet passed on: a sequence of length 0  *)
(* or 1.  The host applies what it reads in the order it was written, so a  *)
(* message on stdout is represented by all the host holds once it has read  *)
(* it.                                                                      *)
(***************************************************************************)
EXTENDS Naturals, Sequences

CONSTANTS
    ChannelCapacity,  \* CHANNEL_CAPACITY of engine.rs
    OutputCapacity,   \* OUTPUT_CAPACITY of pty.rs
    TtyOut,           \* chunks the kernel buffers from the child to the bridge
    TtyIn,            \* writes the kernel buffers from the bridge to the child
    PipeRoom,         \* messages the kernel buffers from the bridge to the host
    ClosedTty,        \* a write to a tty nobody holds: "accepts" (Linux) or "fails"
    MaxSize,          \* MAX_COLS and MAX_ROWS, as one dimension
    InitSize,         \* --cols / --rows
    Format,           \* --format
    Controls,         \* the kinds of control message this host sends
    Sizes,            \* the sizes this host asks for
    Queries,          \* the chunks that hold a terminal query (e.g. ESC[6n)
    MaxChunks,        \* bound: chunks the child writes
    MaxControls       \* bound: control messages the host sends

ControlKinds == {"input", "bad_input", "resize", "signal", "bad_signal", "ping",
                 "malformed", "garbage", "unknown", "shutdown"}

ASSUME CapacityAssumption ==
    /\ ChannelCapacity \in Nat \ {0}
    /\ OutputCapacity \in Nat \ {0}
    /\ TtyOut \in Nat \ {0}
    /\ TtyIn \in Nat \ {0}
    /\ PipeRoom \in Nat \ {0}
    /\ ClosedTty \in {"accepts", "fails"}
ASSUME SizeAssumption ==
    /\ MaxSize \in Nat \ {0}
    /\ InitSize \in Nat
    /\ Sizes \subseteq Nat
ASSUME HostAssumption ==
    /\ Format \in {"jsonl", "msgpack"}
    /\ Controls \subseteq ControlKinds
    /\ Queries \subseteq Nat
ASSUME BoundAssumption == MaxChunks \in Nat /\ MaxControls \in Nat

VARIABLES
    \* the child, and the processes it started, on their side of the tty
    child,      \* "unborn", "running", "zombie", "reaped" or "orphan"
    closed,     \* no process holds the tty's slave side any more
    exit,       \* how the child ended: "none", "own", "signal" or "killed"
    writing,    \* one of them is inside a write to the tty
    written,    \* chunks they have written
    taken,      \* entries of typed they have read
    \* the kernel's buffers and the threads
    kout,       \* chunks written and not yet read from the PTY master
    typed,      \* everything written to the PTY master, in order
    rdHand,     \* PTY reader
    rdDone,     \* it returned, dropping its sender of ptyQ
    ptyQ,       \* its channel to the forwarder
    fwHand,     \* output forwarder
    fwDone,
    ctlHand,    \* control reader
    ctlState,   \* "reading", "ending" (the stream cannot resynchronize) or "done"
    chan,       \* the engine's channel
    \* the host
    sent,       \* control messages written to stdin, in order
    read,       \* how many of them the control reader has consumed
    stdinOpen,
    hostUp,     \* the host has not closed its end of stdout
    \* the engine
    pc,
    dirty,
    stop,       \* why the loop stops
    fed,        \* chunks fed to the emulator
    responses,  \* query answers the emulator holds for the PTY
    pending,    \* an input being written to the PTY, or a message being answered
    ptySize,
    emuSize,
    outcome,    \* what session_loop returns
    \* what has been written to stdout
    greeted,
    shown,      \* chunks whose effect is in the last frame
    hostSize,   \* the grid size it tells
    replies,    \* the control messages answered by a pong or an error
    report,     \* the child_exit message
    \* and how far it has got
    stdout,     \* messages written and not yet read by the host
    view        \* what the host holds

childVars  == <<child, closed, exit, writing, written, taken>>
outputVars == <<kout, rdHand, rdDone, ptyQ, fwHand, fwDone>>
ctlVars    == <<read, ctlHand, ctlState>>
hostVars   == <<sent, stdinOpen, hostUp>>
sizeVars   == <<ptySize, emuSize>>
workVars   == <<dirty, fed, responses, pending>>
seenVars   == <<greeted, shown, hostSize, replies, report, stdout, view>>
vars == <<childVars, outputVars, ctlVars, hostVars, sizeVars, workVars, seenVars,
          typed, chan, pc, stop, outcome>>

-----------------------------------------------------------------------------
(* Messages.                                                               *)

Output(n)   == [k |-> "output", n |-> n, v |-> 0]
OutputEnd   == [k |-> "output_end", n |-> 0, v |-> 0]
ControlEnd  == [k |-> "control_end", n |-> 0, v |-> 0]
Message(k, n, v) == [k |-> k, n |-> n, v |-> v]

\* An entry of typed: one write to the PTY, of kind "input" or "answer", with
\* the messages or the queries it stands for.
Typed(k, s) == [k |-> k, s |-> s]

\* What the host holds once it has read everything written so far.
Told == [greeted |-> greeted, shown |-> shown, size |-> hostSize, replies |-> replies,
         report |-> report]

\* Mutant: what does not decode is dropped without a word.
Decode_silent(c) == IF c.k \in {"unknown", "malformed", "garbage"} THEN <<>> ELSE <<c>>

\* What the control reader makes of a control message: an unknown type is
\* dropped, anything that does not decode becomes a ControlError.
Decode(c) ==
    CASE c.k = "unknown" -> <<>>
      [] c.k \in {"malformed", "garbage"} -> <<Message("control_error", c.n, c.v)>>
      [] OTHER -> <<c>>

\* A MessagePack stream cannot resynchronize after a value it cannot parse.
Fatal(c) == c.k = "garbage" /\ Format = "msgpack"

\* The handler's answer is written and flushed at once for these kinds.
Answered(k) == k \in {"ping", "control_error", "bad_input", "bad_signal"}

\* Mutant: the lower bound alone.
Clamp_low(n) == IF n < 1 THEN 1 ELSE n

Clamp(n) == IF n < 1 THEN 1 ELSE IF n > MaxSize THEN MaxSize ELSE n

-----------------------------------------------------------------------------
Init ==
    /\ child = "unborn" /\ closed = FALSE /\ exit = "none"
    /\ writing = FALSE /\ written = 0 /\ taken = 0
    /\ kout = <<>> /\ typed = <<>>
    /\ rdHand = <<>> /\ rdDone = FALSE
    /\ ptyQ = <<>>
    /\ fwHand = <<>> /\ fwDone = FALSE
    /\ ctlHand = <<>> /\ ctlState = "reading"
    /\ chan = <<>>
    /\ sent = <<>> /\ read = 0 /\ stdinOpen = TRUE /\ hostUp = TRUE
    /\ pc = "spawn" /\ dirty = FALSE /\ stop = "none"
    /\ fed = 0 /\ responses = <<>> /\ pending = <<>>
    /\ ptySize = 0 /\ emuSize = 0
    /\ outcome = "ok"
    /\ greeted = FALSE /\ shown = 0 /\ hostSize = 0 /\ replies = <<>>
    /\ report = "none"
    /\ stdout = <<>> /\ view = Told

-----------------------------------------------------------------------------
(* The child, as the bridge's use of it allows it to behave (external).     *)

\* A process the child leaves behind may hold the tty longer than the child.
CanWrite == child \in {"running", "zombie"} /\ ~closed

ChildStartWrite ==
    /\ CanWrite /\ ~writing /\ written < MaxChunks
    /\ writing' = TRUE
    /\ UNCHANGED <<child, closed, exit, written, taken, outputVars, ctlVars, hostVars,
                   sizeVars, workVars, seenVars, typed, chan, pc, stop, outcome>>

ChildWrite ==
    /\ CanWrite /\ writing /\ Len(kout) < TtyOut
    /\ writing' = FALSE
    /\ written' = written + 1
    /\ kout' = Append(kout, written + 1)
    /\ UNCHANGED <<child, closed, exit, taken, rdHand, rdDone, ptyQ, fwHand, fwDone,
                   ctlVars, hostVars, sizeVars, workVars, seenVars, typed, chan, pc,
                   stop, outcome>>

ChildRead ==
    /\ CanWrite /\ ~writing /\ taken < Len(typed)
    /\ taken' = taken + 1
    /\ UNCHANGED <<child, closed, exit, writing, written, outputVars, ctlVars, hostVars,
                   sizeVars, workVars, seenVars, typed, chan, pc, stop, outcome>>

ChildExit ==
    /\ child = "running" /\ ~writing
    /\ child' = "zombie" /\ exit' = "own" /\ closed' \in {closed, TRUE}
    /\ UNCHANGED <<writing, written, taken, outputVars, ctlVars, hostVars, sizeVars,
                   workVars, seenVars, typed, chan, pc, stop, outcome>>

\* The last process that holds the tty closes it: a child may do so and live on,
\* a process it left behind may do so long after it exited.
ChildDetach ==
    /\ CanWrite /\ ~writing
    /\ closed' = TRUE
    /\ UNCHANGED <<child, exit, writing, written, taken, outputVars, ctlVars, hostVars,
                   sizeVars, workVars, seenVars, typed, chan, pc, stop, outcome>>

-----------------------------------------------------------------------------
(* The PTY reader thread: read, send, and stop at EOF or a read error.      *)

Live == pc # "done"     \* the process, and with it every thread, is there

RdRead ==
    /\ Live /\ ~rdDone /\ rdHand = <<>> /\ kout # <<>>
    /\ rdHand' = <<Head(kout)>>
    /\ kout' = Tail(kout)
    /\ UNCHANGED <<childVars, rdDone, ptyQ, fwHand, fwDone, ctlVars, hostVars, sizeVars,
                   workVars, seenVars, typed, chan, pc, stop, outcome>>

\* Mutant: try_send, which gives up the chunk when the channel is full.
RdSend_try ==
    /\ Live /\ rdHand # <<>>
    /\ ptyQ' = IF Len(ptyQ) < OutputCapacity THEN ptyQ \o rdHand ELSE ptyQ
    /\ rdHand' = <<>>
    /\ UNCHANGED <<childVars, kout, rdDone, fwHand, fwDone, ctlVars, hostVars, sizeVars,
                   workVars, seenVars, typed, chan, pc, stop, outcome>>

\* Mutant: an unbounded channel.
RdSend_unbounded ==
    /\ Live /\ rdHand # <<>>
    /\ ptyQ' = ptyQ \o rdHand
    /\ rdHand' = <<>>
    /\ UNCHANGED <<childVars, kout, rdDone, fwHand, fwDone, ctlVars, hostVars, sizeVars,
                   workVars, seenVars, typed, chan, pc, stop, outcome>>

RdSend ==
    /\ Live /\ rdHand # <<>> /\ Len(ptyQ) < OutputCapacity
    /\ ptyQ' = ptyQ \o rdHand
    /\ rdHand' = <<>>
    /\ UNCHANGED <<childVars, kout, rdDone, fwHand, fwDone, ctlVars, hostVars, sizeVars,
                   workVars, seenVars, typed, chan, pc, stop, outcome>>

RdEof ==
    /\ Live /\ ~rdDone /\ rdHand = <<>> /\ kout = <<>> /\ closed
    /\ rdDone' = TRUE
    /\ UNCHANGED <<childVars, kout, rdHand, ptyQ, fwHand, fwDone, ctlVars, hostVars,
                   sizeVars, workVars, seenVars, typed, chan, pc, stop, outcome>>

-----------------------------------------------------------------------------
(* The output forwarder.  It starts once spawn has returned.                *)

Spawned == pc # "spawn"

FwRecv ==
    /\ Live /\ Spawned /\ ~fwDone /\ fwHand = <<>> /\ ptyQ # <<>>
    /\ fwHand' = <<Output(Head(ptyQ))>>
    /\ ptyQ' = Tail(ptyQ)
    /\ UNCHANGED <<childVars, kout, rdHand, rdDone, fwDone, ctlVars, hostVars, sizeVars,
                   workVars, seenVars, typed, chan, pc, stop, outcome>>

\* Mutant: a chunk that was sent is still in the forwarder's hand, and sent again.
FwSend_again ==
    /\ Live /\ fwHand # <<>> /\ Len(chan) < ChannelCapacity
    /\ chan' = chan \o fwHand
    /\ fwHand' = <<>> \/ UNCHANGED fwHand
    /\ UNCHANGED <<childVars, kout, rdHand, rdDone, ptyQ, fwDone, ctlVars, hostVars,
                   sizeVars, workVars, seenVars, typed, pc, stop, outcome>>

FwSend ==
    /\ Live /\ fwHand # <<>> /\ Len(chan) < ChannelCapacity
    /\ chan' = chan \o fwHand
    /\ fwHand' = <<>>
    /\ UNCHANGED <<childVars, kout, rdHand, rdDone, ptyQ, fwDone, ctlVars, hostVars,
                   sizeVars, workVars, seenVars, typed, pc, stop, outcome>>

\* Mutant: the end is announced as soon as the reader has returned.
OutputDrained_early == rdDone

\* recv fails only once the reader's sender is dropped and the queue is empty.
OutputDrained == rdDone /\ ptyQ = <<>>

\* Mutant: the forwarder returns without announcing the end.
FwEof_silent ==
    /\ Live /\ ~fwDone /\ fwHand = <<>> /\ OutputDrained
    /\ fwDone' = TRUE
    /\ UNCHANGED <<childVars, kout, rdHand, rdDone, ptyQ, fwHand, ctlVars, hostVars,
                   sizeVars, workVars, seenVars, typed, chan, pc, stop, outcome>>

FwEof ==
    /\ Live /\ ~fwDone /\ fwHand = <<>> /\ OutputDrained
    /\ fwHand' = <<OutputEnd>>
    /\ fwDone' = TRUE
    /\ UNCHANGED <<childVars, kout, rdHand, rdDone, ptyQ, ctlVars, hostVars, sizeVars,
                   workVars, seenVars, typed, chan, pc, stop, outcome>>

-----------------------------------------------------------------------------
(* The control reader.  It starts before the child does.                    *)

CtlRead ==
    /\ Live /\ ctlState = "reading" /\ ctlHand = <<>> /\ read < Len(sent)
    /\ read' = read + 1
    /\ ctlHand' = Decode(sent[read + 1])
    /\ ctlState' = IF Fatal(sent[read + 1]) THEN "ending" ELSE "reading"
    /\ UNCHANGED <<childVars, outputVars, hostVars, sizeVars, workVars, seenVars, typed,
                   chan, pc, stop, outcome>>

\* Mutant: a control message overtakes what the engine has not yet handled.
CtlSend_first ==
    /\ Live /\ ctlHand # <<>> /\ Len(chan) < ChannelCapacity
    /\ chan' = ctlHand \o chan
    /\ ctlHand' = <<>>
    /\ UNCHANGED <<childVars, outputVars, read, ctlState, hostVars, sizeVars, workVars,
                   seenVars, typed, pc, stop, outcome>>

CtlSend ==
    /\ Live /\ ctlHand # <<>> /\ Len(chan) < ChannelCapacity
    /\ chan' = chan \o ctlHand
    /\ ctlHand' = <<>>
    /\ UNCHANGED <<childVars, outputVars, read, ctlState, hostVars, sizeVars, workVars,
                   seenVars, typed, pc, stop, outcome>>

\* Mutant: what the host wrote before it closed stdin is left unread.
StreamOver_closed ==
    \/ ctlState = "ending"
    \/ ctlState = "reading" /\ ~stdinOpen

StreamOver ==
    \/ ctlState = "ending"
    \/ ctlState = "reading" /\ ~stdinOpen /\ read = Len(sent)

CtlEof ==
    /\ Live /\ ctlHand = <<>> /\ StreamOver
    /\ ctlHand' = <<ControlEnd>>
    /\ ctlState' = "done"
    /\ UNCHANGED <<childVars, outputVars, read, hostVars, sizeVars, workVars, seenVars,
                   typed, chan, pc, stop, outcome>>

-----------------------------------------------------------------------------
(* The host (external).                                                     *)

HostSend ==
    /\ Live /\ stdinOpen /\ hostUp /\ Len(sent) < MaxControls
    /\ \E k \in Controls :
         \E v \in (IF k = "resize" THEN Sizes ELSE {0}) :
            sent' = Append(sent, Message(k, Len(sent) + 1, v))
    /\ UNCHANGED <<childVars, outputVars, ctlVars, stdinOpen, hostUp, sizeVars, workVars,
                   seenVars, typed, chan, pc, stop, outcome>>

HostCloseStdin ==
    /\ Live /\ stdinOpen
    /\ stdinOpen' = FALSE
    /\ UNCHANGED <<childVars, outputVars, ctlVars, sent, hostUp, sizeVars, workVars,
                   seenVars, typed, chan, pc, stop, outcome>>

\* It need not, ever: a host may stop reading and keep the pipe open.
HostRead ==
    /\ hostUp /\ stdout # <<>>
    /\ view' = Head(stdout)
    /\ stdout' = Tail(stdout)
    /\ UNCHANGED <<childVars, outputVars, ctlVars, hostVars, sizeVars, workVars, greeted,
                   shown, hostSize, replies, report, typed, chan, pc, stop, outcome>>

\* The host dies: both of its pipes close, and what is in them is lost.
HostDisconnect ==
    /\ Live \/ stdout # <<>>
    /\ hostUp
    /\ hostUp' = FALSE /\ stdinOpen' = FALSE
    /\ UNCHANGED <<childVars, outputVars, ctlVars, sent, sizeVars, workVars, seenVars,
                   typed, chan, pc, stop, outcome>>

-----------------------------------------------------------------------------
(* The engine: session_loop, drive and handle.                              *)
(*   spawn  - Pty::spawn                                                    *)
(*   greet  - hello and the baseline frame                                  *)
(*   recv   - the loop's head, blocked in recv                              *)
(*   drain  - the coalescing window                                         *)
(*   input  - inside pty.write with a host input                            *)
(*   reply  - inside the write and flush of an immediate answer             *)
(*   answer - after the window: the pending query responses                 *)
(*   frame  - after those: the frame                                        *)
(*   kill, wait, exit, done - the end of session_loop                       *)

\* A write to stdout returns once the pipe has room for the whole message, and
\* fails when nobody is left to read it.
CanTell == hostUp /\ Len(stdout) < PipeRoom
Tell ==
    /\ stdout' = Append(stdout, Told')
    /\ UNCHANGED view

\* Mutant: the child is neither killed nor waited for.
AfterDrive_return == "done"

\* Mutant: wait without the kill.
AfterDrive_wait == "wait"

\* Where session_loop goes when drive returns.
AfterDrive == "kill"

\* drive returns an error: everything it still had to do is skipped.
Fail ==
    /\ outcome' = "err"
    /\ pc' = AfterDrive

Spawn ==
    /\ pc = "spawn"
    /\ child' = "running"
    /\ ptySize' = Clamp(InitSize)
    /\ emuSize' = Clamp(InitSize)
    /\ pc' = "greet"
    /\ UNCHANGED <<closed, exit, writing, written, taken, outputVars, ctlVars, hostVars,
                   workVars, seenVars, typed, chan, stop, outcome>>

\* Either no process was started, or it was and a later step of Pty::spawn
\* failed: then no Pty exists and nobody kills or waits for the child.
SpawnFails ==
    /\ pc = "spawn"
    /\ child' \in {"unborn", "orphan"}
    /\ pc' = "done"
    /\ UNCHANGED <<closed, exit, writing, written, taken, outputVars, ctlVars, hostVars,
                   sizeVars, workVars, greeted, shown, hostSize, replies, typed, chan, stop>>
    /\ IF hostUp THEN report' = "spawn_error" /\ outcome' = "ok" /\ CanTell /\ Tell
                 ELSE outcome' = "err" /\ UNCHANGED <<report, stdout, view>>

Greet ==
    /\ pc = "greet" /\ CanTell
    /\ greeted' = TRUE
    /\ hostSize' = emuSize
    /\ pc' = "recv"
    /\ UNCHANGED <<childVars, outputVars, ctlVars, hostVars, sizeVars, workVars, shown,
                   replies, report, typed, chan, stop, outcome>>
    /\ Tell

\* A write to stdout fails, also one that was already blocked: the handshake, an
\* immediate answer or a frame.
WireFails ==
    /\ ~hostUp
    /\ \/ pc \in {"greet", "reply"}
       \/ pc = "frame" /\ dirty
    /\ Fail
    /\ pending' = <<>>
    /\ UNCHANGED <<childVars, outputVars, ctlVars, hostVars, sizeVars, dirty, fed, responses,
                   seenVars, typed, chan, stop>>

Receiving == pc \in {"recv", "drain"} /\ chan # <<>>

HandleOutput ==
    /\ Receiving /\ Head(chan).k = "output"
    /\ chan' = Tail(chan)
    /\ fed' = Head(chan).n
    /\ responses' = IF Head(chan).n \in Queries THEN Append(responses, Head(chan).n)
                                                ELSE responses
    /\ dirty' = TRUE
    /\ pc' = "drain"
    /\ UNCHANGED <<childVars, outputVars, ctlVars, hostVars, sizeVars, pending, seenVars,
                   typed, stop, outcome>>

HandleStop ==
    /\ Receiving /\ Head(chan).k \in {"output_end", "control_end", "shutdown"}
    /\ chan' = Tail(chan)
    /\ stop' = Head(chan).k
    /\ pc' = "answer"
    /\ UNCHANGED <<childVars, outputVars, ctlVars, hostVars, sizeVars, workVars, seenVars,
                   typed, outcome>>

\* Ping, ControlError, an undecodable input, an unknown signal name.
HandleReply ==
    /\ Receiving /\ Answered(Head(chan).k)
    /\ chan' = Tail(chan)
    /\ pending' = <<Head(chan).n>>
    /\ pc' = "reply"
    /\ UNCHANGED <<childVars, outputVars, ctlVars, hostVars, sizeVars, dirty, fed, responses,
                   seenVars, typed, stop, outcome>>

\* Mutant: an answer stays in the writer's buffer until the next flush.
Reply_unflushed ==
    /\ pc = "reply" /\ CanTell
    /\ replies' = replies \o pending
    /\ pending' = <<>>
    /\ pc' = "drain"
    /\ UNCHANGED <<childVars, outputVars, ctlVars, hostVars, sizeVars, dirty, fed, responses,
                   greeted, shown, hostSize, report, typed, chan, stop, outcome, stdout, view>>

Reply ==
    /\ pc = "reply" /\ CanTell
    /\ replies' = replies \o pending
    /\ pending' = <<>>
    /\ pc' = "drain"
    /\ UNCHANGED <<childVars, outputVars, ctlVars, hostVars, sizeVars, dirty, fed, responses,
                   greeted, shown, hostSize, report, typed, chan, stop, outcome>>
    /\ Tell

HandleInput ==
    /\ Receiving /\ Head(chan).k = "input"
    /\ chan' = Tail(chan)
    /\ pending' = <<Head(chan).n>>
    /\ pc' = "input"
    /\ UNCHANGED <<childVars, outputVars, ctlVars, hostVars, sizeVars, dirty, fed, responses,
                   seenVars, typed, stop, outcome>>

\* A write to a tty whose slave side nobody holds any more fails on BSD-like
\* systems; Linux goes on buffering it, and blocks when there is no more room.
TtyGone == closed /\ ClosedTty = "fails"

\* The kernel takes a write to the master while it has room for it.
TtyAccepts == ~TtyGone /\ Len(typed) - taken < TtyIn

WriteInput ==
    /\ pc = "input" /\ TtyAccepts
    /\ typed' = Append(typed, Typed("input", pending))
    /\ pending' = <<>>
    /\ pc' = "drain"
    /\ UNCHANGED <<childVars, outputVars, ctlVars, hostVars, sizeVars, dirty, fed, responses,
                   seenVars, chan, stop, outcome>>

HandleResize ==
    /\ Receiving /\ Head(chan).k = "resize"
    /\ chan' = Tail(chan)
    /\ ptySize' = Clamp(Head(chan).v)
    /\ emuSize' = Clamp(Head(chan).v)
    /\ dirty' = TRUE
    /\ pc' = "drain"
    /\ UNCHANGED <<childVars, outputVars, ctlVars, hostVars, fed, responses, pending,
                   seenVars, typed, stop, outcome>>

\* The ioctl may fail on such a tty.
ResizeFails ==
    /\ Receiving /\ Head(chan).k = "resize" /\ TtyGone
    /\ chan' = Tail(chan)
    /\ Fail
    /\ UNCHANGED <<childVars, outputVars, ctlVars, hostVars, sizeVars, workVars, seenVars,
                   typed, stop>>

\* The child dies of the signal, or survives it, or is already dead.
HandleSignal ==
    /\ Receiving /\ Head(chan).k = "signal"
    /\ chan' = Tail(chan)
    /\ pc' = "drain"
    /\ \/ UNCHANGED <<child, closed, exit>>
       \/ child = "running" /\ child' = "zombie" /\ exit' = "signal"
             /\ closed' \in {closed, TRUE}
    /\ UNCHANGED <<writing, written, taken, outputVars, ctlVars, hostVars, sizeVars, workVars,
                   seenVars, typed, stop, outcome>>

WindowClose ==
    /\ pc = "drain"
    /\ pc' = "answer"
    /\ UNCHANGED <<childVars, outputVars, ctlVars, hostVars, sizeVars, workVars, seenVars,
                   typed, chan, stop, outcome>>

\* Mutant: queries are answered in windows without output only.
RespondDue_quiet == responses # <<>> /\ ~dirty

RespondDue == responses # <<>>

Respond ==
    /\ pc = "answer" /\ RespondDue /\ TtyAccepts
    /\ typed' = Append(typed, Typed("answer", responses))
    /\ responses' = <<>>
    /\ pc' = "frame"
    /\ UNCHANGED <<childVars, outputVars, ctlVars, hostVars, sizeVars, dirty, fed, pending,
                   seenVars, chan, stop, outcome>>

NothingToSay ==
    /\ pc = "answer" /\ ~RespondDue
    /\ pc' = "frame"
    /\ UNCHANGED <<childVars, outputVars, ctlVars, hostVars, sizeVars, workVars, seenVars,
                   typed, chan, stop, outcome>>

\* One that was already blocked fails too.
PtyWriteFails ==
    /\ TtyGone
    /\ pc = "input" \/ (pc = "answer" /\ RespondDue)
    /\ Fail
    /\ pending' = <<>>
    /\ responses' = <<>>
    /\ UNCHANGED <<childVars, outputVars, ctlVars, hostVars, sizeVars, dirty, fed, seenVars,
                   typed, chan, stop>>

\* Mutant: the frame is left to the next window when more input waits.
FrameDue_idle == dirty /\ chan = <<>>

FrameDue == dirty

AfterFrame == IF stop = "none" THEN "recv" ELSE AfterDrive

Frame ==
    /\ pc = "frame" /\ FrameDue /\ CanTell
    /\ shown' = fed
    /\ hostSize' = emuSize
    /\ dirty' = FALSE
    /\ pc' = AfterFrame
    /\ UNCHANGED <<childVars, outputVars, ctlVars, hostVars, sizeVars, fed, responses, pending,
                   greeted, replies, report, typed, chan, stop, outcome>>
    /\ Tell

NoFrame ==
    /\ pc = "frame" /\ ~FrameDue
    /\ dirty' = FALSE
    /\ pc' = AfterFrame
    /\ UNCHANGED <<childVars, outputVars, ctlVars, hostVars, sizeVars, fed, responses, pending,
                   seenVars, typed, chan, stop, outcome>>

\* SIGHUP, a grace period, then SIGKILL, to the child alone: one that is still
\* running is gone afterwards; one that handles SIGHUP may end on its own.
Kill ==
    /\ pc = "kill"
    /\ pc' = "wait"
    /\ IF child = "running"
         THEN /\ child' = "zombie" /\ exit' \in {"own", "killed"}
              /\ closed' \in {closed, TRUE}
         ELSE UNCHANGED <<child, closed, exit>>
    /\ UNCHANGED <<writing, written, taken, outputVars, ctlVars, hostVars, sizeVars, workVars,
                   seenVars, typed, chan, stop, outcome>>

Wait ==
    /\ pc = "wait" /\ child = "zombie"
    /\ child' = "reaped"
    /\ pc' = "exit"
    /\ UNCHANGED <<closed, exit, writing, written, taken, outputVars, ctlVars, hostVars,
                   sizeVars, workVars, seenVars, typed, chan, stop, outcome>>

\* The child_exit event.  The status is unknown if wait failed: the kernel reaps
\* the child by itself where SIGCHLD is ignored.
ReportExit ==
    /\ pc = "exit" /\ CanTell
    /\ report' \in {exit, "sentinel"}
    /\ pc' = "done"
    /\ UNCHANGED <<childVars, outputVars, ctlVars, hostVars, sizeVars, workVars, greeted, shown,
                   hostSize, replies, typed, chan, stop, outcome>>
    /\ Tell

\* Its write errors are ignored.
ReportLost ==
    /\ pc = "exit" /\ ~hostUp
    /\ pc' = "done"
    /\ UNCHANGED <<childVars, outputVars, ctlVars, hostVars, sizeVars, workVars, seenVars,
                   typed, chan, stop, outcome>>

\* The process has exited.
Terminated == pc = "done" /\ UNCHANGED vars

-----------------------------------------------------------------------------
ChildStep == ChildStartWrite \/ ChildWrite \/ ChildRead \/ ChildExit \/ ChildDetach
Reader    == RdRead \/ RdSend \/ RdEof
Forwarder == FwRecv \/ FwSend \/ FwEof
Control   == CtlRead \/ CtlSend \/ CtlEof
Host      == HostSend \/ HostCloseStdin \/ HostRead \/ HostDisconnect
Handle    == HandleOutput \/ HandleStop \/ HandleReply \/ HandleInput \/ HandleResize
                \/ ResizeFails \/ HandleSignal
Engine    == Spawn \/ SpawnFails \/ Greet \/ WireFails \/ Handle \/ WriteInput \/ Reply
                \/ WindowClose \/ Respond \/ NothingToSay \/ PtyWriteFails
                \/ Frame \/ NoFrame \/ Kill \/ Wait \/ ReportExit \/ ReportLost

Next == ChildStep \/ Reader \/ Forwarder \/ Control \/ Host \/ Engine \/ Terminated

Spec == Init /\ [][Next]_vars

\* Every thread of the bridge is scheduled; a write the kernel has room for
\* completes, and a child with nothing to write reads its input.  Nothing is
\* assumed of the host, nor that the child writes, exits or detaches.
Fairness ==
    /\ WF_vars(Reader) /\ WF_vars(Forwarder) /\ WF_vars(Control) /\ WF_vars(Engine)
    /\ WF_vars(ChildWrite) /\ WF_vars(ChildRead)

FairSpec == Spec /\ Fairness

-----------------------------------------------------------------------------
(* Properties.                                                             *)

Hand(h, S) == h \in Seq(S) /\ Len(h) <= 1
SizeRange == 1 .. MaxSize

HostMessage == [k : ControlKinds, n : Nat \ {0}, v : Nat]
ControlMessage ==
    [k : ControlKinds \cup {"control_error"}, n : Nat \ {0}, v : Nat]
OutputMessage == [k : {"output"}, n : Nat \ {0}, v : {0}]
ChanMessage ==
    ControlMessage \cup {ControlEnd} \cup OutputMessage \cup {OutputEnd}

FlagsOK ==
    /\ closed \in BOOLEAN /\ writing \in BOOLEAN /\ rdDone \in BOOLEAN /\ fwDone \in BOOLEAN
    /\ stdinOpen \in BOOLEAN /\ hostUp \in BOOLEAN /\ dirty \in BOOLEAN /\ greeted \in BOOLEAN
ChildOK ==
    /\ child \in {"unborn", "running", "zombie", "reaped", "orphan"}
    /\ exit \in {"none", "own", "signal", "killed"}
    /\ written \in 0 .. MaxChunks /\ taken \in Nat
    /\ writing => written < MaxChunks
PipeOK ==
    /\ kout \in Seq(Nat \ {0}) /\ Len(kout) <= TtyOut
    /\ Hand(rdHand, Nat \ {0})
    /\ ptyQ \in Seq(Nat \ {0}) /\ Len(ptyQ) <= OutputCapacity
    /\ Hand(fwHand, OutputMessage \cup {OutputEnd})
ControlOK ==
    /\ Hand(ctlHand, ControlMessage \cup {ControlEnd})
    /\ ctlState \in {"reading", "ending", "done"}
    /\ read \in 0 .. Len(sent)
ChanOK == chan \in Seq(ChanMessage) /\ Len(chan) <= ChannelCapacity
HostOK ==
    /\ sent \in Seq(HostMessage) /\ Len(sent) <= MaxControls
EngineOK ==
    /\ pc \in {"spawn", "greet", "recv", "drain", "input", "reply", "answer", "frame",
               "kill", "wait", "exit", "done"}
    /\ stop \in {"none", "output_end", "control_end", "shutdown"}
    /\ fed \in Nat /\ responses \in Seq(Nat) /\ Hand(pending, Nat \ {0})
    /\ typed \in Seq([k : {"input", "answer"}, s : Seq(Nat)])
    /\ ptySize \in SizeRange \cup {0} /\ emuSize \in SizeRange \cup {0}
    /\ outcome \in {"ok", "err"}
Reports == {"none", "own", "signal", "killed", "spawn_error", "sentinel"}
SeenOK ==
    /\ shown \in Nat /\ hostSize \in SizeRange \cup {0}
    /\ replies \in Seq(Nat)
    /\ report \in Reports
View == [greeted : BOOLEAN, shown : Nat, size : SizeRange \cup {0}, replies : Seq(Nat),
         report : Reports]
StdoutOK == view \in View /\ stdout \in Seq(View) /\ Len(stdout) <= PipeRoom

\* Types and bounds of the state.  What is not plain typing: the two channels
\* never exceed their capacities, and every size a PTY, the emulator or the
\* host has held is within the limits of engine.rs.
StateOK ==
    FlagsOK /\ ChildOK /\ PipeOK /\ ControlOK /\ ChanOK /\ HostOK /\ EngineOK /\ SeenOK
TypeOK == StateOK /\ StdoutOK

\* What the host holds once it has read everything in the pipe.
Delivered == IF stdout = <<>> THEN view ELSE stdout[Len(stdout)]

\* A session that ends because the child's output ended has shown all of it, or
\* left it in the pipe: four threads and four buffers lie between the last write
\* and the host, and the end overtakes nothing (engine.rs:202-209, 283-292).
ExitComplete ==
    stop = "output_end" /\ outcome = "ok" /\ pc \in {"kill", "wait", "exit", "done"}
        => Delivered.shown = written

\* The emulator is fed the child's chunks one by one, each once and in order,
\* whatever the threads interleave: every chunk the engine takes from the channel
\* is the one after the last, neither that one again nor a later one, and nothing
\* else touches the emulator's input (pty.rs:56-68, engine.rs:225-228, 283-292).
FedInOrder ==
    [][/\ HandleOutput => fed' = fed + 1
       /\ ~HandleOutput => UNCHANGED fed]_vars

\* When the engine goes back to sleep the host holds, or needs only to read,
\* everything the emulator was fed, at the size the PTY and the emulator have: no
\* frame is left over for a message that may never come (engine.rs:167-211).
IdleInSync ==
    pc = "recv" => /\ Delivered.shown = fed /\ Delivered.size = emuSize
                   /\ emuSize = ptySize

\* However slow the host is, and even if it stops reading, the child runs ahead
\* of the emulator by no more than the buffers on the way hold, one chunk in each
\* thread's hand (engine.rs:22-24, pty.rs:10-12).
Backpressure ==
    written - fed <= TtyOut + 1 + OutputCapacity + 1 + ChannelCapacity

\* A session that got as far as running its child never ends without having
\* reaped it, on every error path of drive, and child_exit is sent of a reaped
\* child only (engine.rs:115-131).
ChildReaped ==
    /\ pc = "done" => child \in {"unborn", "orphan", "reaped"}
    /\ report \notin {"none", "spawn_error"} => child = "reaped"

\* A host that reads its stdout: what is in the pipe does not stay there.
HostReads == WF_vars(HostRead)

\* Once nothing holds the child's tty - it exited, was killed or detached - the
\* session of a host that reads ends (engine.rs:229-230), where a blocked write to
\* the PTY fails even if the engine is in one: "the session ends when the child
\* exits" (tests/msgpack.rs:27).
ChildExitEnds == HostReads => (closed ~> pc = "done")

\* "Closing stdin (dropping the writer) must end the session like shutdown"
\* (tests/control.rs:194), for a host that goes on reading.
StdinEofEnds == HostReads => (~stdinOpen ~> pc = "done")

\* The engine is in a write to the tty that the kernel has no room for.
Blocked ==
    /\ pc = "input" \/ (pc = "answer" /\ RespondDue)
    /\ ~TtyAccepts /\ ~TtyGone

\* It does, as long as the engine is not blocked for ever in a write to the tty
\* (engine.rs:229-230, 315).
EofEndsUnlessBlocked == []<>~Blocked => StdinEofEnds

-----------------------------------------------------------------------------
(* The session implements the promise of SessionPromise.                    *)

\* A session is open until the process is gone and the host has read what it left
\* in the pipe.
Open == pc # "done" \/ (hostUp /\ stdout # <<>>)
Verdict ==
    IF Open THEN "open"
    ELSE IF outcome = "ok" /\ stop = "output_end" /\ hostUp THEN "complete" ELSE "cut"

Promise == INSTANCE SessionPromise WITH made <- written, seen <- view.shown,
                                        verdict <- Verdict

\* Every behaviour of the threads, the channels, the engine and the pipe is, seen
\* from the child's last write and the picture the host holds, one the promise
\* allows: the picture never runs ahead or back, and a session that ended because
\* the output ended is complete (engine.rs:167-211, PROTOCOL.md section 7).
KeepsPromise == Promise!Spec

\* For a host that reads, every chunk the child wrote gets onto its screen unless
\* the session is cut short: nothing stays in a channel, a hand, the emulator or
\* the pipe for ever (engine.rs:167-211).
OutputShownUnlessBlocked ==
    []<>~Blocked /\ HostReads =>
        \A n \in 1 .. MaxChunks : written >= n ~> (view.shown >= n \/ Verdict = "cut")

=============================================================================
