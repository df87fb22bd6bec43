--------------------------- MODULE SessionProofs ---------------------------
(***************************************************************************)
(* Theorems about Session, for every capacity, every bound and every host.  *)
(*                                                                          *)
(*   TypeCorrect      the type invariant                                    *)
(*   PipelineCorrect  the inductive invariant of the output path            *)
(* and, from the two, ExitIsComplete, FeedsInOrder, SleepsInSync,           *)
(* ReapsChild, HoldsBack and ImplementsPromise.                             *)
(***************************************************************************)
EXTENDS SessionInvariant, TLAPS, SequenceTheorems, FiniteSetTheorems

-----------------------------------------------------------------------------
(* Types.                                                                  *)

\* What a message of the engine's channel holds, whatever its kind.
LEMMA ChanTypes ==
  ASSUME NEW m \in ChanMessage
  PROVE  m.n \in Nat /\ m.v \in Nat
         /\ (m.k \notin {"output_end", "control_end"} => m.n \in Nat \ {0})
BY DEF ChanMessage, ControlMessage, OutputMessage, OutputEnd, ControlEnd

\* The control reader passes on at most one message, of a kind handle knows.
LEMMA DecodeTypes ==
  ASSUME NEW c \in HostMessage
  PROVE  Hand(Decode(c), ControlMessage)
<1>1. CASE c.k = "unknown"
  BY <1>1 DEF Decode, Hand
<1>2. CASE c.k \in {"malformed", "garbage"}
  BY <1>2 DEF Decode, Hand, ControlMessage, Message, HostMessage
<1>3. CASE c.k \notin {"unknown", "malformed", "garbage"}
  <2>1. Decode(c) = <<c>>
    BY <1>3 DEF Decode
  <2>2. c \in ControlMessage
    BY DEF ControlMessage, HostMessage
  <2> QED
    BY <2>1, <2>2 DEF Hand
<1> QED
  BY <1>1, <1>2, <1>3

\* A step writes one message to stdout, has the host read one, or leaves the
\* pipe alone.
LEMMA PipeSteps ==
  ASSUME [Next]_vars
  PROVE  \/ CanTell /\ Tell
         \/ HostRead
         \/ UNCHANGED seenVars
<1> USE DEF seenVars
<1>1. CASE ChildStep \/ Reader \/ Forwarder \/ Control
  BY <1>1 DEF ChildStep, ChildStartWrite, ChildWrite, ChildRead, ChildExit, ChildDetach,
     Reader, RdRead, RdSend, RdEof, Forwarder, FwRecv, FwSend, FwEof,
     Control, CtlRead, CtlSend, CtlEof
<1>2. CASE Host
  BY <1>2 DEF Host, HostSend, HostCloseStdin, HostDisconnect
<1>3. CASE Handle
  BY <1>3 DEF Handle, HandleOutput, HandleStop, HandleReply, HandleInput, HandleResize, ResizeFails,
     HandleSignal
<1>4. CASE Greet \/ Reply \/ Frame \/ ReportExit \/ SpawnFails
  BY <1>4 DEF Greet, Reply, Frame, ReportExit, SpawnFails
<1>5. CASE Spawn \/ WireFails \/ WriteInput \/ WindowClose \/ Respond \/ NothingToSay
             \/ PtyWriteFails \/ NoFrame \/ Kill \/ Wait \/ ReportLost
  BY <1>5 DEF Spawn, WireFails, WriteInput, WindowClose, Respond, NothingToSay, PtyWriteFails,
     NoFrame, Kill, Wait, ReportLost
<1>6. CASE UNCHANGED vars
  BY <1>6 DEF vars
<1> QED
  BY <1>1, <1>2, <1>3, <1>4, <1>5, <1>6 DEF Next, Engine, Terminated

\* What stdout holds is what the state it was written in says.
LEMMA StdoutTypes ==
  ASSUME TypeOK, StateOK', [Next]_vars
  PROVE  StdoutOK'
<1> USE CapacityAssumption
<1>1. Told' \in View
  BY DEF StateOK, SeenOK, FlagsOK, Told, View
<1>2. view \in View /\ stdout \in Seq(View) /\ Len(stdout) <= PipeRoom
  BY DEF TypeOK, StateOK, StdoutOK
<1>3. CASE CanTell /\ Tell
  <2>1. stdout' \in Seq(View) /\ Len(stdout') = Len(stdout) + 1
    BY <1>1, <1>2, <1>3 DEF Tell
  <2>2. Len(stdout) < PipeRoom /\ view' = view /\ Len(stdout) \in Nat
    BY <1>2, <1>3 DEF CanTell, Tell
  <2> QED
    BY <1>2, <2>1, <2>2 DEF StdoutOK
<1>4. CASE HostRead
  <2>1. stdout # <<>> /\ view' = Head(stdout) /\ stdout' = Tail(stdout)
    BY <1>4 DEF HostRead
  <2>2. view' \in View /\ stdout' \in Seq(View) /\ Len(stdout') = Len(stdout) - 1
    BY <1>2, <2>1
  <2>3. Len(stdout) \in Nat
    BY <1>2
  <2> QED
    BY <1>2, <2>2, <2>3 DEF StdoutOK
<1>5. CASE UNCHANGED seenVars
  BY <1>2, <1>5 DEF StdoutOK, seenVars
<1> QED
  BY <1>3, <1>4, <1>5, PipeSteps

\* The state of a session is always within its types and capacities
\* (engine.rs:24-29, pty.rs:12).
THEOREM TypeCorrect == Spec => []TypeOK
<1> USE CapacityAssumption, SizeAssumption, HostAssumption, BoundAssumption
<1>1. Init => TypeOK
  <2> SUFFICES ASSUME Init PROVE TypeOK
    OBVIOUS
  <2>0. StdoutOK
    <3>1. view = [greeted |-> FALSE, shown |-> 0, size |-> 0, replies |-> <<>>, report |-> "none"]
      BY DEF Init, Told
    <3>2. view \in View
      BY <3>1 DEF View, Reports
    <3> QED
      BY <3>2 DEF Init, StdoutOK
  <2>1. FlagsOK
    BY DEF Init, FlagsOK
  <2>2. ChildOK /\ PipeOK /\ ControlOK
    BY DEF Init, ChildOK, PipeOK, ControlOK, Hand
  <2>3. ChanOK /\ HostOK /\ SeenOK
    BY DEF Init, ChanOK, HostOK, SeenOK, Reports
  <2>4. EngineOK
    BY DEF Init, EngineOK, Hand
  <2> QED
    BY <2>0, <2>1, <2>2, <2>3, <2>4 DEF TypeOK, StateOK, StateOK
<1>2. TypeOK /\ [Next]_vars => StateOK'
  <2> SUFFICES ASSUME StateOK, [Next]_vars
               PROVE  StateOK'
    BY DEF TypeOK
  <2> USE DEF StateOK, Reports, childVars, outputVars, ctlVars, hostVars, sizeVars, workVars, seenVars
  <2>1. CASE ChildStartWrite
    BY <2>1 DEF ChildStartWrite, CanWrite, FlagsOK, ChildOK, PipeOK, ControlOK, ChanOK, HostOK, EngineOK, SeenOK, Hand
  <2>2. CASE ChildWrite
    <3>1. FlagsOK'
      BY <2>2 DEF ChildWrite, FlagsOK
    <3>2. ChildOK'
      BY <2>2 DEF ChildWrite, CanWrite, ChildOK, Hand
    <3>3. PipeOK'
      BY <2>2 DEF ChildWrite, CanWrite, PipeOK, Hand, ChildOK
    <3>4. ControlOK' /\ ChanOK' /\ HostOK' /\ EngineOK' /\ SeenOK'
      BY <2>2 DEF ChildWrite, ControlOK, ChanOK, HostOK, EngineOK, SeenOK, Hand
    <3> QED
      BY <3>1, <3>2, <3>3, <3>4
  <2>3. CASE ChildRead
    BY <2>3 DEF ChildRead, CanWrite, FlagsOK, ChildOK, PipeOK, ControlOK, ChanOK, HostOK, EngineOK, SeenOK, Hand
  <2>4. CASE ChildExit
    <3>1. FlagsOK'
      BY <2>4 DEF ChildExit, FlagsOK
    <3>2. ChildOK'
      BY <2>4 DEF ChildExit, ChildOK
    <3>3. PipeOK' /\ ControlOK' /\ ChanOK' /\ HostOK' /\ EngineOK' /\ SeenOK'
      BY <2>4 DEF ChildExit, PipeOK, ControlOK, ChanOK, HostOK, EngineOK, SeenOK, Hand
    <3> QED
      BY <3>1, <3>2, <3>3
  <2>5. CASE ChildDetach
    BY <2>5 DEF ChildDetach, CanWrite, FlagsOK, ChildOK, PipeOK, ControlOK, ChanOK, HostOK, EngineOK, SeenOK, Hand
  <2>6. CASE RdRead
    <3>1. PipeOK'
      BY <2>6 DEF RdRead, PipeOK, Hand
    <3>2. FlagsOK' /\ ChildOK' /\ ControlOK' /\ ChanOK' /\ HostOK' /\ EngineOK' /\ SeenOK'
      BY <2>6 DEF RdRead, FlagsOK, ChildOK, ControlOK, ChanOK, HostOK, EngineOK, SeenOK, Hand
    <3> QED
      BY <3>1, <3>2
  <2>7. CASE RdSend
    BY <2>7 DEF RdSend, Live, FlagsOK, ChildOK, PipeOK, ControlOK, ChanOK, HostOK, EngineOK, SeenOK, Hand
  <2>8. CASE RdEof
    BY <2>8 DEF RdEof, Live, FlagsOK, ChildOK, PipeOK, ControlOK, ChanOK, HostOK, EngineOK, SeenOK, Hand
  <2>9. CASE FwRecv
    <3>1. PipeOK'
      BY <2>9 DEF FwRecv, PipeOK, Hand, Output, OutputMessage
    <3>2. FlagsOK' /\ ChildOK' /\ ControlOK' /\ ChanOK' /\ HostOK' /\ EngineOK' /\ SeenOK'
      BY <2>9 DEF FwRecv, FlagsOK, ChildOK, ControlOK, ChanOK, HostOK, EngineOK, SeenOK, Hand
    <3> QED
      BY <3>1, <3>2
  <2>10. CASE FwSend
    <3>1. FlagsOK'
      BY <2>10 DEF FwSend, FlagsOK
    <3>2. PipeOK'
      BY <2>10 DEF FwSend, Live, OutputMessage, ControlMessage, ChanMessage, PipeOK, Hand
    <3>3. ChanOK'
      BY <2>10 DEF FwSend, Live, OutputMessage, ControlMessage, ChanMessage, ChanOK, Hand, PipeOK, ChanMessage
    <3>4. ChildOK' /\ ControlOK' /\ HostOK' /\ EngineOK' /\ SeenOK'
      BY <2>10 DEF FwSend, ChildOK, ControlOK, HostOK, EngineOK, SeenOK, Hand
    <3> QED
      BY <3>1, <3>2, <3>3, <3>4
  <2>11. CASE FwEof
    BY <2>11 DEF FwEof, Live, OutputDrained, FlagsOK, ChildOK, PipeOK, ControlOK, ChanOK, HostOK, EngineOK, SeenOK, Hand
  <2>12. CASE CtlRead
    <3>1. FlagsOK'
      BY <2>12 DEF CtlRead, FlagsOK
    <3>2. ControlOK'
      <4>1. sent[read + 1] \in HostMessage
        BY <2>12 DEF CtlRead, ControlOK, HostOK
      <4>2. Hand(Decode(sent[read + 1]), ControlMessage)
        BY <4>1, DecodeTypes
      <4> QED
        BY <2>12, <4>2 DEF CtlRead, ControlOK, Hand, HostOK
    <3>3. ChildOK' /\ PipeOK' /\ ChanOK' /\ HostOK' /\ EngineOK' /\ SeenOK'
      BY <2>12 DEF CtlRead, ChildOK, PipeOK, ChanOK, HostOK, EngineOK, SeenOK, Hand
    <3> QED
      BY <3>1, <3>2, <3>3
  <2>13. CASE CtlSend
    <3>1. ChanOK'
      BY <2>13 DEF CtlSend, ChanOK, Hand, ChanMessage, ControlMessage, OutputMessage, ControlOK
    <3>2. ControlOK'
      BY <2>13 DEF CtlSend, ControlOK, Hand
    <3>3. FlagsOK' /\ ChildOK' /\ PipeOK' /\ HostOK' /\ EngineOK' /\ SeenOK'
      BY <2>13 DEF CtlSend, FlagsOK, ChildOK, PipeOK, HostOK, EngineOK, SeenOK, Hand
    <3> QED
      BY <3>1, <3>2, <3>3
  <2>14. CASE CtlEof
    BY <2>14 DEF CtlEof, Live, FlagsOK, ChildOK, PipeOK, ControlOK, ChanOK, HostOK, EngineOK, SeenOK, Hand
  <2>15. CASE HostSend
    <3>1. HostOK'
      BY <2>15 DEF HostSend, HostOK, Hand, HostMessage, Message
    <3>2. FlagsOK' /\ ChildOK' /\ PipeOK' /\ ControlOK' /\ ChanOK' /\ EngineOK' /\ SeenOK'
      BY <2>15 DEF HostSend, FlagsOK, ChildOK, PipeOK, ControlOK, ChanOK, EngineOK, SeenOK, Hand
    <3> QED
      BY <3>1, <3>2
  <2>16. CASE HostCloseStdin
    <3>1. FlagsOK'
      BY <2>16 DEF HostCloseStdin, FlagsOK
    <3>2. ChildOK' /\ PipeOK' /\ ControlOK' /\ ChanOK' /\ HostOK' /\ EngineOK' /\ SeenOK'
      BY <2>16 DEF HostCloseStdin, ChildOK, PipeOK, ControlOK, ChanOK, HostOK, EngineOK, SeenOK, Hand
    <3> QED
      BY <3>1, <3>2
  <2>17. CASE HostDisconnect
    <3>1. FlagsOK'
      BY <2>17 DEF HostDisconnect, FlagsOK
    <3>2. ChildOK' /\ PipeOK' /\ ControlOK' /\ ChanOK' /\ HostOK' /\ EngineOK' /\ SeenOK'
      BY <2>17 DEF HostDisconnect, ChildOK, PipeOK, ControlOK, ChanOK, HostOK, EngineOK, SeenOK, Hand
    <3> QED
      BY <3>1, <3>2
  <2>18. CASE Spawn
    BY <2>18 DEF Spawn, Clamp, SizeRange, FlagsOK, ChildOK, PipeOK, ControlOK, ChanOK, HostOK, EngineOK, SeenOK, Hand
  <2>19. CASE SpawnFails
    BY <2>19 DEF SpawnFails, FlagsOK, ChildOK, PipeOK, ControlOK, ChanOK, HostOK, EngineOK, SeenOK, Hand
  <2>20. CASE Greet
    BY <2>20 DEF Greet, FlagsOK, ChildOK, PipeOK, ControlOK, ChanOK, HostOK, EngineOK, SeenOK, Hand
  <2>21. CASE WireFails
    BY <2>21 DEF WireFails, Fail, AfterDrive, FlagsOK, ChildOK, PipeOK, ControlOK, ChanOK, HostOK, EngineOK, SeenOK, Hand
  <2>22. CASE HandleOutput
    <3>1. FlagsOK'
      BY <2>22 DEF HandleOutput, FlagsOK
    <3>2. ChanOK'
      BY <2>22 DEF HandleOutput, Receiving, ChanOK, Hand
    <3>3. EngineOK'
      BY <2>22, ChanTypes DEF HandleOutput, Receiving, EngineOK, Hand, ChanOK
    <3>4. ChildOK' /\ PipeOK' /\ ControlOK' /\ HostOK' /\ SeenOK'
      BY <2>22 DEF HandleOutput, ChildOK, PipeOK, ControlOK, HostOK, SeenOK, Hand, Receiving, Fail
    <3> QED
      BY <3>1, <3>2, <3>3, <3>4
  <2>23. CASE HandleStop
    <3>1. ChanOK'
      BY <2>23 DEF HandleStop, ChanOK, Hand, Receiving
    <3>2. EngineOK'
      BY <2>23 DEF HandleStop, EngineOK, Hand, Receiving, ChanOK
    <3>3. FlagsOK'
      BY <2>23 DEF HandleStop, FlagsOK, Hand, Receiving
    <3>4. ChildOK' /\ PipeOK' /\ ControlOK' /\ HostOK' /\ SeenOK'
      BY <2>23 DEF HandleStop, ChildOK, PipeOK, ControlOK, HostOK, SeenOK, Hand
    <3> QED
      BY <3>1, <3>2, <3>3, <3>4
  <2>24. CASE HandleReply
    <3>0. Head(chan) \in ChanMessage
      BY <2>24 DEF HandleReply, Receiving, ChanOK
    <3>1. FlagsOK'
      BY <2>24 DEF HandleReply, FlagsOK
    <3>2. ChanOK'
      BY <2>24 DEF HandleReply, Receiving, ChanOK, Hand
    <3>3. EngineOK'
      <4>1. Head(chan).n \in Nat \ {0}
        BY <2>24, <3>0, ChanTypes DEF HandleReply, Answered
      <4> QED
        BY <2>24, <4>1 DEF HandleReply, EngineOK, Hand
    <3>4. ChildOK' /\ PipeOK' /\ ControlOK' /\ HostOK' /\ SeenOK'
      BY <2>24 DEF HandleReply, ChildOK, PipeOK, ControlOK, HostOK, SeenOK, Hand
    <3> QED
      BY <3>1, <3>2, <3>3, <3>4
  <2>25. CASE HandleInput
    <3>0. Head(chan) \in ChanMessage
      BY <2>25 DEF HandleInput, Receiving, ChanOK
    <3>1. FlagsOK'
      BY <2>25 DEF HandleInput, FlagsOK
    <3>2. ChanOK'
      BY <2>25 DEF HandleInput, Receiving, ChanOK, Hand
    <3>3. EngineOK'
      <4>1. Head(chan).n \in Nat \ {0}
        BY <2>25, <3>0, ChanTypes DEF HandleInput
      <4> QED
        BY <2>25, <4>1 DEF HandleInput, EngineOK, Hand
    <3>4. ChildOK' /\ PipeOK' /\ ControlOK' /\ HostOK' /\ SeenOK'
      BY <2>25 DEF HandleInput, ChildOK, PipeOK, ControlOK, HostOK, SeenOK, Hand, Receiving, Fail
    <3> QED
      BY <3>1, <3>2, <3>3, <3>4
  <2>26. CASE HandleResize
    <3>1. FlagsOK'
      BY <2>26 DEF HandleResize, FlagsOK
    <3>2. ChanOK'
      BY <2>26 DEF HandleResize, Receiving, ChanOK, Hand, Clamp
    <3>3. EngineOK'
      BY <2>26, ChanTypes DEF HandleResize, Receiving, EngineOK, Hand, ChanOK, SizeRange, Clamp
    <3>4. ChildOK' /\ PipeOK' /\ ControlOK' /\ HostOK' /\ SeenOK'
      BY <2>26 DEF HandleResize, ChildOK, PipeOK, ControlOK, HostOK, SeenOK, Hand, Receiving, Fail
    <3> QED
      BY <3>1, <3>2, <3>3, <3>4
  <2>27. CASE ResizeFails
    BY <2>27 DEF ResizeFails, Receiving, Fail, AfterDrive, FlagsOK, ChildOK, PipeOK, ControlOK, ChanOK, HostOK, EngineOK, SeenOK, Hand
  <2>28. CASE HandleSignal
    <3>1. FlagsOK'
      BY <2>28 DEF HandleSignal, FlagsOK
    <3>2. ChildOK'
      BY <2>28 DEF HandleSignal, Receiving, ChildOK, Hand
    <3>3. ChanOK'
      BY <2>28 DEF HandleSignal, Receiving, ChanOK, Hand
    <3>4. EngineOK'
      BY <2>28 DEF HandleSignal, Receiving, EngineOK, Hand, ChanOK
    <3>5. PipeOK' /\ ControlOK' /\ HostOK' /\ SeenOK'
      BY <2>28 DEF HandleSignal, PipeOK, ControlOK, HostOK, SeenOK, Hand, Receiving, Fail
    <3> QED
      BY <3>1, <3>2, <3>3, <3>4, <3>5
  <2>29. CASE WriteInput
    <3>1. EngineOK'
      <4>1. pending \in Seq(Nat) /\ typed \in Seq([k : {"input", "answer"}, s : Seq(Nat)])
        BY DEF EngineOK, Hand
      <4>2. Typed("input", pending) \in [k : {"input", "answer"}, s : Seq(Nat)]
        BY <4>1 DEF Typed
      <4> HIDE DEF Typed
      <4>3. typed' \in Seq([k : {"input", "answer"}, s : Seq(Nat)])
        BY <2>29, <4>1, <4>2 DEF WriteInput
      <4> QED
        BY <2>29, <4>3 DEF WriteInput, EngineOK, Hand
    <3>2. ChildOK'
      BY <2>29 DEF WriteInput, ChildOK, Hand, Typed, EngineOK
    <3>3. FlagsOK' /\ PipeOK' /\ ControlOK' /\ ChanOK' /\ HostOK' /\ SeenOK'
      BY <2>29 DEF WriteInput, FlagsOK, PipeOK, ControlOK, ChanOK, HostOK, SeenOK, Hand
    <3> QED
      BY <3>1, <3>2, <3>3
  <2>30. CASE WindowClose
    BY <2>30 DEF WindowClose, FlagsOK, ChildOK, PipeOK, ControlOK, ChanOK, HostOK, EngineOK, SeenOK, Hand
  <2>31. CASE Respond
    BY <2>31 DEF Respond, Typed, FlagsOK, ChildOK, PipeOK, ControlOK, ChanOK, HostOK, EngineOK, SeenOK, Hand
  <2>32. CASE NothingToSay
    BY <2>32 DEF NothingToSay, FlagsOK, ChildOK, PipeOK, ControlOK, ChanOK, HostOK, EngineOK, SeenOK, Hand
  <2>33. CASE PtyWriteFails
    BY <2>33 DEF PtyWriteFails, Fail, AfterDrive, FlagsOK, ChildOK, PipeOK, ControlOK, ChanOK, HostOK, EngineOK, SeenOK, Hand
  <2>34. CASE Frame
    <3>1. FlagsOK'
      BY <2>34 DEF Frame, FlagsOK
    <3>2. EngineOK'
      BY <2>34 DEF Frame, AfterFrame, AfterDrive, EngineOK, Hand, ChanOK, SizeRange
    <3>3. SeenOK'
      BY <2>34 DEF Frame, AfterFrame, AfterDrive, SeenOK, Hand, ChanOK, EngineOK, SizeRange
    <3>4. ChildOK' /\ PipeOK' /\ ControlOK' /\ ChanOK' /\ HostOK'
      BY <2>34 DEF Frame, ChildOK, PipeOK, ControlOK, ChanOK, HostOK, Hand
    <3> QED
      BY <3>1, <3>2, <3>3, <3>4
  <2>35. CASE NoFrame
    <3>1. FlagsOK'
      BY <2>35 DEF NoFrame, FlagsOK
    <3>2. EngineOK'
      BY <2>35 DEF NoFrame, AfterFrame, AfterDrive, EngineOK, Hand, ChanOK
    <3>3. ChildOK' /\ PipeOK' /\ ControlOK' /\ ChanOK' /\ HostOK' /\ SeenOK'
      BY <2>35 DEF NoFrame, ChildOK, PipeOK, ControlOK, ChanOK, HostOK, SeenOK, Hand
    <3> QED
      BY <3>1, <3>2, <3>3
  <2>36. CASE Kill
    <3>1. FlagsOK'
      BY <2>36 DEF Kill, FlagsOK
    <3>2. ChildOK'
      BY <2>36 DEF Kill, ChildOK, Hand
    <3>3. EngineOK'
      BY <2>36 DEF Kill, EngineOK, Hand, ChanOK
    <3>4. PipeOK' /\ ControlOK' /\ ChanOK' /\ HostOK' /\ SeenOK'
      BY <2>36 DEF Kill, PipeOK, ControlOK, ChanOK, HostOK, SeenOK, Hand
    <3> QED
      BY <3>1, <3>2, <3>3, <3>4
  <2>37. CASE Wait
    BY <2>37 DEF Wait, FlagsOK, ChildOK, PipeOK, ControlOK, ChanOK, HostOK, EngineOK, SeenOK, Hand
  <2>39. CASE HostRead
    <3>1. FlagsOK'
      BY <2>39 DEF HostRead, FlagsOK
    <3>2. ChildOK' /\ PipeOK' /\ ControlOK' /\ ChanOK' /\ HostOK' /\ EngineOK' /\ SeenOK'
      BY <2>39 DEF HostRead, ChildOK, PipeOK, ControlOK, ChanOK, HostOK, EngineOK, SeenOK, Hand
    <3> QED
      BY <3>1, <3>2
  <2>40. CASE Reply
    <3>1. FlagsOK'
      BY <2>40 DEF Reply, FlagsOK
    <3>2. SeenOK'
      BY <2>40 DEF Reply, SeenOK, EngineOK, Hand
    <3>3. EngineOK'
      BY <2>40 DEF Reply, EngineOK, Hand
    <3>4. ChildOK' /\ PipeOK' /\ ControlOK' /\ ChanOK' /\ HostOK'
      BY <2>40 DEF Reply, ChildOK, PipeOK, ControlOK, ChanOK, HostOK, Hand
    <3> QED
      BY <3>1, <3>2, <3>3, <3>4
  <2>41. CASE ReportExit
    <3>1. FlagsOK'
      BY <2>41 DEF ReportExit, FlagsOK
    <3>2. SeenOK' /\ EngineOK'
      BY <2>41 DEF ReportExit, SeenOK, EngineOK, ChildOK, Hand
    <3>3. ChildOK' /\ PipeOK' /\ ControlOK' /\ ChanOK' /\ HostOK'
      BY <2>41 DEF ReportExit, ChildOK, PipeOK, ControlOK, ChanOK, HostOK, Hand
    <3> QED
      BY <3>1, <3>2, <3>3
  <2>42. CASE ReportLost
    BY <2>42 DEF ReportLost, FlagsOK, ChildOK, PipeOK, ControlOK, ChanOK, HostOK, EngineOK, SeenOK, Hand
  <2>38. CASE UNCHANGED vars
    BY <2>38 DEF vars, FlagsOK, ChildOK, PipeOK, ControlOK, ChanOK, HostOK, EngineOK, SeenOK, Hand
  <2> QED
    BY <2>1, <2>2, <2>3, <2>4, <2>5, <2>6, <2>7, <2>8, <2>9, <2>10, <2>11, <2>12, <2>13, <2>14, <2>15, <2>16, <2>17, <2>18, <2>19, <2>20, <2>21, <2>22, <2>23, <2>24, <2>25, <2>26, <2>27, <2>28, <2>29, <2>30, <2>31, <2>32, <2>33, <2>34, <2>35, <2>36, <2>37, <2>38, <2>39, <2>40, <2>41, <2>42
       DEF Next, ChildStep, Reader, Forwarder, Control, Host, Handle, Engine, Terminated
<1>3. TypeOK /\ [Next]_vars => TypeOK'
  BY <1>2, StdoutTypes DEF TypeOK
<1> QED
  BY <1>1, <1>3, PTL DEF Spec

-----------------------------------------------------------------------------
(* The output path, action by action.                                      *)

\* Everything PipelineInv says of the output path speaks of these variables.
QuietVars == <<written, kout, rdHand, ptyQ, fwHand, chan, fed>>

\* The actions that leave them alone.
Quiet ==
    \/ ChildStartWrite \/ ChildRead \/ ChildExit \/ ChildDetach \/ RdEof \/ CtlRead \/ CtlEof
    \/ Host \/ Spawn \/ SpawnFails \/ Greet \/ WireFails \/ WriteInput \/ WindowClose
    \/ Respond \/ NothingToSay \/ PtyWriteFails \/ Frame \/ NoFrame \/ Kill \/ Wait
    \/ Reply \/ ReportExit \/ ReportLost \/ UNCHANGED vars

\* An action that leaves the output path alone leaves its invariants alone.
LEMMA QuietPipeline ==
  ASSUME UNCHANGED QuietVars, Upstream, InFlight
  PROVE  Upstream' /\ InFlight'
BY DEF QuietVars, Upstream, InFlight, HoldsOutput, TakenOut, PassedOut

\* A thread's hand that is not empty holds one message of its type.
LEMMA OneInHand ==
  ASSUME NEW S, NEW h, Hand(h, S), h # <<>>
  PROVE  Len(h) = 1 /\ h[1] \in S
<1>1. Len(h) \in Nat \ {0}
  BY EmptySeq DEF Hand
<1>2. Len(h) = 1
  BY <1>1 DEF Hand
<1> QED
  BY <1>2, ElementOfSeq DEF Hand

\* What appending a thread's hand does to a queue.
LEMMA PassOn ==
  ASSUME NEW S, NEW T, NEW s \in Seq(S), NEW h, Hand(h, T), h # <<>>
  PROVE  /\ Len(s \o h) = Len(s) + 1
         /\ \A i \in 1 .. Len(s) : (s \o h)[i] = s[i]
         /\ (s \o h)[Len(s) + 1] = h[1]
<1>1. Len(h) = 1 /\ h \in Seq(S \cup T) /\ s \in Seq(S \cup T)
  BY OneInHand, SeqMonotonic DEF Hand
<1>2. Len(s) \in Nat
  OBVIOUS
<1> HIDE DEF Hand
<1> QED
  BY <1>1, <1>2, ConcatProperties

\* The two counts of the output path are integers.
LEMMA PassedInt ==
  ASSUME TypeOK
  PROVE  TakenOut \in Int /\ PassedOut \in Int
BY DEF TypeOK, StateOK, ChildOK, PipeOK, Hand, TakenOut, PassedOut

\* No action opens the tty again.
LEMMA StaysClosed ==
  ASSUME ChildExit \/ ChildDetach \/ HandleSignal \/ Kill
  PROVE  closed => closed'
<1>1. closed' = closed \/ closed' = TRUE
  BY DEF ChildExit, ChildDetach, HandleSignal, Kill
<1>2. CASE closed' = closed
  BY <1>2
<1>3. CASE closed' = TRUE
  BY <1>3
<1> QED
  BY <1>1, <1>2, <1>3

\* The quiet actions are those that move no chunk.
LEMMA QuietSteps ==
  ASSUME Quiet
  PROVE  UNCHANGED QuietVars
<1> USE DEF QuietVars, childVars, outputVars, workVars
<1>1. CASE ChildStartWrite \/ ChildRead \/ ChildExit \/ ChildDetach \/ RdEof
  BY <1>1 DEF ChildStartWrite, ChildRead, ChildExit, ChildDetach, RdEof
<1>2. CASE CtlRead \/ CtlEof \/ Host
  BY <1>2 DEF CtlRead, CtlEof, Host, HostSend, HostCloseStdin, HostRead, HostDisconnect
<1>3. CASE Spawn \/ SpawnFails \/ Greet \/ WireFails \/ WriteInput \/ WindowClose \/ Respond
  BY <1>3 DEF Spawn, SpawnFails, Greet, WireFails, WriteInput, WindowClose, Respond
<1>4. CASE NothingToSay \/ PtyWriteFails \/ Frame \/ NoFrame \/ Kill \/ Wait
  BY <1>4 DEF NothingToSay, PtyWriteFails, Frame, NoFrame, Kill, Wait
<1>7. CASE Reply \/ ReportExit \/ ReportLost
  BY <1>7 DEF Reply, ReportExit, ReportLost
<1>5. CASE UNCHANGED vars
  BY <1>5 DEF vars
<1> QED
  BY <1>1, <1>2, <1>3, <1>4, <1>5, <1>7 DEF Quiet

\* Quiet actions never reopen the output path.
LEMMA QuietFlags ==
  ASSUME Quiet
  PROVE  /\ UNCHANGED fwDone /\ (closed => closed') /\ (rdDone => rdDone')
         /\ rdDone' /\ ~rdDone => closed /\ kout = <<>> /\ rdHand = <<>>
<1> USE DEF childVars, outputVars
<1>1. CASE ChildStartWrite \/ ChildRead \/ RdEof
  BY <1>1 DEF ChildStartWrite, ChildRead, RdEof
<1>2. CASE CtlRead \/ CtlEof \/ Host
  BY <1>2 DEF CtlRead, CtlEof, Host, HostSend, HostCloseStdin, HostRead, HostDisconnect
<1>3. CASE Spawn \/ SpawnFails \/ Greet \/ WireFails \/ WriteInput \/ WindowClose \/ Respond
  BY <1>3 DEF Spawn, SpawnFails, Greet, WireFails, WriteInput, WindowClose, Respond
<1>4. CASE NothingToSay \/ PtyWriteFails \/ Frame \/ NoFrame \/ Wait
  BY <1>4 DEF NothingToSay, PtyWriteFails, Frame, NoFrame, Wait
<1>7. CASE Reply \/ ReportExit \/ ReportLost
  BY <1>7 DEF Reply, ReportExit, ReportLost
<1>5. CASE UNCHANGED vars
  BY <1>5 DEF vars
<1>6. CASE ChildExit \/ ChildDetach \/ Kill
  <2>1. UNCHANGED <<fwDone, rdDone>>
    BY <1>6 DEF ChildExit, ChildDetach, Kill
  <2> QED
    BY <1>6, <2>1, StaysClosed
<1> QED
  BY <1>1, <1>2, <1>3, <1>4, <1>5, <1>6, <1>7 DEF Quiet

\* Quiet actions never restart the loop.
LEMMA QuietStop ==
  ASSUME Quiet, stop # "none" => pc \in {"answer", "frame", "kill", "wait", "exit", "done"}
  PROVE  UNCHANGED stop
         /\ (stop # "none" => pc' \in {"answer", "frame", "kill", "wait", "exit", "done"})
<1>1. CASE ChildStartWrite \/ ChildRead \/ ChildExit \/ ChildDetach \/ RdEof
  BY <1>1 DEF ChildStartWrite, ChildRead, ChildExit, ChildDetach, RdEof
<1>2. CASE CtlRead \/ CtlEof \/ Host
  BY <1>2 DEF CtlRead, CtlEof, Host, HostSend, HostCloseStdin, HostRead, HostDisconnect
<1>3. CASE Spawn \/ SpawnFails \/ Greet \/ WireFails \/ WriteInput \/ WindowClose \/ Respond
  BY <1>3 DEF Spawn, SpawnFails, Greet, WireFails, WriteInput, WindowClose, Respond, Fail, AfterDrive
<1>4. CASE NothingToSay \/ PtyWriteFails \/ Kill \/ Wait
  BY <1>4 DEF NothingToSay, PtyWriteFails, Kill, Wait, Fail, AfterDrive
<1>7. CASE Reply \/ ReportExit \/ ReportLost
  BY <1>7 DEF Reply, ReportExit, ReportLost
<1>5. CASE Frame \/ NoFrame
  BY <1>5 DEF Frame, NoFrame, AfterFrame, AfterDrive
<1>6. CASE UNCHANGED vars
  BY <1>6 DEF vars
<1> QED
  BY <1>1, <1>2, <1>3, <1>4, <1>5, <1>6, <1>7 DEF Quiet

\* Every step moves something on the output path or is quiet.
LEMMA NextSplit ==
  ASSUME [Next]_vars
  PROVE  \/ ChildWrite \/ RdRead \/ RdSend \/ FwRecv \/ FwEof \/ FwSend \/ CtlSend \/ HandleOutput
         \/ HandleStop \/ HandleReply \/ HandleInput \/ HandleResize \/ ResizeFails \/ HandleSignal
         \/ Quiet
BY DEF Next, ChildStep, Reader, Forwarder, Control, Host, Engine, Handle, Terminated, Quiet

\* The chunks short of the forwarder stay consecutive.
LEMMA UpstreamStep ==
  ASSUME TypeOK, Upstream, [Next]_vars
  PROVE  Upstream'
<1> USE DEF TypeOK, StateOK, ChildOK, PipeOK, Hand, childVars, outputVars
<1>1. CASE ChildWrite
  <2>1. /\ Len(kout') = Len(kout) + 1 /\ written' = written + 1
        /\ \A i \in 1 .. Len(kout) : kout'[i] = kout[i]
        /\ kout'[Len(kout) + 1] = written + 1
    BY <1>1 DEF ChildWrite
  <2>2. UNCHANGED <<rdHand, ptyQ>>
    BY <1>1 DEF ChildWrite
  <2>3. \A i \in 1 .. Len(kout') : kout'[i] = written' - Len(kout') + i
    <3> SUFFICES ASSUME NEW i \in 1 .. Len(kout')
                 PROVE  kout'[i] = written' - Len(kout') + i
      OBVIOUS
    <3>1. CASE i \in 1 .. Len(kout)
      BY <2>1, <3>1 DEF Upstream
    <3>2. CASE i = Len(kout) + 1
      BY <2>1, <3>2
    <3> QED
      BY <2>1, <3>1, <3>2
  <2>4. \A i \in 1 .. Len(rdHand') : rdHand'[i] = written' - (Len(kout') + Len(rdHand')) + i
    BY <2>1, <2>2 DEF Upstream, TakenOut
  <2>5. \A i \in 1 .. Len(ptyQ') : ptyQ'[i] = TakenOut' + i
    <3>1. ptyQ' = ptyQ /\ rdHand' = rdHand
      BY <2>2
    <3>2. TakenOut' = TakenOut
      BY <2>1, <3>1 DEF TakenOut
    <3> QED
      BY <3>1, <3>2 DEF Upstream
  <2> QED
    BY <2>3, <2>4, <2>5 DEF Upstream, TakenOut
<1>2. CASE RdRead
  <2>1. /\ Len(kout) = Len(kout') + 1 /\ written' = written
        /\ \A i \in 1 .. Len(kout') : kout'[i] = kout[i + 1]
        /\ rdHand = <<>> /\ rdHand' = <<kout[1]>>
    BY <1>2 DEF RdRead
  <2>2. UNCHANGED ptyQ
    BY <1>2 DEF RdRead
  <2>3. \A i \in 1 .. Len(kout') : kout'[i] = written' - Len(kout') + i
    BY <2>1 DEF Upstream, TakenOut
  <2>4. Len(rdHand') = 1 /\ Len(rdHand) = 0 /\ rdHand'[1] = kout[1]
    BY <2>1
  <2>5. \A i \in 1 .. Len(rdHand') : rdHand'[i] = written' - (Len(kout') + Len(rdHand')) + i
    BY <2>1, <2>4 DEF Upstream, TakenOut
  <2>6. \A i \in 1 .. Len(ptyQ') : ptyQ'[i] = TakenOut' + i
    BY <2>1, <2>2, <2>4 DEF Upstream, TakenOut
  <2> QED
    BY <2>3, <2>5, <2>6 DEF Upstream, TakenOut
<1>3. CASE RdSend
  <2>1. rdHand # <<>> /\ rdHand' = <<>> /\ ptyQ' = ptyQ \o rdHand
    BY <1>3 DEF RdSend
  <2>2. UNCHANGED <<kout, written>>
    BY <1>3 DEF RdSend
  <2>3. Len(rdHand) = 1 /\ Len(rdHand') = 0
    BY <2>1, OneInHand
  <2>4. /\ Len(ptyQ') = Len(ptyQ) + 1
        /\ \A i \in 1 .. Len(ptyQ) : ptyQ'[i] = ptyQ[i]
        /\ ptyQ'[Len(ptyQ) + 1] = rdHand[1]
    BY <2>1, PassOn
  <2>5. TakenOut' = TakenOut
    BY <2>2, <2>3, <2>4 DEF TakenOut
  <2>6. rdHand[1] = TakenOut + Len(ptyQ) + 1
    BY <2>3 DEF Upstream, TakenOut
  <2>7. \A i \in 1 .. Len(ptyQ') : ptyQ'[i] = TakenOut' + i
    <3> SUFFICES ASSUME NEW i \in 1 .. Len(ptyQ')
                 PROVE  ptyQ'[i] = TakenOut' + i
      OBVIOUS
    <3>1. CASE i \in 1 .. Len(ptyQ)
      BY <2>4, <2>5, <3>1 DEF Upstream
    <3>2. CASE i = Len(ptyQ) + 1
      BY <2>4, <2>5, <2>6, <3>2 DEF TakenOut
    <3> QED
      BY <2>4, <3>1, <3>2
  <2> QED
    BY <2>1, <2>2, <2>3, <2>7 DEF Upstream
<1>4. CASE FwRecv
  <2>1. /\ Len(ptyQ) = Len(ptyQ') + 1
        /\ \A i \in 1 .. Len(ptyQ') : ptyQ'[i] = ptyQ[i + 1]
    BY <1>4 DEF FwRecv
  <2>2. UNCHANGED <<kout, written, rdHand>>
    BY <1>4 DEF FwRecv
  <2>3. \A i \in 1 .. Len(ptyQ') : ptyQ'[i] = TakenOut' + i
    BY <2>1, <2>2 DEF Upstream, TakenOut
  <2> QED
    BY <2>2, <2>3 DEF Upstream, TakenOut
<1>5. CASE UNCHANGED <<written, kout, rdHand, ptyQ>>
  BY <1>5 DEF Upstream, TakenOut
<1>6. CASE ChildStartWrite \/ ChildRead \/ ChildExit \/ ChildDetach \/ RdEof
  BY <1>6, <1>5 DEF ChildStartWrite, ChildRead, ChildExit, ChildDetach, RdEof
<1>7. CASE FwSend \/ FwEof \/ Control \/ Host
  BY <1>7, <1>5 DEF FwSend, FwEof, Control, CtlRead, CtlSend, CtlEof, Host, HostSend, HostCloseStdin, HostRead, HostDisconnect
<1>8. CASE Handle
  BY <1>8, <1>5 DEF Handle, HandleOutput, HandleStop, HandleReply, HandleInput, HandleResize, ResizeFails, HandleSignal
<1>9. CASE Spawn \/ SpawnFails \/ Greet \/ WireFails \/ WriteInput \/ WindowClose \/ Respond
             \/ NothingToSay \/ PtyWriteFails \/ Frame \/ NoFrame \/ Kill \/ Wait
             \/ Reply \/ ReportExit \/ ReportLost
  BY <1>9, <1>5 DEF Spawn, SpawnFails, Greet, WireFails, WriteInput, WindowClose, Respond,
             NothingToSay, PtyWriteFails, Frame, NoFrame, Kill, Wait, Reply, ReportExit, ReportLost
<1>10. CASE UNCHANGED vars
  BY <1>10, <1>5 DEF vars
<1> QED
  BY <1>1, <1>2, <1>3, <1>4, <1>6, <1>7, <1>8, <1>9, <1>10
  DEF Next, ChildStep, Reader, Forwarder, Engine, Terminated

\* The engine is handed the next chunk, never another one.
LEMMA FedStep ==
  ASSUME TypeOK, InFlight, HandleOutput
  PROVE  fed' = fed + 1
<1> USE DEF TypeOK, StateOK, EngineOK
<1>1. chan # <<>> /\ chan[1].k = "output" /\ fed' = chan[1].n
  BY DEF HandleOutput, Receiving
<1>2. chan \in Seq(ChanMessage) /\ Len(chan) \in Nat \ {0}
  BY <1>1, EmptySeq DEF ChanOK
<1>3. fed < chan[1].n /\ chan[1].n <= PassedOut
  BY <1>1, <1>2 DEF InFlight
<1>4. chan[1].n \in Nat
  BY <1>2, ElementOfSeq, ChanTypes
<1>5. fed + 1 <= PassedOut
  BY <1>3, <1>4, PassedInt
<1>6. PICK j \in 1 .. Len(chan) : chan[j].k = "output" /\ chan[j].n = fed + 1
  BY <1>5 DEF InFlight
<1>7. CASE j = 1
  BY <1>1, <1>6, <1>7
<1>8. CASE j # 1
  <2>1. 1 \in 1 .. Len(chan) /\ 1 < j
    BY <1>2, <1>8
  <2>2. chan[1].n < chan[j].n
    BY <1>1, <1>2, <1>6, <2>1 DEF InFlight
  <2> QED
    BY <1>3, <1>4, <1>6, <2>2
<1> QED
  BY <1>7, <1>8

\* What taking the head of the engine's channel does to it.
LEMMA Received ==
  ASSUME TypeOK, Receiving, chan' = Tail(chan)
  PROVE  /\ Len(chan) \in Nat \ {0} /\ Len(chan') = Len(chan) - 1
         /\ \A i \in 1 .. Len(chan') : chan'[i] = chan[i + 1]
<1>1. chan # <<>> /\ chan \in Seq(ChanMessage)
  BY DEF Receiving, TypeOK, StateOK, ChanOK
<1>2. Len(chan) \in Nat \ {0}
  BY <1>1, EmptySeq
<1>3. Len(chan') = Len(chan) - 1 /\ \A i \in 1 .. Len(chan') : chan'[i] = chan[i + 1]
  BY <1>1, HeadTailProperties
<1> QED
  BY <1>2, <1>3

\* What sending a thread's hand does to the engine's channel.
LEMMA SentOn ==
  ASSUME TypeOK, NEW T, NEW h, Hand(h, T), h # <<>>, chan' = chan \o h
  PROVE  /\ Len(chan) \in Nat /\ Len(chan') = Len(chan) + 1
         /\ \A i \in 1 .. Len(chan) : chan'[i] = chan[i]
         /\ chan'[Len(chan) + 1] = h[1]
<1>1. chan \in Seq(ChanMessage)
  BY DEF TypeOK, StateOK, ChanOK
<1>2. Len(chan) \in Nat
  BY <1>1
<1>3. /\ Len(chan') = Len(chan) + 1
      /\ \A i \in 1 .. Len(chan) : chan'[i] = chan[i]
      /\ chan'[Len(chan) + 1] = h[1]
  BY <1>1, PassOn
<1> QED
  BY <1>2, <1>3

\* The engine's channel keeps holding exactly the chunks that were passed on.
LEMMA InFlightStep ==
  ASSUME TypeOK, Upstream, InFlight, [Next]_vars
  PROVE  InFlight'
<1> USE DEF childVars, outputVars
<1>0. TakenOut \in Int /\ PassedOut \in Int /\ fed \in Nat
  BY PassedInt DEF TypeOK, StateOK, EngineOK
<1>c. \A i \in 1 .. Len(chan) : chan[i].n \in Nat
  BY ElementOfSeq, ChanTypes DEF TypeOK, StateOK, ChanOK
<1>1. CASE ChildWrite
  <2>1. UNCHANGED <<fwHand, chan, fed>> /\ HoldsOutput' = HoldsOutput
    BY <1>1 DEF ChildWrite, HoldsOutput, workVars
  <2>2. TakenOut' = TakenOut
    BY <1>1 DEF ChildWrite, TakenOut, TypeOK, StateOK, PipeOK, ChildOK
  <2> QED
    BY <2>1, <2>2 DEF InFlight, PassedOut
<1>2. CASE RdRead
  <2>1. UNCHANGED <<fwHand, chan, fed>> /\ HoldsOutput' = HoldsOutput
    BY <1>2 DEF RdRead, HoldsOutput, workVars
  <2>2. TakenOut' = TakenOut
    BY <1>2 DEF RdRead, TakenOut, TypeOK, StateOK, PipeOK, ChildOK
  <2> QED
    BY <2>1, <2>2 DEF InFlight, PassedOut
<1>3. CASE RdSend
  <2>1. UNCHANGED <<fwHand, chan, fed>> /\ HoldsOutput' = HoldsOutput
    BY <1>3 DEF RdSend, HoldsOutput, workVars
  <2>2. TakenOut' = TakenOut
    BY <1>3 DEF RdSend, TakenOut, TypeOK, StateOK, PipeOK, ChildOK, Hand
  <2> QED
    BY <2>1, <2>2 DEF InFlight, PassedOut
<1>4. CASE FwRecv
  <2>1. UNCHANGED <<chan, fed>> /\ HoldsOutput' /\ ~HoldsOutput
    BY <1>4 DEF FwRecv, HoldsOutput, workVars, Output
  <2>2. TakenOut' = TakenOut + 1 /\ ptyQ[1] = TakenOut + 1
    BY <1>4 DEF FwRecv, TakenOut, TypeOK, StateOK, PipeOK, ChildOK, Upstream
  <2>3. fwHand'[1].n = TakenOut'
    BY <1>4, <2>2 DEF FwRecv, Output
  <2>4. PassedOut' = PassedOut
    BY <2>1, <2>2, <1>0 DEF PassedOut
  <2> QED
    BY <2>1, <2>3, <2>4 DEF InFlight
<1>5. CASE FwEof
  <2>1. UNCHANGED <<chan, fed>> /\ ~HoldsOutput' /\ ~HoldsOutput
    BY <1>5 DEF FwEof, HoldsOutput, workVars, OutputEnd
  <2>2. TakenOut' = TakenOut
    BY <1>5 DEF FwEof, TakenOut, childVars
  <2> QED
    BY <2>1, <2>2 DEF InFlight, PassedOut
<1>6. CASE FwSend
  <2>1. UNCHANGED <<fed>> /\ fwHand # <<>> /\ ~HoldsOutput' /\ TakenOut' = TakenOut
    BY <1>6 DEF FwSend, HoldsOutput, workVars, TakenOut
  <2>2. /\ Len(chan) \in Nat /\ Len(chan') = Len(chan) + 1
        /\ \A i \in 1 .. Len(chan) : chan'[i] = chan[i]
        /\ chan'[Len(chan) + 1] = fwHand[1]
    BY <1>6, <2>1, SentOn DEF FwSend, TypeOK, StateOK, PipeOK, HoldsOutput
  <2>3. CASE HoldsOutput
    <3>1. PassedOut' = PassedOut + 1 /\ fwHand[1].n = PassedOut + 1
      BY <2>1, <2>3, <1>0 DEF PassedOut, InFlight
    <3>2. fed' <= PassedOut'
      BY <3>1, <2>1, <1>0 DEF InFlight
    <3>3. \A i \in 1 .. Len(chan') : chan'[i].k = "output" => fed' < chan'[i].n /\ chan'[i].n <= PassedOut'
      BY <3>1, <2>1, <2>2, <1>0, <1>c DEF InFlight
    <3>4. \A i, j \in 1 .. Len(chan') :
             i < j /\ chan'[i].k = "output" /\ chan'[j].k = "output" => chan'[i].n < chan'[j].n
      <4> SUFFICES ASSUME NEW i \in 1 .. Len(chan'), NEW j \in 1 .. Len(chan'), i < j,
                          chan'[i].k = "output", chan'[j].k = "output"
                   PROVE  chan'[i].n < chan'[j].n
        OBVIOUS
      <4>1. i \in 1 .. Len(chan) /\ chan'[i] = chan[i]
        BY <2>2
      <4>2. CASE j \in 1 .. Len(chan)
        BY <4>1, <4>2, <2>2 DEF InFlight
      <4>3. CASE j = Len(chan) + 1
        <5>1. chan[i].n <= PassedOut /\ chan[i].n \in Nat
          BY <4>1, <1>c DEF InFlight
        <5> QED
          BY <4>1, <4>3, <5>1, <3>1, <2>2, <1>0
      <4> QED
        BY <4>2, <4>3, <2>2
    <3>5. \A m \in fed' + 1 .. PassedOut' :
             \E i \in 1 .. Len(chan') : chan'[i].k = "output" /\ chan'[i].n = m
      <4> SUFFICES ASSUME NEW m \in fed' + 1 .. PassedOut'
                   PROVE  \E i \in 1 .. Len(chan') : chan'[i].k = "output" /\ chan'[i].n = m
        OBVIOUS
      <4>1. CASE m = PassedOut + 1
        <5>1. chan'[Len(chan) + 1].k = "output" /\ chan'[Len(chan) + 1].n = m
          BY <4>1, <3>1, <2>2, <2>3 DEF HoldsOutput
        <5> QED
          BY <5>1, <2>2
      <4>2. CASE m \in fed + 1 .. PassedOut
        <5>1. PICK i \in 1 .. Len(chan) : chan[i].k = "output" /\ chan[i].n = m
          BY <4>2 DEF InFlight
        <5> QED
          BY <5>1, <2>2
      <4> QED
        BY <4>1, <4>2, <3>1, <2>1, <1>0
    <3> QED
      BY <3>2, <3>3, <3>4, <3>5, <2>1 DEF InFlight
  <2>4. CASE ~HoldsOutput
    <3>1. PassedOut' = PassedOut
      BY <2>1, <2>4 DEF PassedOut
    <3>2. chan'[Len(chan) + 1].k # "output"
      BY <2>1, <2>2, <2>4 DEF HoldsOutput
    <3> QED
      BY <2>1, <2>2, <3>1, <3>2 DEF InFlight
  <2> QED
    BY <2>3, <2>4
<1>7. CASE CtlSend
  <2>1. /\ UNCHANGED <<fed, fwHand, TakenOut, HoldsOutput, PassedOut, written>>
        /\ ctlHand # <<>>
    BY <1>7 DEF CtlSend, workVars, TakenOut, HoldsOutput, PassedOut
  <2>2. ctlHand[1].k # "output"
    BY <2>1, OneInHand DEF TypeOK, StateOK, ControlOK, ControlMessage, ControlEnd, ControlKinds
  <2>3. /\ Len(chan) \in Nat /\ Len(chan') = Len(chan) + 1
        /\ \A i \in 1 .. Len(chan) : chan'[i] = chan[i]
        /\ chan'[Len(chan) + 1].k # "output"
    BY <1>7, <2>1, <2>2, SentOn DEF CtlSend, TypeOK, StateOK, ControlOK
  <2> QED
    BY <2>1, <2>3 DEF InFlight
<1>8. CASE HandleOutput
  <2>1. /\ UNCHANGED <<fwHand, TakenOut, HoldsOutput, PassedOut, written>>
        /\ fed' = chan[1].n /\ chan[1].k = "output"
    BY <1>8 DEF HandleOutput, TakenOut, HoldsOutput, PassedOut
  <2>2. /\ Len(chan) \in Nat \ {0} /\ Len(chan') = Len(chan) - 1
        /\ \A i \in 1 .. Len(chan') : chan'[i] = chan[i + 1]
    BY <1>8, Received DEF HandleOutput
  <2>3. fed' <= PassedOut'
    BY <2>1, <2>2, <1>0 DEF InFlight
  <2>4. \A i \in 1 .. Len(chan') : chan'[i].k = "output" => fed' < chan'[i].n /\ chan'[i].n <= PassedOut'
    <3> SUFFICES ASSUME NEW i \in 1 .. Len(chan'), chan'[i].k = "output"
                 PROVE  fed' < chan'[i].n /\ chan'[i].n <= PassedOut'
      OBVIOUS
    <3>1. i + 1 \in 1 .. Len(chan) /\ 1 \in 1 .. Len(chan) /\ 1 < i + 1 /\ chan'[i] = chan[i + 1]
      BY <2>2
    <3> QED
      BY <3>1, <2>1 DEF InFlight
  <2>5. \A i, j \in 1 .. Len(chan') :
           i < j /\ chan'[i].k = "output" /\ chan'[j].k = "output" => chan'[i].n < chan'[j].n
    <3> SUFFICES ASSUME NEW i \in 1 .. Len(chan'), NEW j \in 1 .. Len(chan'), i < j,
                        chan'[i].k = "output", chan'[j].k = "output"
                 PROVE  chan'[i].n < chan'[j].n
      OBVIOUS
    <3>1. /\ i + 1 \in 1 .. Len(chan) /\ j + 1 \in 1 .. Len(chan) /\ i + 1 < j + 1
          /\ chan'[i] = chan[i + 1] /\ chan'[j] = chan[j + 1]
      BY <2>2
    <3> QED
      BY <3>1 DEF InFlight
  <2>6. \A m \in fed' + 1 .. PassedOut' :
             \E i \in 1 .. Len(chan') : chan'[i].k = "output" /\ chan'[i].n = m
    <3> SUFFICES ASSUME NEW m \in fed' + 1 .. PassedOut'
                 PROVE  \E i \in 1 .. Len(chan') : chan'[i].k = "output" /\ chan'[i].n = m
      OBVIOUS
    <3>1. PICK j \in 1 .. Len(chan) : chan[j].k = "output" /\ chan[j].n = m
      BY <2>1, <2>2, <1>0, <1>c DEF InFlight
    <3>2. j # 1
      BY <3>1, <2>1, <2>2, <1>0, <1>c
    <3>3. j - 1 \in 1 .. Len(chan') /\ chan'[j - 1] = chan[j]
      BY <3>2, <2>2
    <3> QED
      BY <3>1, <3>3
  <2> QED
    BY <2>1, <2>3, <2>4, <2>5, <2>6 DEF InFlight
<1>9. CASE HandleStop \/ HandleReply \/ HandleInput \/ HandleResize \/ ResizeFails \/ HandleSignal
  <2>1. /\ UNCHANGED <<fed, fwHand, written, kout, rdHand, ptyQ>> /\ Receiving
        /\ chan' = Tail(chan) /\ Head(chan).k # "output"
    BY <1>9 DEF HandleStop, HandleReply, HandleInput, HandleResize, ResizeFails, HandleSignal,
                Answered, workVars
  <2>2. UNCHANGED <<TakenOut, HoldsOutput, PassedOut>> /\ chan[1].k # "output"
    BY <2>1 DEF TakenOut, HoldsOutput, PassedOut
  <2>3. /\ Len(chan) \in Nat \ {0} /\ Len(chan') = Len(chan) - 1
        /\ \A i \in 1 .. Len(chan') : chan'[i] = chan[i + 1]
    BY <2>1, Received
  <2>4. fed' <= PassedOut'
    BY <2>1, <2>2 DEF InFlight
  <2>5. \A i \in 1 .. Len(chan') : chan'[i].k = "output" => fed' < chan'[i].n /\ chan'[i].n <= PassedOut'
    BY <2>1, <2>2, <2>3, <1>0, <1>c DEF InFlight
  <2>6. \A i, j \in 1 .. Len(chan') :
           i < j /\ chan'[i].k = "output" /\ chan'[j].k = "output" => chan'[i].n < chan'[j].n
    <3> SUFFICES ASSUME NEW i \in 1 .. Len(chan'), NEW j \in 1 .. Len(chan'), i < j,
                        chan'[i].k = "output", chan'[j].k = "output"
                 PROVE  chan'[i].n < chan'[j].n
      OBVIOUS
    <3>1. /\ i + 1 \in 1 .. Len(chan) /\ j + 1 \in 1 .. Len(chan) /\ i + 1 < j + 1
          /\ chan'[i] = chan[i + 1] /\ chan'[j] = chan[j + 1]
      BY <2>3
    <3> QED
      BY <3>1 DEF InFlight
  <2>7. \A m \in fed' + 1 .. PassedOut' :
             \E i \in 1 .. Len(chan') : chan'[i].k = "output" /\ chan'[i].n = m
    <3> SUFFICES ASSUME NEW m \in fed' + 1 .. PassedOut'
                 PROVE  \E i \in 1 .. Len(chan') : chan'[i].k = "output" /\ chan'[i].n = m
      OBVIOUS
    <3>1. PICK j \in 1 .. Len(chan) : chan[j].k = "output" /\ chan[j].n = m
      BY <2>1, <2>2, <1>0 DEF InFlight
    <3>2. j - 1 \in 1 .. Len(chan') /\ chan'[j - 1].k = "output" /\ chan'[j - 1].n = m
      BY <3>1, <2>2, <2>3
    <3> QED
      BY <3>2
  <2> QED
    BY <2>1, <2>2, <2>4, <2>5, <2>6, <2>7 DEF InFlight
<1>10. CASE UNCHANGED QuietVars
  BY <1>10, QuietPipeline
<1>11. CASE Quiet
  BY <1>11, <1>10, QuietSteps
<1> QED
  BY <1>1, <1>2, <1>3, <1>4, <1>5, <1>6, <1>7, <1>8, <1>9, <1>11, NextSplit

\* No step puts an output after the end of the output.
LEMMA EndOvertakesNothingStep ==
  ASSUME TypeOK, Upstream, InFlight, EndOvertakesNothing, [Next]_vars
  PROVE  EndOvertakesNothing'
<1> USE DEF childVars, outputVars
<1>1. CASE ChildWrite
  BY <1>1 DEF ChildWrite, CanWrite, EndOvertakesNothing, HoldsOutput, workVars
<1>2. CASE RdRead
  BY <1>2 DEF RdRead, EndOvertakesNothing, HoldsOutput, workVars
<1>3. CASE RdSend
  BY <1>3 DEF RdSend, EndOvertakesNothing, HoldsOutput, workVars
<1>4. CASE FwRecv
  BY <1>4 DEF FwRecv, EndOvertakesNothing, HoldsOutput, workVars, Output
<1>5. CASE FwEof
  BY <1>5 DEF FwEof, EndOvertakesNothing, HoldsOutput, workVars, OutputEnd, OutputDrained
<1>6. CASE FwSend
  <2>1. fwHand # <<>> /\ fwHand' = <<>> /\ ~HoldsOutput' /\ UNCHANGED <<fed, fwDone, rdDone, ptyQ, kout, rdHand, closed, pc, stop, written>>
    BY <1>6 DEF FwSend, HoldsOutput, workVars
  <2>2. /\ Len(chan) \in Nat /\ Len(chan') = Len(chan) + 1
        /\ \A i \in 1 .. Len(chan) : chan'[i] = chan[i]
        /\ chan'[Len(chan) + 1] = fwHand[1]
    BY <1>6, <2>1, SentOn DEF FwSend, TypeOK, StateOK, PipeOK, HoldsOutput
  <2>3. ~HoldsOutput => fwDone
    BY <2>1 DEF EndOvertakesNothing
  <2>4. \A i \in 1 .. Len(chan) : chan[i].k # "output_end"
    BY <2>1 DEF EndOvertakesNothing
  <2>5. \A i \in 1 .. Len(chan') : chan'[i].k = "output_end" =>
          fwDone' /\ fwHand' = <<>> /\ \A j \in 1 .. Len(chan') : i < j => chan'[j].k # "output"
    BY <2>1, <2>2, <2>3, <2>4 DEF HoldsOutput
  <2> QED
    BY <2>1, <2>5 DEF EndOvertakesNothing
<1>7. CASE CtlSend
  <2>1. /\ UNCHANGED <<fwHand, fwDone, rdDone, ptyQ, kout, rdHand, closed, pc, stop, written, fed>>
        /\ ctlHand # <<>>
    BY <1>7 DEF CtlSend, workVars
  <2>2. ctlHand[1].k \notin {"output", "output_end"}
    BY <2>1, OneInHand DEF TypeOK, StateOK, ControlOK, ControlMessage, ControlEnd, ControlKinds
  <2>3. /\ Len(chan) \in Nat /\ Len(chan') = Len(chan) + 1
        /\ \A i \in 1 .. Len(chan) : chan'[i] = chan[i]
        /\ chan'[Len(chan) + 1].k \notin {"output", "output_end"}
    BY <1>7, <2>1, <2>2, SentOn DEF CtlSend, TypeOK, StateOK, ControlOK
  <2>4. UNCHANGED HoldsOutput
    BY <2>1 DEF HoldsOutput
  <2> QED
    BY <2>1, <2>3, <2>4 DEF EndOvertakesNothing
<1>8. CASE Handle
  <2>0. closed => closed'
    <3>1. CASE HandleSignal
      BY <3>1, StaysClosed
    <3>2. CASE ~HandleSignal
      BY <1>8, <3>2 DEF Handle, HandleOutput, HandleStop, HandleReply, HandleInput, HandleResize,
                ResizeFails
    <3> QED
      BY <3>1, <3>2
  <2>1. /\ UNCHANGED <<fwHand, fwDone, rdDone, ptyQ, kout, rdHand, written, HoldsOutput>>
        /\ (closed => closed')
        /\ chan' = Tail(chan) /\ Receiving
    BY <1>8, <2>0 DEF Handle, HandleOutput, HandleStop, HandleReply, HandleInput, HandleResize,
                ResizeFails, HandleSignal, HoldsOutput
  <2>2. /\ Len(chan) \in Nat \ {0} /\ Len(chan') = Len(chan) - 1
        /\ \A i \in 1 .. Len(chan') : chan'[i] = chan[i + 1]
    BY <2>1, Received
  <2>3. stop = "none"
    BY <2>1 DEF Receiving, EndOvertakesNothing
  <2>4. stop' # "none" => pc' = "answer"
    BY <1>8, <2>3 DEF Handle, HandleOutput, HandleStop, HandleReply, HandleInput, HandleResize, ResizeFails,
                HandleSignal
  <2>5. ASSUME stop' = "output_end"
        PROVE  fwDone' /\ fed' = written'
    <3>1. HandleStop /\ Head(chan).k = "output_end"
      BY <1>8, <2>3, <2>5 DEF Handle, HandleOutput, HandleStop, HandleReply, HandleInput, HandleResize, ResizeFails,
                HandleSignal
    <3>2. 1 \in 1 .. Len(chan) /\ chan[1].k = "output_end"
      BY <3>1, <2>2 DEF HandleStop
    <3>3. fwDone /\ fwHand = <<>> /\ \A j \in 1 .. Len(chan) : chan[j].k # "output"
      BY <3>2 DEF EndOvertakesNothing
    <3>4. kout = <<>> /\ rdHand = <<>> /\ ptyQ = <<>>
      BY <3>3 DEF EndOvertakesNothing
    <3>5. TakenOut = written /\ PassedOut = written
      BY <3>3, <3>4 DEF TakenOut, PassedOut, HoldsOutput, TypeOK, StateOK, ChildOK
    <3>6. fed + 1 \notin fed + 1 .. PassedOut
      BY <3>3 DEF InFlight
    <3>7. fed = written
      BY <3>5, <3>6 DEF InFlight, TypeOK, StateOK, EngineOK, ChildOK
    <3> QED
      BY <3>1, <3>3, <3>7, <2>1 DEF HandleStop, workVars
  <2>6. \A i \in 1 .. Len(chan') : chan'[i].k = "output_end" =>
          fwDone' /\ fwHand' = <<>> /\ \A j \in 1 .. Len(chan') : i < j => chan'[j].k # "output"
    BY <2>1, <2>2 DEF EndOvertakesNothing
  <2> QED
    BY <2>1, <2>4, <2>5, <2>6 DEF EndOvertakesNothing
<1>9. CASE Quiet
  <2>1. UNCHANGED QuietVars
    BY <1>9, QuietSteps
  <2>2. UNCHANGED HoldsOutput
    BY <2>1 DEF QuietVars, HoldsOutput
  <2>3. UNCHANGED fwDone /\ (closed => closed')
    BY <1>9, QuietFlags
  <2>4. rdDone' => closed' /\ kout' = <<>> /\ rdHand' = <<>>
    BY <1>9, <2>1, <2>3, QuietFlags DEF EndOvertakesNothing, QuietVars
  <2>5. rdDone => rdDone'
    BY <1>9, QuietFlags
  <2>6. UNCHANGED stop /\ (stop # "none" => pc' \in {"answer", "frame", "kill", "wait", "exit", "done"})
    BY <1>9, QuietStop DEF EndOvertakesNothing
  <2> QED
    BY <2>1, <2>2, <2>3, <2>4, <2>5, <2>6 DEF EndOvertakesNothing, QuietVars
<1> QED
  BY <1>1, <1>2, <1>3, <1>4, <1>5, <1>6, <1>7, <1>8, <1>9, NextSplit DEF Handle

FrameVars == <<pc, dirty, fed, shown, hostSize, emuSize, ptySize, greeted, outcome>>

\* No step forgets a frame that is due.
LEMMA FramesKeptStep ==
  ASSUME TypeOK, InFlight, EndOvertakesNothing, FramesKept, [Next]_vars
  PROVE  FramesKept'
<1> USE DEF FramesKept, sizeVars, workVars, seenVars
<1>1. CASE ChildStep \/ Reader \/ Forwarder \/ Control \/ Host
  <2>1. UNCHANGED FrameVars
    <3> USE DEF FrameVars
    <3>1. CASE ChildStep
      BY <3>1 DEF ChildStep, ChildStartWrite, ChildWrite, ChildRead, ChildExit, ChildDetach
    <3>2. CASE Reader \/ Forwarder
      BY <3>2 DEF Reader, RdRead, RdSend, RdEof, Forwarder, FwRecv, FwSend, FwEof
    <3>3. CASE Control \/ Host
      BY <3>3 DEF Control, CtlRead, CtlSend, CtlEof, Host, HostSend, HostCloseStdin, HostRead, HostDisconnect
    <3> QED
      BY <1>1, <3>1, <3>2, <3>3
  <2> QED
    BY <2>1 DEF FrameVars
<1>2. CASE Spawn
  BY <1>2 DEF Spawn
<1>3. CASE SpawnFails
  BY <1>3 DEF SpawnFails
<1>4. CASE Greet
  BY <1>4 DEF Greet
<1>5. CASE WireFails
  BY <1>5 DEF WireFails, Fail, AfterDrive
<1>6. CASE HandleOutput
  <2>1. fed' = fed + 1 /\ dirty' /\ pc' = "drain" /\ greeted
    BY <1>6, FedStep DEF HandleOutput, Receiving
  <2> QED
    BY <1>6, <2>1 DEF HandleOutput, TypeOK, StateOK, EngineOK, SeenOK
<1>7. CASE HandleStop
  BY <1>7 DEF HandleStop, Receiving
<1>8. CASE HandleReply
  BY <1>8 DEF HandleReply, Receiving
<1>9. CASE HandleInput
  BY <1>9 DEF HandleInput, Receiving
<1>10. CASE HandleResize
  BY <1>10 DEF HandleResize, Receiving
<1>11. CASE ResizeFails
  BY <1>11 DEF ResizeFails, Receiving, Fail, AfterDrive
<1>12. CASE HandleSignal
  BY <1>12 DEF HandleSignal, Receiving
<1>13. CASE WriteInput \/ WindowClose \/ Respond \/ NothingToSay \/ Reply
  BY <1>13 DEF WriteInput, WindowClose, Respond, NothingToSay, Reply
<1>14. CASE PtyWriteFails
  BY <1>14 DEF PtyWriteFails, Fail, AfterDrive
<1>15. CASE Frame
  BY <1>15 DEF Frame, AfterFrame, AfterDrive, TypeOK, StateOK, EngineOK
<1>16. CASE NoFrame
  BY <1>16 DEF NoFrame, FrameDue, AfterFrame, AfterDrive
<1>17. CASE Kill \/ Wait \/ ReportExit \/ ReportLost
  <2>1. UNCHANGED <<dirty, shown, fed, hostSize, emuSize, ptySize, outcome, greeted>>
    BY <1>17 DEF Kill, Wait, ReportExit, ReportLost
  <2>2. pc \in {"kill", "wait", "exit"} /\ pc' \in {"wait", "exit", "done"} /\ UNCHANGED stop
    BY <1>17 DEF Kill, Wait, ReportExit, ReportLost
  <2> QED
    BY <2>1, <2>2
<1>18. CASE UNCHANGED vars
  BY <1>18 DEF vars
<1> QED
  BY <1>1, <1>2, <1>3, <1>4, <1>5, <1>6, <1>7, <1>8, <1>9, <1>10, <1>11, <1>12, <1>13, <1>14,
     <1>15, <1>16, <1>17, <1>18
  DEF Next, Engine, Handle, Terminated

\* No step lets the engine's state and the child's drift apart.
LEMMA LifetimeStep ==
  ASSUME TypeOK, Lifetime, [Next]_vars
  PROVE  Lifetime'
<1> USE DEF Lifetime, childVars, seenVars
<1>1. CASE ChildStep \/ Reader \/ Forwarder \/ Control \/ Host
  BY <1>1 DEF ChildStep, ChildStartWrite, ChildWrite, ChildRead, ChildExit, ChildDetach, CanWrite,
     Reader, RdRead, RdSend, RdEof, Forwarder, FwRecv, FwSend, FwEof,
     Control, CtlRead, CtlSend, CtlEof, Host, HostSend, HostCloseStdin, HostRead, HostDisconnect
<1>2. CASE Spawn \/ SpawnFails \/ Greet \/ WireFails
  BY <1>2 DEF Spawn, SpawnFails, Greet, WireFails, Fail, AfterDrive
<1>3. CASE Handle
  BY <1>3 DEF Handle, HandleOutput, HandleStop, HandleReply, HandleInput, HandleResize, ResizeFails,
     HandleSignal, Receiving, Fail, AfterDrive
<1>4. CASE WriteInput \/ WindowClose \/ Respond \/ NothingToSay \/ PtyWriteFails \/ Reply
  BY <1>4 DEF WriteInput, WindowClose, Respond, NothingToSay, PtyWriteFails, Reply, Fail, AfterDrive
<1>5. CASE Frame \/ NoFrame
  BY <1>5 DEF Frame, NoFrame, AfterFrame, AfterDrive
<1>6. CASE Kill
  BY <1>6 DEF Kill
<1>7. CASE Wait \/ ReportExit \/ ReportLost
  BY <1>7 DEF Wait, ReportExit, ReportLost
<1>8. CASE UNCHANGED vars
  BY <1>8 DEF vars
<1> QED
  BY <1>1, <1>2, <1>3, <1>4, <1>5, <1>6, <1>7, <1>8 DEF Next, Engine, Terminated

\* A frame never shows less than the one before.
LEMMA ShownGrows ==
  ASSUME TypeOK, FramesKept, [Next]_vars
  PROVE  shown \in Nat /\ shown' \in Nat /\ shown <= shown'
<1> USE DEF seenVars
<1>1. shown \in Nat /\ fed \in Nat /\ shown <= fed
  BY DEF TypeOK, StateOK, SeenOK, EngineOK, FramesKept
<1>2. CASE Frame
  BY <1>1, <1>2 DEF Frame
<1>3. CASE UNCHANGED shown
  BY <1>1, <1>3
<1>4. CASE ChildStep \/ Reader \/ Forwarder \/ Control \/ Host
  BY <1>3, <1>4 DEF ChildStep, ChildStartWrite, ChildWrite, ChildRead, ChildExit, ChildDetach,
     Reader, RdRead, RdSend, RdEof, Forwarder, FwRecv, FwSend, FwEof,
     Control, CtlRead, CtlSend, CtlEof, Host, HostSend, HostCloseStdin, HostRead, HostDisconnect
<1>5. CASE Handle
  BY <1>3, <1>5 DEF Handle, HandleOutput, HandleStop, HandleReply, HandleInput, HandleResize,
     ResizeFails, HandleSignal
<1>6. CASE Greet \/ Reply \/ ReportExit \/ SpawnFails
  BY <1>3, <1>6 DEF Greet, Reply, ReportExit, SpawnFails
<1>7. CASE Spawn \/ WireFails \/ WriteInput \/ WindowClose \/ Respond \/ NothingToSay
             \/ PtyWriteFails \/ NoFrame \/ Kill \/ Wait \/ ReportLost
  BY <1>3, <1>7 DEF Spawn, WireFails, WriteInput, WindowClose, Respond, NothingToSay,
     PtyWriteFails, NoFrame, Kill, Wait, ReportLost
<1>8. CASE UNCHANGED vars
  BY <1>3, <1>8 DEF vars
<1> QED
  BY <1>2, <1>4, <1>5, <1>6, <1>7, <1>8 DEF Next, Engine, Terminated

\* What is in the pipe to the host stays in order and ends with the last frame.
LEMMA DeliveryStep ==
  ASSUME TypeOK, FramesKept, Delivery, [Next]_vars
  PROVE  Delivery'
<1>0. stdout \in Seq(View) /\ Len(stdout) \in Nat /\ view \in View
  BY DEF TypeOK, StdoutOK
<1>1. /\ stdout \in Seq(View) /\ Len(stdout) \in Nat
      /\ view.shown \in Nat /\ \A i \in 1 .. Len(stdout) : stdout[i].shown \in Nat
  <2>1. \A m \in View : m.shown \in Nat
    BY DEF View
  <2>2. \A i \in 1 .. Len(stdout) : stdout[i] \in View
    BY <1>0, ElementOfSeq
  <2> QED
    BY <1>0, <2>1, <2>2
<1>2. shown \in Nat /\ shown' \in Nat /\ shown <= shown'
  BY ShownGrows
<1>3. CASE CanTell /\ Tell
  <2>1. /\ Len(stdout') = Len(stdout) + 1 /\ stdout'[Len(stdout) + 1] = Told'
        /\ \A i \in 1 .. Len(stdout) : stdout'[i] = stdout[i]
        /\ stdout' # <<>> /\ view' = view
    BY <1>1, <1>3 DEF Tell
  <2>2. Told'.shown = shown'
    BY DEF Told
  <2>3. Delivered' = Told'
    BY <2>1 DEF Delivered
  <2>4. view'.shown <= shown'
    BY <1>1, <1>2, <2>1 DEF Delivery
  <2>5. \A i \in 1 .. Len(stdout') : view'.shown <= stdout'[i].shown /\ stdout'[i].shown <= shown'
    <3> SUFFICES ASSUME NEW i \in 1 .. Len(stdout')
                 PROVE  view'.shown <= stdout'[i].shown /\ stdout'[i].shown <= shown'
      OBVIOUS
    <3>1. CASE i \in 1 .. Len(stdout)
      BY <1>1, <1>2, <2>1, <3>1 DEF Delivery
    <3>2. CASE i = Len(stdout) + 1
      BY <1>2, <2>1, <2>2, <2>4, <3>2
    <3> QED
      BY <1>1, <2>1, <3>1, <3>2
  <2>6. \A i, j \in 1 .. Len(stdout') : i < j => stdout'[i].shown <= stdout'[j].shown
    <3> SUFFICES ASSUME NEW i \in 1 .. Len(stdout'), NEW j \in 1 .. Len(stdout'), i < j
                 PROVE  stdout'[i].shown <= stdout'[j].shown
      OBVIOUS
    <3>1. CASE j \in 1 .. Len(stdout)
      BY <1>1, <2>1, <3>1 DEF Delivery
    <3>2. CASE j = Len(stdout) + 1
      BY <2>1, <2>2, <2>5, <3>2
    <3>3. j \in 1 .. Len(stdout) \/ j = Len(stdout) + 1
      BY <1>0, <2>1
    <3> QED
      BY <3>1, <3>2, <3>3
  <2> QED
    BY <2>3, <2>4, <2>5, <2>6 DEF Delivery
<1>4. CASE HostRead
  <2>1. /\ stdout # <<>> /\ view' = stdout[1] /\ stdout' = Tail(stdout)
        /\ UNCHANGED <<greeted, shown, hostSize, replies, report>>
    BY <1>4 DEF HostRead
  <2>2. /\ Len(stdout) \in Nat \ {0} /\ Len(stdout') = Len(stdout) - 1
        /\ \A i \in 1 .. Len(stdout') : stdout'[i] = stdout[i + 1]
        /\ (stdout' = <<>> <=> Len(stdout') = 0)
    BY <1>1, <2>1, EmptySeq, HeadTailProperties
  <2>3. Delivered' = Told'
    <3>1. Told' = Told /\ stdout[Len(stdout)] = Told
      BY <2>1 DEF Told, Delivery, Delivered
    <3>2. CASE Len(stdout) = 1
      BY <2>1, <2>2, <3>1, <3>2 DEF Delivered
    <3>3. CASE Len(stdout) # 1
      <4>1. Len(stdout') \in 1 .. Len(stdout') /\ stdout' # <<>>
        BY <2>2, <3>3
      <4>2. stdout'[Len(stdout')] = stdout[Len(stdout)]
        BY <2>2, <4>1
      <4> QED
        BY <3>1, <4>1, <4>2 DEF Delivered
    <3> QED
      BY <3>2, <3>3
  <2>4. view'.shown <= shown'
    BY <2>1, <2>2 DEF Delivery
  <2>5. \A i \in 1 .. Len(stdout') : view'.shown <= stdout'[i].shown /\ stdout'[i].shown <= shown'
    BY <2>1, <2>2 DEF Delivery
  <2>6. \A i, j \in 1 .. Len(stdout') : i < j => stdout'[i].shown <= stdout'[j].shown
    BY <2>1, <2>2 DEF Delivery
  <2> QED
    BY <2>3, <2>4, <2>5, <2>6 DEF Delivery
<1>5. CASE UNCHANGED seenVars
  BY <1>5 DEF Delivery, Delivered, Told, seenVars
<1> QED
  BY <1>3, <1>4, <1>5, PipeSteps

\* The emulator is never ahead of the child.
LEMMA PassedBelowWritten ==
  ASSUME TypeOK, InFlight
  PROVE  fed <= written
<1>1. written - TakenOut \in Nat /\ TakenOut - PassedOut \in Nat
  BY DEF TypeOK, StateOK, ChildOK, PipeOK, Hand, TakenOut, PassedOut
<1>2. fed <= PassedOut
  BY DEF InFlight
<1> QED
  BY <1>1, <1>2, PassedInt DEF TypeOK, StateOK, EngineOK, ChildOK

\* The engine's channel has room for every chunk passed on and not yet fed: each
\* has a place of its own in it.
LEMMA RoomInChannel ==
  ASSUME TypeOK, InFlight
  PROVE  PassedOut - fed <= Len(chan)
<1>0. PassedOut \in Int /\ fed \in Nat /\ Len(chan) \in Nat
  BY PassedInt DEF TypeOK, StateOK, EngineOK, ChanOK
<1> DEFINE Chunks == fed + 1 .. PassedOut
           Places == 1 .. Len(chan)
           place == [m \in Chunks |->
                       CHOOSE i \in Places : chan[i].k = "output" /\ chan[i].n = m]
<1>1. SUFFICES ASSUME PassedOut - fed > Len(chan)
               PROVE  FALSE
  BY <1>0
<1>2. \A m \in Chunks : place[m] \in Places /\ chan[place[m]].n = m
  BY DEF InFlight
<1>3. /\ IsFiniteSet(Chunks) /\ IsFiniteSet(Places)
      /\ Cardinality(Chunks) = PassedOut - fed /\ Cardinality(Places) = Len(chan)
  <2>1. /\ fed + 1 \in Int /\ 1 \in Int /\ Len(chan) \in Int /\ ~(fed + 1 > PassedOut)
        /\ PassedOut - (fed + 1) + 1 = PassedOut - fed /\ Len(chan) - 1 + 1 = Len(chan)
        /\ (1 > Len(chan) => Len(chan) = 0)
    BY <1>0, <1>1
  <2>2. IsFiniteSet(Chunks) /\ Cardinality(Chunks) = PassedOut - fed
    BY <1>0, <2>1, FS_Interval
  <2>3. IsFiniteSet(Places) /\ Cardinality(Places) = Len(chan)
    BY <1>0, <2>1, FS_Interval
  <2> QED
    BY <2>2, <2>3
<1>4. place \in [Chunks -> Places] /\ Cardinality(Places) < Cardinality(Chunks)
  BY <1>0, <1>1, <1>2, <1>3
<1>5. \E m, n \in Chunks : m # n /\ place[m] = place[n]
  <2> HIDE DEF Chunks, Places, place
  <2> QED
    BY <1>3, <1>4, FS_PigeonHole
<1>6. PICK m \in Chunks, n \in Chunks : m # n /\ place[m] = place[n]
  BY <1>5
<1> HIDE DEF place
<1>7. chan[place[m]].n = m /\ chan[place[n]].n = n
  BY <1>2
<1> QED
  BY <1>6, <1>7

-----------------------------------------------------------------------------
(* The theorems.                                                           *)

\* The initial state satisfies the pipeline invariant.
LEMMA PipelineInit ==
  ASSUME Init
  PROVE  PipelineInv
<1>1. Upstream /\ EndOvertakesNothing
  BY DEF Init, Upstream, EndOvertakesNothing, HoldsOutput
<1>2. InFlight
  BY DEF Init, InFlight, HoldsOutput, TakenOut, PassedOut
<1>3. FramesKept /\ Lifetime
  BY DEF Init, FramesKept, Lifetime
<1>4. Delivery
  BY DEF Init, Delivery, Delivered, Told
<1> QED
  BY <1>1, <1>2, <1>3, <1>4 DEF PipelineInv

\* Between the child's write and the emulator no chunk is lost, duplicated or
\* reordered, no end overtakes it, no frame is forgotten and the child is
\* accounted for (pty.rs:56-68, engine.rs:72-213, 283-292).
THEOREM PipelineCorrect == Spec => []PipelineInv
<1>1. Init => PipelineInv
  BY PipelineInit
<1>2. TypeOK /\ PipelineInv /\ [Next]_vars => PipelineInv'
  BY UpstreamStep, InFlightStep, EndOvertakesNothingStep, FramesKeptStep, LifetimeStep, DeliveryStep
  DEF PipelineInv
<1> QED
  BY <1>1, <1>2, TypeCorrect, PTL DEF Spec

\* A session that ends because the output ended has shown every chunk the
\* child wrote (engine.rs:202-209, 283-292).
THEOREM ExitIsComplete == Spec => []ExitComplete
<1>1. TypeOK /\ PipelineInv => ExitComplete
  BY DEF PipelineInv, EndOvertakesNothing, FramesKept, Delivery, Told, ExitComplete
<1> QED
  BY <1>1, TypeCorrect, PipelineCorrect, PTL

\* Every chunk the engine takes is the one after the last it fed, never the same
\* again, and no other step feeds the emulator (engine.rs:225-228).
THEOREM FeedsInOrder == Spec => FedInOrder
<1>1. TypeOK /\ PipelineInv /\ [Next]_vars
         => [/\ HandleOutput => fed' = fed + 1
             /\ ~HandleOutput => UNCHANGED fed]_vars
  <2> SUFFICES ASSUME TypeOK, PipelineInv, [Next]_vars
               PROVE  /\ HandleOutput => fed' = fed + 1
                      /\ ~HandleOutput => UNCHANGED fed
    OBVIOUS
  <2>1. HandleOutput => fed' = fed + 1
    BY FedStep DEF PipelineInv
  <2>2. ASSUME ~HandleOutput
        PROVE  UNCHANGED fed
    <3>1. CASE Quiet
      BY <3>1, QuietSteps DEF QuietVars
    <3>2. CASE ~Quiet
      BY <2>2, <3>2, NextSplit DEF ChildWrite, RdRead, RdSend, FwRecv, FwEof, FwSend, CtlSend,
         HandleStop, HandleReply, HandleInput, HandleResize, ResizeFails, HandleSignal, workVars
    <3> QED
      BY <3>1, <3>2
  <2> QED
    BY <2>1, <2>2
<1> QED
  BY <1>1, TypeCorrect, PipelineCorrect, PTL DEF Spec, FedInOrder

\* The engine never sleeps with a frame due or a size the host, the emulator
\* and the PTY disagree on (engine.rs:167-211, 251-257).
THEOREM SleepsInSync == Spec => []IdleInSync
<1>1. PipelineInv => IdleInSync
  BY DEF PipelineInv, FramesKept, Delivery, Told, IdleInSync
<1> QED
  BY <1>1, PipelineCorrect, PTL

\* The child runs ahead of the emulator by what the buffers hold (engine.rs:22-24,
\* pty.rs:10-12).
THEOREM HoldsBack == Spec => []Backpressure
<1>1. TypeOK /\ PipelineInv => Backpressure
  <2> SUFFICES ASSUME TypeOK, InFlight
               PROVE  Backpressure
    BY DEF PipelineInv
  <2>1. /\ written - TakenOut = Len(kout) + Len(rdHand) + Len(ptyQ)
        /\ TakenOut - PassedOut <= 1
    BY DEF TypeOK, StateOK, ChildOK, PipeOK, Hand, TakenOut, PassedOut
  <2>2. /\ Len(kout) \in Nat /\ Len(rdHand) \in Nat /\ Len(ptyQ) \in Nat /\ Len(chan) \in Nat
        /\ Len(kout) <= TtyOut /\ Len(rdHand) <= 1 /\ Len(ptyQ) <= OutputCapacity
        /\ Len(chan) <= ChannelCapacity
        /\ fed \in Nat /\ written \in Nat
    BY DEF TypeOK, StateOK, ChildOK, PipeOK, ChanOK, EngineOK, Hand
  <2>3. PassedOut - fed <= Len(chan) /\ PassedOut \in Int /\ TakenOut \in Int
    BY RoomInChannel, PassedInt
  <2> QED
    BY <2>1, <2>2, <2>3, CapacityAssumption DEF Backpressure
<1> QED
  BY <1>1, TypeCorrect, PipelineCorrect, PTL

\* No path through drive leaves a child behind (engine.rs:115-131).
THEOREM ReapsChild == Spec => []ChildReaped
<1>1. PipelineInv => ChildReaped
  BY DEF PipelineInv, Lifetime, ChildReaped
<1> QED
  BY <1>1, PipelineCorrect, PTL

\* Seen from outside, the session is the promise of SessionPromise.
THEOREM ImplementsPromise == Spec => KeepsPromise
<1>1. Init => Promise!Init
  BY DEF Init, Promise!Init, Verdict, Open, Told
<1>2. TypeOK /\ PipelineInv /\ PipelineInv' /\ [Next]_vars
        => [Promise!Next]_<<written, view.shown, Verdict>>
  <2> SUFFICES ASSUME TypeOK, PipelineInv, PipelineInv', [Next]_vars
               PROVE  \/ Promise!Produce \/ Promise!Show \/ Promise!Complete \/ Promise!CutShort
                      \/ UNCHANGED <<written, view.shown, Verdict>>
    BY DEF Promise!Next
  <2> USE DEF childVars, seenVars, workVars
  <2>1. CASE ChildWrite
    <3>1. pc # "done"
      BY <2>1 DEF ChildWrite, CanWrite, PipelineInv, Lifetime
    <3> QED
      BY <2>1, <3>1 DEF ChildWrite, Promise!Produce, Verdict, Open
  <2>2. CASE HostRead
    <3>1. /\ stdout # <<>> /\ view' = stdout[1] /\ Verdict = "open"
          /\ UNCHANGED <<written, pc, outcome, stop, hostUp>>
      BY <2>2 DEF HostRead, Verdict, Open, hostVars
    <3>2. view.shown <= view'.shown /\ view'.shown <= shown /\ view'.shown \in Nat
      <4>1. 1 \in 1 .. Len(stdout) /\ stdout[1] \in View
        BY <3>1, EmptySeq, ElementOfSeq DEF TypeOK, StdoutOK
      <4> QED
        BY <3>1, <4>1 DEF PipelineInv, Delivery, View
    <3>3. shown <= written /\ shown \in Nat /\ written \in Nat /\ view.shown \in Nat
      BY PassedBelowWritten DEF PipelineInv, FramesKept, TypeOK, StateOK, SeenOK, EngineOK, ChildOK,
         StdoutOK, View
    <3>4. view'.shown \in view.shown .. written
      BY <3>2, <3>3
    <3>5. CASE Verdict' = "complete"
      <4>1. outcome = "ok" /\ stop = "output_end" /\ pc = "done" /\ stdout' = <<>>
        BY <2>2, <3>1, <3>5 DEF Verdict, Open, HostRead, hostVars
      <4>2. shown = written
        BY <4>1 DEF PipelineInv, EndOvertakesNothing, FramesKept
      <4>3. view'.shown = shown' /\ shown' = shown
        BY <2>2, <4>1 DEF PipelineInv, Delivery, Delivered, Told, HostRead
      <4> QED
        BY <3>1, <3>5, <4>2, <4>3 DEF Promise!Complete
    <3>6. CASE Verdict' = "open"
      BY <3>1, <3>4, <3>6 DEF Promise!Show
    <3>7. CASE Verdict' = "cut"
      BY <3>1, <3>4, <3>7 DEF Promise!CutShort
    <3> QED
      BY <3>5, <3>6, <3>7 DEF Verdict
  <2>3. CASE HostDisconnect \/ SpawnFails \/ ReportLost
    <3>1. /\ Verdict = "open" /\ Verdict' \in {"open", "cut"}
          /\ UNCHANGED <<written, view>>
      <4>1. CASE HostDisconnect
        BY <4>1 DEF HostDisconnect, Live, Verdict, Open
      <4>2. CASE SpawnFails
        <5>1. pc = "spawn" /\ pc' = "done" /\ UNCHANGED <<written, view, hostUp>>
          BY <4>2 DEF SpawnFails, Tell, hostVars
        <5>2. stop = "none" /\ stop' = stop
          BY <4>2, <5>1 DEF SpawnFails, PipelineInv, EndOvertakesNothing
        <5> QED
          BY <5>1, <5>2 DEF Verdict, Open
      <4>3. CASE ReportLost
        BY <4>3 DEF ReportLost, Verdict, Open, hostVars
      <4> QED
        BY <2>3, <4>1, <4>2, <4>3
    <3>2. view.shown \in view.shown .. written
      BY PassedBelowWritten DEF PipelineInv, FramesKept, Delivery, TypeOK, StateOK, SeenOK,
         EngineOK, ChildOK, StdoutOK, View
    <3> QED
      BY <3>1, <3>2 DEF Promise!CutShort
  <2>4. CASE ReportExit
    <3>1. stdout' # <<>>
      BY <2>4 DEF ReportExit, Tell, TypeOK, StdoutOK
    <3> QED
      BY <2>4, <3>1 DEF ReportExit, CanTell, Tell, Verdict, Open, hostVars
  <2>5. CASE Greet \/ Reply \/ Frame
    <3>1. pc # "done" /\ pc' # "done" /\ UNCHANGED <<written, view>>
      BY <2>5 DEF Greet, Reply, Frame, Tell, AfterFrame, AfterDrive
    <3> QED
      BY <3>1 DEF Verdict, Open
  <2>6. CASE ChildStartWrite \/ ChildRead \/ ChildExit \/ ChildDetach \/ Reader \/ Forwarder
               \/ Control \/ HostSend \/ HostCloseStdin
    <3>1. UNCHANGED <<written, view, stdout, pc, hostUp, outcome, stop>>
      <4>1. CASE ChildStartWrite \/ ChildRead \/ ChildExit \/ ChildDetach
        BY <4>1 DEF ChildStartWrite, ChildRead, ChildExit, ChildDetach, hostVars
      <4>2. CASE Reader \/ Forwarder
        BY <4>2 DEF Reader, RdRead, RdSend, RdEof, Forwarder, FwRecv, FwSend, FwEof, hostVars
      <4>3. CASE Control \/ HostSend \/ HostCloseStdin
        BY <4>3 DEF Control, CtlRead, CtlSend, CtlEof, HostSend, HostCloseStdin, hostVars
      <4> QED
        BY <2>6, <4>1, <4>2, <4>3
    <3> QED
      BY <3>1 DEF Verdict, Open
  <2>7. CASE Spawn \/ WireFails \/ WriteInput \/ WindowClose \/ Respond \/ NothingToSay
               \/ PtyWriteFails \/ NoFrame \/ Kill \/ Wait
    <3>1. pc # "done" /\ pc' # "done" /\ UNCHANGED <<written, view>>
      BY <2>7 DEF Spawn, WireFails, WriteInput, WindowClose, Respond, NothingToSay, PtyWriteFails,
         NoFrame, Kill, Wait, Fail, AfterFrame, AfterDrive
    <3> QED
      BY <3>1 DEF Verdict, Open
  <2>8. CASE Handle
    <3>1. pc # "done" /\ pc' # "done" /\ UNCHANGED <<written, view>>
      BY <2>8 DEF Handle, HandleOutput, HandleStop, HandleReply, HandleInput, HandleResize,
         ResizeFails, HandleSignal, Receiving, Fail, AfterDrive
    <3> QED
      BY <3>1 DEF Verdict, Open
  <2>9. CASE UNCHANGED vars
    BY <2>9 DEF vars, Verdict, Open, hostVars
  <2> QED
    BY <2>1, <2>2, <2>3, <2>4, <2>5, <2>6, <2>7, <2>8, <2>9
    DEF Next, ChildStep, Host, Engine, Terminated
<1> QED
  BY <1>1, <1>2, TypeCorrect, PipelineCorrect, PTL DEF Spec, KeepsPromise, Promise!Spec

=============================================================================
