------------------------ MODULE SessionControlProofs ------------------------
(***************************************************************************)
(* Theorems about the control path of Session, for every capacity, every    *)
(* bound and every host: ControlCorrect, its inductive invariant, and from  *)
(* it that controls are applied in order, that EOF loses nothing and that   *)
(* every terminal query is answered.                                        *)
(***************************************************************************)
EXTENDS SessionControl, SessionProofs

-----------------------------------------------------------------------------
(* Lists of numbers.                                                       *)

\* t is s and one more entry.
Extends(t, s, x) ==
    Len(t) = Len(s) + 1 /\ (\A i \in 1 .. Len(s) : t[i] = s[i]) /\ t[Len(s) + 1] = x

\* A list goes on with a number above all it holds.
LEMMA ListsMore ==
  ASSUME NEW s \in Seq(Nat), NEW t \in Seq(Nat), NEW S, NEW n \in Nat,
         Lists(s, S), \A m \in S : m < n, Extends(t, s, n)
  PROVE  Lists(t, S \cup {n})
<1> USE DEF Extends
<1>1. DOMAIN s = 1 .. Len(s) /\ DOMAIN t = 1 .. Len(t) /\ Len(s) \in Nat
  OBVIOUS
<1>2. \A i \in DOMAIN t : t[i] \in S \cup {n}
  BY <1>1 DEF Lists
<1>3. \A m \in S \cup {n} : \E i \in DOMAIN t : t[i] = m
  <2> SUFFICES ASSUME NEW m \in S \cup {n}
               PROVE  \E i \in DOMAIN t : t[i] = m
    OBVIOUS
  <2>1. CASE m = n
    BY <1>1, <2>1
  <2>2. CASE m \in S
    <3>1. PICK i \in DOMAIN s : s[i] = m
      BY <2>2 DEF Lists
    <3> QED
      BY <1>1, <3>1
  <2> QED
    BY <2>1, <2>2
<1>4. \A i, j \in DOMAIN t : i < j => t[i] < t[j]
  <2> SUFFICES ASSUME NEW i \in DOMAIN t, NEW j \in DOMAIN t, i < j
               PROVE  t[i] < t[j]
    OBVIOUS
  <2>1. i \in DOMAIN s /\ t[i] = s[i] /\ s[i] \in S
    BY <1>1 DEF Lists
  <2>2. CASE j \in DOMAIN s
    BY <1>1, <2>1, <2>2 DEF Lists
  <2>3. CASE j = Len(s) + 1
    BY <2>1, <2>3
  <2> QED
    BY <1>1, <2>2, <2>3
<1> QED
  BY <1>2, <1>3, <1>4 DEF Lists

\* The empty list is the only one of no numbers.
LEMMA ListsNothing ==
  ASSUME NEW s \in Seq(Nat)
  PROVE  /\ s = <<>> => Lists(s, {})
         /\ \A S : s = <<>> /\ Lists(s, S) => S = {}
<1>1. DOMAIN s = 1 .. Len(s) /\ (s = <<>> => Len(s) = 0)
  OBVIOUS
<1> QED
  BY <1>1 DEF Lists

TypedEntry == [k : {"input", "answer"}, s : Seq(Nat)]

\* A write of numbers above all those written goes on with the list.
LEMMA WritesMore ==
  ASSUME NEW t \in Seq(TypedEntry), NEW u \in Seq(TypedEntry), NEW kind, NEW S, NEW T,
         NEW s \in Seq(Nat), Extends(u, t, Typed(kind, s)),
         WritesList(t, kind, S), Lists(s, T), \A m \in S : \A n \in T : m < n
  PROVE  WritesList(u, kind, S \cup T)
<1>b. /\ DOMAIN t = 1 .. Len(t) /\ DOMAIN u = 1 .. Len(t) + 1 /\ Len(t) \in Nat
      /\ \A e \in 1 .. Len(t) : u[e] = t[e]
      /\ u[Len(t) + 1] = [k |-> kind, s |-> s]
  BY DEF Extends, Typed
<1> DEFINE l == Len(t) + 1
<1>1. /\ \A e \in Writes(t, kind) : u[e] = t[e] /\ e < l
      /\ Writes(u, kind) = Writes(t, kind) \cup {l}
      /\ u[l].s = s
  BY <1>b DEF Writes
<1>2. /\ \A i \in DOMAIN s : s[i] \in T
      /\ \A m \in T : \E i \in DOMAIN s : s[i] = m
      /\ \A i, j \in DOMAIN s : i < j => s[i] < s[j]
  BY DEF Lists
<1>0. l \in Nat /\ Writes(t, kind) \subseteq Nat
  BY DEF Writes
<1> HIDE DEF l
<1>3. \A e \in Writes(u, kind) : \A i \in DOMAIN u[e].s : u[e].s[i] \in S \cup T
  BY <1>1, <1>2 DEF WritesList
<1>4. \A m \in S \cup T : \E e \in Writes(u, kind) : \E i \in DOMAIN u[e].s : u[e].s[i] = m
  <2> SUFFICES ASSUME NEW m \in S \cup T
               PROVE  \E e \in Writes(u, kind) : \E i \in DOMAIN u[e].s : u[e].s[i] = m
    OBVIOUS
  <2>1. CASE m \in T
    BY <1>1, <1>2, <2>1
  <2>2. CASE m \in S
    <3>1. PICK e \in Writes(t, kind) : \E i \in DOMAIN t[e].s : t[e].s[i] = m
      BY <2>2 DEF WritesList
    <3> QED
      BY <1>1, <3>1
  <2> QED
    BY <2>1, <2>2
<1>5. \A e \in Writes(u, kind) : \A i, j \in DOMAIN u[e].s : i < j => u[e].s[i] < u[e].s[j]
  BY <1>1, <1>2 DEF WritesList
<1>6. \A e, f \in Writes(u, kind) : e < f =>
         \A i \in DOMAIN u[e].s : \A j \in DOMAIN u[f].s : u[e].s[i] < u[f].s[j]
  <2> SUFFICES ASSUME NEW e \in Writes(u, kind), NEW f \in Writes(u, kind), e < f,
                      NEW i \in DOMAIN u[e].s, NEW j \in DOMAIN u[f].s
               PROVE  u[e].s[i] < u[f].s[j]
    OBVIOUS
  <2>1. e \in Writes(t, kind)
    BY <1>0, <1>1
  <2>2. CASE f = l
    <3>1. u[e].s[i] \in S /\ u[f].s[j] \in T
      BY <1>1, <1>2, <2>1, <2>2 DEF WritesList
    <3> QED
      BY <3>1
  <2>3. CASE f \in Writes(t, kind)
    BY <1>1, <2>1, <2>3 DEF WritesList
  <2> QED
    BY <1>1, <2>2, <2>3
<1> QED
  BY <1>3, <1>4, <1>5, <1>6 DEF WritesList

\* A write of another kind leaves the list as it is.
LEMMA WritesOther ==
  ASSUME NEW t \in Seq(TypedEntry), NEW u \in Seq(TypedEntry), NEW kind, NEW S, NEW s,
         Extends(u, t, Typed(kind, s)), NEW other, other # kind, WritesList(t, other, S)
  PROVE  WritesList(u, other, S)
<1>b. /\ DOMAIN t = 1 .. Len(t) /\ DOMAIN u = 1 .. Len(t) + 1 /\ Len(t) \in Nat
      /\ \A e \in 1 .. Len(t) : u[e] = t[e]
      /\ u[Len(t) + 1] = [k |-> kind, s |-> s]
  BY DEF Extends, Typed
<1>1. Writes(u, other) = Writes(t, other) /\ \A e \in Writes(t, other) : u[e] = t[e]
  BY <1>b DEF Writes
<1> QED
  BY <1>1 DEF WritesList

-----------------------------------------------------------------------------
(* Messages and their numbers.                                             *)

\* Types of what the control path is made of.
LEMMA ControlTypes ==
  ASSUME TypeOK
  PROVE  /\ sent \in Seq(HostMessage) /\ Len(sent) \in Nat
         /\ read \in Nat /\ read <= Len(sent)
         /\ chan \in Seq(ChanMessage) /\ Len(chan) \in Nat
         /\ \A i \in 1 .. Len(chan) : chan[i] \in ChanMessage /\ chan[i].n \in Nat
         /\ \A m \in 1 .. Len(sent) : sent[m] \in HostMessage
         /\ fed \in Nat /\ replies \in Seq(Nat) /\ responses \in Seq(Nat)
         /\ typed \in Seq(TypedEntry) /\ outcome \in {"ok", "err"}
<1>1. /\ sent \in Seq(HostMessage) /\ read \in 0 .. Len(sent) /\ chan \in Seq(ChanMessage)
      /\ fed \in Nat /\ replies \in Seq(Nat) /\ responses \in Seq(Nat)
      /\ typed \in Seq(TypedEntry) /\ outcome \in {"ok", "err"}
  BY DEF TypeOK, StateOK, HostOK, ControlOK, ChanOK, EngineOK, SeenOK, TypedEntry
<1>2. \A i \in 1 .. Len(chan) : chan[i] \in ChanMessage
  BY <1>1, ElementOfSeq
<1>3. \A i \in 1 .. Len(chan) : chan[i].n \in Nat
  BY <1>2, ChanTypes
<1>4. \A m \in 1 .. Len(sent) : sent[m] \in HostMessage
  BY <1>1, ElementOfSeq
<1> QED
  BY <1>1, <1>2, <1>3, <1>4

\* What decodes carries the number of what was sent.
LEMMA DecodeNumber ==
  ASSUME NEW c \in HostMessage, Decode(c) # <<>>
  PROVE  Decode(c) = <<Decode(c)[1]>> /\ Decode(c)[1].n = c.n /\ Carries(Decode(c)[1])
<1>1. CASE c.k \in {"malformed", "garbage"}
  BY <1>1 DEF Decode, Message, Carries
<1>2. CASE c.k \notin {"unknown", "malformed", "garbage"}
  BY <1>2 DEF Decode, Carries, HostMessage, ControlKinds
<1> QED
  BY <1>1, <1>2 DEF Decode

\* Nothing is owed for what does not decode.
LEMMA DecodeNothing ==
  ASSUME NEW c \in HostMessage, Decode(c) = <<>>
  PROVE  ~NeedsReply(c) /\ c.k # "input"
<1>1. c.k = "unknown"
  BY DEF Decode
<1> QED
  BY <1>1 DEF NeedsReply

\* The handler replies to what needs a reply, and types what is input.
LEMMA DecodeKind ==
  ASSUME NEW c \in HostMessage, NEW d, Decode(c) = <<d>>
  PROVE  /\ Answered(d.k) <=> NeedsReply(c)
         /\ d.k = "input" <=> c.k = "input"
<1>1. c.k \in ControlKinds
  BY DEF HostMessage
<1>2. CASE c.k \in {"malformed", "garbage"}
  <2>1. d.k = "control_error"
    BY <1>2 DEF Decode, Message
  <2> QED
    BY <1>2, <2>1 DEF Answered, NeedsReply
<1>3. CASE c.k \notin {"unknown", "malformed", "garbage"}
  <2>1. d = c
    BY <1>3 DEF Decode
  <2> QED
    BY <1>1, <1>3, <2>1 DEF Answered, NeedsReply, ControlKinds
<1> QED
  BY <1>2, <1>3 DEF Decode

\* The actions that move no control message and no answer, and let the engine's
\* state go on without them.
Idle ==
    \/ ChildStep \/ Reader \/ FwRecv \/ FwEof
    \/ HostCloseStdin \/ HostRead \/ HostDisconnect
    \/ Spawn \/ Greet \/ WindowClose \/ NothingToSay \/ Frame \/ NoFrame
    \/ Kill \/ Wait \/ ReportExit \/ ReportLost \/ UNCHANGED vars

LEMMA ControlSplit ==
  ASSUME [Next]_vars
  PROVE  \/ CtlRead \/ CtlSend \/ CtlEof \/ FwSend \/ HostSend
         \/ HandleOutput \/ HandleStop \/ HandleReply \/ HandleInput \/ HandleResize
         \/ ResizeFails \/ HandleSignal
         \/ Reply \/ WriteInput \/ Respond \/ PtyWriteFails \/ WireFails \/ SpawnFails \/ Idle
BY DEF Next, Forwarder, Control, Host, Engine, Handle, Terminated, Idle

\* An idle step changes nothing the control path is made of.
LEMMA IdleSteps ==
  ASSUME Idle
  PROVE  /\ UNCHANGED <<sent, read, ctlHand, ctlState, chan, pending, replies, typed,
                        responses, fed, outcome, stop>>
         /\ stdinOpen' => stdinOpen
         /\ (pc \in {"input", "reply"} \/ pc' \in {"input", "reply"}) => pc' = pc
         /\ pc \in {"kill", "wait", "exit", "done"} => pc' \in {"kill", "wait", "exit", "done"}
         /\ pc' \in {"spawn", "greet", "recv", "frame"} =>
               pc \in {"spawn", "greet", "recv", "frame"} \/ responses = <<>>
<1> USE DEF childVars, outputVars, ctlVars, hostVars, sizeVars, workVars, seenVars
<1>1. CASE ChildStep
  <2>1. UNCHANGED <<ctlVars, hostVars, workVars, seenVars, typed, chan, pc, stop, outcome>>
    BY <1>1 DEF ChildStep, ChildStartWrite, ChildWrite, ChildRead, ChildExit, ChildDetach
  <2> QED
    BY <2>1
<1>2. CASE Reader \/ FwRecv \/ FwEof
  BY <1>2 DEF Reader, RdRead, RdSend, RdEof, FwRecv, FwEof
<1>3. CASE HostCloseStdin \/ HostRead \/ HostDisconnect
  BY <1>3 DEF HostCloseStdin, HostRead, HostDisconnect
<1>4. CASE Spawn \/ Greet
  BY <1>4 DEF Spawn, Greet
<1>5. CASE WindowClose \/ NothingToSay
  BY <1>5 DEF WindowClose, NothingToSay, RespondDue
<1>6. CASE Frame \/ NoFrame
  BY <1>6 DEF Frame, NoFrame, AfterFrame, AfterDrive
<1>7. CASE Kill \/ Wait \/ ReportExit \/ ReportLost
  <2>1. UNCHANGED <<ctlVars, hostVars, workVars, typed, chan, stop, outcome, replies>>
    BY <1>7 DEF Kill, Wait, ReportExit, ReportLost
  <2>2. pc \in {"kill", "wait", "exit"} /\ pc' \in {"wait", "exit", "done"}
    BY <1>7 DEF Kill, Wait, ReportExit, ReportLost
  <2> QED
    BY <2>1, <2>2
<1>8. CASE UNCHANGED vars
  BY <1>8 DEF vars
<1> QED
  BY <1>1, <1>2, <1>3, <1>4, <1>5, <1>6, <1>7, <1>8 DEF Idle

\* The host only ever adds to what it sent.
LEMMA SentGrows ==
  ASSUME TypeOK, [Next]_vars
  PROVE  Len(sent) <= Len(sent') /\ Len(sent') \in Nat
         /\ \A m \in 1 .. Len(sent) : sent'[m] = sent[m]
<1>1. sent \in Seq(HostMessage) /\ Len(sent) \in Nat
  BY ControlTypes
<1>2. CASE HostSend
  <2>1. PICK c : sent' = Append(sent, c)
    BY <1>2 DEF HostSend
  <2> QED
    BY <1>1, <2>1
<1>3. CASE UNCHANGED sent
  BY <1>1, <1>3
<1>4. CASE CtlRead \/ CtlSend \/ CtlEof \/ FwSend
  BY <1>3, <1>4 DEF CtlRead, CtlSend, CtlEof, FwSend, hostVars
<1>5. CASE HandleOutput \/ HandleStop \/ HandleReply \/ HandleInput \/ HandleResize
             \/ ResizeFails \/ HandleSignal
  BY <1>3, <1>5 DEF HandleOutput, HandleStop, HandleReply, HandleInput, HandleResize,
     ResizeFails, HandleSignal, hostVars
<1>6. CASE Reply \/ WriteInput \/ Respond \/ PtyWriteFails \/ WireFails \/ SpawnFails
  BY <1>3, <1>6 DEF Reply, WriteInput, Respond, PtyWriteFails, WireFails, SpawnFails, hostVars
<1>7. CASE Idle
  BY <1>3, <1>7, IdleSteps
<1> QED
  BY <1>2, <1>4, <1>5, <1>6, <1>7, ControlSplit

\* The forwarder's message is no control message.
LEMMA OutputSent ==
  ASSUME TypeOK, FwSend
  PROVE  /\ Extends(chan', chan, chan'[Len(chan) + 1])
         /\ chan'[Len(chan) + 1].k \in {"output", "output_end"}
<1>1. Hand(fwHand, OutputMessage \cup {OutputEnd}) /\ fwHand # <<>> /\ chan' = chan \o fwHand
  BY DEF TypeOK, StateOK, PipeOK, FwSend
<1>2. fwHand[1] \in OutputMessage \cup {OutputEnd}
  BY <1>1, OneInHand
<1>3. fwHand[1].k \in {"output", "output_end"}
  BY <1>2 DEF OutputMessage, OutputEnd
<1> QED
  BY <1>1, <1>3, SentOn DEF Extends

\* The control reader's is the one in its hand.
LEMMA ControlSent ==
  ASSUME TypeOK, CtlSend
  PROVE  Extends(chan', chan, ctlHand[1])
<1>1. Hand(ctlHand, ControlMessage \cup {ControlEnd}) /\ ctlHand # <<>> /\ chan' = chan \o ctlHand
  BY DEF TypeOK, StateOK, ControlOK, CtlSend
<1> QED
  BY <1>1, SentOn DEF Extends

\* Of the engine's actions only those on the channel touch it or the reason to stop.
LEMMA QuietChannel ==
  ASSUME Reply \/ WriteInput \/ Respond \/ PtyWriteFails \/ WireFails \/ SpawnFails
  PROVE  UNCHANGED <<chan, stop, ctlHand, ctlState, read, sent, stdinOpen>>
BY DEF Reply, WriteInput, Respond, PtyWriteFails, WireFails, SpawnFails, ctlVars, hostVars

\* The actions that take the head of the channel.
LEMMA HandleSteps ==
  ASSUME HandleOutput \/ HandleStop \/ HandleReply \/ HandleInput \/ HandleResize
            \/ ResizeFails \/ HandleSignal
  PROVE  /\ Receiving /\ chan' = Tail(chan)
         /\ UNCHANGED <<ctlHand, ctlState, read, sent, stdinOpen, typed, replies>>
         /\ stop' = IF HandleStop THEN chan[1].k ELSE stop
<1> USE DEF ctlVars, hostVars, seenVars
<1>1. CASE HandleStop
  BY <1>1 DEF HandleStop, Receiving
<1>2. CASE ~HandleStop
  BY <1>2 DEF HandleOutput, HandleReply, HandleInput, HandleResize, ResizeFails, HandleSignal
<1> QED
  BY <1>1, <1>2

\* The control reader never loses its place in the host's stream.
LEMMA StreamStep ==
  ASSUME TypeOK, Stream, [Next]_vars
  PROVE  Stream'
<1>0. /\ sent \in Seq(HostMessage) /\ Len(sent) \in Nat
      /\ read \in Nat /\ read <= Len(sent)
  BY ControlTypes
<1>1. CASE HostSend
  <2>1. PICK k, v : sent' = Append(sent, Message(k, Len(sent) + 1, v))
    BY <1>1 DEF HostSend
  <2>2. UNCHANGED <<read, ctlState>> /\ stdinOpen
    BY <1>1 DEF HostSend, ctlVars
  <2>3. /\ Len(sent') = Len(sent) + 1 /\ sent'[Len(sent) + 1].n = Len(sent) + 1
        /\ \A m \in 1 .. Len(sent) : sent'[m] = sent[m]
    BY <1>0, <2>1 DEF Message
  <2>4. \A m \in 1 .. Len(sent') : sent'[m].n = m
    BY <1>0, <2>3 DEF Stream
  <2>5. Accepted(read)' /\ (read # 0 => Fatal(sent[read])' = Fatal(sent[read]))
    BY <1>0, <2>2, <2>3 DEF Stream, Accepted, Fatal
  <2> QED
    BY <1>0, <2>2, <2>3, <2>4, <2>5 DEF Stream
<1>2. CASE CtlRead
  <2>1. /\ read' = read + 1 /\ sent' = sent /\ read < Len(sent) /\ ctlState = "reading"
        /\ ctlState' = IF Fatal(sent[read + 1]) THEN "ending" ELSE "reading"
    BY <1>2 DEF CtlRead, hostVars
  <2>2. Accepted(read')
    BY <1>0, <2>1 DEF Stream, Accepted
  <2> QED
    BY <1>0, <2>1, <2>2 DEF Stream, Accepted, Fatal
<1>3. CASE CtlEof
  <2>1. UNCHANGED <<sent, read, stdinOpen>> /\ StreamOver /\ ctlState' = "done"
    BY <1>3 DEF CtlEof, hostVars
  <2> QED
    BY <2>1 DEF Stream, Accepted, Fatal, StreamOver
<1>4. CASE UNCHANGED <<sent, read, ctlState>> /\ (stdinOpen' => stdinOpen)
  BY <1>4 DEF Stream, Accepted, Fatal
<1>5. CASE CtlSend \/ FwSend
  BY <1>4, <1>5 DEF CtlSend, FwSend, ctlVars, hostVars
<1>6. CASE HandleOutput \/ HandleStop \/ HandleReply \/ HandleInput \/ HandleResize
             \/ ResizeFails \/ HandleSignal
  BY <1>4, <1>6, HandleSteps
<1>7. CASE Reply \/ WriteInput \/ Respond \/ PtyWriteFails \/ WireFails \/ SpawnFails
  BY <1>4, <1>7, QuietChannel
<1>8. CASE Idle
  BY <1>4, <1>8, IdleSteps
<1> QED
  BY <1>1, <1>2, <1>3, <1>5, <1>6, <1>7, <1>8, ControlSplit

\* The end of the control stream stays the last of it.
LEMMA EndComesLastStep ==
  ASSUME TypeOK, EndComesLast, [Next]_vars
  PROVE  EndComesLast'
<1>0. Len(chan) \in Nat
  BY ControlTypes
<1>1. CASE CtlRead
  <2>1. /\ ctlHand' = Decode(sent[read + 1]) /\ UNCHANGED <<chan, stop>> /\ ctlState = "reading"
        /\ sent[read + 1] \in HostMessage
    BY <1>1, ControlTypes DEF CtlRead
  <2>2. ctlHand' # <<>> => Carries(ctlHand'[1])
    BY <2>1, DecodeNumber
  <2> QED
    BY <2>1, <2>2 DEF EndComesLast, HoldsControl
<1>2. CASE CtlSend
  <2>1. ctlHand # <<>> /\ ctlHand' = <<>> /\ UNCHANGED <<ctlState, stop>>
    BY <1>2 DEF CtlSend
  <2>2. Extends(chan', chan, ctlHand[1])
    BY <1>2, ControlSent
  <2>3. \A i \in 1 .. Len(chan') : chan'[i].k = "control_end" =>
           i = Len(chan) + 1 /\ ctlState = "done"
    BY <1>0, <2>1, <2>2 DEF EndComesLast, Extends, HoldsControl, Carries
  <2>4. stop # "control_end"
    BY <2>1 DEF EndComesLast
  <2> QED
    BY <1>0, <2>1, <2>2, <2>3, <2>4 DEF EndComesLast, Extends, HoldsControl
<1>3. CASE CtlEof
  <2>1. /\ ctlHand = <<>> /\ ctlHand' = <<ControlEnd>> /\ ctlState # "done" /\ ctlState' = "done"
        /\ UNCHANGED <<chan, stop>>
    BY <1>3 DEF CtlEof, StreamOver
  <2> QED
    BY <2>1 DEF EndComesLast
<1>4. CASE FwSend
  <2>1. UNCHANGED <<ctlHand, ctlState, stop>>
    BY <1>4 DEF FwSend, ctlVars
  <2>2. Len(chan') = Len(chan) + 1 /\ \A i \in 1 .. Len(chan) : chan'[i] = chan[i]
    BY <1>4, OutputSent DEF Extends
  <2>3. chan'[Len(chan) + 1].k \in {"output", "output_end"}
    BY <1>4, OutputSent
  <2> QED
    BY <1>0, <2>1, <2>2, <2>3 DEF EndComesLast, HoldsControl, Carries
<1>5. CASE HandleOutput \/ HandleStop \/ HandleReply \/ HandleInput \/ HandleResize
             \/ ResizeFails \/ HandleSignal
  <2>1. /\ Len(chan) \in Nat \ {0} /\ Len(chan') = Len(chan) - 1
        /\ \A i \in 1 .. Len(chan') : chan'[i] = chan[i + 1]
    BY <1>5, HandleSteps, Received
  <2>2. UNCHANGED <<ctlHand, ctlState>> /\ (stop' = chan[1].k \/ stop' = stop)
    BY <1>5, HandleSteps
  <2>3. \A i \in 1 .. Len(chan') : chan'[i].k = "control_end" =>
           /\ ctlState = "done" /\ ctlHand = <<>>
           /\ \A j \in 1 .. Len(chan') : i < j => ~Carries(chan'[j])
    <3> SUFFICES ASSUME NEW i \in 1 .. Len(chan'), chan'[i].k = "control_end"
                 PROVE  /\ ctlState = "done" /\ ctlHand = <<>>
                        /\ \A j \in 1 .. Len(chan') : i < j => ~Carries(chan'[j])
      OBVIOUS
    <3>1. i + 1 \in 1 .. Len(chan) /\ chan[i + 1].k = "control_end"
      BY <2>1
    <3>2. ctlState = "done" /\ ctlHand = <<>>
      BY <3>1 DEF EndComesLast
    <3>3. ASSUME NEW j \in 1 .. Len(chan'), i < j PROVE ~Carries(chan'[j])
      <4>1. j + 1 \in 1 .. Len(chan) /\ i + 1 < j + 1 /\ chan'[j] = chan[j + 1]
        BY <2>1, <3>3
      <4> QED
        BY <3>1, <4>1 DEF EndComesLast
    <3> QED
      BY <3>2, <3>3
  <2>4. stop' = "control_end" =>
           ctlState = "done" /\ ctlHand = <<>> /\ \A i \in 1 .. Len(chan') : ~Carries(chan'[i])
    BY <2>1, <2>2 DEF EndComesLast
  <2> QED
    BY <2>2, <2>3, <2>4 DEF EndComesLast, HoldsControl
<1>6. CASE UNCHANGED <<chan, stop, ctlHand, ctlState>>
  BY <1>6 DEF EndComesLast, HoldsControl
<1>7. CASE Reply \/ WriteInput \/ Respond \/ PtyWriteFails \/ WireFails \/ SpawnFails
  BY <1>6, <1>7, QuietChannel
<1>8. CASE HostSend
  BY <1>6, <1>8 DEF HostSend, ctlVars
<1>9. CASE Idle
  BY <1>6, <1>9, IdleSteps
<1> QED
  BY <1>1, <1>2, <1>3, <1>4, <1>5, <1>7, <1>8, <1>9, ControlSplit

\* The engine holds a message exactly while it is at work on it.
LEMMA WorkStep ==
  ASSUME TypeOK, Work, [Next]_vars
  PROVE  Work'
<1> USE DEF Work, workVars
<1>1. CASE CtlRead \/ CtlSend \/ CtlEof \/ FwSend \/ HostSend
  BY <1>1 DEF CtlRead, CtlSend, CtlEof, FwSend, HostSend
<1>2. CASE HandleOutput \/ HandleStop \/ HandleResize \/ ResizeFails \/ HandleSignal
  BY <1>2 DEF HandleOutput, HandleStop, HandleResize, ResizeFails, HandleSignal, Receiving, Fail, AfterDrive
<1>3. CASE HandleReply \/ HandleInput
  <2>1. CASE HandleReply
    BY <2>1 DEF HandleReply, Receiving
  <2>2. CASE HandleInput
    BY <2>2 DEF HandleInput, Receiving
  <2> QED
    BY <1>3, <2>1, <2>2
<1>4. CASE Reply \/ WriteInput \/ Respond \/ PtyWriteFails \/ WireFails \/ SpawnFails
  BY <1>4 DEF Reply, WriteInput, Respond, PtyWriteFails, WireFails, SpawnFails, Fail, AfterDrive
<1>5. CASE Idle
  BY <1>5, IdleSteps
<1> QED
  BY <1>1, <1>2, <1>3, <1>4, <1>5, ControlSplit

-----------------------------------------------------------------------------
(* What is on its way to the engine.                                        *)

\* What a first part of the host's messages is owed does not change.
LEMMA DueKept ==
  ASSUME NEW n \in Nat, \A m \in 1 .. n : sent'[m] = sent[m]
  PROVE  RepliesDue(n)' = RepliesDue(n) /\ InputsDue(n)' = InputsDue(n)
<1>1. RepliesDue(n)' = {m \in 1 .. n : NeedsReply(sent'[m])}
  BY DEF RepliesDue
<1>2. InputsDue(n)' = {m \in 1 .. n : sent'[m].k = "input"}
  BY DEF InputsDue
<1>3. {m \in 1 .. n : NeedsReply(sent'[m])} = RepliesDue(n)
  BY DEF RepliesDue
<1>4. {m \in 1 .. n : sent'[m].k = "input"} = InputsDue(n)
  BY DEF InputsDue
<1> QED
  BY <1>1, <1>2, <1>3, <1>4

\* A step that leaves the channel and the control reader alone.
LEMMA ComingKept ==
  ASSUME TypeOK, NEW h \in 0 .. read, Coming(h), UNCHANGED <<read, ctlHand, chan>>,
         \A m \in 1 .. read : sent'[m] = sent[m], outcome' = "ok" => outcome = "ok"
  PROVE  Coming(h)'
<1>0. read \in Nat /\ \A i \in 1 .. Len(chan) : chan[i].n \in Nat
  BY ControlTypes
<1>1. UNCHANGED <<Forwarded, HoldsControl>> /\ Forwarded \in Int /\ Forwarded <= read
      /\ (HoldsControl => read # 0)
  BY <1>0 DEF Forwarded, HoldsControl, Coming
<1>2. \A i \in 1 .. Len(chan) : Carries(chan[i]) => sent'[chan[i].n] = sent[chan[i].n]
  BY <1>0, <1>1 DEF Coming
<1>3. HoldsControl => sent'[read] = sent[read]
  BY <1>0, <1>1
<1> QED
  BY <1>0, <1>1, <1>2, <1>3 DEF Coming

\* Output joins the channel.
LEMMA ComingBehind ==
  ASSUME TypeOK, NEW h \in 0 .. read, Coming(h), UNCHANGED <<read, sent, outcome>>,
         NEW c, Extends(chan', chan, c), Forwarded' = Forwarded, ~Carries(c),
         HoldsControl' => HoldsControl /\ ctlHand' = ctlHand
  PROVE  Coming(h)'
<1>0. Len(chan) \in Nat /\ h \in Nat
  BY ControlTypes
<1>1. \A i \in 1 .. Len(chan') : Carries(chan'[i]) => i \in 1 .. Len(chan) /\ chan'[i] = chan[i]
  BY <1>0 DEF Extends
<1>2. \A i \in 1 .. Len(chan) : i \in 1 .. Len(chan') /\ chan'[i] = chan[i]
  BY <1>0 DEF Extends
<1>3. \A m \in h + 1 .. Forwarded : outcome = "ok" /\ Decode(sent[m]) # <<>> =>
         \E i \in 1 .. Len(chan') : Carries(chan'[i]) /\ chan'[i].n = m
  BY <1>2 DEF Coming
<1> QED
  BY <1>1, <1>3 DEF Coming

\* The engine takes what is not a control message.
LEMMA ComingPast ==
  ASSUME TypeOK, NEW h \in 0 .. read, Coming(h), Receiving, chan' = Tail(chan),
         ~Carries(chan[1]), UNCHANGED <<read, sent, ctlHand>>, outcome' = "ok" => outcome = "ok"
  PROVE  Coming(h)'
<1>1. /\ Len(chan) \in Nat \ {0} /\ Len(chan') = Len(chan) - 1
      /\ \A i \in 1 .. Len(chan') : chan'[i] = chan[i + 1]
  BY Received
<1>2. UNCHANGED <<Forwarded, HoldsControl>>
  BY DEF Forwarded, HoldsControl
<1>3. \A i \in 1 .. Len(chan') : i + 1 \in 1 .. Len(chan) /\ chan'[i] = chan[i + 1]
  BY <1>1
<1>4. \A i, j \in 1 .. Len(chan') :
         i < j /\ Carries(chan'[i]) /\ Carries(chan'[j]) => chan'[i].n < chan'[j].n
  <2> SUFFICES ASSUME NEW i \in 1 .. Len(chan'), NEW j \in 1 .. Len(chan'), i < j,
                      Carries(chan'[i]), Carries(chan'[j])
               PROVE  chan'[i].n < chan'[j].n
    OBVIOUS
  <2>1. i + 1 < j + 1
    OBVIOUS
  <2> QED
    BY <1>3, <2>1 DEF Coming
<1>5. outcome = "ok" => \A m \in h + 1 .. Forwarded : Decode(sent[m]) # <<>> =>
         \E i \in 1 .. Len(chan') : Carries(chan'[i]) /\ chan'[i].n = m
  <2> SUFFICES ASSUME outcome = "ok", NEW m \in h + 1 .. Forwarded, Decode(sent[m]) # <<>>
               PROVE  \E i \in 1 .. Len(chan') : Carries(chan'[i]) /\ chan'[i].n = m
    OBVIOUS
  <2>1. PICK i \in 1 .. Len(chan) : Carries(chan[i]) /\ chan[i].n = m
    BY DEF Coming
  <2>2. i - 1 \in 1 .. Len(chan') /\ chan'[i - 1] = chan[i]
    BY <1>1, <2>1
  <2> QED
    BY <2>1, <2>2
<1> QED
  BY <1>2, <1>3, <1>4, <1>5 DEF Coming

\* It takes the next control message, and nothing is owed for those it skips.
LEMMA ComingNext ==
  ASSUME TypeOK, NEW h \in 0 .. read, Coming(h), Receiving, chan' = Tail(chan),
         Carries(chan[1]), UNCHANGED <<read, sent, ctlHand>>, outcome = "ok",
         NEW n, n = chan[1].n
  PROVE  /\ n \in 1 .. read /\ h <= n - 1 /\ n - 1 \in Nat
         /\ Decode(sent[n]) = <<chan[1]>>
         /\ RepliesDue(n - 1) = RepliesDue(h) /\ InputsDue(n - 1) = InputsDue(h)
         /\ Coming(n)'
<1>a. /\ read \in Nat /\ read <= Len(sent) /\ Len(sent) \in Nat
      /\ \A i \in 1 .. Len(chan) : chan[i].n \in Nat
  BY ControlTypes
<1>b. \A m \in 1 .. Len(sent) : sent[m] \in HostMessage
  BY ControlTypes
<1>0. /\ read \in Nat /\ h \in Nat /\ read <= Len(sent)
      /\ \A i \in 1 .. Len(chan) : chan[i].n \in Nat
      /\ \A m \in 1 .. Len(sent) : sent[m] \in HostMessage
  BY <1>a, <1>b
<1>1. /\ Len(chan) \in Nat \ {0} /\ Len(chan') = Len(chan) - 1
      /\ \A i \in 1 .. Len(chan') : chan'[i] = chan[i + 1]
  BY Received
<1>2. Forwarded \in Int /\ Forwarded <= read /\ UNCHANGED <<Forwarded, HoldsControl>>
  BY <1>0 DEF Forwarded, HoldsControl
<1>3. n \in Nat /\ h < n /\ n <= Forwarded /\ Decode(sent[n]) = <<chan[1]>>
  BY <1>0, <1>1 DEF Coming
<1>4. \A i \in 1 .. Len(chan) : Carries(chan[i]) /\ i # 1 => n < chan[i].n
  BY <1>1 DEF Coming
<1>5. \A m \in h + 1 .. n - 1 : ~NeedsReply(sent[m]) /\ sent[m].k # "input"
  <2> SUFFICES ASSUME NEW m \in h + 1 .. n - 1
               PROVE  ~NeedsReply(sent[m]) /\ sent[m].k # "input"
    OBVIOUS
  <2>1. m \in h + 1 .. Forwarded /\ m \in 1 .. Len(sent) /\ m < n
    BY <1>0, <1>2, <1>3
  <2>2. ASSUME Decode(sent[m]) # <<>> PROVE FALSE
    <3>1. PICK i \in 1 .. Len(chan) : Carries(chan[i]) /\ chan[i].n = m
      BY <2>1, <2>2 DEF Coming
    <3>2. CASE i = 1
      BY <1>0, <2>1, <3>1, <3>2
    <3>3. CASE i # 1
      BY <1>3, <1>4, <2>1, <3>1, <3>3
    <3> QED
      BY <3>2, <3>3
  <2> QED
    BY <1>0, <2>1, <2>2, DecodeNothing
<1>6. RepliesDue(n - 1) = RepliesDue(h) /\ InputsDue(n - 1) = InputsDue(h)
  <2>1. h \in Nat /\ n \in Nat /\ h < n
    BY <1>0, <1>3
  <2>2. \A m \in Nat : m \in 1 .. n - 1 <=> m \in 1 .. h \/ m \in h + 1 .. n - 1
    BY <2>1
  <2>3. RepliesDue(n - 1) = RepliesDue(h)
    BY <1>5, <2>1, <2>2 DEF RepliesDue
  <2>4. InputsDue(n - 1) = InputsDue(h)
    BY <1>5, <2>1, <2>2 DEF InputsDue
  <2> QED
    BY <2>3, <2>4
<1>7. \A i \in 1 .. Len(chan') : i + 1 \in 1 .. Len(chan) /\ chan'[i] = chan[i + 1] /\ i + 1 # 1
  BY <1>1
<1>8. \A i, j \in 1 .. Len(chan') :
         i < j /\ Carries(chan'[i]) /\ Carries(chan'[j]) => chan'[i].n < chan'[j].n
  <2> SUFFICES ASSUME NEW i \in 1 .. Len(chan'), NEW j \in 1 .. Len(chan'), i < j,
                      Carries(chan'[i]), Carries(chan'[j])
               PROVE  chan'[i].n < chan'[j].n
    OBVIOUS
  <2>1. i + 1 < j + 1
    OBVIOUS
  <2> QED
    BY <1>7, <2>1 DEF Coming
<1>9. \A m \in n + 1 .. Forwarded : Decode(sent[m]) # <<>> =>
         \E i \in 1 .. Len(chan') : Carries(chan'[i]) /\ chan'[i].n = m
  <2> SUFFICES ASSUME NEW m \in n + 1 .. Forwarded, Decode(sent[m]) # <<>>
               PROVE  \E i \in 1 .. Len(chan') : Carries(chan'[i]) /\ chan'[i].n = m
    OBVIOUS
  <2>1. m \in h + 1 .. Forwarded /\ m # n
    BY <1>0, <1>2, <1>3
  <2>2. PICK i \in 1 .. Len(chan) : Carries(chan[i]) /\ chan[i].n = m
    BY <2>1 DEF Coming
  <2>3. i - 1 \in 1 .. Len(chan') /\ chan'[i - 1] = chan[i]
    BY <1>1, <2>1, <2>2
  <2> QED
    BY <2>2, <2>3
<1>10. Coming(n)'
  <2>1. \A i \in 1 .. Len(chan') : Carries(chan'[i]) =>
           /\ n < chan'[i].n /\ chan'[i].n <= Forwarded
           /\ Decode(sent[chan'[i].n]) = <<chan'[i]>>
    BY <1>4, <1>7 DEF Coming
  <2> QED
    BY <1>2, <1>3, <1>8, <1>9, <2>1 DEF Coming
<1> QED
  BY <1>0, <1>2, <1>3, <1>6, <1>10

\* The control reader decodes the next message.
LEMMA ComingRead ==
  ASSUME TypeOK, NEW h \in 0 .. read, Coming(h), CtlRead
  PROVE  Coming(h)' /\ h \in 0 .. read'
<1>0. read \in Nat /\ sent[read + 1] \in HostMessage
  BY ControlTypes DEF CtlRead
<1>1. /\ read' = read + 1 /\ ctlHand = <<>> /\ ctlHand' = Decode(sent[read + 1])
      /\ UNCHANGED <<sent, chan, outcome>>
  BY DEF CtlRead, hostVars
<1>2. Forwarded = read /\ ~HoldsControl
  BY <1>1 DEF Forwarded, HoldsControl
<1>3. CASE Decode(sent[read + 1]) = <<>>
  <2>1. Forwarded' = read + 1 /\ ~HoldsControl'
    BY <1>1, <1>3 DEF Forwarded, HoldsControl
  <2>2. \A i \in 1 .. Len(chan) : Carries(chan[i]) =>
           h < chan[i].n /\ chan[i].n <= read + 1 /\ Decode(sent[chan[i].n]) = <<chan[i]>>
    <3>1. \A i \in 1 .. Len(chan) : chan[i].n \in Nat
      BY ControlTypes
    <3> QED
      BY <1>0, <1>2, <3>1 DEF Coming
  <2>3. \A m \in h + 1 .. read + 1 : Decode(sent[m]) # <<>> => m \in h + 1 .. read
    BY <1>0, <1>3
  <2>4. h <= read + 1
    BY <1>0
  <2> QED
    BY <1>1, <1>2, <2>1, <2>2, <2>3, <2>4 DEF Coming
<1>4. CASE Decode(sent[read + 1]) # <<>>
  <2>1. HoldsControl' /\ Forwarded' = read
    BY <1>0, <1>1, <1>4, DecodeNumber DEF Forwarded, HoldsControl
  <2> QED
    BY <1>0, <1>1, <1>2, <2>1 DEF Coming
<1> QED
  BY <1>3, <1>4

\* It ends.
LEMMA ComingEof ==
  ASSUME TypeOK, NEW h \in 0 .. read, Coming(h), CtlEof
  PROVE  Coming(h)'
<1>1. ctlHand = <<>> /\ ctlHand' = <<ControlEnd>> /\ UNCHANGED <<read, sent, chan, outcome>>
  BY DEF CtlEof, hostVars
<1>2. ~HoldsControl /\ ~HoldsControl' /\ UNCHANGED Forwarded
  BY <1>1 DEF HoldsControl, Forwarded, ControlEnd, Carries
<1> QED
  BY <1>1, <1>2 DEF Coming

\* What it holds joins the channel.
LEMMA ComingSent ==
  ASSUME TypeOK, Stream, NEW h \in 0 .. read, Coming(h), CtlSend
  PROVE  Coming(h)'
<1>a. read \in Nat /\ read <= Len(sent) /\ Len(sent) \in Nat /\ Len(chan) \in Nat
      /\ \A i \in 1 .. Len(chan) : chan[i].n \in Nat
  BY ControlTypes
<1>b. \A m \in 1 .. Len(sent) : sent[m] \in HostMessage
  BY ControlTypes
<1>1. /\ ctlHand # <<>> /\ ctlHand' = <<>> /\ UNCHANGED <<read, sent, outcome>>
      /\ Extends(chan', chan, ctlHand[1]) /\ ~HoldsControl' /\ Forwarded' = read
  BY ControlSent DEF CtlSend, hostVars, HoldsControl, Forwarded
<1>2. CASE ~HoldsControl
  <2>1. Forwarded' = Forwarded /\ ~Carries(ctlHand[1])
    BY <1>1, <1>2 DEF Forwarded, HoldsControl
  <2> QED
    BY <1>1, <2>1, ComingBehind
<1>3. CASE HoldsControl
  <2>1. Forwarded = read - 1 /\ ctlHand = Decode(sent[read])
    BY <1>3 DEF Forwarded, Coming
  <2>2. read \in 1 .. Len(sent) /\ h < read
    BY <1>a, <2>1 DEF Coming
  <2>3. /\ ctlHand = <<ctlHand[1]>> /\ ctlHand[1].n = read
    BY <1>b, <1>1, <2>1, <2>2, DecodeNumber DEF Stream
  <2>4. \A i \in 1 .. Len(chan') : Carries(chan'[i]) =>
           /\ h < chan'[i].n /\ chan'[i].n <= read
           /\ Decode(sent[chan'[i].n]) = <<chan'[i]>>
    <3> SUFFICES ASSUME NEW i \in 1 .. Len(chan'), Carries(chan'[i])
                 PROVE  /\ h < chan'[i].n /\ chan'[i].n <= read
                        /\ Decode(sent[chan'[i].n]) = <<chan'[i]>>
      OBVIOUS
    <3>1. CASE i = Len(chan) + 1
      BY <1>a, <1>1, <2>1, <2>2, <2>3, <3>1 DEF Extends
    <3>2. CASE i \in 1 .. Len(chan)
      BY <1>a, <1>1, <2>1, <3>2 DEF Extends, Coming
    <3> QED
      BY <1>a, <1>1, <3>1, <3>2 DEF Extends
  <2>5. \A i, j \in 1 .. Len(chan') :
           i < j /\ Carries(chan'[i]) /\ Carries(chan'[j]) => chan'[i].n < chan'[j].n
    <3> SUFFICES ASSUME NEW i \in 1 .. Len(chan'), NEW j \in 1 .. Len(chan'), i < j,
                        Carries(chan'[i]), Carries(chan'[j])
                 PROVE  chan'[i].n < chan'[j].n
      OBVIOUS
    <3>1. i \in 1 .. Len(chan) /\ chan'[i] = chan[i]
      BY <1>a, <1>1 DEF Extends
    <3>2. CASE j = Len(chan) + 1
      BY <1>a, <1>1, <2>1, <2>3, <3>1, <3>2 DEF Extends, Coming
    <3>3. CASE j \in 1 .. Len(chan)
      BY <1>a, <1>1, <3>1, <3>3 DEF Extends, Coming
    <3>4. j \in 1 .. Len(chan) \/ j = Len(chan) + 1
      <4>1. Len(chan) \in Nat /\ Len(chan') = Len(chan) + 1
        BY <1>a, <1>1 DEF Extends
      <4> QED
        BY <4>1
    <3> QED
      BY <3>2, <3>3, <3>4
  <2>6. outcome = "ok" => \A m \in h + 1 .. read : Decode(sent[m]) # <<>> =>
           \E i \in 1 .. Len(chan') : Carries(chan'[i]) /\ chan'[i].n = m
    <3> SUFFICES ASSUME outcome = "ok", NEW m \in h + 1 .. read, Decode(sent[m]) # <<>>
                 PROVE  \E i \in 1 .. Len(chan') : Carries(chan'[i]) /\ chan'[i].n = m
      OBVIOUS
    <3>1. CASE m = read
      BY <1>a, <1>1, <1>3, <2>3, <3>1 DEF Extends, HoldsControl
    <3>2. CASE m # read
      <4>1. m \in h + 1 .. Forwarded
        BY <1>a, <2>1, <3>2
      <4>2. PICK i \in 1 .. Len(chan) : Carries(chan[i]) /\ chan[i].n = m
        BY <4>1 DEF Coming
      <4> QED
        BY <1>a, <1>1, <4>2 DEF Extends
    <3> QED
      BY <3>1, <3>2
  <2> QED
    BY <1>1, <2>2, <2>4, <2>5, <2>6 DEF Coming
<1> QED
  BY <1>2, <1>3

\* How much of what it took the engine has done.
LEMMA DoneRange ==
  ASSUME TypeOK, NEW h \in 0 .. read, Busy(h)
  PROVE  Done(h) \in Nat /\ Done(h) <= h /\ (pending # <<>> => h \in 1 .. read /\ Done(h) = h - 1)
<1>1. read \in Nat
  BY ControlTypes
<1>2. CASE pending = <<>>
  BY <1>1, <1>2 DEF Done
<1>3. CASE pending # <<>>
  <2>1. pending = <<h>> /\ pending \in Seq(Nat \ {0})
    BY <1>3 DEF Busy, TypeOK, StateOK, EngineOK, Hand
  <2>2. h \in Nat \ {0}
    BY <2>1
  <2> QED
    BY <1>1, <1>3, <2>2 DEF Done
<1> QED
  BY <1>2, <1>3

\* A step that leaves the engine's work alone.
LEMMA BusyKept ==
  ASSUME TypeOK, NEW h \in 0 .. read, Busy(h), DoneUpTo(h),
         UNCHANGED <<pending, replies, typed>>, pending # <<>> => pc' = pc,
         \A m \in 1 .. read : sent'[m] = sent[m]
  PROVE  Busy(h)' /\ DoneUpTo(h)'
<1>1. Done(h) \in Nat /\ Done(h) <= h /\ (pending # <<>> => h \in 1 .. read)
  BY DoneRange
<1>2. Done(h)' = Done(h)
  BY DEF Done
<1>3. read \in Nat
  BY ControlTypes
<1>4. \A m \in 1 .. Done(h) : sent'[m] = sent[m]
  BY <1>1, <1>3
<1>5. RepliesDue(Done(h))' = RepliesDue(Done(h)) /\ InputsDue(Done(h))' = InputsDue(Done(h))
  <2>1. {m \in 1 .. Done(h) : NeedsReply(sent'[m])} = {m \in 1 .. Done(h) : NeedsReply(sent[m])}
    BY <1>4
  <2>2. {m \in 1 .. Done(h) : sent'[m].k = "input"} = {m \in 1 .. Done(h) : sent[m].k = "input"}
    BY <1>4
  <2> QED
    BY <1>2, <2>1, <2>2 DEF RepliesDue, InputsDue
<1>6. DoneUpTo(h)'
  BY <1>2, <1>5 DEF DoneUpTo
<1>7. Busy(h)'
  BY <1>1 DEF Busy
<1> QED
  BY <1>6, <1>7

\* One more reply is due, or one more input, or neither.
LEMMA DueNext ==
  ASSUME NEW n \in Nat \ {0}
  PROVE  /\ NeedsReply(sent[n]) => RepliesDue(n) = RepliesDue(n - 1) \cup {n}
         /\ ~NeedsReply(sent[n]) => RepliesDue(n) = RepliesDue(n - 1)
         /\ sent[n].k = "input" => InputsDue(n) = InputsDue(n - 1) \cup {n}
         /\ sent[n].k # "input" => InputsDue(n) = InputsDue(n - 1)
         /\ \A m \in RepliesDue(n - 1) \cup InputsDue(n - 1) : m \in Nat /\ m < n
<1>1. /\ 1 .. n = (1 .. n - 1) \cup {n}
      /\ \A m \in 1 .. n - 1 : m \in Nat /\ m < n
  OBVIOUS
<1> QED
  BY <1>1 DEF RepliesDue, InputsDue

\* A message is of one kind.
LEMMA OneKind ==
  ASSUME NEW c
  PROVE  ~(NeedsReply(c) /\ c.k = "input")
BY DEF NeedsReply

\* The reply joins those written.
LEMMA ReplyStep ==
  ASSUME TypeOK, TypeOK', Work, NEW h \in 0 .. read, Coming(h), Busy(h), DoneUpTo(h), Reply
  PROVE  Coming(h)' /\ Busy(h)' /\ DoneUpTo(h)'
<1>1. /\ pc = "reply" /\ replies' = replies \o pending /\ pending' = <<>>
      /\ UNCHANGED <<sent, read, ctlHand, chan, outcome, typed>>
  BY DEF Reply, ctlVars, hostVars
<1>2. pending # <<>>
  BY <1>1 DEF Work
<1>3. h \in 1 .. read /\ Done(h) = h - 1 /\ pending = <<h>> /\ NeedsReply(sent[h])
  BY <1>1, <1>2, DoneRange DEF Busy
<1>4. Done(h)' = h
  BY <1>1 DEF Done
<1>5. replies \in Seq(Nat) /\ replies' \in Seq(Nat) /\ read \in Nat /\ h \in Nat \ {0}
  BY <1>3, ControlTypes, TypeOK' DEF TypeOK, StateOK, SeenOK
<1>6. Extends(replies', replies, h)
  BY <1>1, <1>3, <1>5 DEF Extends
<1>7. /\ RepliesDue(h) = RepliesDue(h - 1) \cup {h} /\ InputsDue(h) = InputsDue(h - 1)
      /\ \A m \in RepliesDue(h - 1) : m < h
  BY <1>3, <1>5, DueNext, OneKind
<1>8. Lists(replies', RepliesDue(h))
  <2>1. Lists(replies, RepliesDue(h - 1))
    BY <1>3 DEF DoneUpTo
  <2>2. Lists(replies', RepliesDue(h - 1) \cup {h})
    BY <1>5, <1>6, <1>7, <2>1, ListsMore
  <2> QED
    BY <1>7, <2>2
<1>9. RepliesDue(h)' = RepliesDue(h) /\ InputsDue(h)' = InputsDue(h)
  BY <1>1 DEF RepliesDue, InputsDue
<1>10. DoneUpTo(h)'
  <2>1. RepliesDue(Done(h))' = RepliesDue(h) /\ InputsDue(Done(h))' = InputsDue(h)
    BY <1>1, <1>4 DEF RepliesDue, InputsDue
  <2> QED
    BY <1>1, <1>3, <1>7, <1>8, <2>1 DEF DoneUpTo
<1>11. Coming(h)'
  BY <1>1, ComingKept
<1> QED
  BY <1>1, <1>10, <1>11 DEF Busy

\* The input joins those typed.
LEMMA InputStep ==
  ASSUME TypeOK, TypeOK', Work, NEW h \in 0 .. read, Coming(h), Busy(h), DoneUpTo(h), WriteInput
  PROVE  Coming(h)' /\ Busy(h)' /\ DoneUpTo(h)'
<1>1. /\ pc = "input" /\ typed' = Append(typed, Typed("input", pending)) /\ pending' = <<>>
      /\ UNCHANGED <<sent, read, ctlHand, chan, outcome, replies>>
  BY DEF WriteInput, ctlVars, hostVars, seenVars
<1>2. pending # <<>>
  BY <1>1 DEF Work
<1>3. h \in 1 .. read /\ Done(h) = h - 1 /\ pending = <<h>> /\ sent[h].k = "input"
  BY <1>1, <1>2, DoneRange DEF Busy
<1>4. Done(h)' = h
  BY <1>1 DEF Done
<1>5. /\ typed \in Seq(TypedEntry) /\ typed' \in Seq(TypedEntry) /\ read \in Nat
      /\ h \in Nat \ {0} /\ pending \in Seq(Nat)
  BY <1>3, ControlTypes, TypeOK' DEF TypeOK, StateOK, EngineOK, TypedEntry
<1>6. Extends(typed', typed, Typed("input", pending))
  BY <1>1, <1>5 DEF Extends
<1>7. /\ InputsDue(h) = InputsDue(h - 1) \cup {h} /\ RepliesDue(h) = RepliesDue(h - 1)
      /\ \A m \in InputsDue(h - 1) : m < h
  BY <1>3, <1>5, DueNext, OneKind
<1>8. Lists(pending, {h})
  BY <1>3, <1>5 DEF Lists
<1>9. WritesList(typed', "input", InputsDue(h))
  <2>1. WritesList(typed, "input", InputsDue(h - 1))
    BY <1>3 DEF DoneUpTo
  <2>2. \A m \in InputsDue(h - 1) : \A n \in {h} : m < n
    BY <1>7
  <2>3. WritesList(typed', "input", InputsDue(h - 1) \cup {h})
    BY <1>5, <1>6, <1>8, <2>1, <2>2, WritesMore
  <2> QED
    BY <1>7, <2>3
<1>10. DoneUpTo(h)'
  <2>1. RepliesDue(Done(h))' = RepliesDue(h) /\ InputsDue(Done(h))' = InputsDue(h)
    BY <1>1, <1>4 DEF RepliesDue, InputsDue
  <2> QED
    BY <1>1, <1>3, <1>7, <1>9, <2>1 DEF DoneUpTo
<1>11. Coming(h)'
  BY <1>1, ComingKept
<1> QED
  BY <1>1, <1>10, <1>11 DEF Busy

\* An answer to the child's queries is no input.
LEMMA RespondStep ==
  ASSUME TypeOK, TypeOK', Work, NEW h \in 0 .. read, Coming(h), Busy(h), DoneUpTo(h), Respond
  PROVE  Coming(h)' /\ Busy(h)' /\ DoneUpTo(h)'
<1>1. /\ pc = "answer" /\ typed' = Append(typed, Typed("answer", responses))
      /\ UNCHANGED <<sent, read, ctlHand, chan, outcome, replies, pending>>
  BY DEF Respond, ctlVars, hostVars, seenVars
<1>2. pending = <<>> /\ Done(h) = h /\ Done(h)' = h
  BY <1>1 DEF Work, Done
<1>3. typed \in Seq(TypedEntry) /\ typed' \in Seq(TypedEntry)
  BY ControlTypes, TypeOK' DEF TypeOK, StateOK, EngineOK, TypedEntry
<1>4. Extends(typed', typed, Typed("answer", responses))
  BY <1>1, <1>3 DEF Extends
<1>5. WritesList(typed', "input", InputsDue(h))
  BY <1>2, <1>3, <1>4, WritesOther DEF DoneUpTo
<1>6. DoneUpTo(h)'
  <2>1. RepliesDue(Done(h))' = RepliesDue(h) /\ InputsDue(Done(h))' = InputsDue(h)
    BY <1>1, <1>2 DEF RepliesDue, InputsDue
  <2> QED
    BY <1>1, <1>2, <1>5, <2>1 DEF DoneUpTo
<1>7. Coming(h)'
  BY <1>1, ComingKept
<1> QED
  BY <1>1, <1>2, <1>6, <1>7 DEF Busy

\* The work on a message is given up: it is as if it had not been taken.
LEMMA GiveUpStep ==
  ASSUME TypeOK, Work, NEW h \in 0 .. read, Coming(h), Busy(h), DoneUpTo(h),
         PtyWriteFails \/ WireFails
  PROVE  Flow'
<1>1. /\ pending' = <<>> /\ outcome' = "err"
      /\ UNCHANGED <<sent, read, ctlHand, chan, replies, typed>>
  BY DEF PtyWriteFails, WireFails, Fail, ctlVars, hostVars, seenVars
<1>2. PICK d : d = Done(h) /\ d \in Nat /\ d <= h
  BY DoneRange
<1>3. read \in Nat /\ \A i \in 1 .. Len(chan) : chan[i].n \in Nat
  BY ControlTypes
<1>4. UNCHANGED <<Forwarded, HoldsControl>> /\ Forwarded \in Int
  BY <1>1, <1>3 DEF Forwarded, HoldsControl
<1>5. Coming(d)'
  BY <1>1, <1>2, <1>3, <1>4 DEF Coming
<1>6. RepliesDue(d)' = RepliesDue(d) /\ InputsDue(d)' = InputsDue(d) /\ Done(d)' = d
  BY <1>1 DEF RepliesDue, InputsDue, Done
<1>7. DoneUpTo(d)'
  <2>1. RepliesDue(Done(d))' = RepliesDue(d) /\ InputsDue(Done(d))' = InputsDue(d)
    BY <1>1, <1>6 DEF RepliesDue, InputsDue
  <2> QED
    BY <1>1, <1>2, <2>1 DEF DoneUpTo
<1>8. Busy(d)' /\ d \in 0 .. read'
  BY <1>1, <1>2, <1>3 DEF Busy
<1> QED
  BY <1>5, <1>7, <1>8 DEF Flow

\* A message the engine is done with at once.
LEMMA TakeStep ==
  ASSUME TypeOK, Work, NEW h \in 0 .. read, Coming(h), Busy(h), DoneUpTo(h),
         HandleOutput \/ HandleStop \/ HandleResize \/ ResizeFails \/ HandleSignal
  PROVE  Flow'
<1>1. /\ Receiving /\ chan' = Tail(chan)
      /\ UNCHANGED <<ctlHand, read, sent, typed, replies>>
  BY HandleSteps
<1>2. UNCHANGED pending /\ chan[1].k \in {"output", "output_end", "control_end", "shutdown",
                                          "resize", "signal"}
  <2>1. UNCHANGED pending
    BY DEF HandleOutput, HandleStop, HandleResize, ResizeFails, HandleSignal, workVars
  <2>2. chan[1] = Head(chan)
    BY DEF Receiving
  <2>3. Head(chan).k \in {"output", "output_end", "control_end", "shutdown", "resize", "signal"}
    BY DEF HandleOutput, HandleStop, HandleResize, ResizeFails, HandleSignal
  <2> QED
    BY <2>1, <2>2, <2>3
<1>3. pending = <<>> /\ pending' = <<>> /\ outcome = "ok"
  BY <1>1, <1>2, ControlTypes DEF Work, Receiving
<1>4. \A n : RepliesDue(n)' = RepliesDue(n) /\ InputsDue(n)' = InputsDue(n) /\ Done(n)' = n
             /\ Done(n) = n
  BY <1>1, <1>3 DEF RepliesDue, InputsDue, Done
<1>5. CASE ~Carries(chan[1])
  <2>1. Coming(h)'
    BY <1>1, <1>3, <1>5, ComingPast
  <2>2. DoneUpTo(h)'
    <3>1. RepliesDue(Done(h))' = RepliesDue(h) /\ InputsDue(Done(h))' = InputsDue(h)
      BY <1>1, <1>3, <1>4 DEF RepliesDue, InputsDue
    <3> QED
      BY <1>1, <1>4, <3>1 DEF DoneUpTo
  <2> QED
    BY <1>1, <1>3, <2>1, <2>2 DEF Flow, Busy
<1>6. CASE Carries(chan[1])
  <2>1. PICK n : n = chan[1].n
    OBVIOUS
  <2>2. /\ n \in 1 .. read /\ Decode(sent[n]) = <<chan[1]>>
        /\ RepliesDue(n - 1) = RepliesDue(h) /\ InputsDue(n - 1) = InputsDue(h)
        /\ Coming(n)'
    BY <1>1, <1>3, <1>6, <2>1, ComingNext
  <2>3. n \in Nat \ {0} /\ sent[n] \in HostMessage
    BY <2>2, ControlTypes
  <2>4. ~NeedsReply(sent[n]) /\ sent[n].k # "input"
    BY <1>2, <2>2, <2>3, DecodeKind DEF Answered
  <2>5. RepliesDue(n) = RepliesDue(h) /\ InputsDue(n) = InputsDue(h)
    BY <2>2, <2>3, <2>4, DueNext
  <2>6. DoneUpTo(n)'
    <3>1. RepliesDue(Done(n))' = RepliesDue(h) /\ InputsDue(Done(n))' = InputsDue(h)
      BY <1>1, <1>3, <1>4, <2>5 DEF RepliesDue, InputsDue
    <3> QED
      BY <1>1, <1>4, <3>1 DEF DoneUpTo
  <2>7. n \in 0 .. read'
    BY <1>1, <2>2
  <2> QED
    BY <1>3, <2>2, <2>6, <2>7 DEF Flow, Busy
<1> QED
  BY <1>5, <1>6

\* A message the engine goes to work on.
LEMMA BeginStep ==
  ASSUME TypeOK, Work, NEW h \in 0 .. read, Coming(h), Busy(h), DoneUpTo(h),
         HandleReply \/ HandleInput
  PROVE  Flow'
<1>1. /\ Receiving /\ chan' = Tail(chan)
      /\ UNCHANGED <<ctlHand, read, sent, typed, replies>>
  BY HandleSteps
<1>2. /\ pending' = <<chan[1].n>> /\ UNCHANGED outcome
      /\ \/ pc' = "reply" /\ Answered(chan[1].k)
         \/ pc' = "input" /\ chan[1].k = "input"
  BY DEF HandleReply, HandleInput, Receiving
<1>3. pending = <<>> /\ outcome = "ok" /\ Carries(chan[1])
  BY <1>1, <1>2, ControlTypes DEF Work, Receiving, Answered, Carries
<1>4. PICK n : n = chan[1].n
  OBVIOUS
<1>5. /\ n \in 1 .. read /\ Decode(sent[n]) = <<chan[1]>>
      /\ RepliesDue(n - 1) = RepliesDue(h) /\ InputsDue(n - 1) = InputsDue(h)
      /\ Coming(n)'
  BY <1>1, <1>3, <1>4, ComingNext
<1>6. sent[n] \in HostMessage
  BY <1>5, ControlTypes
<1>7. /\ pc' = "reply" => NeedsReply(sent[n])
      /\ pc' = "input" => sent[n].k = "input"
  BY <1>2, <1>5, <1>6, DecodeKind
<1>8. Busy(n)'
  BY <1>1, <1>2, <1>4, <1>7 DEF Busy
<1>9. DoneUpTo(n)'
  <2>1. Done(n)' = n - 1 /\ Done(h) = h
    BY <1>2, <1>3 DEF Done
  <2>2. RepliesDue(Done(n))' = RepliesDue(h) /\ InputsDue(Done(n))' = InputsDue(h)
    BY <1>1, <1>5, <2>1 DEF RepliesDue, InputsDue
  <2> QED
    BY <1>1, <2>1, <2>2 DEF DoneUpTo
<1>10. n \in 0 .. read'
  BY <1>1, <1>5
<1> QED
  BY <1>5, <1>8, <1>9, <1>10 DEF Flow

\* Every control message is on its way, at work or done, whatever the step.
LEMMA FlowStep ==
  ASSUME TypeOK, TypeOK', Stream, Work, Flow, [Next]_vars
  PROVE  Flow'
<1>0. PICK h \in 0 .. read : Coming(h) /\ Busy(h) /\ DoneUpTo(h)
  BY DEF Flow
<1>a. read \in Nat /\ read <= Len(sent) /\ Len(sent) \in Nat
  BY ControlTypes
<1>b. \A m \in 1 .. read : sent'[m] = sent[m]
  BY <1>a, SentGrows
<1>1. ASSUME Coming(h)', UNCHANGED <<pending, replies, typed>>, pending # <<>> => pc' = pc,
             read <= read' /\ read' \in Nat
      PROVE  Flow'
  <2>1. Busy(h)' /\ DoneUpTo(h)'
    BY <1>0, <1>1, <1>b, BusyKept
  <2>2. h \in 0 .. read'
    BY <1>1, <1>a
  <2> QED
    BY <1>1, <2>1, <2>2 DEF Flow
<1>2. CASE Idle
  <2>1. Coming(h)'
    BY <1>0, <1>2, <1>b, IdleSteps, ComingKept
  <2>2. pending # <<>> => pc' = pc
    BY <1>2, IdleSteps DEF Work
  <2> QED
    BY <1>1, <1>2, <1>a, <2>1, <2>2, IdleSteps
<1>3. CASE HostSend
  <2>1. UNCHANGED <<read, ctlHand, chan, outcome, pending, replies, typed, pc>>
    BY <1>3 DEF HostSend, ctlVars, workVars, seenVars
  <2>2. Coming(h)'
    BY <1>0, <1>b, <2>1, ComingKept
  <2> QED
    BY <1>1, <1>a, <2>1, <2>2
<1>4. CASE SpawnFails
  <2>1. UNCHANGED <<read, ctlHand, chan, pending, replies, typed>> /\ pc = "spawn"
    BY <1>4 DEF SpawnFails, ctlVars, workVars, seenVars
  <2>2. pending = <<>> /\ outcome = "ok"
    BY <2>1, ControlTypes DEF Work
  <2>3. Coming(h)'
    BY <1>0, <1>b, <2>1, <2>2, ComingKept
  <2> QED
    BY <1>1, <1>a, <2>1, <2>2, <2>3
<1>5. CASE CtlRead
  <2>1. UNCHANGED <<pending, replies, typed, pc>> /\ read' = read + 1
    BY <1>5 DEF CtlRead, workVars, seenVars
  <2>2. Coming(h)'
    BY <1>0, <1>5, ComingRead
  <2> QED
    BY <1>1, <1>a, <2>1, <2>2
<1>6. CASE CtlEof
  <2>1. UNCHANGED <<read, pending, replies, typed, pc>>
    BY <1>6 DEF CtlEof, workVars, seenVars
  <2>2. Coming(h)'
    BY <1>0, <1>6, ComingEof
  <2> QED
    BY <1>1, <1>a, <2>1, <2>2
<1>7. CASE CtlSend
  <2>1. UNCHANGED <<read, pending, replies, typed, pc>>
    BY <1>7 DEF CtlSend, workVars, seenVars
  <2>2. Coming(h)'
    BY <1>0, <1>7, ComingSent
  <2> QED
    BY <1>1, <1>a, <2>1, <2>2
<1>8. CASE FwSend
  <2>1. UNCHANGED <<read, sent, ctlHand, outcome, pending, replies, typed, pc>>
    BY <1>8 DEF FwSend, workVars, seenVars, ctlVars, hostVars
  <2>2. UNCHANGED <<Forwarded, HoldsControl>> /\ ~Carries(chan'[Len(chan) + 1])
    BY <1>8, <2>1, OutputSent DEF Forwarded, HoldsControl, Carries
  <2>3. Coming(h)'
    BY <1>0, <1>8, <2>1, <2>2, OutputSent, ComingBehind
  <2> QED
    BY <1>1, <1>a, <2>1, <2>3
<1>9. CASE HandleOutput \/ HandleStop \/ HandleResize \/ ResizeFails \/ HandleSignal
  BY <1>0, <1>9, TakeStep
<1>10. CASE HandleReply \/ HandleInput
  BY <1>0, <1>10, BeginStep
<1>11. CASE Reply
  <2>1. Coming(h)' /\ Busy(h)' /\ DoneUpTo(h)' /\ read' = read
    BY <1>0, <1>11, ReplyStep DEF Reply, ctlVars
  <2> QED
    BY <2>1 DEF Flow
<1>12. CASE WriteInput
  <2>1. Coming(h)' /\ Busy(h)' /\ DoneUpTo(h)' /\ read' = read
    BY <1>0, <1>12, InputStep DEF WriteInput, ctlVars
  <2> QED
    BY <2>1 DEF Flow
<1>13. CASE Respond
  <2>1. Coming(h)' /\ Busy(h)' /\ DoneUpTo(h)' /\ read' = read
    BY <1>0, <1>13, RespondStep DEF Respond, ctlVars
  <2> QED
    BY <2>1 DEF Flow
<1>14. CASE PtyWriteFails \/ WireFails
  BY <1>0, <1>14, GiveUpStep
<1> QED
  BY <1>2, <1>3, <1>4, <1>5, <1>6, <1>7, <1>8, <1>9, <1>10, <1>11, <1>12, <1>13, <1>14,
     ControlSplit

-----------------------------------------------------------------------------
(* What the host reads, and what the child asked.                           *)

\* What answered some first part of the host's messages still does.
LEMMA AnswersKept ==
  ASSUME TypeOK, [Next]_vars, NEW s, AnswersSome(s)
  PROVE  \E n \in 0 .. Len(sent') : Accepted(n)' /\ Lists(s, RepliesDue(n)')
<1>1. PICK n \in 0 .. Len(sent) : Accepted(n) /\ Lists(s, RepliesDue(n))
  BY DEF AnswersSome
<1>2. /\ Len(sent) <= Len(sent') /\ Len(sent) \in Nat /\ Len(sent') \in Nat
      /\ \A m \in 1 .. Len(sent) : sent'[m] = sent[m]
  BY SentGrows, ControlTypes
<1>3. n \in Nat /\ n \in 0 .. Len(sent') /\ \A m \in 1 .. n : sent'[m] = sent[m]
  BY <1>2
<1>4. Accepted(n)'
  BY <1>1, <1>3 DEF Accepted, Fatal
<1>5. RepliesDue(n)' = RepliesDue(n)
  BY <1>3, DueKept
<1> QED
  BY <1>1, <1>3, <1>4, <1>5

\* The replies written are those due for what the engine has done.
LEMMA RepliesNow == TypeOK /\ Stream /\ Flow => AnswersSome(replies)
<1> SUFFICES ASSUME TypeOK, Stream, Flow
             PROVE  AnswersSome(replies)
  OBVIOUS
<1>1. PICK h \in 0 .. read : Busy(h) /\ DoneUpTo(h)
  BY DEF Flow
<1>2. /\ Done(h) \in Nat /\ Done(h) <= h /\ read \in Nat /\ read <= Len(sent)
      /\ Len(sent) \in Nat
  BY <1>1, DoneRange, ControlTypes
<1>3. Done(h) \in 0 .. Len(sent) /\ Accepted(Done(h))
  BY <1>2 DEF Stream, Accepted
<1> QED
  BY <1>1, <1>3 DEF AnswersSome, DoneUpTo

LEMMA RepliesNext == (TypeOK /\ Stream /\ Flow)' => AnswersSome(replies)'
BY RepliesNow, PTL

\* Nothing the host reads, now or later, is out of order.
LEMMA RepliedStep ==
  ASSUME TypeOK, (TypeOK /\ Stream /\ Flow)', Replied, [Next]_vars
  PROVE  Replied'
<1> DEFINE Good(s) == \E n \in 0 .. Len(sent') : Accepted(n)' /\ Lists(s, RepliesDue(n)')
<1>0. stdout \in Seq(View) /\ Len(stdout) \in Nat
  BY DEF TypeOK, StdoutOK
<1>1. Good(view.replies) /\ \A i \in 1 .. Len(stdout) : Good(stdout[i].replies)
  BY AnswersKept DEF Replied
<1>2. Good(replies')
  BY RepliesNext DEF AnswersSome
<1>3. SUFFICES Good(view'.replies) /\ \A i \in 1 .. Len(stdout') : Good(stdout'[i].replies)
  BY DEF Replied, AnswersSome
<1> HIDE DEF Good
<1>4. CASE CanTell /\ Tell
  <2>1. /\ Len(stdout') = Len(stdout) + 1 /\ stdout'[Len(stdout) + 1] = Told'
        /\ \A i \in 1 .. Len(stdout) : stdout'[i] = stdout[i]
        /\ view' = view
    BY <1>0, <1>4 DEF Tell
  <2>2. Told'.replies = replies'
    BY DEF Told
  <2>3. ASSUME NEW i \in 1 .. Len(stdout') PROVE Good(stdout'[i].replies)
    <3>1. CASE i \in 1 .. Len(stdout)
      BY <1>1, <2>1, <3>1
    <3>2. CASE i = Len(stdout) + 1
      BY <1>2, <2>1, <2>2, <3>2
    <3> QED
      BY <1>0, <2>1, <3>1, <3>2
  <2> QED
    BY <1>1, <2>1, <2>3
<1>5. CASE HostRead
  <2>1. stdout # <<>> /\ view' = stdout[1] /\ stdout' = Tail(stdout)
    BY <1>5 DEF HostRead
  <2>2. /\ Len(stdout) \in Nat \ {0} /\ Len(stdout') = Len(stdout) - 1
        /\ \A i \in 1 .. Len(stdout') : stdout'[i] = stdout[i + 1]
    BY <1>0, <2>1, EmptySeq, HeadTailProperties
  <2> QED
    BY <1>1, <2>1, <2>2
<1>6. CASE UNCHANGED seenVars
  BY <1>1, <1>6 DEF seenVars
<1> QED
  BY <1>4, <1>5, <1>6, PipeSteps

\* The queries among one more chunk.
LEMMA QueriesNext ==
  ASSUME NEW n \in Nat, NEW g \in 0 .. n
  PROVE  /\ n + 1 \in Queries => QueriesUpTo(n + 1) \ QueriesUpTo(g)
                                   = (QueriesUpTo(n) \ QueriesUpTo(g)) \cup {n + 1}
         /\ n + 1 \notin Queries => QueriesUpTo(n + 1) = QueriesUpTo(n)
         /\ \A q \in QueriesUpTo(n) : q \in Nat /\ q < n + 1
         /\ QueriesUpTo(g) \cup (QueriesUpTo(n) \ QueriesUpTo(g)) = QueriesUpTo(n)
         /\ \A p \in QueriesUpTo(g) : \A q \in QueriesUpTo(n) \ QueriesUpTo(g) : p < q
<1>1. /\ 1 .. n + 1 = (1 .. n) \cup {n + 1} /\ 1 .. g \subseteq 1 .. n
      /\ \A q \in 1 .. n : q \in Nat /\ q < n + 1
      /\ \A p \in 1 .. g : \A q \in 1 .. n : q \notin 1 .. g => p < q
      /\ n + 1 \notin 1 .. g
  OBVIOUS
<1> QED
  BY <1>1 DEF QueriesUpTo

\* The engine sleeps, and writes frames, with no answer left over.
LEMMA NoneHeldStep ==
  ASSUME TypeOK, Asked, [Next]_vars
  PROVE  pc' \in {"spawn", "greet", "recv", "frame"} => responses' = <<>>
<1> USE DEF Asked
<1>1. CASE CtlRead \/ CtlSend \/ CtlEof \/ FwSend \/ HostSend
  BY <1>1 DEF CtlRead, CtlSend, CtlEof, FwSend, HostSend, workVars
<1>2. CASE HandleOutput \/ HandleStop \/ HandleResize \/ ResizeFails \/ HandleSignal
  BY <1>2 DEF HandleOutput, HandleStop, HandleResize, ResizeFails, HandleSignal, Fail, AfterDrive
<1>3. CASE HandleReply \/ HandleInput \/ Reply \/ WriteInput
  BY <1>3 DEF HandleReply, HandleInput, Reply, WriteInput
<1>4. CASE Respond \/ PtyWriteFails \/ WireFails \/ SpawnFails
  BY <1>4 DEF Respond, PtyWriteFails, WireFails, SpawnFails, Fail, AfterDrive
<1>5. CASE Idle
  BY <1>5, IdleSteps
<1> QED
  BY <1>1, <1>2, <1>3, <1>4, <1>5, ControlSplit

\* No answer is lost, repeated or overtaken, whatever the step.
LEMMA AskedStep ==
  ASSUME TypeOK, TypeOK', InFlight, Work, Asked, [Next]_vars
  PROVE  Asked'
<1>0. PICK g \in 0 .. fed :
         /\ WritesList(typed, "answer", QueriesUpTo(g))
         /\ outcome = "ok" => Lists(responses, QueriesUpTo(fed) \ QueriesUpTo(g))
  BY DEF Asked
<1>a. /\ fed \in Nat /\ responses \in Seq(Nat) /\ typed \in Seq(TypedEntry)
      /\ responses' \in Seq(Nat) /\ typed' \in Seq(TypedEntry) /\ outcome \in {"ok", "err"}
  BY ControlTypes, TypeOK' DEF TypeOK, StateOK, EngineOK, TypedEntry
<1>b. pc' \in {"spawn", "greet", "recv", "frame"} => responses' = <<>>
  BY NoneHeldStep
<1>1. SUFFICES \E e \in 0 .. fed' :
                  /\ WritesList(typed', "answer", QueriesUpTo(e))
                  /\ outcome' = "ok" => Lists(responses', QueriesUpTo(fed') \ QueriesUpTo(e))
  BY <1>b DEF Asked, QueriesUpTo
<1>2. CASE HandleOutput
  <2>1. /\ fed' = fed + 1 /\ UNCHANGED typed /\ fed + 1 = chan[1].n
        /\ responses' = IF fed + 1 \in Queries THEN Append(responses, fed + 1) ELSE responses
    BY <1>2, FedStep DEF HandleOutput, Receiving
  <2>2. outcome = "ok"
    BY <1>2, <1>a DEF HandleOutput, Receiving, Work
  <2>3. Lists(responses', QueriesUpTo(fed') \ QueriesUpTo(g))
    <3>1. CASE fed + 1 \in Queries
      <4>1. Extends(responses', responses, fed + 1)
        BY <1>a, <2>1, <3>1 DEF Extends
      <4>2. Lists(responses', (QueriesUpTo(fed) \ QueriesUpTo(g)) \cup {fed + 1})
        <5>1. Lists(responses, QueriesUpTo(fed) \ QueriesUpTo(g))
          BY <1>0, <2>2
        <5>2. \A m \in QueriesUpTo(fed) \ QueriesUpTo(g) : m < fed + 1
          BY <1>a, QueriesNext
        <5>3. fed + 1 \in Nat
          BY <1>a
        <5> QED
          BY <1>a, <4>1, <5>1, <5>2, <5>3, ListsMore
      <4> QED
        BY <1>a, <2>1, <3>1, <4>2, QueriesNext
    <3>2. CASE fed + 1 \notin Queries
      BY <1>0, <1>a, <2>1, <2>2, <3>2, QueriesNext
    <3> QED
      BY <3>1, <3>2
  <2>4. g \in 0 .. fed'
    BY <1>a, <2>1
  <2> QED
    BY <1>0, <2>1, <2>3, <2>4
<1>3. CASE Respond
  <2>1. /\ typed' = Append(typed, Typed("answer", responses)) /\ responses' = <<>>
        /\ UNCHANGED fed /\ pc = "answer"
    BY <1>3 DEF Respond
  <2>2. outcome = "ok"
    BY <1>a, <2>1 DEF Work
  <2>3. Extends(typed', typed, Typed("answer", responses))
    BY <1>a, <2>1 DEF Extends
  <2>4. WritesList(typed', "answer", QueriesUpTo(g) \cup (QueriesUpTo(fed) \ QueriesUpTo(g)))
    BY <1>0, <1>a, <2>2, <2>3, WritesMore, QueriesNext
  <2>5. WritesList(typed', "answer", QueriesUpTo(fed))
    BY <1>a, <2>4, QueriesNext
  <2>6. Lists(responses', QueriesUpTo(fed') \ QueriesUpTo(fed))
    BY <1>a, <2>1, ListsNothing
  <2>7. fed \in 0 .. fed'
    BY <1>a, <2>1
  <2> QED
    BY <2>5, <2>6, <2>7
<1>4. CASE WriteInput
  <2>1. /\ typed' = Append(typed, Typed("input", pending)) /\ UNCHANGED <<fed, responses, outcome>>
    BY <1>4 DEF WriteInput
  <2>2. Extends(typed', typed, Typed("input", pending))
    BY <1>a, <2>1 DEF Extends
  <2>3. WritesList(typed', "answer", QueriesUpTo(g))
    BY <1>0, <1>a, <2>2, WritesOther
  <2> QED
    BY <1>0, <2>1, <2>3
<1>5. CASE PtyWriteFails
  BY <1>0, <1>5 DEF PtyWriteFails, Fail
<1>6. CASE UNCHANGED <<typed, responses, fed>> /\ (outcome' = "ok" => outcome = "ok")
  BY <1>0, <1>6
<1>7. CASE CtlRead \/ CtlSend \/ CtlEof \/ FwSend \/ HostSend
  BY <1>6, <1>7 DEF CtlRead, CtlSend, CtlEof, FwSend, HostSend, workVars
<1>8. CASE HandleStop \/ HandleReply \/ HandleInput \/ HandleResize \/ HandleSignal \/ Reply
  BY <1>6, <1>8 DEF HandleStop, HandleReply, HandleInput, HandleResize, HandleSignal, Reply, workVars
<1>9. CASE ResizeFails \/ WireFails
  BY <1>6, <1>9 DEF ResizeFails, WireFails, Fail, workVars
<1>10. CASE SpawnFails
  <2>1. pc = "spawn" /\ UNCHANGED <<typed, responses, fed>>
    BY <1>10 DEF SpawnFails, workVars
  <2>2. outcome = "ok"
    BY <1>a, <2>1 DEF Work
  <2> QED
    BY <1>6, <2>1, <2>2
<1>11. CASE Idle
  BY <1>6, <1>11, IdleSteps
<1> QED
  BY <1>2, <1>3, <1>4, <1>5, <1>7, <1>8, <1>9, <1>10, <1>11, ControlSplit

-----------------------------------------------------------------------------
(* The theorems.                                                           *)

\* The initial state satisfies the invariant of the control path.
LEMMA ControlInit ==
  ASSUME Init
  PROVE  ControlInv
<1>1. /\ sent = <<>> /\ read = 0 /\ ctlHand = <<>> /\ ctlState = "reading" /\ chan = <<>>
      /\ stop = "none" /\ pending = <<>> /\ pc = "spawn" /\ outcome = "ok" /\ fed = 0
      /\ replies = <<>> /\ typed = <<>> /\ responses = <<>> /\ stdout = <<>>
  BY DEF Init
<1>2. view.replies = <<>>
  BY DEF Init, Told
<1>3. /\ RepliesDue(0) = {} /\ InputsDue(0) = {} /\ QueriesUpTo(0) = {} /\ Accepted(0)
      /\ Lists(<<>>, {}) /\ \A kind : WritesList(<<>>, kind, {})
  BY DEF RepliesDue, InputsDue, QueriesUpTo, Accepted, Lists, Writes, WritesList
<1>4. Stream /\ EndComesLast /\ Work
  BY <1>1, <1>3 DEF Stream, EndComesLast, Work, HoldsControl
<1>5. Coming(0)
  BY <1>1 DEF Coming, Forwarded, HoldsControl
<1>6. Busy(0) /\ DoneUpTo(0)
  BY <1>1, <1>3 DEF Busy, DoneUpTo, Done
<1>7. Flow
  BY <1>1, <1>5, <1>6 DEF Flow
<1>8. Replied
  <2>1. 0 \in 0 .. Len(sent) /\ Len(stdout) = 0
    BY <1>1
  <2>2. Lists(view.replies, RepliesDue(0))
    BY <1>2, <1>3
  <2>3. AnswersSome(view.replies)
    BY <1>3, <2>1, <2>2 DEF AnswersSome
  <2>4. \A i \in 1 .. Len(stdout) : FALSE
    BY <2>1
  <2> QED
    BY <2>3, <2>4 DEF Replied
<1>9. Asked
  <2>1. 0 \in 0 .. fed /\ QueriesUpTo(fed) \ QueriesUpTo(0) = {}
    BY <1>1, <1>3
  <2>2. WritesList(typed, "answer", QueriesUpTo(0)) /\ Lists(responses, {})
    BY <1>1, <1>3
  <2> QED
    BY <1>1, <2>1, <2>2 DEF Asked
<1> QED
  BY <1>4, <1>7, <1>8, <1>9 DEF ControlInv

\* Between the host's write and a reply or the child's input no control message
\* is lost, applied twice or overtaken, and between a chunk and the answer to its
\* query no query is (engine.rs:198-201, 216-280, 304-394).
THEOREM ControlCorrect == Spec => []ControlInv
<1>1. Init => ControlInv
  BY ControlInit
<1>2. TypeOK /\ TypeOK' /\ PipelineInv /\ ControlInv /\ [Next]_vars => ControlInv'
  <2> SUFFICES ASSUME TypeOK, TypeOK', PipelineInv, ControlInv, [Next]_vars
               PROVE  ControlInv'
    OBVIOUS
  <2>1. Stream' /\ EndComesLast' /\ Work' /\ Flow'
    BY StreamStep, EndComesLastStep, WorkStep, FlowStep DEF ControlInv
  <2>2. Replied'
    BY <2>1, RepliedStep DEF ControlInv
  <2>3. Asked'
    BY AskedStep DEF ControlInv, PipelineInv
  <2> QED
    BY <2>1, <2>2, <2>3 DEF ControlInv
<1> QED
  BY <1>1, <1>2, TypeCorrect, PipelineCorrect, PTL DEF Spec

\* Whatever the host reads as replies, and whatever the child gets typed, is what
\* is due for some first part of what the host sent (engine.rs:216-280, 304-394).
THEOREM AppliesInOrder == Spec => []ControlsInOrder
<1>1. TypeOK /\ ControlInv => ControlsInOrder
  <2> SUFFICES ASSUME TypeOK, ControlInv
               PROVE  ControlsInOrder
    OBVIOUS
  <2>1. PICK h \in 0 .. read : Busy(h) /\ DoneUpTo(h)
    BY DEF ControlInv, Flow
  <2>2. /\ Done(h) \in Nat /\ Done(h) <= h /\ read \in Nat /\ read <= Len(sent)
        /\ Len(sent) \in Nat
    BY <2>1, DoneRange, ControlTypes
  <2>3. Done(h) \in 0 .. Len(sent) /\ Accepted(Done(h))
    BY <2>2 DEF ControlInv, Stream, Accepted
  <2> QED
    BY <2>1, <2>3 DEF ControlInv, Replied, DoneUpTo, ControlsInOrder
<1> QED
  BY <1>1, TypeCorrect, ControlCorrect, PTL

\* A session that ends on stdin EOF owes the host nothing (engine.rs:229-230,
\* 304-316).
THEOREM EofLeavesNothing == Spec => []EofLosesNothing
<1>1. TypeOK /\ PipelineInv /\ ControlInv => EofLosesNothing
  <2> SUFFICES ASSUME TypeOK, PipelineInv, ControlInv, stop = "control_end", outcome = "ok"
               PROVE  /\ Lists(Delivered.replies, {m \in RepliesDue(Len(sent)) : Accepted(m)})
                      /\ WritesList(typed, "input", {m \in InputsDue(Len(sent)) : Accepted(m)})
    BY DEF EofLosesNothing
  <2>a. /\ read \in Nat /\ read <= Len(sent) /\ Len(sent) \in Nat
        /\ \A m \in 1 .. Len(sent) : sent[m] \in HostMessage
    BY ControlTypes
  <2>1. /\ ctlState = "done" /\ ctlHand = <<>> /\ \A i \in 1 .. Len(chan) : ~Carries(chan[i])
    BY DEF ControlInv, EndComesLast
  <2>2. pending = <<>>
    BY DEF PipelineInv, EndOvertakesNothing, ControlInv, Work
  <2>3. Forwarded = read
    BY <2>1 DEF Forwarded, HoldsControl
  <2>4. PICK h \in 0 .. read : Coming(h) /\ DoneUpTo(h)
    BY DEF ControlInv, Flow
  <2>5. \A m \in h + 1 .. read : ~NeedsReply(sent[m]) /\ sent[m].k # "input"
    <3> SUFFICES ASSUME NEW m \in h + 1 .. read
                 PROVE  ~NeedsReply(sent[m]) /\ sent[m].k # "input"
      OBVIOUS
    <3>1. Decode(sent[m]) = <<>>
      BY <2>1, <2>3, <2>4 DEF Coming
    <3>2. sent[m] \in HostMessage
      BY <2>a
    <3> QED
      BY <3>1, <3>2, DecodeNothing
  <2>6. \A m \in 1 .. Len(sent) : Accepted(m) <=> m <= read
    <3> SUFFICES ASSUME NEW m \in 1 .. Len(sent)
                 PROVE  Accepted(m) <=> m <= read
      OBVIOUS
    <3>1. CASE m <= read
      BY <2>a, <3>1 DEF ControlInv, Stream, Accepted
    <3>2. CASE m > read
      <4>1. read # 0 /\ Fatal(sent[read])
        BY <2>a, <2>1, <3>2 DEF ControlInv, Stream
      <4>2. read \in 1 .. m - 1
        BY <2>a, <3>2, <4>1
      <4>3. ~Accepted(m)
        BY <4>1, <4>2 DEF Accepted
      <4> QED
        BY <2>a, <3>2, <4>3
    <3> QED
      BY <2>a, <3>1, <3>2
  <2>7. {m \in RepliesDue(Len(sent)) : Accepted(m)} = RepliesDue(h)
    BY <2>a, <2>5, <2>6 DEF RepliesDue
  <2>8. {m \in InputsDue(Len(sent)) : Accepted(m)} = InputsDue(h)
    BY <2>a, <2>5, <2>6 DEF InputsDue
  <2>9. Delivered.replies = replies /\ Done(h) = h
    BY <2>2 DEF PipelineInv, Delivery, Told, Done
  <2> QED
    BY <2>4, <2>7, <2>8, <2>9 DEF DoneUpTo
<1> QED
  BY <1>1, TypeCorrect, PipelineCorrect, ControlCorrect, PTL

\* The engine does not sleep on a terminal query (engine.rs:198-201).
THEOREM AnswersQueries == Spec => []QueriesAnswered
<1>1. TypeOK /\ ControlInv => QueriesAnswered
  <2> SUFFICES ASSUME TypeOK, ControlInv, pc = "recv"
               PROVE  WritesList(typed, "answer", QueriesUpTo(fed))
    BY DEF QueriesAnswered
  <2>1. outcome = "ok" /\ responses = <<>> /\ fed \in Nat /\ responses \in Seq(Nat)
    BY ControlTypes DEF ControlInv, Work, Asked
  <2>2. PICK g \in 0 .. fed :
           /\ WritesList(typed, "answer", QueriesUpTo(g))
           /\ Lists(responses, QueriesUpTo(fed) \ QueriesUpTo(g))
    BY <2>1 DEF ControlInv, Asked
  <2>3. QueriesUpTo(fed) \ QueriesUpTo(g) = {}
    BY <2>1, <2>2, ListsNothing
  <2>4. QueriesUpTo(g) = QueriesUpTo(fed)
    <3>1. QueriesUpTo(g) \cup (QueriesUpTo(fed) \ QueriesUpTo(g)) = QueriesUpTo(fed)
      BY <2>1, QueriesNext, Zenon
    <3> QED
      BY <2>3, <3>1, Zenon
  <2> QED
    BY <2>2, <2>4
<1> QED
  BY <1>1, TypeCorrect, ControlCorrect, PTL

=============================================================================
