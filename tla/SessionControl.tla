--------------------------- MODULE SessionControl ---------------------------
(***************************************************************************)
(* The control path of Session: what becomes of every control message on    *)
(* its way from the host to a reply or to the child's input, and of every   *)
(* terminal query among the chunks on its way to an answer.  Properties     *)
(* first, then the inductive invariant behind them.                         *)
(***************************************************************************)
EXTENDS Session

\* s lists the numbers of S in increasing order, each once.
Lists(s, S) ==
    /\ \A i \in DOMAIN s : s[i] \in S
    /\ \A m \in S : \E i \in DOMAIN s : s[i] = m
    /\ \A i, j \in DOMAIN s : i < j => s[i] < s[j]

\* So do, one after another, the writes of one kind to the PTY.
Writes(t, kind) == {e \in DOMAIN t : t[e].k = kind}
WritesList(t, kind, S) ==
    /\ \A e \in Writes(t, kind) : \A i \in DOMAIN t[e].s : t[e].s[i] \in S
    /\ \A m \in S : \E e \in Writes(t, kind) : \E i \in DOMAIN t[e].s : t[e].s[i] = m
    /\ \A e \in Writes(t, kind) : \A i, j \in DOMAIN t[e].s : i < j => t[e].s[i] < t[e].s[j]
    /\ \A e, f \in Writes(t, kind) : e < f =>
          \A i \in DOMAIN t[e].s : \A j \in DOMAIN t[f].s : t[e].s[i] < t[f].s[j]

\* The control reader gets as far as message n: a MessagePack stream ends at the
\* first value that cannot be parsed.
Accepted(n) == \A m \in 1 .. n - 1 : ~Fatal(sent[m])

\* What the host is owed for its first n messages.
NeedsReply(c) == c.k \in {"ping", "malformed", "garbage", "bad_input", "bad_signal"}
RepliesDue(n) == {m \in 1 .. n : NeedsReply(sent[m])}
InputsDue(n)  == {m \in 1 .. n : sent[m].k = "input"}

\* The terminal queries among the first n chunks.
QueriesUpTo(n) == Queries \cap (1 .. n)

-----------------------------------------------------------------------------
(* Properties.                                                             *)

\* s answers the host's first so many messages.
AnswersSome(s) == \E n \in 0 .. Len(sent) : Accepted(n) /\ Lists(s, RepliesDue(n))

\* What the host reads as answers, and what the child gets typed, is what is due
\* for some first part of what the host sent: no control message is applied
\* twice, overtaken by a later one, or answered before an earlier one
\* (engine.rs:216-280, 304-394).
ControlsInOrder ==
    /\ AnswersSome(view.replies)
    /\ \E n \in 0 .. Len(sent) : Accepted(n) /\ WritesList(typed, "input", InputsDue(n))

\* A session that ends on stdin EOF has done everything the host asked before
\* it hung up: every reply is in its pipe and every input is typed (engine.rs:229-230,
\* 304-316).
EofLosesNothing ==
    stop = "control_end" /\ outcome = "ok" =>
        /\ Lists(Delivered.replies, {m \in RepliesDue(Len(sent)) : Accepted(m)})
        /\ WritesList(typed, "input", {m \in InputsDue(Len(sent)) : Accepted(m)})

\* When the engine sleeps, every terminal query among the chunks it was fed has
\* been answered on the PTY exactly once, in the order asked (engine.rs:198-201).
QueriesAnswered == pc = "recv" => WritesList(typed, "answer", QueriesUpTo(fed))

-----------------------------------------------------------------------------
(* The invariant.                                                          *)

\* A message of the engine's channel that stands for one of the host's.
Carries(c) == c.k \notin {"output", "output_end", "control_end"}
HoldsControl == ctlHand # <<>> /\ Carries(ctlHand[1])

\* The messages the control reader has passed on, or dropped.
Forwarded == IF HoldsControl THEN read - 1 ELSE read

\* Where the control reader stands in the host's stream.
Stream ==
    /\ \A m \in 1 .. Len(sent) : sent[m].n = m
    /\ Accepted(read)
    /\ ctlState = "reading" => read = 0 \/ ~Fatal(sent[read])
    /\ ctlState = "ending" => read # 0 /\ Fatal(sent[read])
    /\ ctlState = "done" =>
          \/ read # 0 /\ Fatal(sent[read])
          \/ read = Len(sent) /\ ~stdinOpen

\* The end of the stream overtakes no control message.
EndComesLast ==
    /\ ctlHand # <<>> /\ ~HoldsControl => ctlState = "done"
    /\ \A i \in 1 .. Len(chan) : chan[i].k = "control_end" =>
          /\ ctlState = "done" /\ ctlHand = <<>>
          /\ \A j \in 1 .. Len(chan) : i < j => ~Carries(chan[j])
    /\ stop = "control_end" =>
          /\ ctlState = "done" /\ ctlHand = <<>>
          /\ \A i \in 1 .. Len(chan) : ~Carries(chan[i])

\* The engine is busy with exactly the message it has taken from the channel.
Work ==
    /\ pending # <<>> <=> pc \in {"input", "reply"}
    /\ outcome = "err" => pc \in {"kill", "wait", "exit", "done"}

\* The messages after number h are on their way to the engine, in order and as
\* the control reader decoded them, as long as the engine is there to take them.
Coming(h) ==
    /\ h <= Forwarded
    /\ HoldsControl => ctlHand = Decode(sent[read])
    /\ \A i \in 1 .. Len(chan) : Carries(chan[i]) =>
          /\ h < chan[i].n /\ chan[i].n <= Forwarded
          /\ Decode(sent[chan[i].n]) = <<chan[i]>>
    /\ \A i, j \in 1 .. Len(chan) :
          i < j /\ Carries(chan[i]) /\ Carries(chan[j]) => chan[i].n < chan[j].n
    /\ outcome = "ok" =>
          \A m \in h + 1 .. Forwarded : Decode(sent[m]) # <<>> =>
             \E i \in 1 .. Len(chan) : Carries(chan[i]) /\ chan[i].n = m

\* The engine is at work on message h, if on any, and has done with those before it.
Busy(h) ==
    pending # <<>> => /\ pending = <<h>>
                      /\ pc = "input" => sent[h].k = "input"
                      /\ pc = "reply" => NeedsReply(sent[h])
Done(h) == IF pending = <<>> THEN h ELSE h - 1
DoneUpTo(h) ==
    /\ Lists(replies, RepliesDue(Done(h)))
    /\ WritesList(typed, "input", InputsDue(Done(h)))

\* The engine has taken some first part of the host's messages.
Flow == \E h \in 0 .. read : Coming(h) /\ Busy(h) /\ DoneUpTo(h)

\* Every message in the pipe to the host, and what it holds, answers some first
\* part of what it sent.
Replied == AnswersSome(view.replies) /\ \A i \in 1 .. Len(stdout) : AnswersSome(stdout[i].replies)

\* The queries up to g are answered, the later ones wait for the end of the window.
Asked ==
    /\ pc \in {"spawn", "greet", "recv", "frame"} => responses = <<>>
    /\ \E g \in 0 .. fed :
          /\ WritesList(typed, "answer", QueriesUpTo(g))
          /\ outcome = "ok" => Lists(responses, QueriesUpTo(fed) \ QueriesUpTo(g))

\* All of it: no interleaving of the host, the control reader and the engine
\* loses, duplicates or reorders a control message or an answer to a query.
ControlInv == Stream /\ EndComesLast /\ Work /\ Flow /\ Replied /\ Asked

=============================================================================
