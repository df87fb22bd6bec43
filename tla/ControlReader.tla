--------------------------- MODULE ControlReader ---------------------------
(***************************************************************************)
(* The control reader thread of engine.rs at the level of bytes: lines of   *)
(* JSONL with a length cap and resynchronization at the next newline, or    *)
(* MessagePack values with a length cap and none.  The host writes items -  *)
(* lines or values - and the kernel and the BufReader cut their bytes into  *)
(* chunks of any length.                                                    *)
(*                                                                          *)
(*   host -> stream -> avail (BufReader) -> buf -> out (engine's channel)   *)
(***************************************************************************)
EXTENDS Naturals, Sequences, Codec

CONSTANTS
    Formats,    \* the formats a session may have: "jsonl", "msgpack"
    Cap,        \* MAX_CONTROL_LINE, MAX_MSGPACK_MESSAGE
    ReadSize,   \* the BufReader's buffer
    Items,      \* what the host may write, [size, parses, m]: the bytes of an item
                \* (of a line, with its newline), whether they are a value at all,
                \* and the message it is
    MaxItems    \* bound: items the host writes

ASSUME ReaderAssumption ==
    /\ Formats \subseteq {"jsonl", "msgpack"}
    /\ Cap \in Nat \ {0} /\ ReadSize \in Nat \ {0}
    /\ \A item \in Items : item.size \in Nat \ {0} /\ item.parses \in BOOLEAN
    /\ MaxItems \in Nat

VARIABLES
    format,    \* --format
    items,     \* what the host has written
    cut,       \* the host closed stdin inside its last item
    open,      \* stdin is open
    stream,    \* bytes in the pipe, [n, at, last]: the item, the place in it, and
               \* whether it is the item's last
    avail,     \* bytes the BufReader holds
    buf,       \* bytes of the line or value being read
    pc,        \* "read", "skip" (resynchronizing) or "done"
    engineUp,  \* the engine still receives
    out        \* what was sent to the engine, [n, k]

hostVars == <<format, items, cut, open>>
vars == <<hostVars, stream, avail, buf, pc, engineUp, out>>

Bytes(n, size) == [i \in 1 .. size |-> [n |-> n, at |-> i, last |-> i = size]]

Init ==
    /\ format \in Formats
    /\ items = <<>> /\ cut = FALSE /\ open = TRUE
    /\ stream = <<>> /\ avail = <<>> /\ buf = <<>>
    /\ pc = "read" /\ engineUp = TRUE /\ out = <<>>

-----------------------------------------------------------------------------
(* The host and the engine (external).                                      *)

HostWrite ==
    /\ open /\ Len(items) < MaxItems
    /\ \E item \in Items :
          /\ items' = Append(items, item)
          /\ stream' = stream \o Bytes(Len(items) + 1, item.size)
    /\ UNCHANGED <<format, cut, open, avail, buf, pc, engineUp, out>>

HostClose ==
    /\ open
    /\ open' = FALSE
    /\ UNCHANGED <<format, items, cut, stream, avail, buf, pc, engineUp, out>>

\* The host dies in the middle of a write.
HostDies ==
    /\ open /\ Len(stream) > 1
    /\ \E kept \in 0 .. Len(stream) - 1 :
          /\ stream[kept + 1].n = Len(items)
          /\ stream' = SubSeq(stream, 1, kept)
    /\ open' = FALSE /\ cut' = TRUE
    /\ UNCHANGED <<format, items, avail, buf, pc, engineUp, out>>

EngineStops ==
    /\ engineUp
    /\ engineUp' = FALSE
    /\ UNCHANGED <<hostVars, stream, avail, buf, pc, out>>

-----------------------------------------------------------------------------
(* BufRead.                                                                 *)

Fill ==
    /\ pc # "done" /\ avail = <<>> /\ stream # <<>>
    /\ \E n \in 1 .. ReadSize :
          /\ n <= Len(stream)
          /\ avail' = SubSeq(stream, 1, n)
          /\ stream' = SubSeq(stream, n + 1, Len(stream))
    /\ UNCHANGED <<hostVars, buf, pc, engineUp, out>>

\* Mutant: the end of stdin is looked for between values only.
AtEof_between == avail = <<>> /\ stream = <<>> /\ ~open /\ buf = <<>>

\* fill_buf returns nothing.
AtEof == avail = <<>> /\ stream = <<>> /\ ~open

EndsAt(bytes) == {i \in DOMAIN bytes : bytes[i].last}

\* Mutant: resynchronizing throws away all that is buffered.
SkipLength_all(bytes) == Len(bytes)

\* The bytes up to and with the first end of an item; all of them if none ends.
SkipLength(bytes) ==
    IF EndsAt(bytes) = {} THEN Len(bytes)
    ELSE CHOOSE i \in EndsAt(bytes) : \A j \in EndsAt(bytes) : i <= j

Ended == buf # <<>> /\ buf[Len(buf)].last

-----------------------------------------------------------------------------
(* Sending.                                                                 *)

Answer(n, ks) == [i \in DOMAIN ks |-> [n |-> n, k |-> ks[i]]]

\* A send fails once the engine is gone, and the reader returns.
Send(n, ks, next) ==
    /\ buf' = <<>>
    /\ IF engineUp \/ ks = <<>>
         THEN out' = out \o Answer(n, ks) /\ pc' = next
         ELSE UNCHANGED out /\ pc' = "done"

\* The thread's last act: ControlEnd.
Finish ==
    /\ pc' = "done"
    /\ out' = IF engineUp THEN Append(out, [n |-> 0, k |-> "end"]) ELSE out

\* An error, then the end of the stream.
Fatal(n) ==
    /\ pc' = "done" /\ buf' = <<>>
    /\ out' = IF engineUp THEN out \o <<[n |-> n, k |-> "parse"], [n |-> 0, k |-> "end"]>>
                          ELSE out

-----------------------------------------------------------------------------
(* JSONL.                                                                   *)

Jsonl == format = "jsonl"

\* Mutant: the loop goes on until it finds a newline.
Filling_always == ~Ended

\* read_capped_line goes on while the buffer is within the cap.
Filling == ~Ended /\ Len(buf) <= Cap

\* Mutant: the newline is not looked for.
TakeLength_all == Len(avail)

\* The whole rest of a line is taken whatever its length; without a newline in
\* sight only up to one byte past the cap.
TakeLength ==
    IF EndsAt(avail) # {} THEN SkipLength(avail)
    ELSE IF Len(avail) <= Cap + 1 - Len(buf) THEN Len(avail) ELSE Cap + 1 - Len(buf)

Take ==
    /\ Jsonl /\ pc = "read" /\ Filling /\ avail # <<>>
    /\ buf' = buf \o SubSeq(avail, 1, TakeLength)
    /\ avail' = SubSeq(avail, TakeLength + 1, Len(avail))
    /\ UNCHANGED <<hostVars, stream, pc, engineUp, out>>

LineRead == ~Filling \/ AtEof

EndOfInput ==
    /\ Jsonl /\ pc = "read" /\ LineRead /\ buf = <<>>
    /\ Finish
    /\ UNCHANGED <<hostVars, stream, avail, buf, engineUp>>

Overlong == Len(buf) > Cap /\ ~Ended

RejectLine ==
    /\ Jsonl /\ pc = "read" /\ LineRead /\ Overlong
    /\ Send(buf[1].n, <<"parse">>, "skip")
    /\ UNCHANGED <<hostVars, stream, avail, engineUp>>

\* A line cut short does not parse, unless only its newline is missing.
Whole == Len(buf) >= items[buf[1].n].size - 1

\* A line of nothing but its newline is blank.
Blank == Ended /\ Len(buf) = 1

\* The item being read is a value of its format.
Parses == items[buf[1].n].parses

DecodeLine ==
    /\ Jsonl /\ pc = "read" /\ LineRead /\ buf # <<>> /\ ~Overlong
    /\ Send(buf[1].n,
            IF Blank THEN <<>> ELSE IF Whole /\ Parses THEN Classify(items[buf[1].n].m)
                              ELSE <<"parse">>,
            "read")
    /\ UNCHANGED <<hostVars, stream, avail, engineUp>>

\* skip_to_newline
Skip ==
    /\ pc = "skip" /\ avail # <<>>
    /\ avail' = SubSeq(avail, SkipLength(avail) + 1, Len(avail))
    /\ pc' = IF EndsAt(avail) = {} THEN "skip" ELSE "read"
    /\ UNCHANGED <<hostVars, stream, buf, engineUp, out>>

SkipEof ==
    /\ pc = "skip" /\ AtEof
    /\ Finish
    /\ UNCHANGED <<hostVars, stream, avail, buf, engineUp>>

-----------------------------------------------------------------------------
(* MessagePack.                                                             *)

Msgpack == format = "msgpack"

\* Mutant: the cap is that of one read.
Room_any == Len(avail)

\* Capped: the bytes this value may still read.
Room == IF Len(avail) <= Cap - Len(buf) THEN Len(avail) ELSE Cap - Len(buf)

\* The decoder takes what it needs of the value and no more.
TakeValue ==
    /\ Msgpack /\ pc = "read" /\ ~Ended /\ avail # <<>> /\ Room > 0
    /\ LET n == IF SkipLength(avail) <= Room THEN SkipLength(avail) ELSE Room
       IN /\ buf' = buf \o SubSeq(avail, 1, n)
          /\ avail' = SubSeq(avail, n + 1, Len(avail))
    /\ UNCHANGED <<hostVars, stream, pc, engineUp, out>>

DecodeValue ==
    /\ Msgpack /\ pc = "read" /\ Ended /\ Parses
    /\ Send(buf[1].n, Classify(items[buf[1].n].m), "read")
    /\ UNCHANGED <<hostVars, stream, avail, engineUp>>

\* No end of such a value can be told, nor where the next one starts.
Unparsable ==
    /\ Msgpack /\ pc = "read" /\ Ended /\ ~Parses
    /\ Fatal(buf[1].n)
    /\ UNCHANGED <<hostVars, stream, avail, engineUp>>

TooLong ==
    /\ Msgpack /\ pc = "read" /\ ~Ended /\ Len(buf) = Cap
    /\ Fatal(buf[1].n)
    /\ UNCHANGED <<hostVars, stream, avail, engineUp>>

\* The stream ends.  Inside a value that is an error if it is data that is
\* missing, but a clean end if it is the marker of a nested value.
ValueEof ==
    /\ Msgpack /\ pc = "read" /\ ~Ended /\ Len(buf) < Cap /\ AtEof
    /\ \/ Finish /\ UNCHANGED buf
       \/ buf # <<>> /\ Fatal(buf[1].n)
    /\ UNCHANGED <<hostVars, stream, avail, engineUp>>

\* A read of stdin fails.  What was read of a line is dropped without a word; a
\* MessagePack stream ends with an error, inside a value or between two.
ReadFails ==
    /\ pc # "done" /\ avail = <<>>
    /\ IF Msgpack THEN ~Ended /\ Len(buf) < Cap /\ Fatal(IF buf = <<>> THEN 0 ELSE buf[1].n)
                  ELSE (pc = "read" => Filling) /\ Finish /\ UNCHANGED buf
    /\ UNCHANGED <<hostVars, stream, avail, engineUp>>

\* The thread has returned.
Terminated == pc = "done" /\ UNCHANGED vars

-----------------------------------------------------------------------------
Host   == HostWrite \/ HostClose \/ HostDies
Reader == Fill \/ Take \/ EndOfInput \/ RejectLine \/ DecodeLine \/ Skip \/ SkipEof
             \/ TakeValue \/ DecodeValue \/ Unparsable \/ TooLong \/ ValueEof

Next == Host \/ EngineStops \/ ReadFails \/ Reader \/ Terminated

Spec == Init /\ [][Next]_vars

\* The thread is scheduled; nothing is assumed of the host, the engine or the pipe.
FairSpec == Spec /\ WF_vars(Reader)

-----------------------------------------------------------------------------
(* Properties.                                                             *)

Byte    == [n : 1 .. MaxItems, at : Nat \ {0}, last : BOOLEAN]
Verdict == [n : 0 .. MaxItems, k : {"control", "parse", "direction", "bad_message", "end"}]

\* Types and bounds: the memory a line or value can take is that of the cap and
\* one buffer, whatever the host sends; and a buffer never holds bytes of two
\* items.
TypeOK ==
    /\ format \in Formats
    /\ items \in Seq(Items) /\ Len(items) <= MaxItems
    /\ cut \in BOOLEAN /\ open \in BOOLEAN /\ engineUp \in BOOLEAN
    /\ stream \in Seq(Byte) /\ avail \in Seq(Byte) /\ Len(avail) <= ReadSize
    /\ buf \in Seq(Byte) /\ Len(buf) <= Cap + ReadSize
    /\ \A i \in DOMAIN buf : buf[i].n = buf[1].n
    /\ pc \in {"read", "skip", "done"}
    /\ out \in Seq(Verdict)

\* What the host has written and the reader has not dealt with, in order.
Unread  == buf \o avail \o stream
Pending == {Unread[i].n : i \in DOMAIN Unread}

IsCut(n) == cut /\ n = Len(items)

\* The reader has dealt with item n.
Passed(n) == n \notin Pending /\ ~IsCut(n)

\* What item n was answered, if anything.
Heard(answers, n) == {answers[i].k : i \in {j \in DOMAIN answers : answers[j].n = n}}
Said(n, ks) == Heard(out, n) = {ks[i] : i \in DOMAIN ks}

Expected(n) ==
    IF Jsonl /\ items[n].size = 1 THEN <<>>
    ELSE IF items[n].parses THEN Classify(items[n].m) ELSE <<"parse">>

\* What may be answered to an item: a line longer than the cap may or may not be
\* recognized as such, unless it is longer than the cap and a buffer.
FitsCap(n)  == items[n].size <= (IF Jsonl THEN Cap + 1 ELSE Cap)
MayFit(n)   == FitsCap(n) \/ (Jsonl /\ items[n].size <= Cap + ReadSize)
Answered(n) ==
    \/ MayFit(n) /\ Said(n, Expected(n))
    \/ ~FitsCap(n) /\ Said(n, <<"parse">>)

\* However the bytes are cut into chunks, every item within the cap gets its own
\* answer, once and in order, and one that is too long costs no other item its
\* answer: the reader is back in step with the very next line (engine.rs:320-440,
\* codec.rs:85-165).
InStep ==
    /\ \A i, j \in DOMAIN out : i < j /\ out[j].n # 0 => out[i].n < out[j].n
    /\ engineUp /\ (Jsonl \/ pc # "done") => \A n \in DOMAIN items : Passed(n) => Answered(n)

\* A MessagePack stream goes on to its first value that is too long or none at
\* all, and not a value further: whatever is answered to a value, those before it
\* were none of these, nor was it itself unless it is answered with an error
\* (codec.rs:85-99, engine.rs:366-394).
StopsAtFatal ==
    Msgpack =>
        \A i \in DOMAIN out : \A n \in 1 .. out[i].n :
            n < out[i].n \/ out[i].k # "parse" => FitsCap(n) /\ items[n].parses

\* When stdin closes the reader comes to its end, whatever it was in the middle
\* of: a line, a value or a resynchronization.
EofEnds == ~open ~> pc = "done"

\* "An over-long line is rejected with a parse error" (engine.rs:297), "reply
\* error{code:"parse"}, drop the line" (PROTOCOL.md, section 9): no line longer
\* than the cap reaches the engine as a control.
OverlongRejected ==
    \A i \in DOMAIN out : out[i].k = "control" => FitsCap(out[i].n)

\* "A message that flows the wrong way is a protocol violation answered with
\* error{code:"direction"}" (PROTOCOL.md:57-58), for every event type the protocol
\* has.
DirectionAnswered ==
    \A n \in DOMAIN items :
        engineUp /\ Passed(n) /\ FitsCap(n) /\ TypeOf(items[n].m) \in Events
            => Said(n, <<"direction">>)

=============================================================================
