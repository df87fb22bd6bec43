-------------------------- MODULE ReaderInvariant --------------------------
(***************************************************************************)
(* The inductive invariant of ControlReader: how the bytes between the host *)
(* and the reader are related to the items they are of, and the answers     *)
(* that have been sent to the place the reader is at.                       *)
(***************************************************************************)
EXTENDS ControlReader

\* The bytes of an item stay together, up to the one that ends it.
Ordered(bytes) ==
    \A i, j \in DOMAIN bytes : i < j =>
        /\ bytes[i].n <= bytes[j].n
        /\ bytes[i].last => bytes[i].n < bytes[j].n
        /\ bytes[i].n < bytes[j].n =>
              \E k \in i .. j - 1 : bytes[k].last /\ bytes[k].n = bytes[i].n

\* Only the last item can lack its end, when the host died.
EndsWhole(bytes) ==
    bytes # <<>> /\ ~bytes[Len(bytes)].last => IsCut(bytes[Len(bytes)].n)

\* An item that begins at i + 1 and ends at j has all its bytes in between.
Between(bytes, i, j) ==
    bytes[j].last /\ bytes[i + 1].n = bytes[j].n => j - i = items[bytes[j].n].size
Sized(bytes) ==
    \A i, j \in DOMAIN bytes : i < j /\ bytes[i].last => Between(bytes, i, j)

\* While it reads, the reader is at the first byte of an item; it skips the rest
\* of a line only in a stream of lines.
AtStart ==
    /\ pc = "read" => \A j \in DOMAIN Unread : Between(Unread, 0, j)
    /\ pc = "skip" => Jsonl /\ buf = <<>> /\ (Unread = <<>> => cut)
    /\ Msgpack => Len(buf) <= Cap

Bytewise ==
    /\ \A i \in DOMAIN Unread : Unread[i].n <= Len(items)
    /\ Ordered(Unread) /\ EndsWhole(Unread) /\ Sized(Unread) /\ AtStart
    /\ cut => ~open

\* No answer is ahead of the bytes that have been read.
Behind ==
    \A i \in DOMAIN out :
        /\ out[i].n <= Len(items)
        /\ \A j \in DOMAIN Unread : /\ pc = "read" => out[i].n < Unread[j].n
                                    /\ pc = "skip" => out[i].n <= Unread[j].n

\* The line being skipped has had its answer.
Skipped ==
    engineUp /\ pc = "skip" /\ Unread # <<>> /\ ~IsCut(Unread[1].n) =>
        ~FitsCap(Unread[1].n) /\ Said(Unread[1].n, <<"parse">>)

\* A MessagePack stream that goes on has had no value that stops it.
GoodSoFar ==
    Msgpack /\ pc = "read" =>
        \A n \in DOMAIN items : Passed(n) => FitsCap(n) /\ items[n].parses

\* Every byte is at its place in its item, one after the other from the first on.
Placed(bytes) ==
    /\ \A i \in DOMAIN bytes :
          LET size == items[bytes[i].n].size
          IN bytes[i].at <= size /\ (bytes[i].last <=> bytes[i].at = size)
    /\ \A i, j \in DOMAIN bytes :
          bytes[i].n = bytes[j].n => bytes[i].at + j = bytes[j].at + i
    /\ \A i \in DOMAIN bytes : i > 1 /\ bytes[i - 1].last => bytes[i].at = 1

InPlace == Placed(Unread) /\ (pc = "read" /\ Unread # <<>> => Unread[1].at = 1)

\* Which item a byte is of, and what has been answered.
StreamInv ==
    TypeOK /\ Bytewise /\ Behind /\ Skipped /\ GoodSoFar /\ InStep /\ StopsAtFatal

\* All of it: the reader knows at every byte which item it is in and where, and has
\* answered those before it.
ReaderInv == StreamInv /\ InPlace

-----------------------------------------------------------------------------
\* What has been read is item n, its own bytes from the first to the last; of a
\* line that a dying host left, the newline may be missing.
Holds(n) ==
    /\ \A i \in DOMAIN buf : buf[i].n = n /\ buf[i].at = i
    /\ \/ Len(buf) = items[n].size
       \/ Jsonl /\ IsCut(n) /\ Len(buf) = items[n].size - 1

\* What has been read is a control, and not too long to be taken for one.
IsControl(n) ==
    /\ n \in DOMAIN items /\ Holds(n) /\ MayFit(n)
    /\ items[n].parses /\ Classify(items[n].m) = <<"control">>

\* Whenever a control is sent to the engine, it is the one that has been read.
Genuine ==
    \A i \in DOMAIN out' \ DOMAIN out : out'[i].k = "control" => IsControl(out'[i].n)

\* The engine obeys nothing the host did not write: what passes for a control is
\* all the bytes of one control and no others.  Neither the rest of a line that was
\* too long, nor one a dying host tore, nor bytes of two items taken together are
\* decoded, and what is longer than the cap passes by less than a buffer, and only
\* as a line (engine.rs:297-440, codec.rs:85-165).
NothingInvented == [][Genuine]_vars

=============================================================================
