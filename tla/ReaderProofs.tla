---------------------------- MODULE ReaderProofs ----------------------------
(***************************************************************************)
(* Theorems about ControlReader, for every cap, every buffer, every way the *)
(* bytes are cut into chunks and every host: ReaderCorrect, the inductive   *)
(* invariant, and from it that the reader stays in step with the items,     *)
(* goes no further than a value that stops it and takes for a control only  *)
(* the bytes of one.                                                        *)
(***************************************************************************)
EXTENDS ReaderInvariant, NumberProofs, TLAPS, SequenceTheorems

-----------------------------------------------------------------------------
(* Sequences of bytes.                                                     *)

\* t is what s holds from p + 1 on, or a part of it.
Within(t, s, p) ==
    p + Len(t) <= Len(s) /\ \A i \in 1 .. Len(t) : t[i] = s[p + i]

\* What a byte of a stream is.
LEMMA ByteTypes ==
  ASSUME NEW s \in Seq(Byte), NEW i \in DOMAIN s
  PROVE  /\ s[i] \in Byte /\ s[i].n \in Nat /\ s[i].n \in 1 .. MaxItems
         /\ s[i].at \in Nat \ {0} /\ s[i].last \in BOOLEAN
<1>1. s[i] \in Byte
  OBVIOUS
<1>2. MaxItems \in Nat
  BY ReaderAssumption
<1> QED
  BY <1>1, <1>2 DEF Byte

\* A part of an ordered stream is ordered.
LEMMA OrderedPart ==
  ASSUME NEW s \in Seq(Byte), NEW t \in Seq(Byte), NEW p \in Nat,
         Within(t, s, p), Ordered(s)
  PROVE  Ordered(t)
<1> SUFFICES ASSUME NEW i \in DOMAIN t, NEW j \in DOMAIN t, i < j
             PROVE  /\ t[i].n <= t[j].n
                    /\ t[i].last => t[i].n < t[j].n
                    /\ t[i].n < t[j].n =>
                          \E k \in i .. j - 1 : t[k].last /\ t[k].n = t[i].n
  BY DEF Ordered
<1>1. DOMAIN t = 1 .. Len(t) /\ DOMAIN s = 1 .. Len(s) /\ Len(t) \in Nat /\ Len(s) \in Nat
  OBVIOUS
<1>2. /\ p + i \in DOMAIN s /\ p + j \in DOMAIN s /\ p + i < p + j
      /\ t[i] = s[p + i] /\ t[j] = s[p + j]
  BY <1>1 DEF Within
<1>3. /\ s[p + i].n <= s[p + j].n
      /\ s[p + i].last => s[p + i].n < s[p + j].n
      /\ s[p + i].n < s[p + j].n =>
            \E k \in p + i .. p + j - 1 : s[k].last /\ s[k].n = s[p + i].n
  BY <1>2 DEF Ordered
<1>4. ASSUME NEW k \in p + i .. p + j - 1
      PROVE  k - p \in i .. j - 1 /\ t[k - p] = s[k]
  BY <1>1 DEF Within
<1>5. t[i].n < t[j].n => \E k \in i .. j - 1 : t[k].last /\ t[k].n = t[i].n
  <2> SUFFICES ASSUME s[p + i].n < s[p + j].n
               PROVE  \E k \in i .. j - 1 : t[k].last /\ t[k].n = s[p + i].n
    BY <1>2
  <2>1. PICK k \in p + i .. p + j - 1 : s[k].last /\ s[k].n = s[p + i].n
    BY <1>3
  <2>2. k - p \in i .. j - 1 /\ t[k - p] = s[k]
    BY <1>4
  <2> QED
    BY <2>1, <2>2, Zenon
<1> QED
  BY <1>2, <1>3, <1>5

\* b is the bytes of item n.
OfItem(b, n, size) ==
    /\ b \in Seq(Byte) /\ Len(b) = size
    /\ \A i \in 1 .. size : b[i].n = n /\ b[i].at = i /\ (b[i].last <=> i = size)

\* The bytes of one item are its own, as many as its size, the last one ending it.
LEMMA BytesTypes ==
  ASSUME NEW n \in 1 .. MaxItems, NEW size \in Nat \ {0}
  PROVE  OfItem(Bytes(n, size), n, size)
<1> DEFINE b == Bytes(n, size)
<1>1. b \in [1 .. size -> Byte]
  BY DEF Bytes, Byte
<1>2. \A i \in 1 .. size : b[i].n = n /\ b[i].at = i /\ (b[i].last <=> i = size)
  BY Zenon DEF Bytes
<1> HIDE DEF b
<1>3. b \in Seq(Byte) /\ Len(b) = size
  BY <1>1
<1> QED
  BY <1>2, <1>3, Zenon DEF b, OfItem

\* Two streams, one after the other.
LEMMA BytesConcat ==
  ASSUME NEW s \in Seq(Byte), NEW b \in Seq(Byte)
  PROVE  /\ Len(s \o b) = Len(s) + Len(b) /\ s \o b \in Seq(Byte)
         /\ \A i \in 1 .. Len(s) + Len(b) :
               (s \o b)[i] = IF i <= Len(s) THEN s[i] ELSE b[i - Len(s)]
BY ConcatProperties

\* An ordered stream stays ordered when the next item comes behind it.
LEMMA OrderedMore ==
  ASSUME NEW s \in Seq(Byte), NEW N \in Nat, NEW size \in Nat \ {0}, N < MaxItems,
         Ordered(s), \A i \in DOMAIN s : s[i].n <= N,
         s # <<>> => s[Len(s)].last
  PROVE  Ordered(s \o Bytes(N + 1, size))
<1> DEFINE b == Bytes(N + 1, size)
           t == s \o b
<1>1. Len(b) = size /\ b \in Seq(Byte)
      /\ \A i \in 1 .. size : b[i].n = N + 1 /\ (b[i].last <=> i = size)
  <2>1. N + 1 \in 1 .. MaxItems
    BY ReaderAssumption
  <2>2. OfItem(b, N + 1, size)
    BY <2>1, BytesTypes, Zenon
  <2> HIDE DEF b
  <2> QED
    BY <2>2 DEF OfItem
<1> HIDE DEF b
<1>2. Len(t) = Len(s) + size /\ DOMAIN t = 1 .. Len(s) + size /\ DOMAIN s = 1 .. Len(s)
      /\ Len(s) \in Nat
      /\ \A i \in 1 .. Len(s) + size : t[i] = IF i <= Len(s) THEN s[i] ELSE b[i - Len(s)]
  <2>1. /\ Len(t) = Len(s) + Len(b) /\ t \in Seq(Byte)
        /\ \A i \in 1 .. Len(s) + Len(b) : t[i] = IF i <= Len(s) THEN s[i] ELSE b[i - Len(s)]
    BY <1>1, BytesConcat, Zenon
  <2> HIDE DEF t
  <2> QED
    BY <1>1, <2>1, LenProperties
<1>3. \A i \in 1 .. Len(s) : t[i] = s[i] /\ s[i].n \in Nat /\ s[i].n <= N
  <2>1. \A i \in DOMAIN s : s[i].n \in Nat
    BY ByteTypes
  <2>2. \A i \in 1 .. Len(s) : t[i] = s[i]
    BY <1>2
  <2> HIDE DEF t
  <2> QED
    BY <1>2, <2>1, <2>2
<1>4. \A i \in Len(s) + 1 .. Len(s) + size :
         t[i].n = N + 1 /\ (t[i].last <=> i = Len(s) + size)
  <2> SUFFICES ASSUME NEW i \in Len(s) + 1 .. Len(s) + size
               PROVE  t[i].n = N + 1 /\ (t[i].last <=> i = Len(s) + size)
    OBVIOUS
  <2>1. t[i] = b[i - Len(s)] /\ i - Len(s) \in 1 .. size
    BY <1>1, <1>2
  <2>2. b[i - Len(s)].n = N + 1 /\ (b[i - Len(s)].last <=> i - Len(s) = size)
    BY <1>1, <2>1
  <2>3. i - Len(s) = size <=> i = Len(s) + size
    BY <1>2
  <2> QED
    BY <2>1, <2>2, <2>3, Zenon
<1> HIDE DEF t
<1> SUFFICES ASSUME NEW i \in DOMAIN t, NEW j \in DOMAIN t, i < j
             PROVE  /\ t[i].n <= t[j].n
                    /\ t[i].last => t[i].n < t[j].n
                    /\ t[i].n < t[j].n =>
                          \E k \in i .. j - 1 : t[k].last /\ t[k].n = t[i].n
  BY DEF Ordered, t, b
<1>5. CASE j <= Len(s)
  <2>1. i \in DOMAIN s /\ j \in DOMAIN s /\ t[i] = s[i] /\ t[j] = s[j]
    BY <1>2, <1>3, <1>5
  <2>2. \A k \in i .. j - 1 : t[k] = s[k]
    BY <1>2, <1>3, <1>5
  <2>3. /\ s[i].n <= s[j].n
        /\ s[i].last => s[i].n < s[j].n
        /\ s[i].n < s[j].n => \E k \in i .. j - 1 : s[k].last /\ s[k].n = s[i].n
    BY <2>1 DEF Ordered
  <2> QED
    BY <2>1, <2>2, <2>3
<1>6. CASE i > Len(s)
  BY <1>2, <1>4, <1>6
<1>7. CASE i <= Len(s) /\ j > Len(s)
  <2>1. t[i] = s[i] /\ s[i].n < t[j].n /\ i \in DOMAIN s /\ s # <<>>
    BY <1>2, <1>3, <1>4, <1>7
  <2>2. \E k \in i .. Len(s) : s[k].last /\ s[k].n = s[i].n
    <3>1. CASE s[i].n = s[Len(s)].n
      BY <1>2, <2>1, <3>1
    <3>2. CASE s[i].n # s[Len(s)].n
      <4>1. i < Len(s) /\ Len(s) \in DOMAIN s
        BY <1>2, <2>1, <3>2
      <4>2. s[i].n < s[Len(s)].n
        BY <1>2, <1>3, <3>2, <4>1 DEF Ordered
      <4> QED
        BY <1>2, <4>1, <4>2 DEF Ordered
    <3> QED
      BY <3>1, <3>2
  <2>3. PICK k \in i .. Len(s) : s[k].last /\ s[k].n = s[i].n
    BY <2>2
  <2>4. k \in i .. j - 1 /\ t[k] = s[k]
    BY <1>2, <1>3, <1>7, <2>1
  <2>5. t[i].n <= t[j].n /\ t[i].n < t[j].n
    <3>1. t[i].n \in Nat /\ t[i].n <= N
      BY <1>2, <1>3, <1>7
    <3>2. t[j].n = N + 1
      BY <1>2, <1>4, <1>7
    <3> QED
      BY <3>1, <3>2
  <2> QED
    BY <2>1, <2>3, <2>4, <2>5
<1> QED
  BY <1>2, <1>5, <1>6, <1>7

\* Where no item ends there is one item.
LEMMA OneItem ==
  ASSUME NEW s \in Seq(Byte), Ordered(s), NEW i \in DOMAIN s, NEW j \in DOMAIN s, i <= j,
         \A k \in i .. j - 1 : ~s[k].last
  PROVE  s[i].n = s[j].n
<1>1. CASE i = j
  BY <1>1
<1>2. CASE i < j
  <2>1. s[i].n \in Nat /\ s[j].n \in Nat
    BY ByteTypes
  <2> QED
    BY <1>2, <2>1 DEF Ordered
<1> QED
  BY <1>1, <1>2

\* SkipLength finds the first end of an item, or takes all there is.
LEMMA FirstEnd ==
  ASSUME NEW s \in Seq(Byte)
  PROVE  /\ SkipLength(s) \in 0 .. Len(s)
         /\ s # <<>> => SkipLength(s) > 0
         /\ \A i \in 1 .. SkipLength(s) - 1 : ~s[i].last
         /\ EndsAt(s) # {} => s[SkipLength(s)].last
         /\ EndsAt(s) = {} => SkipLength(s) = Len(s) /\ \A i \in DOMAIN s : ~s[i].last
<1>1. CASE EndsAt(s) = {}
  BY <1>1 DEF SkipLength, EndsAt
<1>2. CASE EndsAt(s) # {}
  <2>1. EndsAt(s) \subseteq Nat
    BY DEF EndsAt
  <2>4. \E i \in EndsAt(s) : \A j \in EndsAt(s) : i <= j
    BY <1>2, <2>1, Least
  <2>5. SkipLength(s) \in EndsAt(s) /\ \A j \in EndsAt(s) : SkipLength(s) <= j
    BY <1>2, <2>4 DEF SkipLength
  <2> QED
    BY <1>2, <2>5 DEF EndsAt
<1> QED
  BY <1>1, <1>2

\* u is a, then b, then c.
Laid(u, a, b, c) ==
    /\ u \in Seq(Byte) /\ Len(u) = Len(a) + Len(b) + Len(c)
    /\ DOMAIN u = 1 .. Len(a) + Len(b) + Len(c)
    /\ \A i \in 1 .. Len(a) : u[i] = a[i]
    /\ \A i \in 1 .. Len(b) : u[Len(a) + i] = b[i]
    /\ \A i \in 1 .. Len(c) : u[Len(a) + Len(b) + i] = c[i]

\* The lengths and the places in three sequences joined.
LEMMA Three ==
  ASSUME NEW a \in Seq(Byte), NEW b \in Seq(Byte), NEW c \in Seq(Byte)
  PROVE  Laid(a \o b \o c, a, b, c)
<1> DEFINE ab == a \o b
           u  == ab \o c
<1>1. /\ ab \in Seq(Byte) /\ Len(ab) = Len(a) + Len(b)
      /\ \A i \in 1 .. Len(a) + Len(b) : ab[i] = IF i <= Len(a) THEN a[i] ELSE b[i - Len(a)]
  BY BytesConcat, Zenon
<1> HIDE DEF ab
<1>2. /\ u \in Seq(Byte) /\ Len(u) = Len(ab) + Len(c)
      /\ \A i \in 1 .. Len(ab) + Len(c) : u[i] = IF i <= Len(ab) THEN ab[i] ELSE c[i - Len(ab)]
  BY <1>1, BytesConcat, Zenon
<1> HIDE DEF u
<1>3. Len(a) \in Nat /\ Len(b) \in Nat /\ Len(c) \in Nat
  OBVIOUS
<1>4. u \in Seq(Byte) /\ Len(u) = Len(a) + Len(b) + Len(c)
      /\ DOMAIN u = 1 .. Len(a) + Len(b) + Len(c)
  BY <1>1, <1>2
<1>5. \A i \in 1 .. Len(a) : u[i] = a[i]
  BY <1>1, <1>2, <1>3
<1>6. \A i \in 1 .. Len(b) : u[Len(a) + i] = b[i]
  <2> SUFFICES ASSUME NEW i \in 1 .. Len(b)
               PROVE  u[Len(a) + i] = b[i]
    OBVIOUS
  <2>1. u[Len(a) + i] = ab[Len(a) + i] /\ ab[Len(a) + i] = b[Len(a) + i - Len(a)]
    BY <1>1, <1>2, <1>3
  <2>2. Len(a) + i - Len(a) = i
    BY <1>3
  <2> QED
    BY <2>1, <2>2
<1>7. \A i \in 1 .. Len(c) : u[Len(a) + Len(b) + i] = c[i]
  <2> SUFFICES ASSUME NEW i \in 1 .. Len(c)
               PROVE  u[Len(a) + Len(b) + i] = c[i]
    OBVIOUS
  <2> DEFINE j == Len(a) + Len(b) + i
  <2>1. j \in 1 .. Len(ab) + Len(c) /\ ~(j <= Len(ab)) /\ j - Len(ab) = i
    BY <1>1, <1>3
  <2> HIDE DEF j
  <2>2. u[j] = c[j - Len(ab)]
    BY <1>2, <2>1
  <2> QED
    BY <2>1, <2>2 DEF j
<1> QED
  BY <1>4, <1>5, <1>6, <1>7, Zenon DEF u, ab, Laid

Associate(a, b, c) == (a \o b) \o c = a \o (b \o c)

\* Joining three sequences either way gives the same.
LEMMA BytesAssociate ==
  ASSUME NEW a \in Seq(Byte), NEW b \in Seq(Byte), NEW c \in Seq(Byte)
  PROVE  Associate(a, b, c)
BY ConcatAssociative DEF Associate

\* Bytes that move on to the next buffer stay where they are in the stream.
LEMMA Regrouped ==
  ASSUME NEW a \in Seq(Byte), NEW b \in Seq(Byte), NEW c \in Seq(Byte), NEW n \in 0 .. Len(b)
  PROVE  (a \o SubSeq(b, 1, n)) \o SubSeq(b, n + 1, Len(b)) \o c = a \o b \o c
<1> DEFINE x == SubSeq(b, 1, n)
           y == SubSeq(b, n + 1, Len(b))
<1>1. /\ x \in Seq(Byte) /\ Len(x) = n
      /\ \A i \in 1 .. n : x[i] = b[i]
  OBVIOUS
<1>2. /\ y \in Seq(Byte) /\ Len(y) = Len(b) - n
      /\ \A i \in 1 .. Len(b) - n : y[i] = b[n + i]
  OBVIOUS
<1>3. x \o y = b
  <2>1. /\ 1 \in 1 .. Len(b) + 1 /\ n \in 1 - 1 .. Len(b) /\ Len(b) \in n .. Len(b)
    OBVIOUS
  <2>2. x \o y = SubSeq(b, 1, Len(b))
    BY <2>1, ConcatAdjacentSubSeq, Zenon
  <2> QED
    BY <2>2, SubSeqFull
<1> HIDE DEF x, y
<1>4. x \in Seq(Byte) /\ y \in Seq(Byte)
  BY <1>1, <1>2
<1>5. Associate(a, x, y)
  BY <1>4, BytesAssociate, Zenon
<1> QED
  BY <1>3, <1>5, Zenon DEF Associate, x, y

-----------------------------------------------------------------------------
(* Answers.                                                                *)

\* What an answer in the channel is.
LEMMA VerdictTypes ==
  ASSUME NEW o \in Seq(Verdict), NEW i \in DOMAIN o
  PROVE  o[i] \in Verdict /\ o[i].n \in Nat /\ o[i].n \in 0 .. MaxItems
<1>1. o[i] \in Verdict
  OBVIOUS
<1>2. MaxItems \in Nat
  BY ReaderAssumption
<1> QED
  BY <1>1, <1>2 DEF Verdict

\* Two lists of answers, one after the other.
LEMMA VerdictsConcat ==
  ASSUME NEW o \in Seq(Verdict), NEW a \in Seq(Verdict)
  PROVE  /\ o \o a \in Seq(Verdict) /\ DOMAIN (o \o a) = 1 .. Len(o) + Len(a)
         /\ \A i \in DOMAIN o : i \in DOMAIN (o \o a) /\ (o \o a)[i] = o[i]
         /\ \A i \in DOMAIN a : Len(o) + i \in DOMAIN (o \o a) /\ (o \o a)[Len(o) + i] = a[i]
         /\ \A i \in DOMAIN (o \o a) :
               \/ i \in DOMAIN o /\ (o \o a)[i] = o[i]
               \/ i - Len(o) \in DOMAIN a /\ (o \o a)[i] = a[i - Len(o)]
<1> DEFINE u == o \o a
<1>1. /\ u \in Seq(Verdict) /\ Len(u) = Len(o) + Len(a)
      /\ \A i \in 1 .. Len(o) + Len(a) : u[i] = IF i <= Len(o) THEN o[i] ELSE a[i - Len(o)]
  BY ConcatProperties, Zenon
<1> HIDE DEF u
<1>2. /\ DOMAIN u = 1 .. Len(o) + Len(a) /\ DOMAIN o = 1 .. Len(o) /\ DOMAIN a = 1 .. Len(a)
      /\ Len(o) \in Nat /\ Len(a) \in Nat
  BY <1>1
<1>3. \A i \in DOMAIN o : i \in DOMAIN u /\ u[i] = o[i]
  BY <1>1, <1>2
<1>4. \A i \in DOMAIN a : Len(o) + i \in DOMAIN u /\ u[Len(o) + i] = a[i]
  <2> SUFFICES ASSUME NEW i \in DOMAIN a
               PROVE  Len(o) + i \in DOMAIN u /\ u[Len(o) + i] = a[i]
    OBVIOUS
  <2>1. Len(o) + i \in 1 .. Len(o) + Len(a) /\ ~(Len(o) + i <= Len(o))
    BY <1>2
  <2>2. u[Len(o) + i] = a[Len(o) + i - Len(o)] /\ Len(o) + i - Len(o) = i
    BY <1>1, <1>2, <2>1
  <2> QED
    BY <1>2, <2>1, <2>2
<1>5. \A i \in DOMAIN u : \/ i \in DOMAIN o /\ u[i] = o[i]
                          \/ i - Len(o) \in DOMAIN a /\ u[i] = a[i - Len(o)]
  BY <1>1, <1>2
<1> QED
  BY <1>1, <1>2, <1>3, <1>4, <1>5 DEF u

\* Answers to other items change nothing for item n.
LEMMA HeardOthers ==
  ASSUME NEW o \in Seq(Verdict), NEW a \in Seq(Verdict), NEW n,
         \A i \in DOMAIN a : a[i].n # n
  PROVE  Heard(o \o a, n) = Heard(o, n)
<1> DEFINE u == o \o a
<1>1. \A i \in DOMAIN o : i \in DOMAIN u /\ u[i] = o[i]
  BY VerdictsConcat, Zenon
<1>2. \A i \in DOMAIN u : \/ i \in DOMAIN o /\ u[i] = o[i]
                          \/ i - Len(o) \in DOMAIN a /\ u[i] = a[i - Len(o)]
  BY VerdictsConcat, Zenon
<1> HIDE DEF u
<1>3. Heard(u, n) \subseteq Heard(o, n)
  <2> SUFFICES ASSUME NEW i \in DOMAIN u, u[i].n = n
               PROVE  u[i].k \in Heard(o, n)
    BY DEF Heard
  <2>1. i \in DOMAIN o /\ u[i] = o[i]
    BY <1>2
  <2> QED
    BY <2>1 DEF Heard
<1>4. Heard(o, n) \subseteq Heard(u, n)
  BY <1>1 DEF Heard
<1>5. Heard(u, n) = Heard(o, n)
  BY <1>3, <1>4
<1> QED
  BY <1>5 DEF u

\* An item that has had no answer gets the one that is sent.
LEMMA HeardFirst ==
  ASSUME NEW o \in Seq(Verdict), NEW a \in Seq(Verdict), NEW n,
         \A i \in DOMAIN a : a[i].n = n, \A i \in DOMAIN o : o[i].n # n
  PROVE  Heard(o \o a, n) = {a[i].k : i \in DOMAIN a}
<1> DEFINE u == o \o a
<1>1. \A i \in DOMAIN a : Len(o) + i \in DOMAIN u /\ u[Len(o) + i] = a[i]
  BY VerdictsConcat, Zenon
<1>2. \A i \in DOMAIN u : \/ i \in DOMAIN o /\ u[i] = o[i]
                          \/ i - Len(o) \in DOMAIN a /\ u[i] = a[i - Len(o)]
  BY VerdictsConcat, Zenon
<1> HIDE DEF u
<1>3. Heard(u, n) \subseteq {a[i].k : i \in DOMAIN a}
  <2> SUFFICES ASSUME NEW i \in DOMAIN u, u[i].n = n
               PROVE  u[i].k \in {a[j].k : j \in DOMAIN a}
    BY DEF Heard
  <2>1. i - Len(o) \in DOMAIN a /\ u[i] = a[i - Len(o)]
    BY <1>2
  <2> QED
    BY <2>1
<1>4. {a[i].k : i \in DOMAIN a} \subseteq Heard(u, n)
  <2> SUFFICES ASSUME NEW i \in DOMAIN a
               PROVE  a[i].k \in Heard(u, n)
    OBVIOUS
  <2>1. Len(o) + i \in DOMAIN u /\ u[Len(o) + i].n = n /\ u[Len(o) + i].k = a[i].k
    BY <1>1
  <2> QED
    BY <2>1 DEF Heard
<1>5. Heard(u, n) = {a[i].k : i \in DOMAIN a}
  BY <1>3, <1>4
<1> QED
  BY <1>5 DEF u

\* Answers that may follow what has been sent: at most one is to an item, and that
\* to item n.
Follow(a, n) ==
    a \in Seq(Verdict) /\ \A i \in DOMAIN a : a[i].n \in {0, n} /\ (a[i].n # 0 => i = 1)

\* The items' numbers only grow.
Growing(o) == \A i, j \in DOMAIN o : i < j /\ o[j].n # 0 => o[i].n < o[j].n

\* Answers in order stay so when those of a later item follow.
LEMMA GrowingMore ==
  ASSUME NEW o \in Seq(Verdict), NEW a, NEW n \in Nat, Follow(a, n), Growing(o),
         \A i \in DOMAIN o : n = 0 \/ o[i].n < n
  PROVE  Growing(o \o a)
<1> DEFINE u == o \o a
<1>1. a \in Seq(Verdict)
  BY DEF Follow
<1>2. \A i \in DOMAIN u : \/ i \in DOMAIN o /\ u[i] = o[i]
                          \/ i - Len(o) \in DOMAIN a /\ u[i] = a[i - Len(o)]
  BY <1>1, VerdictsConcat, Zenon
<1>3. DOMAIN u = 1 .. Len(o) + Len(a) /\ DOMAIN o = 1 .. Len(o) /\ DOMAIN a = 1 .. Len(a)
      /\ Len(o) \in Nat /\ Len(a) \in Nat
  BY <1>1, VerdictsConcat
<1> HIDE DEF u
<1> SUFFICES ASSUME NEW i \in DOMAIN u, NEW j \in DOMAIN u, i < j, u[j].n # 0
             PROVE  u[i].n < u[j].n
  BY DEF Growing, u
<1>4. CASE j \in DOMAIN o /\ u[j] = o[j]
  <2>1. i \in DOMAIN o /\ u[i] = o[i]
    BY <1>2, <1>3, <1>4
  <2> QED
    BY <1>4, <2>1 DEF Growing
<1>5. CASE j - Len(o) \in DOMAIN a /\ u[j] = a[j - Len(o)]
  <2>1. u[j].n = n /\ j - Len(o) = 1 /\ n # 0
    BY <1>5 DEF Follow
  <2>2. i \in DOMAIN o /\ u[i] = o[i]
    BY <1>2, <1>3, <2>1
  <2> QED
    BY <2>1, <2>2
<1> QED
  BY <1>2, <1>4, <1>5

-----------------------------------------------------------------------------
(* What a step does to the bytes that are unread.                          *)

\* The bytes of the three buffers have their places in the stream.
LEMMA UnreadTypes ==
  ASSUME TypeOK
  PROVE  /\ Unread \in Seq(Byte) /\ Len(Unread) = Len(buf) + Len(avail) + Len(stream)
         /\ DOMAIN Unread = 1 .. Len(buf) + Len(avail) + Len(stream)
         /\ \A i \in 1 .. Len(buf) : Unread[i] = buf[i]
         /\ \A i \in 1 .. Len(avail) : Unread[Len(buf) + i] = avail[i]
         /\ \A i \in 1 .. Len(stream) : Unread[Len(buf) + Len(avail) + i] = stream[i]
         /\ buf \in Seq(Byte) /\ avail \in Seq(Byte) /\ stream \in Seq(Byte)
         /\ Len(buf) \in Nat /\ Len(avail) \in Nat /\ Len(stream) \in Nat
         /\ DOMAIN buf = 1 .. Len(buf) /\ DOMAIN avail = 1 .. Len(avail)
<1>1. buf \in Seq(Byte) /\ avail \in Seq(Byte) /\ stream \in Seq(Byte)
  BY DEF TypeOK
<1>2. /\ Unread \in Seq(Byte) /\ Len(Unread) = Len(buf) + Len(avail) + Len(stream)
      /\ DOMAIN Unread = 1 .. Len(buf) + Len(avail) + Len(stream)
      /\ \A i \in 1 .. Len(buf) : Unread[i] = buf[i]
      /\ \A i \in 1 .. Len(avail) : Unread[Len(buf) + i] = avail[i]
      /\ \A i \in 1 .. Len(stream) : Unread[Len(buf) + Len(avail) + i] = stream[i]
  BY <1>1, Three, Zenon DEF Unread, Laid
<1> QED
  BY <1>1, <1>2

\* The first p bytes are done with.
Drops(p) ==
    /\ p \in Nat /\ Unread' \in Seq(Byte)
    /\ Within(Unread', Unread, p) /\ Len(Unread) = p + Len(Unread')

\* A line that is dropped drops its bytes from what is unread.
LEMMA BufCleared ==
  ASSUME TypeOK, buf' = <<>>, UNCHANGED <<avail, stream>>
  PROVE  Drops(Len(buf)) /\ Len(Unread') = Len(avail) + Len(stream)
<1> DEFINE e == <<>>
           a == avail
           c == stream
           v == e \o a \o c
<1>1. /\ a \in Seq(Byte) /\ c \in Seq(Byte) /\ e \in Seq(Byte) /\ Len(e) = 0
      /\ Len(a) \in Nat /\ Len(c) \in Nat /\ Len(buf) \in Nat
  BY UnreadTypes
<1> HIDE DEF e, a, c
<1>2. Laid(v, e, a, c)
  <2>1. e \in Seq(Byte) /\ a \in Seq(Byte) /\ c \in Seq(Byte)
    BY <1>1
  <2> QED
    BY <2>1, Three, Zenon
<1> HIDE DEF v
<1> USE DEF a, c
<1>3. Len(v) = Len(a) + Len(c) /\ v \in Seq(Byte)
      /\ (\A i \in 1 .. Len(a) : v[i] = a[i]) /\ (\A i \in 1 .. Len(c) : v[Len(a) + i] = c[i])
  BY <1>1, <1>2 DEF Laid
<1>4. Unread' = v
  BY Zenon DEF Unread, v, e
<1>5. ASSUME NEW i \in 1 .. Len(v)
      PROVE  v[i] = Unread[Len(buf) + i]
  <2>1. CASE i <= Len(a)
    BY <1>1, <1>3, <2>1, UnreadTypes
  <2>2. CASE i > Len(a)
    <3> DEFINE j == i - Len(a)
    <3>1. j \in 1 .. Len(c) /\ Len(a) + j = i /\ Len(buf) + Len(a) + j = Len(buf) + i
      BY <1>1, <1>3, <2>2
    <3>2. v[Len(a) + j] = c[j] /\ Unread[Len(buf) + Len(a) + j] = c[j]
      BY <1>3, <3>1, UnreadTypes
    <3> QED
      BY <3>1, <3>2
  <2> QED
    BY <1>1, <1>3, <2>1, <2>2
<1>6. Within(v, Unread, Len(buf)) /\ Len(Unread) = Len(buf) + Len(v)
  BY <1>1, <1>3, <1>5, UnreadTypes DEF Within
<1> QED
  BY <1>1, <1>3, <1>4, <1>6 DEF Drops

\* Skipping takes bytes from the front of what is unread.
LEMMA BytesSkipped ==
  ASSUME TypeOK, buf = <<>>, buf' = buf, stream' = stream, NEW n \in 0 .. Len(avail),
         avail' = SubSeq(avail, n + 1, Len(avail))
  PROVE  /\ Drops(n) /\ Len(Unread') = Len(avail') + Len(stream)
         /\ avail' \in Seq(Byte) /\ Len(avail') = Len(avail) - n
<1> DEFINE e == <<>>
           a == SubSeq(avail, n + 1, Len(avail))
           c == stream
           v == e \o a \o c
<1>1. /\ a \in Seq(Byte) /\ Len(a) = Len(avail) - n
      /\ \A i \in 1 .. Len(avail) - n : a[i] = avail[n + i]
      /\ c \in Seq(Byte) /\ e \in Seq(Byte) /\ Len(e) = 0
      /\ Len(avail) \in Nat /\ Len(c) \in Nat
  <2>1. avail \in Seq(Byte) /\ stream \in Seq(Byte)
    BY UnreadTypes
  <2> QED
    BY <2>1
<1> HIDE DEF e, a, c
<1>2. Laid(v, e, a, c)
  <2>1. e \in Seq(Byte) /\ a \in Seq(Byte) /\ c \in Seq(Byte)
    BY <1>1
  <2> QED
    BY <2>1, Three, Zenon
<1>3. Unread' = v /\ avail' = a
  BY Zenon DEF Unread, v, e, a, c
<1> HIDE DEF v
<1> USE DEF c
<1>4. Len(v) = Len(a) + Len(c) /\ v \in Seq(Byte) /\ Len(a) \in Nat
      /\ (\A i \in 1 .. Len(a) : v[i] = a[i]) /\ (\A i \in 1 .. Len(c) : v[Len(a) + i] = c[i])
  <2>1. Len(a) \in Nat /\ Len(c) \in Nat /\ Len(e) = 0
    BY <1>1
  <2> HIDE DEF c
  <2> QED
    BY <1>2, <2>1 DEF Laid
<1>5. Len(buf) = 0
  OBVIOUS
<1>6. /\ \A i \in 1 .. Len(avail) : Unread[i] = avail[i]
      /\ \A i \in 1 .. Len(c) : Unread[Len(avail) + i] = c[i]
      /\ Len(Unread) = Len(avail) + Len(c)
  BY <1>1, <1>5, UnreadTypes
<1>7. ASSUME NEW i \in 1 .. Len(v)
      PROVE  v[i] = Unread[n + i]
  <2>1. CASE i <= Len(a)
    <3>1. i \in 1 .. Len(avail) - n /\ n + i \in 1 .. Len(avail)
      BY <1>1, <1>4, <2>1
    <3> QED
      BY <1>1, <1>4, <1>6, <2>1, <3>1
  <2>2. CASE i > Len(a)
    <3> DEFINE j == i - Len(a)
    <3>1. j \in 1 .. Len(c) /\ Len(a) + j = i /\ Len(avail) + j = n + i
      BY <1>1, <1>4, <2>2
    <3>2. v[Len(a) + j] = c[j] /\ Unread[Len(avail) + j] = c[j]
      BY <1>4, <1>6, <3>1
    <3> QED
      BY <3>1, <3>2
  <2> QED
    BY <1>1, <1>4, <2>1, <2>2
<1> QED
  BY <1>1, <1>3, <1>4, <1>6, <1>7 DEF Drops, Within

\* What is left of the stream is as it was.
LEMMA DropsKeep ==
  ASSUME TypeOK, Bytewise, UNCHANGED hostVars, NEW p, Drops(p)
  PROVE  /\ \A i \in DOMAIN Unread' : Unread'[i].n <= Len(items')
         /\ Ordered(Unread') /\ EndsWhole(Unread)' /\ Sized(Unread)' /\ (cut' => ~open')
<1> DEFINE u == Unread
           v == Unread'
<1>1. /\ u \in Seq(Byte) /\ v \in Seq(Byte) /\ p \in Nat /\ Within(v, u, p)
      /\ Len(u) = p + Len(v)
      /\ DOMAIN v = 1 .. Len(v) /\ DOMAIN u = 1 .. Len(u) /\ Len(u) \in Nat /\ Len(v) \in Nat
  BY UnreadTypes DEF Drops
<1>2. \A i \in DOMAIN v : p + i \in DOMAIN u /\ v[i] = u[p + i]
  BY <1>1 DEF Within
<1>3. items' = items /\ cut' = cut /\ open' = open
  BY DEF hostVars
<1> HIDE DEF u, v
<1>4. /\ \A i \in DOMAIN u : u[i].n <= Len(items)
      /\ Ordered(u) /\ EndsWhole(u) /\ Sized(u) /\ (cut => ~open)
  BY DEF Bytewise, u
<1>5. \A i \in DOMAIN v : v[i].n <= Len(items')
  BY <1>2, <1>3, <1>4
<1>6. Ordered(v)
  BY <1>1, <1>4, OrderedPart
<1>7. v # <<>> /\ ~v[Len(v)].last => cut' /\ v[Len(v)].n = Len(items')
  <2>1. v # <<>> => u # <<>> /\ v[Len(v)] = u[Len(u)]
    BY <1>1, <1>2
  <2> QED
    BY <1>3, <1>4, <2>1 DEF EndsWhole, IsCut
<1>8. ASSUME NEW i \in DOMAIN v, NEW j \in DOMAIN v, i < j, v[i].last, v[j].last,
             v[i + 1].n = v[j].n
      PROVE  j - i = items'[v[j].n].size
  <2>1. /\ p + i \in DOMAIN u /\ p + j \in DOMAIN u /\ p + i < p + j
        /\ v[i] = u[p + i] /\ v[j] = u[p + j]
    BY <1>1, <1>2, <1>8
  <2>2. i \in Nat /\ j \in Nat /\ p \in Nat /\ i + 1 \in DOMAIN v
    BY <1>1, <1>8
  <2>3. v[i + 1] = u[p + (i + 1)]
    BY <1>2, <2>2, Zenon
  <2>4. p + (i + 1) = (p + i) + 1
    BY <2>2
  <2>5. u[(p + i) + 1].n = u[p + j].n
    BY <1>8, <2>1, <2>3, <2>4
  <2>6. (p + j) - (p + i) = items[u[p + j].n].size
    BY <1>4, <1>8, <2>1, <2>5, Zenon DEF Sized, Between
  <2>7. (p + j) - (p + i) = j - i
    BY <2>2
  <2> QED
    BY <1>3, <2>1, <2>6, <2>7
<1>9. Ordered(Unread') /\ \A i \in DOMAIN Unread' : Unread'[i].n <= Len(items')
  BY <1>5, <1>6 DEF v
<1>10. EndsWhole(Unread)'
  BY <1>7 DEF EndsWhole, IsCut, v
<1>11. Sized(Unread)'
  BY <1>8 DEF Sized, Between, v
<1> QED
  BY <1>3, <1>4, <1>9, <1>10, <1>11

\* x is as far from y as i is from j.
Apart(x, y, i, j) == x + j = y + i

\* Two places are as far from each other wherever they are counted from.
LEMMA Shifted ==
  ASSUME NEW x \in Nat, NEW y \in Nat, NEW p \in Nat, NEW i \in Nat, NEW j \in Nat,
         Apart(x, y, p + i, p + j)
  PROVE  Apart(x, y, i, j)
BY DEF Apart

\* Bytes of one item that are in their places are as far apart as their places are.
LEMMA PlacedApart ==
  ASSUME NEW s, Placed(s), NEW i \in DOMAIN s, NEW j \in DOMAIN s, s[i].n = s[j].n
  PROVE  Apart(s[i].at, s[j].at, i, j)
BY Zenon DEF Placed, Apart

\* Bytes that are in their places stay so when others are taken from around them.
LEMMA PlacedPart ==
  ASSUME NEW u \in Seq(Byte), NEW v \in Seq(Byte), NEW p \in Nat, Within(v, u, p), Placed(u)
  PROVE  Placed(v)
<1>1. /\ DOMAIN v = 1 .. Len(v) /\ DOMAIN u = 1 .. Len(u) /\ Len(v) \in Nat /\ Len(u) \in Nat
      /\ p + Len(v) <= Len(u)
  BY DEF Within
<1>2. \A i \in DOMAIN v : /\ p + i \in DOMAIN u /\ v[i] = u[p + i] /\ i \in Nat
                          /\ u[p + i].at \in Nat
  <2> SUFFICES ASSUME NEW i \in DOMAIN v
               PROVE  /\ p + i \in DOMAIN u /\ v[i] = u[p + i] /\ i \in Nat
                      /\ u[p + i].at \in Nat
    OBVIOUS
  <2>1. p + i \in DOMAIN u /\ v[i] = u[p + i] /\ i \in Nat
    BY <1>1 DEF Within
  <2> QED
    BY <2>1, ByteTypes
<1>3. p \in Nat
  OBVIOUS
<1>6. ASSUME NEW i \in DOMAIN v
      PROVE  v[i].at <= items[v[i].n].size /\ (v[i].last <=> v[i].at = items[v[i].n].size)
  BY <1>2, Zenon DEF Placed
<1>4. ASSUME NEW i \in DOMAIN v, NEW j \in DOMAIN v, v[i].n = v[j].n
      PROVE  v[i].at + j = v[j].at + i
  <2>1. /\ p + i \in DOMAIN u /\ p + j \in DOMAIN u /\ v[i] = u[p + i] /\ v[j] = u[p + j]
        /\ i \in Nat /\ j \in Nat /\ u[p + i].at \in Nat /\ u[p + j].at \in Nat
    BY <1>2
  <2>2. Apart(u[p + i].at, u[p + j].at, p + i, p + j)
    <3>1. u[p + i].n = u[p + j].n
      BY <1>4, <2>1
    <3> QED
      BY <2>1, <3>1, PlacedApart, Zenon
  <2>3. i \in Nat /\ j \in Nat /\ u[p + i].at \in Nat /\ u[p + j].at \in Nat
    BY <2>1
  <2>4. Apart(u[p + i].at, u[p + j].at, i, j)
    BY <1>3, <2>2, <2>3, Shifted, Zenon
  <2> QED
    BY <2>1, <2>4, Zenon DEF Apart
<1>5. ASSUME NEW i \in DOMAIN v, i > 1, v[i - 1].last
      PROVE  v[i].at = 1
  <2>1. /\ i - 1 \in DOMAIN v /\ i \in Nat /\ p + i > 1 /\ (p + i) - 1 = p + (i - 1)
    BY <1>1, <1>5
  <2>2. p + i \in DOMAIN u /\ v[i] = u[p + i] /\ v[i - 1] = u[p + (i - 1)]
    BY <1>2, <2>1
  <2>3. u[(p + i) - 1].last
    BY <1>5, <2>1, <2>2
  <2> QED
    BY <2>1, <2>2, <2>3 DEF Placed
<1> QED
  BY <1>4, <1>5, <1>6 DEF Placed

\* So they do when the first bytes are done with, as long as the reader goes on at
\* the end of an item.
LEMMA DropsInPlace ==
  ASSUME TypeOK, InPlace, items' = items, NEW p, Drops(p),
         pc' = "read" /\ Unread' # <<>> => p \in DOMAIN Unread /\ Unread[p].last
  PROVE  InPlace'
<1> DEFINE u == Unread
           v == Unread'
<1>1. /\ u \in Seq(Byte) /\ v \in Seq(Byte) /\ p \in Nat /\ Within(v, u, p)
      /\ Len(u) = p + Len(v) /\ Placed(u)
  BY UnreadTypes DEF Drops, InPlace
<1>2. pc' = "read" /\ v # <<>> => p \in DOMAIN u /\ u[p].last
  OBVIOUS
<1> HIDE DEF u, v
<1>3. Placed(v)
  BY <1>1, PlacedPart
<1>4. ASSUME pc' = "read", v # <<>>
      PROVE  v[1].at = 1
  <2>1. /\ 1 \in 1 .. Len(v) /\ p + 1 \in DOMAIN u /\ p + 1 > 1 /\ (p + 1) - 1 = p
        /\ u[p].last
    BY <1>1, <1>2, <1>4
  <2>2. v[1] = u[p + 1]
    BY <1>1, <2>1 DEF Within
  <2>3. u[p + 1].at = 1
    BY <1>1, <2>1 DEF Placed
  <2> QED
    BY <2>2, <2>3
<1>5. Placed(Unread)'
  BY <1>3 DEF Placed, v
<1> QED
  BY <1>4, <1>5 DEF InPlace, v

-----------------------------------------------------------------------------
(* Steps that answer nothing.                                              *)

\* An item of the host's is what it was.
ItemsKept ==
    /\ items' \in Seq(Items) /\ Len(items) <= Len(items')
    /\ \A n \in DOMAIN items : n \in DOMAIN items' /\ items'[n] = items[n]

\* A step that answers nothing leaves every answer as it was.
LEMMA AnswersKept ==
  ASSUME ItemsKept, UNCHANGED <<format, out>>, NEW n \in DOMAIN items
  PROVE  /\ FitsCap(n)' <=> FitsCap(n)
         /\ items'[n].parses = items[n].parses
         /\ Answered(n)' <=> Answered(n)
<1>1. items'[n] = items[n]
  BY DEF ItemsKept
<1>2. FitsCap(n)' <=> FitsCap(n)
  BY <1>1 DEF FitsCap, Jsonl
<1>3. MayFit(n)' <=> MayFit(n)
  BY <1>1, <1>2 DEF MayFit, Jsonl
<1>4. Expected(n)' = Expected(n)
  BY <1>1 DEF Expected, Jsonl
<1>5. \A ks : Said(n, ks)' <=> Said(n, ks)
  BY DEF Said
<1>6. Answered(n)' <=> Answered(n)
  BY <1>2, <1>3, <1>4, <1>5, Zenon DEF Answered, Said
<1> QED
  BY <1>1, <1>2, <1>6

\* A step that neither answers nor takes a byte away from an item that could still
\* be dealt with.
Idle ==
    /\ ItemsKept /\ UNCHANGED <<format, pc, out>> /\ (engineUp' => engineUp)
    /\ Unread' \in Seq(Byte)
    /\ \A n \in DOMAIN items' : Passed(n)' => n \in DOMAIN items /\ Passed(n)
    /\ \A j \in DOMAIN Unread' : \/ j \in DOMAIN Unread /\ Unread'[j] = Unread[j]
                                 \/ Unread'[j].n > Len(items)
    /\ pc = "skip" /\ Unread' # <<>> /\ ~IsCut(Unread[1].n)' =>
          Unread # <<>> /\ Unread'[1] = Unread[1] /\ ~IsCut(Unread[1].n)

\* And with it all the invariant says of answers.
LEMMA IdleKeeps ==
  ASSUME StreamInv, Idle
  PROVE  Behind' /\ Skipped' /\ GoodSoFar' /\ InStep' /\ StopsAtFatal'
<1>1. /\ Unread \in Seq(Byte) /\ Unread' \in Seq(Byte) /\ items \in Seq(Items)
      /\ items' \in Seq(Items) /\ out \in Seq(Verdict)
      /\ Len(items) \in Nat /\ Len(items') \in Nat /\ Len(items) <= Len(items')
  BY UnreadTypes DEF StreamInv, TypeOK, Idle, ItemsKept
<1>2. /\ UNCHANGED <<format, pc, out>> /\ (engineUp' => engineUp) /\ (Msgpack' <=> Msgpack)
      /\ Jsonl' <=> Jsonl
  BY DEF Idle, Msgpack, Jsonl
<1>3. \A n \in DOMAIN items : /\ FitsCap(n)' <=> FitsCap(n)
                              /\ items'[n].parses = items[n].parses
                              /\ Answered(n)' <=> Answered(n)
  BY AnswersKept DEF Idle
<1>4. \A n \in DOMAIN items' : Passed(n)' => n \in DOMAIN items /\ Passed(n)
  BY DEF Idle
<1>5. Behind'
  <2> SUFFICES ASSUME NEW i \in DOMAIN out
               PROVE  /\ out[i].n <= Len(items')
                      /\ \A j \in DOMAIN Unread' :
                            /\ pc = "read" => out[i].n < Unread'[j].n
                            /\ pc = "skip" => out[i].n <= Unread'[j].n
    BY <1>2 DEF Behind
  <2>1. out[i].n \in Nat /\ out[i].n <= Len(items)
    BY <1>1, VerdictTypes DEF StreamInv, Behind
  <2>2. ASSUME NEW j \in DOMAIN Unread'
        PROVE  /\ pc = "read" => out[i].n < Unread'[j].n
               /\ pc = "skip" => out[i].n <= Unread'[j].n
    <3>1. CASE j \in DOMAIN Unread /\ Unread'[j] = Unread[j]
      BY <3>1 DEF StreamInv, Behind
    <3>2. CASE Unread'[j].n > Len(items)
      <4>1. Unread'[j].n \in Nat
        BY <1>1, ByteTypes
      <4> QED
        BY <1>1, <2>1, <3>2, <4>1
    <3> QED
      BY <3>1, <3>2 DEF Idle
  <2> QED
    BY <1>1, <2>1, <2>2
<1>6. Skipped'
  <2> SUFFICES ASSUME engineUp', pc = "skip", Unread' # <<>>, ~IsCut(Unread[1].n)'
               PROVE  ~FitsCap(Unread[1].n)' /\ Said(Unread[1].n, <<"parse">>)'
    BY <1>2 DEF Skipped
  <2>1. Unread # <<>> /\ Unread'[1] = Unread[1] /\ ~IsCut(Unread[1].n)
    BY DEF Idle
  <2>2. ~FitsCap(Unread[1].n) /\ Said(Unread[1].n, <<"parse">>)
    BY <1>2, <2>1 DEF StreamInv, Skipped
  <2>3. Unread[1].n \in DOMAIN items
    <3>1. 1 \in DOMAIN Unread
      BY <1>1, <2>1
    <3>2. Unread[1].n \in Nat /\ Unread[1].n \in 1 .. MaxItems /\ Unread[1].n <= Len(items)
      BY <1>1, <3>1, ByteTypes DEF StreamInv, Bytewise
    <3> QED
      BY <1>1, <3>2, ReaderAssumption
  <2>4. items'[Unread'[1].n] = items[Unread[1].n]
    BY <2>1, <2>3 DEF Idle, ItemsKept
  <2>5. ~FitsCap(Unread[1].n)'
    BY <1>2, <2>2, <2>4 DEF FitsCap
  <2>6. Said(Unread[1].n, <<"parse">>)'
    BY <1>2, <2>1, <2>2 DEF Said
  <2> QED
    BY <2>5, <2>6
<1>7. GoodSoFar'
  BY <1>2, <1>3, <1>4 DEF StreamInv, GoodSoFar
<1>8. InStep'
  BY <1>2, <1>3, <1>4 DEF StreamInv, InStep
<1>9. StopsAtFatal'
  <2> SUFFICES ASSUME Msgpack, NEW i \in DOMAIN out, NEW n \in 1 .. out[i].n,
                      n < out[i].n \/ out[i].k # "parse"
               PROVE  FitsCap(n)' /\ items'[n].parses
    BY <1>2 DEF StopsAtFatal
  <2>1. out[i].n \in Nat /\ out[i].n <= Len(items)
    BY <1>1, VerdictTypes DEF StreamInv, Behind
  <2>2. n \in DOMAIN items
    BY <1>1, <2>1
  <2> QED
    BY <1>3, <2>2 DEF StreamInv, StopsAtFatal
<1> QED
  BY <1>5, <1>6, <1>7, <1>8, <1>9

\* No item ends inside the buffer.
LEMMA BufInner ==
  ASSUME TypeOK, Ordered(Unread)
  PROVE  /\ \A k \in 1 .. Len(buf) - 1 : ~Unread[k].last
         /\ ~Ended => \A k \in 1 .. Len(buf) : ~Unread[k].last
<1>1. /\ Unread \in Seq(Byte) /\ Len(buf) \in Nat
      /\ \A k \in 1 .. Len(buf) : k \in DOMAIN Unread /\ Unread[k] = buf[k]
      /\ \A k \in 1 .. Len(buf) : buf[k].n = buf[1].n
  BY UnreadTypes DEF TypeOK
<1>2. \A k \in 1 .. Len(buf) - 1 : ~Unread[k].last
  <2> SUFFICES ASSUME NEW k \in 1 .. Len(buf) - 1, Unread[k].last
               PROVE  FALSE
    OBVIOUS
  <2>1. /\ k \in DOMAIN Unread /\ k + 1 \in DOMAIN Unread /\ k < k + 1
        /\ Unread[k] = buf[k] /\ Unread[k + 1] = buf[k + 1]
    BY <1>1
  <2>2. Unread[k].n < Unread[k + 1].n
    BY <2>1 DEF Ordered
  <2>3. buf[k].n = buf[k + 1].n
    BY <1>1
  <2>4. Unread[k].n \in Nat
    BY <1>1, <2>1, ByteTypes
  <2> QED
    BY <2>1, <2>2, <2>3, <2>4
<1>3. ASSUME ~Ended, NEW k \in 1 .. Len(buf)
      PROVE  ~Unread[k].last
  <2>1. CASE k < Len(buf)
    BY <1>1, <1>2, <2>1
  <2>2. CASE k = Len(buf)
    BY <1>1, <1>3, <2>2 DEF Ended
  <2> QED
    BY <1>1, <2>1, <2>2
<1> QED
  BY <1>2, <1>3

\* Taking bytes of the item being read.
LEMMA Taken ==
  ASSUME TypeOK, Ordered(Unread), ~Ended, NEW n \in 0 .. Len(avail), n <= SkipLength(avail),
         buf' = buf \o SubSeq(avail, 1, n), avail' = SubSeq(avail, n + 1, Len(avail)),
         stream' = stream
  PROVE  /\ Unread' = Unread /\ buf' \in Seq(Byte) /\ avail' \in Seq(Byte)
         /\ Len(buf') = Len(buf) + n /\ Len(avail') = Len(avail) - n
         /\ \A i \in DOMAIN buf' : buf'[i].n = buf'[1].n
<1> DEFINE x == SubSeq(avail, 1, n)
           y == SubSeq(avail, n + 1, Len(avail))
           b == buf \o x
<1>1. /\ buf \in Seq(Byte) /\ avail \in Seq(Byte) /\ stream \in Seq(Byte)
      /\ Len(buf) \in Nat /\ Len(avail) \in Nat
  BY UnreadTypes
<1>2. /\ x \in Seq(Byte) /\ y \in Seq(Byte) /\ Len(x) = n /\ Len(y) = Len(avail) - n
      /\ (buf \o x) \o y \o stream = buf \o avail \o stream
      /\ \A i \in 1 .. n : x[i] = avail[i]
  <2>1. /\ x \in Seq(Byte) /\ y \in Seq(Byte) /\ Len(x) = n /\ Len(y) = Len(avail) - n
        /\ \A i \in 1 .. n : x[i] = avail[i]
    BY <1>1
  <2>2. (buf \o x) \o y \o stream = buf \o avail \o stream
    BY <1>1, Regrouped, Zenon
  <2> QED
    BY <2>1, <2>2
<1>3. Unread' = Unread
  BY <1>2, Zenon DEF Unread
<1> HIDE DEF x, y
<1>4. /\ Len(b) = Len(buf) + Len(x) /\ b \in Seq(Byte)
      /\ \A i \in 1 .. Len(buf) + Len(x) : b[i] = IF i <= Len(buf) THEN buf[i] ELSE x[i - Len(buf)]
  BY <1>1, <1>2, BytesConcat, Zenon
<1> HIDE DEF b
<1>5. buf' = b /\ avail' = y
  BY DEF b, x, y
<1>6. DOMAIN b = 1 .. Len(buf) + n
  BY <1>1, <1>2, <1>4
<1>7. ASSUME NEW i \in DOMAIN b
      PROVE  b[i] = Unread[i]
  <2>1. CASE i <= Len(buf)
    BY <1>1, <1>2, <1>4, <1>6, <2>1, UnreadTypes
  <2>2. CASE i > Len(buf)
    <3> DEFINE j == i - Len(buf)
    <3>1. j \in 1 .. n /\ j \in 1 .. Len(avail) /\ Len(buf) + j = i
      BY <1>1, <1>6, <2>2
    <3>2. x[j] = avail[j]
      BY <1>2, <3>1
    <3>3. b[i] = x[j]
      BY <1>1, <1>2, <1>4, <1>6, <2>2
    <3>4. Unread[Len(buf) + j] = avail[j]
      BY <3>1, UnreadTypes
    <3> QED
      BY <3>1, <3>2, <3>3, <3>4
  <2> QED
    BY <1>1, <1>6, <2>1, <2>2
<1>8. ASSUME NEW k \in 1 .. Len(buf) + n - 1
      PROVE  ~Unread[k].last
  <2>1. CASE k <= Len(buf)
    BY <1>1, <2>1, BufInner
  <2>2. CASE k > Len(buf)
    <3> DEFINE j == k - Len(buf)
    <3>1. j \in 1 .. Len(avail) /\ Len(buf) + j = k /\ j \in 1 .. n - 1
      BY <1>1, <2>2
    <3>2. Unread[k] = avail[j]
      BY <1>1, <3>1, UnreadTypes
    <3>3. SkipLength(avail) \in Nat /\ \A i \in 1 .. SkipLength(avail) - 1 : ~avail[i].last
      BY <1>1, FirstEnd
    <3> QED
      BY <3>1, <3>2, <3>3
  <2> QED
    BY <1>1, <2>1, <2>2
<1>9. ASSUME NEW i \in DOMAIN b
      PROVE  b[i].n = b[1].n
  <2>1. i \in DOMAIN Unread /\ 1 \in DOMAIN Unread /\ 1 \in DOMAIN b /\ 1 <= i
    BY <1>1, <1>6, UnreadTypes
  <2>2. \A k \in 1 .. i - 1 : ~Unread[k].last
    BY <1>1, <1>6, <1>8
  <2>3. Unread[1].n = Unread[i].n
    BY <2>1, <2>2, OneItem, UnreadTypes
  <2> QED
    BY <1>7, <2>1, <2>3
<1> QED
  BY <1>1, <1>2, <1>3, <1>4, <1>5, <1>9

\* Bytes change buffers, stdin is closed or the engine stops, and nothing else
\* happens.
LEMMA SameStream ==
  ASSUME ReaderInv, TypeOK', Unread' = Unread, UNCHANGED <<format, items, cut, pc, out>>,
         open' => open, engineUp' => engineUp,
         Msgpack => Len(buf') <= Cap, pc = "skip" => buf' = buf
  PROVE  ReaderInv'
<1>1. items' = items /\ cut' = cut /\ (open' => open) /\ format' = format
  OBVIOUS
<1>2. Bytewise'
  <2>1. Bytewise
    BY DEF ReaderInv, StreamInv
  <2>2. EndsWhole(Unread)' /\ Sized(Unread)'
    BY <1>1, <2>1 DEF Bytewise, EndsWhole, Sized, Between, IsCut
  <2>3. AtStart'
    BY <1>1, <2>1 DEF Bytewise, AtStart, Between, Jsonl, Msgpack
  <2> QED
    BY <1>1, <2>1, <2>2, <2>3 DEF Bytewise
<1>3. Idle
  <2>1. ItemsKept /\ Unread \in Seq(Byte)
    BY <1>1, UnreadTypes DEF ItemsKept, ReaderInv, StreamInv, TypeOK
  <2>2. \A n : (IsCut(n)' <=> IsCut(n)) /\ (Passed(n)' <=> Passed(n))
    BY <1>1 DEF Passed, Pending, IsCut
  <2>3. IsCut(Unread[1].n)' <=> IsCut(Unread[1].n)
    BY <1>1 DEF IsCut
  <2> QED
    BY <1>1, <2>1, <2>2, <2>3 DEF Idle
<1>4. Behind' /\ Skipped' /\ GoodSoFar' /\ InStep' /\ StopsAtFatal'
  BY <1>3, IdleKeeps DEF ReaderInv
<1>5. InPlace'
  BY <1>1 DEF ReaderInv, InPlace, Placed
<1> QED
  BY <1>2, <1>4, <1>5 DEF ReaderInv, StreamInv

\* A chunk is read (engine.rs:401).
LEMMA FillStep ==
  ASSUME ReaderInv, Fill
  PROVE  ReaderInv'
<1>1. PICK n \in 1 .. ReadSize : /\ n <= Len(stream)
                                 /\ avail' = SubSeq(stream, 1, n)
                                 /\ stream' = SubSeq(stream, n + 1, Len(stream))
  BY DEF Fill
<1>2. TypeOK /\ avail = <<>> /\ UNCHANGED <<hostVars, buf, pc, engineUp, out>>
  BY DEF ReaderInv, StreamInv, Fill
<1>3. buf \in Seq(Byte) /\ stream \in Seq(Byte) /\ Len(stream) \in Nat
  BY <1>2, UnreadTypes
<1>4. n \in 0 .. Len(stream) /\ n <= ReadSize
  BY <1>1, <1>3, ReaderAssumption
<1>5. /\ avail' \in Seq(Byte) /\ stream' \in Seq(Byte) /\ Len(avail') = n
  BY <1>1, <1>3, <1>4
<1>6. Unread' = Unread
  <2>1. (buf \o avail') \o stream' = buf \o (avail' \o stream')
    <3>1. Associate(buf, avail', stream')
      BY <1>3, <1>5, BytesAssociate, Zenon
    <3> QED
      BY <3>1, Zenon DEF Associate
  <2>2. avail' \o stream' = stream
    <3>1. /\ 1 \in 1 .. Len(stream) + 1 /\ n \in 1 - 1 .. Len(stream)
          /\ Len(stream) \in n .. Len(stream)
      BY <1>3, <1>4
    <3>2. SubSeq(stream, 1, n) \o SubSeq(stream, n + 1, Len(stream))
             = SubSeq(stream, 1, Len(stream))
      BY <1>3, <3>1, ConcatAdjacentSubSeq, Zenon
    <3> QED
      BY <1>1, <1>3, <3>2, SubSeqFull
  <2>3. buf \o avail \o stream = buf \o stream
    BY <1>2, <1>3
  <2> QED
    BY <1>2, <2>1, <2>2, <2>3, Zenon DEF Unread
<1>7. TypeOK'
  BY <1>2, <1>4, <1>5, Zenon DEF TypeOK, hostVars
<1>8. Msgpack => Len(buf') <= Cap
  BY <1>2 DEF ReaderInv, StreamInv, Bytewise, AtStart
<1> QED
  BY <1>2, <1>6, <1>7, <1>8, SameStream DEF hostVars

\* A part of a line is taken over (engine.rs:400-418).
LEMMA TakeStep ==
  ASSUME ReaderInv, Take
  PROVE  ReaderInv'
<1>1. TypeOK /\ Ordered(Unread) /\ Jsonl /\ pc = "read" /\ ~Ended /\ Len(buf) <= Cap
      /\ UNCHANGED <<hostVars, stream, pc, engineUp, out>>
  BY DEF ReaderInv, StreamInv, Bytewise, Take, Filling
<1>2. /\ avail \in Seq(Byte) /\ Len(avail) \in Nat /\ Len(buf) \in Nat /\ Cap \in Nat
      /\ ReadSize \in Nat /\ Len(avail) <= ReadSize
  BY <1>1, UnreadTypes, ReaderAssumption DEF TypeOK
<1>3. TakeLength \in 0 .. Len(avail) /\ TakeLength <= SkipLength(avail)
  <2>1. /\ SkipLength(avail) \in 0 .. Len(avail)
        /\ EndsAt(avail) = {} => SkipLength(avail) = Len(avail)
    BY <1>2, FirstEnd
  <2> QED
    BY <1>1, <1>2, <2>1 DEF TakeLength
<1> DEFINE n == TakeLength
<1>4. n \in 0 .. Len(avail) /\ n <= SkipLength(avail)
      /\ buf' = buf \o SubSeq(avail, 1, n) /\ avail' = SubSeq(avail, n + 1, Len(avail))
  BY <1>3 DEF Take
<1> HIDE DEF n
<1>5. /\ Unread' = Unread /\ buf' \in Seq(Byte) /\ avail' \in Seq(Byte)
      /\ Len(buf') = Len(buf) + n /\ Len(avail') = Len(avail) - n
      /\ \A i \in DOMAIN buf' : buf'[i].n = buf'[1].n
  BY <1>1, <1>4, Taken
<1>6. Len(buf') <= Cap + ReadSize /\ Len(avail') <= ReadSize
  BY <1>1, <1>2, <1>4, <1>5
<1>7. TypeOK'
  BY <1>1, <1>5, <1>6, Zenon DEF TypeOK, hostVars
<1>8. ~Msgpack /\ pc # "skip"
  BY <1>1 DEF Jsonl, Msgpack
<1> QED
  BY <1>1, <1>5, <1>7, <1>8, SameStream DEF hostVars

\* A part of a value is taken over (codec.rs:83-99).
LEMMA TakeValueStep ==
  ASSUME ReaderInv, TakeValue
  PROVE  ReaderInv'
<1> DEFINE n == IF SkipLength(avail) <= Room THEN SkipLength(avail) ELSE Room
<1>1. /\ TypeOK /\ Ordered(Unread) /\ pc = "read" /\ ~Ended /\ Room > 0
      /\ UNCHANGED <<hostVars, stream, pc, engineUp, out>>
      /\ buf' = buf \o SubSeq(avail, 1, n) /\ avail' = SubSeq(avail, n + 1, Len(avail))
      /\ Len(buf) <= Cap
  BY DEF ReaderInv, StreamInv, Bytewise, AtStart, TakeValue
<1>2. /\ avail \in Seq(Byte) /\ Len(avail) \in Nat /\ Len(buf) \in Nat /\ Cap \in Nat
      /\ ReadSize \in Nat /\ Len(avail) <= ReadSize
  BY <1>1, UnreadTypes, ReaderAssumption DEF TypeOK
<1>3. SkipLength(avail) \in 0 .. Len(avail)
  BY <1>2, FirstEnd
<1>4. n \in 0 .. Len(avail) /\ n <= SkipLength(avail) /\ Len(buf) + n <= Cap
  <2>1. Room \in Nat /\ Room <= Len(avail) /\ Len(buf) + Room <= Cap
    BY <1>1, <1>2 DEF Room
  <2> QED
    BY <1>2, <1>3, <2>1
<1> HIDE DEF n
<1>5. /\ Unread' = Unread /\ buf' \in Seq(Byte) /\ avail' \in Seq(Byte)
      /\ Len(buf') = Len(buf) + n /\ Len(avail') = Len(avail) - n
      /\ \A i \in DOMAIN buf' : buf'[i].n = buf'[1].n
  BY <1>1, <1>4, Taken
<1>6. Len(buf') <= Cap /\ Len(buf') <= Cap + ReadSize /\ Len(avail') <= ReadSize
  BY <1>1, <1>2, <1>4, <1>5
<1>7. TypeOK'
  BY <1>1, <1>5, <1>6, Zenon DEF TypeOK, hostVars
<1> QED
  BY <1>1, <1>5, <1>6, <1>7, SameStream DEF hostVars

-----------------------------------------------------------------------------
(* The host and the engine.                                                *)

\* The host hangs up.
LEMMA CloseStep ==
  ASSUME ReaderInv, HostClose
  PROVE  ReaderInv'
<1>1. UNCHANGED <<format, items, cut, stream, avail, buf, pc, engineUp, out>> /\ ~open'
  BY DEF HostClose
<1>2. TypeOK /\ Bytewise /\ Unread' = Unread
  BY <1>1 DEF ReaderInv, StreamInv, Unread
<1>3. TypeOK'
  BY <1>1, <1>2 DEF TypeOK, HostClose
<1> QED
  BY <1>1, <1>2, <1>3, SameStream DEF Bytewise, AtStart

\* The engine stops receiving.
LEMMA EngineStopsStep ==
  ASSUME ReaderInv, EngineStops
  PROVE  ReaderInv'
<1>1. UNCHANGED <<format, items, cut, open, stream, avail, buf, pc, out>> /\ ~engineUp'
  BY DEF EngineStops, hostVars
<1>2. TypeOK /\ Bytewise /\ Unread' = Unread
  BY <1>1 DEF ReaderInv, StreamInv, Unread
<1>3. TypeOK'
  BY <1>1, <1>2 DEF TypeOK, EngineStops
<1> QED
  BY <1>1, <1>2, <1>3, SameStream DEF Bytewise, AtStart

\* The next item of the host's comes behind all the others.
LEMMA WriteStep ==
  ASSUME ReaderInv, HostWrite
  PROVE  ReaderInv'
<1> DEFINE N == Len(items)
           u == Unread
           v == Unread'
<1>1. PICK item \in Items : /\ items' = Append(items, item)
                            /\ stream' = stream \o Bytes(N + 1, item.size)
  BY DEF HostWrite
<1> DEFINE z == item.size
           b == Bytes(N + 1, z)
<1>2. /\ TypeOK /\ Bytewise /\ open /\ N < MaxItems
      /\ UNCHANGED <<format, cut, open, avail, buf, pc, engineUp, out>>
  BY DEF ReaderInv, StreamInv, HostWrite
<1>3. /\ N \in Nat /\ items \in Seq(Items) /\ MaxItems \in Nat /\ z \in Nat \ {0}
      /\ N + 1 \in 1 .. MaxItems
  BY <1>2, ReaderAssumption DEF TypeOK
<1>4. /\ items' \in Seq(Items) /\ Len(items') = N + 1 /\ items'[N + 1] = item
      /\ \A n \in 1 .. N : items'[n] = items[n]
      /\ DOMAIN items = 1 .. N /\ DOMAIN items' = 1 .. N + 1
  BY <1>1, <1>3
<1>5. /\ b \in Seq(Byte) /\ Len(b) = z
      /\ \A i \in 1 .. z : b[i].n = N + 1 /\ b[i].at = i /\ (b[i].last <=> i = z)
  <2>1. OfItem(b, N + 1, z)
    BY <1>3, BytesTypes, Zenon
  <2> HIDE DEF b
  <2> QED
    BY <2>1 DEF OfItem
<1> HIDE DEF b
<1>6. /\ u \in Seq(Byte) /\ Len(u) \in Nat /\ DOMAIN u = 1 .. Len(u)
      /\ \A i \in 1 .. Len(u) : u[i].n \in Nat /\ u[i].n \in 1 .. N
  <2>1. u \in Seq(Byte)
    BY <1>2, UnreadTypes
  <2>2. \A i \in DOMAIN u : u[i].n \in Nat /\ u[i].n \in 1 .. MaxItems /\ u[i].n <= N
    BY <1>2, <2>1, ByteTypes DEF Bytewise
  <2> HIDE DEF u
  <2> QED
    BY <1>3, <2>1, <2>2
<1>7. v = u \o b
  <2>1. buf \in Seq(Byte) /\ avail \in Seq(Byte) /\ stream \in Seq(Byte)
    BY <1>2, UnreadTypes
  <2>2. buf \o avail \in Seq(Byte)
    BY <2>1, BytesConcat, Zenon
  <2>3. (buf \o avail) \o (stream \o b) = ((buf \o avail) \o stream) \o b
    <3>1. Associate(buf \o avail, stream, b)
      BY <1>5, <2>1, <2>2, BytesAssociate, Zenon
    <3> QED
      BY <3>1, Zenon DEF Associate
  <2> QED
    BY <1>1, <1>2, <2>3, Zenon DEF Unread, b
<1>8. /\ v \in Seq(Byte) /\ Len(v) = Len(u) + z /\ DOMAIN v = 1 .. Len(u) + z
      /\ \A i \in 1 .. Len(u) : v[i] = u[i]
      /\ \A i \in Len(u) + 1 .. Len(u) + z :
            v[i].n = N + 1 /\ v[i].at + Len(u) = i /\ (v[i].last <=> i = Len(u) + z)
  <2> DEFINE w == u \o b
  <2>1. /\ Len(w) = Len(u) + Len(b) /\ w \in Seq(Byte)
        /\ \A i \in 1 .. Len(u) + Len(b) : w[i] = IF i <= Len(u) THEN u[i] ELSE b[i - Len(u)]
    BY <1>5, <1>6, BytesConcat, Zenon
  <2> HIDE DEF w
  <2>2. v = w
    BY <1>7 DEF w
  <2> HIDE DEF u, v
  <2>3. /\ v \in Seq(Byte) /\ Len(v) = Len(u) + z /\ DOMAIN v = 1 .. Len(u) + z
        /\ \A i \in 1 .. Len(u) : v[i] = u[i]
    <3>1. Len(b) = z /\ z \in Nat /\ Len(u) \in Nat
      BY <1>3, <1>5, <1>6
    <3> HIDE DEF z
    <3>2. v \in Seq(Byte) /\ Len(v) = Len(u) + z
      BY <2>1, <2>2, <3>1
    <3>3. ASSUME NEW i \in 1 .. Len(u)
          PROVE  v[i] = u[i]
      <4>1. i \in 1 .. Len(u) + Len(b) /\ i <= Len(u)
        BY <3>1
      <4> QED
        BY <2>1, <2>2, <4>1
    <3> QED
      BY <3>2, <3>3
  <2>4. ASSUME NEW i \in Len(u) + 1 .. Len(u) + z
        PROVE  v[i].n = N + 1 /\ v[i].at + Len(u) = i /\ (v[i].last <=> i = Len(u) + z)
    <3>1. i - Len(u) \in 1 .. z /\ (i - Len(u) = z <=> i = Len(u) + z)
          /\ (i - Len(u)) + Len(u) = i
      BY <1>3, <1>6
    <3>2. v[i] = b[i - Len(u)]
      BY <1>3, <1>5, <1>6, <2>1, <2>2
    <3>3. /\ b[i - Len(u)].n = N + 1 /\ b[i - Len(u)].at = i - Len(u)
          /\ b[i - Len(u)].last <=> i - Len(u) = z
      BY <1>5, <3>1
    <3> QED
      BY <3>1, <3>2, <3>3, Zenon
  <2> QED
    BY <2>3, <2>4
<1>9. ~cut /\ (u # <<>> => u[Len(u)].last)
  BY <1>2 DEF Bytewise, EndsWhole, IsCut
<1>10. Ordered(u) /\ Sized(u) /\ AtStart
  BY <1>2 DEF Bytewise
<1>11. Ordered(v)
  <2>1. \A i \in DOMAIN u : u[i].n <= N
    BY <1>6
  <2> HIDE DEF u, v
  <2> QED
    BY <1>2, <1>3, <1>6, <1>7, <1>9, <1>10, <2>1, OrderedMore DEF b
<1> HIDE DEF u, v
<1>12. ASSUME NEW i \in DOMAIN v, NEW j \in DOMAIN v, i < j, v[i].last, v[j].last,
              v[i + 1].n = v[j].n
       PROVE  j - i = items'[v[j].n].size
  <2>1. CASE j <= Len(u)
    <3>1. /\ i \in DOMAIN u /\ j \in DOMAIN u /\ i + 1 \in 1 .. Len(u)
          /\ v[i] = u[i] /\ v[j] = u[j] /\ v[i + 1] = u[i + 1] /\ u[j].n \in 1 .. N
      BY <1>6, <1>8, <1>12, <2>1
    <3>2. j - i = items[u[j].n].size
      BY <1>10, <1>12, <3>1, Zenon DEF Sized, Between
    <3> QED
      BY <1>4, <3>1, <3>2
  <2>2. CASE j > Len(u)
    <3>1. j = Len(u) + z /\ v[j].n = N + 1
      <4>1. j \in Len(u) + 1 .. Len(u) + z
        BY <1>6, <1>8, <2>2
      <4> QED
        BY <1>8, <1>12, <4>1
    <3>2. i <= Len(u)
      <4> SUFFICES ASSUME i > Len(u)
                   PROVE  FALSE
        BY <1>6, <1>8
      <4>1. i \in Len(u) + 1 .. Len(u) + z
        BY <1>6, <1>8
      <4> QED
        BY <1>8, <1>12, <3>1, <4>1
    <3>3. ~(i < Len(u))
      <4> SUFFICES ASSUME i < Len(u)
                   PROVE  FALSE
        OBVIOUS
      <4>1. i + 1 \in 1 .. Len(u)
        BY <1>6, <1>8
      <4>2. v[i + 1].n \in 1 .. N
        BY <1>6, <1>8, <4>1
      <4> QED
        BY <1>3, <1>12, <3>1, <4>2
    <3> QED
      BY <1>3, <1>4, <1>6, <1>8, <3>1, <3>2, <3>3
  <2> QED
    BY <1>3, <1>6, <1>8, <2>1, <2>2
<1>13. ASSUME pc = "read", NEW j \in DOMAIN v, v[j].last, v[1].n = v[j].n
       PROVE  j = items'[v[j].n].size
  <2>1. CASE j <= Len(u)
    <3>1. j \in DOMAIN u /\ v[j] = u[j] /\ v[1] = u[1] /\ u[j].n \in 1 .. N
      BY <1>6, <1>8, <2>1
    <3>2. j - 0 = items[u[j].n].size
      <4>1. Between(Unread, 0, j)
        BY <1>10, <1>13, <3>1 DEF AtStart, u
      <4>2. u[0 + 1].n = u[j].n
        BY <1>13, <3>1
      <4> QED
        BY <1>13, <3>1, <4>1, <4>2, Zenon DEF Between, u
    <3> QED
      BY <1>4, <1>6, <3>1, <3>2
  <2>2. CASE j > Len(u)
    <3>1. j = Len(u) + z /\ v[j].n = N + 1
      BY <1>3, <1>6, <1>8, <1>13, <2>2
    <3>2. Len(u) = 0
      <4> SUFFICES ASSUME 1 <= Len(u)
                   PROVE  FALSE
        BY <1>6
      <4>1. v[1] = u[1] /\ u[1].n \in 1 .. N
        BY <1>6, <1>8
      <4> QED
        BY <1>3, <1>13, <3>1, <4>1
    <3> QED
      BY <1>3, <1>4, <3>1, <3>2
  <2> QED
    BY <1>3, <1>6, <1>8, <2>1, <2>2
<1>14. \A i \in DOMAIN v : v[i].n <= Len(items')
  <2> SUFFICES ASSUME NEW i \in DOMAIN v
               PROVE  v[i].n <= N + 1
    BY <1>4
  <2>1. CASE i <= Len(u)
    BY <1>3, <1>6, <1>8, <2>1
  <2>2. CASE i > Len(u)
    BY <1>3, <1>6, <1>8, <2>2
  <2> QED
    BY <1>6, <1>8, <2>1, <2>2
<1>15. v # <<>> /\ v[Len(v)].last
  BY <1>3, <1>6, <1>8
<1>16. Bytewise'
  <2>1. Ordered(Unread') /\ \A i \in DOMAIN Unread' : Unread'[i].n <= Len(items')
    BY <1>11, <1>14 DEF v
  <2>2. EndsWhole(Unread)'
    BY <1>15 DEF EndsWhole, v
  <2>3. Sized(Unread)'
    BY <1>12 DEF Sized, Between, v
  <2>4. AtStart'
    <3>1. pc' = "read" => \A j \in DOMAIN Unread' : Between(Unread, 0, j)'
      <4> SUFFICES ASSUME pc = "read", NEW j \in DOMAIN v, v[j].last, v[0 + 1].n = v[j].n
                   PROVE  j - 0 = items'[v[j].n].size
        BY <1>2 DEF Between, v
      <4>1. v[1].n = v[j].n
        OBVIOUS
      <4>2. j = items'[v[j].n].size
        BY <1>13, <4>1
      <4> QED
        BY <1>6, <1>8, <4>2
    <3> QED
      BY <1>2, <1>10, <1>15, <3>1 DEF AtStart, Jsonl, Msgpack, v
  <2> QED
    BY <1>2, <1>9, <2>1, <2>2, <2>3, <2>4 DEF Bytewise
<1>17. Idle
  <2>1. ItemsKept
    BY <1>3, <1>4 DEF ItemsKept
  <2>2. ASSUME NEW n \in DOMAIN items', Passed(n)'
        PROVE  n \in DOMAIN items /\ Passed(n)
    <3>1. \A i \in DOMAIN v : v[i].n # n
      BY <2>2 DEF Passed, Pending, v
    <3>2. n # N + 1
      <4>1. Len(u) + z \in Len(u) + 1 .. Len(u) + z /\ Len(u) + z \in 1 .. Len(u) + z
        BY <1>3, <1>6
      <4>2. Len(u) + z \in DOMAIN v /\ v[Len(u) + z].n = N + 1
        BY <1>8, <4>1
      <4> QED
        BY <3>1, <4>2
    <3>3. \A i \in DOMAIN u : u[i].n # n
      BY <1>3, <1>6, <1>8, <3>1
    <3> QED
      BY <1>3, <1>4, <1>9, <3>2, <3>3 DEF Passed, Pending, IsCut, u
  <2>3. ASSUME NEW j \in DOMAIN v
        PROVE  (j \in DOMAIN u /\ v[j] = u[j]) \/ v[j].n > N
    <3>1. CASE j <= Len(u)
      BY <1>6, <1>8, <3>1
    <3>2. CASE j > Len(u)
      <4>1. v[j].n = N + 1
        BY <1>6, <1>8, <3>2
      <4> QED
        BY <1>3, <4>1
    <3> QED
      BY <1>6, <1>8, <3>1, <3>2
  <2>4. pc = "skip" => u # <<>> /\ v[1] = u[1] /\ ~IsCut(u[1].n)
    BY <1>6, <1>8, <1>9, <1>10 DEF AtStart, IsCut, u
  <2> QED
    BY <1>2, <1>8, <2>1, <2>2, <2>3, <2>4 DEF Idle, u, v
<1>18. Behind' /\ Skipped' /\ GoodSoFar' /\ InStep' /\ StopsAtFatal'
  BY <1>17, IdleKeeps DEF ReaderInv
<1>19. TypeOK'
  <2>1. stream' \in Seq(Byte)
    <3>1. stream \in Seq(Byte) /\ stream' = stream \o b
      BY <1>1, <1>2, UnreadTypes DEF b
    <3> QED
      BY <1>5, <3>1, BytesConcat, Zenon
  <2>2. Len(items') <= MaxItems
    BY <1>2, <1>3, <1>4
  <2> QED
    BY <1>2, <1>4, <2>1, <2>2, Zenon DEF TypeOK
<1>20. Placed(u) /\ (pc = "read" /\ u # <<>> => u[1].at = 1)
  BY DEF ReaderInv, InPlace, u
<1>21. ASSUME NEW i \in DOMAIN v
       PROVE  v[i].at <= items'[v[i].n].size /\ (v[i].last <=> v[i].at = items'[v[i].n].size)
  <2>1. CASE i <= Len(u)
    <3>1. i \in DOMAIN u /\ v[i] = u[i] /\ u[i].n \in 1 .. N
      BY <1>6, <1>8, <2>1
    <3>2. items'[u[i].n] = items[u[i].n]
      BY <1>4, <3>1
    <3> QED
      BY <1>20, <3>1, <3>2, Zenon DEF Placed
  <2>2. CASE i > Len(u)
    <3>1. /\ i <= Len(u) + z /\ i \in Nat /\ v[i].n = N + 1 /\ v[i].at + Len(u) = i
          /\ v[i].last <=> i = Len(u) + z
      BY <1>6, <1>8, <2>2
    <3>2. v[i].at \in Nat
      BY <1>8, ByteTypes
    <3>3. items'[v[i].n].size = z
      BY <1>4, <3>1
    <3> DEFINE x == v[i].at
    <3>4. x \in Nat /\ x + Len(u) = i /\ i <= Len(u) + z
      BY <3>1, <3>2
    <3> HIDE DEF x
    <3>5. x <= z /\ (i = Len(u) + z <=> x = z)
      BY <1>3, <1>6, <3>4
    <3> QED
      BY <3>1, <3>3, <3>5 DEF x
  <2> QED
    BY <1>6, <1>8, <2>1, <2>2
<1>22. ASSUME NEW i \in DOMAIN v, NEW j \in DOMAIN v, v[i].n = v[j].n
       PROVE  v[i].at + j = v[j].at + i
  <2>1. \A k \in DOMAIN v : /\ k \in Nat /\ v[k].at \in Nat
                            /\ \/ k \in DOMAIN u /\ v[k] = u[k] /\ v[k].n \in 1 .. N
                               \/ v[k].at + Len(u) = k /\ v[k].n = N + 1
    <3> SUFFICES ASSUME NEW k \in DOMAIN v
                 PROVE  /\ k \in Nat /\ v[k].at \in Nat
                        /\ \/ k \in DOMAIN u /\ v[k] = u[k] /\ v[k].n \in 1 .. N
                           \/ v[k].at + Len(u) = k /\ v[k].n = N + 1
      OBVIOUS
    <3>1. k \in Nat /\ v[k].at \in Nat
      BY <1>8, ByteTypes
    <3> QED
      BY <1>6, <1>8, <3>1
  <2>2. CASE i \in DOMAIN u /\ v[i] = u[i] /\ v[i].n \in 1 .. N
    <3>1. j \in DOMAIN u /\ v[j] = u[j]
      BY <1>3, <1>22, <2>1, <2>2
    <3>2. u[i].n = u[j].n
      BY <1>22, <2>2, <3>1
    <3>3. Apart(u[i].at, u[j].at, i, j)
      BY <1>20, <2>2, <3>1, <3>2, PlacedApart, Zenon
    <3> QED
      BY <2>2, <3>1, <3>3 DEF Apart
  <2>3. CASE v[i].at + Len(u) = i /\ v[i].n = N + 1
    <3>1. ~(v[j].n \in 1 .. N)
      BY <1>3, <1>22, <2>3
    <3>2. v[j].at + Len(u) = j /\ i \in Nat /\ j \in Nat /\ v[i].at \in Nat /\ v[j].at \in Nat
      BY <2>1, <3>1
    <3> DEFINE x == v[i].at
               y == v[j].at
    <3>3. x \in Nat /\ y \in Nat /\ x + Len(u) = i /\ y + Len(u) = j
      BY <2>3, <3>2
    <3> HIDE DEF x, y
    <3>4. x + j = y + i
      BY <1>6, <3>3
    <3> QED
      BY <3>4 DEF x, y
  <2> QED
    BY <2>1, <2>2, <2>3
<1>23. ASSUME NEW i \in DOMAIN v, i > 1, v[i - 1].last
       PROVE  v[i].at = 1
  <2>1. CASE i <= Len(u)
    <3>1. i \in DOMAIN u /\ v[i] = u[i] /\ v[i - 1] = u[i - 1]
      BY <1>6, <1>8, <1>23, <2>1
    <3> QED
      BY <1>20, <1>23, <3>1 DEF Placed
  <2>2. CASE i > Len(u)
    <3>1. /\ i \in Len(u) + 1 .. Len(u) + z /\ i - 1 < Len(u) + z
          /\ i - 1 \in 1 .. Len(u) \/ i - 1 \in Len(u) + 1 .. Len(u) + z
      BY <1>3, <1>6, <1>8, <1>23, <2>2
    <3>2. ~(i - 1 \in Len(u) + 1 .. Len(u) + z)
      BY <1>3, <1>6, <1>8, <1>23, <3>1
    <3>3. i = Len(u) + 1
      BY <1>6, <3>1, <3>2
    <3>4. v[i].at + Len(u) = i /\ v[i].at \in Nat
      BY <1>8, <3>1, ByteTypes
    <3> DEFINE x == v[i].at
    <3>5. x \in Nat /\ x + Len(u) = i
      BY <3>4
    <3> HIDE DEF x
    <3>6. x = 1
      BY <1>6, <3>3, <3>5
    <3> QED
      BY <3>6 DEF x
  <2> QED
    BY <1>6, <1>8, <2>1, <2>2
<1>24. v[1].at = 1 \/ pc # "read"
  <2>1. CASE u = <<>>
    <3>1. Len(u) = 0 /\ 1 \in Len(u) + 1 .. Len(u) + z /\ 1 \in DOMAIN v
      BY <1>3, <1>8, <2>1
    <3>2. v[1].at + 0 = 1 /\ v[1].at \in Nat
      BY <1>8, <3>1, ByteTypes
    <3> QED
      BY <3>2
  <2>2. CASE u # <<>>
    BY <1>6, <1>8, <1>20, <2>2
  <2> QED
    BY <2>1, <2>2
<1>25. InPlace'
  <2>1. Placed(Unread)'
    BY <1>21, <1>22, <1>23 DEF Placed, v
  <2> QED
    BY <1>2, <1>24, <2>1 DEF InPlace, v
<1> QED
  BY <1>16, <1>18, <1>19, <1>25 DEF ReaderInv, StreamInv

\* A host that dies takes with it a part of its last item only.
LEMMA DiesStep ==
  ASSUME ReaderInv, HostDies
  PROVE  ReaderInv'
<1> DEFINE N == Len(items)
           u == Unread
           v == Unread'
<1>1. PICK kept \in 0 .. Len(stream) - 1 : /\ stream[kept + 1].n = N
                                           /\ stream' = SubSeq(stream, 1, kept)
  BY DEF HostDies
<1>2. /\ TypeOK /\ Bytewise /\ open /\ open' = FALSE /\ cut' = TRUE
      /\ UNCHANGED <<format, items, avail, buf, pc, engineUp, out>>
  BY DEF ReaderInv, StreamInv, HostDies
<1> DEFINE x == SubSeq(stream, 1, kept)
           q == Len(buf) + Len(avail) + kept
<1>3. /\ buf \in Seq(Byte) /\ avail \in Seq(Byte) /\ stream \in Seq(Byte)
      /\ Len(buf) \in Nat /\ Len(avail) \in Nat /\ Len(stream) \in Nat
  BY <1>2, UnreadTypes
<1>4. x \in Seq(Byte) /\ Len(x) = kept /\ \A i \in 1 .. kept : x[i] = stream[i]
  BY <1>3
<1> HIDE DEF x
<1>5. /\ u \in Seq(Byte) /\ Len(u) = Len(buf) + Len(avail) + Len(stream)
      /\ DOMAIN u = 1 .. Len(u)
      /\ \A i \in 1 .. Len(buf) : u[i] = buf[i]
      /\ \A i \in 1 .. Len(avail) : u[Len(buf) + i] = avail[i]
      /\ \A i \in 1 .. Len(stream) : u[Len(buf) + Len(avail) + i] = stream[i]
  BY <1>2, UnreadTypes
<1>6. v = buf \o avail \o x
  BY <1>1, <1>2, Zenon DEF Unread, x
<1>7. /\ v \in Seq(Byte) /\ Len(v) = q /\ DOMAIN v = 1 .. q /\ q \in Nat /\ q < Len(u)
      /\ \A i \in 1 .. q : i \in DOMAIN u /\ v[i] = u[i]
  <2> DEFINE w == buf \o avail \o x
  <2>1. /\ w \in Seq(Byte) /\ Len(w) = Len(buf) + Len(avail) + Len(x)
        /\ DOMAIN w = 1 .. Len(buf) + Len(avail) + Len(x)
        /\ \A i \in 1 .. Len(buf) : w[i] = buf[i]
        /\ \A i \in 1 .. Len(avail) : w[Len(buf) + i] = avail[i]
        /\ \A i \in 1 .. Len(x) : w[Len(buf) + Len(avail) + i] = x[i]
    <3>1. buf \in Seq(Byte) /\ avail \in Seq(Byte) /\ x \in Seq(Byte)
      BY <1>3, <1>4
    <3>2. Laid(w, buf, avail, x)
      BY <3>1, Three, Zenon
    <3> QED
      BY <3>2, Zenon DEF Laid
  <2> HIDE DEF w
  <2>2. v = w
    BY <1>6 DEF w
  <2> HIDE DEF u, v
  <2>3. v \in Seq(Byte) /\ Len(v) = q /\ DOMAIN v = 1 .. q /\ q \in Nat /\ q < Len(u)
    BY <1>3, <1>4, <1>5, <2>1, <2>2
  <2>4. ASSUME NEW i \in 1 .. q
        PROVE  i \in DOMAIN u /\ v[i] = u[i]
    <3>1. CASE i <= Len(buf)
      BY <1>3, <1>5, <2>1, <2>2, <3>1
    <3>2. CASE i > Len(buf) /\ i <= Len(buf) + Len(avail)
      <4> DEFINE j == i - Len(buf)
      <4>1. j \in 1 .. Len(avail) /\ Len(buf) + j = i
        BY <1>3, <3>2
      <4>2. w[Len(buf) + j] = u[Len(buf) + j]
        BY <1>5, <2>1, <4>1
      <4> QED
        BY <1>3, <1>5, <2>2, <2>3, <4>1, <4>2
    <3>3. CASE i > Len(buf) + Len(avail)
      <4> DEFINE j == i - (Len(buf) + Len(avail))
      <4>1. j \in 1 .. kept /\ j \in 1 .. Len(stream) /\ Len(buf) + Len(avail) + j = i
        BY <1>3, <3>3
      <4>2. w[Len(buf) + Len(avail) + j] = u[Len(buf) + Len(avail) + j]
        BY <1>4, <1>5, <2>1, <4>1
      <4> QED
        BY <1>3, <1>5, <2>2, <2>3, <4>1, <4>2
    <3> QED
      BY <1>3, <3>1, <3>2, <3>3
  <2> QED
    BY <2>3, <2>4
<1>8. u[q + 1].n = N /\ q + 1 \in DOMAIN u
  <2>1. kept + 1 \in 1 .. Len(stream) /\ Len(buf) + Len(avail) + (kept + 1) = q + 1
    BY <1>3
  <2>2. u[Len(buf) + Len(avail) + (kept + 1)] = stream[kept + 1]
    BY <1>5, <2>1
  <2> HIDE DEF u, v
  <2>3. u[q + 1] = stream[kept + 1]
    BY <2>1, <2>2, Zenon
  <2> HIDE DEF q
  <2>4. Len(u) \in Nat /\ q + 1 \in 1 .. Len(u)
    BY <1>5, <1>7
  <2> QED
    BY <1>1, <1>5, <2>3, <2>4, Zenon
<1> HIDE DEF q
<1>9. /\ N \in Nat /\ \A i \in DOMAIN u : u[i].n \in Nat /\ u[i].n <= N
  BY <1>2, <1>5, ByteTypes DEF TypeOK, Bytewise
<1>10. ~cut /\ Ordered(u) /\ Sized(u) /\ AtStart
  BY <1>2 DEF Bytewise
<1> HIDE DEF u, v
<1>11. Ordered(v)
  <2>1. Within(v, u, 0)
    BY <1>5, <1>7 DEF Within
  <2> QED
    BY <1>5, <1>7, <1>10, <2>1, OrderedPart
<1>12. v # <<>> /\ ~v[Len(v)].last => v[Len(v)].n = N
  <2> SUFFICES ASSUME v # <<>>, ~v[Len(v)].last
               PROVE  v[Len(v)].n = N
    OBVIOUS
  <2>1. q \in DOMAIN u /\ v[q] = u[q] /\ ~u[q].last /\ q <= q + 1 /\ q \in q .. q
    BY <1>7
  <2>2. q < q + 1 /\ \A k \in q .. (q + 1) - 1 : k = q
    BY <1>7
  <2>3. u[q].n = u[q + 1].n
    <3>1. u[q].n <= u[q + 1].n /\ ~(u[q].n < u[q + 1].n)
      BY <1>8, <1>10, <2>1, <2>2, Zenon DEF Ordered
    <3> QED
      BY <1>8, <1>9, <2>1, <3>1
  <2> QED
    BY <1>7, <1>8, <2>1, <2>3
<1>13. Bytewise'
  <2>1. Ordered(Unread') /\ \A i \in DOMAIN Unread' : Unread'[i].n <= Len(items')
    BY <1>2, <1>7, <1>9, <1>11 DEF v
  <2>2. EndsWhole(Unread)'
    BY <1>2, <1>12 DEF EndsWhole, IsCut, v
  <2>3. Sized(Unread)'
    <3> SUFFICES ASSUME NEW i \in DOMAIN v, NEW j \in DOMAIN v, i < j, v[i].last, v[j].last,
                        v[i + 1].n = v[j].n
                 PROVE  j - i = items[v[j].n].size
      BY <1>2 DEF Sized, Between, v
    <3>1. /\ i \in DOMAIN u /\ j \in DOMAIN u /\ i + 1 \in 1 .. q
          /\ v[i] = u[i] /\ v[j] = u[j] /\ v[i + 1] = u[i + 1]
      BY <1>7
    <3> QED
      BY <1>10, <3>1, Zenon DEF Sized, Between
  <2>4. AtStart'
    <3> SUFFICES ASSUME pc = "read", NEW j \in DOMAIN v, v[j].last, v[0 + 1].n = v[j].n
                 PROVE  j - 0 = items[v[j].n].size
      BY <1>2, <1>10 DEF AtStart, Between, Jsonl, Msgpack, v
    <3>1. j \in DOMAIN u /\ v[j] = u[j] /\ v[0 + 1] = u[0 + 1]
      BY <1>7
    <3>2. Between(u, 0, j)
      BY <1>10, <3>1 DEF AtStart, u
    <3> QED
      BY <3>1, <3>2, Zenon DEF Between
  <2> QED
    BY <1>2, <2>1, <2>2, <2>3, <2>4 DEF Bytewise
<1>14. Idle
  <2>1. ItemsKept
    BY <1>2, <1>9 DEF ItemsKept, TypeOK
  <2>2. ASSUME NEW n \in DOMAIN items', Passed(n)'
        PROVE  n \in DOMAIN items /\ Passed(n)
    <3>1. (\A i \in DOMAIN v : v[i].n # n) /\ n # N /\ n \in DOMAIN items
      BY <1>2, <2>2 DEF Passed, Pending, IsCut, v
    <3>2. ASSUME NEW i \in DOMAIN u, u[i].n = n
          PROVE  FALSE
      <4>1. CASE i <= q
        BY <1>5, <1>7, <3>1, <3>2, <4>1
      <4>2. CASE i > q
        <5>1. u[q + 1].n <= u[i].n
          <6>1. CASE i = q + 1
            BY <1>8, <1>9, <6>1
          <6>2. CASE i > q + 1
            BY <1>8, <1>10, <6>2 DEF Ordered
          <6> QED
            BY <1>5, <1>7, <4>2, <6>1, <6>2
        <5> QED
          BY <1>8, <1>9, <3>1, <3>2, <5>1
      <4> QED
        BY <1>5, <1>7, <4>1, <4>2
    <3> QED
      BY <1>10, <3>1, <3>2 DEF Passed, Pending, IsCut, u
  <2>3. v # <<>> => u # <<>> /\ v[1] = u[1]
    BY <1>5, <1>7
  <2>4. \A n : ~IsCut(n)
    BY <1>10 DEF IsCut
  <2>5. \A j \in DOMAIN v : j \in DOMAIN u /\ v[j] = u[j]
    BY <1>7
  <2> QED
    BY <1>2, <1>7, <2>1, <2>2, <2>3, <2>4, <2>5 DEF Idle, u, v
<1>15. Behind' /\ Skipped' /\ GoodSoFar' /\ InStep' /\ StopsAtFatal'
  BY <1>14, IdleKeeps DEF ReaderInv
<1>16. TypeOK'
  BY <1>1, <1>2, <1>4, Zenon DEF TypeOK, x
<1>17. InPlace'
  <2>1. /\ Placed(u) /\ (pc = "read" /\ u # <<>> => u[1].at = 1)
    BY DEF ReaderInv, InPlace, u
  <2>2. Within(v, u, 0)
    BY <1>5, <1>7 DEF Within
  <2>3. Placed(v)
    BY <1>5, <1>7, <2>1, <2>2, PlacedPart
  <2>4. pc = "read" /\ v # <<>> => v[1].at = 1
    BY <1>5, <1>7, <2>1
  <2>5. Placed(Unread)'
    BY <1>2, <2>3 DEF Placed, v
  <2> QED
    BY <1>2, <2>4, <2>5 DEF InPlace, v
<1> QED
  BY <1>13, <1>15, <1>16, <1>17 DEF ReaderInv, StreamInv

-----------------------------------------------------------------------------
(* Steps that answer.                                                      *)

\* What is asked of an item and what it is worth depend on the item alone.
LEMMA SameItems ==
  ASSUME UNCHANGED hostVars
  PROVE  /\ (Jsonl' <=> Jsonl) /\ (Msgpack' <=> Msgpack)
         /\ \A n : /\ FitsCap(n)' <=> FitsCap(n)
                   /\ MayFit(n)' <=> MayFit(n)
                   /\ Expected(n)' = Expected(n)
                   /\ IsCut(n)' <=> IsCut(n)
<1>1. format' = format /\ items' = items /\ cut' = cut
  BY DEF hostVars
<1> QED
  BY <1>1 DEF Jsonl, Msgpack, FitsCap, MayFit, Expected, IsCut

\* What was said of an item stays said when others are answered.
LEMMA AnsweredStill ==
  ASSUME out \in Seq(Verdict), UNCHANGED hostVars, NEW a \in Seq(Verdict), out' = out \o a,
         NEW n, \A i \in DOMAIN a : a[i].n # n
  PROVE  /\ Answered(n)' <=> Answered(n)
         /\ \A ks : Said(n, ks)' <=> Said(n, ks)
<1>1. Heard(out', n) = Heard(out, n)
  BY HeardOthers, Zenon
<1>2. \A ks : Said(n, ks)' <=> Said(n, ks)
  BY <1>1, Zenon DEF Said
<1>3. Said(n, Expected(n))' <=> Said(n, Expected(n))
  <2>1. Expected(n)' = Expected(n)
    BY SameItems
  <2> QED
    BY <1>1, <2>1 DEF Said
<1>4. Said(n, <<"parse">>)' <=> Said(n, <<"parse">>)
  BY <1>1, Zenon DEF Said
<1> QED
  BY <1>2, <1>3, <1>4, SameItems, Zenon DEF Answered

\* Where the reader is in an item, and in the answers.
LEMMA AtItem ==
  ASSUME StreamInv, pc = "read", buf # <<>>
  PROVE  /\ buf[1].n \in DOMAIN items /\ buf[1].n \in Nat /\ buf[1].n <= Len(items)
         /\ 1 \in DOMAIN Unread /\ Unread[1] = buf[1] /\ Len(buf) \in Nat \ {0}
         /\ \A i \in DOMAIN out : out[i].n < buf[1].n
         /\ \A j \in 1 .. Len(buf) : j \in DOMAIN Unread /\ Unread[j].n = buf[1].n
         /\ \A j \in DOMAIN Unread : buf[1].n <= Unread[j].n
<1>1. TypeOK /\ Bytewise /\ Behind
  BY DEF StreamInv
<1>2. /\ Len(buf) \in Nat \ {0} /\ 1 \in DOMAIN Unread /\ Unread[1] = buf[1]
      /\ \A j \in 1 .. Len(buf) : j \in DOMAIN Unread /\ Unread[j].n = buf[1].n
      /\ Unread \in Seq(Byte) /\ items \in Seq(Items) /\ DOMAIN Unread = 1 .. Len(Unread)
      /\ Len(Unread) \in Nat
  <2>1. /\ buf \in Seq(Byte) /\ Len(buf) \in Nat /\ Len(avail) \in Nat /\ Len(stream) \in Nat
        /\ \A i \in DOMAIN buf : buf[i].n = buf[1].n
        /\ items \in Seq(Items)
    BY <1>1, UnreadTypes DEF TypeOK
  <2>2. Len(buf) \in Nat \ {0} /\ DOMAIN buf = 1 .. Len(buf)
    BY <2>1
  <2>3. /\ Unread \in Seq(Byte) /\ Len(Unread) = Len(buf) + Len(avail) + Len(stream)
        /\ DOMAIN Unread = 1 .. Len(buf) + Len(avail) + Len(stream)
        /\ \A i \in 1 .. Len(buf) : Unread[i] = buf[i]
    BY <1>1, UnreadTypes
  <2> QED
    BY <2>1, <2>2, <2>3
<1>3. buf[1].n \in Nat /\ buf[1].n \in 1 .. MaxItems /\ buf[1].n <= Len(items)
  BY <1>1, <1>2, ByteTypes DEF Bytewise
<1>4. buf[1].n \in DOMAIN items
  BY <1>2, <1>3, ReaderAssumption
<1>5. \A i \in DOMAIN out : out[i].n < buf[1].n
  BY <1>1, <1>2 DEF Behind
<1>6. ASSUME NEW j \in DOMAIN Unread
      PROVE  buf[1].n <= Unread[j].n
  <2>1. CASE j = 1
    BY <1>2, <1>3, <2>1
  <2>2. CASE 1 < j
    BY <1>1, <1>2, <2>2 DEF Bytewise, Ordered
  <2> QED
    BY <1>2, <2>1, <2>2
<1> QED
  BY <1>2, <1>3, <1>4, <1>5, <1>6

\* The values before the one being read did not stop the stream.
LEMMA BeforeGood ==
  ASSUME StreamInv, Msgpack, pc = "read", buf # <<>>, NEW m \in 1 .. buf[1].n - 1
  PROVE  FitsCap(m) /\ items[m].parses
<1> DEFINE n == buf[1].n
<1>1. /\ n \in DOMAIN items /\ n \in Nat /\ n <= Len(items)
      /\ \A j \in DOMAIN Unread : n <= Unread[j].n
      /\ DOMAIN items = 1 .. Len(items) /\ Len(items) \in Nat
  BY AtItem DEF StreamInv, TypeOK
<1>2. m \in 1 .. n - 1
  OBVIOUS
<1> HIDE DEF n
<1>3. m \in Nat /\ m < n /\ m \in DOMAIN items /\ m # Len(items)
  <2> DEFINE N == Len(items)
  <2>1. n \in Nat /\ n <= N /\ N \in Nat /\ DOMAIN items = 1 .. N
    BY <1>1
  <2> HIDE DEF N
  <2>2. m \in Nat /\ m < n /\ m \in 1 .. N /\ m # N
    BY <1>2, <2>1
  <2> QED
    BY <2>1, <2>2 DEF N
<1>4. ASSUME NEW j \in DOMAIN Unread, Unread[j].n = m
      PROVE  FALSE
  <2>1. n <= m /\ n \in Nat
    BY <1>1, <1>4
  <2>2. m < n /\ m \in Nat
    BY <1>3
  <2> QED
    BY <2>1, <2>2
<1>5. Passed(m)
  BY <1>3, <1>4 DEF Passed, Pending, IsCut
<1> QED
  BY <1>3, <1>5 DEF StreamInv, GoodSoFar

\* An item that has been read to its end is all in the buffer.
LEMMA WholeItem ==
  ASSUME StreamInv, pc = "read", Ended
  PROVE  Len(buf) = items[buf[1].n].size
<1>1. buf # <<>> /\ buf[Len(buf)].last
  BY DEF Ended
<1> DEFINE j == Len(buf)
<1>2. /\ j \in Nat \ {0} /\ j \in DOMAIN Unread /\ Unread[j] = buf[j] /\ Unread[1] = buf[1]
      /\ Unread[j].n = buf[1].n
  <2>1. TypeOK
    BY DEF StreamInv
  <2> QED
    BY <1>1, <2>1, AtItem, UnreadTypes
<1> HIDE DEF j
<1>3. Between(Unread, 0, j)
  BY <1>2 DEF StreamInv, Bytewise, AtStart
<1>4. j - 0 = items[Unread[j].n].size
  <2>1. Unread[j].last
    BY <1>1, <1>2 DEF j
  <2>2. Unread[0 + 1].n = Unread[j].n
    BY <1>2
  <2> QED
    BY <1>3, <2>1, <2>2, Zenon DEF Between
<1> QED
  BY <1>2, <1>4 DEF j

\* One that has not is longer than the buffer, unless the host died.
LEMMA LongerItem ==
  ASSUME StreamInv, pc = "read", buf # <<>>, ~Ended, ~IsCut(buf[1].n)
  PROVE  items[buf[1].n].size > Len(buf)
<1> DEFINE u == Unread
           n == buf[1].n
           f == Len(u)
<1>1. TypeOK /\ Bytewise
  BY DEF StreamInv
<1>2. /\ u \in Seq(Byte) /\ DOMAIN u = 1 .. f /\ 1 \in DOMAIN u /\ f \in DOMAIN u /\ f \in Nat
      /\ u[1].n = n /\ n \in Nat /\ Len(buf) \in Nat /\ Len(buf) <= f
      /\ \A j \in DOMAIN u : n <= u[j].n
  BY <1>1, AtItem, UnreadTypes
<1>3. \A k \in 1 .. Len(buf) : ~u[k].last
  BY <1>1, BufInner DEF Bytewise
<1>4. Ordered(u) /\ EndsWhole(u) /\ \A j \in DOMAIN u : Between(u, 0, j)
  BY <1>1 DEF Bytewise, AtStart
<1> HIDE DEF u, n, f
<1>5. \E k \in DOMAIN u : u[k].last /\ u[k].n = n
  <2>1. CASE u[f].n = n
    <3>1. u # <<>> /\ f = Len(u)
      BY <1>2 DEF f
    <3>2. u[f].last
      BY <1>4, <2>1, <3>1 DEF EndsWhole, n
    <3> QED
      BY <1>2, <2>1, <3>2
  <2>2. CASE u[f].n # n
    <3>1. 1 < f /\ u[1].n < u[f].n
      <4>1. u[f].n \in Nat
        BY <1>2, ByteTypes
      <4>2. n <= u[f].n /\ f # 1
        BY <1>2, <2>2
      <4> QED
        BY <1>2, <2>2, <4>1, <4>2
    <3>2. \E k \in 1 .. f - 1 : u[k].last /\ u[k].n = u[1].n
      BY <1>2, <1>4, <3>1 DEF Ordered
    <3> QED
      BY <1>2, <3>2
  <2> QED
    BY <2>1, <2>2
<1>6. PICK k \in DOMAIN u : u[k].last /\ u[k].n = n
  BY <1>5
<1>7. k - 0 = items[u[k].n].size
  <2>1. u[0 + 1].n = u[k].n
    BY <1>2, <1>6
  <2> QED
    BY <1>4, <1>6, <2>1, Zenon DEF Between
<1>8. k \in Nat /\ k > Len(buf)
  BY <1>2, <1>3, <1>6
<1> QED
  BY <1>2, <1>6, <1>7, <1>8 DEF n

\* What is sent when the reader is done says nothing of an item that could still be
\* dealt with.
LEMMA LastWords ==
  ASSUME StreamInv, UNCHANGED <<hostVars, stream, avail, engineUp>>, pc' = "done",
         buf' = buf \/ (buf' = <<>> /\ (~Jsonl \/ ~engineUp)),
         NEW a, NEW n \in Nat, Follow(a, n), out' = out \o a, n <= Len(items),
         \A i \in DOMAIN out : n = 0 \/ out[i].n < n,
         \A i \in DOMAIN a : a[i].k = "parse" \/ a[i].n = 0,
         Jsonl => \A i \in DOMAIN a : a[i].n = 0,
         Msgpack => \A m \in 1 .. n - 1 : FitsCap(m) /\ items[m].parses
  PROVE  StreamInv'
<1>1. /\ TypeOK /\ Bytewise /\ out \in Seq(Verdict) /\ a \in Seq(Verdict) /\ Len(items) \in Nat
      /\ format' = format /\ items' = items /\ cut' = cut /\ open' = open
  BY DEF StreamInv, TypeOK, Follow, hostVars
<1>2. (Jsonl' <=> Jsonl) /\ (Msgpack' <=> Msgpack)
  BY SameItems
<1>3. /\ out' \in Seq(Verdict)
      /\ \A i \in DOMAIN out' : \/ i \in DOMAIN out /\ out'[i] = out[i]
                                \/ i - Len(out) \in DOMAIN a /\ out'[i] = a[i - Len(out)]
  <2>1. /\ out \o a \in Seq(Verdict)
        /\ \A i \in DOMAIN (out \o a) :
              \/ i \in DOMAIN out /\ (out \o a)[i] = out[i]
              \/ i - Len(out) \in DOMAIN a /\ (out \o a)[i] = a[i - Len(out)]
    BY <1>1, VerdictsConcat, Zenon
  <2>2. out' = out \o a
    OBVIOUS
  <2> QED
    BY <2>1, <2>2, Zenon
<1>4. \E p : Drops(p)
  <2>1. CASE buf' = buf
    <3>1. Unread' = Unread /\ Unread \in Seq(Byte) /\ Len(Unread) \in Nat
      BY <1>1, <2>1, UnreadTypes DEF Unread
    <3>2. Drops(0)
      BY <3>1 DEF Drops, Within
    <3> QED
      BY <3>2
  <2>2. CASE buf' = <<>>
    BY <1>1, <2>2, BufCleared
  <2> QED
    BY <2>1, <2>2
<1>5. TypeOK'
  <2>1. /\ buf' \in Seq(Byte) /\ Len(buf') <= Cap + ReadSize
        /\ \A i \in DOMAIN buf' : buf'[i].n = buf'[1].n
    <3>1. CASE buf' = buf
      BY <1>1, <3>1 DEF TypeOK
    <3>2. CASE buf' = <<>>
      BY <3>2, ReaderAssumption
    <3> QED
      BY <3>1, <3>2
  <2> QED
    BY <1>1, <1>3, <2>1, Zenon DEF TypeOK
<1>6. Bytewise'
  <2>1. /\ \A i \in DOMAIN Unread' : Unread'[i].n <= Len(items')
        /\ Ordered(Unread') /\ EndsWhole(Unread)' /\ Sized(Unread)' /\ (cut' => ~open')
    BY <1>1, <1>4, DropsKeep
  <2>2. AtStart'
    <3>1. Msgpack => Len(buf') <= Cap
      BY <1>1, ReaderAssumption DEF Bytewise, AtStart
    <3> QED
      BY <1>2, <3>1 DEF AtStart
  <2> QED
    BY <2>1, <2>2 DEF Bytewise
<1>7. Behind'
  <2> SUFFICES ASSUME NEW i \in DOMAIN out'
               PROVE  out'[i].n <= Len(items)
    BY <1>1 DEF Behind
  <2>1. CASE i \in DOMAIN out /\ out'[i] = out[i]
    BY <2>1 DEF StreamInv, Behind
  <2>2. CASE i - Len(out) \in DOMAIN a /\ out'[i] = a[i - Len(out)]
    <3>1. a[i - Len(out)].n \in {0, n}
      BY <2>2 DEF Follow
    <3>2. 0 <= Len(items)
      BY <1>1
    <3> QED
      BY <2>2, <3>1, <3>2
  <2> QED
    BY <1>3, <2>1, <2>2
<1>8. Skipped' /\ GoodSoFar'
  BY DEF Skipped, GoodSoFar
<1>9. InStep'
  <2>1. Growing(out')
    <3>1. Growing(out)
      BY DEF StreamInv, InStep, Growing
    <3> QED
      BY <1>1, <3>1, GrowingMore
  <2>2. ASSUME engineUp, Jsonl, NEW m \in DOMAIN items, Passed(m)'
        PROVE  Answered(m)'
    <3>1. Unread' = Unread
      BY <2>2 DEF Unread
    <3>2. Passed(m)
      BY <1>1, <2>2, <3>1 DEF Passed, Pending, IsCut
    <3>3. Answered(m)
      BY <2>2, <3>2 DEF StreamInv, InStep
    <3>4. \A i \in DOMAIN a : a[i].n # m
      BY <1>1, <2>2
    <3> QED
      BY <1>1, <3>3, <3>4, AnsweredStill
  <2> QED
    BY <1>1, <1>2, <2>1, <2>2 DEF InStep, Growing
<1>10. StopsAtFatal'
  <2> SUFFICES ASSUME Msgpack, NEW i \in DOMAIN out', NEW m \in 1 .. out'[i].n,
                      m < out'[i].n \/ out'[i].k # "parse"
               PROVE  FitsCap(m)' /\ items[m].parses
    BY <1>1, <1>2 DEF StopsAtFatal
  <2>1. CASE i \in DOMAIN out /\ out'[i] = out[i]
    <3>1. FitsCap(m) /\ items[m].parses
      BY <2>1 DEF StreamInv, StopsAtFatal
    <3> QED
      BY <3>1, SameItems
  <2>2. CASE i - Len(out) \in DOMAIN a /\ out'[i] = a[i - Len(out)]
    <3>1. out'[i].n \in {0, n} /\ (out'[i].k = "parse" \/ out'[i].n = 0)
      BY <2>2 DEF Follow
    <3>2. m \in 1 .. n - 1
      BY <3>1
    <3>3. FitsCap(m) /\ items[m].parses
      BY <3>2
    <3> QED
      BY <3>3, SameItems
  <2> QED
    BY <1>3, <2>1, <2>2
<1> QED
  BY <1>5, <1>6, <1>7, <1>8, <1>9, <1>10 DEF StreamInv

\* The reader's last act, with or without an error before it.
LEMMA FinishStep ==
  ASSUME StreamInv, Finish, UNCHANGED <<hostVars, stream, avail, engineUp, buf>>
  PROVE  StreamInv'
<1> DEFINE a == IF engineUp THEN <<[n |-> 0, k |-> "end"]>> ELSE <<>>
<1>1. Follow(a, 0) /\ \A i \in DOMAIN a : a[i].n = 0
  <2>1. 0 \in 0 .. MaxItems
    BY ReaderAssumption
  <2>2. CASE engineUp
    <3>1. [n |-> 0, k |-> "end"] \in Verdict
      BY <2>1 DEF Verdict
    <3>2. a \in Seq(Verdict) /\ DOMAIN a = {1} /\ a[1] = [n |-> 0, k |-> "end"]
      BY <2>2, <3>1
    <3> QED
      BY <3>2 DEF Follow
  <2>3. CASE ~engineUp
    BY <2>3 DEF Follow
  <2> QED
    BY <2>2, <2>3
<1>2. out \in Seq(Verdict) /\ Len(items) \in Nat
  BY DEF StreamInv, TypeOK
<1>3. out' = out \o a
  BY <1>2 DEF Finish
<1> HIDE DEF a
<1>4. pc' = "done" /\ 0 <= Len(items)
  BY <1>2 DEF Finish
<1> QED
  BY <1>1, <1>3, <1>4, LastWords

\* A MessagePack stream ends at the value that stops it (engine.rs:368-379).
LEMMA FatalStep ==
  ASSUME StreamInv, Msgpack, NEW n \in Nat, n <= Len(items), Fatal(n),
         \A i \in DOMAIN out : n = 0 \/ out[i].n < n,
         \A m \in 1 .. n - 1 : FitsCap(m) /\ items[m].parses,
         UNCHANGED <<hostVars, stream, avail, engineUp>>
  PROVE  StreamInv'
<1> DEFINE a == IF engineUp THEN <<[n |-> n, k |-> "parse"], [n |-> 0, k |-> "end"]>> ELSE <<>>
<1>1. out \in Seq(Verdict) /\ Len(items) \in Nat /\ Len(items) <= MaxItems /\ MaxItems \in Nat
  BY ReaderAssumption DEF StreamInv, TypeOK
<1>2. Follow(a, n) /\ \A i \in DOMAIN a : a[i].k = "parse" \/ a[i].n = 0
  <2>1. 0 \in 0 .. MaxItems /\ n \in 0 .. MaxItems
    BY <1>1
  <2>2. CASE engineUp
    <3>1. [n |-> 0, k |-> "end"] \in Verdict /\ [n |-> n, k |-> "parse"] \in Verdict
      BY <2>1 DEF Verdict
    <3>2. /\ a \in Seq(Verdict) /\ DOMAIN a = {1, 2}
          /\ a[1] = [n |-> n, k |-> "parse"] /\ a[2] = [n |-> 0, k |-> "end"]
      BY <2>2, <3>1
    <3> QED
      BY <3>2 DEF Follow
  <2>3. CASE ~engineUp
    BY <2>3 DEF Follow
  <2> QED
    BY <2>2, <2>3
<1>3. out' = out \o a
  BY <1>1 DEF Fatal
<1> HIDE DEF a
<1>4. pc' = "done" /\ buf' = <<>> /\ ~Jsonl
  BY DEF Fatal, Msgpack, Jsonl
<1> QED
  BY <1>2, <1>3, <1>4, LastWords

-----------------------------------------------------------------------------
(* Steps that are done with bytes.                                         *)

\* The byte after the end of an item is the first of the next.
LEMMA NextItem ==
  ASSUME TypeOK, Bytewise, UNCHANGED hostVars, NEW p, Drops(p),
         p \in DOMAIN Unread, Unread[p].last
  PROVE  /\ \A j \in DOMAIN Unread' : Between(Unread, 0, j)'
         /\ \A j \in DOMAIN Unread' : Unread[p].n < Unread'[j].n
<1> DEFINE u == Unread
           v == Unread'
<1>1. /\ u \in Seq(Byte) /\ v \in Seq(Byte) /\ p \in Nat /\ Within(v, u, p)
      /\ Len(u) = p + Len(v)
      /\ DOMAIN v = 1 .. Len(v) /\ DOMAIN u = 1 .. Len(u) /\ Len(u) \in Nat /\ Len(v) \in Nat
  BY UnreadTypes DEF Drops
<1>2. \A i \in DOMAIN v : p + i \in DOMAIN u /\ v[i] = u[p + i] /\ p < p + i
  BY <1>1 DEF Within
<1>3. items' = items
  BY DEF hostVars
<1>4. Ordered(u) /\ Sized(u)
  BY DEF Bytewise
<1> HIDE DEF u, v
<1>5. ASSUME NEW j \in DOMAIN v, v[j].last, v[0 + 1].n = v[j].n
      PROVE  j - 0 = items[v[j].n].size
  <2>1. 1 \in DOMAIN v /\ j \in Nat
    BY <1>1
  <2>2. v[1] = u[p + 1] /\ v[j] = u[p + j] /\ p + j \in DOMAIN u /\ p < p + j
    BY <1>2, <2>1
  <2>3. u[p + 1].n = u[p + j].n
    BY <1>5, <2>2
  <2>4. (p + j) - p = items[u[p + j].n].size
    <3>1. u[p].last /\ u[p + j].last /\ p \in DOMAIN u
      BY <1>5, <2>2 DEF u
    <3> QED
      BY <1>4, <2>2, <2>3, <3>1, Zenon DEF Sized, Between
  <2>5. (p + j) - p = j - 0
    BY <1>1, <2>1
  <2> QED
    BY <2>2, <2>4, <2>5
<1>6. ASSUME NEW j \in DOMAIN v
      PROVE  u[p].n < v[j].n
  <2>1. p + j \in DOMAIN u /\ v[j] = u[p + j] /\ p < p + j
    BY <1>2
  <2>2. u[p].last /\ p \in DOMAIN u
    BY DEF u
  <2>3. u[p].n < u[p + j].n
    BY <1>4, <2>1, <2>2 DEF Ordered
  <2> QED
    BY <2>1, <2>3
<1> QED
  BY <1>3, <1>5, <1>6, Zenon DEF Between, u, v

\* After bytes that do not end an item comes more of it, or nothing more will.
LEMMA SameItem ==
  ASSUME TypeOK, Bytewise, NEW p, Drops(p), p > 0, Unread # <<>>,
         \A k \in 1 .. p : ~Unread[k].last
  PROVE  /\ \A k \in 1 .. p : Unread[k].n = Unread[1].n
         /\ Unread' # <<>> => Unread'[1].n = Unread[1].n
         /\ Unread' = <<>> => IsCut(Unread[1].n)
<1> DEFINE u == Unread
           v == Unread'
<1>1. /\ u \in Seq(Byte) /\ v \in Seq(Byte) /\ p \in Nat /\ Within(v, u, p)
      /\ Len(u) = p + Len(v)
      /\ DOMAIN v = 1 .. Len(v) /\ DOMAIN u = 1 .. Len(u) /\ Len(u) \in Nat /\ Len(v) \in Nat
  BY UnreadTypes DEF Drops
<1>2. Ordered(u) /\ EndsWhole(u) /\ u # <<>>
  BY DEF Bytewise
<1>3. \A k \in 1 .. p : ~u[k].last
  OBVIOUS
<1> HIDE DEF u, v
<1>4. 1 \in DOMAIN u /\ \A k \in 1 .. p : k \in DOMAIN u
  BY <1>1, <1>2
<1>5. ASSUME NEW k \in 1 .. p
      PROVE  u[k].n = u[1].n
  <2>1. 1 <= k /\ \A i \in 1 .. k - 1 : ~u[i].last
    BY <1>1, <1>3
  <2> QED
    BY <1>1, <1>2, <1>4, <2>1, OneItem
<1>6. ASSUME v # <<>>
      PROVE  v[1].n = u[1].n
  <2>1. 1 \in DOMAIN v /\ p + 1 \in DOMAIN u /\ v[1] = u[p + 1] /\ 1 <= p + 1
    BY <1>1, <1>6 DEF Within
  <2>2. \A i \in 1 .. (p + 1) - 1 : ~u[i].last
    BY <1>1, <1>3
  <2>3. u[1].n = u[p + 1].n
    BY <1>1, <1>2, <1>4, <2>1, <2>2, OneItem
  <2> QED
    BY <2>1, <2>3
<1>7. ASSUME v = <<>>
      PROVE  IsCut(u[1].n)
  <2>1. Len(u) = p /\ p \in 1 .. p
    BY <1>1, <1>7
  <2>2. ~u[Len(u)].last /\ u[Len(u)].n = u[1].n
    BY <1>3, <1>5, <2>1
  <2> QED
    BY <1>2, <2>2 DEF EndsWhole
<1> QED
  BY <1>5, <1>6, <1>7 DEF u, v

\* An item none of whose bytes were taken away is dealt with if it was before.
LEMMA PassedStill ==
  ASSUME TypeOK, UNCHANGED hostVars, NEW p, Drops(p), NEW n, \A k \in 1 .. p : Unread[k].n = n,
         NEW m, m # n, Passed(m)'
  PROVE  Passed(m)
<1> DEFINE u == Unread
           v == Unread'
<1>1. /\ p \in Nat /\ Within(v, u, p) /\ Len(u) = p + Len(v)
      /\ DOMAIN v = 1 .. Len(v) /\ DOMAIN u = 1 .. Len(u) /\ Len(u) \in Nat /\ Len(v) \in Nat
  BY UnreadTypes DEF Drops
<1>2. ~IsCut(m)
  BY DEF Passed, IsCut, hostVars
<1>3. \A i \in DOMAIN v : v[i].n # m
  BY DEF Passed, Pending
<1>4. \A k \in 1 .. p : u[k].n # m
  OBVIOUS
<1> HIDE DEF u, v
<1>5. ASSUME NEW i \in DOMAIN u
      PROVE  u[i].n # m
  <2>1. CASE i <= p
    BY <1>1, <1>4, <2>1
  <2>2. CASE i > p
    <3>1. i - p \in DOMAIN v /\ p + (i - p) = i
      BY <1>1, <2>2
    <3>2. v[i - p] = u[i]
      BY <1>1, <3>1 DEF Within
    <3> QED
      BY <1>3, <3>1, <3>2
  <2> QED
    BY <1>1, <2>1, <2>2
<1> QED
  BY <1>2, <1>5 DEF Passed, Pending, u

\* Resynchronizing, as far as the end of the line or as far as there are bytes.
LEMMA SkipStep ==
  ASSUME StreamInv, Skip
  PROVE  StreamInv'
<1> DEFINE p == SkipLength(avail)
           n == Unread[1].n
<1>1. /\ TypeOK /\ Bytewise /\ pc = "skip" /\ avail # <<>>
      /\ avail' = SubSeq(avail, p + 1, Len(avail))
      /\ pc' = (IF EndsAt(avail) = {} THEN "skip" ELSE "read")
      /\ UNCHANGED <<hostVars, stream, buf, engineUp, out>>
  BY DEF StreamInv, Skip
<1>2. buf = <<>> /\ Jsonl /\ ~Msgpack
  BY <1>1 DEF Bytewise, AtStart, Jsonl, Msgpack
<1>3. avail \in Seq(Byte) /\ Len(avail) \in Nat \ {0} /\ Len(avail) <= ReadSize
  BY <1>1, UnreadTypes DEF TypeOK
<1>4. /\ p \in 1 .. Len(avail)
      /\ \A i \in 1 .. p - 1 : ~avail[i].last
      /\ EndsAt(avail) # {} => avail[p].last
      /\ EndsAt(avail) = {} => p = Len(avail) /\ \A i \in DOMAIN avail : ~avail[i].last
  <2>1. p \in 0 .. Len(avail) /\ p > 0
    BY <1>1, <1>3, FirstEnd
  <2> QED
    BY <1>3, <2>1, FirstEnd
<1> HIDE DEF p
<1>5. /\ Drops(p) /\ Len(Unread') = Len(avail') + Len(stream)
      /\ avail' \in Seq(Byte) /\ Len(avail') = Len(avail) - p
  <2>1. p \in 0 .. Len(avail)
    BY <1>4
  <2> QED
    BY <1>1, <1>2, <2>1, BytesSkipped
<1>6. /\ \A i \in 1 .. Len(avail) : i \in DOMAIN Unread /\ Unread[i] = avail[i]
      /\ Unread # <<>> /\ Unread \in Seq(Byte) /\ DOMAIN Unread = 1 .. Len(Unread)
  <2>1. Len(buf) = 0 /\ Len(stream) \in Nat
    BY <1>1, <1>2, UnreadTypes
  <2>2. /\ Unread \in Seq(Byte) /\ Len(Unread) = Len(buf) + Len(avail) + Len(stream)
        /\ \A i \in 1 .. Len(avail) : Unread[Len(buf) + i] = avail[i]
    BY <1>1, UnreadTypes
  <2> QED
    BY <1>3, <2>1, <2>2
<1>7. \A k \in 1 .. p : Unread[k].n = n
  <2> SUFFICES ASSUME NEW k \in 1 .. p
               PROVE  Unread[k].n = n
    OBVIOUS
  <2>1. 1 \in DOMAIN Unread /\ k \in DOMAIN Unread /\ 1 <= k
    BY <1>3, <1>4, <1>6
  <2>2. \A i \in 1 .. k - 1 : ~Unread[i].last
    BY <1>3, <1>4, <1>6
  <2>3. Unread[1].n = Unread[k].n
    BY <1>1, <1>6, <2>1, <2>2, OneItem DEF Bytewise
  <2> QED
    BY <2>3
<1>8. ASSUME EndsAt(avail) # {}
      PROVE  /\ pc' = "read" /\ \A j \in DOMAIN Unread' : Between(Unread, 0, j)'
             /\ \A j \in DOMAIN Unread' : n < Unread'[j].n
  <2>1. pc' = "read" /\ p \in DOMAIN Unread /\ Unread[p].last /\ p \in 1 .. p
    BY <1>1, <1>3, <1>4, <1>6, <1>8
  <2>2. /\ \A j \in DOMAIN Unread' : Between(Unread, 0, j)'
        /\ \A j \in DOMAIN Unread' : Unread[p].n < Unread'[j].n
    BY <1>1, <1>5, <2>1, NextItem
  <2> QED
    BY <1>7, <2>1, <2>2
<1>9. ASSUME EndsAt(avail) = {}
      PROVE  /\ pc' = "skip" /\ (Unread' # <<>> => Unread'[1].n = n)
             /\ Unread' = <<>> => IsCut(n)
  <2>1. p > 0 /\ \A k \in 1 .. p : ~Unread[k].last
    BY <1>3, <1>4, <1>6, <1>9
  <2> QED
    BY <1>1, <1>5, <1>6, <1>9, <2>1, SameItem
<1>10. /\ n \in DOMAIN items /\ n \in Nat
       /\ \A i \in DOMAIN out : out[i].n \in Nat /\ out[i].n <= n
  <2>1. 1 \in DOMAIN Unread /\ items \in Seq(Items) /\ out \in Seq(Verdict)
    BY <1>1, <1>3, <1>6 DEF TypeOK
  <2>2. n \in Nat /\ n \in 1 .. MaxItems /\ n <= Len(items)
    BY <1>1, <1>6, <2>1, ByteTypes DEF Bytewise
  <2>3. \A i \in DOMAIN out : out[i].n \in Nat /\ out[i].n <= n
    BY <1>1, <2>1, VerdictTypes DEF StreamInv, Behind
  <2> QED
    BY <2>1, <2>2, <2>3, ReaderAssumption
<1>11. pc' \in {"read", "skip"} /\ (Jsonl' <=> Jsonl) /\ (Msgpack' <=> Msgpack)
       /\ items' = items /\ cut' = cut
  BY <1>1, <1>8, <1>9, SameItems DEF hostVars
<1>12. Bytewise'
  <2>1. /\ \A i \in DOMAIN Unread' : Unread'[i].n <= Len(items')
        /\ Ordered(Unread') /\ EndsWhole(Unread)' /\ Sized(Unread)' /\ (cut' => ~open')
    BY <1>1, <1>5, DropsKeep
  <2>2. AtStart'
    BY <1>1, <1>2, <1>8, <1>9, <1>11 DEF AtStart, IsCut
  <2> QED
    BY <2>1, <2>2 DEF Bytewise
<1>13. Behind'
  <2> SUFFICES ASSUME NEW i \in DOMAIN out
               PROVE  /\ out[i].n <= Len(items)
                      /\ \A j \in DOMAIN Unread' :
                            /\ pc' = "read" => out[i].n < Unread'[j].n
                            /\ pc' = "skip" => out[i].n <= Unread'[j].n
    BY <1>1, <1>11 DEF Behind
  <2>1. out[i].n <= Len(items) /\ out[i].n \in Nat /\ out[i].n <= n
    BY <1>1, <1>10 DEF StreamInv, Behind
  <2>2. ASSUME NEW j \in DOMAIN Unread'
        PROVE  /\ pc' = "read" => out[i].n < Unread'[j].n
               /\ pc' = "skip" => out[i].n <= Unread'[j].n
    <3>1. /\ Unread'[j].n \in Nat /\ p + j \in DOMAIN Unread /\ Unread'[j] = Unread[p + j]
          /\ pc = "skip"
      <4>1. Unread' \in Seq(Byte) /\ p \in Nat /\ DOMAIN Unread' = 1 .. Len(Unread')
            /\ Within(Unread', Unread, p) /\ Len(Unread) = p + Len(Unread')
        BY <1>5 DEF Drops
      <4>2. Unread'[j].n \in Nat
        BY <4>1, ByteTypes
      <4> HIDE DEF n
      <4> QED
        BY <1>1, <1>6, <4>1, <4>2 DEF Within
    <3>2. out[i].n <= Unread[p + j].n
      BY <3>1 DEF StreamInv, Behind
    <3>3. CASE EndsAt(avail) # {}
      BY <1>8, <1>10, <2>1, <3>1, <3>3
    <3>4. CASE EndsAt(avail) = {}
      BY <1>9, <3>1, <3>2, <3>4
    <3> QED
      BY <3>3, <3>4
  <2> QED
    BY <2>1, <2>2
<1>14. engineUp /\ ~IsCut(n) => ~FitsCap(n) /\ Said(n, <<"parse">>)
  BY <1>1, <1>6 DEF StreamInv, Skipped
<1>15. \A m : /\ FitsCap(m)' <=> FitsCap(m)
              /\ IsCut(m)' <=> IsCut(m)
              /\ Answered(m)' <=> Answered(m)
              /\ \A ks : Said(m, ks)' <=> Said(m, ks)
  <2>1. \A m : /\ FitsCap(m)' <=> FitsCap(m)
               /\ MayFit(m)' <=> MayFit(m)
               /\ Expected(m)' = Expected(m)
               /\ IsCut(m)' <=> IsCut(m)
    BY <1>1, SameItems
  <2>2. \A m, ks : Said(m, ks)' <=> Said(m, ks)
    BY <1>1, Zenon DEF Said
  <2>3. \A m : Said(m, Expected(m))' <=> Said(m, Expected(m))
    BY <1>1, <2>1 DEF Said
  <2> QED
    BY <2>1, <2>2, <2>3, Zenon DEF Answered
<1>16. Skipped'
  <2> SUFFICES ASSUME engineUp, pc' = "skip", Unread' # <<>>, ~IsCut(Unread[1].n)'
               PROVE  ~FitsCap(Unread[1].n)' /\ Said(Unread[1].n, <<"parse">>)'
    BY <1>1 DEF Skipped
  <2>1. EndsAt(avail) = {}
    BY <1>8
  <2>2. Unread'[1].n = n
    BY <1>9, <2>1
  <2>3. ~IsCut(n)
    BY <1>11, <2>2 DEF IsCut
  <2>4. ~FitsCap(n) /\ Said(n, <<"parse">>)
    BY <1>14, <2>3
  <2>5. ~FitsCap(Unread'[1].n) /\ Said(Unread'[1].n, <<"parse">>)
    BY <2>2, <2>4
  <2> HIDE DEF n
  <2> QED
    BY <1>15, <2>5, Zenon
<1>17. GoodSoFar' /\ StopsAtFatal'
  BY <1>2, <1>11 DEF GoodSoFar, StopsAtFatal
<1>18. InStep'
  <2> SUFFICES ASSUME engineUp, NEW m \in DOMAIN items, Passed(m)'
               PROVE  Answered(m)'
    BY <1>1, <1>11 DEF StreamInv, InStep
  <2>1. CASE m = n
    <3>1. ~IsCut(m)
      BY <1>15, <2>1 DEF Passed
    <3> QED
      BY <1>14, <1>15, <2>1, <3>1 DEF Answered
  <2>2. CASE m # n
    <3>1. Passed(m)
      BY <1>1, <1>5, <1>7, <2>2, PassedStill
    <3> QED
      BY <1>2, <1>15, <3>1 DEF StreamInv, InStep
  <2> QED
    BY <2>1, <2>2
<1>19. TypeOK'
  <2>1. Len(avail') <= ReadSize
    BY <1>3, <1>4, <1>5, ReaderAssumption
  <2> QED
    BY <1>1, <1>5, <1>11, <2>1, Zenon DEF TypeOK, hostVars
<1> QED
  BY <1>12, <1>13, <1>16, <1>17, <1>18, <1>19 DEF StreamInv

-----------------------------------------------------------------------------
(* Steps that answer an item and go on.                                    *)

\* What is sent for one item.
OneAnswer(ks) == ks \in Seq({"control", "parse", "direction", "bad_message"}) /\ Len(ks) <= 1

\* An item has at most one answer, under its own number.
LEMMA AnswerTypes ==
  ASSUME NEW n \in 1 .. MaxItems, NEW ks, OneAnswer(ks)
  PROVE  /\ Answer(n, ks) \in Seq(Verdict) /\ Follow(Answer(n, ks), n)
         /\ DOMAIN Answer(n, ks) = DOMAIN ks
         /\ \A i \in DOMAIN ks : Answer(n, ks)[i].n = n /\ Answer(n, ks)[i].k = ks[i]
<1> DEFINE a == Answer(n, ks)
           K == {"control", "parse", "direction", "bad_message"}
<1>1. ks \in Seq(K) /\ Len(ks) \in {0, 1} /\ DOMAIN ks = 1 .. Len(ks)
  BY DEF OneAnswer
<1>2. \A i \in DOMAIN ks : ks[i] \in K
  BY <1>1
<1>3. /\ DOMAIN a = DOMAIN ks
      /\ \A i \in DOMAIN ks : a[i] = [n |-> n, k |-> ks[i]]
      /\ a = [i \in DOMAIN ks |-> a[i]]
  BY Zenon DEF Answer
<1> HIDE DEF a
<1>4. \A i \in DOMAIN ks : a[i] \in Verdict /\ a[i].n = n /\ a[i].k = ks[i]
  BY <1>2, <1>3, ReaderAssumption DEF Verdict
<1>5. a \in [1 .. Len(ks) -> Verdict]
  BY <1>1, <1>3, <1>4, Zenon
<1>6. a \in Seq(Verdict)
  BY <1>1, <1>5
<1>7. \A i \in DOMAIN a : i = 1
  BY <1>1, <1>3
<1>8. Follow(a, n)
  BY <1>3, <1>4, <1>6, <1>7 DEF Follow
<1> QED
  BY <1>3, <1>4, <1>6, <1>8 DEF a

\* Nothing is left of a stream that ends inside an item, and that item is cut.
LEMMA CutAtEof ==
  ASSUME StreamInv, buf # <<>>, ~Ended, AtEof, buf' = <<>>, UNCHANGED <<avail, stream>>
  PROVE  Unread' = <<>> /\ IsCut(Unread[1].n)
<1>1. TypeOK /\ Bytewise /\ avail = <<>> /\ stream = <<>>
  BY DEF StreamInv, AtEof
<1>2. Drops(Len(buf)) /\ Len(Unread') = Len(avail) + Len(stream)
  BY <1>1, BufCleared
<1>3. Unread' \in Seq(Byte) /\ Len(Unread') = 0
  BY <1>1, <1>2 DEF Drops
<1>4. Unread' = <<>>
  BY <1>3
<1>5. Len(buf) > 0 /\ Unread # <<>> /\ \A k \in 1 .. Len(buf) : ~Unread[k].last
  <2>1. Len(buf) > 0 /\ Len(buf) \in Nat /\ Len(Unread) = Len(buf) + Len(avail) + Len(stream)
    BY <1>1, UnreadTypes
  <2> QED
    BY <1>1, <2>1, BufInner DEF Bytewise
<1> QED
  BY <1>1, <1>2, <1>4, <1>5, SameItem

\* An item is answered and the reader goes on: to the next item once it has read
\* this one to its end, or to the rest of a line that is too long.
LEMMA AnswerStep ==
  ASSUME StreamInv, UNCHANGED <<hostVars, stream, avail, engineUp>>,
         pc = "read", buf # <<>>, buf' = <<>>, pc' \in {"read", "skip"},
         NEW ks, OneAnswer(ks), out' = out \o Answer(buf[1].n, ks),
         pc' = "read" => Ended \/ AtEof,
         pc' = "read" /\ ~IsCut(buf[1].n) => MayFit(buf[1].n) /\ ks = Expected(buf[1].n),
         pc' = "skip" => Jsonl /\ Overlong /\ ks = <<"parse">>,
         Msgpack => FitsCap(buf[1].n) /\ items[buf[1].n].parses
  PROVE  StreamInv'
<1> DEFINE n == buf[1].n
           a == Answer(n, ks)
           p == Len(buf)
<1>1. /\ TypeOK /\ Bytewise /\ out \in Seq(Verdict) /\ items \in Seq(Items)
      /\ Len(items) \in Nat /\ Len(items) <= MaxItems /\ MaxItems \in Nat
      /\ Cap \in Nat /\ format' = format /\ items' = items /\ cut' = cut /\ open' = open
      /\ (Jsonl' <=> Jsonl) /\ (Msgpack' <=> Msgpack)
  BY SameItems, ReaderAssumption DEF StreamInv, TypeOK, hostVars
<1>2. /\ n \in DOMAIN items /\ n \in Nat /\ n <= Len(items) /\ n \in 1 .. MaxItems
      /\ 1 \in DOMAIN Unread /\ Unread[1].n = n /\ p \in Nat \ {0}
      /\ \A i \in DOMAIN out : out[i].n < n
      /\ \A j \in 1 .. p : j \in DOMAIN Unread /\ Unread[j].n = n
      /\ \A j \in DOMAIN Unread : n <= Unread[j].n
      /\ Unread \in Seq(Byte) /\ Unread # <<>>
  <2>1. /\ n \in DOMAIN items /\ n \in Nat /\ n <= Len(items)
        /\ 1 \in DOMAIN Unread /\ Unread[1] = buf[1] /\ p \in Nat \ {0}
        /\ \A i \in DOMAIN out : out[i].n < n
        /\ \A j \in 1 .. p : j \in DOMAIN Unread /\ Unread[j].n = n
        /\ \A j \in DOMAIN Unread : n <= Unread[j].n
    BY AtItem
  <2>2. Unread \in Seq(Byte) /\ Unread # <<>>
    BY <1>1, <2>1, UnreadTypes
  <2> HIDE DEF n, p
  <2>3. n \in 1 .. MaxItems
    BY <1>1, <2>1
  <2> QED
    BY <2>1, <2>2, <2>3
<1>3. Drops(p)
  BY <1>1, BufCleared
<1>4. p \in DOMAIN Unread /\ (Ended => Unread[p].last)
  <2>1. p \in 1 .. p
    BY <1>2
  <2>2. p \in DOMAIN Unread /\ Unread[p] = buf[p]
    BY <1>1, <1>2, <2>1, UnreadTypes
  <2> QED
    BY <2>2 DEF Ended
<1>5. /\ a \in Seq(Verdict) /\ Follow(a, n) /\ DOMAIN a = DOMAIN ks
      /\ \A i \in DOMAIN ks : a[i].n = n /\ a[i].k = ks[i]
      /\ out' = out \o a
  BY <1>2, AnswerTypes
<1> HIDE DEF a
<1>6. ASSUME pc' = "read"
      PROVE  /\ \A j \in DOMAIN Unread' : Between(Unread, 0, j)'
             /\ \A j \in DOMAIN Unread' : n < Unread'[j].n
             /\ Unread' = <<>> \/ Ended
  <2>1. CASE Ended
    <3>1. Unread[p].last /\ Unread[p].n = n
      BY <1>2, <1>4, <2>1
    <3> QED
      BY <1>1, <1>3, <1>4, <2>1, <3>1, NextItem
  <2>2. CASE ~Ended
    BY <1>6, <2>2, CutAtEof
  <2> QED
    BY <2>1, <2>2
<1>7. ASSUME pc' = "skip"
      PROVE  /\ Unread' # <<>> => Unread'[1].n = n
             /\ Unread' = <<>> => IsCut(n)
             /\ Jsonl /\ ks = <<"parse">> /\ (~IsCut(n) => ~FitsCap(n))
  <2>1. ~Ended /\ p > Cap /\ Jsonl /\ ks = <<"parse">>
    BY <1>7 DEF Overlong
  <2>2. \A k \in 1 .. p : ~Unread[k].last
    BY <1>1, <2>1, BufInner DEF Bytewise
  <2>3. /\ Unread' # <<>> => Unread'[1].n = Unread[1].n
        /\ Unread' = <<>> => IsCut(Unread[1].n)
    <3>1. p > 0
      BY <1>2
    <3> QED
      BY <1>1, <1>2, <1>3, <2>2, <3>1, SameItem
  <2>4. ASSUME ~IsCut(n)
        PROVE  ~FitsCap(n)
    <3>1. items[n].size > p
      BY <2>1, <2>4, LongerItem
    <3>2. items[n].size \in Nat
      BY <1>1, <1>2, ReaderAssumption
    <3> HIDE DEF n, p
    <3> QED
      BY <1>1, <1>2, <2>1, <3>1, <3>2 DEF FitsCap
  <2> QED
    BY <1>2, <2>1, <2>3, <2>4
<1>8. \A m : /\ FitsCap(m)' <=> FitsCap(m)
             /\ MayFit(m)' <=> MayFit(m)
             /\ Expected(m)' = Expected(m)
             /\ IsCut(m)' <=> IsCut(m)
  BY SameItems
<1>9. /\ out' \in Seq(Verdict)
      /\ \A i \in DOMAIN out' : \/ i \in DOMAIN out /\ out'[i] = out[i]
                                \/ i - Len(out) \in DOMAIN a /\ out'[i] = a[i - Len(out)]
  <2> DEFINE w == out \o a
  <2>1. a \in Seq(Verdict) /\ out \in Seq(Verdict) /\ out' = w
    BY <1>1, <1>5
  <2>2. /\ w \in Seq(Verdict)
        /\ \A i \in DOMAIN w : \/ i \in DOMAIN out /\ w[i] = out[i]
                               \/ i - Len(out) \in DOMAIN a /\ w[i] = a[i - Len(out)]
    BY <2>1, VerdictsConcat, Zenon
  <2> HIDE DEF w
  <2> QED
    BY <2>1, <2>2
<1>10. Heard(out', n) = {ks[i] : i \in DOMAIN ks}
  <2>1. (\A i \in DOMAIN a : a[i].n = n) /\ \A i \in DOMAIN out : out[i].n # n
    BY <1>2, <1>5
  <2>2. Heard(out \o a, n) = {a[i].k : i \in DOMAIN a}
    BY <1>1, <1>5, <2>1, HeardFirst, Zenon
  <2>3. {a[i].k : i \in DOMAIN a} = {ks[i] : i \in DOMAIN ks}
    BY <1>5
  <2> QED
    BY <1>5, <2>2, <2>3
<1>11. \A m : m # n => /\ Answered(m)' <=> Answered(m)
                       /\ Passed(m)' => Passed(m)
  <2> SUFFICES ASSUME NEW m, m # n
               PROVE  /\ Answered(m)' <=> Answered(m)
                      /\ Passed(m)' => Passed(m)
    OBVIOUS
  <2>1. \A i \in DOMAIN a : a[i].n # m
    BY <1>5
  <2>2. \A k \in 1 .. p : Unread[k].n = n
    BY <1>2
  <2>3. Passed(m)' => Passed(m)
    BY <1>1, <1>3, <2>2, PassedStill
  <2> QED
    BY <1>1, <1>5, <2>1, <2>3, AnsweredStill
<1>12. TypeOK'
  <2>1. buf' \in Seq(Byte) /\ Len(buf') <= Cap + ReadSize
        /\ \A i \in DOMAIN buf' : buf'[i].n = buf'[1].n
    BY ReaderAssumption
  <2>2. pc' \in {"read", "skip", "done"}
    OBVIOUS
  <2> QED
    BY <1>1, <1>9, <2>1, <2>2, Zenon DEF TypeOK
<1>13. Bytewise'
  <2>1. /\ \A i \in DOMAIN Unread' : Unread'[i].n <= Len(items')
        /\ Ordered(Unread') /\ EndsWhole(Unread)' /\ Sized(Unread)' /\ (cut' => ~open')
    BY <1>1, <1>3, DropsKeep
  <2>2. AtStart'
    <3>1. Len(buf') <= Cap
      BY <1>1
    <3> QED
      BY <1>1, <1>6, <1>7, <3>1 DEF AtStart, IsCut
  <2> QED
    BY <2>1, <2>2 DEF Bytewise
<1> HIDE DEF n, p
<1>14. Behind'
  <2> SUFFICES ASSUME NEW i \in DOMAIN out'
               PROVE  /\ out'[i].n <= Len(items)
                      /\ \A j \in DOMAIN Unread' :
                            /\ pc' = "read" => out'[i].n < Unread'[j].n
                            /\ pc' = "skip" => out'[i].n <= Unread'[j].n
    BY <1>1 DEF Behind
  <2>1. out'[i].n \in Nat /\ out'[i].n <= n
    <3>1. out'[i].n \in Nat
      BY <1>9, VerdictTypes
    <3>2. out'[i].n <= n
      BY <1>2, <1>5, <1>9, <3>1
    <3> QED
      BY <3>1, <3>2
  <2>2. out'[i].n <= Len(items)
    BY <1>1, <1>2, <2>1
  <2>3. \A j \in DOMAIN Unread' : Unread'[j].n \in Nat /\ n <= Unread'[j].n
    <3> SUFFICES ASSUME NEW j \in DOMAIN Unread'
                 PROVE  Unread'[j].n \in Nat /\ n <= Unread'[j].n
      OBVIOUS
    <3>1. /\ Unread' \in Seq(Byte) /\ DOMAIN Unread' = 1 .. Len(Unread')
          /\ Unread \in Seq(Byte) /\ DOMAIN Unread = 1 .. Len(Unread) /\ p \in Nat
          /\ Len(Unread) \in Nat /\ Len(Unread') \in Nat
          /\ Within(Unread', Unread, p) /\ Len(Unread) = p + Len(Unread')
      BY <1>2, <1>3 DEF Drops
    <3>2. p + j \in DOMAIN Unread /\ Unread'[j] = Unread[p + j]
      BY <3>1 DEF Within
    <3>3. Unread'[j].n \in Nat
      BY <3>1, ByteTypes
    <3> QED
      BY <1>2, <3>2, <3>3
  <2>4. pc' = "read" => \A j \in DOMAIN Unread' : n < Unread'[j].n
    BY <1>6
  <2> QED
    BY <1>2, <2>1, <2>2, <2>3, <2>4
<1>15. Skipped'
  <2> SUFFICES ASSUME engineUp, pc' = "skip", Unread' # <<>>, ~IsCut(Unread[1].n)'
               PROVE  ~FitsCap(Unread[1].n)' /\ Said(Unread[1].n, <<"parse">>)'
    BY DEF Skipped
  <2>1. Unread'[1].n = n /\ ks = <<"parse">>
    BY <1>7
  <2>2. ~IsCut(Unread'[1].n)
    BY <1>8, Zenon
  <2>3. ~FitsCap(Unread'[1].n)
    BY <1>7, <2>1, <2>2
  <2>4. ~FitsCap(Unread[1].n)'
    BY <1>8, <2>3, Zenon
  <2>5. Said(Unread[1].n, <<"parse">>)'
    BY <1>10, <2>1 DEF Said
  <2> QED
    BY <2>4, <2>5
<1>16. GoodSoFar'
  <2> SUFFICES ASSUME Msgpack, NEW m \in DOMAIN items, Passed(m)'
               PROVE  FitsCap(m)' /\ items[m].parses
    BY <1>1 DEF GoodSoFar
  <2>1. CASE m = n
    BY <1>8, <2>1 DEF n
  <2>2. CASE m # n
    BY <1>8, <1>11, <2>2 DEF StreamInv, GoodSoFar
  <2> QED
    BY <2>1, <2>2
<1>17. InStep'
  <2>1. Growing(out')
    <3>1. Growing(out)
      BY DEF StreamInv, InStep, Growing
    <3> QED
      BY <1>1, <1>2, <1>5, <3>1, GrowingMore
  <2>2. ASSUME engineUp, NEW m \in DOMAIN items, Passed(m)'
        PROVE  Answered(m)'
    <3>1. CASE m # n
      BY <1>1, <1>11, <2>2, <3>1 DEF StreamInv, InStep
    <3>2. CASE m = n
      <4>1. ~IsCut(n)
        BY <1>8, <2>2, <3>2 DEF Passed
      <4>2. pc' = "read"
        <5> SUFFICES ASSUME pc' = "skip"
                     PROVE  FALSE
          OBVIOUS
        <5>1. Unread' # <<>> /\ Unread'[1].n = n
          BY <1>7, <4>1
        <5>2. 1 \in DOMAIN Unread'
          BY <1>3, <5>1 DEF Drops
        <5> QED
          BY <2>2, <3>2, <5>1, <5>2 DEF Passed, Pending
      <4>3. MayFit(n) /\ ks = Expected(n)
        BY <4>1, <4>2 DEF n
      <4>4. MayFit(m)' /\ Said(m, Expected(m))'
        BY <1>8, <1>10, <3>2, <4>3 DEF Said
      <4> QED
        BY <4>4 DEF Answered
    <3> QED
      BY <3>1, <3>2
  <2> QED
    BY <1>1, <2>1, <2>2 DEF InStep, Growing
<1>18. StopsAtFatal'
  <2> SUFFICES ASSUME Msgpack, NEW i \in DOMAIN out', NEW m \in 1 .. out'[i].n,
                      m < out'[i].n \/ out'[i].k # "parse"
               PROVE  FitsCap(m)' /\ items[m].parses
    BY <1>1 DEF StopsAtFatal
  <2>1. CASE i \in DOMAIN out /\ out'[i] = out[i]
    BY <1>8, <2>1 DEF StreamInv, StopsAtFatal
  <2>2. CASE i - Len(out) \in DOMAIN a /\ out'[i] = a[i - Len(out)]
    <3>1. out'[i].n = n
      BY <1>5, <2>2
    <3>2. CASE m = n
      BY <1>8, <3>2 DEF n
    <3>3. CASE m # n
      <4>1. m \in 1 .. n - 1
        BY <1>2, <3>1, <3>3
      <4> QED
        BY <1>8, <4>1, BeforeGood DEF n
    <3> QED
      BY <3>2, <3>3
  <2> QED
    BY <1>9, <2>1, <2>2
<1> QED
  BY <1>12, <1>13, <1>14, <1>15, <1>16, <1>17, <1>18 DEF StreamInv

\* A send that fails is the reader's last act.
LEMMA SendFails ==
  ASSUME StreamInv, UNCHANGED <<hostVars, stream, avail, engineUp, out>>,
         ~engineUp, buf' = <<>>, pc' = "done"
  PROVE  StreamInv'
<1>1. out \in Seq(Verdict) /\ Len(items) \in Nat
  BY DEF StreamInv, TypeOK
<1>2. Follow(<<>>, 0) /\ out' = out \o <<>> /\ 0 <= Len(items)
  BY <1>1 DEF Follow
<1>3. \A i \in DOMAIN <<>> : <<>>[i].n = 0
  OBVIOUS
<1>4. \A m \in 1 .. 0 - 1 : FitsCap(m) /\ items[m].parses
  OBVIOUS
<1> QED
  BY <1>2, <1>3, <1>4, LastWords

\* What classify answers.
LEMMA ClassifyTypes ==
  ASSUME NEW m
  PROVE  OneAnswer(Classify(m)) /\ OneAnswer(<<"parse">>) /\ OneAnswer(<<>>)
<1> DEFINE K == {"control", "parse", "direction", "bad_message"}
<1>1. Classify(m) \in {<<"parse">>, <<"direction">>, <<"control">>, <<"bad_message">>, <<>>}
  BY Zenon DEF Classify
<1>2. /\ <<"parse">> \in Seq(K) /\ <<"direction">> \in Seq(K) /\ <<"control">> \in Seq(K)
      /\ <<"bad_message">> \in Seq(K) /\ <<>> \in Seq(K)
  OBVIOUS
<1>3. /\ Len(<<"parse">>) <= 1 /\ Len(<<"direction">>) <= 1 /\ Len(<<"control">>) <= 1
      /\ Len(<<"bad_message">>) <= 1 /\ Len(<<>>) <= 1
  OBVIOUS
<1> QED
  BY <1>1, <1>2, <1>3, Zenon DEF OneAnswer

\* A line that is too long is answered, and the rest of it is skipped.
LEMMA RejectLineStep ==
  ASSUME StreamInv, RejectLine
  PROVE  StreamInv'
<1> DEFINE ks == <<"parse">>
<1>1. /\ Jsonl /\ ~Msgpack /\ pc = "read" /\ Overlong /\ Send(buf[1].n, ks, "skip")
      /\ UNCHANGED <<hostVars, stream, avail, engineUp>>
  BY DEF RejectLine, Jsonl, Msgpack
<1>2. buf # <<>> /\ OneAnswer(ks)
  <2>1. buf # <<>>
    BY <1>1, ReaderAssumption DEF Overlong
  <2> QED
    BY <2>1, ClassifyTypes
<1> HIDE DEF ks
<1>3. CASE engineUp
  <2>1. buf' = <<>> /\ out' = out \o Answer(buf[1].n, ks) /\ pc' = "skip"
    BY <1>1, <1>3 DEF Send
  <2> QED
    BY <1>1, <1>2, <2>1, AnswerStep DEF ks
<1>4. CASE ~engineUp
  <2>1. buf' = <<>> /\ out' = out /\ pc' = "done"
    BY <1>1, <1>4 DEF Send, ks
  <2> QED
    BY <1>1, <1>4, <2>1, SendFails
<1> QED
  BY <1>3, <1>4

\* A line, all of it, or what there is of it when the stream has come to its end.
LEMMA DecodeLineStep ==
  ASSUME StreamInv, DecodeLine
  PROVE  StreamInv'
<1> DEFINE n == buf[1].n
           ks == IF Blank THEN <<>> ELSE IF Whole /\ Parses THEN Classify(items[n].m)
                                    ELSE <<"parse">>
<1>1. /\ Jsonl /\ ~Msgpack /\ pc = "read" /\ LineRead /\ ~Overlong /\ buf # <<>>
      /\ Send(n, ks, "read") /\ UNCHANGED <<hostVars, stream, avail, engineUp>>
  BY DEF DecodeLine, Jsonl, Msgpack
<1>2. OneAnswer(ks)
  BY ClassifyTypes
<1>3. Ended \/ AtEof
  <2>1. Len(buf) \in Nat /\ Cap \in Nat
    BY ReaderAssumption DEF StreamInv, TypeOK
  <2> QED
    BY <1>1, <2>1 DEF LineRead, Overlong, Filling
<1>4. ASSUME ~IsCut(n), buf' = <<>>
      PROVE  MayFit(n) /\ ks = Expected(n)
  <2>1. /\ Len(buf) \in Nat \ {0} /\ Len(buf) <= Cap + ReadSize /\ n \in DOMAIN items
        /\ 1 \in DOMAIN Unread /\ Unread[1].n = n
    BY <1>1, AtItem DEF StreamInv, TypeOK
  <2>2. Ended
    <3>1. CASE ~Ended
      BY <1>1, <1>3, <1>4, <2>1, <3>1, CutAtEof
    <3> QED
      BY <3>1
  <2>3. items[n].size = Len(buf)
    BY <1>1, <2>2, WholeItem
  <2>4. MayFit(n)
    BY <1>1, <2>1, <2>3 DEF MayFit
  <2>5. Whole /\ (Blank <=> items[n].size = 1)
    BY <2>1, <2>2, <2>3 DEF Whole, Blank
  <2> QED
    BY <1>1, <2>4, <2>5, Zenon DEF Expected, Parses
<1> HIDE DEF ks
<1>5. CASE engineUp \/ ks = <<>>
  <2>1. buf' = <<>> /\ out' = out \o Answer(n, ks) /\ pc' = "read"
    BY <1>1, <1>5 DEF Send
  <2> QED
    BY <1>1, <1>2, <1>3, <1>4, <2>1, AnswerStep
<1>6. CASE ~(engineUp \/ ks = <<>>)
  <2>1. buf' = <<>> /\ out' = out /\ pc' = "done"
    BY <1>1, <1>6 DEF Send
  <2> QED
    BY <1>1, <1>6, <2>1, SendFails
<1> QED
  BY <1>5, <1>6

\* A value, all of it.
LEMMA DecodeValueStep ==
  ASSUME StreamInv, DecodeValue
  PROVE  StreamInv'
<1> DEFINE n == buf[1].n
           ks == Classify(items[n].m)
<1>1. /\ Msgpack /\ ~Jsonl /\ pc = "read" /\ Ended /\ Parses /\ buf # <<>>
      /\ Send(n, ks, "read") /\ UNCHANGED <<hostVars, stream, avail, engineUp>>
  BY DEF DecodeValue, Jsonl, Msgpack, Ended
<1>2. OneAnswer(ks)
  BY ClassifyTypes
<1>3. FitsCap(n) /\ items[n].parses /\ MayFit(n) /\ ks = Expected(n)
  <2>1. items[n].size = Len(buf)
    BY <1>1, WholeItem
  <2>2. FitsCap(n)
    BY <1>1, <2>1 DEF FitsCap, StreamInv, Bytewise, AtStart
  <2>3. items[n].parses
    BY <1>1 DEF Parses
  <2> QED
    BY <1>1, <2>2, <2>3, Zenon DEF MayFit, Expected
<1> HIDE DEF ks
<1>4. CASE engineUp \/ ks = <<>>
  <2>1. buf' = <<>> /\ out' = out \o Answer(n, ks) /\ pc' = "read"
    BY <1>1, <1>4 DEF Send
  <2> QED
    BY <1>1, <1>2, <1>3, <2>1, AnswerStep
<1>5. CASE ~(engineUp \/ ks = <<>>)
  <2>1. buf' = <<>> /\ out' = out /\ pc' = "done"
    BY <1>1, <1>5 DEF Send
  <2> QED
    BY <1>1, <1>5, <2>1, SendFails
<1> QED
  BY <1>4, <1>5

\* An error that is about the item being read, if there is one.
LEMMA FatalItem ==
  ASSUME StreamInv, Msgpack, pc = "read", Fatal(IF buf = <<>> THEN 0 ELSE buf[1].n),
         UNCHANGED <<hostVars, stream, avail, engineUp>>
  PROVE  StreamInv'
<1> DEFINE n == IF buf = <<>> THEN 0 ELSE buf[1].n
<1>1. n \in Nat /\ n <= Len(items) /\ \A i \in DOMAIN out : n = 0 \/ out[i].n < n
  <2>1. Len(items) \in Nat
    BY DEF StreamInv, TypeOK
  <2>2. CASE buf = <<>>
    BY <2>1, <2>2
  <2>3. CASE buf # <<>>
    BY <2>3, AtItem
  <2> QED
    BY <2>2, <2>3
<1>2. \A m \in 1 .. n - 1 : FitsCap(m) /\ items[m].parses
  <2>1. CASE buf = <<>>
    BY <2>1
  <2>2. CASE buf # <<>>
    BY <2>2, BeforeGood
  <2> QED
    BY <2>1, <2>2
<1> QED
  BY <1>1, <1>2, FatalStep

\* A read of stdin fails (engine.rs:371-379).
LEMMA ReadFailsStep ==
  ASSUME StreamInv, ReadFails
  PROVE  StreamInv'
<1>1. CASE Msgpack
  <2>1. pc = "read"
    BY <1>1 DEF ReadFails, StreamInv, TypeOK, Bytewise, AtStart, Msgpack, Jsonl
  <2> QED
    BY <1>1, <2>1, FatalItem DEF ReadFails
<1>2. CASE ~Msgpack
  BY <1>2, FinishStep DEF ReadFails
<1> QED
  BY <1>1, <1>2

\* The input ends within a value or between two (codec.rs:90-97).
LEMMA ValueEofStep ==
  ASSUME StreamInv, ValueEof
  PROVE  StreamInv'
<1>1. CASE Finish /\ UNCHANGED buf
  BY <1>1, FinishStep DEF ValueEof
<1>2. CASE buf # <<>> /\ Fatal(buf[1].n)
  BY <1>2, FatalItem DEF ValueEof
<1> QED
  BY <1>1, <1>2 DEF ValueEof

-----------------------------------------------------------------------------
(* Where the reader goes on.                                               *)

\* An item is dropped at its end, or the reader stops reading.
LEMMA ClearedInPlace ==
  ASSUME StreamInv, InPlace, UNCHANGED <<items, avail, stream>>, buf' = <<>>,
         pc' = "read" => Ended \/ Unread' = <<>>
  PROVE  InPlace'
<1>1. TypeOK
  BY DEF StreamInv
<1>2. Drops(Len(buf))
  BY <1>1, BufCleared
<1>3. Ended => Len(buf) \in DOMAIN Unread /\ Unread[Len(buf)].last
  <2> SUFFICES ASSUME Ended
               PROVE  Len(buf) \in DOMAIN Unread /\ Unread[Len(buf)].last
    OBVIOUS
  <2>1. buf # <<>> /\ buf[Len(buf)].last /\ Len(buf) \in Nat /\ buf \in Seq(Byte)
    BY <1>1, UnreadTypes DEF Ended
  <2>2. Len(buf) \in 1 .. Len(buf)
    BY <2>1
  <2>3. /\ \A i \in 1 .. Len(buf) : Unread[i] = buf[i]
        /\ DOMAIN Unread = 1 .. Len(buf) + Len(avail) + Len(stream)
        /\ Len(avail) \in Nat /\ Len(stream) \in Nat
    BY <1>1, UnreadTypes
  <2> QED
    BY <2>1, <2>2, <2>3
<1> QED
  BY <1>1, <1>2, <1>3, DropsInPlace

\* The reader has come to its end.
LEMMA EndInPlace ==
  ASSUME StreamInv, InPlace,
         EndOfInput \/ SkipEof \/ Unparsable \/ TooLong \/ ValueEof \/ ReadFails
  PROVE  InPlace'
<1>1. /\ UNCHANGED <<items, avail, stream>> /\ pc' = "done"
      /\ buf' = buf \/ buf' = <<>>
  BY DEF EndOfInput, SkipEof, Unparsable, TooLong, ValueEof, ReadFails, Finish, Fatal, hostVars
<1>2. CASE buf' = buf
  <2>1. Unread' = Unread /\ items' = items
    BY <1>1, <1>2, Zenon DEF Unread
  <2> QED
    BY <1>1, <2>1 DEF InPlace, Placed
<1>3. CASE buf' = <<>>
  BY <1>1, <1>3, ClearedInPlace
<1> QED
  BY <1>1, <1>2, <1>3

\* The rest of a line is skipped up to its end.
LEMMA SkipInPlace ==
  ASSUME StreamInv, InPlace, Skip
  PROVE  InPlace'
<1> DEFINE p == SkipLength(avail)
<1>1. /\ TypeOK /\ pc = "skip" /\ avail # <<>> /\ avail' = SubSeq(avail, p + 1, Len(avail))
      /\ pc' = (IF EndsAt(avail) = {} THEN "skip" ELSE "read")
      /\ items' = items /\ buf' = buf /\ stream' = stream
  BY DEF StreamInv, Skip, hostVars
<1>2. buf = <<>>
  BY <1>1 DEF StreamInv, Bytewise, AtStart
<1>3. p \in 0 .. Len(avail) /\ p > 0 /\ (EndsAt(avail) # {} => avail[p].last)
  BY <1>1, FirstEnd DEF TypeOK
<1> HIDE DEF p
<1>4. Drops(p)
  BY <1>1, <1>2, <1>3, BytesSkipped
<1>5. pc' = "read" => p \in DOMAIN Unread /\ Unread[p].last
  <2> SUFFICES ASSUME EndsAt(avail) # {}
               PROVE  p \in DOMAIN Unread /\ Unread[p].last
    BY <1>1
  <2>1. /\ \A i \in 1 .. Len(avail) : Unread[Len(buf) + i] = avail[i]
        /\ DOMAIN Unread = 1 .. Len(buf) + Len(avail) + Len(stream)
        /\ Len(buf) = 0 /\ Len(avail) \in Nat /\ Len(stream) \in Nat
    BY <1>1, <1>2, UnreadTypes
  <2>2. p \in 1 .. Len(avail) /\ Len(buf) + p = p
    BY <1>3, <2>1
  <2>3. Unread[p] = avail[p]
    BY <2>1, <2>2
  <2> QED
    BY <1>3, <2>1, <2>2, <2>3
<1> QED
  BY <1>1, <1>4, <1>5, DropsInPlace

\* A line that is decoded has been read to its end, or there is nothing behind it.
LEMMA LineOver ==
  ASSUME StreamInv, DecodeLine
  PROVE  Ended \/ AtEof
<1>1. Len(buf) \in Nat /\ Cap \in Nat
  BY ReaderAssumption DEF StreamInv, TypeOK
<1> QED
  BY <1>1 DEF DecodeLine, LineRead, Overlong, Filling

\* What has been decoded or rejected makes room for the next item, or for the rest
\* of a line that is too long.
LEMMA SendsInPlace ==
  ASSUME StreamInv, InPlace, RejectLine \/ DecodeLine \/ DecodeValue
  PROVE  InPlace'
<1>1. UNCHANGED <<items, avail, stream>> /\ buf' = <<>>
  BY DEF RejectLine, DecodeLine, DecodeValue, Send, hostVars
<1>2. CASE RejectLine
  <2>1. pc' # "read"
    BY <1>2 DEF RejectLine, Send
  <2> QED
    BY <1>1, <2>1, ClearedInPlace
<1>3. CASE DecodeLine
  <2>1. CASE Ended
    BY <1>1, <2>1, ClearedInPlace
  <2>2. CASE ~Ended
    <3>1. AtEof /\ buf # <<>>
      BY <1>3, <2>2, LineOver DEF DecodeLine
    <3>2. Unread' = <<>>
      BY <1>1, <2>2, <3>1, CutAtEof
    <3> QED
      BY <1>1, <3>2, ClearedInPlace
  <2> QED
    BY <2>1, <2>2
<1>4. CASE DecodeValue
  BY <1>1, <1>4, ClearedInPlace DEF DecodeValue
<1> QED
  BY <1>2, <1>3, <1>4

-----------------------------------------------------------------------------
(* The theorems.                                                           *)

\* The invariant holds before the first byte.
LEMMA ReaderInit ==
  Init => ReaderInv
<1> SUFFICES ASSUME Init
             PROVE  ReaderInv
  OBVIOUS
<1>1. /\ format \in Formats /\ items = <<>> /\ cut = FALSE /\ open = TRUE
      /\ stream = <<>> /\ avail = <<>> /\ buf = <<>> /\ pc = "read" /\ engineUp = TRUE
      /\ out = <<>>
  BY DEF Init
<1>2. TypeOK
  <2>1. /\ Len(<<>>) = 0 /\ 0 <= MaxItems /\ 0 <= ReadSize /\ 0 <= Cap + ReadSize
        /\ <<>> \in Seq(Items) /\ <<>> \in Seq(Byte) /\ <<>> \in Seq(Verdict)
        /\ DOMAIN <<>> = {}
    BY ReaderAssumption
  <2> QED
    BY <1>1, <2>1 DEF TypeOK
<1>3. Unread \in Seq(Byte) /\ Len(Unread) = 0
  BY <1>1, <1>2, UnreadTypes
<1>4. Unread = <<>> /\ DOMAIN Unread = {} /\ DOMAIN out = {} /\ DOMAIN items = {}
  BY <1>1, <1>3
<1>5. Bytewise
  BY <1>1, <1>4, ReaderAssumption
     DEF Bytewise, Ordered, EndsWhole, Sized, AtStart
<1>6. Behind /\ Skipped /\ GoodSoFar /\ InStep /\ StopsAtFatal
  BY <1>1, <1>4 DEF Behind, Skipped, GoodSoFar, InStep, StopsAtFatal
<1>7. InPlace
  BY <1>4 DEF InPlace, Placed
<1> QED
  BY <1>2, <1>5, <1>6, <1>7 DEF ReaderInv, StreamInv

\* Every step of the host, the engine and the reader keeps the invariant.
LEMMA ReaderStep ==
  ReaderInv /\ [Next]_vars => ReaderInv'
<1> SUFFICES ASSUME ReaderInv, [Next]_vars
             PROVE  ReaderInv'
  OBVIOUS
<1>1. CASE Host
  BY <1>1, WriteStep, CloseStep, DiesStep DEF Host
<1>2. CASE EngineStops
  BY <1>2, EngineStopsStep
<1>3. CASE ReadFails \/ ValueEof
  BY <1>3, ReadFailsStep, ValueEofStep, EndInPlace DEF ReaderInv
<1>4. CASE Fill \/ Take \/ TakeValue
  BY <1>4, FillStep, TakeStep, TakeValueStep
<1>5. CASE EndOfInput \/ SkipEof
  BY <1>5, FinishStep, EndInPlace DEF ReaderInv, EndOfInput, SkipEof
<1>6. CASE Skip
  BY <1>6, SkipStep, SkipInPlace DEF ReaderInv
<1>7. CASE RejectLine \/ DecodeLine \/ DecodeValue
  BY <1>7, RejectLineStep, DecodeLineStep, DecodeValueStep, SendsInPlace DEF ReaderInv
<1>8. CASE Unparsable \/ TooLong
  <2>1. buf # <<>> /\ Msgpack /\ pc = "read" /\ Fatal(buf[1].n)
        /\ UNCHANGED <<hostVars, stream, avail, engineUp>>
    BY <1>8, ReaderAssumption DEF Unparsable, TooLong, Ended
  <2> QED
    BY <1>8, <2>1, FatalItem, EndInPlace DEF ReaderInv
<1>9. CASE UNCHANGED vars
  <2>1. /\ UNCHANGED <<format, items, cut, open, stream, avail, buf, pc, engineUp, out>>
        /\ Unread' = Unread
    BY <1>9 DEF vars, hostVars, Unread
  <2>2. TypeOK'
    BY <2>1 DEF ReaderInv, StreamInv, TypeOK
  <2>3. Msgpack => Len(buf') <= Cap
    BY <2>1 DEF ReaderInv, StreamInv, Bytewise, AtStart
  <2> QED
    BY <2>1, <2>2, <2>3, SameStream
<1> QED
  BY <1>1, <1>2, <1>3, <1>4, <1>5, <1>6, <1>7, <1>8, <1>9
     DEF Next, Reader, Terminated

\* The bytes of the control stream stay in order and whole, whatever the cap, the
\* buffer and the chunks: the control reader of engine.rs:297-440 knows at every
\* byte which item it is in and has answered those before it.
THEOREM ReaderCorrect == Spec => []ReaderInv
<1>1. Init => ReaderInv
  BY ReaderInit
<1>2. ReaderInv /\ [Next]_vars => ReaderInv'
  BY ReaderStep
<1> QED
  BY <1>1, <1>2, PTL DEF Spec

\* A line or value takes no more memory than the cap and one buffer, and a buffer
\* never holds bytes of two items (engine.rs:395-418, codec.rs:66-81).
THEOREM StaysInBounds == Spec => []TypeOK
<1>1. ReaderInv => TypeOK
  BY DEF ReaderInv, StreamInv
<1> QED
  BY <1>1, ReaderCorrect, PTL

\* Every item that fits the cap gets its own answer, once and in order, and one
\* that is too long costs no other item its answer (engine.rs:320-440,
\* codec.rs:85-165).
THEOREM StaysInStep == Spec => []InStep
<1>1. ReaderInv => InStep
  BY DEF ReaderInv, StreamInv
<1> QED
  BY <1>1, ReaderCorrect, PTL

\* A MessagePack stream goes on to its first value that is too long or none at all,
\* and not a value further (codec.rs:85-99, engine.rs:366-394).
THEOREM StopsAtFatalValue == Spec => []StopsAtFatal
<1>1. ReaderInv => StopsAtFatal
  BY DEF ReaderInv, StreamInv
<1> QED
  BY <1>1, ReaderCorrect, PTL

-----------------------------------------------------------------------------
(* Controls are the host's own.                                            *)

\* While it reads, the bytes in the buffer are those of one item, from its first on.
LEMMA FromTheStart ==
  ASSUME ReaderInv, pc = "read", buf # <<>>
  PROVE  \A i \in DOMAIN buf : buf[i].n = buf[1].n /\ buf[i].at = i
<1>1. TypeOK /\ StreamInv /\ Placed(Unread) /\ (Unread # <<>> => Unread[1].at = 1)
  BY DEF ReaderInv, StreamInv, InPlace
<1>2. /\ 1 \in DOMAIN Unread /\ Unread[1] = buf[1] /\ Len(buf) \in Nat \ {0}
      /\ \A i \in 1 .. Len(buf) : i \in DOMAIN Unread /\ Unread[i].n = buf[1].n
  BY <1>1, AtItem
<1>3. /\ \A i \in 1 .. Len(buf) : Unread[i] = buf[i]
      /\ Unread \in Seq(Byte) /\ DOMAIN buf = 1 .. Len(buf)
  BY <1>1, UnreadTypes
<1>4. Unread # <<>>
  BY <1>2
<1> SUFFICES ASSUME NEW i \in DOMAIN buf
             PROVE  buf[i].n = buf[1].n /\ buf[i].at = i
  OBVIOUS
<1>5. i \in DOMAIN Unread /\ Unread[i] = buf[i] /\ Unread[i].n = Unread[1].n /\ i \in Nat
  BY <1>2, <1>3
<1>6. Apart(Unread[1].at, Unread[i].at, 1, i)
  BY <1>1, <1>2, <1>5, Zenon DEF Placed, Apart
<1>7. Unread[1].at = 1 /\ Unread[i].at \in Nat
  BY <1>1, <1>3, <1>4, <1>5, ByteTypes
<1> DEFINE y == Unread[i].at
<1>8. Apart(1, y, 1, i) /\ y \in Nat
  BY <1>6, <1>7
<1> HIDE DEF y
<1>9. y = i
  BY <1>5, <1>8 DEF Apart
<1> QED
  BY <1>2, <1>5, <1>9 DEF y

\* What is sent adds to what was.
LEMMA OutGrows ==
  ASSUME out \in Seq(Verdict), NEW a, Len(a) \in Nat, a = [j \in 1 .. Len(a) |-> a[j]],
         out' = out \o a, NEW i \in DOMAIN out'
  PROVE  (i \in DOMAIN out /\ out'[i] = out[i]) \/ \E j \in DOMAIN a : out'[i] = a[j]
<1> DEFINE S == Verdict \cup {a[j] : j \in 1 .. Len(a)}
           m == Len(out)
           n == Len(a)
<1>1. out \in Seq(S)
  BY SeqMonotonic
<1>2. a \in Seq(S)
  <2>1. \A j \in 1 .. Len(a) : a[j] \in S
    OBVIOUS
  <2> HIDE DEF S
  <2>2. a \in [1 .. Len(a) -> S]
    BY <2>1
  <2> QED
    BY <2>2
<1> HIDE DEF S
<1>3. /\ Len(out \o a) = m + n
      /\ \A c \in 1 .. m + n : (out \o a)[c] = IF c <= m THEN out[c] ELSE a[c - m]
      /\ out \o a \in Seq(S)
  BY <1>1, <1>2, ConcatProperties
<1>4. m \in Nat /\ n \in Nat /\ DOMAIN out = 1 .. m /\ DOMAIN a = 1 .. n /\ i \in 1 .. m + n
  BY <1>1, <1>2, <1>3
<1> HIDE DEF m, n
<1>5. CASE i <= m
  <2>1. i \in 1 .. m
    BY <1>4, <1>5
  <2> QED
    BY <1>3, <1>4, <1>5, <2>1
<1>6. CASE ~(i <= m)
  <2>1. i - m \in 1 .. n
    BY <1>4, <1>6
  <2> QED
    BY <1>3, <1>4, <1>6, <2>1
<1> QED
  BY <1>5, <1>6

\* A step that sends no control but what was decoded of one.
LEMMA SendsGenuine ==
  ASSUME ReaderInv, NEW a, Len(a) \in Nat, a = [j \in 1 .. Len(a) |-> a[j]],
         out' = out \o a, \A j \in DOMAIN a : a[j].k = "control" => IsControl(a[j].n)
  PROVE  Genuine
<1>1. out \in Seq(Verdict)
  BY DEF ReaderInv, StreamInv, TypeOK
<1> SUFFICES ASSUME NEW i \in DOMAIN out' \ DOMAIN out, out'[i].k = "control"
             PROVE  IsControl(out'[i].n)
  BY DEF Genuine
<1>2. PICK j \in DOMAIN a : out'[i] = a[j]
  BY <1>1, OutGrows
<1>3. a[j].k = "control"
  BY <1>2
<1> QED
  BY <1>2, <1>3

\* The last words are no controls.
LEMMA EndInvents ==
  ASSUME ReaderInv, Finish \/ \E n : Fatal(n)
  PROVE  Genuine
<1>1. out \in Seq(Verdict)
  BY DEF ReaderInv, StreamInv, TypeOK
<1>2. CASE Finish /\ engineUp
  <2> DEFINE a == <<[n |-> 0, k |-> "end"]>>
  <2>1. out' = out \o a /\ Len(a) = 1 /\ DOMAIN a = {1} /\ a[1].k = "end"
        /\ a = [j \in 1 .. Len(a) |-> a[j]]
    BY <1>1, <1>2 DEF Finish
  <2> HIDE DEF a
  <2> QED
    BY <2>1, SendsGenuine
<1>3. CASE (\E n : Fatal(n)) /\ engineUp
  <2>1. PICK n : Fatal(n)
    BY <1>3
  <2> DEFINE a == <<[n |-> n, k |-> "parse"], [n |-> 0, k |-> "end"]>>
             S == {[n |-> n, k |-> "parse"], [n |-> 0, k |-> "end"]}
  <2>2. out' = out \o a
    BY <1>3, <2>1 DEF Fatal
  <2>3. /\ a[1] = [n |-> n, k |-> "parse"] /\ a[2] = [n |-> 0, k |-> "end"]
        /\ a \in Seq(S) /\ Len(a) = 2
    OBVIOUS
  <2> HIDE DEF a
  <2>4. a[1].k = "parse" /\ a[2].k = "end"
    BY <2>3
  <2> HIDE DEF S
  <2>5. DOMAIN a = {1, 2} /\ a = [j \in 1 .. Len(a) |-> a[j]] /\ Len(a) \in Nat
    BY <2>3
  <2> QED
    BY <2>2, <2>4, <2>5, SendsGenuine
<1>4. CASE ~engineUp
  BY <1>4 DEF Genuine, Finish, Fatal
<1> QED
  BY <1>2, <1>3, <1>4

\* Send sends at most one answer, about the item that was read.
LEMMA SendInvents ==
  ASSUME ReaderInv, NEW n, NEW ks, NEW next, Send(n, ks, next), OneAnswer(ks),
         ks = <<"control">> => IsControl(n)
  PROVE  Genuine
<1>1. CASE engineUp \/ ks = <<>>
  <2> DEFINE a == Answer(n, ks)
  <2>1. out' = out \o a
    BY <1>1 DEF Send
  <2>2. Len(ks) \in {0, 1} /\ DOMAIN ks = 1 .. Len(ks) /\ (Len(ks) = 1 => ks = <<ks[1]>>)
    <3> DEFINE K == {"control", "parse", "direction", "bad_message"}
    <3>1. ks \in Seq(K) /\ Len(ks) <= 1
      BY DEF OneAnswer
    <3> HIDE DEF K
    <3>2. Len(ks) \in Nat /\ DOMAIN ks = 1 .. Len(ks)
      BY <3>1
    <3>3. Len(ks) \in {0, 1}
      BY <3>1, <3>2
    <3>4. Len(ks) = 1 => ks = <<ks[1]>>
      BY <3>1, <3>2
    <3> QED
      BY <3>2, <3>3, <3>4
  <2>3. /\ DOMAIN a = DOMAIN ks /\ a = [j \in DOMAIN a |-> a[j]]
        /\ \A j \in DOMAIN a : a[j].n = n /\ a[j].k = ks[j]
    BY DEF Answer
  <2> HIDE DEF a
  <2>4. Len(a) = Len(ks)
    BY <2>2, <2>3
  <2>5. ASSUME NEW j \in DOMAIN a, a[j].k = "control"
        PROVE  IsControl(a[j].n)
    <3>1. j = 1 /\ Len(ks) = 1 /\ ks[1] = "control"
      BY <2>2, <2>3, <2>5
    <3>2. ks = <<"control">>
      BY <2>2, <3>1
    <3> QED
      BY <2>3, <3>2
  <2> QED
    BY <2>1, <2>2, <2>3, <2>4, <2>5, SendsGenuine
<1>2. CASE ~(engineUp \/ ks = <<>>)
  BY <1>2 DEF Genuine, Send
<1> QED
  BY <1>1, <1>2

\* A line that is decoded to a control is one the host wrote, whole but for its newline.
LEMMA LineInvents ==
  ASSUME ReaderInv, DecodeLine
  PROVE  Genuine
<1> DEFINE n == buf[1].n
           ks == IF Blank THEN <<>> ELSE IF Whole /\ Parses THEN Classify(items[n].m)
                                    ELSE <<"parse">>
<1>1. /\ Jsonl /\ pc = "read" /\ ~Overlong /\ buf # <<>> /\ Send(n, ks, "read")
      /\ StreamInv /\ buf' = <<>> /\ UNCHANGED <<avail, stream>>
  BY DEF DecodeLine, ReaderInv, Send
<1>2. OneAnswer(ks)
  BY ClassifyTypes
<1>3. ASSUME ks = <<"control">>
      PROVE  IsControl(n)
  <2>1. Whole /\ Parses /\ Classify(items[n].m) = <<"control">>
    BY <1>3, Zenon
  <2>2. /\ Len(buf) \in Nat /\ Len(buf) <= Cap + ReadSize /\ n \in DOMAIN items
        /\ items[n].size \in Nat /\ Cap \in Nat
    <3>1. Len(buf) \in Nat /\ n \in DOMAIN items
      BY <1>1, AtItem
    <3>2. Len(buf) <= Cap + ReadSize /\ items \in Seq(Items)
      BY <1>1 DEF StreamInv, TypeOK
    <3> QED
      BY <3>1, <3>2, ReaderAssumption
  <2>3. \A i \in DOMAIN buf : buf[i].n = n /\ buf[i].at = i
    BY <1>1, FromTheStart
  <2>4. CASE Ended
    <3>1. items[n].size = Len(buf)
      BY <1>1, <2>4, WholeItem
    <3> QED
      BY <1>1, <2>1, <2>2, <2>3, <3>1
         DEF IsControl, Holds, MayFit, Parses
  <2>5. CASE ~Ended
    <3>1. Unread[1] = buf[1] /\ Unread[Len(buf)] = buf[Len(buf)] /\ Len(buf) \in DOMAIN buf
          /\ Len(buf) \in DOMAIN Unread
      <4>1. Len(buf) \in Nat \ {0} /\ Unread[1] = buf[1] /\ Len(buf) \in DOMAIN Unread
        <5>1. Len(buf) \in Nat \ {0} /\ \A j \in 1 .. Len(buf) : j \in DOMAIN Unread
          BY <1>1, AtItem
        <5> QED
          BY <1>1, <5>1, AtItem
      <4>2. DOMAIN buf = 1 .. Len(buf) /\ \A i \in 1 .. Len(buf) : Unread[i] = buf[i]
        BY <1>1, UnreadTypes DEF StreamInv
      <4>3. Len(buf) \in 1 .. Len(buf)
        BY <4>1
      <4> QED
        BY <4>1, <4>2, <4>3
    <3>2. IsCut(n)
      <4>1. AtEof
        BY <1>1, <2>5, LineOver
      <4>2. IsCut(Unread[1].n)
        BY <1>1, <2>5, <4>1, CutAtEof
      <4> QED
        BY <3>1, <4>2
    <3>3. Len(buf) = items[n].size - 1
      <4>1. Len(buf) >= items[n].size - 1
        BY <2>1 DEF Whole
      <4>2. Len(buf) <= items[n].size /\ Len(buf) # items[n].size
        <5>1. buf[Len(buf)].n = n /\ buf[Len(buf)].at = Len(buf) /\ ~buf[Len(buf)].last
          BY <1>1, <2>3, <2>5, <3>1 DEF Ended
        <5>2. /\ Unread[Len(buf)].at <= items[Unread[Len(buf)].n].size
              /\ Unread[Len(buf)].last <=>
                    Unread[Len(buf)].at = items[Unread[Len(buf)].n].size
          BY <3>1, Zenon DEF ReaderInv, InPlace, Placed
        <5> QED
          BY <3>1, <5>1, <5>2
      <4> QED
        BY <2>2, <4>1, <4>2
    <3>4. Len(buf) <= Cap
      BY <1>1, <2>2, <2>5 DEF Overlong
    <3>5. FitsCap(n)
      BY <1>1, <2>2, <3>3, <3>4 DEF FitsCap
    <3> QED
      BY <1>1, <2>1, <2>2, <2>3, <3>2, <3>3, <3>5
         DEF IsControl, Holds, MayFit, Parses
  <2> QED
    BY <2>4, <2>5
<1> HIDE DEF ks, n
<1> QED
  BY <1>1, <1>2, <1>3, SendInvents

\* So is a value, and it is no longer than the cap.
LEMMA ValueInvents ==
  ASSUME ReaderInv, DecodeValue
  PROVE  Genuine
<1> DEFINE n == buf[1].n
           ks == Classify(items[n].m)
<1>1. /\ Msgpack /\ ~Jsonl /\ pc = "read" /\ Ended /\ Parses /\ buf # <<>>
      /\ Send(n, ks, "read") /\ StreamInv
  BY DEF DecodeValue, Jsonl, Msgpack, Ended, ReaderInv
<1>2. OneAnswer(ks)
  BY ClassifyTypes
<1>3. Holds(n) /\ MayFit(n) /\ items[n].parses /\ n \in DOMAIN items
  <2>1. items[n].size = Len(buf) /\ n \in DOMAIN items
    BY <1>1, WholeItem, AtItem
  <2>2. \A i \in DOMAIN buf : buf[i].n = n /\ buf[i].at = i
    BY <1>1, FromTheStart
  <2>3. FitsCap(n)
    BY <1>1, <2>1 DEF FitsCap, StreamInv, Bytewise, AtStart
  <2> QED
    BY <1>1, <2>1, <2>2, <2>3 DEF Holds, MayFit, Parses
<1>4. ks = <<"control">> => IsControl(n)
  BY <1>3 DEF IsControl
<1> HIDE DEF ks, n
<1> QED
  BY <1>1, <1>2, <1>4, SendInvents

\* A line that is rejected is answered with an error.
LEMMA RejectInvents ==
  ASSUME ReaderInv, RejectLine
  PROVE  Genuine
<1> DEFINE n == buf[1].n
           ks == <<"parse">>
<1>1. Send(n, ks, "skip")
  BY DEF RejectLine
<1>2. OneAnswer(ks)
  BY ClassifyTypes
<1>3. ks # <<"control">>
  OBVIOUS
<1> HIDE DEF ks, n
<1> QED
  BY <1>1, <1>2, <1>3, SendInvents

\* The engine obeys nothing the host did not write: whenever a control is sent to
\* it, what was decoded are all the bytes of one control that the host wrote, and
\* no others (engine.rs:297-440, codec.rs:85-165).
THEOREM NothingForged == Spec => NothingInvented
<1>1. ReaderInv /\ [Next]_vars => [Genuine]_vars
  <2> SUFFICES ASSUME ReaderInv, [Next]_vars
               PROVE  Genuine
    OBVIOUS
  <2>1. CASE Host \/ EngineStops \/ Fill \/ Take \/ TakeValue \/ Skip \/ UNCHANGED vars
    <3>1. out' = out
      BY <2>1 DEF Host, HostWrite, HostClose, HostDies, EngineStops, Fill, Take, TakeValue,
         Skip, vars
    <3> QED
      BY <3>1 DEF Genuine
  <2>2. CASE EndOfInput \/ SkipEof \/ Unparsable \/ TooLong \/ ValueEof \/ ReadFails
    <3>1. Finish \/ \E n : Fatal(n)
      BY <2>2 DEF EndOfInput, SkipEof, Unparsable, TooLong, ValueEof, ReadFails
    <3> QED
      BY <3>1, EndInvents
  <2>3. CASE RejectLine \/ DecodeLine \/ DecodeValue
    BY <2>3, RejectInvents, LineInvents, ValueInvents
  <2> QED
    BY <2>1, <2>2, <2>3 DEF Next, Reader, Terminated
<1> QED
  BY <1>1, ReaderCorrect, PTL DEF Spec, NothingInvented

=============================================================================
