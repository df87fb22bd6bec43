---------------------------- MODULE CellsProofs ----------------------------
(***************************************************************************)
(* What the operators of Cells do to rows of every length, up to the theorem *)
(* that the host's layout undoes the compression of render.rs.              *)
(***************************************************************************)
EXTENDS Cells, NumberProofs, TLAPS, SequenceTheorems, FunctionTheorems, FiniteSetTheorems

-----------------------------------------------------------------------------
(* Concatenation of many sequences.                                        *)

\* f[i] is what the first i sequences make.
Flattens(f, seqs, S) ==
    /\ f \in [1 .. Len(seqs) -> Seq(S)]
    /\ \A i \in 1 .. Len(seqs) : f[i] = IF i = 1 THEN seqs[1] ELSE f[i - 1] \o seqs[i]

\* A function over 1 .. n is a sequence.
LEMMA FunctionIsSeq ==
  ASSUME NEW S, NEW n \in Nat, NEW f \in [1 .. n -> S]
  PROVE  f \in Seq(S) /\ Len(f) = n
OBVIOUS

\* FlattenSeq is well defined.
LEMMA FlattenSteps ==
  ASSUME NEW S, NEW seqs \in Seq(Seq(S)), Len(seqs) # 0
  PROVE  \E f : Flattens(f, seqs, S) /\ FlattenSeq(seqs) = f[Len(seqs)]
<1> DEFINE flatten[i \in 1 .. Len(seqs)] ==
               IF i = 1 THEN seqs[i] ELSE flatten[i - 1] \o seqs[i]
           R(f, n) == f = [i \in 1 .. n |-> IF i = 1 THEN seqs[i] ELSE f[i - 1] \o seqs[i]]
           T == {n \in 1 .. Len(seqs) : \E f \in [1 .. n -> Seq(S)] : R(f, n)}
<1>1. FlattenSeq(seqs) = flatten[Len(seqs)]
  BY DEF FlattenSeq
<1>2. Len(seqs) \in Nat /\ Len(seqs) >= 1 /\ \A i \in 1 .. Len(seqs) : seqs[i] \in Seq(S)
  OBVIOUS
<1>3. 1 \in T
  <2> DEFINE f == [i \in 1 .. 1 |-> seqs[1]]
  <2>1. f \in [1 .. 1 -> Seq(S)]
    BY <1>2
  <2>2. R(f, 1)
    OBVIOUS
  <2>3. 1 \in 1 .. Len(seqs)
    BY <1>2
  <2> HIDE DEF f, R
  <2> QED
    BY <2>1, <2>2, <2>3
<1>4. ASSUME NEW n \in 1 .. Len(seqs) - 1, n \in T
      PROVE  n + 1 \in T
  <2>1. PICK f \in [1 .. n -> Seq(S)] : R(f, n)
    BY <1>4
  <2> DEFINE g == [i \in 1 .. n + 1 |-> IF i = n + 1 THEN f[n] \o seqs[n + 1] ELSE f[i]]
  <2>2. g \in [1 .. n + 1 -> Seq(S)]
    BY <1>2
  <2>3. ASSUME NEW i \in 1 .. n + 1
        PROVE  g[i] = IF i = 1 THEN seqs[i] ELSE g[i - 1] \o seqs[i]
    <3>1. CASE i = n + 1
      <4>1. i # 1 /\ i - 1 = n /\ g[i - 1] = f[n]
        BY <3>1
      <4> QED
        BY <3>1, <4>1
    <3>2. CASE i # n + 1
      <4>1. i \in 1 .. n /\ g[i] = f[i] /\ (i # 1 => g[i - 1] = f[i - 1])
        BY <3>2
      <4> QED
        BY <2>1, <4>1
    <3> QED
      BY <3>1, <3>2
  <2>4. R(g, n + 1)
    BY <2>3
  <2>5. n + 1 \in 1 .. Len(seqs)
    BY <1>2
  <2> QED
    BY <2>2, <2>4, <2>5
<1>5. Len(seqs) \in T
  <2> HIDE DEF T
  <2>1. 1 .. Len(seqs) \subseteq T
    BY <1>2, <1>3, <1>4, NumbersUpTo
  <2>2. Len(seqs) \in 1 .. Len(seqs)
    BY <1>2
  <2> QED
    BY <2>1, <2>2, Zenon
<1>6. PICK f \in [1 .. Len(seqs) -> Seq(S)] : R(f, Len(seqs))
  BY <1>5
<1>7. R(flatten, Len(seqs))
  BY <1>6
<1>8. \A i \in 1 .. Len(seqs) :
         flatten[i] = IF i = 1 THEN seqs[i] ELSE flatten[i - 1] \o seqs[i]
  BY <1>7
<1> HIDE DEF flatten
<1> DEFINE U == {i \in 1 .. Len(seqs) : flatten[i] \in Seq(S)}
<1>9. 1 .. Len(seqs) \subseteq U
  <2>1. 1 \in U
    BY <1>2, <1>8
  <2>2. ASSUME NEW i \in 1 .. Len(seqs) - 1, i \in U
        PROVE  i + 1 \in U
    <3>1. i + 1 \in 1 .. Len(seqs) /\ i + 1 # 1 /\ (i + 1) - 1 = i
      BY <1>2
    <3>2. flatten[i + 1] = flatten[i] \o seqs[i + 1]
      BY <1>8, <3>1, Zenon
    <3>3. flatten[i] \in Seq(S) /\ seqs[i + 1] \in Seq(S)
      BY <1>2, <2>2, <3>1
    <3>4. flatten[i + 1] \in Seq(S)
      BY <3>2, <3>3
    <3> QED
      BY <3>1, <3>4
  <2> HIDE DEF U
  <2> QED
    BY <1>2, <2>1, <2>2, NumbersUpTo
<1>10. flatten \in [1 .. Len(seqs) -> Seq(S)]
  BY <1>7, <1>8, <1>9
<1>11. Flattens(flatten, seqs, S)
  BY <1>8, <1>10 DEF Flattens
<1> QED
  BY <1>1, <1>11

\* One step of it.
Extends(f, seqs, n, S) ==
    f[n] \in Seq(S) /\ seqs[n + 1] \in Seq(S) /\ f[n + 1] = f[n] \o seqs[n + 1]

\* One step of the concatenation.
LEMMA FlattensNext ==
  ASSUME NEW S, NEW seqs \in Seq(Seq(S)), NEW f, Flattens(f, seqs, S),
         NEW n \in 1 .. Len(seqs) - 1
  PROVE  Extends(f, seqs, n, S)
<1>1. Len(seqs) \in Nat
  OBVIOUS
<1>2. n \in 1 .. Len(seqs) /\ n + 1 \in 1 .. Len(seqs) /\ n + 1 # 1 /\ (n + 1) - 1 = n
  BY <1>1
<1>3. seqs[n + 1] \in Seq(S)
  BY <1>2
<1>4. \A i \in 1 .. Len(seqs) : f[i] \in Seq(S)
  BY DEF Flattens
<1>5. f[n + 1] = IF n + 1 = 1 THEN seqs[1] ELSE f[(n + 1) - 1] \o seqs[n + 1]
  BY <1>2, Zenon DEF Flattens
<1> QED
  BY <1>2, <1>3, <1>4, <1>5 DEF Extends

\* Its beginning.
LEMMA FlattensFirst ==
  ASSUME NEW S, NEW seqs \in Seq(Seq(S)), NEW f, Flattens(f, seqs, S), Len(seqs) # 0
  PROVE  /\ Len(seqs) \in Nat /\ 1 \in 1 .. Len(seqs) /\ Len(seqs) \in 1 .. Len(seqs)
         /\ f[1] = seqs[1]
         /\ \A n \in 1 .. Len(seqs) : f[n] \in Seq(S) /\ seqs[n] \in Seq(S)
<1>1. Len(seqs) \in Nat /\ 1 \in 1 .. Len(seqs) /\ Len(seqs) \in 1 .. Len(seqs)
  OBVIOUS
<1>2. f[1] = seqs[1]
  BY <1>1 DEF Flattens
<1>3. ASSUME NEW n \in 1 .. Len(seqs)
      PROVE  f[n] \in Seq(S) /\ seqs[n] \in Seq(S)
  <2>1. seqs[n] \in Seq(S)
    OBVIOUS
  <2>2. f[n] \in Seq(S)
    BY DEF Flattens
  <2> QED
    BY <2>1, <2>2
<1> QED
  BY <1>1, <1>2, <1>3

\* u is s and then t.
Joins(u, s, t) ==
    /\ Len(s) \in Nat /\ Len(t) \in Nat /\ Len(u) = Len(s) + Len(t)
    /\ \A c \in 1 .. Len(s) : u[c] = s[c]
    /\ \A c \in 1 .. Len(t) : u[Len(s) + c] = t[c]

\* Where the elements of a concatenation are.
LEMMA ConcatJoins ==
  ASSUME NEW S, NEW s \in Seq(S), NEW t \in Seq(S)
  PROVE  Joins(s \o t, s, t)
<1>1. Len(s) \in Nat /\ Len(t) \in Nat
  OBVIOUS
<1>2. /\ Len(s \o t) = Len(s) + Len(t)
      /\ \A c \in 1 .. Len(s) + Len(t) : (s \o t)[c] = IF c <= Len(s) THEN s[c] ELSE t[c - Len(s)]
  BY ConcatProperties
<1>3. ASSUME NEW c \in 1 .. Len(t)
      PROVE  (s \o t)[Len(s) + c] = t[c]
  <2>1. /\ Len(s) + c \in 1 .. Len(s) + Len(t) /\ ~(Len(s) + c <= Len(s))
        /\ (Len(s) + c) - Len(s) = c
    BY <1>1
  <2> QED
    BY <1>2, <2>1
<1>4. ASSUME NEW c \in 1 .. Len(s)
      PROVE  (s \o t)[c] = s[c]
  <2>1. c \in 1 .. Len(s) + Len(t) /\ c <= Len(s)
    BY <1>1
  <2> QED
    BY <1>2, <2>1
<1> QED
  BY <1>1, <1>2, <1>3, <1>4, Zenon DEF Joins

\* What the parts are made of the whole is made of.
LEMMA FlattenType ==
  ASSUME NEW S, NEW seqs \in Seq(Seq(S))
  PROVE  FlattenSeq(seqs) \in Seq(S)
<1>1. CASE Len(seqs) = 0
  <2>1. FlattenSeq(seqs) = seqs
    BY <1>1 DEF FlattenSeq
  <2>2. seqs = <<>>
    BY <1>1
  <2> QED
    BY <2>1, <2>2
<1>2. CASE Len(seqs) # 0
  <2>1. PICK f : Flattens(f, seqs, S) /\ FlattenSeq(seqs) = f[Len(seqs)]
    BY <1>2, FlattenSteps
  <2> QED
    BY <1>2, <2>1, FlattensFirst
<1> QED
  BY <1>1, <1>2

\* Two sequences whose elements are related by R, one by one.
Alike(s, t, R) == Len(s) = Len(t) /\ \A c \in 1 .. Len(s) : <<s[c], t[c]>> \in R

\* Sequences that are alike, joined, are alike.
LEMMA AlikeConcat ==
  ASSUME NEW S, NEW T, NEW R, NEW s \in Seq(S), NEW u \in Seq(S), NEW t \in Seq(T), NEW v \in Seq(T),
         Alike(s, t, R), Alike(u, v, R)
  PROVE  Alike(s \o u, t \o v, R)
<1> DEFINE a == s \o u
           b == t \o v
<1>1. Joins(a, s, u) /\ Joins(b, t, v)
  BY ConcatJoins
<1> HIDE DEF a, b
<1>2. Len(s) = Len(t) /\ Len(u) = Len(v) /\ Len(a) = Len(b) /\ Len(a) = Len(s) + Len(u)
  BY <1>1 DEF Alike, Joins
<1>3. Len(s) \in Nat /\ Len(u) \in Nat
  BY <1>1 DEF Joins
<1>4. ASSUME NEW c \in 1 .. Len(a)
      PROVE  <<a[c], b[c]>> \in R
  <2>1. CASE c \in 1 .. Len(s)
    <3>1. a[c] = s[c] /\ b[c] = t[c]
      BY <1>1, <1>2, <2>1 DEF Joins
    <3> QED
      BY <2>1, <3>1 DEF Alike
  <2>2. CASE c \notin 1 .. Len(s)
    <3>1. PICK d \in 1 .. Len(u) : c = Len(s) + d
      <4>1. c - Len(s) \in 1 .. Len(u) /\ c = Len(s) + (c - Len(s))
        BY <1>2, <1>3, <2>2
      <4> QED
        BY <4>1
    <3>2. a[c] = u[d] /\ b[c] = v[d]
      BY <1>1, <1>2, <3>1 DEF Joins
    <3> QED
      BY <3>2 DEF Alike
  <2> QED
    BY <2>1, <2>2
<1>5. Alike(a, b, R)
  BY <1>2, <1>4 DEF Alike
<1> QED
  BY <1>5 DEF a, b

\* Parts that are alike make wholes that are alike.
LEMMA FlattenAlike ==
  ASSUME NEW S, NEW T, NEW R, NEW a \in Seq(Seq(S)), NEW b \in Seq(Seq(T)), Len(a) = Len(b),
         \A i \in 1 .. Len(a) : Alike(a[i], b[i], R)
  PROVE  Alike(FlattenSeq(a), FlattenSeq(b), R)
<1>1. CASE Len(a) = 0
  <2>1. FlattenSeq(a) = a /\ FlattenSeq(b) = b /\ Len(a) = 0 /\ Len(b) = 0
    BY <1>1 DEF FlattenSeq
  <2> QED
    BY <2>1 DEF Alike
<1>2. CASE Len(a) # 0
  <2>1. PICK f : Flattens(f, a, S) /\ FlattenSeq(a) = f[Len(a)]
    BY <1>2, FlattenSteps
  <2>2. PICK g : Flattens(g, b, T) /\ FlattenSeq(b) = g[Len(b)]
    BY <1>2, FlattenSteps
  <2> DEFINE U == {i \in 1 .. Len(a) : Alike(f[i], g[i], R)}
  <2>3. Len(a) \in Nat /\ 1 \in 1 .. Len(a) /\ Len(a) \in 1 .. Len(a)
    BY <1>2
  <2>4. f[1] = a[1] /\ g[1] = b[1]
    BY <1>2, <2>1, <2>2, FlattensFirst
  <2>5. 1 \in U
    BY <2>3, <2>4
  <2>6. ASSUME NEW i \in 1 .. Len(a) - 1, i \in U
        PROVE  i + 1 \in U
    <3>1. Extends(f, a, i, S)
      BY <2>1, FlattensNext
    <3>2. i \in 1 .. Len(b) - 1
      OBVIOUS
    <3>3. Extends(g, b, i, T)
      BY <2>2, <3>2, FlattensNext
    <3>4. i + 1 \in 1 .. Len(a)
      BY <2>3
    <3>5. Alike(f[i], g[i], R) /\ Alike(a[i + 1], b[i + 1], R)
      BY <2>6, <3>4
    <3>6. Alike(f[i] \o a[i + 1], g[i] \o b[i + 1], R)
      BY <3>1, <3>3, <3>5, AlikeConcat DEF Extends
    <3>7. Alike(f[i + 1], g[i + 1], R)
      BY <3>1, <3>3, <3>6 DEF Extends
    <3> QED
      BY <3>4, <3>7
  <2>7. 1 .. Len(a) \subseteq U
    <3> HIDE DEF U
    <3> QED
      BY <2>3, <2>5, <2>6, NumbersUpTo
  <2>8. Alike(f[Len(a)], g[Len(a)], R)
    BY <2>3, <2>7
  <2> QED
    BY <2>1, <2>2, <2>8
<1> QED
  BY <1>1, <1>2

\* v is an element of s.
Holds(s, v) == \E k \in 1 .. Len(s) : s[k] = v

\* What either part holds the whole holds.
LEMMA JoinsHolds ==
  ASSUME NEW u, NEW s, NEW t, NEW v, Joins(u, s, t), Holds(s, v) \/ Holds(t, v)
  PROVE  Holds(u, v)
<1>1. Len(s) \in Nat /\ Len(t) \in Nat /\ Len(u) = Len(s) + Len(t)
  BY DEF Joins
<1>2. CASE Holds(s, v)
  <2>1. PICK k \in 1 .. Len(s) : s[k] = v
    BY <1>2 DEF Holds
  <2>2. k \in 1 .. Len(u) /\ u[k] = v
    BY <1>1, <2>1 DEF Joins
  <2> QED
    BY <2>2 DEF Holds
<1>3. CASE Holds(t, v)
  <2>1. PICK k \in 1 .. Len(t) : t[k] = v
    BY <1>3 DEF Holds
  <2>2. Len(s) + k \in 1 .. Len(u) /\ u[Len(s) + k] = v
    BY <1>1, <2>1 DEF Joins
  <2> QED
    BY <2>2 DEF Holds
<1> QED
  BY <1>2, <1>3

\* Every element of a part is in the whole.
LEMMA FlattenHolds ==
  ASSUME NEW S, NEW seqs \in Seq(Seq(S)), NEW i \in 1 .. Len(seqs), NEW v, Holds(seqs[i], v)
  PROVE  Holds(FlattenSeq(seqs), v)
<1>1. Len(seqs) # 0
  OBVIOUS
<1>2. PICK f : Flattens(f, seqs, S) /\ FlattenSeq(seqs) = f[Len(seqs)]
  BY <1>1, FlattenSteps
<1> DEFINE U == {n \in 1 .. Len(seqs) : n >= i => Holds(f[n], v)}
<1>3. /\ Len(seqs) \in Nat /\ 1 \in 1 .. Len(seqs) /\ Len(seqs) \in 1 .. Len(seqs)
      /\ f[1] = seqs[1]
  BY <1>1, <1>2, FlattensFirst
<1>4. 1 \in U
  BY <1>3
<1>5. ASSUME NEW n \in 1 .. Len(seqs) - 1, n \in U
      PROVE  n + 1 \in U
  <2>1. Extends(f, seqs, n, S)
    BY <1>2, FlattensNext
  <2>2. Joins(f[n + 1], f[n], seqs[n + 1])
    BY <2>1, ConcatJoins DEF Extends
  <2>3. n + 1 >= i => Holds(f[n], v) \/ Holds(seqs[n + 1], v)
    BY <1>3, <1>5
  <2>4. n + 1 >= i => Holds(f[n + 1], v)
    BY <2>2, <2>3, JoinsHolds
  <2> QED
    BY <1>3, <2>4
<1>6. 1 .. Len(seqs) \subseteq U
  <2> HIDE DEF U
  <2> QED
    BY <1>3, <1>4, <1>5, NumbersUpTo
<1>7. Len(seqs) \in U
  BY <1>3, <1>6, Zenon
<1>8. Holds(f[Len(seqs)], v)
  BY <1>3, <1>7
<1> QED
  BY <1>2, <1>8

\* seqs is columns, cut after each of the places that ends names.
Cut(seqs, columns, ends) ==
    /\ ends \in [0 .. Len(seqs) -> 0 .. Len(columns)]
    /\ ends[0] = 0 /\ ends[Len(seqs)] = Len(columns)
    /\ \A i \in 1 .. Len(seqs) :
          /\ Len(seqs[i]) = ends[i] - ends[i - 1]
          /\ \A c \in 1 .. Len(seqs[i]) : seqs[i][c] = columns[ends[i - 1] + c]

\* s is the first n elements of columns.
Starts(s, columns, n) == Len(s) = n /\ \A c \in 1 .. n : s[c] = columns[c]

\* Cutting a sequence up and flattening the parts changes nothing.
LEMMA FlattenCut ==
  ASSUME NEW S, NEW columns \in Seq(S), NEW seqs \in Seq(Seq(S)), NEW ends,
         Cut(seqs, columns, ends)
  PROVE  FlattenSeq(seqs) = columns
<1>1. CASE Len(seqs) = 0
  <2>1. FlattenSeq(seqs) = seqs /\ Len(columns) = 0
    BY <1>1 DEF FlattenSeq, Cut
  <2>2. seqs = <<>> /\ columns = <<>>
    BY <1>1, <2>1
  <2> QED
    BY <2>1, <2>2
<1>2. CASE Len(seqs) # 0
  <2>1. PICK f : Flattens(f, seqs, S) /\ FlattenSeq(seqs) = f[Len(seqs)]
    BY <1>2, FlattenSteps
  <2> DEFINE U == {n \in 1 .. Len(seqs) : Starts(f[n], columns, ends[n])}
  <2>2. /\ Len(seqs) \in Nat /\ 1 \in 1 .. Len(seqs) /\ Len(seqs) \in 1 .. Len(seqs)
        /\ f[1] = seqs[1]
    BY <1>2, <2>1, FlattensFirst
  <2>3. \A n \in 0 .. Len(seqs) : ends[n] \in Nat
    BY DEF Cut
  <2>4. 1 \in U
    <3>1. 1 - 1 = 0 /\ ends[0] = 0 /\ ends[1] \in Nat
      BY <2>2, <2>3 DEF Cut
    <3>2. /\ Len(seqs[1]) = ends[1] - ends[1 - 1]
          /\ \A c \in 1 .. Len(seqs[1]) : seqs[1][c] = columns[ends[1 - 1] + c]
      BY <2>2, Zenon DEF Cut
    <3>3. Starts(seqs[1], columns, ends[1])
      BY <3>1, <3>2 DEF Starts
    <3> QED
      BY <2>2, <3>3
  <2>5. ASSUME NEW n \in 1 .. Len(seqs) - 1, n \in U
        PROVE  n + 1 \in U
    <3>1. n \in 0 .. Len(seqs) /\ n + 1 \in 0 .. Len(seqs) /\ (n + 1) - 1 = n
          /\ n + 1 \in 1 .. Len(seqs)
      BY <2>2
    <3>2. Extends(f, seqs, n, S)
      BY <2>1, FlattensNext
    <3>3. Joins(f[n + 1], f[n], seqs[n + 1])
      BY <3>2, ConcatJoins DEF Extends
    <3>4. /\ Len(seqs[n + 1]) = ends[n + 1] - ends[(n + 1) - 1]
          /\ \A c \in 1 .. Len(seqs[n + 1]) : seqs[n + 1][c] = columns[ends[(n + 1) - 1] + c]
      BY <3>1, Zenon DEF Cut
    <3>5. /\ Len(seqs[n + 1]) = ends[n + 1] - ends[n]
          /\ \A c \in 1 .. Len(seqs[n + 1]) : seqs[n + 1][c] = columns[ends[n] + c]
      BY <3>1, <3>4
    <3>6. ends[n] \in Nat /\ ends[n + 1] \in Nat
      BY <2>3, <3>1
    <3>7. Len(f[n]) = ends[n] /\ \A c \in 1 .. ends[n] : f[n][c] = columns[c]
      BY <2>5 DEF Starts
    <3>8. Len(f[n + 1]) = ends[n + 1]
      BY <3>3, <3>5, <3>6, <3>7 DEF Joins
    <3>9. ASSUME NEW c \in 1 .. ends[n + 1]
          PROVE  f[n + 1][c] = columns[c]
      <4>1. CASE c \in 1 .. ends[n]
        <5>1. f[n + 1][c] = f[n][c]
          BY <3>3, <3>7, <4>1 DEF Joins
        <5> QED
          BY <3>7, <4>1, <5>1
      <4>2. CASE c \notin 1 .. ends[n]
        <5>1. PICK d \in 1 .. Len(seqs[n + 1]) : c = ends[n] + d
          <6> DEFINE a == ends[n]
                     b == ends[n + 1]
                     m == Len(seqs[n + 1])
          <6>2. a \in Nat /\ b \in Nat /\ c \in 1 .. b /\ c \notin 1 .. a
            BY <3>6, <4>2
          <6>3. m = b - a
            BY <3>5
          <6> HIDE DEF a, b, m
          <6>4. c - a \in 1 .. m /\ c = a + (c - a)
            BY <6>2, <6>3
          <6>1. c - ends[n] \in 1 .. Len(seqs[n + 1]) /\ c = ends[n] + (c - ends[n])
            BY <6>4 DEF a, m
          <6> QED
            BY <6>1
        <5>2. f[n + 1][c] = seqs[n + 1][d]
          BY <3>3, <3>7, <5>1 DEF Joins
        <5> QED
          BY <3>5, <5>1, <5>2
      <4> QED
        BY <4>1, <4>2
    <3>10. Starts(f[n + 1], columns, ends[n + 1])
      BY <3>8, <3>9 DEF Starts
    <3> QED
      BY <3>1, <3>10
  <2>6. 1 .. Len(seqs) \subseteq U
    <3> HIDE DEF U
    <3> QED
      BY <2>2, <2>4, <2>5, NumbersUpTo
  <2>7. Starts(f[Len(seqs)], columns, Len(columns))
    BY <2>2, <2>6 DEF Cut
  <2>8. f[Len(seqs)] \in Seq(S)
    BY <1>2, <2>1, FlattensFirst
  <2>9. f[Len(seqs)] = columns
    <3> HIDE DEF U
    <3> QED
      BY <2>7, <2>8, SeqEqual DEF Starts
  <2> QED
    BY <2>1, <2>9
<1> QED
  BY <1>1, <1>2

-----------------------------------------------------------------------------
(* Sets of numbers in order.                                               *)

\* s is S in ascending order.
Ascends(s, S) ==
    /\ s \in Seq(S) /\ Len(s) = Cardinality(S) /\ Len(s) \in Nat
    /\ \A v \in S : Holds(s, v)
    /\ \A i, j \in 1 .. Len(s) : i < j => s[i] < s[j]

\* Sorting a finite set of numbers puts each of them once, in order.
LEMMA SortedAscends ==
  ASSUME NEW S \in SUBSET Nat, IsFiniteSet(S)
  PROVE  Ascends(Sorted(S), S)
<1> DEFINE below(i) == {j \in S : j < i}
           rank == [i \in S |-> Cardinality(below(i))]
           T == 0 .. Cardinality(S) - 1
           s == Sorted(S)
<1>1. Cardinality(S) \in Nat
  BY FS_CardinalityType
<1>2. ASSUME NEW i \in S
      PROVE  rank[i] \in T
  <2>1. below(i) \in SUBSET (S \ {i})
    OBVIOUS
  <2>2. IsFiniteSet(S \ {i}) /\ Cardinality(S \ {i}) = Cardinality(S) - 1
    BY FS_RemoveElement
  <2> HIDE DEF below
  <2>3. IsFiniteSet(below(i)) /\ Cardinality(below(i)) <= Cardinality(S) - 1
    BY <2>1, <2>2, FS_Subset
  <2>4. Cardinality(below(i)) \in Nat
    BY <2>3, FS_CardinalityType
  <2> QED
    BY <1>1, <2>3, <2>4
<1>3. ASSUME NEW i \in S, NEW k \in S, i < k
      PROVE  rank[i] < rank[k]
  <2>1. IsFiniteSet(below(i)) /\ IsFiniteSet(below(k))
    <3>1. below(i) \in SUBSET S /\ below(k) \in SUBSET S
      OBVIOUS
    <3> HIDE DEF below
    <3> QED
      BY <3>1, FS_Subset
  <2>2. below(i) \cup {i} \in SUBSET below(k) /\ i \notin below(i)
    <3>1. S \subseteq Nat /\ i \in Nat /\ k \in Nat
      OBVIOUS
    <3>2. i \in below(k) /\ i \notin below(i)
      BY <1>3, <3>1
    <3>3. ASSUME NEW x \in below(i)
          PROVE  x \in below(k)
      <4>1. x \in Nat /\ x < i /\ x \in S
        BY <3>1
      <4> QED
        BY <1>3, <3>1, <4>1
    <3> HIDE DEF below
    <3> QED
      BY <3>2, <3>3
  <2> HIDE DEF below
  <2>3. Cardinality(below(i) \cup {i}) = Cardinality(below(i)) + 1
    BY <2>1, <2>2, FS_AddElement
  <2>4. Cardinality(below(i) \cup {i}) <= Cardinality(below(k))
    BY <2>1, <2>2, FS_Subset
  <2>5. Cardinality(below(i)) \in Nat /\ Cardinality(below(k)) \in Nat
    BY <2>1, FS_CardinalityType
  <2> QED
    BY <2>3, <2>4, <2>5
<1>4. S \subseteq Nat /\ \A i \in S : i \in Nat
  OBVIOUS
<1>5. rank \in [S -> T]
  <2> HIDE DEF T, below
  <2> QED
    BY <1>2
<1>6. \A i \in S : rank[i] = Cardinality({j \in S : j < i})
  OBVIOUS
<1> HIDE DEF rank
<1>7. ASSUME NEW i \in S, NEW k \in S, rank[i] = rank[k]
      PROVE  i = k
  <2>1. rank[i] \in T /\ rank[k] \in T /\ i \in Nat /\ k \in Nat
    BY <1>5, <1>4
  <2>2. ~(i < k) /\ ~(k < i)
    BY <1>3, <1>7, <2>1
  <2> QED
    BY <2>1, <2>2
<1>8. \A n \in T : \E i \in S : rank[i] = n
  <2>1. rank \in Injection(S, T)
    BY <1>5, <1>7, Fun_IsInj
  <2>2. IsFiniteSet(T) /\ Cardinality(T) = Cardinality(S)
    <3>1. 0 \in Int /\ Cardinality(S) - 1 \in Int
      BY <1>1
    <3>2. /\ IsFiniteSet(T)
          /\ Cardinality(T) = IF 0 > Cardinality(S) - 1 THEN 0 ELSE Cardinality(S) - 1 - 0 + 1
      BY <3>1, FS_Interval
    <3> QED
      BY <1>1, <3>2
  <2> HIDE DEF T
  <2>3. rank \in Surjection(S, T)
    BY <2>1, <2>2, FS_Injection
  <2> QED
    BY <2>3, Fun_SurjectionProperties
<1>9. /\ Len(s) = Cardinality(S) /\ DOMAIN s = 1 .. Cardinality(S)
      /\ \A n \in 1 .. Cardinality(S) :
            s[n] = CHOOSE i \in S : Cardinality({j \in S : j < i}) = n - 1
  BY <1>1 DEF Sorted
<1> HIDE DEF s
<1>10. ASSUME NEW n \in 1 .. Cardinality(S)
       PROVE  s[n] \in S /\ rank[s[n]] = n - 1
  <2>1. n - 1 \in T
    BY <1>1
  <2>2. \E i \in S : Cardinality({j \in S : j < i}) = n - 1
    BY <1>6, <1>8, <2>1
  <2>3. s[n] \in S /\ Cardinality({j \in S : j < s[n]}) = n - 1
    BY <1>9, <2>2
  <2> QED
    BY <1>6, <2>3
<1>11. s \in Seq(S)
  <2>1. s = [n \in 1 .. Cardinality(S) |->
                CHOOSE i \in S : Cardinality({j \in S : j < i}) = n - 1]
    BY DEF s, Sorted
  <2>2. s \in [1 .. Cardinality(S) -> S]
    BY <1>10, <2>1
  <2> QED
    BY <1>1, <2>2
<1>12. ASSUME NEW i \in 1 .. Len(s), NEW j \in 1 .. Len(s), i < j
       PROVE  s[i] < s[j]
  <2>1. s[i] \in S /\ s[j] \in S /\ rank[s[i]] = i - 1 /\ rank[s[j]] = j - 1
    BY <1>9, <1>10
  <2>2. s[i] \in Nat /\ s[j] \in Nat
    BY <1>4, <2>1
  <2>3. rank[s[i]] < rank[s[j]]
    BY <1>9, <1>12, <2>1
  <2>4. s[i] # s[j]
    BY <1>1, <1>9, <2>1, <2>3
  <2>5. s[j] < s[i] => rank[s[j]] < rank[s[i]]
    BY <1>3, <2>1
  <2> QED
    BY <1>1, <1>9, <2>1, <2>2, <2>3, <2>4, <2>5
<1>13. ASSUME NEW v \in S
       PROVE  Holds(s, v)
  <2>1. rank[v] \in T
    BY <1>5
  <2>2. rank[v] + 1 \in 1 .. Cardinality(S) /\ (rank[v] + 1) - 1 = rank[v]
    BY <1>1, <2>1
  <2>3. s[rank[v] + 1] \in S /\ rank[s[rank[v] + 1]] = rank[v]
    BY <1>10, <2>2
  <2>4. s[rank[v] + 1] = v
    BY <1>7, <2>3
  <2> QED
    BY <1>9, <2>2, <2>4 DEF Holds
<1>14. Ascends(s, S)
  BY <1>1, <1>9, <1>11, <1>12, <1>13 DEF Ascends
<1> QED
  BY <1>14 DEF s

-----------------------------------------------------------------------------
(* Places that cut a row up.                                               *)

\* The numbers up to length fall into parts, one beginning at each of starts; the
\* j-th part ends at ends[j] and no other place of S is in it.
Tiles(S, length, starts, ends) ==
    /\ ends \in [0 .. Len(starts) -> 0 .. length]
    /\ ends[0] = 0 /\ ends[Len(starts)] = length
    /\ \A j \in 1 .. Len(starts) :
          /\ starts[j] \in S /\ starts[j] \in 1 .. length
          /\ starts[j] = ends[j - 1] + 1 /\ starts[j] <= ends[j]
          /\ \A p \in starts[j] + 1 .. ends[j] : p \notin S
          /\ j # Len(starts) => ends[j] + 1 \in S /\ ends[j] + 1 \in 1 .. length

\* Places among which is the first cut everything up.
LEMMA TilesExist ==
  ASSUME NEW L \in Nat, NEW S \in SUBSET (1 .. L), L # 0 => 1 \in S
  PROVE  /\ Ascends(Sorted(S), S)
         /\ \E ends : Tiles(S, L, Sorted(S), ends)
<1> DEFINE s == Sorted(S)
           J == Len(s)
           ends == [j \in 0 .. J |-> IF j = 0 THEN 0 ELSE IF j = J THEN L ELSE s[j + 1] - 1]
<1>3. S \in SUBSET Nat /\ IsFiniteSet(S)
  <2>1. IsFiniteSet(1 .. L)
    BY FS_Interval
  <2>2. IsFiniteSet(S)
    BY <2>1, FS_Subset
  <2> QED
    BY <2>2
<1>4. Ascends(s, S)
  BY <1>3, SortedAscends
<1> HIDE DEF s
<1>5. J \in Nat /\ \A j \in 1 .. J : s[j] \in S /\ s[j] \in 1 .. L
  <2>1. s \in Seq(S) /\ J \in Nat
    BY <1>4 DEF Ascends
  <2>2. \A j \in 1 .. J : s[j] \in S
    BY <2>1
  <2>3. \A i \in S : i \in 1 .. L
    OBVIOUS
  <2> QED
    BY <2>1, <2>2, <2>3, Zenon
<1>6. \A i, j \in 1 .. J : i < j => s[i] < s[j]
  BY <1>4 DEF Ascends
<1>7. \A v \in S : \E k \in 1 .. J : s[k] = v
  BY <1>4 DEF Ascends, Holds
<1>8. J = 0 => L = 0
  BY <1>7
<1>9. J # 0 => s[1] = 1
  <2> SUFFICES ASSUME J # 0
               PROVE  s[1] = 1
    OBVIOUS
  <2>1. 1 \in 1 .. J /\ s[1] \in 1 .. L /\ 1 \in S
    BY <1>5
  <2>2. PICK k \in 1 .. J : s[k] = 1
    BY <1>7, <2>1
  <2>3. ~(1 < k)
    BY <1>6, <2>1, <2>2
  <2> QED
    BY <1>5, <2>2, <2>3
<1>10. ends[0] = 0 /\ ends[J] = L
  BY <1>5, <1>8
<1>11. ASSUME NEW j \in 0 .. J
       PROVE  ends[j] \in 0 .. L
  <2>1. CASE j \in 1 .. J - 1
    <3>1. ends[j] = s[j + 1] - 1 /\ s[j + 1] \in 1 .. L
      BY <1>5, <2>1
    <3> QED
      BY <3>1
  <2>2. CASE j \notin 1 .. J - 1
    BY <1>5, <2>2
  <2> QED
    BY <2>1, <2>2
<1>12. ASSUME NEW j \in 1 .. J
       PROVE  /\ s[j] = ends[j - 1] + 1 /\ s[j] <= ends[j]
              /\ \A p \in s[j] + 1 .. ends[j] : p \notin S
              /\ j # J => ends[j] + 1 \in S /\ ends[j] + 1 \in 1 .. L
  <2>1. s[j] \in 1 .. L
    BY <1>5
  <2>2. s[j] = ends[j - 1] + 1
    <3>1. CASE j = 1
      BY <1>5, <1>9, <3>1
    <3>2. CASE j # 1
      <4>1. j - 1 \in 0 .. J /\ j - 1 # 0 /\ j - 1 # J /\ (j - 1) + 1 = j
        BY <1>5, <3>2
      <4>2. ends[j - 1] = s[j] - 1
        BY <4>1
      <4> QED
        BY <2>1, <4>2
    <3> QED
      BY <3>1, <3>2
  <2>3. j # J => ends[j] = s[j + 1] - 1 /\ s[j + 1] \in S /\ s[j + 1] \in 1 .. L /\ s[j] < s[j + 1]
    BY <1>5, <1>6
  <2>4. s[j] <= ends[j]
    BY <1>5, <2>1, <2>3
  <2>5. ends[j] \in 0 .. L
    BY <1>5, <1>11
  <2>6. j # J => ends[j] + 1 \in S /\ ends[j] + 1 \in 1 .. L
    BY <2>1, <2>3, <2>5
  <2>7. ASSUME NEW p \in s[j] + 1 .. ends[j], p \in S
        PROVE  FALSE
    <3>1. p \in 1 .. L
      OBVIOUS
    <3>2. PICK k \in 1 .. J : s[k] = p
      BY <1>7, <2>7
    <3>3. j < k
      <4>1. ~(k < j) /\ k # j
        BY <1>6, <2>1, <2>7, <3>2
      <4> QED
        BY <1>5, <4>1
    <3>4. j # J /\ j + 1 \in 1 .. J /\ (j + 1 < k \/ j + 1 = k)
      BY <1>5, <3>3
    <3>5. s[j + 1] <= p
      BY <1>6, <2>3, <3>1, <3>2, <3>4
    <3> QED
      BY <2>3, <2>5, <3>1, <3>4, <3>5
  <2> QED
    BY <2>2, <2>4, <2>6, <2>7
<1>13. ends \in [0 .. J -> 0 .. L]
  BY <1>11
<1> HIDE DEF ends
<1>14. Tiles(S, L, s, ends)
  BY <1>5, <1>10, <1>12, <1>13 DEF Tiles
<1> QED
  BY <1>4, <1>14 DEF s

-----------------------------------------------------------------------------
(* Runs of identical columns.                                              *)

\* The runs of columns begin at starts; the j-th ends at ends[j].
Runs(columns, starts, ends) ==
    /\ ends \in [0 .. Len(starts) -> 0 .. Len(columns)]
    /\ ends[0] = 0 /\ ends[Len(starts)] = Len(columns)
    /\ \A j \in 1 .. Len(starts) :
          /\ starts[j] = ends[j - 1] + 1 /\ starts[j] <= ends[j]
          /\ \A p \in starts[j] .. ends[j] : columns[p] = columns[starts[j]]
          /\ j # Len(starts) => columns[ends[j] + 1] # columns[ends[j]]

\* Every row is tiled by runs, one for each start (render.rs:81-106).
LEMMA RunsExist ==
  ASSUME NEW C, NEW columns \in Seq(C)
  PROVE  /\ Ascends(Sorted(RunStarts(columns)), RunStarts(columns))
         /\ \E ends : Runs(columns, Sorted(RunStarts(columns)), ends)
<1> DEFINE S == RunStarts(columns)
           s == Sorted(S)
           L == Len(columns)
<1>1. L \in Nat /\ DOMAIN columns = 1 .. L
  OBVIOUS
<1>2. S = {i \in 1 .. L : i = 1 \/ columns[i] # columns[i - 1]}
  BY <1>1 DEF RunStarts
<1> HIDE DEF L
<1>3. S \in SUBSET (1 .. L) /\ (L # 0 => 1 \in S)
  BY <1>1, <1>2
<1> HIDE DEF S, s
<1>4. Ascends(s, S) /\ \E ends : Tiles(S, L, s, ends)
  BY <1>1, <1>3, TilesExist DEF s
<1>5. PICK ends : Tiles(S, L, s, ends)
  BY <1>4
<1>6. Len(s) \in Nat /\ ends \in [0 .. Len(s) -> 0 .. L]
  BY <1>4, <1>5 DEF Ascends, Tiles
<1>7. ASSUME NEW j \in 1 .. Len(s)
      PROVE  /\ s[j] = ends[j - 1] + 1 /\ s[j] <= ends[j]
             /\ \A p \in s[j] .. ends[j] : columns[p] = columns[s[j]]
             /\ j # Len(s) => columns[ends[j] + 1] # columns[ends[j]]
  <2>1. s[j] \in 1 .. L /\ s[j] = ends[j - 1] + 1 /\ s[j] <= ends[j]
    BY <1>5 DEF Tiles
  <2>2. \A p \in s[j] + 1 .. ends[j] : p \notin S
    BY <1>5 DEF Tiles
  <2>3. j # Len(s) => ends[j] + 1 \in S
    BY <1>5 DEF Tiles
  <2>4. s[j] <= ends[j]
    BY <2>1
  <2>5. ends[j] \in 0 .. L
    BY <1>6
  <2>6. j # Len(s) => columns[ends[j] + 1] # columns[ends[j]]
    BY <1>2, <2>1, <2>3, <2>5
  <2>7. ASSUME NEW p \in s[j] + 1 .. ends[j]
        PROVE  columns[p] = columns[p - 1]
    <3>1. p \in 1 .. L /\ p # 1 /\ p \notin S
      BY <1>1, <2>1, <2>2, <2>5, <2>7
    <3> QED
      BY <1>2, <3>1
  <2>8. ASSUME NEW p \in s[j] .. ends[j]
        PROVE  columns[p] = columns[s[j]]
    <3> DEFINE n == ends[j] - s[j] + 1
               T == {i \in 1 .. n : columns[s[j] + (i - 1)] = columns[s[j]]}
    <3>1. n \in Nat
      BY <2>1, <2>4, <2>5
    <3>2. n >= 1 => 1 \in T
      BY <2>1, <3>1
    <3>3. ASSUME NEW i \in 1 .. n - 1, i \in T
          PROVE  i + 1 \in T
      <4>1. s[j] + i \in s[j] + 1 .. ends[j] /\ i + 1 \in 1 .. n /\ (i + 1) - 1 = i
            /\ (s[j] + i) - 1 = s[j] + (i - 1)
        <5> DEFINE a == s[j]
                   b == ends[j]
        <5>1. a \in Nat /\ b \in Nat /\ n = b - a + 1
          BY <2>1, <2>5
        <5> HIDE DEF a, b, n
        <5>2. a + i \in a + 1 .. b /\ i + 1 \in 1 .. n /\ (i + 1) - 1 = i
              /\ (a + i) - 1 = a + (i - 1)
          BY <5>1
        <5> QED
          BY <5>2 DEF a, b
      <4>2. columns[s[j] + i] = columns[(s[j] + i) - 1]
        BY <2>7, <4>1
      <4>3. columns[s[j] + (i - 1)] = columns[s[j]]
        BY <3>3
      <4>4. columns[s[j] + ((i + 1) - 1)] = columns[s[j]]
        BY <4>1, <4>2, <4>3
      <4> HIDE DEF n
      <4> QED
        BY <4>1, <4>4
    <3>4. 1 .. n \subseteq T
      <4> HIDE DEF T, n
      <4> QED
        BY <3>1, <3>2, <3>3, NumbersUpTo
    <3>5. p - s[j] + 1 \in 1 .. n /\ s[j] + ((p - s[j] + 1) - 1) = p
      <4> DEFINE a == s[j]
                 b == ends[j]
      <4>1. a \in Nat /\ b \in Nat /\ n = b - a + 1 /\ p \in a .. b
        BY <2>1, <2>5
      <4> HIDE DEF a, b, n
      <4>2. p - a + 1 \in 1 .. n /\ a + ((p - a + 1) - 1) = p
        BY <4>1
      <4> QED
        BY <4>2 DEF a
    <3>6. p - s[j] + 1 \in T
      <4> HIDE DEF T, n
      <4> QED
        BY <3>4, <3>5
    <3> QED
      BY <3>5, <3>6
  <2> QED
    BY <2>1, <2>6, <2>8
<1>8. Runs(columns, s, ends)
  BY <1>5, <1>6, <1>7 DEF Runs, Tiles, L
<1> QED
  BY <1>4, <1>8 DEF s, S

-----------------------------------------------------------------------------
(* Compression and the host's layout.                                      *)

\* The maximum is the member that none exceeds.
LEMMA MaxIs ==
  ASSUME NEW S \in SUBSET Nat, NEW m \in S, \A y \in S : m >= y
  PROVE  Max(S) = m
<1>1. \A x \in S : (\A y \in S : x >= y) => x = m
  <2> SUFFICES ASSUME NEW x \in S, \A y \in S : x >= y
               PROVE  x = m
    OBVIOUS
  <2>1. x \in Nat /\ m \in Nat /\ x >= m /\ m >= x
    OBVIOUS
  <2> QED
    BY <2>1
<1> QED
  BY <1>1 DEF Max

\* The length of a run is found by looking at the columns after its start.
LEMMA RunLengthIs ==
  ASSUME NEW C, NEW columns \in Seq(C), NEW starts, Len(starts) \in Nat, NEW ends,
         Runs(columns, starts, ends), NEW j \in 1 .. Len(starts)
  PROVE  RunLength(columns, starts[j]) = ends[j] - ends[j - 1]
<1> DEFINE i == starts[j]
           m == ends[j] - ends[j - 1]
           L == Len(columns)
           S == {n \in 1 .. L - i + 1 : \A k \in 0 .. n - 1 : columns[i + k] = columns[i]}
<1>1. L \in Nat
  OBVIOUS
<1>2. j \in 0 .. Len(starts) /\ j - 1 \in 0 .. Len(starts)
  OBVIOUS
<1>3. ends[j] \in 0 .. L /\ ends[j - 1] \in 0 .. L
  BY <1>2 DEF Runs
<1>12. i = ends[j - 1] + 1 /\ i <= ends[j]
  BY DEF Runs
<1>4. /\ \A p \in i .. ends[j] : columns[p] = columns[i]
      /\ j # Len(starts) => columns[ends[j] + 1] # columns[ends[j]]
      /\ ends[Len(starts)] = L
  BY DEF Runs
<1> HIDE DEF L, i
<1>13. ends[j] \in Nat /\ ends[j - 1] \in Nat /\ i \in Nat /\ m \in Nat /\ i + m = ends[j] + 1
  <2>1. ends[j] \in Nat /\ ends[j - 1] \in Nat
    BY <1>1, <1>3
  <2>2. i \in Nat
    BY <1>12, <2>1
  <2>3. m \in Nat /\ i + m = ends[j] + 1
    <3> DEFINE a == ends[j - 1]
               b == ends[j]
    <3>1. a \in Nat /\ b \in Nat /\ i = a + 1 /\ i <= b /\ m = b - a
      BY <1>12, <2>1
    <3> HIDE DEF a, b, m
    <3>2. m \in Nat /\ i + m = b + 1
      BY <3>1
    <3> QED
      BY <3>2 DEF b
  <2> QED
    BY <2>1, <2>2, <2>3
<1>5. m \in 1 .. L - i + 1
  <2> DEFINE a == ends[j - 1]
             b == ends[j]
  <2>1. a \in Nat /\ b \in Nat /\ b <= L /\ i = a + 1 /\ i <= b /\ m = b - a
    BY <1>1, <1>3, <1>12
  <2> HIDE DEF a, b, m
  <2> QED
    BY <1>1, <2>1
<1>6. m \in S
  <2>1. ASSUME NEW k \in 0 .. m - 1
        PROVE  columns[i + k] = columns[i]
    <3>1. k \in Nat /\ k < m
      BY <1>13
    <3>2. i + k \in i .. ends[j]
      BY <1>13, <3>1
    <3> QED
      BY <1>4, <3>2
  <2> QED
    BY <1>5, <2>1
<1>7. ASSUME NEW n \in S
      PROVE  m >= n
  <2> SUFFICES ASSUME n > m
               PROVE  FALSE
    BY <1>5
  <2>1. n \in 1 .. L - i + 1 /\ \A k \in 0 .. n - 1 : columns[i + k] = columns[i]
    OBVIOUS
  <2>2. m \in 0 .. n - 1 /\ i + m = ends[j] + 1
    BY <1>1, <1>13, <2>1
  <2>3. columns[ends[j] + 1] = columns[i]
    BY <2>1, <2>2
  <2>4. ends[j] # L
    BY <1>1, <1>13, <2>1
  <2>5. columns[ends[j]] = columns[i]
    <3>1. ends[j] \in i .. ends[j]
      BY <1>13, <1>12
    <3> QED
      BY <1>4, <3>1
  <2> QED
    BY <1>4, <2>3, <2>4, <2>5
<1>8. S \in SUBSET Nat
  BY <1>1
<1>9. RunLength(columns, i) = Max(S)
  BY DEF RunLength, L
<1>10. Max(S) = m
  <2> HIDE DEF S, m
  <2> QED
    BY <1>6, <1>7, <1>8, MaxIs
<1> QED
  BY <1>9, <1>10 DEF i

\* What the j-th cell says: its text, how many columns, and its highlight, unless
\* that is the one of the cell before.
CellOf(cell, columns, starts, ends, j) ==
    LET id(k) == columns[starts[k]][2]
        n     == ends[j] - ends[j - 1]
    IN /\ cell.text = columns[starts[j]][1]
       /\ Span(cell) = n
       /\ \/ n > 1 /\ cell = RunCell(cell.text, id(j), n)
          \/ n = 1 /\ j > 1 /\ id(j) = id(j - 1) /\ cell = InheritCell(cell.text)
          \/ n = 1 /\ (j > 1 => id(j) # id(j - 1)) /\ cell = NewCell(cell.text, id(j))

\* The cell of a run repeats only what is equal and inherits only what is the same.
LEMMA CompressedCell ==
  ASSUME NEW C, NEW columns \in Seq(C), NEW starts, Len(starts) \in Nat, NEW ends,
         Runs(columns, starts, ends), NEW j \in 1 .. Len(starts)
  PROVE  CellOf(CompressRun(columns, starts[j]), columns, starts, ends, j)
<1> DEFINE i == starts[j]
           n == ends[j] - ends[j - 1]
           cell == CompressRun(columns, i)
<1>1. RunLength(columns, i) = n
  BY RunLengthIs
<1>2. j \in 0 .. Len(starts) /\ j - 1 \in 0 .. Len(starts)
  OBVIOUS
<1>3. ends[j] \in Nat /\ ends[j - 1] \in Nat /\ i = ends[j - 1] + 1 /\ i <= ends[j]
  <2>1. ends[j] \in 0 .. Len(columns) /\ ends[j - 1] \in 0 .. Len(columns)
    BY <1>2 DEF Runs
  <2> QED
    BY <2>1 DEF Runs
<1>4. n \in Nat /\ n >= 1 /\ i \in Nat
  <2> DEFINE a == ends[j - 1]
             b == ends[j]
  <2>1. a \in Nat /\ b \in Nat /\ i = a + 1 /\ i <= b /\ n = b - a
    BY <1>3
  <2> HIDE DEF a, b, n, i
  <2> QED
    BY <2>1
<1>5. i > 1 <=> j > 1
  <2>1. CASE j = 1
    <3>1. ends[j - 1] = 0
      BY <2>1 DEF Runs
    <3> QED
      BY <1>3, <2>1, <3>1
  <2>2. CASE j # 1
    <3>1. j - 1 \in 1 .. Len(starts) /\ (j - 1) - 1 \in 0 .. Len(starts)
      BY <2>2
    <3>2. starts[j - 1] = ends[(j - 1) - 1] + 1 /\ starts[j - 1] <= ends[j - 1]
      BY <3>1 DEF Runs
    <3>3. ends[(j - 1) - 1] \in 0 .. Len(columns)
      BY <3>1 DEF Runs
    <3> QED
      BY <1>3, <2>2, <3>2, <3>3
  <2> QED
    BY <2>1, <2>2
<1>6. j > 1 => columns[i - 1] = columns[starts[j - 1]]
  <2> SUFFICES ASSUME j > 1
               PROVE  columns[i - 1] = columns[starts[j - 1]]
    OBVIOUS
  <2>1. j - 1 \in 1 .. Len(starts)
    OBVIOUS
  <2>2. /\ starts[j - 1] <= ends[j - 1]
        /\ \A p \in starts[j - 1] .. ends[j - 1] : columns[p] = columns[starts[j - 1]]
        /\ starts[j - 1] = ends[(j - 1) - 1] + 1
    BY <2>1 DEF Runs
  <2>3. (j - 1) - 1 \in 0 .. Len(starts)
    BY <2>1
  <2>4. ends[(j - 1) - 1] \in 0 .. Len(columns)
    BY <2>3 DEF Runs
  <2>5. i - 1 \in starts[j - 1] .. ends[j - 1]
    BY <1>3, <2>2, <2>4
  <2> QED
    BY <2>2, <2>5
<1>7. Inherits(columns, i) <=> j > 1 /\ columns[starts[j - 1]][2] = columns[i][2]
  BY <1>5, <1>6 DEF Inherits
<1>8. cell = IF n > 1 THEN RunCell(columns[i][1], columns[i][2], n)
             ELSE IF Inherits(columns, i) THEN InheritCell(columns[i][1])
                                          ELSE NewCell(columns[i][1], columns[i][2])
  BY <1>1 DEF CompressRun
<1> HIDE DEF n, i, cell
<1>9. \/ n > 1 /\ cell = RunCell(columns[i][1], columns[i][2], n)
      \/ n = 1 /\ Inherits(columns, i) /\ cell = InheritCell(columns[i][1])
      \/ n = 1 /\ ~Inherits(columns, i) /\ cell = NewCell(columns[i][1], columns[i][2])
  <2>1. CASE n > 1
    <3>1. cell = RunCell(columns[i][1], columns[i][2], n)
      BY <1>8, <2>1
    <3> QED
      BY <2>1, <3>1
  <2>2. CASE ~(n > 1) /\ Inherits(columns, i)
    <3>1. cell = InheritCell(columns[i][1])
      BY <1>8, <2>2
    <3> QED
      BY <1>4, <2>2, <3>1
  <2>3. CASE ~(n > 1) /\ ~Inherits(columns, i)
    <3>1. cell = NewCell(columns[i][1], columns[i][2])
      BY <1>8, <2>3
    <3> QED
      BY <1>4, <2>3, <3>1
  <2> QED
    BY <2>1, <2>2, <2>3
<1>10. cell.text = columns[i][1] /\ Span(cell) = n
  BY <1>4, <1>9 DEF RunCell, InheritCell, NewCell, Span
<1>11. \/ n > 1 /\ cell = RunCell(cell.text, columns[i][2], n)
       \/ /\ n = 1 /\ j > 1 /\ columns[i][2] = columns[starts[j - 1]][2]
          /\ cell = InheritCell(cell.text)
       \/ /\ n = 1 /\ (j > 1 => columns[i][2] # columns[starts[j - 1]][2])
          /\ cell = NewCell(cell.text, columns[i][2])
  BY <1>7, <1>9, <1>10
<1> QED
  BY <1>10, <1>11 DEF CellOf, cell, i, n

\* The cells of a whole row.
Compressed(cells, columns, starts, ends) ==
    /\ Len(cells) = Len(starts) /\ DOMAIN cells = 1 .. Len(starts)
    /\ \A j \in 1 .. Len(starts) : CellOf(cells[j], columns, starts, ends, j)

\* A host that reads on from the nearest highlight finds each cell's own.
HlsFound(cells, columns, starts) ==
    \A j \in 1 .. Len(starts) : HlOf(cells, j) = columns[starts[j]][2]

\* The highlight the host finds for a cell is that of the run's first column.
LEMMA HlOfIs ==
  ASSUME NEW cells, NEW columns, NEW starts, Len(starts) \in Nat, NEW ends,
         Compressed(cells, columns, starts, ends)
  PROVE  HlsFound(cells, columns, starts)
<1> DEFINE id(k) == columns[starts[k]][2]
           given(k) == {i \in 1 .. k : cells[i].hl # <<>>}
           T == {k \in 1 .. Len(starts) : given(k) # {} /\ HlOf(cells, k) = id(k)}
<1>1. ASSUME NEW k \in 1 .. Len(starts)
      PROVE  \/ cells[k].hl # <<>> /\ cells[k].hl[1] = id(k)
             \/ cells[k].hl = <<>> /\ k > 1 /\ id(k) = id(k - 1)
  BY DEF Compressed, CellOf, RunCell, InheritCell, NewCell
<1>2. \A k \in 1 .. Len(starts) :
         HlOf(cells, k) = IF given(k) = {} THEN 0 ELSE cells[Max(given(k))].hl[1]
  BY DEF HlOf
<1>3. ASSUME NEW k \in 1 .. Len(starts), cells[k].hl # <<>>
      PROVE  k \in T
  <2>1. given(k) \in SUBSET Nat /\ k \in given(k) /\ \A y \in given(k) : k >= y
    BY <1>3
  <2> HIDE DEF given
  <2>2. Max(given(k)) = k
    BY <2>1, MaxIs
  <2>3. HlOf(cells, k) = cells[k].hl[1]
    BY <1>2, <2>1, <2>2
  <2> QED
    BY <1>1, <1>3, <2>1, <2>3
<1>4. Len(starts) >= 1 => 1 \in T
  <2> SUFFICES ASSUME Len(starts) >= 1
               PROVE  1 \in T
    OBVIOUS
  <2>1. 1 \in 1 .. Len(starts) /\ ~(1 > 1)
    OBVIOUS
  <2> QED
    BY <1>1, <1>3, <2>1
<1>5. ASSUME NEW k \in 1 .. Len(starts) - 1, k \in T
      PROVE  k + 1 \in T
  <2>1. k + 1 \in 1 .. Len(starts) /\ (k + 1) - 1 = k /\ k \in 1 .. Len(starts)
    OBVIOUS
  <2>2. CASE cells[k + 1].hl # <<>>
    BY <1>3, <2>1, <2>2
  <2>3. CASE cells[k + 1].hl = <<>>
    <3>1. given(k + 1) = given(k)
      BY <2>1, <2>3
    <3>2. id(k + 1) = id(k)
      BY <1>1, <2>1, <2>3
    <3>3. given(k) # {} /\ HlOf(cells, k) = id(k)
      BY <1>5
    <3> HIDE DEF given, id
    <3>4. HlOf(cells, k + 1) = HlOf(cells, k)
      BY <1>2, <2>1, <3>1
    <3> QED
      BY <2>1, <3>1, <3>2, <3>3, <3>4
  <2> QED
    BY <2>2, <2>3
<1>6. 1 .. Len(starts) \subseteq T
  <2> HIDE DEF T
  <2> QED
    BY <1>4, <1>5, NumbersUpTo
<1> QED
  BY <1>6 DEF HlsFound

\* What compress returns: one cell for each run, the runs tiling the row.
LEMMA CompressIs ==
  ASSUME NEW C, NEW columns \in Seq(C)
  PROVE  \E starts, ends :
            /\ Len(starts) \in Nat /\ starts \in Seq(Nat)
            /\ Runs(columns, starts, ends)
            /\ Compressed(Compress(columns), columns, starts, ends)
<1> DEFINE starts == Sorted(RunStarts(columns))
<1>1. Ascends(starts, RunStarts(columns))
  BY RunsExist
<1>2. PICK ends : Runs(columns, starts, ends)
  BY RunsExist
<1>3. Compress(columns) = [j \in DOMAIN starts |-> CompressRun(columns, starts[j])]
  BY DEF Compress
<1> HIDE DEF starts
<1>4. starts \in Seq(Nat) /\ Len(starts) \in Nat /\ DOMAIN starts = 1 .. Len(starts)
  <2>1. starts \in Seq(RunStarts(columns))
    BY <1>1 DEF Ascends
  <2>2. RunStarts(columns) \subseteq Nat
    BY DEF RunStarts
  <2>3. starts \in Seq(Nat)
    BY <2>1, <2>2, SeqMonotonic
  <2> QED
    BY <2>3
<1>5. ASSUME NEW j \in 1 .. Len(starts)
      PROVE  CellOf(CompressRun(columns, starts[j]), columns, starts, ends, j)
  BY <1>2, <1>4, CompressedCell
<1>6. Compressed(Compress(columns), columns, starts, ends)
  <2>1. DOMAIN Compress(columns) = 1 .. Len(starts)
    BY <1>3, <1>4
  <2>2. Len(Compress(columns)) = Len(starts)
    BY <1>3, <1>4
  <2>3. \A j \in 1 .. Len(starts) : Compress(columns)[j] = CompressRun(columns, starts[j])
    BY <1>3, <1>4
  <2> QED
    BY <1>5, <2>1, <2>2, <2>3 DEF Compressed
<1> QED
  BY <1>2, <1>4, <1>6

\* The host, by counting cells alone, lays out exactly the columns that compress
\* was given, whatever the runs, the inherited highlights and the length of the
\* row (render.rs:81-106, PROTOCOL.md "CJK-safety rule").
THEOREM PlaceUndoesCompress ==
  ASSUME NEW Texts, NEW Marks, NEW columns \in Seq(Texts \X Marks)
  PROVE  Place(Compress(columns)) = columns
<1> DEFINE cells == Compress(columns)
           parts == [j \in DOMAIN cells |->
                        [c \in 1 .. Span(cells[j]) |-> <<cells[j].text, HlOf(cells, j)>>]]
<1>1. PICK starts, ends :
         /\ Len(starts) \in Nat /\ starts \in Seq(Nat)
         /\ Runs(columns, starts, ends)
         /\ Compressed(cells, columns, starts, ends)
  BY CompressIs
<1>2. Place(cells) = FlattenSeq(parts)
  BY DEF Place
<1> HIDE DEF cells
<1>3. DOMAIN cells = 1 .. Len(starts)
  BY <1>1 DEF Compressed
<1>4. ends[0] = 0 /\ ends[Len(starts)] = Len(columns) /\ ends \in [0 .. Len(starts) -> 0 .. Len(columns)]
  BY <1>1 DEF Runs
<1>5. ASSUME NEW j \in 1 .. Len(starts)
      PROVE  /\ parts[j] \in Seq(Texts \X Marks)
             /\ Len(parts[j]) = ends[j] - ends[j - 1]
             /\ \A c \in 1 .. Len(parts[j]) : parts[j][c] = columns[ends[j - 1] + c]
  <2> DEFINE n == ends[j] - ends[j - 1]
             column == columns[starts[j]]
  <2>1. /\ starts[j] = ends[j - 1] + 1 /\ starts[j] <= ends[j]
        /\ \A p \in starts[j] .. ends[j] : columns[p] = column
    BY <1>1 DEF Runs
  <2>2. ends[j] \in 0 .. Len(columns) /\ ends[j - 1] \in 0 .. Len(columns)
    <3>1. j \in 0 .. Len(starts) /\ j - 1 \in 0 .. Len(starts)
      BY <1>1
    <3> QED
      BY <1>4, <3>1
  <2>3. n \in Nat /\ starts[j] \in 1 .. Len(columns)
    BY <2>1, <2>2
  <2>4. column \in Texts \X Marks
    BY <2>3
  <2>5. cells[j].text = column[1] /\ Span(cells[j]) = n
    BY <1>1 DEF Compressed, CellOf
  <2>6. HlOf(cells, j) = column[2]
    <3>1. HlOf(cells, j) = columns[starts[j]][2]
      <4>1. HlsFound(cells, columns, starts)
        BY <1>1, HlOfIs
      <4> QED
        BY <4>1 DEF HlsFound
    <3> QED
      BY <3>1
  <2>7. <<cells[j].text, HlOf(cells, j)>> = column
    BY <2>4, <2>5, <2>6
  <2>8. parts[j] = [c \in 1 .. n |-> column]
    BY <1>3, <2>5, <2>7
  <2> HIDE DEF parts, column, n
  <2>9. parts[j] \in Seq(Texts \X Marks) /\ Len(parts[j]) = n
    BY <2>3, <2>4, <2>8
  <2>10. ASSUME NEW c \in 1 .. n
         PROVE  parts[j][c] = columns[ends[j - 1] + c]
    <3>1. ends[j - 1] + c \in starts[j] .. ends[j]
      <4> DEFINE a == ends[j - 1]
                 b == ends[j]
      <4>1. a \in Nat /\ b \in Nat /\ starts[j] = a + 1 /\ n = b - a
        BY <2>1, <2>2 DEF n
      <4> HIDE DEF a, b
      <4>2. a + c \in a + 1 .. b
        BY <4>1
      <4> QED
        BY <4>1, <4>2 DEF a, b
    <3> QED
      BY <2>1, <2>8, <3>1
  <2> QED
    BY <2>9, <2>10 DEF n
<1>6. DOMAIN parts = 1 .. Len(starts)
  BY <1>3
<1> HIDE DEF parts
<1>7. parts \in Seq(Seq(Texts \X Marks)) /\ Len(parts) = Len(starts)
  <2>1. parts = [j \in 1 .. Len(starts) |-> parts[j]]
    BY <1>3 DEF parts
  <2>2. parts \in [1 .. Len(starts) -> Seq(Texts \X Marks)]
    BY <1>5, <2>1
  <2> QED
    BY <1>1, <2>2, FunctionIsSeq
<1>8. Cut(parts, columns, ends)
  BY <1>4, <1>5, <1>7 DEF Cut
<1>9. FlattenSeq(parts) = columns
  BY <1>7, <1>8, FlattenCut
<1> QED
  BY <1>2, <1>9 DEF cells

\* Every cell comes off the wire as it was put there, although the array it is
\* sent as leaves out what is absent (protocol.rs:67-129).
THEOREM DeserializeUndoesSerialize ==
  ASSUME NEW C, NEW columns \in Seq(C), NEW j \in DOMAIN Compress(columns)
  PROVE  Deserialize(Serialize(Compress(columns)[j])) = Compress(columns)[j]
<1> DEFINE cell == Compress(columns)[j]
<1>1. PICK starts, ends :
         /\ Len(starts) \in Nat /\ starts \in Seq(Nat)
         /\ Runs(columns, starts, ends)
         /\ Compressed(Compress(columns), columns, starts, ends)
  BY CompressIs
<1>2. j \in 1 .. Len(starts) /\ CellOf(cell, columns, starts, ends, j)
  BY <1>1 DEF Compressed
<1> HIDE DEF cell
<1>3. PICK id, n : \/ cell = RunCell(cell.text, id, n)
                   \/ cell = InheritCell(cell.text)
                   \/ cell = NewCell(cell.text, id)
  BY <1>2 DEF CellOf
<1>4. CASE cell = RunCell(cell.text, id, n)
  <2>1. cell.rep # <<>> /\ cell.hl = <<id>> /\ cell.rep = <<n>>
    <3>1. \A t : RunCell(t, id, n).hl = <<id>> /\ RunCell(t, id, n).rep = <<n>>
      BY DEF RunCell
    <3>2. PICK t : cell = RunCell(t, id, n)
      BY <1>4
    <3>3. cell.hl = <<id>> /\ cell.rep = <<n>>
      BY <3>1, <3>2
    <3> QED
      BY <3>3
  <2>2. Serialize(cell) = <<<<cell.text>>, cell.hl, cell.rep>>
    BY <2>1 DEF Serialize
  <2>3. Deserialize(Serialize(cell)) = [text |-> cell.text, hl |-> cell.hl, rep |-> cell.rep]
    BY <2>2 DEF Deserialize
  <2> QED
    BY <1>4, <2>1, <2>3 DEF RunCell, cell
<1>5. CASE cell = InheritCell(cell.text)
  <2>1. cell.hl = <<>> /\ cell.rep = <<>>
    BY <1>5 DEF InheritCell
  <2>2. Serialize(cell) = <<<<cell.text>>>>
    BY <2>1 DEF Serialize
  <2>3. Deserialize(Serialize(cell)) = [text |-> cell.text, hl |-> <<>>, rep |-> <<>>]
    BY <2>2 DEF Deserialize
  <2> QED
    BY <1>5, <2>3 DEF InheritCell, cell
<1>6. CASE cell = NewCell(cell.text, id)
  <2>1. cell.hl # <<>> /\ cell.hl = <<id>> /\ cell.rep = <<>>
    <3>1. \A t : NewCell(t, id).hl = <<id>> /\ NewCell(t, id).rep = <<>>
      BY DEF NewCell
    <3>2. PICK t : cell = NewCell(t, id)
      BY <1>6
    <3>3. cell.hl = <<id>> /\ cell.rep = <<>>
      BY <3>1, <3>2
    <3> QED
      BY <3>3
  <2>2. Serialize(cell) = <<<<cell.text>>, cell.hl>>
    BY <2>1 DEF Serialize
  <2>3. Deserialize(Serialize(cell)) = [text |-> cell.text, hl |-> cell.hl, rep |-> <<>>]
    BY <2>2 DEF Deserialize
  <2> QED
    BY <1>6, <2>1, <2>3 DEF NewCell, cell
<1> QED
  BY <1>3, <1>4, <1>5, <1>6

-----------------------------------------------------------------------------
(* No shorter row.                                                         *)

\* All its elements are the same.
Uniform(s) == \A c, d \in 1 .. Len(s) : s[c] = s[d]

\* What is all the same starts one run at most.
LEMMA UniformStarts ==
  ASSUME NEW S, NEW s \in Seq(S), NEW t \in Seq(S), Uniform(t)
  PROVE  RunStarts(s \o t) \subseteq RunStarts(s) \cup {Len(s) + 1}
<1> DEFINE u == s \o t
           n == Len(s)
<1>1. n \in Nat /\ Len(t) \in Nat /\ DOMAIN s = 1 .. n
  OBVIOUS
<1>2. Joins(u, s, t) /\ DOMAIN u = 1 .. n + Len(t)
  BY ConcatJoins
<1> SUFFICES ASSUME NEW i \in RunStarts(u), i # n + 1
             PROVE  i \in RunStarts(s)
  OBVIOUS
<1> HIDE DEF u
<1>3. i \in 1 .. n + Len(t) /\ (i = 1 \/ u[i] # u[i - 1])
  BY <1>2 DEF RunStarts
<1>4. \A c \in 1 .. Len(s) : u[c] = s[c]
  BY <1>2 DEF Joins
<1>5. \A c \in 1 .. Len(t) : u[n + c] = t[c]
  BY <1>2 DEF Joins
<1> HIDE DEF n
<1>6. CASE i <= n
  <2>1. i \in 1 .. n /\ (i # 1 => i - 1 \in 1 .. n)
    BY <1>1, <1>3, <1>6
  <2>2. u[i] = s[i] /\ (i # 1 => u[i - 1] = s[i - 1])
    BY <1>4, <2>1 DEF n
  <2> QED
    BY <1>1, <1>3, <2>1, <2>2 DEF RunStarts
<1>7. CASE i > n
  <2> DEFINE c == i - n
  <2>1. c \in 1 .. Len(t) /\ c - 1 \in 1 .. Len(t) /\ n + c = i /\ n + (c - 1) = i - 1 /\ i # 1
    BY <1>1, <1>3, <1>7
  <2> HIDE DEF c
  <2>2. u[i] = t[c] /\ u[i - 1] = t[c - 1]
    BY <1>5, <2>1
  <2>3. t[c] = t[c - 1]
    BY <2>1 DEF Uniform
  <2> QED
    BY <1>3, <2>1, <2>2, <2>3
<1> QED
  BY <1>1, <1>3, <1>6, <1>7

\* A sequence of k uniform parts has no more than k runs.
LEMMA UniformParts ==
  ASSUME NEW S, NEW parts \in Seq(Seq(S)), \A j \in 1 .. Len(parts) : Uniform(parts[j])
  PROVE  LET runs == RunStarts(FlattenSeq(parts))
         IN IsFiniteSet(runs) /\ Cardinality(runs) <= Len(parts)
<1> DEFINE Few(s, n) == IsFiniteSet(RunStarts(s)) /\ Cardinality(RunStarts(s)) <= n
<1>1. ASSUME NEW s \in Seq(S), NEW t \in Seq(S), NEW n \in Nat, Few(s, n), Uniform(t)
      PROVE  Few(s \o t, n + 1)
  <2> DEFINE A == RunStarts(s)
             B == RunStarts(s) \cup {Len(s) + 1}
  <2>1. IsFiniteSet(B) /\ Cardinality(B) <= n + 1
    <3>1. IsFiniteSet(A) /\ Cardinality(A) <= n /\ Cardinality(A) \in Nat
      BY <1>1, FS_CardinalityType
    <3>2. IsFiniteSet(B) /\ (Cardinality(B) = Cardinality(A) \/ Cardinality(B) = Cardinality(A) + 1)
      BY <3>1, FS_AddElement
    <3> HIDE DEF A, B
    <3> QED
      BY <3>1, <3>2
  <2>2. RunStarts(s \o t) \subseteq B
    BY <1>1, UniformStarts
  <2> HIDE DEF B
  <2>3. /\ IsFiniteSet(RunStarts(s \o t))
        /\ Cardinality(RunStarts(s \o t)) <= Cardinality(B)
    BY <2>1, <2>2, FS_Subset
  <2>4. Cardinality(B) \in Nat /\ Cardinality(RunStarts(s \o t)) \in Nat
    BY <2>1, <2>3, FS_CardinalityType
  <2> QED
    BY <2>1, <2>3, <2>4
<1>2. Few(<<>>, 0)
  <2>1. RunStarts(<<>>) = {}
    BY DEF RunStarts
  <2>2. IsFiniteSet(RunStarts(<<>>)) /\ Cardinality(RunStarts(<<>>)) = 0
    BY <2>1, FS_EmptySet
  <2> QED
    BY <2>2
<1> HIDE DEF Few
<1>3. CASE Len(parts) = 0
  <2>1. FlattenSeq(parts) = <<>>
    BY <1>3 DEF FlattenSeq
  <2>2. Few(FlattenSeq(parts), Len(parts))
    BY <1>2, <1>3, <2>1
  <2> QED
    BY <2>2 DEF Few
<1>4. CASE Len(parts) # 0
  <2>1. PICK f : Flattens(f, parts, S) /\ FlattenSeq(parts) = f[Len(parts)]
    BY <1>4, FlattenSteps
  <2> DEFINE U == {n \in 1 .. Len(parts) : Few(f[n], n)}
  <2>2. /\ Len(parts) \in Nat /\ 1 \in 1 .. Len(parts) /\ Len(parts) \in 1 .. Len(parts)
        /\ f[1] = parts[1]
        /\ \A n \in 1 .. Len(parts) : f[n] \in Seq(S) /\ parts[n] \in Seq(S)
    BY <1>4, <2>1, FlattensFirst
  <2>3. 1 \in U
    <3>1. <<>> \in Seq(S) /\ <<>> \o parts[1] = parts[1] /\ 0 + 1 = 1
      BY <2>2
    <3>2. Few(<<>> \o parts[1], 0 + 1)
      BY <1>1, <1>2, <2>2, <3>1
    <3> QED
      BY <2>2, <3>1, <3>2
  <2>4. ASSUME NEW n \in 1 .. Len(parts) - 1, n \in U
        PROVE  n + 1 \in U
    <3>1. n \in Nat /\ n + 1 \in 1 .. Len(parts)
      BY <2>2
    <3>2. Extends(f, parts, n, S)
      BY <2>1, FlattensNext
    <3>3. Few(f[n] \o parts[n + 1], n + 1)
      BY <1>1, <2>4, <3>1, <3>2 DEF Extends
    <3> QED
      BY <3>1, <3>2, <3>3 DEF Extends
  <2>5. 1 .. Len(parts) \subseteq U
    <3> HIDE DEF U
    <3> QED
      BY <2>2, <2>3, <2>4, NumbersUpTo
  <2>6. Few(FlattenSeq(parts), Len(parts))
    BY <2>1, <2>2, <2>5
  <2> QED
    BY <2>6 DEF Few
<1> QED
  BY <1>3, <1>4

\* Compress makes one cell for each run.
LEMMA CompressLength ==
  ASSUME NEW C, NEW columns \in Seq(C)
  PROVE  Len(Compress(columns)) = Cardinality(RunStarts(columns))
<1> DEFINE starts == Sorted(RunStarts(columns))
<1>1. Ascends(starts, RunStarts(columns))
  BY RunsExist
<1>2. Compress(columns) = [j \in DOMAIN starts |-> CompressRun(columns, starts[j])]
  BY DEF Compress
<1> HIDE DEF starts
<1>3. Len(starts) = Cardinality(RunStarts(columns)) /\ Len(starts) \in Nat
      /\ DOMAIN starts = 1 .. Len(starts)
  BY <1>1 DEF Ascends
<1> QED
  BY <1>2, <1>3

\* No row is shorter than compress makes it: whatever wire cells a host would lay
\* out as these columns, there are as many of them at least (render.rs:81-106).
THEOREM NoneShorter ==
  ASSUME NEW C, NEW cells \in Seq(C), \A j \in 1 .. Len(cells) : Span(cells[j]) \in Nat
  PROVE  Len(Compress(Place(cells))) <= Len(cells)
<1> DEFINE L == Len(cells)
           column(j) == <<cells[j].text, HlOf(cells, j)>>
           S == {column(j) : j \in 1 .. L}
           parts == [j \in DOMAIN cells |-> [c \in 1 .. Span(cells[j]) |-> column(j)]]
<1>1. L \in Nat /\ DOMAIN cells = 1 .. L
  OBVIOUS
<1>2. Place(cells) = FlattenSeq(parts)
  BY DEF Place
<1>3. ASSUME NEW j \in 1 .. L
      PROVE  parts[j] \in Seq(S) /\ Uniform(parts[j])
  <2> DEFINE n == Span(cells[j])
             v == column(j)
  <2>1. n \in Nat /\ v \in S /\ parts[j] = [c \in 1 .. n |-> v]
    BY <1>1
  <2> HIDE DEF n, v, S, parts
  <2>2. parts[j] \in [1 .. n -> S]
    BY <2>1
  <2>3. parts[j] \in Seq(S) /\ Len(parts[j]) = n
    BY <2>1, <2>2, FunctionIsSeq
  <2>4. Uniform(parts[j])
    BY <2>1, <2>3 DEF Uniform
  <2> QED
    BY <2>3, <2>4
<1>4. parts = [j \in 1 .. L |-> parts[j]]
  BY <1>1
<1> HIDE DEF L, S, parts
<1>5. parts \in [1 .. L -> Seq(S)]
  BY <1>3, <1>4
<1>6. parts \in Seq(Seq(S)) /\ Len(parts) = L
  BY <1>1, <1>5, FunctionIsSeq
<1>7. Cardinality(RunStarts(FlattenSeq(parts))) <= L
  BY <1>3, <1>6, UniformParts
<1>8. FlattenSeq(parts) \in Seq(S)
  BY <1>6, FlattenType
<1>9. Len(Compress(FlattenSeq(parts))) = Cardinality(RunStarts(FlattenSeq(parts)))
  BY <1>8, CompressLength
<1> QED
  BY <1>2, <1>7, <1>9 DEF L

=============================================================================
