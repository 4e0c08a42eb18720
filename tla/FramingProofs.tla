---------------------------- MODULE FramingProofs ----------------------------
(***************************************************************************)
(* Proofs about Framing, for every size of the ring buffer, every stream   *)
(* of frames, damaged frames and stray bytes, and every way it is cut into *)
(* reads.                                                                  *)
(*                                                                         *)
(* What the ring buffer holds and what has not been read yet is one line   *)
(* of bytes.  It is the stream with pieces taken out of it: by a parser    *)
(* from its front, by append at the front or, where a read is refused, in  *)
(* the middle.  The inductive invariant IInv says of that line what such a *)
(* cut leaves true, and of each frame that is neither given nor lost that  *)
(* the line has it whole and, in the formats of lines, at the beginning of *)
(* a line; or, if its message is refused, that nothing of it is left.      *)
(***************************************************************************)
EXTENDS Framing, SequenceTheorems, FiniteSetTheorems, WellFoundedInduction, TLAPS

Byte == [v : Nat, of : Nat \X Nat]

Framed(c) == c.of[1] # 0

Later(p, q) == p[1] < q[1] \/ (p[1] = q[1] /\ p[2] < q[2])

InOrder(line) ==
    \A i, j \in 1..Len(line) :
        i < j /\ Framed(line[i]) /\ Framed(line[j]) => Later(line[i].of, line[j].of)

\* Two bytes that are neighbours in their frame are so in the line.
NoGaps(line) ==
    \A i, j \in 1..Len(line) :
        Framed(line[i]) /\ line[j].of = <<line[i].of[1], line[i].of[2] + 1>> =>
            j = i + 1

\* The value of a byte is the one of its place in the frame.
Genuine(c) ==
    LET n == frames[c.of[1]]
        k == c.of[2]
    IN  /\ k \in 1..n
        /\ format = "ubx" => /\ k = 1 => c.v = Start
                             /\ k = 2 => c.v = Second
                             /\ k = 3 => c.v = n - UbxSize
        /\ format = "rtcm" => /\ k = 1 => c.v = Start
                              /\ k = 2 => c.v = n - RtcmSize
        /\ format = "nmea" => (c.v = Start <=> k = 1)
        /\ format = "ctrl" => /\ k = 1 => c.v = Start
                              /\ c.v # Cr
        /\ format \in {"nmea", "at"} => (c.v = Cr <=> k = n - 1)
        /\ format \in {"nmea", "ctrl", "at"} => (c.v = Lf <=> k = n)

Sound(line) ==
    /\ InOrder(line)
    /\ NoGaps(line)
    /\ \A i \in 1..Len(line) : line[i].of[1] \in DOMAIN frames => Genuine(line[i])

\* The frame f begins at place i of the line and is whole.
Whole(line, f, i) ==
    /\ i >= 1 /\ i + frames[f] - 1 <= Len(line)
    /\ \A k \in 1..frames[f] : line[i + k - 1].of = <<f, k>>

\* Place i of the line begins a line of text.
StartsLine(line, i) ==
    format \in Lines =>
        \/ i = 1
        \/ /\ i > 1 /\ line[i - 1].v = Lf
           /\ format = "at" => /\ i > 2 /\ line[i - 2].v = Cr
                               /\ line[i - 2].of[1] = line[i - 1].of[1]

Safe(line, f) == \E i \in 1..Len(line) : Whole(line, f, i) /\ StartsLine(line, i)

\* Nothing of the frame f is left in the line.
Absent(line, f) == \A i \in 1..Len(line) : line[i].of[1] # f

\* The frames given, in order, and what is left.
After(given, line) ==
    \A q \in DOMAIN given : \A i \in 1..Len(line) :
        Framed(line[i]) => Later(<<given[q], 1>>, line[i].of)

Increasing(given) ==
    \A i, j \in DOMAIN given : i < j => given[i] < given[j]

\* Where the end of a line is looked for within a bound, a frame ends in it.
LinesFit == format \in Lines => MaxPayload + 2 <= MaxLine

Accounted(given, line, gone) ==
    LinesFit =>
        \A f \in DOMAIN frames :
            \/ f \in Range(given) \cup gone
            \/ Safe(line, f)
            \/ f \in refused /\ Absent(line, f)

Good(given, line, gone) ==
    /\ given \in Seq(Nat) /\ line \in Seq(Byte)
    /\ Sound(line)
    /\ Increasing(given)
    /\ After(given, line)
    /\ Accounted(given, line, gone)

FrameSize == CASE format \in {"ubx", "nmea"} -> 4
               [] OTHER -> 3

FramesOK ==
    /\ DOMAIN frames \in SUBSET (Nat \ {0})
    /\ \A f \in DOMAIN frames : frames[f] \in FrameSize..(FrameSize + MaxPayload)

ParserType ==
    [ring : [0..(Capacity - 1) -> Byte], read : 0..(Capacity - 1),
     write : 0..(Capacity - 1)]

Line == Content(parser) \o input

IInv ==
    /\ format \in Formats
    /\ FramesOK
    /\ parser \in ParserType
    /\ input \in Seq(Byte)
    /\ Good(pushed, Line, lost)

----------------------------------------------------------------------------
(***************************************************************************)
(* Numbers, and functions defined by recursion over them                   *)
(***************************************************************************)
LEMMA LeastExists ==
    ASSUME NEW S \in SUBSET Nat, S # {}
    PROVE  Min(S) \in S /\ \A x \in S : Min(S) <= x
<1>1. PICK m \in S : \A x \in S : m <= x
  <2>1. PICK m \in S : \A y \in S : ~(<<y, m>> \in OpToRel(<, Nat))
    BY NatLessThanWellFounded, WFMin
  <2>2. \A x \in S : ~(x < m)
    BY <2>1 DEF OpToRel
  <2>3. QED
    BY <2>2
<1>2. QED
  BY <1>1 DEF Min

\* The least of two numbers.
LEMMA MinOfTwo ==
    ASSUME NEW a \in Nat, NEW b \in Nat
    PROVE  Min({a, b}) = IF a <= b THEN a ELSE b
<1>1. {a, b} \in SUBSET Nat /\ {a, b} # {}
  OBVIOUS
<1>2. Min({a, b}) \in {a, b} /\ Min({a, b}) <= a /\ Min({a, b}) <= b
  BY <1>1, LeastExists
<1>3. QED
  BY <1>2

\* Induction over a set of numbers.
LEMMA Induction ==
    ASSUME NEW S, 0 \in S, \A n \in Nat : n \in S => n + 1 \in S
    PROVE  Nat \subseteq S
<1> DEFINE T == Nat \ S
<1> SUFFICES ASSUME T # {} PROVE FALSE
  OBVIOUS
<1>1. T \in SUBSET Nat
  OBVIOUS
<1>2. Min(T) \in T /\ \A x \in T : Min(T) <= x
  <2> HIDE DEF T
  <2> QED BY <1>1, LeastExists
<1>3. Min(T) \in Nat /\ Min(T) # 0 /\ Min(T) - 1 \in Nat
  BY <1>2
<1>4. Min(T) - 1 \notin T
  <2> HIDE DEF T
  <2> QED BY <1>2, <1>3
<1>5. (Min(T) - 1) + 1 \in S
  BY <1>3, <1>4
<1>6. QED
  BY <1>2, <1>3, <1>5

\* Whatever the step does with a number and a value, there is the function
\* that starts from base and goes on by the step.
GoesOn(h, n, base, step) ==
    h[0] = base /\ \A k \in 1..n : h[k] = step[k][h[k - 1]]

\* Such a function exists for every base and every step.
LEMMA Recursion ==
    ASSUME NEW n \in Nat, NEW A, NEW base \in A, NEW step \in [1..n -> [A -> A]]
    PROVE  \E h \in [0..n -> A] : GoesOn(h, n, base, step)
<1> DEFINE Goes(h, m) == /\ h[0] = base
                         /\ \A k \in 1..m : h[k] = step[k][h[k - 1]]
           S == {m \in Nat : m <= n => \E h \in [0..m -> A] : Goes(h, m)}
<1>1. 0 \in S
  <2>1. [k \in 0..0 |-> base] \in [0..0 -> A] /\ Goes([k \in 0..0 |-> base], 0)
    OBVIOUS
  <2>2. QED
    BY <2>1
<1>2. ASSUME NEW m \in Nat, m \in S PROVE m + 1 \in S
  <2> SUFFICES ASSUME m + 1 <= n PROVE \E h \in [0..(m + 1) -> A] : Goes(h, m + 1)
    OBVIOUS
  <2>1. PICK h \in [0..m -> A] : Goes(h, m)
    BY <1>2
  <2>2. step[m + 1][h[m]] \in A
    OBVIOUS
  <2> DEFINE g == [k \in 0..(m + 1) |-> IF k = m + 1 THEN step[m + 1][h[m]] ELSE h[k]]
  <2>3. g \in [0..(m + 1) -> A]
    BY <2>2
  <2>4. g[m + 1] = step[m + 1][h[m]] /\ \A k \in 0..m : g[k] = h[k]
    OBVIOUS
  <2> HIDE DEF g
  <2>5. ASSUME NEW k \in 1..(m + 1) PROVE g[k] = step[k][g[k - 1]]
    <3>1. CASE k = m + 1
      <4>1. g[k - 1] = h[m]
        BY <2>4, <3>1
      <4>2. QED
        BY <2>4, <3>1, <4>1
    <3>2. CASE k # m + 1
      <4>1. k \in 1..m /\ k \in 0..m /\ k - 1 \in 0..m
        BY <3>2
      <4>2. g[k] = h[k] /\ g[k - 1] = h[k - 1] /\ h[k] = step[k][h[k - 1]]
        BY <2>1, <2>4, <4>1
      <4>3. QED
        BY <4>2
    <3>3. QED
      BY <3>1, <3>2
  <2>6. g[0] = base
    BY <2>1, <2>4
  <2>7. QED
    BY <2>3, <2>5, <2>6
<1>3. n \in S
  <2> HIDE DEF S
  <2> QED BY <1>1, <1>2, Induction
<1>4. QED
  BY <1>3 DEF GoesOn

----------------------------------------------------------------------------
(***************************************************************************)
(* The ring buffer                                                         *)
(***************************************************************************)
LEMMA Modulo ==
    \A a \in Int : /\ a % Capacity \in 0..(Capacity - 1)
                   /\ (0 <= a /\ a < Capacity) => a % Capacity = a
                   /\ (Capacity <= a /\ a < 2 * Capacity) => a % Capacity = a - Capacity
<1>1. Capacity \in Nat \ {0}
  BY FramingAssumption
<1>2. QED
  BY <1>1

\* A sum of two places in the ring wraps at most once.
LEMMA WrapSum ==
    \A x, y \in Int : 0 <= x + y /\ x + y < 2 * Capacity =>
        (x + y) % Capacity = IF x + y < Capacity THEN x + y ELSE x + y - Capacity
BY FramingAssumption

\* A place in the ring, and one that a run of bytes reaches beyond its end.
LEMMA WrapPlace ==
    \A x, y \in Int : 0 <= x + y - 1 /\ x + y - 1 < 2 * Capacity =>
        (x + y - 1) % Capacity =
        IF x + y - 1 < Capacity THEN x + y - 1 ELSE x + y - 1 - Capacity
BY FramingAssumption

\* The place after a place in the ring.
LEMMA WrapNext ==
    \A x \in Int : 0 <= x + 1 /\ x + 1 < 2 * Capacity =>
        (x + 1) % Capacity = IF x + 1 < Capacity THEN x + 1 ELSE x + 1 - Capacity
BY FramingAssumption

\* Wrapping a part of a sum first changes nothing.
LEMMA SumModulo ==
    \A x, y \in 0..(Capacity - 1) :
        (x + y) % Capacity = IF x + y < Capacity THEN x + y ELSE x + y - Capacity
<1> TAKE x, y \in 0..(Capacity - 1)
<1>1. Capacity \in Nat \ {0} /\ x + y \in Int /\ 0 <= x + y /\ x + y < 2 * Capacity
  BY FramingAssumption
<1>2. QED
  BY <1>1, Modulo

\* The same for numbers up to three times around, and for negative ones.
LEMMA ModuloFar ==
    \A a \in Int : /\ (2 * Capacity <= a /\ a < 3 * Capacity) =>
                           a % Capacity = a - 2 * Capacity
                   /\ (-Capacity <= a /\ a < 0) => a % Capacity = a + Capacity
<1>1. Capacity \in Nat \ {0}
  BY FramingAssumption
<1>2. QED
  BY <1>1

\* What buffer_length and peek tell of a ring buffer.
LEMMA ContentIs ==
    ASSUME NEW p \in ParserType
    PROVE  /\ buffer_length(p) \in 0..(Capacity - 1)
           /\ Content(p) \in Seq(Byte) /\ Len(Content(p)) = buffer_length(p)
           /\ \A k \in 1..buffer_length(p) :
                 Content(p)[k] = p.ring[(p.read + k - 1) % Capacity]
           /\ p.write = (p.read + buffer_length(p)) % Capacity
<1>1. /\ Capacity \in Nat \ {0} /\ p.read \in 0..(Capacity - 1)
      /\ p.write \in 0..(Capacity - 1)
      /\ \A i \in 0..(Capacity - 1) : p.ring[i] \in Byte
  BY FramingAssumption DEF ParserType
<1>2. buffer_length(p) \in 0..(Capacity - 1)
  BY <1>1 DEF buffer_length
<1>3. \A k \in 1..buffer_length(p) :
         (p.read + k - 1) % Capacity \in 0..(Capacity - 1)
  <2> TAKE k \in 1..buffer_length(p)
  <2>1. p.read + k - 1 \in Int
    BY <1>1, <1>2
  <2>2. QED
    BY <2>1, Modulo
<1>4. \A k \in 1..buffer_length(p) : p.ring[(p.read + k - 1) % Capacity] \in Byte
  BY <1>1, <1>3
<1>5. /\ Content(p) \in Seq(Byte) /\ Len(Content(p)) = buffer_length(p)
      /\ \A k \in 1..buffer_length(p) :
            Content(p)[k] = p.ring[(p.read + k - 1) % Capacity]
  BY <1>2, <1>4 DEF Content
<1>6. p.write = (p.read + buffer_length(p)) % Capacity
  <2>1. CASE p.write >= p.read
    <3>1. p.read + buffer_length(p) = p.write
      BY <1>1, <2>1 DEF buffer_length
    <3>2. QED
      BY <1>1, <3>1, Modulo, SMTT(30)
  <2>2. CASE p.write < p.read
    <3>1. buffer_length(p) = Capacity - p.read + p.write
      BY <1>1, <2>2 DEF buffer_length
    <3>2. p.read + buffer_length(p) = p.write + Capacity
      BY <1>1, <3>1
    <3>3. (p.write + Capacity) % Capacity = p.write
      <4> DEFINE x == p.write + Capacity
      <4>1. x \in Int /\ Capacity <= x /\ x < 2 * Capacity /\ x - Capacity = p.write
        BY <1>1
      <4> HIDE DEF x
      <4>2. x % Capacity = x - Capacity
        BY <4>1, Modulo
      <4>3. QED
        BY <4>1, <4>2 DEF x
    <3>4. QED
      BY <3>2, <3>3
  <2>3. QED
    BY <1>1, <2>1, <2>2
<1>7. QED
  BY <1>2, <1>5, <1>6

\* skip drops bytes from the front of what peek sees.
LEMMA SkipIs ==
    ASSUME NEW p \in ParserType, NEW n \in 0..buffer_length(p)
    PROVE  /\ skip(p, n) \in ParserType
           /\ Content(skip(p, n)) = Drop(Content(p), n)
<1> DEFINE q == skip(p, n)
           l == buffer_length(p)
<1>1. /\ Capacity \in Nat \ {0} /\ p.read \in 0..(Capacity - 1) /\ p.write \in 0..(Capacity - 1)
      /\ l \in 0..(Capacity - 1) /\ n \in 0..l /\ p.write = (p.read + l) % Capacity
  BY FramingAssumption, ContentIs DEF ParserType
<1>2. q.read = (p.read + n) % Capacity /\ q.ring = p.ring /\ q.write = p.write /\ q \in ParserType
  <2>1. Min({n, l}) = n
    BY <1>1, MinOfTwo
  <2>2. (p.read + n) % Capacity \in 0..(Capacity - 1)
    BY <1>1, Modulo
  <2>3. q = [p EXCEPT !.read = (p.read + n) % Capacity]
    BY <2>1 DEF skip
  <2> HIDE DEF q
  <2>4. QED
    BY <2>2, <2>3 DEF ParserType
<1> HIDE DEF q
<1>3. buffer_length(q) = l - n
  <2>1. q.read = IF p.read + n < Capacity THEN p.read + n ELSE p.read + n - Capacity
    <3>1. n \in 0..(Capacity - 1)
      BY <1>1
    <3>2. QED
      BY <1>1, <1>2, <3>1, SumModulo
  <2>2. p.write = IF p.read + l < Capacity THEN p.read + l ELSE p.read + l - Capacity
    BY <1>1, SumModulo
  <2>3. q.write = p.write /\ l \in Nat /\ n \in Nat /\ n <= l /\ l < Capacity
        /\ p.read \in Nat /\ p.read < Capacity /\ Capacity \in Nat
    BY <1>1, <1>2
  <2> HIDE DEF l
  <2>4. CASE p.read + l < Capacity
    <3>1. q.read = p.read + n /\ q.write = p.read + l
      BY <2>1, <2>2, <2>3, <2>4
    <3>2. QED
      BY <2>3, <3>1 DEF buffer_length
  <2>5. CASE p.read + l >= Capacity /\ p.read + n < Capacity
    <3>1. q.read = p.read + n /\ q.write = p.read + l - Capacity
      BY <2>1, <2>2, <2>3, <2>5
    <3>2. QED
      BY <2>3, <3>1 DEF buffer_length
  <2>6. CASE p.read + n >= Capacity
    <3>1. q.read = p.read + n - Capacity /\ q.write = p.read + l - Capacity
      BY <2>1, <2>2, <2>3, <2>6
    <3>2. QED
      BY <2>3, <3>1 DEF buffer_length
  <2>7. QED
    BY <2>3, <2>4, <2>5, <2>6
<1>4. Content(q) \in Seq(Byte) /\ Len(Content(q)) = l - n
  BY <1>2, <1>3, ContentIs
<1>5. Content(p) \in Seq(Byte) /\ Len(Content(p)) = l
  BY ContentIs
<1>6. /\ Drop(Content(p), n) \in Seq(Byte) /\ Len(Drop(Content(p), n)) = l - n
      /\ \A k \in 1..(l - n) : Drop(Content(p), n)[k] = Content(p)[n + k]
  BY <1>1, <1>5, SubSeqProperties DEF Drop
<1>7. ASSUME NEW k \in 1..(l - n) PROVE Content(q)[k] = Content(p)[n + k]
  <2>1. Content(q)[k] = p.ring[(q.read + k - 1) % Capacity]
    BY <1>2, <1>3, ContentIs
  <2>2. n + k \in 1..l /\ Content(p)[n + k] = p.ring[(p.read + (n + k) - 1) % Capacity]
    BY <1>1, ContentIs
  <2>3. (q.read + k - 1) % Capacity = (p.read + (n + k) - 1) % Capacity
    <3>1. /\ n \in 0..(Capacity - 1) /\ n \in Int /\ k \in Int /\ k >= 1
          /\ n + k <= Capacity - 1 /\ p.read \in Int /\ Capacity \in Int
          /\ 0 <= p.read /\ p.read < Capacity /\ n >= 0
      BY <1>1
    <3>2. q.read = IF p.read + n < Capacity THEN p.read + n ELSE p.read + n - Capacity
      BY <1>1, <1>2, <3>1, SumModulo
    <3> HIDE DEF l
    <3>3. CASE p.read + n < Capacity
      <4>1. q.read + k - 1 = p.read + (n + k) - 1
        BY <3>1, <3>2, <3>3
      <4>2. QED
        BY <4>1
    <3>4. CASE p.read + n >= Capacity
      <4> DEFINE x == p.read + (n + k) - 1
      <4>1. /\ x \in Int /\ Capacity <= x /\ x < 2 * Capacity
            /\ q.read + k - 1 = x - Capacity
        BY <3>1, <3>2, <3>4
      <4>2. x - Capacity \in Int /\ 0 <= x - Capacity /\ x - Capacity < Capacity
        BY <3>1, <4>1
      <4> HIDE DEF x
      <4>3. x % Capacity = x - Capacity /\ (x - Capacity) % Capacity = x - Capacity
        BY <4>1, <4>2, Modulo
      <4>4. QED
        BY <4>1, <4>3 DEF x
    <3>5. QED
      BY <3>1, <3>3, <3>4
  <2>4. QED
    BY <2>1, <2>2, <2>3
<1>8. QED
  BY <1>1, <1>2, <1>4, <1>6, <1>7, SeqEqual DEF q

\* How far a place in the ring is behind another.
LEMMA DifferenceModulo ==
    \A x, y \in 0..(Capacity - 1) :
        (x - y) % Capacity = IF x >= y THEN x - y ELSE x - y + Capacity
<1> TAKE x, y \in 0..(Capacity - 1)
<1> DEFINE a == x - y
<1>1. /\ Capacity \in Int /\ a \in Int /\ -Capacity <= a /\ a < Capacity
      /\ x >= y <=> a >= 0
  BY FramingAssumption
<1> HIDE DEF a
<1>2. a % Capacity = IF a >= 0 THEN a ELSE a + Capacity
  <2>1. CASE a >= 0
    BY <1>1, <2>1, Modulo
  <2>2. CASE ~(a >= 0)
    <3>1. a < 0
      BY <1>1, <2>2
    <3>2. QED
      BY <1>1, <2>2, <3>1, ModuloFar
  <2>3. QED
    BY <2>1, <2>2
<1>3. QED
  BY <1>1, <1>2 DEF a

\* append keeps the end of what there is and comes.
LEMMA AppendIs ==
    ASSUME NEW p \in ParserType, NEW bytes \in Seq(Byte), Len(bytes) <= Capacity
    PROVE  LET q == append(p, bytes)
               left == Content(p) \o bytes
           IN  /\ q \in ParserType /\ buffer_length(q) <= Len(left)
               /\ Content(q) = Drop(left, Len(left) - buffer_length(q))
<1> DEFINE q == append(p, bytes)
           left == Content(p) \o bytes
           o == buffer_length(p)
           n == Len(bytes)
           r == p.read
           w == p.write
           fits == n <= Capacity - o - 1
           l == IF fits THEN o + n ELSE Capacity - 1
<1>1. /\ Capacity \in Int /\ Capacity > 0 /\ o \in Int /\ 0 <= o /\ o < Capacity
      /\ n \in Int /\ 0 <= n /\ n <= Capacity
      /\ r \in Int /\ 0 <= r /\ r < Capacity /\ w \in Int /\ 0 <= w /\ w < Capacity
  BY FramingAssumption, ContentIs DEF ParserType
<1>2. w = IF r + o < Capacity THEN r + o ELSE r + o - Capacity
  <2>1. w = (r + o) % Capacity
    BY ContentIs
  <2>2. r \in 0..(Capacity - 1) /\ o \in 0..(Capacity - 1)
    BY <1>1
  <2>3. QED
    BY <2>1, <2>2, SumModulo
<1>3. /\ q.write = (w + n) % Capacity
      /\ q.read = IF fits THEN r ELSE (q.write + 1) % Capacity
      /\ q.ring = [i \in 0..(Capacity - 1) |->
                     IF (i - w) % Capacity < n THEN bytes[((i - w) % Capacity) + 1]
                     ELSE p.ring[i]]
      /\ q = [ring |-> q.ring, write |-> q.write, read |-> q.read]
  <2> DEFINE end == (w + n) % Capacity
  <2>1. q = [ring |-> [i \in 0..(Capacity - 1) |->
                         IF (i - w) % Capacity < n THEN bytes[((i - w) % Capacity) + 1]
                         ELSE p.ring[i]],
             write |-> end,
             read |-> IF n > Capacity - o - 1 THEN (end + 1) % Capacity ELSE r]
    BY <1>1 DEF append, available_space
  <2>2. fits <=> ~(n > Capacity - o - 1)
    BY <1>1
  <2> HIDE DEF q, w, n, r, end, fits
  <2>3. QED
    BY <2>1, <2>2 DEF end
<1>4. q.write = IF w + n < Capacity THEN w + n ELSE w + n - Capacity
  <2>1. w + n \in Int /\ 0 <= w + n /\ w + n < 2 * Capacity
    BY <1>1
  <2>2. (w + n) % Capacity = IF w + n < Capacity THEN w + n ELSE w + n - Capacity
    <3> HIDE DEF w, n
    <3> QED BY <1>1, <2>1, WrapSum
  <2> HIDE DEF q
  <2>3. QED
    BY <1>3, <2>2, Zenon
<1>5. q.write \in Int /\ 0 <= q.write /\ q.write < Capacity
  BY <1>1, <1>4
<1>6. ~fits => q.read = IF q.write + 1 < Capacity THEN q.write + 1 ELSE q.write + 1 - Capacity
  <2> HIDE DEF q, fits
  <2>1. q.write + 1 \in Int /\ 0 <= q.write + 1 /\ q.write + 1 < 2 * Capacity
    BY <1>1, <1>5
  <2>2. (q.write + 1) % Capacity =
        IF q.write + 1 < Capacity THEN q.write + 1 ELSE q.write + 1 - Capacity
    BY <1>1, <1>5, <2>1, WrapNext
  <2>3. QED
    BY <1>3, <2>2, Zenon
<1>7. q.read \in Int /\ 0 <= q.read /\ q.read < Capacity
  BY <1>1, <1>3, <1>5, <1>6, SMTT(30)
<1>8. q.ring \in [0..(Capacity - 1) -> Byte]
  <2> SUFFICES ASSUME NEW i \in 0..(Capacity - 1)
               PROVE  (IF (i - w) % Capacity < n THEN bytes[((i - w) % Capacity) + 1]
                       ELSE p.ring[i]) \in Byte
    BY <1>3
  <2>1. p.ring[i] \in Byte
    BY DEF ParserType
  <2>2. (i - w) % Capacity \in 0..(Capacity - 1)
    <3>1. i - w \in Int
      BY <1>1
    <3>2. QED
      BY <3>1, Modulo
  <2>3. (i - w) % Capacity < n => bytes[((i - w) % Capacity) + 1] \in Byte
    <3> DEFINE d == (i - w) % Capacity
    <3>1. d \in Nat
      BY <1>1, <2>2
    <3> HIDE DEF d
    <3>2. d < n => d + 1 \in 1..n
      BY <1>1, <3>1
    <3>3. d < n => bytes[d + 1] \in Byte
      BY <3>2
    <3>4. QED
      BY <3>3 DEF d
  <2>4. QED
    BY <2>1, <2>3
<1>9. q \in ParserType
  <2> HIDE DEF q
  <2>1. q.read \in 0..(Capacity - 1) /\ q.write \in 0..(Capacity - 1)
    BY <1>1, <1>5, <1>7
  <2>2. QED
    BY <1>3, <1>8, <2>1 DEF ParserType
<1> HIDE DEF q
<1>10. buffer_length(q) = l
  <2>1. CASE fits
    <3>1. q.read = r
      BY <1>3, <2>1
    <3>2. q.write = r + l \/ (q.write = r + l - Capacity /\ l < Capacity)
      BY <1>1, <1>2, <1>4, <2>1, SMTT(30)
    <3>3. l \in Int /\ 0 <= l
      BY <1>1
    <3> HIDE DEF o, n, l, r
    <3>4. QED
      BY <1>1, <3>1, <3>2, <3>3 DEF buffer_length
  <2>2. CASE ~fits
    <3>1. l = Capacity - 1
      BY <2>2
    <3>2. q.read = q.write + 1 \/ (q.read = 0 /\ q.write = Capacity - 1)
      BY <1>1, <1>5, <1>6, <2>2
    <3> HIDE DEF l
    <3>3. QED
      BY <1>1, <1>5, <3>1, <3>2 DEF buffer_length
  <2>3. QED
    BY <2>1, <2>2
<1>11. Content(p) \in Seq(Byte) /\ Len(Content(p)) = o
  BY ContentIs
<1>12. left \in Seq(Byte) /\ Len(left) = o + n
       /\ \A i \in 1..(o + n) : left[i] = IF i <= o THEN Content(p)[i] ELSE bytes[i - o]
  <2> HIDE DEF o
  <2> QED BY <1>11, ConcatProperties
<1>13. l \in Nat /\ l <= Len(left) /\ Len(left) - l \in 0..Len(left) /\ Len(left) \in Nat
  BY <1>1, <1>12
<1> DEFINE cut == Len(left) - l
<1>14. cut = IF fits THEN 0 ELSE o + n - (Capacity - 1)
  BY <1>1, <1>12
<1>15. /\ Drop(left, cut) \in Seq(Byte) /\ Len(Drop(left, cut)) = l
       /\ \A k \in 1..l : Drop(left, cut)[k] = left[cut + k]
  <2> HIDE DEF left, l
  <2>1. \A i \in (cut + 1)..Len(left) : left[i] \in Byte
    BY <1>12, <1>13
  <2>2. cut + 1 \in Int /\ Len(left) \in Int
    BY <1>13
  <2>3. /\ Drop(left, cut) \in Seq(Byte)
        /\ Len(Drop(left, cut)) = IF cut + 1 <= Len(left) THEN Len(left) - (cut + 1) + 1 ELSE 0
        /\ \A k \in 1..(Len(left) - (cut + 1) + 1) :
              Drop(left, cut)[k] = left[(cut + 1) + k - 1]
    BY <2>1, <2>2, SubSeqProperties DEF Drop
  <2>4. Len(left) - (cut + 1) + 1 = l /\ (cut + 1 <= Len(left) <=> l > 0)
        /\ \A k \in 1..l : (cut + 1) + k - 1 = cut + k
    BY <1>13
  <2> HIDE DEF cut
  <2>5. QED
    BY <1>13, <2>3, <2>4
<1>16. Content(q) \in Seq(Byte) /\ Len(Content(q)) = l
  BY <1>9, <1>10, ContentIs
<1>17. ASSUME NEW k \in 1..l PROVE Content(q)[k] = left[cut + k]
  <2> DEFINE i == (q.read + k - 1) % Capacity
             d == (i - w) % Capacity
  <2>1. k \in Int /\ 1 <= k /\ k <= l /\ k < Capacity
    BY <1>1
  <2>2. /\ i = IF q.read + k - 1 < Capacity THEN q.read + k - 1
               ELSE q.read + k - 1 - Capacity
        /\ i \in 0..(Capacity - 1)
    <3>1. q.read + k - 1 \in Int /\ 0 <= q.read + k - 1 /\ q.read + k - 1 < 2 * Capacity
      BY <1>1, <1>7, <2>1
    <3>2. i = IF q.read + k - 1 < Capacity THEN q.read + k - 1
              ELSE q.read + k - 1 - Capacity
      BY <1>1, <1>7, <2>1, <3>1, WrapPlace
    <3> HIDE DEF i
    <3>3. QED
      BY <1>1, <1>7, <2>1, <3>1, <3>2, SMTT(30)
  <2>3. d = IF i >= w THEN i - w ELSE i - w + Capacity
    <3>1. w \in 0..(Capacity - 1)
      BY <1>1
    <3> HIDE DEF w, i
    <3>2. QED
      BY <2>2, <3>1, DifferenceModulo DEF d
  <2>4. Content(q)[k] = IF d < n THEN bytes[d + 1] ELSE p.ring[i]
    <3>1. Content(q)[k] = q.ring[i]
      BY <1>9, <1>10, ContentIs
    <3> HIDE DEF w, i
    <3>2. QED
      BY <1>3, <2>2, <3>1 DEF d
  <2>5. i \in Int /\ 0 <= i /\ i < Capacity
    BY <1>1, <2>2
  <2>6. cut \in Int /\ 0 <= cut
    BY <1>13
  <2>7. cut + k \in 1..(o + n)
    <3> HIDE DEF left, o, n
    <3>1. cut + k <= Len(left) /\ cut + k >= 1 /\ cut + k \in Int
      BY <1>13, <2>1
    <3>2. QED
      BY <1>1, <1>12, <3>1
  <2>8. left[cut + k] = IF cut + k <= o THEN Content(p)[cut + k] ELSE bytes[cut + k - o]
    <3> DEFINE j == cut + k
    <3>1. j \in 1..(o + n)
      BY <2>7
    <3> HIDE DEF left, cut, o, n, j
    <3>2. left[j] = IF j <= o THEN Content(p)[j] ELSE bytes[j - o]
      BY <1>12, <3>1
    <3>3. j = cut + k
      BY DEF j
    <3>4. QED
      BY <1>1, <2>1, <2>6, <3>2, <3>3
  <2>9. cut + k <= o => Content(p)[cut + k] = p.ring[(r + (cut + k) - 1) % Capacity]
    <3>1. cut + k <= o => cut + k \in 1..o
      BY <1>1, <1>14, <2>1, <2>7
    <3> HIDE DEF cut
    <3>2. QED
      BY <3>1, ContentIs
  <2>10. cut + k <= o => (r + (cut + k) - 1) % Capacity =
                         IF r + (cut + k) - 1 < Capacity THEN r + (cut + k) - 1
                         ELSE r + (cut + k) - 1 - Capacity
    <3> HIDE DEF cut, r, o, l
    <3> SUFFICES ASSUME cut + k <= o
                 PROVE  (r + (cut + k) - 1) % Capacity =
                        IF r + (cut + k) - 1 < Capacity THEN r + (cut + k) - 1
                        ELSE r + (cut + k) - 1 - Capacity
      OBVIOUS
    <3>1. /\ r + (cut + k) - 1 \in Int /\ 0 <= r + (cut + k) - 1
          /\ r + (cut + k) - 1 < 2 * Capacity
      BY <1>1, <2>1, <2>6
    <3>2. QED
      <4>1. r \in Int /\ cut + k \in Int
        BY <1>1, <2>1, <2>6
      <4>2. QED
        BY <3>1, <4>1, WrapPlace
  <2> HIDE DEF left
  <2>11. CASE fits
    <3>1. cut = 0 /\ q.read = r /\ l = o + n
      BY <1>3, <1>14, <2>11
    <3> HIDE DEF cut, l, d, i, o, n, r, w
    <3>2. CASE k <= o
      <4>1. d = k - 1 - o + Capacity /\ d >= n
        BY <1>1, <1>2, <2>1, <2>2, <2>3, <2>5, <2>11, <3>1, <3>2
      <4>2. i = (r + (cut + k) - 1) % Capacity /\ cut + k <= o
        BY <1>1, <2>1, <2>2, <2>10, <3>1, <3>2
      <4>3. ~(d < n)
        BY <1>1, <2>1, <4>1
      <4>4. QED
        BY <2>4, <2>8, <2>9, <4>2, <4>3
    <3>3. CASE k > o
      <4>1. d = k - 1 - o
        BY <1>1, <1>2, <2>1, <2>2, <2>3, <2>5, <2>11, <3>1, <3>3
      <4>2. d < n /\ d + 1 = cut + k - o /\ ~(cut + k <= o)
        BY <1>1, <2>1, <3>1, <3>3, <4>1
      <4>3. QED
        BY <2>4, <2>8, <4>2
    <3>4. QED
      BY <1>1, <2>1, <3>2, <3>3
  <2>12. CASE ~fits
    <3>1. cut = o + n - (Capacity - 1) /\ l = Capacity - 1 /\ n > Capacity - o - 1
      BY <1>1, <1>14, <2>12
    <3>2. q.read = q.write + 1 \/ q.read = q.write + 1 - Capacity
      BY <1>6, <2>12
    <3>3. q.write = w + n \/ q.write = w + n - Capacity
      BY <1>4
    <3>4. i = q.read + k - 1 \/ i = q.read + k - 1 - Capacity
      BY <2>2
    <3> HIDE DEF cut, l, d, i, o, n, r, w
    <3>5. i - w \in {n + k, n + k - Capacity, n + k - 2 * Capacity, n + k - 3 * Capacity}
      <4>1. q.read + k - 1 \in {q.write + k, q.write + k - Capacity}
        BY <1>1, <1>5, <1>7, <2>1, <3>2
      <4>2. q.write + k \in {w + n + k, w + n + k - Capacity}
        BY <1>1, <1>5, <2>1, <3>3
      <4>3. i \in {w + n + k, w + n + k - Capacity, w + n + k - 2 * Capacity,
                  w + n + k - 3 * Capacity}
        <5> DEFINE a == w + n + k
                   c == q.write + k
                   e == q.read + k - 1
        <5>1. a \in Int /\ c \in Int /\ e \in Int
          BY <1>1, <1>5, <1>7, <2>1
        <5>2. /\ c \in {a, a - Capacity} /\ e \in {c, c - Capacity}
              /\ i \in {e, e - Capacity}
          BY <1>1, <1>5, <1>7, <2>1, <3>4, <4>1, <4>2
        <5> HIDE DEF a, c, e
        <5>3. i \in {a, a - Capacity, a - 2 * Capacity, a - 3 * Capacity}
          BY <1>1, <5>1, <5>2
        <5>4. QED
          BY <1>1, <2>1, <5>1, <5>3 DEF a
      <4>4. QED
        BY <1>1, <2>1, <2>5, <4>3
    <3>6. d \in Int /\ 0 <= d /\ d < Capacity /\ d \in {i - w, i - w + Capacity}
      BY <1>1, <2>3, <2>5
    <3>7. CASE n + k >= Capacity
      <4>1. d = n + k - Capacity
        BY <1>1, <2>1, <3>7, <3>5, <3>6
      <4>2. d < n /\ d + 1 = cut + k - o /\ ~(cut + k <= o)
        BY <1>1, <2>1, <3>1, <3>7, <4>1
      <4>3. QED
        BY <2>4, <2>8, <4>2
    <3>8. CASE n + k < Capacity
      <4>1. d = n + k
        BY <1>1, <2>1, <3>8, <3>5, <3>6
      <4>2. cut + k <= o /\ ~(d < n) /\ r + (cut + k) - 1 = r + o + n + k - Capacity
        BY <1>1, <2>1, <3>1, <3>8, <4>1
      <4>3. i = (r + (cut + k) - 1) % Capacity
        BY <1>1, <1>2, <2>1, <2>3, <2>5, <2>10, <4>1, <4>2, SMTT(30)
      <4>4. QED
        BY <2>4, <2>8, <2>9, <4>2, <4>3
    <3>9. QED
      BY <1>1, <2>1, <3>7, <3>8
  <2>13. QED
    BY <2>11, <2>12
<1>18. Content(q) = Drop(left, cut)
  <2> HIDE DEF left, cut, l
  <2> QED BY <1>15, <1>16, <1>17, SeqEqual
<1>19. QED
  BY <1>9, <1>10, <1>13, <1>18 DEF q

----------------------------------------------------------------------------
(***************************************************************************)
(* The line with a piece taken out                                         *)
(***************************************************************************)

\* What is left of the line without its bytes from a + 1 to b.
Cut(line, a, b, rest) ==
    /\ a \in Nat /\ b \in Nat /\ a <= b /\ b <= Len(line)
    /\ Len(rest) = Len(line) - (b - a)
    /\ \A i \in 1..Len(rest) : rest[i] = line[IF i <= a THEN i ELSE i + (b - a)]

\* Drop takes out a piece at the front.
LEMMA DropIs ==
    ASSUME NEW s \in Seq(Byte), NEW n \in Nat
    PROVE  /\ Drop(s, n) \in Seq(Byte)
           /\ Len(Drop(s, n)) = IF n <= Len(s) THEN Len(s) - n ELSE 0
           /\ \A k \in 1..(Len(s) - n) : Drop(s, n)[k] = s[n + k]
           /\ n <= Len(s) => Cut(s, 0, n, Drop(s, n))
<1>1. Len(s) \in Nat /\ n + 1 \in Int /\ Len(s) \in Int
      /\ \A i \in (n + 1)..Len(s) : s[i] \in Byte
  OBVIOUS
<1>2. /\ Drop(s, n) \in Seq(Byte)
      /\ Len(Drop(s, n)) = IF n + 1 <= Len(s) THEN Len(s) - (n + 1) + 1 ELSE 0
      /\ \A k \in 1..(Len(s) - (n + 1) + 1) : Drop(s, n)[k] = s[(n + 1) + k - 1]
  BY <1>1, SubSeqProperties DEF Drop
<1>3. /\ Len(Drop(s, n)) = IF n <= Len(s) THEN Len(s) - n ELSE 0
      /\ \A k \in 1..(Len(s) - n) : Drop(s, n)[k] = s[n + k]
  <2>1. Len(Drop(s, n)) = IF n <= Len(s) THEN Len(s) - n ELSE 0
    BY <1>1, <1>2
  <2>2. ASSUME NEW k \in 1..(Len(s) - n) PROVE Drop(s, n)[k] = s[n + k]
    <3>1. k \in 1..(Len(s) - (n + 1) + 1) /\ (n + 1) + k - 1 = n + k
      BY <1>1
    <3>2. Drop(s, n)[k] = s[(n + 1) + k - 1]
      BY <1>2, <3>1
    <3>3. QED
      BY <3>1, <3>2
  <2>3. QED
    BY <2>1, <2>2
<1>4. n <= Len(s) => Cut(s, 0, n, Drop(s, n))
  <2> SUFFICES ASSUME n <= Len(s) PROVE Cut(s, 0, n, Drop(s, n))
    OBVIOUS
  <2>1. Len(Drop(s, n)) = Len(s) - (n - 0)
    BY <1>1, <1>3
  <2>2. ASSUME NEW i \in 1..Len(Drop(s, n))
        PROVE  Drop(s, n)[i] = s[IF i <= 0 THEN i ELSE i + (n - 0)]
    <3>1. i \in 1..(Len(s) - n) /\ n + i = i + (n - 0) /\ ~(i <= 0)
      BY <1>1, <2>1
    <3>2. QED
      BY <1>3, <3>1
  <2>3. QED
    BY <1>1, <2>1, <2>2 DEF Cut
<1>5. QED
  BY <1>2, <1>3, <1>4

\* Where the bytes of what is left were.
LEMMA CutPlaces ==
    ASSUME NEW L \in Seq(Byte), NEW M \in Seq(Byte), NEW a, NEW b, Cut(L, a, b, M)
    PROVE  LET at == [i \in 1..Len(M) |-> IF i <= a THEN i ELSE i + (b - a)]
           IN  /\ \A i \in 1..Len(M) : at[i] \in 1..Len(L) /\ M[i] = L[at[i]]
               /\ \A i, j \in 1..Len(M) : i < j <=> at[i] < at[j]
               /\ \A i, j \in 1..Len(M) : at[j] = at[i] + 1 => j = i + 1
               /\ \A y \in 1..Len(L) : y \notin (a + 1)..b =>
                     \E i \in 1..Len(M) : at[i] = y
<1> DEFINE at == [i \in 1..Len(M) |-> IF i <= a THEN i ELSE i + (b - a)]
<1>1. /\ a \in Nat /\ b \in Nat /\ a <= b /\ b <= Len(L) /\ Len(L) \in Nat /\ Len(M) \in Nat
      /\ Len(M) = Len(L) - (b - a)
      /\ \A i \in 1..Len(M) : M[i] = L[IF i <= a THEN i ELSE i + (b - a)]
  BY DEF Cut
<1>2. \A i \in 1..Len(M) : at[i] = IF i <= a THEN i ELSE i + (b - a)
  OBVIOUS
<1> HIDE DEF at
<1>3. \A i \in 1..Len(M) : at[i] \in 1..Len(L) /\ M[i] = L[at[i]]
  <2> TAKE i \in 1..Len(M)
  <2>1. at[i] = IF i <= a THEN i ELSE i + (b - a)
    BY <1>2
  <2>2. M[i] = L[at[i]]
    BY <1>1, <2>1
  <2>3. at[i] \in 1..Len(L)
    BY <1>1, <2>1
  <2>4. QED
    BY <2>2, <2>3
<1>4. \A i, j \in 1..Len(M) : i < j <=> at[i] < at[j]
  BY <1>1, <1>2
<1>5. \A i, j \in 1..Len(M) : at[j] = at[i] + 1 => j = i + 1
  <2> TAKE i, j \in 1..Len(M)
  <2>1. at[i] = (IF i <= a THEN i ELSE i + (b - a)) /\ at[j] = IF j <= a THEN j ELSE j + (b - a)
    BY <1>2
  <2>2. QED
    BY <1>1, <2>1
<1>6. \A y \in 1..Len(L) : y \notin (a + 1)..b => \E i \in 1..Len(M) : at[i] = y
  <2> SUFFICES ASSUME NEW y \in 1..Len(L), y \notin (a + 1)..b
               PROVE  \E i \in 1..Len(M) : at[i] = y
    OBVIOUS
  <2>1. CASE y <= a
    <3>1. y \in 1..Len(M) /\ at[y] = y
      BY <1>1, <1>2, <2>1
    <3>2. QED
      BY <3>1
  <2>2. CASE y > b
    <3>1. y - (b - a) \in 1..Len(M) /\ ~(y - (b - a) <= a) /\ (y - (b - a)) + (b - a) = y
      BY <1>1, <2>2
    <3>2. at[y - (b - a)] = y
      BY <1>2, <3>1
    <3>3. QED
      BY <3>1, <3>2
  <2>3. QED
    BY <1>1, <2>1, <2>2
<1>7. QED
  BY <1>3, <1>4, <1>5, <1>6 DEF at

\* A line stays sound when a piece is taken out.
LEMMA CutSound ==
    ASSUME NEW L \in Seq(Byte), NEW M \in Seq(Byte), NEW a, NEW b, Cut(L, a, b, M),
           Sound(L)
    PROVE  Sound(M)
<1> DEFINE at == [i \in 1..Len(M) |-> IF i <= a THEN i ELSE i + (b - a)]
<1>1. /\ \A i \in 1..Len(M) : at[i] \in 1..Len(L) /\ M[i] = L[at[i]]
      /\ \A i, j \in 1..Len(M) : i < j <=> at[i] < at[j]
      /\ \A i, j \in 1..Len(M) : at[j] = at[i] + 1 => j = i + 1
  BY CutPlaces
<1> HIDE DEF at
<1>2. InOrder(M)
  BY <1>1 DEF Sound, InOrder
<1>3. NoGaps(M)
  <2> SUFFICES ASSUME NEW i \in 1..Len(M), NEW j \in 1..Len(M), Framed(M[i]),
                      M[j].of = <<M[i].of[1], M[i].of[2] + 1>>
               PROVE  j = i + 1
    BY DEF NoGaps
  <2>1. at[j] = at[i] + 1
    <3>1. /\ at[i] \in 1..Len(L) /\ at[j] \in 1..Len(L) /\ Framed(L[at[i]])
          /\ L[at[j]].of = <<L[at[i]].of[1], L[at[i]].of[2] + 1>>
      BY <1>1
    <3>2. QED
      BY <3>1 DEF Sound, NoGaps
  <2>2. QED
    BY <1>1, <2>1
<1>4. \A i \in 1..Len(M) : M[i].of[1] \in DOMAIN frames => Genuine(M[i])
  BY <1>1 DEF Sound
<1>5. QED
  BY <1>2, <1>3, <1>4 DEF Sound

\* What is left of a line still comes after the frames given.
LEMMA CutAfter ==
    ASSUME NEW L \in Seq(Byte), NEW M \in Seq(Byte), NEW a, NEW b, Cut(L, a, b, M),
           NEW given, After(given, L)
    PROVE  After(given, M)
<1>1. \A i \in 1..Len(M) : \E y \in 1..Len(L) : M[i] = L[y]
  <2> DEFINE at == [i \in 1..Len(M) |-> IF i <= a THEN i ELSE i + (b - a)]
  <2>1. \A i \in 1..Len(M) : at[i] \in 1..Len(L) /\ M[i] = L[at[i]]
    BY CutPlaces
  <2> HIDE DEF at
  <2>2. QED
    BY <2>1
<1>2. QED
  BY <1>1 DEF After

\* A frame of which no byte is taken stays whole; it stays at the beginning of
\* its line unless it is the first one behind the piece.
LEMMA SafeAfterCut ==
    ASSUME FramesOK, NEW L \in Seq(Byte), NEW M \in Seq(Byte), NEW a, NEW b,
           Cut(L, a, b, M), Sound(L), NEW f \in DOMAIN frames, Safe(L, f),
           \A y \in (a + 1)..b : L[y].of[1] # f,
           \/ a = b
           \/ format \notin Lines
           \/ \A y \in 1..Len(L) : L[y].of[1] = f => y <= a
           \/ \E y \in (b + 1)..Len(L) : /\ Framed(L[y]) /\ L[y].of[1] < f
                                         /\ \A z \in (a + 1)..b : L[z].of[1] # L[y].of[1]
    PROVE  Safe(M, f)
<1> DEFINE n == frames[f]
<1>1. PICK i \in 1..Len(L) : Whole(L, f, i) /\ StartsLine(L, i)
  BY DEF Safe
<1>2. /\ a \in Nat /\ b \in Nat /\ a <= b /\ b <= Len(L) /\ Len(L) \in Nat /\ Len(M) \in Nat
      /\ Len(M) = Len(L) - (b - a)
      /\ \A k \in 1..Len(M) : M[k] = L[IF k <= a THEN k ELSE k + (b - a)]
  BY DEF Cut
<1>3. n \in Nat /\ n >= 3 /\ f \in Nat /\ f # 0
  BY FramingAssumption DEF FramesOK, FrameSize
<1>4. i + n - 1 <= Len(L) /\ \A k \in 1..n : L[i + k - 1].of = <<f, k>>
  BY <1>1 DEF Whole
<1>5. \A y \in i..(i + n - 1) : y \in 1..Len(L) /\ L[y].of[1] = f
  <2> TAKE y \in i..(i + n - 1)
  <2> DEFINE k == y - i + 1
  <2>1. k \in 1..n /\ i + k - 1 = y
    BY <1>3
  <2> HIDE DEF k
  <2>2. L[y].of = <<f, k>>
    BY <1>4, <2>1
  <2>3. QED
    BY <1>3, <1>4, <2>2
<1> HIDE DEF n
<1>6. CASE a = b
  <2>1. \A k \in 1..Len(M) : M[k] = L[k] /\ Len(M) = Len(L)
    BY <1>2, <1>6
  <2>2. M = L
    BY <2>1, <1>2, <1>6, SeqEqual
  <2>3. QED
    BY <2>2
<1>7. CASE a < b /\ i + n - 1 <= a
  <2>1. i \in 1..Len(M) /\ i + n - 1 <= Len(M) /\ \A k \in 1..a : k \in 1..Len(M) /\ M[k] = L[k]
    BY <1>2, <1>3, <1>7
  <2>2. Whole(M, f, i)
    <3>1. ASSUME NEW k \in 1..n PROVE M[i + k - 1].of = <<f, k>>
      <4> DEFINE x == i + k - 1
      <4>1. x \in 1..a
        BY <1>2, <1>3, <1>7
      <4>2. L[x].of = <<f, k>>
        BY <1>4
      <4> HIDE DEF x
      <4>3. M[x].of = <<f, k>>
        BY <2>1, <4>1, <4>2
      <4>4. QED
        BY <4>3 DEF x
    <3>2. QED
      BY <2>1, <3>1 DEF Whole, n
  <2>3. StartsLine(M, i)
    <3>1. /\ i > 1 => M[i - 1] = L[i - 1]
          /\ i > 2 => M[i - 2] = L[i - 2]
      BY <1>2, <1>3, <1>7, <2>1
    <3>2. QED
      BY <1>1, <3>1 DEF StartsLine
  <2>4. QED
    BY <2>1, <2>2, <2>3 DEF Safe
<1>8. CASE a < b /\ i > b
  <2> DEFINE j == i - (b - a)
  <2>1. j \in 1..Len(M) /\ j + n - 1 <= Len(M) /\ j > a
    BY <1>2, <1>3, <1>4, <1>8
  <2>2. \A k \in 0..n : j + k - 1 > a /\ j + k - 1 \in 1..Len(M) => M[j + k - 1] = L[i + k - 1]
    <3> TAKE k \in 0..n
    <3> SUFFICES ASSUME j + k - 1 > a /\ j + k - 1 \in 1..Len(M)
                 PROVE  M[j + k - 1] = L[i + k - 1]
      OBVIOUS
    <3>1. (j + k - 1) + (b - a) = i + k - 1 /\ ~(j + k - 1 <= a)
      BY <1>2, <1>3
    <3>2. QED
      BY <1>2, <3>1
  <2>3. Whole(M, f, j)
    <3>1. \A k \in 1..n : j + k - 1 > a /\ j + k - 1 \in 1..Len(M)
      BY <1>2, <1>3, <2>1
    <3>2. ASSUME NEW k \in 1..n PROVE M[j + k - 1].of = <<f, k>>
      <4>1. k \in 0..n /\ j + k - 1 > a /\ j + k - 1 \in 1..Len(M)
        BY <1>3, <3>1
      <4> HIDE DEF j
      <4>2. M[j + k - 1] = L[i + k - 1]
        BY <2>2, <4>1
      <4>3. QED
        BY <1>4, <4>2
    <3>3. QED
      BY <2>1, <3>2 DEF Whole, n
  <2>4. StartsLine(M, j)
    <3> SUFFICES ASSUME format \in Lines PROVE StartsLine(M, j)
      BY DEF StartsLine
    <3>1. i \in 1..Len(L) /\ L[i].of[1] = f /\ ~(i <= a)
      BY <1>2, <1>3, <1>5, <1>8
    <3>2. PICK y \in (b + 1)..Len(L) : /\ Framed(L[y]) /\ L[y].of[1] < f
                                       /\ \A z \in (a + 1)..b : L[z].of[1] # L[y].of[1]
      BY <1>8, <3>1, <1>2
    <3>3. y < i
      <4>1. y \in 1..Len(L) /\ L[y].of[1] \in Nat
        <5>1. y \in 1..Len(L)
          BY <1>2
        <5>2. L[y] \in Byte
          BY <5>1
        <5>3. QED
          BY <5>1, <5>2 DEF Byte
      <4>2. y # i
        BY <1>3, <3>1, <3>2
      <4>3. ~(i < y)
        <5> SUFFICES ASSUME i < y PROVE FALSE
          OBVIOUS
        <5>1. Later(L[i].of, L[y].of)
          BY <1>3, <3>1, <3>2, <4>1 DEF Sound, InOrder, Framed
        <5>2. QED
          BY <1>3, <3>1, <3>2, <4>1, <5>1 DEF Later
      <4>4. QED
        BY <1>2, <4>2, <4>3
    <3>4. /\ i > 1 /\ L[i - 1].v = Lf
          /\ format = "at" => /\ i > 2 /\ L[i - 2].v = Cr
                              /\ L[i - 2].of[1] = L[i - 1].of[1]
      BY <1>1, <1>2, <3>3 DEF StartsLine
    <3>5. j > 1 /\ M[j - 1] = L[i - 1]
      <4>1. j - 1 > a /\ j - 1 \in 1..Len(M) /\ (j - 1) + (b - a) = i - 1
        BY <1>2, <1>8, <2>1, <3>3
      <4> DEFINE z == j - 1
      <4>2. z \in 1..Len(M) /\ ~(z <= a) /\ z + (b - a) = i - 1
        BY <1>2, <4>1
      <4> HIDE DEF z
      <4>3. M[z] = L[i - 1]
        <5>1. M[z] = L[z + (b - a)]
          BY <1>2, <4>2
        <5>2. QED
          BY <4>2, <5>1
      <4>4. j > 1
        BY <1>2, <4>1
      <4>5. QED
        BY <4>3, <4>4 DEF z
    <3>6. format = "at" => j > 2 /\ M[j - 2] = L[i - 2]
      <4> SUFFICES ASSUME format = "at" PROVE j > 2 /\ M[j - 2] = L[i - 2]
        OBVIOUS
      <4>1. i - 2 > b
        <5> SUFFICES ASSUME i - 2 <= b PROVE FALSE
          BY <1>2
        <5>1. y = i - 1 /\ i - 2 \in (a + 1)..b
          BY <1>2, <1>8, <3>3
        <5>2. L[i - 2].of[1] = L[y].of[1]
          BY <3>4, <5>1
        <5>3. QED
          BY <3>2, <5>1, <5>2
      <4>2. j - 2 > a /\ j - 2 \in 1..Len(M) /\ (j - 2) + (b - a) = i - 2
        BY <1>2, <1>8, <2>1, <4>1
      <4> DEFINE z == j - 2
      <4>3. z \in 1..Len(M) /\ ~(z <= a) /\ z + (b - a) = i - 2 /\ z > a
        BY <1>2, <4>2
      <4> HIDE DEF z
      <4>4. M[z] = L[i - 2]
        <5>1. M[z] = L[z + (b - a)]
          BY <1>2, <4>3
        <5>2. QED
          BY <4>3, <5>1
      <4>5. j > 2
        BY <1>2, <4>2
      <4>6. QED
        BY <4>4, <4>5 DEF z
    <3> HIDE DEF j
    <3>7. QED
      BY <3>4, <3>5, <3>6 DEF StartsLine
  <2>5. QED
    BY <2>1, <2>3, <2>4 DEF Safe
<1>9. a < b => i + n - 1 <= a \/ i > b
  <2> SUFFICES ASSUME a < b, i + n - 1 > a, i <= b PROVE FALSE
    BY <1>2, <1>3
  <2>1. PICK y \in i..(i + n - 1) : y \in (a + 1)..b
    <3>1. CASE i > a
      <4>1. i \in i..(i + n - 1) /\ i \in (a + 1)..b
        BY <1>2, <1>3, <3>1
      <4>2. QED
        BY <4>1
    <3>2. CASE i <= a
      <4>1. a + 1 \in i..(i + n - 1) /\ a + 1 \in (a + 1)..b
        BY <1>2, <1>3, <3>2
      <4>2. QED
        BY <4>1
    <3>3. QED
      BY <1>2, <3>1, <3>2
  <2>2. QED
    BY <1>5, <2>1
<1>10. QED
  BY <1>2, <1>6, <1>7, <1>8, <1>9

----------------------------------------------------------------------------
(***************************************************************************)
(* One call of try_parse                                                   *)
(***************************************************************************)

\* What a parser looks at is the beginning of the line.
AtFront(b, line) == Len(b) <= Len(line) /\ \A i \in 1..Len(b) : b[i] = line[i]

\* The bytes that are skipped are no part of the frame f, which is at place i,
\* and if it began a line it still does.
Spares(got, f, i) == got.skip < i /\ (format = "at" => got.skip # i - 2)

\* The message of the frame f, which is at place i, is refused and the frame is
\* skipped to its end.
Refuses(got, f, i) == f \in refused /\ got.skip >= i + frames[f] - 1

\* One or the other holds of every frame not given, in every line that b is the
\* beginning of.
SparesFrames(b, got) ==
    \A line \in Seq(Byte) : Sound(line) /\ AtFront(b, line) =>
        \A f \in DOMAIN frames : \A i \in Nat :
            Whole(line, f, i) /\ StartsLine(line, i) =>
                got.frame = f \/ Refuses(got, f, i) \/ Spares(got, f, i)

\* The result of a call on b.
ParsesInto(b, got) ==
    /\ got \in [skip : 0..Len(b), frame : Nat, more : BOOLEAN]
    /\ got.frame # 0 => \E i \in 1..got.skip : b[i].of = <<got.frame, 1>>

\* A search stops at the first place where it may.
LEMMA FirstStop ==
    ASSUME NEW b \in Seq(Byte), NEW S \in SUBSET (0..Len(b))
    PROVE  LET T == {k \in 0..Len(b) : k \in S \/ k = Len(b)}
               n == Min(T)
           IN  /\ n \in 0..Len(b) /\ (n \in S \/ n = Len(b))
               /\ \A k \in 0..Len(b) : k < n => k \notin S
<1> DEFINE T == {k \in 0..Len(b) : k \in S \/ k = Len(b)}
<1>1. Len(b) \in T /\ T \in SUBSET Nat /\ \A k \in T : k \in 0..Len(b)
  OBVIOUS
<1>2. Min(T) \in T /\ \A k \in T : Min(T) <= k
  <2> HIDE DEF T
  <2> QED BY <1>1, LeastExists
<1>3. Min(T) \in 0..Len(b) /\ (Min(T) \in S \/ Min(T) = Len(b))
  BY <1>2
<1>4. \A k \in 0..Len(b) : k < Min(T) => k \notin S
  BY <1>2
<1>5. QED
  BY <1>3, <1>4

\* Where a search for Start ends.
SearchesStart(b, n) ==
    /\ n \in 0..Len(b)
    /\ n < Len(b) => b[n + 1].v = Start
    /\ \A k \in 0..Len(b) : k < n => b[k + 1].v # Start

\* A search for Start stops at the first one, or at the end.
LEMMA SearchStart ==
    ASSUME NEW b \in Seq(Byte)
    PROVE  SearchesStart(b, Search(b, LAMBDA k : k < Len(b) /\ b[k + 1].v = Start))
<1> DEFINE S == {k \in 0..Len(b) : k < Len(b) /\ b[k + 1].v = Start}
           T == {k \in 0..Len(b) : k \in S \/ k = Len(b)}
           U == {k \in 0..Len(b) : (k < Len(b) /\ b[k + 1].v = Start) \/ k = Len(b)}
<1>1. T = U
  OBVIOUS
<1>2. /\ Min(T) \in 0..Len(b) /\ (Min(T) \in S \/ Min(T) = Len(b))
      /\ \A k \in 0..Len(b) : k < Min(T) => k \notin S
  <2>1. S \in SUBSET (0..Len(b))
    OBVIOUS
  <2> HIDE DEF S
  <2>2. QED
    BY <2>1, FirstStop
<1>3. SearchesStart(b, Min(U))
  <2> DEFINE n == Min(T)
  <2>1. /\ n \in 0..Len(b) /\ (n \in S \/ n = Len(b))
        /\ \A k \in 0..Len(b) : k < n => k \notin S
    BY <1>2
  <2> HIDE DEF n, T, U
  <2>2. SearchesStart(b, n)
    BY <2>1 DEF SearchesStart
  <2>3. QED
    BY <1>1, <2>2 DEF n
<1>4. QED
  BY <1>3 DEF Search

\* A checksum holds exactly for the bytes of one frame, from its first on.
LEMMA IntactIs ==
    ASSUME NEW rest \in Seq(Byte), NEW n \in 1..Len(rest)
    PROVE  Intact(SubSeq(rest, 1, n)) <=>
               /\ \A k \in 1..n : rest[k].of = <<rest[1].of[1], k>>
               /\ rest[1].of[1] # 0
<1> DEFINE s == SubSeq(rest, 1, n)
<1>1. s \in Seq(Byte) /\ Len(s) = n /\ \A k \in 1..n : s[k] = rest[k]
  <2>1. \A k \in 1..n : rest[k] \in Byte
    OBVIOUS
  <2>2. /\ s \in Seq(Byte) /\ Len(s) = IF 1 <= n THEN n - 1 + 1 ELSE 0
        /\ \A k \in 1..(n - 1 + 1) : s[k] = rest[1 + k - 1]
    BY <2>1, SubSeqProperties
  <2>3. n - 1 + 1 = n /\ 1 <= n /\ \A k \in 1..n : 1 + k - 1 = k
    OBVIOUS
  <2> HIDE DEF s
  <2>4. Len(s) = n
    BY <2>2, <2>3
  <2>5. \A k \in 1..n : s[k] = rest[k]
    BY <2>2, <2>3
  <2>6. QED
    BY <2>2, <2>4, <2>5
<1> HIDE DEF s
<1>2. DOMAIN s = 1..n /\ 1 \in 1..n
  BY <1>1
<1>3. Intact(s) <=> /\ \A k \in 1..n : rest[k].of = <<rest[1].of[1], k>>
                    /\ rest[1].of[1] # 0
  BY <1>1, <1>2 DEF Intact
<1>4. QED
  BY <1>3 DEF s

\* A frame found without an error is given or refused, and skipped either way.
LEMMA DecodedIs ==
    ASSUME NEW n, NEW g
    PROVE  /\ Decoded(n, g) \in {Gives(n, g), Nothing(n)}
           /\ Decoded(n, g).skip = n
           /\ Decoded(n, g).frame = g \/ g \in refused
BY DEF Decoded, Gives, Nothing

\* How a candidate ends: with a length that no frame has, too few bytes,
\* damaged bytes, bytes of no frame, or a frame, given or refused.
CandidateEnd(n, rest, at, size, resync, got) ==
    LET v == rest[at].v
    IN  \/ v \notin 0..MaxPayload /\ got = Nothing(n + resync)
        \/ v \in 0..MaxPayload /\ Len(rest) < size + v /\ got = Nothing(n)
        \/ /\ v \in 0..MaxPayload /\ size + v <= Len(rest)
           /\ ~\A k \in 1..(size + v) : rest[k].of = <<rest[1].of[1], k>>
           /\ got = Nothing(n + resync)
        \/ /\ v \in 0..MaxPayload /\ size + v <= Len(rest)
           /\ rest[1].of[1] = 0
           /\ got = Nothing(n + resync)
        \/ /\ v \in 0..MaxPayload /\ size + v <= Len(rest)
           /\ \A k \in 1..(size + v) : rest[k].of = <<rest[1].of[1], k>>
           /\ rest[1].of[1] # 0
           /\ got = Decoded(n + (size + v), rest[1].of[1])

\* A candidate ends in one of these ways.
LEMMA CandidateEnds ==
    ASSUME NEW n \in Nat, NEW rest \in Seq(Byte), NEW at \in 1..Len(rest),
           NEW size \in Nat \ {0}, NEW resync \in Nat
    PROVE  CandidateEnd(n, rest, at, size, resync, Candidate(n, rest, at, size, resync))
<1> DEFINE v == rest[at].v
           w == size + v
           got == Candidate(n, rest, at, size, resync)
<1>1. v \in Nat /\ Len(rest) \in Nat /\ MaxPayload \in Nat
  <2>1. rest[at] \in Byte
    OBVIOUS
  <2>2. QED
    BY <2>1, FramingAssumption DEF Byte
<1>2. w \in Nat /\ w >= 1
  BY <1>1
<1>3. got = IF v \notin 0..MaxPayload THEN Nothing(n + resync)
            ELSE IF Len(rest) < w THEN Nothing(n)
            ELSE IF ~Intact(SubSeq(rest, 1, w)) THEN Nothing(n + resync)
            ELSE Decoded(n + w, rest[1].of[1])
  BY DEF Candidate
<1> HIDE DEF got, v, w
<1>4. w <= Len(rest) =>
         (Intact(SubSeq(rest, 1, w)) <=>
            /\ \A k \in 1..w : rest[k].of = <<rest[1].of[1], k>>
            /\ rest[1].of[1] # 0)
  <2> SUFFICES ASSUME w <= Len(rest)
               PROVE  Intact(SubSeq(rest, 1, w)) <=>
                        /\ \A k \in 1..w : rest[k].of = <<rest[1].of[1], k>>
                        /\ rest[1].of[1] # 0
    OBVIOUS
  <2>1. w \in 1..Len(rest)
    BY <1>1, <1>2
  <2>2. QED
    BY <2>1, IntactIs
<1>5. w <= Len(rest) <=> ~(Len(rest) < w)
  BY <1>1, <1>2
<1>6. \/ v \notin 0..MaxPayload /\ got = Nothing(n + resync)
      \/ v \in 0..MaxPayload /\ Len(rest) < w /\ got = Nothing(n)
      \/ /\ v \in 0..MaxPayload /\ w <= Len(rest)
         /\ ~\A k \in 1..w : rest[k].of = <<rest[1].of[1], k>>
         /\ got = Nothing(n + resync)
      \/ /\ v \in 0..MaxPayload /\ w <= Len(rest)
         /\ rest[1].of[1] = 0
         /\ got = Nothing(n + resync)
      \/ /\ v \in 0..MaxPayload /\ w <= Len(rest)
         /\ \A k \in 1..w : rest[k].of = <<rest[1].of[1], k>>
         /\ rest[1].of[1] # 0
         /\ got = Decoded(n + w, rest[1].of[1])
  BY <1>3, <1>4, <1>5
<1>7. QED
  BY <1>6, Zenon DEF CandidateEnd, got, v, w

\* What a parser looks at behind the bytes it skips.
LEMMA RestIs ==
    ASSUME NEW b \in Seq(Byte), NEW n \in 0..Len(b)
    PROVE  /\ Drop(b, n) \in Seq(Byte) /\ Len(Drop(b, n)) = Len(b) - n
           /\ \A k \in 1..(Len(b) - n) : Drop(b, n)[k] = b[n + k] /\ b[n + k] \in Byte
<1>1. n \in Nat /\ Len(b) \in Nat /\ n <= Len(b)
  OBVIOUS
<1>2. \A k \in 1..(Len(b) - n) : b[n + k] \in Byte
  <2> TAKE k \in 1..(Len(b) - n)
  <2>1. n + k \in 1..Len(b)
    BY <1>1
  <2>2. QED
    BY <2>1
<1>3. QED
  BY <1>1, <1>2, DropIs

\* A call that gives nothing, by its parts.
LEMMA NothingIs ==
    ASSUME NEW b \in Seq(Byte), NEW n \in 0..Len(b)
    PROVE  ParsesInto(b, Nothing(n))
BY DEF Nothing, ParsesInto

\* The same for a call that gives a frame.
LEMMA GivesIs ==
    ASSUME NEW b \in Seq(Byte), NEW n \in 0..Len(b), NEW g \in Nat,
           g # 0 => \E i \in 1..n : b[i].of = <<g, 1>>
    PROVE  ParsesInto(b, Gives(n, g))
BY DEF Gives, ParsesInto

\* What a candidate gives is a frame that begins in the bytes it skips.
LEMMA CandidateInto ==
    ASSUME NEW b \in Seq(Byte), NEW n \in 0..Len(b), NEW at \in 1..(Len(b) - n),
           NEW size \in Nat \ {0}, NEW resync \in 0..(Len(b) - n)
    PROVE  ParsesInto(b, Candidate(n, Drop(b, n), at, size, resync))
<1> DEFINE rest == Drop(b, n)
           v == rest[at].v
           got == Candidate(n, rest, at, size, resync)
<1>1. /\ rest \in Seq(Byte) /\ Len(rest) = Len(b) - n
      /\ \A k \in 1..(Len(b) - n) : rest[k] = b[n + k] /\ b[n + k] \in Byte
  BY RestIs
<1>2. n \in Nat /\ Len(b) \in Nat /\ n <= Len(b) /\ MaxPayload \in Nat
  BY FramingAssumption
<1> HIDE DEF rest
<1>3. CandidateEnd(n, rest, at, size, resync, got)
  <2>1. at \in 1..Len(rest) /\ resync \in Nat
    BY <1>1
  <2>2. QED
    BY <1>1, <1>2, <2>1, CandidateEnds
<1> SUFFICES ParsesInto(b, got)
  BY DEF rest
<1> HIDE DEF got, v
<1>4. CASE got = Nothing(n + resync)
  BY <1>2, <1>4 DEF Nothing, ParsesInto
<1>5. CASE got = Nothing(n)
  BY <1>2, <1>5 DEF Nothing, ParsesInto
<1>6. CASE /\ v \in 0..MaxPayload /\ size + v <= Len(rest)
           /\ \A k \in 1..(size + v) : rest[k].of = <<rest[1].of[1], k>>
           /\ got = Decoded(n + (size + v), rest[1].of[1])
  <2>1. v \in Nat /\ size + v \in Nat /\ 1 <= size + v /\ n + (size + v) \in 0..Len(b)
    BY <1>1, <1>2, <1>6
  <2>2. 1 \in 1..(Len(b) - n) /\ rest[1] = b[n + 1] /\ rest[1] \in Byte
    BY <1>1, <1>2, <1>6, <2>1
  <2>3. rest[1].of = <<rest[1].of[1], 1>>
    BY <1>6, <2>1
  <2>4. n + 1 \in 1..(n + (size + v))
    BY <1>2, <2>1
  <2>5. rest[1].of[1] \in Nat
    BY <2>2 DEF Byte
  <2>6. \E i \in 1..(n + (size + v)) : b[i].of = <<rest[1].of[1], 1>>
    BY <2>2, <2>3, <2>4
  <2>7. QED
    BY <1>6, <2>1, <2>5, <2>6, NothingIs, GivesIs DEF Decoded
<1>7. QED
  BY <1>3, <1>4, <1>5, <1>6 DEF CandidateEnd, v

\* A frame f at place i of a line.
LEMMA FrameAt ==
    ASSUME FramesOK, NEW L \in Seq(Byte), Sound(L), NEW f \in DOMAIN frames,
           NEW i \in Nat, Whole(L, f, i)
    PROVE  /\ f \in Nat /\ f # 0
           /\ frames[f] \in Nat /\ frames[f] >= 3 /\ frames[f] \in FrameSize..(FrameSize + MaxPayload)
           /\ i \in 1..Len(L)
           /\ \A k \in 1..frames[f] : /\ i + k - 1 \in 1..Len(L)
                                      /\ L[i + k - 1].of = <<f, k>>
                                      /\ Genuine(L[i + k - 1])
<1>1. /\ f \in Nat /\ f # 0
      /\ frames[f] \in Nat /\ frames[f] >= 3 /\ frames[f] \in FrameSize..(FrameSize + MaxPayload)
  BY FramingAssumption DEF FramesOK, FrameSize
<1>2. i >= 1 /\ i + frames[f] - 1 <= Len(L)
      /\ \A k \in 1..frames[f] : L[i + k - 1].of = <<f, k>>
  BY DEF Whole
<1>3. ASSUME NEW k \in 1..frames[f]
      PROVE  /\ i + k - 1 \in 1..Len(L)
             /\ L[i + k - 1].of = <<f, k>>
             /\ Genuine(L[i + k - 1])
  <2> DEFINE x == i + k - 1
  <2>1. x \in 1..Len(L)
    BY <1>1, <1>2
  <2>2. L[x].of = <<f, k>>
    BY <1>2
  <2> HIDE DEF x
  <2>3. Genuine(L[x])
    BY <2>1, <2>2 DEF Sound
  <2>4. QED
    BY <2>1, <2>2, <2>3 DEF x
<1>4. i \in 1..Len(L)
  BY <1>1, <1>2
<1>5. QED
  BY <1>1, <1>3, <1>4

\* A candidate skips no byte of a frame it neither gives nor refuses.
LEMMA CandidateSpares ==
    ASSUME FramesOK, NEW L \in Seq(Byte), Sound(L), NEW f \in DOMAIN frames,
           NEW i \in Nat, Whole(L, f, i), NEW b \in Seq(Byte), AtFront(b, L),
           NEW n \in 0..Len(b), NEW at \in 1..(Len(b) - n),
           NEW size \in Nat \ {0}, NEW resync \in 0..(Len(b) - n),
           n < i, format # "at",
           i = n + 1 => b[n + at].v = frames[f] - size /\ frames[f] - size \in 0..MaxPayload,
           i # n + 1 => n + resync < i
    PROVE  LET got == Candidate(n, Drop(b, n), at, size, resync)
           IN  got.frame = f \/ Refuses(got, f, i) \/ Spares(got, f, i)
<1> DEFINE rest == Drop(b, n)
           v == rest[at].v
           got == Candidate(n, rest, at, size, resync)
<1>1. /\ rest \in Seq(Byte) /\ Len(rest) = Len(b) - n
      /\ \A k \in 1..(Len(b) - n) : rest[k] = b[n + k] /\ b[n + k] \in Byte
  BY RestIs
<1>2. n \in Nat /\ Len(b) \in Nat /\ n <= Len(b) /\ Len(L) \in Nat /\ Len(b) <= Len(L)
  BY DEF AtFront
<1> HIDE DEF rest
<1>3. CandidateEnd(n, rest, at, size, resync, got)
  <2>1. at \in 1..Len(rest) /\ resync \in Nat
    BY <1>1
  <2>2. QED
    BY <1>1, <1>2, <2>1, CandidateEnds
<1>4. /\ f # 0 /\ frames[f] \in Nat /\ frames[f] >= 3
      /\ \A k \in 1..frames[f] : i + k - 1 \in 1..Len(L) /\ L[i + k - 1].of = <<f, k>>
  BY FrameAt, SMTT(30)
<1>5. \A k \in 1..Len(rest) : n + k \in 1..Len(L) /\ rest[k] = L[n + k]
  <2> TAKE k \in 1..Len(rest)
  <2>1. n + k \in 1..Len(b) /\ rest[k] = b[n + k]
    BY <1>1, <1>2
  <2>2. QED
    BY <1>2, <2>1, SMTT(30) DEF AtFront
<1>6. i = n + 1 => /\ v = frames[f] - size /\ v \in 0..MaxPayload /\ size + v = frames[f]
                   /\ \A k \in 1..Len(rest) : k <= frames[f] => rest[k].of = <<f, k>>
  <2> SUFFICES ASSUME i = n + 1
               PROVE  /\ v = frames[f] - size /\ v \in 0..MaxPayload /\ size + v = frames[f]
                      /\ \A k \in 1..Len(rest) : k <= frames[f] => rest[k].of = <<f, k>>
    OBVIOUS
  <2>1. v = frames[f] - size /\ v \in 0..MaxPayload
    BY <1>1
  <2> HIDE DEF v
  <2>2. size + v = frames[f]
    BY <1>4, <2>1, SMTT(30)
  <2>3. ASSUME NEW k \in 1..Len(rest), k <= frames[f] PROVE rest[k].of = <<f, k>>
    <3>1. k \in 1..frames[f] /\ i + k - 1 = n + k
      BY <1>1, <1>2, <1>4, <2>3
    <3>2. L[i + k - 1].of = <<f, k>> /\ rest[k] = L[n + k]
      BY <1>4, <1>5, <3>1
    <3>3. QED
      BY <3>1, <3>2
  <2>4. QED
    BY <2>1, <2>2, <2>3
<1> SUFFICES got.frame = f \/ Refuses(got, f, i) \/ Spares(got, f, i)
  BY DEF rest
<1> HIDE DEF got, v
<1>7. CASE got = Nothing(n)
  BY <1>7 DEF Nothing, Spares
<1>8. CASE got = Nothing(n + resync) /\ i # n + 1
  BY <1>8 DEF Nothing, Spares
<1>9. CASE i = n + 1 /\ v \in 0..MaxPayload /\ size + v <= Len(rest)
  <2>1. size + v = frames[f] /\ Len(rest) \in Nat /\ v \in Int /\ size \in Int
    BY <1>1, <1>2, <1>6, <1>9
  <2>2. 1 \in 1..(size + v) /\ \A k \in 1..(size + v) : k \in 1..Len(rest) /\ k <= frames[f]
    BY <1>4, <1>9, <2>1, SMTT(30)
  <2>3. \A k \in 1..(size + v) : rest[k].of = <<f, k>>
    BY <1>6, <1>9, <2>2
  <2>4. rest[1].of[1] = f
    <3>1. rest[1].of = <<f, 1>>
      BY <2>2, <2>3
    <3>2. QED
      BY <3>1
  <2>5. \A k \in 1..(size + v) : rest[k].of = <<rest[1].of[1], k>>
    BY <2>3, <2>4
  <2>6. ~(Len(rest) < size + v)
    BY <1>9, <2>1
  <2>7. got = Decoded(n + (size + v), rest[1].of[1])
    BY <1>3, <1>4, <1>9, <2>4, <2>5, <2>6 DEF CandidateEnd, v
  <2>8. n + (size + v) = i + frames[f] - 1
    BY <1>2, <1>4, <1>9, <2>1
  <2>9. QED
    BY <1>4, <2>4, <2>7, <2>8, DecodedIs DEF Refuses
<1>10. CASE /\ i # n + 1 /\ v \in 0..MaxPayload /\ size + v <= Len(rest)
            /\ \A k \in 1..(size + v) : rest[k].of = <<rest[1].of[1], k>>
            /\ got = Decoded(n + (size + v), rest[1].of[1])
  <2>1. got.skip = n + (size + v)
    BY <1>10, DecodedIs
  <2>2. CASE n + (size + v) < i
    BY <2>1, <2>2 DEF Spares
  <2>3. ~(i <= n + (size + v))
    <3> SUFFICES ASSUME i <= n + (size + v) PROVE FALSE
      OBVIOUS
    <3> DEFINE k == i - n
    <3>1. k \in 1..(size + v) /\ k \in 1..Len(rest) /\ n + k = i /\ k # 1
      BY <1>1, <1>2, <1>10
    <3> HIDE DEF k
    <3>2. rest[k].of = <<rest[1].of[1], k>> /\ rest[k] = L[i]
      BY <1>5, <1>10, <3>1
    <3>3. L[i].of = <<f, 1>>
      <4>1. 1 \in 1..frames[f] /\ i + 1 - 1 = i
        BY <1>4
      <4>2. QED
        BY <1>4, <4>1
    <3>4. QED
      BY <3>1, <3>2, <3>3
  <2>4. size + v \in Nat
    BY <1>10, SMTT(30)
  <2>5. QED
    BY <1>2, <2>2, <2>3, <2>4
<1>11. QED
  BY <1>1, <1>3, <1>6, <1>7, <1>8, <1>9, <1>10 DEF CandidateEnd, v

\* What a frame of each format looks like.
LEMMA FrameLooks ==
    ASSUME FramesOK, NEW L \in Seq(Byte), Sound(L), NEW f \in DOMAIN frames,
           NEW i \in Nat, Whole(L, f, i)
    PROVE  LET n == frames[f]
           IN  /\ n \in Nat /\ n >= 3 /\ i >= 1 /\ i + n - 1 <= Len(L)
               /\ f \in Nat /\ f # 0
               /\ format = "ubx" => /\ L[i].v = Start /\ L[i + 1].v = Second
                                    /\ L[i + 2].v = n - UbxSize /\ n >= 4
                                    /\ n - UbxSize \in 0..MaxPayload
               /\ format = "rtcm" => /\ L[i].v = Start /\ L[i + 1].v = n - RtcmSize
                                     /\ n - RtcmSize \in 0..MaxPayload
               /\ format \in Lines => n <= MaxPayload + 3
               /\ \A k \in 1..n : L[i + k - 1].of = <<f, k>>
               /\ format = "nmea" =>
                     \A k \in 1..n : /\ L[i + k - 1].v = Start <=> k = 1
                                     /\ L[i + k - 1].v = Cr <=> k = n - 1
                                     /\ L[i + k - 1].v = Lf <=> k = n
               /\ format = "ctrl" =>
                     \A k \in 1..n : /\ k = 1 => L[i + k - 1].v = Start
                                     /\ L[i + k - 1].v # Cr
                                     /\ L[i + k - 1].v = Lf <=> k = n
               /\ format = "at" =>
                     \A k \in 1..n : /\ L[i + k - 1].v = Cr <=> k = n - 1
                                     /\ L[i + k - 1].v = Lf <=> k = n
<1> DEFINE n == frames[f]
<1>1. /\ n \in Nat /\ n >= 3 /\ n \in FrameSize..(FrameSize + MaxPayload)
      /\ f \in Nat /\ f # 0
      /\ \A k \in 1..n : L[i + k - 1].of = <<f, k>> /\ Genuine(L[i + k - 1])
  BY FrameAt
<1>2. i >= 1 /\ i + n - 1 <= Len(L)
  BY DEF Whole
<1>3. /\ format \in {"ubx", "nmea"} => FrameSize = 4
      /\ format \notin {"ubx", "nmea"} => FrameSize = 3
      /\ MaxPayload \in Nat
  BY FramingAssumption DEF FrameSize
<1>4. ASSUME NEW k \in 1..n
      PROVE  /\ format = "ubx" => /\ k = 1 => L[i + k - 1].v = Start
                                  /\ k = 2 => L[i + k - 1].v = Second
                                  /\ k = 3 => L[i + k - 1].v = n - UbxSize
             /\ format = "rtcm" => /\ k = 1 => L[i + k - 1].v = Start
                                   /\ k = 2 => L[i + k - 1].v = n - RtcmSize
             /\ format = "nmea" => (L[i + k - 1].v = Start <=> k = 1)
             /\ format = "ctrl" => /\ k = 1 => L[i + k - 1].v = Start
                                   /\ L[i + k - 1].v # Cr
             /\ format \in {"nmea", "at"} => (L[i + k - 1].v = Cr <=> k = n - 1)
             /\ format \in {"nmea", "ctrl", "at"} => (L[i + k - 1].v = Lf <=> k = n)
  <2>1. L[i + k - 1].of = <<f, k>> /\ Genuine(L[i + k - 1])
    BY <1>1
  <2>2. QED
    BY <2>1 DEF Genuine
<1>5. /\ 1 \in 1..n /\ 2 \in 1..n /\ 3 \in 1..n
      /\ i + 1 - 1 = i /\ i + 2 - 1 = i + 1 /\ i + 3 - 1 = i + 2
  BY <1>1
<1>6. /\ format = "ubx" => /\ L[i].v = Start /\ L[i + 1].v = Second
                           /\ L[i + 2].v = n - UbxSize
      /\ format = "rtcm" => L[i].v = Start /\ L[i + 1].v = n - RtcmSize
  BY <1>4, <1>5
<1> HIDE DEF n
<1>7. /\ format = "ubx" => n >= 4 /\ n - UbxSize \in 0..MaxPayload
      /\ format = "rtcm" => n - RtcmSize \in 0..MaxPayload
      /\ format \in Lines => n <= MaxPayload + 3
  BY <1>1, <1>3, SMTT(30) DEF UbxSize, RtcmSize, Lines
<1>8. /\ \A k \in 1..n : L[i + k - 1].of = <<f, k>>
      /\ format = "nmea" =>
            \A k \in 1..n : /\ L[i + k - 1].v = Start <=> k = 1
                            /\ L[i + k - 1].v = Cr <=> k = n - 1
                            /\ L[i + k - 1].v = Lf <=> k = n
      /\ format = "ctrl" =>
            \A k \in 1..n : /\ k = 1 => L[i + k - 1].v = Start
                            /\ L[i + k - 1].v # Cr
                            /\ L[i + k - 1].v = Lf <=> k = n
      /\ format = "at" =>
            \A k \in 1..n : /\ L[i + k - 1].v = Cr <=> k = n - 1
                            /\ L[i + k - 1].v = Lf <=> k = n
  BY <1>1, <1>4
<1>9. QED
  BY <1>1, <1>2, <1>6, <1>7, <1>8 DEF n

\* Where the search for the boundary of UBX stops.
LEMMA UbxSearch ==
    ASSUME NEW b \in Seq(Byte)
    PROVE  LET n == Search(b, LAMBDA k : \/ Len(b) - k < UbxSize
                                         \/ b[k + 1].v = Start /\ b[k + 2].v = Second)
           IN  /\ n \in 0..Len(b)
               /\ \/ Len(b) - n < UbxSize
                  \/ b[n + 1].v = Start /\ b[n + 2].v = Second
               /\ \A k \in 0..Len(b) : k < n =>
                     /\ Len(b) - k >= UbxSize
                     /\ ~(b[k + 1].v = Start /\ b[k + 2].v = Second)
<1> DEFINE From(k) == \/ Len(b) - k < UbxSize
                      \/ b[k + 1].v = Start /\ b[k + 2].v = Second
           S == {k \in 0..Len(b) : From(k)}
           T == {k \in 0..Len(b) : k \in S \/ k = Len(b)}
           U == {k \in 0..Len(b) : From(k) \/ k = Len(b)}
           n == Min(U)
<1>1. T = U
  OBVIOUS
<1>2. /\ n \in 0..Len(b) /\ (n \in S \/ n = Len(b))
      /\ \A k \in 0..Len(b) : k < n => k \notin S
  <2>1. S \in SUBSET (0..Len(b))
    OBVIOUS
  <2>2. /\ Min(T) \in 0..Len(b) /\ (Min(T) \in S \/ Min(T) = Len(b))
        /\ \A k \in 0..Len(b) : k < Min(T) => k \notin S
    <3> HIDE DEF S
    <3> QED BY <2>1, FirstStop
  <2> HIDE DEF T, U, S
  <2>3. QED
    BY <1>1, <2>2
<1>3. n = Search(b, LAMBDA k : \/ Len(b) - k < UbxSize
                               \/ b[k + 1].v = Start /\ b[k + 2].v = Second)
  BY DEF Search
<1>4. /\ n \in 0..Len(b)
      /\ \/ Len(b) - n < UbxSize
         \/ b[n + 1].v = Start /\ b[n + 2].v = Second
      /\ \A k \in 0..Len(b) : k < n =>
            /\ Len(b) - k >= UbxSize
            /\ ~(b[k + 1].v = Start /\ b[k + 2].v = Second)
  <2>1. n \in 0..Len(b) /\ (From(n) \/ n = Len(b))
        /\ \A k \in 0..Len(b) : k < n => ~From(k)
    <3> HIDE DEF n, From
    <3> QED BY <1>2
  <2> HIDE DEF n
  <2>2. Len(b) \in Nat /\ UbxSize = 4
    BY DEF UbxSize
  <2>3. QED
    BY <2>1, <2>2
<1> HIDE DEF n
<1>5. QED
  BY <1>3, <1>4

\* What UBX finds at the front of a line spares the frames behind it.
LEMMA UbxCall ==
    ASSUME NEW b \in Seq(Byte)
    PROVE  /\ ParsesInto(b, UbxParse(b))
           /\ FramesOK /\ format = "ubx" => SparesFrames(b, UbxParse(b))
<1> DEFINE n == Search(b, LAMBDA k : \/ Len(b) - k < UbxSize
                                     \/ b[k + 1].v = Start /\ b[k + 2].v = Second)
           rest == Drop(b, n)
<1>1. /\ n \in 0..Len(b)
      /\ \/ Len(b) - n < UbxSize
         \/ b[n + 1].v = Start /\ b[n + 2].v = Second
      /\ \A k \in 0..Len(b) : k < n =>
            /\ Len(b) - k >= UbxSize
            /\ ~(b[k + 1].v = Start /\ b[k + 2].v = Second)
  BY UbxSearch
<1>2. UbxParse(b) = IF Len(rest) < UbxSize THEN Nothing(n)
                    ELSE Candidate(n, rest, 3, UbxSize, 2)
  BY DEF UbxParse
<1> HIDE DEF n
<1>3. Len(rest) = Len(b) - n /\ Len(b) \in Nat /\ n \in Nat
  BY <1>1, RestIs
<1>4. UbxSize \in Nat \ {0} /\ UbxSize = 4
  BY DEF UbxSize
<1>5. Len(b) - n >= 4 => 3 \in 1..(Len(b) - n) /\ 2 \in 0..(Len(b) - n)
  BY <1>3
<1>6. ParsesInto(b, UbxParse(b))
  <2>1. CASE Len(rest) < UbxSize
    BY <1>1, <1>2, <2>1, NothingIs
  <2>2. CASE ~(Len(rest) < UbxSize)
    <3>1. UbxParse(b) = Candidate(n, rest, 3, UbxSize, 2) /\ Len(b) - n >= 4
      BY <1>2, <1>3, <1>4, <2>2
    <3>2. QED
      BY <1>1, <1>4, <1>5, <3>1, CandidateInto
  <2>3. QED
    BY <2>1, <2>2
<1>7. ASSUME FramesOK, NEW L \in Seq(Byte), Sound(L), NEW f \in DOMAIN frames,
             NEW i \in Nat, Whole(L, f, i), AtFront(b, L), format = "ubx"
      PROVE  \/ UbxParse(b).frame = f \/ Refuses(UbxParse(b), f, i)
             \/ Spares(UbxParse(b), f, i)
  <2>1. /\ frames[f] \in Nat /\ frames[f] >= 4 /\ i >= 1 /\ i + frames[f] - 1 <= Len(L)
        /\ L[i].v = Start /\ L[i + 1].v = Second /\ L[i + 2].v = frames[f] - UbxSize
        /\ frames[f] - UbxSize \in 0..MaxPayload
    BY <1>7, FrameLooks
  <2>2. Len(b) <= Len(L) /\ Len(L) \in Nat /\ \A k \in 1..Len(b) : b[k] = L[k]
    BY <1>7 DEF AtFront
  <2>3. n < i
    <3> SUFFICES ASSUME n >= i PROVE FALSE
      BY <1>3
    <3>1. i - 1 \in 0..Len(b) /\ i - 1 < n
      BY <1>1, <1>3, <2>1
    <3>2. Len(b) - (i - 1) >= 4 /\ ~(b[(i - 1) + 1].v = Start /\ b[(i - 1) + 2].v = Second)
      BY <1>1, <1>4, <3>1
    <3>3. (i - 1) + 1 = i /\ (i - 1) + 2 = i + 1 /\ i \in 1..Len(b) /\ i + 1 \in 1..Len(b)
      <4>1. i \in Int /\ i >= 1 /\ Len(b) - (i - 1) >= 4
        BY <2>1, <3>2
      <4>2. QED
        BY <1>3, <4>1
    <3>4. QED
      BY <2>1, <2>2, <3>2, <3>3
  <2>4. CASE Len(rest) < UbxSize
    BY <1>2, <1>7, <2>3, <2>4 DEF Nothing, Spares
  <2>5. CASE ~(Len(rest) < UbxSize)
    <3>1. UbxParse(b) = Candidate(n, rest, 3, UbxSize, 2) /\ Len(b) - n >= 4
      BY <1>2, <1>3, <1>4, <2>5
    <3>2. ASSUME i = n + 1
          PROVE  b[n + 3].v = frames[f] - UbxSize /\ frames[f] - UbxSize \in 0..MaxPayload
      <4>1. n + 3 \in 1..Len(b) /\ i + 2 = n + 3
        BY <1>3, <3>1, <3>2
      <4>2. QED
        BY <2>1, <2>2, <4>1
    <3>3. ASSUME i # n + 1 PROVE n + 2 < i
      <4> SUFFICES ASSUME i = n + 2 PROVE FALSE
        BY <1>3, <2>3, <3>3
      <4>1. b[n + 2].v = Second /\ n + 2 \in 1..Len(b)
        BY <1>1, <1>3, <1>4, <3>1
      <4>2. QED
        BY <2>1, <2>2, <4>1, SMTT(30) DEF Start, Second
    <3>4. QED
      BY <1>1, <1>4, <1>5, <1>7, <2>3, <3>1, <3>2, <3>3, CandidateSpares
  <2>6. QED
    BY <2>4, <2>5
<1>8. QED
  BY <1>6, <1>7 DEF SparesFrames

\* A search for Start stops before a frame that begins with it.
LEMMA StartBefore ==
    ASSUME NEW b \in Seq(Byte), NEW n, SearchesStart(b, n), NEW L \in Seq(Byte),
           AtFront(b, L), NEW i \in 1..Len(L), L[i].v = Start
    PROVE  n < i
<1>1. /\ n \in 0..Len(b) /\ Len(b) \in Nat /\ i \in Nat /\ i >= 1
      /\ \A k \in 0..Len(b) : k < n => b[k + 1].v # Start
      /\ \A k \in 1..Len(b) : b[k] = L[k]
  <2>1. /\ n \in 0..Len(b)
        /\ \A k \in 0..Len(b) : k < n => b[k + 1].v # Start
    BY DEF SearchesStart
  <2>2. \A k \in 1..Len(b) : b[k] = L[k]
    BY DEF AtFront
  <2>3. Len(b) \in Nat /\ i \in Nat /\ i >= 1
    OBVIOUS
  <2>4. QED
    BY <2>1, <2>2, <2>3
<1> SUFFICES ASSUME n >= i PROVE FALSE
  BY <1>1
<1>2. i - 1 \in 0..Len(b) /\ i - 1 < n /\ (i - 1) + 1 = i /\ i \in 1..Len(b)
  BY <1>1
<1>3. b[i].v # Start
  BY <1>1, <1>2
<1>4. QED
  BY <1>1, <1>2, <1>3

\* What RTCM finds at the front of a line spares the frames behind it.
LEMMA RtcmCall ==
    ASSUME NEW b \in Seq(Byte)
    PROVE  /\ ParsesInto(b, RtcmParse(b))
           /\ FramesOK /\ format = "rtcm" => SparesFrames(b, RtcmParse(b))
<1> DEFINE n == Search(b, LAMBDA k : k < Len(b) /\ b[k + 1].v = Start)
           rest == Drop(b, n)
<1>1. SearchesStart(b, n)
  BY SearchStart
<1>2. RtcmParse(b) = IF Len(rest) < 2 THEN Nothing(n)
                     ELSE Candidate(n, rest, 2, RtcmSize, 1)
  BY DEF RtcmParse
<1> HIDE DEF n
<1>3. n \in 0..Len(b) /\ Len(b) \in Nat /\ n \in Nat
  BY <1>1 DEF SearchesStart
<1>4. Len(rest) = Len(b) - n
  BY <1>3, RestIs
<1>5. RtcmSize \in Nat \ {0} /\ RtcmSize = 3
  BY DEF RtcmSize
<1>6. Len(b) - n >= 2 => 2 \in 1..(Len(b) - n) /\ 1 \in 0..(Len(b) - n)
  BY <1>3
<1>7. ParsesInto(b, RtcmParse(b))
  <2>1. CASE Len(rest) < 2
    BY <1>2, <1>3, <2>1, NothingIs
  <2>2. CASE ~(Len(rest) < 2)
    <3>1. RtcmParse(b) = Candidate(n, rest, 2, RtcmSize, 1) /\ Len(b) - n >= 2
      BY <1>2, <1>3, <1>4, <2>2
    <3>2. QED
      BY <1>3, <1>5, <1>6, <3>1, CandidateInto
  <2>3. QED
    BY <2>1, <2>2
<1>8. ASSUME FramesOK, NEW L \in Seq(Byte), Sound(L), NEW f \in DOMAIN frames,
             NEW i \in Nat, Whole(L, f, i), AtFront(b, L), format = "rtcm"
      PROVE  \/ RtcmParse(b).frame = f \/ Refuses(RtcmParse(b), f, i)
             \/ Spares(RtcmParse(b), f, i)
  <2>1. /\ frames[f] \in Nat /\ frames[f] >= 3 /\ i >= 1 /\ i + frames[f] - 1 <= Len(L)
        /\ L[i].v = Start /\ L[i + 1].v = frames[f] - RtcmSize
        /\ frames[f] - RtcmSize \in 0..MaxPayload
    BY <1>8, FrameLooks
  <2>2. Len(b) <= Len(L) /\ Len(L) \in Nat /\ \A k \in 1..Len(b) : b[k] = L[k]
    BY <1>8 DEF AtFront
  <2>3. n < i
    <3>1. i \in 1..Len(L)
      BY <2>1, <2>2
    <3>2. QED
      BY <1>1, <1>8, <2>1, <3>1, StartBefore
  <2>4. CASE Len(rest) < 2
    BY <1>2, <1>8, <2>3, <2>4 DEF Nothing, Spares
  <2>5. CASE ~(Len(rest) < 2)
    <3>1. RtcmParse(b) = Candidate(n, rest, 2, RtcmSize, 1) /\ Len(b) - n >= 2
      BY <1>2, <1>3, <1>4, <2>5
    <3>2. ASSUME i = n + 1
          PROVE  b[n + 2].v = frames[f] - RtcmSize /\ frames[f] - RtcmSize \in 0..MaxPayload
      <4>1. n + 2 \in 1..Len(b) /\ i + 1 = n + 2
        BY <1>3, <3>1, <3>2
      <4>2. QED
        BY <2>1, <2>2, <4>1
    <3>3. i # n + 1 => n + 1 < i
      BY <1>3, <2>3
    <3>4. QED
      BY <1>3, <1>5, <1>6, <1>8, <2>3, <3>1, <3>2, <3>3, CandidateSpares
  <2>6. QED
    BY <2>4, <2>5
<1>9. QED
  BY <1>7, <1>8 DEF SparesFrames

\* The same for NMEA, which moves on whenever the end of a line is there.
LEMMA NmeaCall ==
    ASSUME NEW b \in Seq(Byte)
    PROVE  /\ ParsesInto(b, NmeaParse(b))
           /\ FramesOK /\ format = "nmea" => SparesFrames(b, NmeaParse(b))
           /\ (\E p \in 2..Len(b) : b[p - 1].v = Cr /\ b[p].v = Lf) => NmeaParse(b).skip > 0
<1> DEFINE n == Search(b, LAMBDA k : k < Len(b) /\ b[k + 1].v = Start)
           rest == Drop(b, n)
           r == Len(rest)
           End(l) == rest[l + 1].v = Cr /\ rest[l + 2].v = Lf
           stops == {l \in 1..(r - 2) : End(l) \/ rest[l + 1].v = Start}
           l == Min(stops)
           got == NmeaParse(b)
<1>1. SearchesStart(b, n)
  BY SearchStart
<1>2. got = IF stops = {} THEN Nothing(n)
            ELSE IF ~End(l) THEN Nothing(n + l)
            ELSE IF ~Intact(SubSeq(rest, 1, l + 2)) THEN Nothing(n + 1)
            ELSE Decoded(n + l + 2, rest[1].of[1])
  BY DEF NmeaParse
<1> HIDE DEF n, got
<1>3. n \in 0..Len(b) /\ Len(b) \in Nat /\ n \in Nat
  BY <1>1 DEF SearchesStart
<1>4. /\ rest \in Seq(Byte) /\ r = Len(b) - n
      /\ \A k \in 1..(Len(b) - n) : rest[k] = b[n + k] /\ b[n + k] \in Byte
  BY <1>3, RestIs
<1>5. stops # {} => /\ l \in 1..(r - 2) /\ (End(l) \/ rest[l + 1].v = Start)
                    /\ \A x \in stops : l <= x
  <2> SUFFICES ASSUME stops # {}
               PROVE  /\ l \in 1..(r - 2) /\ (End(l) \/ rest[l + 1].v = Start)
                      /\ \A x \in stops : l <= x
    OBVIOUS
  <2>1. stops \in SUBSET Nat
    OBVIOUS
  <2>2. l \in stops /\ \A x \in stops : l <= x
    <3> HIDE DEF stops
    <3> QED BY <2>1, LeastExists
  <2>3. \A x \in stops : x \in 1..(r - 2) /\ (End(x) \/ rest[x + 1].v = Start)
    OBVIOUS
  <2> HIDE DEF l, stops, End
  <2>4. QED
    BY <2>2, <2>3
<1> HIDE DEF rest, l, stops, End
<1>6. stops # {} => /\ l \in Nat /\ l >= 1 /\ l + 2 \in 1..r /\ n + l + 2 \in 0..Len(b)
                    /\ n + l \in 0..Len(b) /\ n + 1 \in 0..Len(b) /\ 1 \in 1..r
  BY <1>3, <1>4, <1>5
<1>7. stops # {} => (Intact(SubSeq(rest, 1, l + 2)) <=>
                       /\ \A k \in 1..(l + 2) : rest[k].of = <<rest[1].of[1], k>>
                       /\ rest[1].of[1] # 0)
  BY <1>4, <1>6, IntactIs
<1>8. ParsesInto(b, got)
  <2>1. CASE got = Nothing(n)
    BY <1>3, <2>1, NothingIs
  <2>2. CASE stops # {} /\ got = Nothing(n + l)
    BY <1>6, <2>2, NothingIs
  <2>3. CASE stops # {} /\ got = Nothing(n + 1)
    BY <1>6, <2>3, NothingIs
  <2>4. CASE /\ stops # {} /\ Intact(SubSeq(rest, 1, l + 2))
             /\ got = Decoded(n + l + 2, rest[1].of[1])
    <3>1. 1 \in 1..(l + 2) /\ n + 1 \in 1..(n + l + 2) /\ 1 \in 1..(Len(b) - n)
      BY <1>3, <1>4, <1>6, <2>4
    <3>2. rest[1].of = <<rest[1].of[1], 1>> /\ rest[1] = b[n + 1] /\ rest[1] \in Byte
      BY <1>4, <1>7, <2>4, <3>1
    <3>3. rest[1].of[1] \in Nat
      BY <3>2 DEF Byte
    <3>4. ParsesInto(b, Gives(n + l + 2, rest[1].of[1]))
      BY <1>6, <2>4, <3>1, <3>2, <3>3, GivesIs
    <3>5. ParsesInto(b, Nothing(n + l + 2))
      BY <1>6, <2>4, NothingIs
    <3>6. QED
      BY <2>4, <3>4, <3>5 DEF Decoded
  <2>5. QED
    BY <1>2, <2>1, <2>2, <2>3, <2>4
<1>9. ASSUME FramesOK, NEW L \in Seq(Byte), Sound(L), NEW f \in DOMAIN frames,
             NEW i \in Nat, Whole(L, f, i), AtFront(b, L), format = "nmea"
      PROVE  got.frame = f \/ Refuses(got, f, i) \/ Spares(got, f, i)
  <2> DEFINE m == frames[f]
  <2>1. /\ m \in Nat /\ m >= 3 /\ i >= 1 /\ i + m - 1 <= Len(L) /\ f # 0
        /\ \A k \in 1..m :
              /\ L[i + k - 1].of = <<f, k>>
              /\ L[i + k - 1].v = Start <=> k = 1
              /\ L[i + k - 1].v = Cr <=> k = m - 1
              /\ L[i + k - 1].v = Lf <=> k = m
    BY <1>9, FrameLooks
  <2>2. Len(b) <= Len(L) /\ Len(L) \in Nat /\ \A k \in 1..Len(b) : b[k] = L[k]
    BY <1>9 DEF AtFront
  <2> HIDE DEF m
  <2>3. L[i].v = Start /\ L[i].of = <<f, 1>>
    <3>1. 1 \in 1..m /\ i + 1 - 1 = i
      BY <2>1
    <3>2. QED
      BY <2>1, <3>1
  <2>4. n < i
    <3>1. i \in 1..Len(L)
      BY <2>1, <2>2
    <3>2. QED
      BY <1>1, <1>9, <2>3, <3>1, StartBefore
  <2>5. \A k \in 1..r : rest[k] = L[n + k]
    <3> TAKE k \in 1..r
    <3>1. k \in 1..(Len(b) - n) /\ n + k \in 1..Len(b)
      BY <1>3, <1>4
    <3>2. QED
      BY <1>4, <2>2, <3>1
  <2>6. CASE stops = {}
    BY <1>2, <1>9, <2>4, <2>6 DEF Nothing, Spares
  <2>7. CASE i = n + 1 /\ stops # {}
    <3>1. /\ l \in Int /\ m \in Int /\ r \in Int /\ l >= 1 /\ l + 2 <= r /\ m >= 3
      BY <1>3, <1>4, <1>6, <2>1, <2>7
    <3>2. \A k \in 1..r : k <= m => /\ rest[k].of = <<f, k>>
                                    /\ k # 1 => rest[k].v # Start
                                    /\ rest[k].v = Cr <=> k = m - 1
                                    /\ rest[k].v = Lf <=> k = m
      <4> SUFFICES ASSUME NEW k \in 1..r, k <= m
                   PROVE  /\ rest[k].of = <<f, k>>
                          /\ k # 1 => rest[k].v # Start
                          /\ rest[k].v = Cr <=> k = m - 1
                          /\ rest[k].v = Lf <=> k = m
        OBVIOUS
      <4>1. k \in 1..m /\ i + k - 1 = n + k
        BY <1>3, <1>4, <2>1, <2>7
      <4>2. rest[k] = L[i + k - 1]
        BY <2>5, <4>1
      <4>3. QED
        BY <2>1, <4>1, <4>2
    <3>3. l >= m - 2
      <4> SUFFICES ASSUME l < m - 2 PROVE FALSE
        BY <3>1
      <4>1. l + 1 \in 1..r /\ l + 1 <= m /\ l + 1 # 1 /\ l + 1 # m - 1
        BY <3>1
      <4>2. rest[l + 1].v # Start /\ rest[l + 1].v # Cr
        BY <3>2, <4>1
      <4>3. QED
        BY <1>5, <2>7, <4>2 DEF End
    <3>4. l <= m - 2
      <4> SUFFICES ASSUME m - 2 < l PROVE FALSE
        BY <3>1
      <4>1. /\ m - 2 \in 1..(r - 2) /\ m - 1 <= m /\ m <= m /\ m # m - 1 /\ (m - 2) + 1 = m - 1 /\ (m - 2) + 2 = m
            /\ m - 1 \in 1..r /\ m \in 1..r
        BY <3>1
      <4>2. rest[m - 1].v = Cr /\ rest[m].v = Lf
        BY <3>2, <4>1
      <4>3. m - 2 \in stops
        BY <4>1, <4>2 DEF stops, End
      <4>4. l <= m - 2
        BY <1>5, <2>7, <4>3
      <4>5. QED
        BY <3>1, <4>4
    <3>5. m <= m /\ m - 1 <= m /\ 1 <= m /\ m # m - 1 /\ l = m - 2 /\ l + 2 = m /\ l + 1 = m - 1 /\ m \in 1..r /\ m - 1 \in 1..r /\ 1 \in 1..r
      BY <3>1, <3>3, <3>4
    <3>6. End(l)
      BY <3>2, <3>5 DEF End
    <3>7. rest[1].of[1] = f
      <4>1. rest[1].of = <<f, 1>>
        BY <3>2, <3>5
      <4>2. QED
        BY <4>1
    <3>8. Intact(SubSeq(rest, 1, l + 2))
      <4>1. \A k \in 1..(l + 2) : k \in 1..r /\ k <= m
        BY <1>3, <1>4, <3>5
      <4>2. \A k \in 1..(l + 2) : rest[k].of = <<rest[1].of[1], k>>
        BY <3>2, <3>7, <4>1
      <4>3. QED
        BY <1>7, <2>1, <2>7, <3>7, <4>2
    <3>9. got = Decoded(n + l + 2, f)
      BY <1>2, <2>7, <3>6, <3>7, <3>8
    <3>10. n + l + 2 >= i + m - 1
      BY <1>3, <2>7, <3>1, <3>5
    <3>11. QED
      BY <3>9, <3>10, DecodedIs DEF Refuses, m
  <2>8. CASE i # n + 1 /\ stops # {}
    <3> DEFINE q == i - 1 - n
    <3>1. q \in Nat /\ q >= 1 /\ n + (q + 1) = i
      BY <1>3, <2>4, <2>8
    <3>2. q + 1 <= r => rest[q + 1].v = Start
      <4> SUFFICES ASSUME q + 1 <= r PROVE rest[q + 1].v = Start
        OBVIOUS
      <4>1. q + 1 \in 1..r
        BY <1>3, <1>4, <3>1
      <4> HIDE DEF q
      <4>2. rest[q + 1] = L[i]
        BY <2>5, <3>1, <4>1
      <4>3. QED
        BY <2>3, <4>2
    <3> HIDE DEF q
    <3>3. l <= q
      <4>1. CASE q <= r - 2
        <5>1. q \in 1..(r - 2) /\ q + 1 <= r
          BY <1>3, <1>4, <3>1, <4>1
        <5>2. q \in stops
          BY <3>2, <5>1 DEF stops
        <5>3. QED
          BY <1>5, <2>8, <5>2
      <4>2. CASE q > r - 2
        BY <1>3, <1>4, <1>5, <2>8, <3>1, <4>2
      <4>3. QED
        BY <1>3, <1>4, <3>1, <4>1, <4>2
    <3>4. l + 1 <= r /\ l + 2 <= r /\ n + l < i /\ n + 1 < i
      BY <1>3, <1>4, <1>6, <2>8, <3>1, <3>3, SMTT(30)
    <3>5. CASE ~End(l)
      <4>1. got = Nothing(n + l)
        BY <1>2, <2>8, <3>5
      <4>2. QED
        BY <1>9, <3>4, <4>1 DEF Nothing, Spares
    <3>6. CASE End(l) /\ got = Nothing(n + 1)
      BY <1>9, <3>4, <3>6 DEF Nothing, Spares
    <3>7. CASE End(l) /\ got = Decoded(n + l + 2, rest[1].of[1])
      <4>1. l # q
        BY <3>2, <3>4, <3>7 DEF Start, Cr, End
      <4>2. l + 1 # q
        <5> SUFFICES ASSUME l + 1 = q PROVE FALSE
          OBVIOUS
        <5>1. q + 1 = l + 2
          BY <1>6, <2>8, <3>1
        <5>2. QED
          BY <3>2, <3>4, <3>7, <5>1 DEF Start, Lf, End
      <4>3. n + l + 2 < i
        BY <1>3, <1>6, <2>8, <3>1, <3>3, <4>1, <4>2, SMTT(30)
      <4>4. got.skip = n + l + 2
        BY <3>7, DecodedIs
      <4>5. QED
        BY <1>9, <4>3, <4>4 DEF Spares
    <3>8. QED
      BY <1>2, <2>8, <3>5, <3>6, <3>7
  <2>9. QED
    BY <2>6, <2>7, <2>8
<1>10. ASSUME NEW p \in 2..Len(b), b[p - 1].v = Cr, b[p].v = Lf
       PROVE  got.skip > 0
  <2>1. CASE n # 0
    <3>1. n > 0
      BY <1>3, <2>1
    <3>2. stops # {} => n + l > 0 /\ n + 1 > 0 /\ n + l + 2 > 0
      BY <1>3, <1>6
    <3>3. QED
      BY <1>2, <3>1, <3>2, DecodedIs DEF Nothing
  <2>2. CASE n = 0
    <3>1. b[1].v = Start
      BY <1>1, <1>3, <2>2 DEF SearchesStart
    <3>2. p # 2
      BY <1>10, <3>1 DEF Start, Cr
    <3>3. /\ p - 2 \in 1..(r - 2) /\ (p - 2) + 1 = p - 1 /\ (p - 2) + 2 = p
          /\ rest[p - 1] = b[p - 1] /\ rest[p] = b[p]
      <4>1. r = Len(b) /\ \A k \in 1..Len(b) : rest[k] = b[k]
        <5>1. Len(b) - n = Len(b) /\ \A k \in 1..Len(b) : n + k = k
          BY <1>3, <2>2
        <5>2. QED
          BY <1>4, <5>1
      <4>2. p - 1 \in 1..Len(b) /\ p \in 1..Len(b) /\ p - 2 \in 1..(Len(b) - 2)
            /\ (p - 2) + 1 = p - 1 /\ (p - 2) + 2 = p
        BY <1>3, <3>2
      <4>3. QED
        BY <4>1, <4>2
    <3>4. stops # {}
      <4>1. p - 2 \in stops
        BY <1>10, <3>3 DEF stops, End
      <4>2. QED
        BY <4>1
    <3>5. n + l > 0 /\ n + 1 > 0 /\ n + l + 2 > 0
      BY <1>3, <1>6, <3>4
    <3>6. QED
      BY <1>2, <3>4, <3>5, DecodedIs DEF Nothing
  <2>3. QED
    BY <2>1, <2>2
<1>11. QED
  BY <1>8, <1>9, <1>10 DEF SparesFrames, got

\* The same for the control format, where lines are not too long.
LEMMA CtrlCall ==
    ASSUME NEW b \in Seq(Byte)
    PROVE  /\ ParsesInto(b, CtrlParse(b))
           /\ FramesOK /\ LinesFit /\ format = "ctrl" => SparesFrames(b, CtrlParse(b))
           /\ (\E p \in 1..Len(b) : b[p].v = Lf) => CtrlParse(b).skip > 0
<1> DEFINE n == Search(b, LAMBDA k : k < Len(b) /\ b[k + 1].v = Start)
           rest == Drop(b, n)
           r == Len(rest)
           far == Min({MaxLine, r - 1})
           stops == {l \in 1..far : \/ rest[l + 1].v = Lf
                                    \/ l + 2 <= r /\ EndsLine(rest, l)}
           l == Min(stops)
           length == IF rest[l + 1].v = Lf THEN l + 1 ELSE l + 2
           over == IF r > MaxLine THEN MaxLine + 1 ELSE 0
           got == CtrlParse(b)
<1>1. SearchesStart(b, n)
  BY SearchStart
<1>2. got = IF rest = <<>> THEN Nothing(n)
            ELSE IF stops # {}
            THEN IF Intact(SubSeq(rest, 1, length)) THEN Decoded(n + length, rest[1].of[1])
                 ELSE Nothing(n + length)
            ELSE Nothing(n + over)
  BY DEF CtrlParse
<1> HIDE DEF n, got
<1>3. n \in 0..Len(b) /\ Len(b) \in Nat /\ n \in Nat /\ MaxLine \in Nat /\ MaxLine >= 1
  BY <1>1, FramingAssumption DEF SearchesStart
<1>4. /\ rest \in Seq(Byte) /\ r = Len(b) - n
      /\ \A k \in 1..(Len(b) - n) : rest[k] = b[n + k] /\ b[n + k] \in Byte
  BY <1>3, RestIs
<1>5. stops # {} => /\ l \in 1..far
                    /\ \/ rest[l + 1].v = Lf
                       \/ l + 2 <= r /\ rest[l + 1].v = Cr /\ rest[l + 2].v = Lf
                    /\ \A x \in stops : l <= x
  <2> SUFFICES ASSUME stops # {}
               PROVE  /\ l \in 1..far
                      /\ \/ rest[l + 1].v = Lf
                         \/ l + 2 <= r /\ rest[l + 1].v = Cr /\ rest[l + 2].v = Lf
                      /\ \A x \in stops : l <= x
    OBVIOUS
  <2>1. stops \in SUBSET Nat
    OBVIOUS
  <2>2. l \in stops /\ \A x \in stops : l <= x
    <3> HIDE DEF stops
    <3> QED BY <2>1, LeastExists
  <2>3. \A x \in stops : /\ x \in 1..far
                         /\ \/ rest[x + 1].v = Lf
                            \/ x + 2 <= r /\ rest[x + 1].v = Cr /\ rest[x + 2].v = Lf
    BY DEF EndsLine
  <2> HIDE DEF l, stops
  <2>4. QED
    BY <2>2, <2>3
<1>6. \A x \in 1..far : rest[x + 1].v = Lf => x \in stops
  OBVIOUS
<1> HIDE DEF rest, l, stops, far
<1>7. rest # <<>> => r >= 1 /\ rest[1].v = Start
  <2> SUFFICES ASSUME rest # <<>> PROVE r >= 1 /\ rest[1].v = Start
    OBVIOUS
  <2>1. r >= 1
    BY <1>4
  <2>2. n < Len(b) /\ 1 \in 1..(Len(b) - n)
    BY <1>3, <1>4, <2>1
  <2>3. b[n + 1].v = Start
    BY <1>1, <2>2 DEF SearchesStart
  <2>4. QED
    BY <1>4, <2>1, <2>2, <2>3
<1>8. r \in Nat /\ (r >= 1 => far = IF MaxLine <= r - 1 THEN MaxLine ELSE r - 1)
  <2>1. r \in Nat
    BY <1>4
  <2>2. r >= 1 => r - 1 \in Nat
    BY <2>1
  <2> HIDE DEF r
  <2>3. QED
    BY <1>3, <2>1, <2>2, MinOfTwo DEF far
<1>9. rest # <<>> /\ stops # {} =>
         /\ l \in Nat /\ l >= 1 /\ l <= MaxLine /\ l + 1 <= r
         /\ length \in {l + 1, l + 2} /\ length \in 1..r
         /\ length = l + 2 => rest[l + 1].v # Lf /\ rest[l + 2].v = Lf
  <2> SUFFICES ASSUME rest # <<>>, stops # {}
               PROVE  /\ l \in Nat /\ l >= 1 /\ l <= MaxLine /\ l + 1 <= r
                      /\ length \in {l + 1, l + 2} /\ length \in 1..r
                      /\ length = l + 2 => rest[l + 1].v # Lf /\ rest[l + 2].v = Lf
    OBVIOUS
  <2>1. l \in 1..far /\ (far = MaxLine \/ far = r - 1) /\ far <= MaxLine /\ far <= r - 1
        /\ far \in Int
    BY <1>3, <1>5, <1>7, <1>8
  <2>2. l \in Nat /\ l >= 1 /\ l <= MaxLine /\ l + 1 <= r
    BY <1>3, <1>8, <2>1
  <2>3. CASE rest[l + 1].v = Lf
    BY <1>8, <2>2, <2>3
  <2>4. CASE rest[l + 1].v # Lf
    <3>1. length = l + 2 /\ l + 2 <= r /\ rest[l + 2].v = Lf
      BY <1>5, <2>4
    <3>2. QED
      BY <1>8, <2>2, <2>4, <3>1
  <2>5. QED
    BY <2>3, <2>4
<1>10. over \in {0, MaxLine + 1} /\ (over # 0 => over = MaxLine + 1 /\ MaxLine + 1 <= r)
  BY <1>3, <1>8
<1>11. rest # <<>> /\ stops # {} =>
          (Intact(SubSeq(rest, 1, length)) <=>
              /\ \A k \in 1..length : rest[k].of = <<rest[1].of[1], k>>
              /\ rest[1].of[1] # 0)
  BY <1>4, <1>9, IntactIs
<1> HIDE DEF length, over
<1>12. ParsesInto(b, got)
  <2>1. CASE got = Nothing(n)
    BY <1>3, <2>1, NothingIs
  <2>2. CASE got = Nothing(n + over)
    <3>1. n + over \in 0..Len(b)
      BY <1>3, <1>4, <1>8, <1>10
    <3>2. QED
      BY <2>2, <3>1, NothingIs
  <2>3. ASSUME rest # <<>>, stops # {}
        PROVE  n + length \in 0..Len(b) /\ length \in Nat /\ length >= 1
    BY <1>3, <1>4, <1>9, <2>3
  <2>4. CASE rest # <<>> /\ stops # {} /\ got = Nothing(n + length)
    BY <2>3, <2>4, NothingIs
  <2>5. CASE /\ rest # <<>> /\ stops # {} /\ Intact(SubSeq(rest, 1, length))
             /\ got = Decoded(n + length, rest[1].of[1])
    <3>1. 1 \in 1..length /\ n + 1 \in 1..(n + length) /\ 1 \in 1..(Len(b) - n)
      BY <1>3, <1>4, <1>7, <2>3, <2>5
    <3>2. rest[1].of = <<rest[1].of[1], 1>> /\ rest[1] = b[n + 1] /\ rest[1] \in Byte
      BY <1>4, <1>11, <2>5, <3>1
    <3>3. rest[1].of[1] \in Nat
      BY <3>2 DEF Byte
    <3>4. ParsesInto(b, Gives(n + length, rest[1].of[1]))
      BY <2>3, <2>5, <3>1, <3>2, <3>3, GivesIs
    <3>5. ParsesInto(b, Nothing(n + length))
      BY <2>3, <2>5, NothingIs
    <3>6. QED
      BY <2>5, <3>4, <3>5 DEF Decoded
  <2>6. QED
    BY <1>2, <2>1, <2>2, <2>4, <2>5
<1>13. ASSUME FramesOK, LinesFit, NEW L \in Seq(Byte), Sound(L), NEW f \in DOMAIN frames,
              NEW i \in Nat, Whole(L, f, i), StartsLine(L, i), AtFront(b, L), format = "ctrl"
       PROVE  got.frame = f \/ Refuses(got, f, i) \/ Spares(got, f, i)
  <2> DEFINE m == frames[f]
  <2>1. /\ m \in Nat /\ m >= 3 /\ i >= 1 /\ i + m - 1 <= Len(L) /\ f # 0
        /\ m <= MaxPayload + 3
        /\ \A k \in 1..m :
              /\ L[i + k - 1].of = <<f, k>>
              /\ k = 1 => L[i + k - 1].v = Start
              /\ L[i + k - 1].v # Cr
              /\ L[i + k - 1].v = Lf <=> k = m
    <3>1. format = "ctrl" /\ format \in Lines
      BY <1>13 DEF Lines
    <3>2. QED
      BY <1>13, <3>1, FrameLooks
  <2>2. Len(b) <= Len(L) /\ Len(L) \in Nat /\ \A k \in 1..Len(b) : b[k] = L[k]
    BY <1>13 DEF AtFront
  <2> HIDE DEF m
  <2>3. m \in Int /\ m >= 3 /\ m <= MaxLine + 1
    BY <1>3, <1>13, <2>1, FramingAssumption DEF LinesFit, Lines
  <2>4. L[i].v = Start
    <3>1. 1 \in 1..m /\ i + 1 - 1 = i
      BY <2>1
    <3>2. QED
      BY <2>1, <3>1
  <2>5. n < i
    <3>1. i \in 1..Len(L)
      BY <2>1, <2>2
    <3>2. QED
      BY <1>1, <1>13, <2>4, <3>1, StartBefore
  <2>6. \A k \in 1..r : rest[k] = L[n + k]
    <3> TAKE k \in 1..r
    <3>1. k \in 1..(Len(b) - n) /\ n + k \in 1..Len(b)
      BY <1>3, <1>4
    <3>2. QED
      BY <1>4, <2>2, <3>1
  <2>7. CASE got = Nothing(n)
    BY <1>13, <2>5, <2>7 DEF Nothing, Spares
  <2>8. CASE i = n + 1 /\ rest # <<>>
    <3>1. \A k \in 1..r : k <= m => /\ rest[k].of = <<f, k>>
                                    /\ rest[k].v # Cr
                                    /\ rest[k].v = Lf <=> k = m
      <4> SUFFICES ASSUME NEW k \in 1..r, k <= m
                   PROVE  /\ rest[k].of = <<f, k>>
                          /\ rest[k].v # Cr
                          /\ rest[k].v = Lf <=> k = m
        OBVIOUS
      <4>1. k \in 1..m /\ i + k - 1 = n + k
        BY <1>3, <1>4, <2>1, <2>8
      <4>2. rest[k] = L[i + k - 1]
        BY <2>6, <4>1
      <4>3. QED
        BY <2>1, <4>1, <4>2
    <3>2. r \in Int /\ r >= 1 /\ MaxLine \in Int
      BY <1>3, <1>7, <1>8, <2>8
    <3>3. stops # {} => l + 1 >= m
      <4> SUFFICES ASSUME stops # {}, l + 1 < m PROVE FALSE
        BY <1>9, <2>3, <2>8
      <4>1. l + 1 \in 1..r /\ l + 1 <= m /\ l + 1 # m
        BY <1>9, <2>3, <2>8, <3>2
      <4>2. rest[l + 1].v # Lf /\ rest[l + 1].v # Cr
        BY <3>1, <4>1
      <4>3. QED
        BY <1>5, <4>2
    <3>4. CASE r < m
      <4>1. stops = {}
        BY <1>9, <2>3, <2>8, <3>2, <3>3, <3>4
      <4>2. over = 0
        BY <1>10, <2>3, <3>2, <3>4
      <4>3. got = Nothing(n)
        BY <1>2, <1>3, <2>8, <4>1, <4>2
      <4>4. QED
        BY <2>7, <4>3
    <3>5. CASE r >= m
      <4>1. /\ m - 1 \in 1..far /\ (m - 1) + 1 = m /\ m \in 1..r /\ m <= m
        BY <1>8, <2>3, <3>2, <3>5
      <4>2. rest[m].v = Lf
        BY <3>1, <4>1
      <4>3. m - 1 \in stops
        BY <1>6, <4>1, <4>2
      <4>4. stops # {} /\ l <= m - 1
        BY <1>5, <4>3
      <4>5. l + 1 = m
        BY <1>9, <2>3, <2>8, <3>3, <4>4
      <4>6. length = m
        BY <4>2, <4>5 DEF length
      <4>7. rest[1].of[1] = f
        <5>1. 1 \in 1..r /\ 1 <= m
          BY <2>3, <3>2
        <5>2. rest[1].of = <<f, 1>>
          BY <3>1, <5>1
        <5>3. QED
          BY <5>2
      <4>8. \A k \in 1..length : rest[k].of = <<rest[1].of[1], k>>
        <5>1. \A k \in 1..length : k \in 1..r /\ k <= m
          BY <2>3, <3>2, <3>5, <4>6
        <5>2. QED
          BY <3>1, <4>7, <5>1
      <4>9. got = Decoded(n + length, f)
        BY <1>2, <1>11, <2>1, <2>8, <4>4, <4>7, <4>8
      <4>10. n + length >= i + m - 1
        BY <1>3, <2>3, <2>8, <4>6
      <4>11. QED
        BY <4>9, <4>10, DecodedIs DEF Refuses, m
    <3>6. QED
      BY <2>3, <3>2, <3>4, <3>5
  <2>9. CASE i # n + 1 /\ rest # <<>>
    <3> DEFINE q == i - 1 - n
    <3>1. q \in Nat /\ q >= 1 /\ n + q = i - 1 /\ i > 1 /\ n + q < i
      BY <1>3, <2>5, <2>9
    <3> HIDE DEF q
    <3>2. L[i - 1].v = Lf
      BY <1>13, <3>1 DEF StartsLine, Lines
    <3>3. q <= r => rest[q].v = Lf
      <4> SUFFICES ASSUME q <= r PROVE rest[q].v = Lf
        OBVIOUS
      <4>1. q \in 1..r
        BY <1>8, <3>1
      <4>2. rest[q] = L[i - 1]
        BY <2>6, <3>1, <4>1
      <4>3. QED
        BY <3>2, <4>2
    <3>4. q >= 2
      <4>1. q # 1
        BY <1>7, <2>9, <3>3 DEF Start, Lf
      <4>2. QED
        BY <3>1, <4>1
    <3>5. r \in Int /\ r >= 1 /\ MaxLine \in Int
      BY <1>3, <1>7, <1>8, <2>9
    <3>6. q - 1 <= MaxLine /\ q <= r => q - 1 \in stops
      <4> SUFFICES ASSUME q - 1 <= MaxLine, q <= r PROVE q - 1 \in stops
        OBVIOUS
      <4>1. q - 1 \in 1..far /\ (q - 1) + 1 = q
        BY <1>8, <3>1, <3>4, <3>5
      <4>2. QED
        BY <1>6, <3>3, <4>1
    <3>7. ASSUME stops # {} PROVE length <= q /\ length \in Int
      <4>1. l + 1 <= q
        BY <1>5, <1>9, <2>9, <3>1, <3>5, <3>6, <3>7
      <4>2. l + 1 = q => length # l + 2
        BY <1>9, <2>9, <3>3, <3>7
      <4>3. QED
        BY <1>9, <2>9, <3>1, <3>7, <4>1, <4>2
    <3>8. ASSUME stops = {} PROVE over < q /\ over \in Int
      BY <1>10, <3>1, <3>4, <3>5, <3>6, <3>8
    <3>9. got.skip < i
      <4>1. CASE stops = {}
        <5>1. n + over < i
          BY <1>3, <3>1, <3>8, <4>1
        <5>2. QED
          BY <1>2, <2>9, <4>1, <5>1 DEF Nothing
      <4>2. CASE stops # {}
        <5>1. n + length < i
          BY <1>3, <3>1, <3>7, <4>2
        <5>2. QED
          BY <1>2, <2>9, <4>2, <5>1, DecodedIs DEF Nothing
      <4>3. QED
        BY <4>1, <4>2
    <3>10. QED
      BY <1>13, <3>9 DEF Spares
  <2>10. QED
    BY <1>2, <2>7, <2>8, <2>9
<1>14. ASSUME NEW p \in 1..Len(b), b[p].v = Lf
       PROVE  got.skip > 0
  <2>1. CASE n # 0
    <3>1. n > 0 /\ (rest # <<>> /\ stops # {} => n + length > 0) /\ n + over > 0
      BY <1>3, <1>9, <1>10, <2>1
    <3>2. QED
      BY <1>2, <3>1, DecodedIs DEF Nothing
  <2>2. CASE n = 0
    <3>1. r = Len(b) /\ r >= 1 /\ \A k \in 1..Len(b) : rest[k] = b[k]
      <4>1. Len(b) - n = Len(b) /\ \A k \in 1..Len(b) : n + k = k
        BY <1>3, <2>2
      <4>2. QED
        BY <1>3, <1>4, <4>1
    <3>2. rest # <<>>
      BY <3>1
    <3>3. rest[p].v = Lf /\ p # 1
      BY <1>7, <1>14, <3>1, <3>2 DEF Start, Lf
    <3>4. CASE stops # {}
      <4>1. n + length > 0
        BY <1>3, <1>9, <3>2, <3>4
      <4>2. QED
        BY <1>2, <3>2, <3>4, <4>1, DecodedIs DEF Nothing
    <3>5. CASE stops = {}
      <4>1. ~(p - 1 \in 1..far)
        <5>1. (p - 1) + 1 = p
          OBVIOUS
        <5>2. QED
          BY <1>6, <3>3, <3>5, <5>1
      <4>2. r > MaxLine
        BY <1>3, <1>8, <3>1, <3>3, <4>1
      <4>3. over = MaxLine + 1
        BY <4>2 DEF over
      <4>4. n + over > 0
        BY <1>3, <4>3
      <4>5. QED
        BY <1>2, <3>2, <3>5, <4>4 DEF Nothing
    <3>6. QED
      BY <3>4, <3>5
  <2>3. QED
    BY <2>1, <2>2
<1>15. QED
  BY <1>12, <1>13, <1>14 DEF SparesFrames, got

\* The same for AT, which must also leave no line end before a frame in half.
LEMMA AtCall ==
    ASSUME NEW b \in Seq(Byte)
    PROVE  /\ ParsesInto(b, AtParse(b))
           /\ FramesOK /\ LinesFit /\ format = "at" => SparesFrames(b, AtParse(b))
           /\ (\E p \in 2..Len(b) : b[p - 1].v = Cr /\ b[p].v = Lf) => AtParse(b).skip > 0
<1> DEFINE stops == {l \in 0..(MaxLine + 1) : l + 2 <= Len(b) /\ EndsLine(b, l)}
           l == Min(stops)
           given == IF Intact(SubSeq(b, 1, l + 2)) THEN b[1].of[1] ELSE 0
           over == IF Len(b) > MaxLine + 1 THEN MaxLine + 1 ELSE 0
           got == AtParse(b)
<1>1. got = IF stops # {} THEN Gives(l + 2, given) ELSE Nothing(over)
  BY DEF AtParse
<1> HIDE DEF got
<1>2. Len(b) \in Nat /\ MaxLine \in Nat /\ MaxLine >= 1
  BY FramingAssumption
<1>3. \A x \in Nat : x <= MaxLine + 1 /\ x + 2 <= Len(b) /\ b[x + 1].v = Cr /\ b[x + 2].v = Lf
          => x \in stops
  BY <1>2 DEF EndsLine
<1>4. stops # {} => /\ l \in Nat /\ l <= MaxLine + 1 /\ l + 2 <= Len(b)
                    /\ b[l + 1].v = Cr /\ b[l + 2].v = Lf
                    /\ \A x \in stops : l <= x
  <2> SUFFICES ASSUME stops # {}
               PROVE  /\ l \in Nat /\ l <= MaxLine + 1 /\ l + 2 <= Len(b)
                      /\ b[l + 1].v = Cr /\ b[l + 2].v = Lf
                      /\ \A x \in stops : l <= x
    OBVIOUS
  <2>1. stops \in SUBSET Nat
    OBVIOUS
  <2>2. l \in stops /\ \A x \in stops : l <= x
    <3> HIDE DEF stops
    <3> QED BY <2>1, LeastExists
  <2>3. \A x \in stops : /\ x \in Nat /\ x <= MaxLine + 1 /\ x + 2 <= Len(b)
                         /\ b[x + 1].v = Cr /\ b[x + 2].v = Lf
    BY <1>2 DEF EndsLine
  <2> HIDE DEF l, stops
  <2>4. QED
    BY <2>2, <2>3
<1> HIDE DEF l, stops
<1>5. stops # {} => l + 2 \in 1..Len(b)
  BY <1>2, <1>4
<1>6. stops # {} => (Intact(SubSeq(b, 1, l + 2)) <=>
                       /\ \A k \in 1..(l + 2) : b[k].of = <<b[1].of[1], k>>
                       /\ b[1].of[1] # 0)
  BY <1>5, IntactIs
<1>7. over \in {0, MaxLine + 1} /\ over \in 0..Len(b)
      /\ (over # 0 => over = MaxLine + 1 /\ Len(b) > MaxLine + 1)
  BY <1>2
<1>8. stops # {} => given = 0 \/ (given = b[1].of[1] /\ b[1].of = <<given, 1>>)
  <2> SUFFICES ASSUME stops # {}, Intact(SubSeq(b, 1, l + 2))
               PROVE  b[1].of = <<b[1].of[1], 1>>
    OBVIOUS
  <2>1. 1 \in 1..(l + 2)
    BY <1>4
  <2>2. QED
    BY <1>6, <2>1
<1>9. stops # {} => given \in Nat
  <2> SUFFICES ASSUME stops # {} PROVE given \in Nat
    OBVIOUS
  <2>1. b[1] \in Byte
    BY <1>2, <1>4
  <2>2. b[1].of[1] \in Nat
    BY <2>1 DEF Byte
  <2>3. QED
    BY <2>2
<1> HIDE DEF over
<1>10. ParsesInto(b, got)
  <2>1. CASE stops = {}
    BY <1>1, <1>7, <2>1, NothingIs
  <2>2. CASE stops # {}
    <3>1. l + 2 \in 0..Len(b) /\ 1 \in 1..(l + 2)
      BY <1>2, <1>4, <2>2
    <3>2. given # 0 => \E i \in 1..(l + 2) : b[i].of = <<given, 1>>
      <4> HIDE DEF given
      <4> QED BY <1>8, <2>2, <3>1
    <3> HIDE DEF given
    <3>3. QED
      BY <1>1, <1>9, <2>2, <3>1, <3>2, GivesIs
  <2>3. QED
    BY <2>1, <2>2
<1>11. ASSUME FramesOK, LinesFit, NEW L \in Seq(Byte), Sound(L), NEW f \in DOMAIN frames,
              NEW i \in Nat, Whole(L, f, i), StartsLine(L, i), AtFront(b, L), format = "at"
       PROVE  got.frame = f \/ Spares(got, f, i)
  <2> DEFINE m == frames[f]
  <2>1. /\ m \in Nat /\ m >= 3 /\ i >= 1 /\ i + m - 1 <= Len(L) /\ f # 0
        /\ m <= MaxPayload + 3
        /\ \A k \in 1..m :
              /\ L[i + k - 1].of = <<f, k>>
              /\ L[i + k - 1].v = Cr <=> k = m - 1
              /\ L[i + k - 1].v = Lf <=> k = m
    <3>1. format = "at" /\ format \in Lines
      BY <1>11 DEF Lines
    <3>2. /\ m \in Nat /\ m >= 3 /\ i >= 1 /\ i + m - 1 <= Len(L) /\ f # 0
          /\ m <= MaxPayload + 3
      BY <1>11, <3>1, FrameLooks
    <3>3. \A k \in 1..m : /\ L[i + k - 1].of = <<f, k>>
                          /\ L[i + k - 1].v = Cr <=> k = m - 1
                          /\ L[i + k - 1].v = Lf <=> k = m
      BY <1>11, <3>1, FrameLooks
    <3>4. QED
      BY <3>2, <3>3
  <2>2. Len(b) <= Len(L) /\ Len(L) \in Nat /\ \A k \in 1..Len(b) : b[k] = L[k]
    BY <1>11 DEF AtFront
  <2> HIDE DEF m
  <2>3. m \in Int /\ m >= 3 /\ m <= MaxLine + 1
    BY <1>2, <1>11, <2>1, FramingAssumption DEF LinesFit, Lines
  <2>4. CASE i = 1
    <3>1. \A k \in 1..Len(b) : k <= m => /\ b[k].of = <<f, k>>
                                         /\ b[k].v = Cr <=> k = m - 1
                                         /\ b[k].v = Lf <=> k = m
      <4> SUFFICES ASSUME NEW k \in 1..Len(b), k <= m
                   PROVE  /\ b[k].of = <<f, k>>
                          /\ b[k].v = Cr <=> k = m - 1
                          /\ b[k].v = Lf <=> k = m
        OBVIOUS
      <4>1. k \in 1..m /\ i + k - 1 = k
        BY <1>2, <2>1, <2>4
      <4>2. b[k] = L[i + k - 1]
        BY <2>2, <4>1
      <4>3. QED
        BY <2>1, <4>1, <4>2
    <3>2. stops # {} => l + 1 >= m - 1
      <4> SUFFICES ASSUME stops # {}, l + 1 < m - 1 PROVE FALSE
        BY <1>4, <2>3
      <4>1. l + 1 \in 1..Len(b) /\ l + 1 <= m /\ l + 1 # m - 1
        BY <1>2, <1>4, <2>3
      <4>2. b[l + 1].v # Cr
        BY <3>1, <4>1
      <4>3. QED
        BY <1>4, <4>2
    <3>3. CASE Len(b) < m
      <4>1. stops = {}
        BY <1>2, <1>4, <2>3, <3>2, <3>3
      <4>2. over = 0
        BY <1>2, <1>7, <2>3, <3>3
      <4>3. got = Nothing(0)
        BY <1>1, <4>1, <4>2
      <4>4. QED
        BY <2>4, <4>3 DEF Nothing, Spares
    <3>4. CASE Len(b) >= m
      <4>1. /\ m - 2 \in Nat /\ m - 2 <= MaxLine + 1 /\ (m - 2) + 2 = m /\ (m - 2) + 1 = m - 1
            /\ m - 1 \in 1..Len(b) /\ m \in 1..Len(b) /\ m <= m /\ m - 1 <= m
            /\ (m - 2) + 2 <= Len(b)
        BY <1>2, <2>3, <3>4
      <4>2. b[m - 1].v = Cr /\ b[m].v = Lf
        BY <3>1, <4>1
      <4>3. m - 2 \in stops
        <5>1. b[(m - 2) + 1].v = Cr /\ b[(m - 2) + 2].v = Lf
          BY <4>1, <4>2
        <5>2. QED
          BY <1>3, <4>1, <5>1
      <4>4. stops # {} /\ l <= m - 2
        BY <1>4, <4>3
      <4>5. l + 2 = m
        BY <1>4, <2>3, <3>2, <4>4
      <4>6. b[1].of[1] = f
        <5>1. 1 \in 1..Len(b) /\ 1 <= m
          BY <1>2, <2>3, <3>4
        <5>2. b[1].of = <<f, 1>>
          BY <3>1, <5>1
        <5>3. QED
          BY <5>2
      <4>7. \A k \in 1..(l + 2) : b[k].of = <<b[1].of[1], k>>
        <5>1. \A k \in 1..(l + 2) : k \in 1..Len(b) /\ k <= m
          BY <1>2, <2>3, <3>4, <4>5
        <5>2. QED
          BY <3>1, <4>6, <5>1
      <4>8. given = f
        BY <1>6, <2>1, <4>4, <4>6, <4>7
      <4> HIDE DEF given
      <4>9. QED
        BY <1>1, <4>4, <4>8 DEF Gives
    <3>5. QED
      BY <1>2, <2>3, <3>3, <3>4
  <2>5. CASE i # 1
    <3>1. /\ i > 2 /\ L[i - 1].v = Lf /\ L[i - 2].v = Cr
      BY <1>11, <2>5 DEF StartsLine, Lines
    <3>2. i - 1 <= Len(b) => b[i - 1].v = Lf
      <4> SUFFICES ASSUME i - 1 <= Len(b) PROVE b[i - 1].v = Lf
        OBVIOUS
      <4>1. i - 1 \in 1..Len(b)
        BY <1>2, <3>1
      <4>2. QED
        BY <2>2, <3>1, <4>1
    <3>3. i - 2 <= Len(b) => b[i - 2].v = Cr
      <4> SUFFICES ASSUME i - 2 <= Len(b) PROVE b[i - 2].v = Cr
        OBVIOUS
      <4>1. i - 2 \in 1..Len(b)
        BY <1>2, <3>1
      <4>2. QED
        BY <2>2, <3>1, <4>1
    <3>4. i - 1 <= Len(b) /\ i - 3 <= MaxLine + 1 => i - 3 \in stops
      <4> SUFFICES ASSUME i - 1 <= Len(b), i - 3 <= MaxLine + 1 PROVE i - 3 \in stops
        OBVIOUS
      <4>1. /\ i - 3 \in Nat /\ (i - 3) + 2 = i - 1 /\ (i - 3) + 1 = i - 2
            /\ (i - 3) + 2 <= Len(b) /\ i - 2 <= Len(b)
        BY <1>2, <3>1
      <4>2. b[(i - 3) + 1].v = Cr /\ b[(i - 3) + 2].v = Lf
        BY <3>2, <3>3, <4>1
      <4>3. QED
        BY <1>3, <4>1, <4>2
    <3>5. ASSUME stops # {} PROVE l + 2 < i /\ l + 2 # i - 2
      <4>1. l + 2 <= i - 1
        BY <1>2, <1>4, <3>1, <3>4, <3>5
      <4>2. l + 2 # i - 2
        <5> SUFFICES ASSUME l + 2 = i - 2 PROVE FALSE
          OBVIOUS
        <5>1. i - 2 <= Len(b) /\ b[i - 2].v = Lf
          BY <1>4, <3>5
        <5>2. QED
          BY <3>3, <5>1 DEF Cr, Lf
      <4>3. QED
        BY <1>4, <3>1, <3>5, <4>1, <4>2
    <3>6. ASSUME stops = {} PROVE over < i /\ over # i - 2
      <4>1. ~(i - 1 <= Len(b) /\ i - 3 <= MaxLine + 1)
        BY <3>4, <3>6
      <4>2. i \in Int /\ MaxLine \in Int /\ Len(b) \in Int
        BY <1>2
      <4>3. over = 0 \/ (over = MaxLine + 1 /\ Len(b) > MaxLine + 1)
        BY <1>7
      <4>4. QED
        BY <3>1, <4>1, <4>2, <4>3
    <3> HIDE DEF given
    <3>7. QED
      BY <1>1, <3>5, <3>6 DEF Nothing, Gives, Spares
  <2>6. QED
    BY <2>4, <2>5
<1>12. ASSUME NEW p \in 2..Len(b), b[p - 1].v = Cr, b[p].v = Lf
       PROVE  got.skip > 0
  <2> HIDE DEF given
  <2>1. CASE stops # {}
    <3>1. l + 2 > 0
      BY <1>4, <2>1
    <3>2. QED
      BY <1>1, <2>1, <3>1 DEF Gives
  <2>2. CASE stops = {}
    <3>1. p - 2 \in Nat /\ (p - 2) + 1 = p - 1 /\ (p - 2) + 2 = p /\ p <= Len(b)
      BY <1>2
    <3>2. ~(p - 2 <= MaxLine + 1)
      <4>1. b[(p - 2) + 1].v = Cr /\ b[(p - 2) + 2].v = Lf /\ (p - 2) + 2 <= Len(b)
        BY <1>12, <3>1
      <4>2. QED
        BY <1>3, <2>2, <3>1, <4>1
    <3>3. Len(b) > MaxLine + 1
      BY <1>2, <3>1, <3>2
    <3>4. over = MaxLine + 1 /\ over > 0
      BY <1>2, <3>3 DEF over
    <3>5. QED
      BY <1>1, <2>2, <3>4 DEF Nothing
  <2>3. QED
    BY <2>1, <2>2
<1>13. QED
  BY <1>10, <1>11, <1>12 DEF SparesFrames, got

----------------------------------------------------------------------------
(***************************************************************************)
(* A call of try_parse, whatever the format, and the loop of process_input *)
(***************************************************************************)
LEMMA Call ==
    ASSUME format \in Formats, NEW b \in Seq(Byte)
    PROVE  /\ ParsesInto(b, try_parse(b))
           /\ FramesOK /\ LinesFit => SparesFrames(b, try_parse(b))
<1>1. CASE format = "ubx"
  BY <1>1, UbxCall DEF try_parse
<1>2. CASE format = "rtcm"
  BY <1>2, RtcmCall DEF try_parse
<1>3. CASE format = "nmea"
  BY <1>3, NmeaCall DEF try_parse
<1>4. CASE format = "ctrl"
  BY <1>4, CtrlCall DEF try_parse
<1>5. CASE format = "at"
  BY <1>5, AtCall DEF try_parse
<1>6. QED
  BY <1>1, <1>2, <1>3, <1>4, <1>5 DEF Formats

\* One turn of the loop.
Turn(b, acc) ==
    LET got == try_parse(Drop(b, acc.skip))
    IN  IF ~acc.more THEN acc
        ELSE [skip |-> acc.skip + got.skip,
              frames |-> acc.frames \o
                         (IF got.frame = 0 THEN <<>> ELSE <<got.frame>>),
              more |-> got.more]

FirstTurn == [skip |-> 0, frames |-> <<>>, more |-> TRUE]

\* What holds before the loop and after every turn holds after it.
LEMMA ParseInvariant ==
    ASSUME NEW b \in Seq(Byte), NEW S, FirstTurn \in S,
           \A acc \in S : Turn(b, acc) \in S
    PROVE  Parse(b) \in S
<1> DEFINE n == Len(b)
           Step(f, k) == IF k = 0 THEN FirstTurn ELSE Turn(b, f[k - 1])
           step == [k \in 1..n |-> [acc \in S |-> Turn(b, acc)]]
           after == CHOOSE h : h = [k \in 0..n |-> Step(h, k)]
<1>1. n \in Nat
  OBVIOUS
<1>2. Parse(b) = after[n]
  BY DEF Parse, Turn, FirstTurn
<1>3. PICK h \in [0..n -> S] : h[0] = FirstTurn /\ \A k \in 1..n : h[k] = step[k][h[k - 1]]
  <2>1. step \in [1..n -> [S -> S]]
    OBVIOUS
  <2> HIDE DEF step, n
  <2>2. \E g \in [0..n -> S] : GoesOn(g, n, FirstTurn, step)
    BY <1>1, <2>1, Recursion
  <2>3. QED
    BY <2>2 DEF GoesOn
<1>4. \A k \in 0..n : h[k] = Step(h, k)
  <2> TAKE k \in 0..n
  <2>1. CASE k = 0
    BY <1>3, <2>1
  <2>2. CASE k # 0
    <3>1. k \in 1..n /\ k - 1 \in 0..n
      BY <1>1, <2>2
    <3>2. h[k - 1] \in S
      BY <3>1
    <3>3. h[k] = step[k][h[k - 1]] /\ step[k][h[k - 1]] = Turn(b, h[k - 1])
      BY <1>3, <3>1, <3>2
    <3> HIDE DEF step
    <3>4. QED
      BY <2>2, <3>3
  <2>3. QED
    BY <2>1, <2>2
<1>5. h = [k \in 0..n |-> Step(h, k)]
  <2>1. h = [k \in 0..n |-> h[k]]
    OBVIOUS
  <2> HIDE DEF Step, n
  <2>2. [k \in 0..n |-> h[k]] = [k \in 0..n |-> Step(h, k)]
    BY <1>4
  <2>3. QED
    BY <2>1, <2>2
<1>6. after = [k \in 0..n |-> Step(after, k)]
  <2> HIDE DEF Step, n
  <2> QED BY <1>5
<1> HIDE DEF after
<1>7. \A k \in 0..n : after[k] = Step(after, k)
  <2> DEFINE g == [k \in 0..n |-> Step(after, k)]
  <2>1. \A k \in 0..n : g[k] = Step(after, k)
    OBVIOUS
  <2>2. after = g
    BY <1>6
  <2> HIDE DEF g, Step
  <2>3. QED
    BY <2>1, <2>2
<1> DEFINE T == {k \in Nat : k <= n => after[k] \in S}
<1>8. 0 \in T
  BY <1>1, <1>7
<1>9. ASSUME NEW k \in Nat, k \in T PROVE k + 1 \in T
  <2> SUFFICES ASSUME k + 1 <= n PROVE after[k + 1] \in S
    OBVIOUS
  <2>1. k \in 0..n /\ k + 1 \in 0..n /\ k + 1 # 0 /\ (k + 1) - 1 = k
    BY <1>1
  <2>2. after[k] \in S
    BY <1>9, <2>1
  <2>3. after[k + 1] = Turn(b, after[k])
    BY <1>7, <2>1
  <2>4. QED
    BY <2>2, <2>3
<1>10. n \in T
  <2> HIDE DEF T
  <2> QED BY <1>1, <1>8, <1>9, Induction
<1>11. QED
  BY <1>1, <1>2, <1>10

\* A frame that the bytes skipped spare is still whole and begins a line.
LEMMA SafeAfterDrop ==
    ASSUME FramesOK, NEW L \in Seq(Byte), Sound(L), NEW f \in DOMAIN frames,
           NEW i \in Nat, Whole(L, f, i), StartsLine(L, i),
           NEW s \in 0..Len(L), s < i, format = "at" => s # i - 2
    PROVE  Safe(Drop(L, s), f)
<1> DEFINE M == Drop(L, s)
           n == frames[f]
           j == i - s
<1>1. s \in Nat /\ Len(L) \in Nat /\ s <= Len(L) /\ i \in Nat
  OBVIOUS
<1>2. M \in Seq(Byte) /\ Len(M) = Len(L) - s /\ \A k \in 1..(Len(L) - s) : M[k] = L[s + k]
  BY <1>1, DropIs
<1>3. n \in Nat /\ n >= 3
  BY FrameAt
<1>4. i >= 1 /\ i + n - 1 <= Len(L) /\ \A k \in 1..n : L[i + k - 1].of = <<f, k>>
  BY DEF Whole
<1> HIDE DEF M, n
<1>5. j \in 1..Len(M) /\ j >= 1 /\ j + n - 1 <= Len(M)
  BY <1>1, <1>2, <1>3, <1>4
<1>6. Whole(M, f, j)
  <2>1. ASSUME NEW k \in 1..n PROVE M[j + k - 1].of = <<f, k>>
    <3> DEFINE x == j + k - 1
    <3>1. x \in 1..(Len(L) - s) /\ s + x = i + k - 1
      BY <1>1, <1>3, <1>4
    <3> HIDE DEF x
    <3>2. M[x] = L[i + k - 1]
      BY <1>2, <3>1
    <3>3. QED
      BY <1>4, <3>2 DEF x
  <2>2. QED
    BY <1>5, <2>1 DEF Whole, n
<1>7. StartsLine(M, j)
  <2> SUFFICES ASSUME format \in Lines, j # 1
               PROVE  /\ j > 1 /\ M[j - 1].v = Lf
                      /\ format = "at" => /\ j > 2 /\ M[j - 2].v = Cr
                                          /\ M[j - 2].of[1] = M[j - 1].of[1]
    BY DEF StartsLine
  <2>1. i > 1 /\ j > 1
    BY <1>1, <1>5
  <2>2. /\ L[i - 1].v = Lf
        /\ format = "at" => /\ i > 2 /\ L[i - 2].v = Cr
                            /\ L[i - 2].of[1] = L[i - 1].of[1]
    BY <1>1, <2>1 DEF StartsLine
  <2>3. M[j - 1] = L[i - 1]
    <3>1. j - 1 \in 1..(Len(L) - s) /\ s + (j - 1) = i - 1
      BY <1>1, <1>2, <1>5, <2>1
    <3>2. QED
      BY <1>2, <3>1
  <2>4. format = "at" => j > 2 /\ M[j - 2] = L[i - 2]
    <3> SUFFICES ASSUME format = "at" PROVE j > 2 /\ M[j - 2] = L[i - 2]
      OBVIOUS
    <3>1. j > 2
      BY <1>1, <2>1
    <3>2. j - 2 \in 1..(Len(L) - s) /\ s + (j - 2) = i - 2
      BY <1>1, <1>2, <1>5, <3>1
    <3>3. QED
      BY <1>2, <3>1, <3>2
  <2> HIDE DEF j
  <2>5. QED
    BY <2>1, <2>2, <2>3, <2>4
<1>8. QED
  BY <1>5, <1>6, <1>7 DEF Safe, M

\* A frame whose last byte is skipped is gone.
LEMMA AbsentAfterDrop ==
    ASSUME FramesOK, NEW L \in Seq(Byte), Sound(L), NEW f \in DOMAIN frames,
           NEW i \in Nat, Whole(L, f, i), NEW s \in 0..Len(L), s >= i + frames[f] - 1
    PROVE  Absent(Drop(L, s), f)
<1> DEFINE M == Drop(L, s)
           n == frames[f]
           e == i + n - 1
<1>1. s \in Nat /\ Len(L) \in Nat /\ s <= Len(L) /\ i \in Nat
  OBVIOUS
<1>2. M \in Seq(Byte) /\ Len(M) = Len(L) - s /\ \A k \in 1..(Len(L) - s) : M[k] = L[s + k]
  BY <1>1, DropIs
<1>3. n \in Nat /\ n >= 3 /\ f # 0 /\ e \in 1..Len(L) /\ L[e].of = <<f, n>> /\ e <= s
  <2>1. n \in Nat /\ n >= 3 /\ f # 0
    BY FrameAt
  <2>2. n \in 1..n
    BY <2>1
  <2>3. e \in 1..Len(L) /\ L[e].of = <<f, n>>
    BY <2>2, FrameAt
  <2>4. QED
    BY <2>1, <2>3
<1> SUFFICES ASSUME NEW k \in 1..Len(M), M[k].of[1] = f PROVE FALSE
  BY DEF Absent
<1> HIDE DEF M, e
<1>4. s + k \in 1..Len(L) /\ e < s + k /\ M[k] = L[s + k]
  <2>1. k \in 1..(Len(L) - s) /\ M[k] = L[s + k]
    BY <1>2
  <2>2. s + k \in 1..Len(L) /\ e < s + k
    BY <1>1, <1>3, <2>1
  <2>3. QED
    BY <2>1, <2>2
<1>5. L[s + k].of[1] = f /\ L[s + k].of[2] \in 1..n
  BY <1>4 DEF Sound, Genuine, n
<1>6. Later(<<f, n>>, L[s + k].of)
  <2>1. Framed(L[e]) /\ Framed(L[s + k])
    BY <1>3, <1>5 DEF Framed
  <2>2. QED
    BY <1>3, <1>4, <2>1 DEF Sound, InOrder
<1>7. QED
  BY <1>3, <1>5, <1>6 DEF Later, FramesOK

\* What is gone does not come back when a piece is taken out.
LEMMA CutAbsent ==
    ASSUME NEW L \in Seq(Byte), NEW M \in Seq(Byte), NEW a, NEW b, Cut(L, a, b, M),
           NEW f, Absent(L, f)
    PROVE  Absent(M, f)
<1> DEFINE at == [i \in 1..Len(M) |-> IF i <= a THEN i ELSE i + (b - a)]
<1>1. \A i \in 1..Len(M) : at[i] \in 1..Len(L) /\ M[i] = L[at[i]]
  BY CutPlaces
<1> HIDE DEF at
<1>2. QED
  BY <1>1 DEF Absent

\* What a call gives.
Given(got) == IF got.frame = 0 THEN <<>> ELSE <<got.frame>>

\* One turn of the loop keeps the invariant of the line.
LEMMA CallKeeps ==
    ASSUME format \in Formats, FramesOK, NEW given, NEW L, NEW gone, Good(given, L, gone),
           NEW b \in Seq(Byte), AtFront(b, L)
    PROVE  LET got == try_parse(b)
           IN  /\ got.skip \in 0..Len(b) /\ got.frame \in Nat /\ got.more \in BOOLEAN
               /\ Good(given \o Given(got), Drop(L, got.skip), gone)
<1> DEFINE got == try_parse(b)
           s == got.skip
           M == Drop(L, s)
           now == given \o Given(got)
<1>1. /\ given \in Seq(Nat) /\ L \in Seq(Byte) /\ Sound(L) /\ Increasing(given)
      /\ After(given, L) /\ Accounted(given, L, gone)
  BY DEF Good
<1>2. ParsesInto(b, got) /\ (LinesFit => SparesFrames(b, got))
  BY Call
<1> HIDE DEF got
<1>3. /\ s \in 0..Len(b) /\ got.frame \in Nat /\ got.more \in BOOLEAN
      /\ got.frame # 0 => \E i \in 1..s : b[i].of = <<got.frame, 1>>
  BY <1>2 DEF ParsesInto
<1> HIDE DEF s
<1>4. /\ Len(b) \in Nat /\ Len(L) \in Nat /\ Len(b) <= Len(L) /\ \A k \in 1..Len(b) : b[k] = L[k]
  BY <1>1 DEF AtFront
<1>5. s \in Nat /\ s \in 0..Len(L) /\ s <= Len(L)
  BY <1>3, <1>4
<1>6. /\ M \in Seq(Byte) /\ Len(M) = Len(L) - s /\ Cut(L, 0, s, M)
      /\ \A k \in 1..(Len(L) - s) : M[k] = L[s + k]
  BY <1>1, <1>4, <1>5, DropIs
<1> HIDE DEF M
<1>7. Sound(M) /\ After(given, M)
  BY <1>1, <1>6, CutSound, CutAfter
<1>8. ASSUME got.frame = 0 PROVE now = given
  BY <1>1, <1>8 DEF Given
<1>9. ASSUME got.frame # 0
      PROVE  /\ now = Append(given, got.frame) /\ now \in Seq(Nat)
             /\ Len(now) = Len(given) + 1 /\ now[Len(given) + 1] = got.frame
             /\ \A q \in 1..Len(given) : now[q] = given[q]
             /\ Range(now) = Range(given) \cup {got.frame}
  <2>1. now = Append(given, got.frame)
    BY <1>1, <1>3, <1>9 DEF Given
  <2> HIDE DEF now
  <2>2. /\ now \in Seq(Nat) /\ Len(now) = Len(given) + 1 /\ now[Len(given) + 1] = got.frame
        /\ \A q \in 1..Len(given) : now[q] = given[q]
    BY <1>1, <1>3, <2>1
  <2>3. Range(now) = Range(given) \cup {got.frame}
    <3>1. DOMAIN now = 1..(Len(given) + 1) /\ DOMAIN given = 1..Len(given) /\ Len(given) \in Nat
      BY <1>1, <2>2
    <3>2. ASSUME NEW x \in Range(now) PROVE x \in Range(given) \cup {got.frame}
      <4>1. PICK k \in 1..(Len(given) + 1) : x = now[k]
        BY <3>1 DEF Range
      <4>2. k = Len(given) + 1 \/ k \in 1..Len(given)
        BY <3>1
      <4>3. QED
        BY <2>2, <3>1, <4>1, <4>2 DEF Range
    <3>3. ASSUME NEW x \in Range(given) \cup {got.frame} PROVE x \in Range(now)
      <4>1. CASE x = got.frame
        <5>1. Len(given) + 1 \in DOMAIN now
          BY <3>1
        <5>2. QED
          BY <2>2, <4>1, <5>1 DEF Range
      <4>2. CASE x \in Range(given)
        <5>1. PICK k \in 1..Len(given) : x = given[k]
          BY <3>1, <4>2 DEF Range
        <5>2. k \in DOMAIN now /\ now[k] = x
          BY <2>2, <3>1, <5>1
        <5>3. QED
          BY <5>2 DEF Range
      <4>3. QED
        BY <4>1, <4>2
    <3>4. QED
      BY <3>2, <3>3
  <2>4. QED
    BY <2>1, <2>2, <2>3
<1> HIDE DEF now
<1>10. now \in Seq(Nat)
  BY <1>1, <1>8, <1>9
<1>11. ASSUME got.frame # 0
       PROVE  \E i \in 1..Len(L) : i <= s /\ Framed(L[i]) /\ L[i].of = <<got.frame, 1>>
  <2>1. PICK i \in 1..s : b[i].of = <<got.frame, 1>>
    BY <1>3, <1>11
  <2>2. i \in 1..Len(b) /\ i \in 1..Len(L) /\ i <= s
    BY <1>3, <1>4
  <2>3. L[i].of = <<got.frame, 1>>
    BY <1>4, <2>1, <2>2
  <2>4. Framed(L[i])
    BY <1>11, <2>3 DEF Framed
  <2>5. QED
    BY <2>2, <2>3, <2>4
<1>12. Increasing(now)
  <2>1. CASE got.frame = 0
    BY <1>1, <1>8, <2>1
  <2>2. CASE got.frame # 0
    <3> SUFFICES ASSUME NEW p \in DOMAIN now, NEW q \in DOMAIN now, p < q
                 PROVE  now[p] < now[q]
      BY DEF Increasing
    <3>1. DOMAIN now = 1..(Len(given) + 1) /\ DOMAIN given = 1..Len(given) /\ Len(given) \in Nat
      BY <1>1, <1>9, <2>2
    <3>2. p \in 1..Len(given) /\ now[p] = given[p]
      BY <1>9, <2>2, <3>1
    <3>3. CASE q \in 1..Len(given)
      BY <1>1, <1>9, <2>2, <3>1, <3>2, <3>3 DEF Increasing
    <3>4. CASE q = Len(given) + 1
      <4>1. PICK i \in 1..Len(L) : Framed(L[i]) /\ L[i].of = <<got.frame, 1>>
        BY <1>11, <2>2
      <4>2. Later(<<given[p], 1>>, <<got.frame, 1>>)
        BY <1>1, <3>1, <3>2, <4>1 DEF After
      <4>3. given[p] < got.frame
        BY <4>2 DEF Later
      <4>4. QED
        BY <1>9, <2>2, <3>2, <3>4, <4>3
    <3>5. QED
      BY <3>1, <3>3, <3>4
  <2>3. QED
    BY <2>1, <2>2
<1>13. After(now, M)
  <2>1. CASE got.frame = 0
    BY <1>7, <1>8, <2>1
  <2>2. CASE got.frame # 0
    <3> SUFFICES ASSUME NEW q \in DOMAIN now, NEW j \in 1..Len(M), Framed(M[j])
                 PROVE  Later(<<now[q], 1>>, M[j].of)
      BY DEF After
    <3>1. DOMAIN now = 1..(Len(given) + 1) /\ DOMAIN given = 1..Len(given) /\ Len(given) \in Nat
      BY <1>1, <1>9, <2>2
    <3>2. CASE q \in 1..Len(given)
      BY <1>7, <1>9, <2>2, <3>1, <3>2 DEF After
    <3>3. CASE q = Len(given) + 1
      <4>1. PICK i \in 1..Len(L) : i <= s /\ Framed(L[i]) /\ L[i].of = <<got.frame, 1>>
        BY <1>11, <2>2
      <4>2. s + j \in 1..Len(L) /\ i < s + j /\ M[j] = L[s + j]
        BY <1>4, <1>5, <1>6, <4>1
      <4>3. Later(L[i].of, L[s + j].of)
        BY <1>1, <4>1, <4>2 DEF Sound, InOrder
      <4>4. QED
        BY <1>9, <2>2, <3>3, <4>1, <4>2, <4>3
    <3>4. QED
      BY <3>1, <3>2, <3>3
  <2>3. QED
    BY <2>1, <2>2
<1>14. Accounted(now, M, gone)
  <2> SUFFICES ASSUME LinesFit, NEW f \in DOMAIN frames, f \notin Range(now) \cup gone
               PROVE  Safe(M, f) \/ (f \in refused /\ Absent(M, f))
    BY DEF Accounted
  <2>1. f \notin Range(given) \cup gone /\ got.frame # f
    <3>1. CASE got.frame = 0
      <4>1. f # 0
        BY DEF FramesOK
      <4>2. QED
        BY <1>8, <3>1, <4>1
    <3>2. CASE got.frame # 0
      BY <1>9, <3>2
    <3>3. QED
      BY <3>1, <3>2
  <2>2. CASE f \in refused /\ Absent(L, f)
    BY <1>1, <1>6, <2>2, CutAbsent
  <2>3. CASE Safe(L, f)
    <3>1. PICK i \in 1..Len(L) : Whole(L, f, i) /\ StartsLine(L, i)
      BY <2>3 DEF Safe
    <3>2. i \in Nat
      OBVIOUS
    <3>3. Refuses(got, f, i) \/ Spares(got, f, i)
      BY <1>1, <1>2, <2>1, <3>1, <3>2 DEF SparesFrames
    <3>4. CASE Refuses(got, f, i)
      <4>1. f \in refused /\ s >= i + frames[f] - 1
        BY <3>4 DEF Refuses, s
      <4>2. QED
        BY <1>1, <1>5, <3>1, <3>2, <4>1, AbsentAfterDrop DEF M
    <3>5. CASE Spares(got, f, i)
      <4>1. s < i /\ (format = "at" => s # i - 2)
        BY <3>5 DEF Spares, s
      <4>2. QED
        BY <1>1, <1>5, <3>1, <3>2, <4>1, SafeAfterDrop DEF M
    <3>6. QED
      BY <3>3, <3>4, <3>5
  <2>4. QED
    BY <1>1, <2>1, <2>2, <2>3 DEF Accounted
<1>15. Good(now, M, gone)
  BY <1>6, <1>7, <1>10, <1>12, <1>13, <1>14 DEF Good
<1>16. QED
  BY <1>3, <1>15 DEF got, s, M, now

\* Skipping twice is skipping once.
LEMMA DropTwice ==
    ASSUME NEW L \in Seq(Byte), NEW x \in 0..Len(L), NEW y \in 0..(Len(L) - x)
    PROVE  Drop(Drop(L, x), y) = Drop(L, x + y)
<1> DEFINE A == Drop(L, x)
           B == Drop(A, y)
           C == Drop(L, x + y)
<1>1. Len(L) \in Nat /\ x \in Nat /\ y \in Nat /\ x <= Len(L) /\ x + y \in Nat /\ x + y <= Len(L)
  OBVIOUS
<1>2. A \in Seq(Byte) /\ Len(A) = Len(L) - x /\ \A k \in 1..(Len(L) - x) : A[k] = L[x + k]
  BY <1>1, DropIs
<1>3. C \in Seq(Byte) /\ Len(C) = Len(L) - (x + y)
      /\ \A k \in 1..(Len(L) - (x + y)) : C[k] = L[x + y + k]
  BY <1>1, DropIs
<1> HIDE DEF A, C
<1>4. B \in Seq(Byte) /\ Len(B) = Len(A) - y /\ \A k \in 1..(Len(A) - y) : B[k] = A[y + k]
  <2>1. Len(A) \in Nat /\ y <= Len(A)
    BY <1>1, <1>2
  <2>2. QED
    BY <1>1, <1>2, <2>1, DropIs
<1> HIDE DEF B
<1>5. Len(B) = Len(C) /\ Len(B) \in Nat
  BY <1>1, <1>2, <1>3, <1>4
<1>6. ASSUME NEW k \in 1..Len(B) PROVE B[k] = C[k]
  <2>1. /\ k \in 1..(Len(A) - y) /\ k \in 1..(Len(L) - (x + y))
        /\ y + k \in 1..(Len(L) - x) /\ x + (y + k) = x + y + k
    BY <1>1, <1>2, <1>3, <1>4, <1>5
  <2>2. B[k] = A[y + k]
    BY <1>4, <2>1
  <2>3. A[y + k] = L[x + (y + k)]
    BY <1>2, <2>1
  <2>4. C[k] = L[x + y + k]
    BY <1>3, <2>1
  <2>5. QED
    BY <2>1, <2>2, <2>3, <2>4
<1>7. B = C
  BY <1>3, <1>4, <1>5, <1>6, SeqEqual
<1>8. QED
  BY <1>7 DEF A, B, C

\* Skipping in what the ring buffer holds is skipping in the line.
LEMMA DropFront ==
    ASSUME NEW s \in Seq(Byte), NEW t \in Seq(Byte), NEW n \in 0..Len(s)
    PROVE  Drop(s, n) \o t = Drop(s \o t, n)
<1> DEFINE A == Drop(s, n)
           u == s \o t
           C == Drop(u, n)
<1>1. Len(s) \in Nat /\ Len(t) \in Nat /\ n \in Nat /\ n <= Len(s)
  OBVIOUS
<1>2. /\ u \in Seq(Byte) /\ Len(u) = Len(s) + Len(t)
      /\ \A i \in 1..(Len(s) + Len(t)) : u[i] = IF i <= Len(s) THEN s[i] ELSE t[i - Len(s)]
  BY ConcatProperties
<1> HIDE DEF u
<1>3. A \in Seq(Byte) /\ Len(A) = Len(s) - n /\ \A k \in 1..(Len(s) - n) : A[k] = s[n + k]
  BY <1>1, DropIs
<1>4. Len(u) \in Nat /\ n <= Len(u)
  BY <1>1, <1>2
<1>5. /\ C \in Seq(Byte) /\ Len(C) = (Len(s) + Len(t)) - n
      /\ \A k \in 1..((Len(s) + Len(t)) - n) : C[k] = u[n + k]
  BY <1>1, <1>2, <1>4, DropIs
<1> HIDE DEF A, C
<1>6. /\ A \o t \in Seq(Byte) /\ Len(A \o t) = Len(A) + Len(t)
      /\ \A i \in 1..(Len(A) + Len(t)) : (A \o t)[i] = IF i <= Len(A) THEN A[i] ELSE t[i - Len(A)]
  BY <1>3, ConcatProperties
<1>7. Len(A \o t) = Len(C) /\ Len(C) \in Nat
  BY <1>1, <1>3, <1>5, <1>6
<1>8. ASSUME NEW k \in 1..Len(C) PROVE (A \o t)[k] = C[k]
  <2>1. /\ k \in 1..(Len(A) + Len(t)) /\ n + k \in 1..(Len(s) + Len(t))
        /\ k \in 1..((Len(s) + Len(t)) - n) /\ k <= Len(A) <=> n + k <= Len(s)
        /\ k <= Len(A) => k \in 1..(Len(s) - n)
        /\ (n + k) - Len(s) = k - Len(A)
    BY <1>1, <1>3, <1>5
  <2>2. (A \o t)[k] = IF k <= Len(A) THEN A[k] ELSE t[k - Len(A)]
    BY <1>6, <2>1
  <2>3. C[k] = IF n + k <= Len(s) THEN s[n + k] ELSE t[(n + k) - Len(s)]
    BY <1>2, <1>5, <2>1
  <2>4. k <= Len(A) => A[k] = s[n + k]
    BY <1>3, <2>1
  <2>5. QED
    BY <2>1, <2>2, <2>3, <2>4
<1>9. A \o t = C
  BY <1>5, <1>6, <1>7, <1>8, SeqEqual
<1>10. QED
  BY <1>9 DEF A, C, u

\* Frames given are appended in any grouping.
LEMMA ConcatNumbers ==
    ASSUME NEW p \in Seq(Nat), NEW q \in Seq(Nat), NEW r \in Seq(Nat)
    PROVE  (p \o q) \o r = p \o (q \o r)
<1> DEFINE S == Nat
<1> HIDE DEF S
<1>1. p \in Seq(S) /\ q \in Seq(S) /\ r \in Seq(S)
  BY DEF S
<1>2. QED
  BY <1>1, ConcatAssociative

\* The loop of process_input keeps the invariant of the line.
LEMMA ParseKeeps ==
    ASSUME format \in Formats, FramesOK, NEW given, NEW L, NEW gone, Good(given, L, gone),
           NEW b \in Seq(Byte), AtFront(b, L)
    PROVE  LET parsed == Parse(b)
           IN  /\ parsed.skip \in 0..Len(b)
               /\ Good(given \o parsed.frames, Drop(L, parsed.skip), gone)
<1> DEFINE Acc == [skip : 0..Len(b), frames : Seq(Nat), more : BOOLEAN]
           S == {acc \in Acc : Good(given \o acc.frames, Drop(L, acc.skip), gone)}
<1>1. given \in Seq(Nat) /\ L \in Seq(Byte) /\ Len(L) \in Nat /\ Len(b) \in Nat
      /\ Len(b) <= Len(L) /\ \A k \in 1..Len(b) : b[k] = L[k]
  BY DEF Good, AtFront
<1>2. FirstTurn \in S
  <2>1. given \o <<>> = given
    BY <1>1
  <2>2. Drop(L, 0) = L
    <3>1. /\ Drop(L, 0) \in Seq(Byte) /\ Len(Drop(L, 0)) = Len(L) - 0
          /\ \A k \in 1..(Len(L) - 0) : Drop(L, 0)[k] = L[0 + k]
      BY <1>1, DropIs
    <3>2. \A k \in 1..Len(L) : 0 + k = k /\ Len(L) - 0 = Len(L)
      BY <1>1
    <3>3. Len(L) - 0 = Len(L)
      BY <1>1
    <3>4. QED
      BY <1>1, <3>1, <3>2, <3>3, SeqEqual
  <2>3. FirstTurn \in Acc /\ FirstTurn.frames = <<>> /\ FirstTurn.skip = 0
    BY <1>1 DEF FirstTurn
  <2>4. QED
    BY <2>1, <2>2, <2>3
<1>3. ASSUME NEW acc \in S PROVE Turn(b, acc) \in S
  <2> DEFINE x == acc.skip
             now == given \o acc.frames
             M == Drop(L, x)
             c == Drop(b, x)
             got == try_parse(c)
  <2>1. x \in 0..Len(b) /\ acc.frames \in Seq(Nat) /\ acc.more \in BOOLEAN /\ acc \in Acc
    OBVIOUS
  <2>2. Good(now, M, gone)
    OBVIOUS
  <2> HIDE DEF S
  <2>3. CASE ~acc.more
    BY <2>3 DEF Turn
  <2>4. CASE acc.more
    <3>1. x \in Nat /\ x <= Len(b) /\ x <= Len(L) /\ x \in 0..Len(L)
      BY <1>1, <2>1
    <3> HIDE DEF x
    <3>2. c \in Seq(Byte) /\ Len(c) = Len(b) - x /\ \A k \in 1..(Len(b) - x) : c[k] = b[x + k]
      BY <3>1, DropIs
    <3>3. M \in Seq(Byte) /\ Len(M) = Len(L) - x /\ \A k \in 1..(Len(L) - x) : M[k] = L[x + k]
      BY <1>1, <3>1, DropIs
    <3> HIDE DEF c, M, now
    <3>4. AtFront(c, M)
      <4>1. Len(c) <= Len(M)
        BY <1>1, <3>1, <3>2, <3>3
      <4>2. ASSUME NEW k \in 1..Len(c) PROVE c[k] = M[k]
        <5>1. k \in 1..(Len(b) - x) /\ k \in 1..(Len(L) - x) /\ x + k \in 1..Len(b)
          BY <1>1, <3>1, <3>2
        <5>2. QED
          BY <1>1, <3>2, <3>3, <5>1
      <4>3. QED
        BY <4>1, <4>2 DEF AtFront
    <3>5. /\ got.skip \in 0..Len(c) /\ got.frame \in Nat /\ got.more \in BOOLEAN
          /\ Good(now \o Given(got), Drop(M, got.skip), gone)
      BY <2>2, <3>2, <3>4, CallKeeps
    <3> HIDE DEF got
    <3>6. x + got.skip \in 0..Len(b) /\ got.skip \in 0..(Len(L) - x)
      BY <1>1, <3>1, <3>2, <3>5
    <3>7. Drop(M, got.skip) = Drop(L, x + got.skip)
      BY <1>1, <3>1, <3>6, DropTwice DEF M
    <3>8. Given(got) \in Seq(Nat) /\ acc.frames \o Given(got) \in Seq(Nat)
      BY <2>1, <3>5 DEF Given
    <3>9. now \o Given(got) = given \o (acc.frames \o Given(got))
      <4> DEFINE new == Given(got)
      <4>1. \A p, q, r \in Seq(Nat) : (p \o q) \o r = p \o (q \o r)
        BY ConcatNumbers
      <4>2. given \in Seq(Nat) /\ acc.frames \in Seq(Nat) /\ new \in Seq(Nat)
        BY <1>1, <2>1, <3>8
      <4> HIDE DEF new
      <4>3. (given \o acc.frames) \o new = given \o (acc.frames \o new)
        BY <4>1, <4>2
      <4>4. QED
        BY <4>3 DEF now, new
    <3>10. Turn(b, acc) = [skip |-> x + got.skip, frames |-> acc.frames \o Given(got),
                           more |-> got.more]
      BY <2>4 DEF Turn, Given, got, c, x
    <3>11. Turn(b, acc) \in Acc
      BY <3>5, <3>6, <3>8, <3>10
    <3>12. Good(given \o Turn(b, acc).frames, Drop(L, Turn(b, acc).skip), gone)
      BY <3>5, <3>7, <3>9, <3>10
    <3>13. QED
      BY <3>11, <3>12 DEF S
  <2>5. QED
    BY <2>1, <2>3, <2>4
<1>4. Parse(b) \in S
  <2> HIDE DEF S
  <2> QED BY <1>2, <1>3, ParseInvariant
<1>5. QED
  BY <1>4

----------------------------------------------------------------------------
(***************************************************************************)
(* process_input                                                           *)
(***************************************************************************)

\* The frames that have a byte among those from place a to place b.
Among(line, a, b) == {line[y].of[1] : y \in a..b} \ {0}

\* The frames of a piece of a line, by places in the line.
LEMMA FramesOf ==
    ASSUME NEW s \in Seq(Byte), NEW line \in Seq(Byte), NEW a \in Nat,
           a + Len(s) <= Len(line), \A k \in 1..Len(s) : s[k] = line[a + k]
    PROVE  Frames(s) = Among(line, a + 1, a + Len(s))
<1>1. Len(s) \in Nat /\ DOMAIN s = 1..Len(s)
  OBVIOUS
<1>2. ASSUME NEW x \in Frames(s) PROVE x \in Among(line, a + 1, a + Len(s))
  <2>1. PICK k \in 1..Len(s) : x = s[k].of[1] /\ x # 0
    BY <1>1 DEF Frames, Range
  <2>2. a + k \in (a + 1)..(a + Len(s)) /\ s[k] = line[a + k]
    BY <1>1
  <2>3. QED
    BY <2>1, <2>2 DEF Among
<1>3. ASSUME NEW x \in Among(line, a + 1, a + Len(s)) PROVE x \in Frames(s)
  <2>1. PICK y \in (a + 1)..(a + Len(s)) : x = line[y].of[1] /\ x # 0
    BY DEF Among
  <2> DEFINE k == y - a
  <2>2. k \in 1..Len(s) /\ a + k = y
    BY <1>1
  <2> HIDE DEF k
  <2>3. x = s[k].of[1] /\ s[k] \in Range(s)
    BY <1>1, <2>1, <2>2 DEF Range
  <2>4. QED
    BY <2>1, <2>3 DEF Frames
<1>4. QED
  BY <1>2, <1>3

\* The frames of a line are numbers.
LEMMA AmongIs ==
    ASSUME NEW line \in Seq(Byte), NEW a \in Nat, NEW b \in Nat, a >= 1, b <= Len(line)
    PROVE  Among(line, a, b) \in SUBSET Nat
<1> SUFFICES ASSUME NEW y \in a..b PROVE line[y].of[1] \in Nat
  BY DEF Among
<1>1. y \in 1..Len(line)
  OBVIOUS
<1>2. line[y] \in Byte
  BY <1>1
<1>3. QED
  BY <1>2 DEF Byte

\* What append does to the line, and which frames it takes bytes of.
Lost(line, a, b) ==
    LET taken == Among(line, a + 1, b)
        next == Among(line, b + 1, Len(line)) \ taken
    IN  taken \cup (IF a = b \/ format \notin Lines \/ next = {} THEN {} ELSE {Min(next)})

\* A piece taken out by append costs the frames that process_input calls lost.
LEMMA LosesOnlyLost ==
    ASSUME FramesOK, NEW given, NEW L, NEW gone, Good(given, L, gone),
           NEW M \in Seq(Byte), NEW a, NEW b, Cut(L, a, b, M)
    PROVE  Good(given, M, gone \cup Lost(L, a, b))
<1> DEFINE taken == Among(L, a + 1, b)
           next == Among(L, b + 1, Len(L)) \ taken
<1>1. /\ given \in Seq(Nat) /\ L \in Seq(Byte) /\ Sound(L) /\ Increasing(given)
      /\ After(given, L) /\ Accounted(given, L, gone)
  BY DEF Good
<1>2. a \in Nat /\ b \in Nat /\ a <= b /\ b <= Len(L) /\ Len(L) \in Nat
  BY <1>1 DEF Cut
<1>3. Sound(M) /\ After(given, M)
  BY <1>1, CutSound, CutAfter
<1>4. Accounted(given, M, gone \cup Lost(L, a, b))
  <2> SUFFICES ASSUME LinesFit, NEW f \in DOMAIN frames,
                      f \notin Range(given), f \notin gone, f \notin Lost(L, a, b),
                      ~(f \in refused /\ Absent(M, f))
               PROVE  Safe(M, f)
    BY DEF Accounted
  <2>1. f \in Nat /\ f # 0
    BY DEF FramesOK
  <2>2. Safe(L, f)
    BY <1>1, CutAbsent DEF Accounted
  <2>3. f \notin taken /\ (a = b \/ format \notin Lines \/ next = {} \/ f # Min(next))
    BY DEF Lost
  <2>4. \A y \in (a + 1)..b : L[y].of[1] # f
    BY <2>1, <2>3 DEF Among
  <2>5. f \notin next => \A y \in 1..Len(L) : L[y].of[1] = f => y <= a
    <3> SUFFICES ASSUME f \notin next, NEW y \in 1..Len(L), L[y].of[1] = f PROVE y <= a
      OBVIOUS
    <3>1. y \notin (a + 1)..b
      BY <2>4
    <3>2. y \notin (b + 1)..Len(L)
      BY <2>1, <2>3 DEF Among
    <3>3. QED
      BY <1>2, <3>1, <3>2
  <2>6. f \in next /\ f # Min(next) =>
           \E y \in (b + 1)..Len(L) : /\ Framed(L[y]) /\ L[y].of[1] < f
                                      /\ \A z \in (a + 1)..b : L[z].of[1] # L[y].of[1]
    <3> SUFFICES ASSUME f \in next, f # Min(next)
                 PROVE  \E y \in (b + 1)..Len(L) :
                           /\ Framed(L[y]) /\ L[y].of[1] < f
                           /\ \A z \in (a + 1)..b : L[z].of[1] # L[y].of[1]
      OBVIOUS
    <3>1. next \in SUBSET Nat
      <4>1. b + 1 \in Nat /\ b + 1 >= 1 /\ Len(L) <= Len(L)
        BY <1>2
      <4>2. Among(L, b + 1, Len(L)) \in SUBSET Nat
        BY <1>1, <1>2, <4>1, AmongIs
      <4>3. QED
        BY <4>2
    <3>2. Min(next) \in next /\ Min(next) <= f
      <4> HIDE DEF next
      <4> QED BY <3>1, LeastExists
    <3> DEFINE g == Min(next)
    <3>3. g \in Nat /\ g < f /\ g # 0 /\ g \notin taken /\ g \in Among(L, b + 1, Len(L))
      <4>1. g \in next /\ g <= f /\ g # f /\ g \in Nat
        BY <3>1, <3>2
      <4> HIDE DEF g
      <4>2. g # 0
        BY <4>1 DEF Among
      <4>3. QED
        BY <2>1, <4>1, <4>2
    <3> HIDE DEF g, next
    <3>4. PICK y \in (b + 1)..Len(L) : g = L[y].of[1]
      BY <3>3 DEF Among
    <3>5. \A z \in (a + 1)..b : L[z].of[1] # g
      BY <3>3 DEF Among
    <3>6. QED
      BY <3>3, <3>4, <3>5 DEF Framed
  <2> HIDE DEF next
  <2>7. \/ a = b
        \/ format \notin Lines
        \/ \A y \in 1..Len(L) : L[y].of[1] = f => y <= a
        \/ \E y \in (b + 1)..Len(L) : /\ Framed(L[y]) /\ L[y].of[1] < f
                                      /\ \A z \in (a + 1)..b : L[z].of[1] # L[y].of[1]
    BY <2>3, <2>5, <2>6
  <2>8. QED
    BY <1>1, <2>2, <2>4, <2>7, SafeAfterCut
<1>5. QED
  BY <1>1, <1>3, <1>4 DEF Good

\* What was in the ring buffer and what is read now, and of it what append
\* keeps, before the rest of the stream.
LEMMA AppendTakes ==
    ASSUME NEW p \in ParserType, NEW stream \in Seq(Byte), NEW n \in 1..Len(stream)
    PROVE  LET bytes == SubSeq(stream, 1, n)
               filled == append(p, bytes)
               left == Content(p) \o bytes
               rest == Drop(stream, n)
               line == Content(p) \o stream
               gone == IF filled = p THEN bytes
                       ELSE SubSeq(left, 1, Len(left) - buffer_length(filled))
               next == Frames((IF filled = p THEN <<>> ELSE Drop(left, Len(gone))) \o rest)
                       \ Frames(gone)
           IN  /\ filled \in ParserType
               /\ Content(filled) \o rest \in Seq(Byte)
               /\ \E a, b \in Nat :
                     /\ Cut(line, a, b, Content(filled) \o rest)
                     /\ a = b <=> gone = <<>>
                     /\ Frames(gone) = Among(line, a + 1, b)
                     /\ next = Among(line, b + 1, Len(line)) \ Among(line, a + 1, b)
<1> DEFINE bytes == SubSeq(stream, 1, n)
           filled == append(p, bytes)
           left == Content(p) \o bytes
           rest == Drop(stream, n)
           line == Content(p) \o stream
           M == Content(filled) \o rest
           o == buffer_length(p)
           gone == IF filled = p THEN bytes
                   ELSE SubSeq(left, 1, Len(left) - buffer_length(filled))
           behind == (IF filled = p THEN <<>> ELSE Drop(left, Len(gone))) \o rest
<1>1. Len(stream) \in Nat /\ n \in Nat /\ n >= 1 /\ n <= Len(stream)
  OBVIOUS
<1>2. bytes \in Seq(Byte) /\ Len(bytes) = n /\ \A k \in 1..n : bytes[k] = stream[k]
  <2>1. \A k \in 1..n : stream[k] \in Byte
    BY <1>1
  <2>2. /\ bytes \in Seq(Byte) /\ Len(bytes) = IF 1 <= n THEN n - 1 + 1 ELSE 0
        /\ \A k \in 1..(n - 1 + 1) : bytes[k] = stream[1 + k - 1]
    BY <2>1, SubSeqProperties
  <2>3. n - 1 + 1 = n /\ 1 <= n /\ \A k \in 1..n : 1 + k - 1 = k
    BY <1>1
  <2> HIDE DEF bytes
  <2>4. Len(bytes) = n
    BY <2>2, <2>3
  <2>5. \A k \in 1..n : bytes[k] = stream[k]
    BY <2>2, <2>3
  <2>6. QED
    BY <2>2, <2>4, <2>5
<1>3. Content(p) \in Seq(Byte) /\ Len(Content(p)) = o /\ o \in Nat
  BY ContentIs, FramingAssumption
<1>4. /\ rest \in Seq(Byte) /\ Len(rest) = Len(stream) - n
      /\ \A k \in 1..(Len(stream) - n) : rest[k] = stream[n + k]
  BY <1>1, DropIs
<1> HIDE DEF bytes, rest, o
<1>5. /\ line \in Seq(Byte) /\ Len(line) = o + Len(stream)
      /\ \A i \in 1..(o + Len(stream)) :
            line[i] = IF i <= o THEN Content(p)[i] ELSE stream[i - o]
  BY <1>3, ConcatProperties
<1>6. /\ left \in Seq(Byte) /\ Len(left) = o + n
      /\ \A i \in 1..(o + n) : left[i] = IF i <= o THEN Content(p)[i] ELSE bytes[i - o]
  BY <1>2, <1>3, ConcatProperties
<1> HIDE DEF line, left
<1>7. \A i \in 1..(o + n) : i \in 1..Len(line) /\ left[i] = line[i]
  <2> SUFFICES ASSUME NEW i \in 1..(o + n) PROVE i \in 1..Len(line) /\ left[i] = line[i]
    OBVIOUS
  <2>1. i \in 1..(o + Len(stream))
    BY <1>1, <1>3
  <2>2. i > o => i - o \in 1..n
    BY <1>1, <1>3
  <2>3. i \in 1..Len(line)
    BY <1>5, <2>1
  <2>4. CASE i <= o
    BY <1>5, <1>6, <2>1, <2>4
  <2>5. CASE i > o
    <3>1. ~(i <= o) /\ i - o \in 1..n
      BY <1>3, <2>2, <2>5
    <3>2. left[i] = bytes[i - o] /\ line[i] = stream[i - o]
      BY <1>5, <1>6, <2>1, <3>1
    <3>3. QED
      BY <1>2, <2>3, <3>1, <3>2
  <2>6. QED
    BY <1>3, <2>3, <2>4, <2>5
<1>8. \A k \in 1..Len(rest) : rest[k] = line[o + n + k]
  <2> TAKE k \in 1..Len(rest)
  <2>1. /\ k \in 1..(Len(stream) - n) /\ o + n + k \in 1..(o + Len(stream))
        /\ ~(o + n + k <= o) /\ (o + n + k) - o = n + k
    BY <1>1, <1>3, <1>4
  <2>2. QED
    BY <1>4, <1>5, <2>1
<1>9. line = left \o rest
  <2>1. /\ left \o rest \in Seq(Byte) /\ Len(left \o rest) = Len(left) + Len(rest)
        /\ \A i \in 1..(Len(left) + Len(rest)) :
              (left \o rest)[i] = IF i <= Len(left) THEN left[i] ELSE rest[i - Len(left)]
    BY <1>4, <1>6, ConcatProperties
  <2> DEFINE u == left \o rest
  <2> HIDE DEF u
  <2>2. Len(u) = Len(line) /\ u \in Seq(Byte)
    BY <1>1, <1>3, <1>4, <1>5, <1>6, <2>1 DEF u
  <2>3. ASSUME NEW i \in 1..Len(line) PROVE u[i] = line[i]
    <3>1. i \in 1..(Len(left) + Len(rest)) /\ Len(left) = o + n /\ i \in 1..(o + Len(stream))
      BY <1>1, <1>3, <1>4, <1>5, <1>6
    <3>2. u[i] = IF i <= o + n THEN left[i] ELSE rest[i - (o + n)]
      BY <2>1, <3>1 DEF u
    <3>3. i <= o + n => i \in 1..(o + n)
      BY <3>1
    <3>4. i > o + n => i - (o + n) \in 1..Len(rest) /\ o + n + (i - (o + n)) = i
      BY <1>1, <1>3, <1>4, <3>1
    <3>5. QED
      BY <1>1, <1>3, <1>7, <1>8, <3>1, <3>2, <3>3, <3>4
  <2>4. QED
    BY <1>5, <2>2, <2>3, SeqEqual DEF u
<1>10. CASE filled = p
  <2>1. filled \in ParserType /\ Content(filled) = Content(p) /\ gone = bytes
    BY <1>10
  <2> DEFINE a == o
             b == o + n
  <2> HIDE DEF filled
  <2>2. /\ M \in Seq(Byte) /\ Len(M) = o + Len(rest)
        /\ \A i \in 1..(o + Len(rest)) : M[i] = IF i <= o THEN Content(p)[i] ELSE rest[i - o]
    <3> DEFINE u == Content(p) \o rest
    <3>1. /\ u \in Seq(Byte) /\ Len(u) = o + Len(rest)
          /\ \A i \in 1..(o + Len(rest)) : u[i] = IF i <= o THEN Content(p)[i] ELSE rest[i - o]
      BY <1>3, <1>4, ConcatProperties
    <3>2. M = u
      BY <2>1
    <3> HIDE DEF u, M
    <3>3. QED
      BY <3>1, <3>2
  <2> HIDE DEF M
  <2>3. Cut(line, a, b, M)
    <3>1. /\ a \in Nat /\ b \in Nat /\ a <= b /\ b <= Len(line) /\ b - a = n
          /\ Len(M) = Len(line) - (b - a)
      BY <1>1, <1>3, <1>4, <1>5, <2>2
    <3>2. ASSUME NEW i \in 1..Len(M) PROVE M[i] = line[IF i <= a THEN i ELSE i + (b - a)]
      <4>1. i \in 1..(o + Len(rest)) /\ i \in Int
        BY <2>2
      <4>2. CASE i <= o
        <5>1. i \in 1..(o + Len(stream))
          BY <1>1, <1>3, <4>1, <4>2
        <5>2. QED
          BY <1>5, <2>2, <4>1, <4>2, <5>1
      <4>3. CASE i > o
        <5>1. i - o \in 1..Len(rest) /\ o + n + (i - o) = i + n /\ ~(i <= o)
          BY <1>1, <1>3, <1>4, <4>1, <4>3
        <5>2. QED
          BY <1>8, <2>2, <3>1, <4>1, <5>1
      <4>4. QED
        BY <1>3, <4>1, <4>2, <4>3
    <3>3. QED
      BY <3>1, <3>2 DEF Cut
  <2>4. Frames(gone) = Among(line, a + 1, b)
    <3>1. /\ a + Len(bytes) <= Len(line) /\ a + Len(bytes) = b
          /\ \A k \in 1..Len(bytes) : bytes[k] = line[a + k]
      <4>1. a + Len(bytes) <= Len(line) /\ a + Len(bytes) = b
        BY <1>1, <1>2, <1>3, <1>5
      <4>2. ASSUME NEW k \in 1..Len(bytes) PROVE bytes[k] = line[o + k]
        <5>1. /\ k \in 1..n /\ o + k \in 1..(o + Len(stream)) /\ ~(o + k <= o)
              /\ (o + k) - o = k
          BY <1>1, <1>2, <1>3
        <5>2. QED
          BY <1>2, <1>5, <5>1
      <4>3. QED
        BY <4>1, <4>2
    <3>2. QED
      BY <1>2, <1>3, <1>5, <2>1, <3>1, FramesOf
  <2>5. Frames(behind) = Among(line, b + 1, Len(line))
    <3>1. behind = rest
      BY <1>4, <1>10
    <3>2. /\ b \in Nat /\ b + Len(rest) = Len(line)
          /\ \A k \in 1..Len(rest) : rest[k] = line[b + k]
      <4>1. b \in Nat /\ b + Len(rest) = Len(line)
        BY <1>1, <1>3, <1>4, <1>5
      <4>2. QED
        BY <1>8, <4>1
    <3>3. Frames(rest) = Among(line, b + 1, b + Len(rest))
      <4> HIDE DEF b
      <4>1. b + Len(rest) <= Len(line)
        BY <1>5, <3>2
      <4>2. QED
        BY <1>4, <1>5, <3>2, <4>1, FramesOf
    <3>4. QED
      BY <3>1, <3>2, <3>3
  <2>6. a # b /\ gone # <<>> /\ a \in Nat /\ b \in Nat
    <3>1. a # b /\ a \in Nat /\ b \in Nat
      BY <1>1, <1>3
    <3>2. bytes # <<>>
      BY <1>1, <1>2
    <3> HIDE DEF gone
    <3>3. QED
      BY <2>1, <3>1, <3>2
  <2> HIDE DEF a, b, gone, behind
  <2>7. /\ filled \in ParserType /\ M \in Seq(Byte)
        /\ \E x, y \in Nat :
              /\ Cut(line, x, y, M)
              /\ x = y <=> gone = <<>>
              /\ Frames(gone) = Among(line, x + 1, y)
              /\ Frames(behind) \ Frames(gone)
                 = Among(line, y + 1, Len(line)) \ Among(line, x + 1, y)
    BY <2>1, <2>2, <2>3, <2>4, <2>5, <2>6
  <2>8. QED
    BY <2>7 DEF M, gone, behind, line, left, rest, filled, bytes
<1>11. CASE filled # p
  <2> DEFINE b == Len(left) - buffer_length(filled)
  <2>1. Len(bytes) <= Capacity
    <3> SUFFICES ASSUME ~(Len(bytes) <= Capacity) PROVE FALSE
      OBVIOUS
    <3>1. Len(bytes) > Capacity
      BY <1>1, <1>2, FramingAssumption
    <3>2. QED
      BY <1>11, <3>1 DEF append
  <2>2. /\ filled \in ParserType /\ buffer_length(filled) <= Len(left)
        /\ Content(filled) = Drop(left, b)
    BY <1>2, <2>1, AppendIs DEF left
  <2> HIDE DEF filled
  <2>3. buffer_length(filled) \in Nat /\ b \in Nat /\ b \in 0..Len(left) /\ b <= Len(left)
    BY <1>1, <1>3, <1>6, <2>2, ContentIs, FramingAssumption
  <2>4. gone = SubSeq(left, 1, b)
    BY <1>11
  <2> HIDE DEF b, gone
  <2>5. gone \in Seq(Byte) /\ Len(gone) = b /\ \A k \in 1..b : gone[k] = left[k]
    <3>1. \A k \in 1..b : left[k] \in Byte
      BY <1>6, <2>3
    <3>2. /\ gone \in Seq(Byte) /\ Len(gone) = IF 1 <= b THEN b - 1 + 1 ELSE 0
          /\ \A k \in 1..(b - 1 + 1) : gone[k] = left[1 + k - 1]
      BY <2>3, <2>4, <3>1, SubSeqProperties
    <3>3. b - 1 + 1 = b /\ (1 <= b <=> b # 0) /\ \A k \in 1..b : 1 + k - 1 = k
      BY <2>3
    <3>4. Len(gone) = b
      BY <2>3, <3>2, <3>3
    <3>5. \A k \in 1..b : gone[k] = left[k]
      BY <3>2, <3>3
    <3>6. QED
      BY <3>2, <3>4, <3>5
  <2>6. M = Drop(line, b)
    <3>1. Drop(left, b) \o rest = Drop(left \o rest, b)
      BY <1>4, <1>6, <2>3, DropFront
    <3>2. QED
      BY <1>9, <2>2, <3>1
  <2>7. b <= Len(line)
    BY <1>1, <1>3, <1>5, <1>6, <2>3
  <2>8. M \in Seq(Byte) /\ Cut(line, 0, b, M) /\ Len(M) = Len(line) - b
        /\ \A k \in 1..(Len(line) - b) : M[k] = line[b + k]
    BY <1>5, <2>3, <2>6, <2>7, DropIs
  <2>9. Frames(gone) = Among(line, 0 + 1, b)
    <3>1. 0 + Len(gone) <= Len(line) /\ 0 + Len(gone) = b /\ 0 \in Nat
      BY <2>3, <2>5, <2>7
    <3>2. ASSUME NEW k \in 1..Len(gone) PROVE gone[k] = line[0 + k]
      <4>1. k \in 1..b /\ k \in 1..(o + n) /\ 0 + k = k
        BY <1>6, <2>3, <2>5
      <4>2. QED
        BY <1>7, <2>5, <4>1
    <3>3. QED
      BY <1>5, <2>5, <3>1, <3>2, FramesOf
  <2>10. Frames(behind) = Among(line, b + 1, Len(line))
    <3>1. behind = M
      BY <1>11, <2>2, <2>5
    <3>2. Len(line) - b \in Nat /\ b + Len(M) = Len(line) /\ Len(M) = Len(line) - b
      BY <1>5, <2>3, <2>7, <2>8
    <3>3. b + Len(M) <= Len(line) /\ \A k \in 1..Len(M) : M[k] = line[b + k]
      BY <1>5, <2>8, <3>2
    <3> HIDE DEF M, behind
    <3>4. Frames(M) = Among(line, b + 1, b + Len(M))
      BY <1>5, <2>3, <2>8, <3>3, FramesOf
    <3>5. QED
      BY <3>1, <3>2, <3>4
  <2>11. 0 = b <=> gone = <<>>
    BY <2>3, <2>5
  <2> HIDE DEF M, behind
  <2>12. /\ filled \in ParserType /\ M \in Seq(Byte)
         /\ \E x, y \in Nat :
               /\ Cut(line, x, y, M)
               /\ x = y <=> gone = <<>>
               /\ Frames(gone) = Among(line, x + 1, y)
               /\ Frames(behind) \ Frames(gone)
                  = Among(line, y + 1, Len(line)) \ Among(line, x + 1, y)
    BY <2>2, <2>3, <2>8, <2>9, <2>10, <2>11
  <2>13. QED
    BY <2>12 DEF M, gone, behind, line, left, rest, filled, bytes
<1>12. QED
  BY <1>10, <1>11

\* The invariant of the stream does not depend on what process_input changes.
LEMMA GoodAsBefore ==
    ASSUME frames' = frames, format' = format, refused' = refused, Line' \in Seq(Byte),
           Good(pushed', Line', lost')
    PROVE  Good(pushed, Line, lost)'
<1> DEFINE L == Line'
           g == pushed'
           d == lost'
<1>1. /\ g \in Seq(Nat) /\ L \in Seq(Byte) /\ Sound(L) /\ Increasing(g)
      /\ After(g, L) /\ Accounted(g, L, d)
  BY DEF Good
<1>2. Sound(Line)'
  <2>1. InOrder(Line)'
    BY <1>1 DEF Sound, InOrder, Framed, Later
  <2>2. NoGaps(Line)'
    BY <1>1 DEF Sound, NoGaps, Framed
  <2>3. (\A i \in 1..Len(Line) : Line[i].of[1] \in DOMAIN frames => Genuine(Line[i]))'
    BY <1>1 DEF Sound, Genuine
  <2>4. QED
    BY <2>1, <2>2, <2>3 DEF Sound
<1>3. Increasing(pushed)' /\ After(pushed, Line)'
  BY <1>1 DEF Increasing, After, Framed, Later
<1>4. Accounted(pushed, Line, lost)'
  <2> SUFFICES ASSUME LinesFit', NEW f \in (DOMAIN frames)', f \notin Range(pushed') \cup lost'
               PROVE  Safe(Line, f)' \/ (f \in refused /\ Absent(Line, f))'
    BY DEF Accounted
  <2>1. LinesFit /\ f \in DOMAIN frames
    BY DEF LinesFit
  <2>2. Safe(L, f) \/ (f \in refused /\ Absent(L, f))
    BY <1>1, <2>1 DEF Accounted
  <2>3. CASE Safe(L, f)
    BY <2>3 DEF Safe, Whole, StartsLine
  <2>4. CASE f \in refused /\ Absent(L, f)
    BY <2>4 DEF Absent
  <2>5. QED
    BY <2>2, <2>3, <2>4
<1>5. QED
  BY <1>1, <1>2, <1>3, <1>4 DEF Good

\* process_input keeps the invariant.
LEMMA ProcessInput ==
    ASSUME IInv, NEW n \in 1..Len(input), process_input(n)
    PROVE  IInv'
<1> DEFINE bytes == SubSeq(input, 1, n)
           filled == append(parser, bytes)
           parsed == Parse(Content(filled))
           left == Content(parser) \o bytes
           rest == Drop(input, n)
           M == Content(filled) \o rest
           gone == IF filled = parser THEN bytes
                   ELSE SubSeq(left, 1, Len(left) - buffer_length(filled))
           next == Frames((IF filled = parser THEN <<>> ELSE Drop(left, Len(gone))) \o rest)
                   \ Frames(gone)
<1>1. /\ format \in Formats /\ FramesOK /\ parser \in ParserType /\ input \in Seq(Byte)
      /\ Good(pushed, Line, lost)
  BY DEF IInv
<1>2. /\ input' = rest /\ parser' = skip(filled, parsed.skip)
      /\ pushed' = pushed \o parsed.frames
      /\ lost' = lost \cup Frames(gone) \cup
                 (IF gone = <<>> \/ format \notin Lines \/ next = {} THEN {}
                  ELSE {Min(next)})
      /\ format' = format /\ frames' = frames /\ refused' = refused
  BY DEF process_input
<1>3. /\ filled \in ParserType
      /\ M \in Seq(Byte)
      /\ \E a, b \in Nat :
            /\ Cut(Line, a, b, M)
            /\ a = b <=> gone = <<>>
            /\ Frames(gone) = Among(Line, a + 1, b)
            /\ next = Among(Line, b + 1, Len(Line)) \ Among(Line, a + 1, b)
  BY <1>1, AppendTakes DEF Line
<1>4. rest \in Seq(Byte) /\ Content(filled) \in Seq(Byte)
      /\ Len(Content(filled)) = buffer_length(filled)
  <2>1. n \in Nat
    OBVIOUS
  <2> HIDE DEF filled
  <2>2. QED
    BY <1>1, <1>3, <2>1, DropIs, ContentIs
<1> HIDE DEF gone, next, filled, rest, parsed
<1>5. Good(pushed, M, lost')
  <2>1. PICK a \in Nat, b \in Nat :
           /\ Cut(Line, a, b, M)
           /\ a = b <=> gone = <<>>
           /\ Frames(gone) = Among(Line, a + 1, b)
           /\ next = Among(Line, b + 1, Len(Line)) \ Among(Line, a + 1, b)
    BY <1>3
  <2>2. lost' = lost \cup Lost(Line, a, b)
    <3>1. Lost(Line, a, b) = Frames(gone) \cup
             (IF gone = <<>> \/ format \notin Lines \/ next = {} THEN {} ELSE {Min(next)})
      BY <2>1 DEF Lost
    <3>2. QED
      BY <1>2, <3>1
  <2> HIDE DEF M
  <2>3. QED
    BY <1>1, <1>3, <2>1, <2>2, LosesOnlyLost
<1>6. AtFront(Content(filled), M)
  <2>1. /\ Len(M) = Len(Content(filled)) + Len(rest)
        /\ \A i \in 1..(Len(Content(filled)) + Len(rest)) :
              M[i] = IF i <= Len(Content(filled)) THEN Content(filled)[i]
                     ELSE rest[i - Len(Content(filled))]
    BY <1>4, ConcatProperties
  <2> HIDE DEF M
  <2>2. Len(Content(filled)) \in Nat /\ Len(rest) \in Nat
    BY <1>4
  <2>3. QED
    BY <2>1, <2>2 DEF AtFront
<1>7. /\ parsed.skip \in 0..buffer_length(filled)
      /\ Good(pushed \o parsed.frames, Drop(M, parsed.skip), lost')
  <2> HIDE DEF M
  <2>1. QED
    BY <1>1, <1>4, <1>5, <1>6, ParseKeeps DEF parsed
<1>8. parser' \in ParserType /\ Content(parser') = Drop(Content(filled), parsed.skip)
  BY <1>2, <1>3, <1>7, SkipIs
<1>9. Content(parser') \o input' = Drop(M, parsed.skip)
  <2> DEFINE c == Content(filled)
             k == parsed.skip
  <2>1. c \in Seq(Byte) /\ rest \in Seq(Byte) /\ k \in 0..Len(c) /\ k \in Nat /\ k <= Len(c)
    BY <1>4, <1>7
  <2>2. Content(parser') = Drop(c, k) /\ input' = rest /\ M = c \o rest
    BY <1>2, <1>8
  <2> HIDE DEF c, k, M
  <2>3. Drop(c, k) \o rest = Drop(c \o rest, k)
    BY <2>1, DropFront
  <2>4. Content(parser') \o input' = Drop(M, k)
    BY <2>2, <2>3
  <2>5. QED
    BY <2>4 DEF k
<1>10. Line' = Content(parser') \o input'
  BY DEF Line, Content, buffer_length
<1>11. Good(pushed', Line', lost') /\ Line' \in Seq(Byte)
  <2>1. Good(pushed', Line', lost')
    BY <1>2, <1>7, <1>9, <1>10
  <2>2. QED
    BY <2>1 DEF Good
<1>12. Good(pushed, Line, lost)'
  BY <1>2, <1>11, GoodAsBefore
<1>13. FramesOK'
  BY <1>1, <1>2 DEF FramesOK, FrameSize
<1>14. QED
  BY <1>1, <1>2, <1>4, <1>8, <1>12, <1>13 DEF IInv, ParserType, Formats

----------------------------------------------------------------------------
(***************************************************************************)
(* The stream at the beginning                                             *)
(***************************************************************************)
Joins(s, a, p, c) ==
    /\ s \in Seq(Nat) /\ Len(s) = Len(a) + Len(p) + Len(c)
    /\ \A k \in 1..Len(s) :
          /\ k <= Len(a) => s[k] = a[k]
          /\ k > Len(a) /\ k <= Len(a) + Len(p) => s[k] = p[k - Len(a)]
          /\ k > Len(a) + Len(p) => s[k] = c[k - (Len(a) + Len(p))]

\* Three sequences in a row, place by place.
LEMMA Three ==
    ASSUME NEW a \in Seq(Nat), NEW p \in Seq(Nat), NEW c \in Seq(Nat)
    PROVE  Joins(a \o p \o c, a, p, c)
<1> DEFINE t == a \o p
           s == t \o c
<1>1. Len(a) \in Nat /\ Len(p) \in Nat /\ Len(c) \in Nat
  OBVIOUS
<1>2. /\ t \in Seq(Nat) /\ Len(t) = Len(a) + Len(p)
      /\ \A i \in 1..(Len(a) + Len(p)) : t[i] = IF i <= Len(a) THEN a[i] ELSE p[i - Len(a)]
  BY ConcatProperties
<1> HIDE DEF t
<1>3. /\ s \in Seq(Nat) /\ Len(s) = Len(t) + Len(c)
      /\ \A i \in 1..(Len(t) + Len(c)) : s[i] = IF i <= Len(t) THEN t[i] ELSE c[i - Len(t)]
  <2>1. t \in Seq(Nat)
    BY <1>2
  <2>2. QED
    BY <2>1, ConcatProperties
<1> HIDE DEF s
<1>4. ASSUME NEW k \in 1..Len(s)
      PROVE  /\ k <= Len(a) => s[k] = a[k]
             /\ k > Len(a) /\ k <= Len(a) + Len(p) => s[k] = p[k - Len(a)]
             /\ k > Len(a) + Len(p) => s[k] = c[k - (Len(a) + Len(p))]
  <2>1. /\ k \in 1..(Len(t) + Len(c)) /\ k \in Int /\ Len(t) = Len(a) + Len(p)
        /\ k <= Len(t) => k \in 1..(Len(a) + Len(p))
        /\ k <= Len(a) => k <= Len(t)
    BY <1>1, <1>2, <1>3
  <2>2. s[k] = IF k <= Len(t) THEN t[k] ELSE c[k - Len(t)]
    BY <1>3, <2>1
  <2>3. k <= Len(t) => t[k] = IF k <= Len(a) THEN a[k] ELSE p[k - Len(a)]
    BY <1>2, <2>1
  <2>4. QED
    BY <1>1, <2>1, <2>2, <2>3
<1>5. s \in Seq(Nat) /\ Len(s) = Len(a) + Len(p) + Len(c)
  BY <1>1, <1>2, <1>3
<1>6. QED
  BY <1>4, <1>5 DEF Joins, s, t

\* The values of a frame, by their places.
Looks(f, v) ==
    LET n == Len(v)
    IN  /\ v \in Seq(Nat)
        /\ n \in (IF f \in {"ubx", "nmea"} THEN 4..(4 + MaxPayload) ELSE 3..(3 + MaxPayload))
        /\ f = "ubx" => v[1] = Start /\ v[2] = Second /\ v[3] = n - UbxSize
        /\ f = "rtcm" => v[1] = Start /\ v[2] = n - RtcmSize
        /\ f = "nmea" => \A k \in 1..n : v[k] = Start <=> k = 1
        /\ f = "ctrl" => v[1] = Start /\ \A k \in 1..n : v[k] # Cr
        /\ f \in {"nmea", "at"} => \A k \in 1..n : v[k] = Cr <=> k = n - 1
        /\ f \in {"nmea", "ctrl", "at"} => \A k \in 1..n : v[k] = Lf <=> k = n

\* A frame of any format is as its parser expects it.
LEMMA FrameBytesLook ==
    ASSUME NEW f \in Formats, NEW p \in Payloads(f)
    PROVE  Looks(f, FrameBytes(f, p))
<1> DEFINE v == FrameBytes(f, p)
           m == Len(p)
<1>1. MaxPayload \in Nat
  BY FramingAssumption
<1>2. /\ p \in Seq(Nat) /\ m \in 0..MaxPayload
      /\ \A k \in 1..m : p[k] \in {Start, Other} /\ (f = "nmea" => p[k] = Other)
  <2> DEFINE S == IF f = "nmea" THEN {Other} ELSE {Start, Other}
  <2>1. PICK w \in 0..MaxPayload : p \in [1..w -> S]
    BY DEF Payloads, SeqOf
  <2>2. S \subseteq Nat /\ S \subseteq {Start, Other} /\ (f = "nmea" => S = {Other})
    BY DEF Start, Other
  <2> HIDE DEF S
  <2>3. p \in Seq(Nat) /\ m = w
    <3>1. p \in [1..w -> Nat] /\ w \in Nat
      <4>1. w \in Nat
        BY <1>1
      <4>2. p = [k \in 1..w |-> p[k]] /\ \A k \in 1..w : p[k] \in S
        BY <2>1
      <4>3. \A k \in 1..w : p[k] \in Nat
        BY <2>2, <4>2
      <4>4. QED
        BY <4>1, <4>2, <4>3
    <3>2. QED
      BY <3>1
  <2>4. QED
    BY <2>1, <2>2, <2>3
<1>3. m \in Nat /\ m <= MaxPayload
  BY <1>1, <1>2
<1> HIDE DEF m
<1>4. CASE f = "ubx"
  <2> DEFINE a == <<Start, Second, m>>
             c == <<Sum>>
  <2>1. v = a \o p \o c
    BY <1>4 DEF FrameBytes, m
  <2>2. a \in Seq(Nat) /\ Len(a) = 3 /\ a[1] = Start /\ a[2] = Second /\ a[3] = m
        /\ c \in Seq(Nat) /\ Len(c) = 1
    BY <1>3 DEF Start, Second, Sum
  <2> HIDE DEF a, c, v
  <2>3. /\ v \in Seq(Nat) /\ Len(v) = 3 + m + 1
        /\ \A k \in 1..Len(v) : k <= 3 => v[k] = a[k]
    <3>1. Joins(v, a, p, c)
      BY <1>2, <2>1, <2>2, Three
    <3>2. QED
      BY <2>2, <3>1 DEF Joins, m
  <2>4. 1 \in 1..Len(v) /\ 2 \in 1..Len(v) /\ 3 \in 1..Len(v) /\ Len(v) - UbxSize = m
        /\ Len(v) \in 4..(4 + MaxPayload)
    BY <1>1, <1>3, <2>3 DEF UbxSize
  <2>5. v[1] = Start /\ v[2] = Second /\ v[3] = m
    BY <2>2, <2>3, <2>4
  <2>6. QED
    BY <1>4, <2>3, <2>4, <2>5 DEF Looks, v
<1>5. CASE f = "rtcm"
  <2> DEFINE a == <<Start, m>>
             c == <<Sum>>
  <2>1. v = a \o p \o c
    BY <1>5 DEF FrameBytes, m
  <2>2. a \in Seq(Nat) /\ Len(a) = 2 /\ a[1] = Start /\ a[2] = m
        /\ c \in Seq(Nat) /\ Len(c) = 1
    BY <1>3 DEF Start, Second, Sum
  <2> HIDE DEF a, c, v
  <2>3. /\ v \in Seq(Nat) /\ Len(v) = 2 + m + 1
        /\ \A k \in 1..Len(v) : k <= 2 => v[k] = a[k]
    <3>1. Joins(v, a, p, c)
      BY <1>2, <2>1, <2>2, Three
    <3>2. QED
      BY <2>2, <3>1 DEF Joins, m
  <2>4. 1 \in 1..Len(v) /\ 2 \in 1..Len(v) /\ Len(v) - RtcmSize = m
        /\ Len(v) \in 3..(3 + MaxPayload)
    BY <1>1, <1>3, <2>3 DEF RtcmSize
  <2>5. v[1] = Start /\ v[2] = m
    BY <2>2, <2>3, <2>4
  <2>6. QED
    BY <1>5, <2>3, <2>4, <2>5 DEF Looks, v
<1>6. CASE f = "nmea"
  <2> DEFINE a == <<Start>>
             c == <<Sum, Cr, Lf>>
  <2>1. v = a \o p \o c
    BY <1>6 DEF FrameBytes
  <2>2. a \in Seq(Nat) /\ Len(a) = 1 /\ a[1] = Start
        /\ c \in Seq(Nat) /\ Len(c) = 3 /\ c[1] = Sum /\ c[2] = Cr /\ c[3] = Lf
    BY DEF Start, Sum, Cr, Lf
  <2> HIDE DEF a, c, v
  <2>3. /\ v \in Seq(Nat) /\ Len(v) = 1 + m + 3
        /\ \A k \in 1..Len(v) : /\ k <= 1 => v[k] = a[k]
                                /\ k > 1 /\ k <= 1 + m => v[k] = p[k - 1]
                                /\ k > 1 + m => v[k] = c[k - (1 + m)]
    <3>1. Joins(v, a, p, c)
      BY <1>2, <2>1, <2>2, Three
    <3>2. QED
      BY <2>2, <3>1 DEF Joins, m
  <2> DEFINE n == Len(v)
  <2>4. n = m + 4 /\ n \in 4..(4 + MaxPayload)
    BY <1>1, <1>3, <2>3
  <2>5. ASSUME NEW k \in 1..n
        PROVE  /\ v[k] = Start <=> k = 1
               /\ v[k] = Cr <=> k = n - 1
               /\ v[k] = Lf <=> k = n
    <3>1. k \in Int /\ m \in Int /\ m >= 0 /\ k >= 1 /\ k <= m + 4
      BY <1>3, <2>4
    <3>2. CASE k = 1
      <4>1. v[k] = Start /\ k # n - 1 /\ k # n
        BY <2>2, <2>3, <2>4, <3>1, <3>2
      <4>2. QED
        BY <3>2, <4>1 DEF Start, Cr, Lf
    <3>3. CASE k > 1 /\ k <= 1 + m
      <4>1. k - 1 \in 1..m /\ k # 1 /\ k # n - 1 /\ k # n
        BY <2>4, <3>1, <3>3
      <4>2. v[k] = Other
        BY <1>2, <1>6, <2>3, <3>3, <4>1
      <4>3. QED
        BY <4>1, <4>2 DEF Start, Cr, Lf, Other
    <3>4. CASE k = m + 2
      <4>1. k > 1 + m /\ k - (1 + m) = 1 /\ k # 1 /\ k # n - 1 /\ k # n
        BY <2>4, <3>1, <3>4
      <4>2. v[k] = Sum
        BY <2>2, <2>3, <4>1
      <4>3. QED
        BY <4>1, <4>2 DEF Start, Cr, Lf, Sum
    <3>5. CASE k = m + 3
      <4>1. k > 1 + m /\ k - (1 + m) = 2 /\ k # 1 /\ k = n - 1 /\ k # n
        BY <2>4, <3>1, <3>5
      <4>2. v[k] = Cr
        BY <2>2, <2>3, <4>1
      <4>3. QED
        BY <4>1, <4>2 DEF Start, Cr, Lf
    <3>6. CASE k = m + 4
      <4>1. k > 1 + m /\ k - (1 + m) = 3 /\ k # 1 /\ k # n - 1 /\ k = n
        BY <2>4, <3>1, <3>6
      <4>2. v[k] = Lf
        BY <2>2, <2>3, <4>1
      <4>3. QED
        BY <4>1, <4>2 DEF Start, Cr, Lf
    <3>7. QED
      BY <3>1, <3>2, <3>3, <3>4, <3>5, <3>6
  <2>6. QED
    BY <1>6, <2>3, <2>4, <2>5 DEF Looks, v
<1>7. CASE f = "ctrl"
  <2> DEFINE a == <<Start>>
             c == <<Other, Lf>>
  <2>1. v = a \o p \o c
    BY <1>7 DEF FrameBytes
  <2>2. a \in Seq(Nat) /\ Len(a) = 1 /\ a[1] = Start
        /\ c \in Seq(Nat) /\ Len(c) = 2 /\ c[1] = Other /\ c[2] = Lf
    BY DEF Start, Other, Lf
  <2> HIDE DEF a, c, v
  <2>3. /\ v \in Seq(Nat) /\ Len(v) = 1 + m + 2
        /\ \A k \in 1..Len(v) : /\ k <= 1 => v[k] = a[k]
                                /\ k > 1 /\ k <= 1 + m => v[k] = p[k - 1]
                                /\ k > 1 + m => v[k] = c[k - (1 + m)]
    <3>1. Joins(v, a, p, c)
      BY <1>2, <2>1, <2>2, Three
    <3>2. QED
      BY <2>2, <3>1 DEF Joins, m
  <2> DEFINE n == Len(v)
  <2>4. n = m + 3 /\ n \in 3..(3 + MaxPayload)
    BY <1>1, <1>3, <2>3
  <2>5. v[1] = Start
    BY <1>3, <2>2, <2>3, <2>4
  <2>6. ASSUME NEW k \in 1..n
        PROVE  v[k] # Cr /\ (v[k] = Lf <=> k = n)
    <3>1. k \in Int /\ m \in Int /\ m >= 0 /\ k >= 1 /\ k <= m + 3
      BY <1>3, <2>4
    <3>2. CASE k = 1
      <4>1. v[k] = Start /\ k # n
        BY <2>4, <2>5, <3>1, <3>2
      <4>2. QED
        BY <4>1 DEF Start, Cr, Lf
    <3>3. CASE k > 1 /\ k <= 1 + m
      <4>1. k - 1 \in 1..m /\ k # n
        BY <2>4, <3>1, <3>3
      <4>2. v[k] \in {Start, Other}
        BY <1>2, <2>3, <3>3, <4>1
      <4>3. QED
        BY <4>1, <4>2 DEF Start, Cr, Lf, Other
    <3>4. CASE k = m + 2
      <4>1. k > 1 + m /\ k - (1 + m) = 1 /\ k # n
        BY <2>4, <3>1, <3>4
      <4>2. v[k] = Other
        BY <2>2, <2>3, <4>1
      <4>3. QED
        BY <4>1, <4>2 DEF Cr, Lf, Other
    <3>5. CASE k = m + 3
      <4>1. k > 1 + m /\ k - (1 + m) = 2 /\ k = n
        BY <2>4, <3>1, <3>5
      <4>2. v[k] = Lf
        BY <2>2, <2>3, <4>1
      <4>3. QED
        BY <4>1, <4>2 DEF Cr, Lf
    <3>6. QED
      BY <3>1, <3>2, <3>3, <3>4, <3>5
  <2>7. QED
    BY <1>7, <2>3, <2>4, <2>5, <2>6 DEF Looks, v
<1>8. CASE f = "at"
  <2> DEFINE c == <<Other, Cr, Lf>>
  <2>1. v = p \o c
    BY <1>8 DEF FrameBytes
  <2>2. c \in Seq(Nat) /\ Len(c) = 3 /\ c[1] = Other /\ c[2] = Cr /\ c[3] = Lf
    BY DEF Other, Cr, Lf
  <2> HIDE DEF c, v
  <2>3. /\ v \in Seq(Nat) /\ Len(v) = m + 3
        /\ \A k \in 1..(m + 3) : v[k] = IF k <= m THEN p[k] ELSE c[k - m]
    <3> DEFINE u == p \o c
    <3>1. /\ u \in Seq(Nat) /\ Len(u) = m + Len(c)
          /\ \A k \in 1..(m + Len(c)) : u[k] = IF k <= m THEN p[k] ELSE c[k - m]
      BY <1>2, <2>2, ConcatProperties DEF m
    <3> HIDE DEF u
    <3>2. v = u
      BY <2>1 DEF u
    <3>3. QED
      BY <2>2, <3>1, <3>2
  <2> DEFINE n == Len(v)
  <2>4. n = m + 3 /\ n \in 3..(3 + MaxPayload)
    BY <1>1, <1>3, <2>3
  <2>5. ASSUME NEW k \in 1..n
        PROVE  (v[k] = Cr <=> k = n - 1) /\ (v[k] = Lf <=> k = n)
    <3>1. k \in Int /\ m \in Int /\ m >= 0 /\ k >= 1 /\ k <= m + 3 /\ k \in 1..(m + 3)
      BY <1>3, <2>4
    <3>2. CASE k <= m
      <4>1. k \in 1..m /\ k # n /\ k # n - 1
        BY <2>4, <3>1, <3>2
      <4>2. v[k] \in {Start, Other}
        BY <1>2, <2>3, <3>1, <3>2, <4>1
      <4>3. QED
        BY <4>1, <4>2 DEF Start, Cr, Lf, Other
    <3>3. CASE k = m + 1
      <4>1. ~(k <= m) /\ k - m = 1 /\ k # n /\ k # n - 1
        BY <2>4, <3>1, <3>3
      <4>2. v[k] = Other
        BY <2>2, <2>3, <3>1, <4>1
      <4>3. QED
        BY <4>1, <4>2 DEF Cr, Lf, Other
    <3>4. CASE k = m + 2
      <4>1. ~(k <= m) /\ k - m = 2 /\ k # n /\ k = n - 1
        BY <2>4, <3>1, <3>4
      <4>2. v[k] = Cr
        BY <2>2, <2>3, <3>1, <4>1
      <4>3. QED
        BY <4>1, <4>2 DEF Cr, Lf
    <3>5. CASE k = m + 3
      <4>1. ~(k <= m) /\ k - m = 3 /\ k = n /\ k # n - 1
        BY <2>4, <3>1, <3>5
      <4>2. v[k] = Lf
        BY <2>2, <2>3, <3>1, <4>1
      <4>3. QED
        BY <4>1, <4>2 DEF Cr, Lf
    <3>6. QED
      BY <3>1, <3>2, <3>3, <3>4, <3>5
  <2>6. QED
    BY <1>8, <2>3, <2>4, <2>5 DEF Looks, v
<1>9. QED
  BY <1>4, <1>5, <1>6, <1>7, <1>8 DEF Formats

\* What holds of the concatenation of none, and goes on holding with each part
\* that is appended, holds of FlattenSeq.
LEMMA FlattenInvariant ==
    ASSUME NEW n \in Nat, NEW A, NEW seqs \in [1..n -> Seq(A)], NEW P, <<>> \in P[0],
           \A i \in 1..n : \A s \in Seq(A) : s \in P[i - 1] => s \o seqs[i] \in P[i]
    PROVE  FlattenSeq(seqs) \in Seq(A) /\ FlattenSeq(seqs) \in P[n]
<1> DEFINE Step(f, i) == IF i = 1 THEN seqs[i] ELSE f[i - 1] \o seqs[i]
           step == [i \in 1..n |-> [s \in Seq(A) |-> s \o seqs[i]]]
           flatten == CHOOSE h : h = [i \in 1..n |-> Step(h, i)]
<1>1. Len(seqs) = n /\ seqs \in Seq(Seq(A)) /\ \A i \in 1..n : seqs[i] \in Seq(A)
  OBVIOUS
<1>2. CASE n = 0
  <2>1. seqs = <<>>
    BY <1>1, <1>2, EmptySeq
  <2>2. FlattenSeq(seqs) = <<>>
    BY <1>1, <1>2, <2>1 DEF FlattenSeq
  <2>3. QED
    BY <1>2, <2>2
<1>3. CASE n # 0
  <2>1. FlattenSeq(seqs) = flatten[n]
    BY <1>1, <1>3 DEF FlattenSeq
  <2>2. PICK h \in [0..n -> Seq(A)] :
           h[0] = <<>> /\ \A i \in 1..n : h[i] = step[i][h[i - 1]]
    <3>1. step \in [1..n -> [Seq(A) -> Seq(A)]]
      BY <1>1, ConcatProperties
    <3>2. <<>> \in Seq(A)
      OBVIOUS
    <3> HIDE DEF step
    <3>3. \E g \in [0..n -> Seq(A)] : GoesOn(g, n, <<>>, step)
      BY <3>1, <3>2, Recursion
    <3>4. QED
      BY <3>3 DEF GoesOn
  <2>3. \A i \in 1..n : h[i] = h[i - 1] \o seqs[i]
    <3> TAKE i \in 1..n
    <3>1. i - 1 \in 0..n
      OBVIOUS
    <3>2. h[i - 1] \in Seq(A)
      BY <3>1
    <3>3. QED
      BY <2>2, <3>2
  <2> HIDE DEF step
  <2> DEFINE g == [i \in 1..n |-> h[i]]
  <2>4. \A i \in 1..n : g[i] = Step(g, i)
    <3> TAKE i \in 1..n
    <3>1. CASE i = 1
      <4>1. h[i] = <<>> \o seqs[i]
        <5>1. i - 1 = 0
          BY <3>1
        <5>2. QED
          BY <2>2, <2>3, <5>1
      <4>2. <<>> \o seqs[i] = seqs[i]
        BY <1>1, ConcatEmptySeq
      <4>3. QED
        BY <3>1, <4>1, <4>2
    <3>2. CASE i # 1
      <4>1. i - 1 \in 1..n
        BY <3>2
      <4>2. QED
        BY <2>3, <3>2, <4>1
    <3>3. QED
      BY <3>1, <3>2
  <2>5. g = [i \in 1..n |-> Step(g, i)]
    <3>1. g = [i \in 1..n |-> g[i]]
      OBVIOUS
    <3> HIDE DEF Step, g
    <3>2. [i \in 1..n |-> g[i]] = [i \in 1..n |-> Step(g, i)]
      BY <2>4
    <3>3. QED
      BY <3>1, <3>2
  <2>6. flatten = [i \in 1..n |-> Step(flatten, i)]
    <3> HIDE DEF Step, g
    <3> QED BY <2>5
  <2> HIDE DEF flatten
  <2>7. \A i \in 1..n : flatten[i] = Step(flatten, i)
    <3> DEFINE u == [i \in 1..n |-> Step(flatten, i)]
    <3>1. \A i \in 1..n : u[i] = Step(flatten, i)
      OBVIOUS
    <3>2. flatten = u
      BY <2>6
    <3> HIDE DEF u, Step
    <3>3. QED
      BY <3>1, <3>2
  <2> DEFINE T == {i \in Nat : i + 1 <= n =>
                                  flatten[i + 1] \in Seq(A) /\ flatten[i + 1] \in P[i + 1]}
  <2>8. 0 \in T
    <3>1. 1 \in 1..n
      BY <1>3
    <3>2. flatten[1] = seqs[1] /\ seqs[1] \in Seq(A)
      BY <1>1, <2>7, <3>1
    <3>3. <<>> \o seqs[1] = seqs[1]
      BY <3>2, ConcatEmptySeq
    <3>4. <<>> \o seqs[1] \in P[1]
      <4>1. 1 - 1 = 0 /\ <<>> \in Seq(A)
        OBVIOUS
      <4>2. QED
        BY <3>1, <4>1
    <3>5. 0 + 1 = 1
      OBVIOUS
    <3>6. QED
      BY <3>2, <3>3, <3>4, <3>5
  <2>9. ASSUME NEW i \in Nat, i \in T PROVE i + 1 \in T
    <3> SUFFICES ASSUME (i + 1) + 1 <= n
                 PROVE  flatten[(i + 1) + 1] \in Seq(A) /\ flatten[(i + 1) + 1] \in P[(i + 1) + 1]
      OBVIOUS
    <3> DEFINE k == (i + 1) + 1
    <3>1. k \in 1..n /\ k # 1 /\ k - 1 = i + 1 /\ i + 1 <= n
      OBVIOUS
    <3>2. flatten[k - 1] \in Seq(A) /\ flatten[k - 1] \in P[k - 1]
      BY <2>9, <3>1
    <3> HIDE DEF k
    <3>3. flatten[k] = flatten[k - 1] \o seqs[k]
      BY <2>7, <3>1
    <3>4. flatten[k] \in Seq(A)
      BY <1>1, <3>1, <3>2, <3>3, ConcatProperties
    <3>5. QED
      BY <3>1, <3>2, <3>3, <3>4 DEF k
  <2>10. n - 1 \in T
    <3>1. n - 1 \in Nat
      BY <1>3
    <3> HIDE DEF T
    <3> QED BY <2>8, <2>9, <3>1, Induction
  <2>11. n - 1 + 1 = n
    OBVIOUS
  <2>12. QED
    BY <2>1, <2>10, <2>11
<1>4. QED
  BY <1>2, <1>3

\* The bytes of an item, and where each item begins.
Part(items, j) ==
    [k \in DOMAIN items[j].v |->
       IF items[j].ok THEN [v |-> items[j].v[k], of |-> <<j, k>>]
       ELSE Stray(items[j].v[k])]

Places(items, at) ==
    /\ at \in [0..MaxItems -> Nat] /\ at[0] = 0
    /\ \A j \in 1..MaxItems : at[j] = at[j - 1] + Len(items[j].v)
    /\ \A i, j \in 0..MaxItems : i <= j => at[i] <= at[j]

\* There are such places, whatever the items.
LEMMA PlacesExist ==
    ASSUME NEW items, \A j \in 1..MaxItems : Len(items[j].v) \in Nat
    PROVE  \E at : Places(items, at)
<1> DEFINE n == MaxItems
           size == [j \in 1..n |-> Len(items[j].v)]
           step == [j \in 1..n |-> [x \in Nat |-> x + size[j]]]
<1>1. n \in Nat
  BY FramingAssumption
<1>2. size \in [1..n -> Nat]
  OBVIOUS
<1> HIDE DEF n
<1>3. step \in [1..n -> [Nat -> Nat]]
  <2>1. \A j \in 1..n : size[j] \in Nat
    BY <1>2
  <2> HIDE DEF size
  <2>2. QED
    BY <2>1
<1>4. PICK at \in [0..n -> Nat] : at[0] = 0 /\ \A j \in 1..n : at[j] = step[j][at[j - 1]]
  <2> HIDE DEF step
  <2>1. \E h \in [0..n -> Nat] : GoesOn(h, n, 0, step)
    BY <1>1, <1>3, Recursion
  <2>2. QED
    BY <2>1 DEF GoesOn
<1>5. \A j \in 1..n : at[j] = at[j - 1] + size[j] /\ size[j] = Len(items[j].v)
  <2> TAKE j \in 1..n
  <2>1. j - 1 \in 0..n
    BY <1>1
  <2>2. at[j - 1] \in Nat
    BY <2>1
  <2>3. size[j] = Len(items[j].v)
    OBVIOUS
  <2> HIDE DEF size
  <2>4. QED
    BY <1>4, <2>2, <2>3
<1> HIDE DEF step, size
<1>6. \A j \in 1..n : at[j - 1] <= at[j]
  <2> TAKE j \in 1..n
  <2>1. j - 1 \in 0..n /\ j \in 0..n
    BY <1>1
  <2>2. at[j - 1] \in Nat /\ size[j] \in Nat
    BY <1>2, <2>1
  <2>3. QED
    BY <1>5, <2>2
<1> DEFINE T == {j \in Nat : j <= n => \A i \in 0..j : at[i] <= at[j]}
<1>7. 0 \in T
  BY <1>1
<1>8. ASSUME NEW j \in Nat, j \in T PROVE j + 1 \in T
  <2> SUFFICES ASSUME j + 1 <= n, NEW i \in 0..(j + 1) PROVE at[i] <= at[j + 1]
    OBVIOUS
  <2>1. j \in 0..n /\ j + 1 \in 1..n /\ j + 1 \in 0..n /\ i \in 0..n /\ (j + 1) - 1 = j
    BY <1>1
  <2>2. at[i] \in Nat /\ at[j] \in Nat /\ at[j + 1] \in Nat
    BY <2>1
  <2>3. at[j] <= at[j + 1]
    BY <1>6, <2>1
  <2>4. CASE i = j + 1
    BY <2>2, <2>4
  <2>5. CASE i # j + 1
    <3>1. i \in 0..j /\ j <= n
      BY <1>1, <2>5
    <3>2. at[i] <= at[j]
      BY <1>8, <3>1
    <3>3. QED
      BY <2>2, <2>3, <3>2
  <2>6. QED
    BY <2>4, <2>5
<1>9. \A i, j \in 0..n : i <= j => at[i] <= at[j]
  <2> HIDE DEF T
  <2>1. Nat \subseteq T
    BY <1>7, <1>8, Induction
  <2>2. ASSUME NEW i \in 0..n, NEW j \in 0..n, i <= j PROVE at[i] <= at[j]
    <3>1. j \in T /\ j <= n /\ i \in 0..j
      BY <1>1, <2>1, <2>2
    <3>2. QED
      BY <3>1 DEF T
  <2>3. QED
    BY <2>2
<1>10. QED
  BY <1>4, <1>5, <1>9 DEF Places, n

\* The bytes of the first m items.
Laid(items, at, s, m) ==
    /\ Len(s) = at[m]
    /\ \A j \in 1..m : \A k \in 1..Len(items[j].v) : s[at[j - 1] + k] = Part(items, j)[k]
    /\ \A x \in 1..Len(s) :
          \E j \in 1..m : \E k \in 1..Len(items[j].v) : x = at[j - 1] + k

\* The stream is its items, one after the other.
LEMMA StreamLaid ==
    ASSUME NEW items, DOMAIN items = 1..MaxItems,
           \A j \in 1..MaxItems : Part(items, j) \in Seq(Byte)
                                  /\ Len(Part(items, j)) = Len(items[j].v),
           NEW at, Places(items, at)
    PROVE  Bytes(items) \in Seq(Byte) /\ Laid(items, at, Bytes(items), MaxItems)
<1> DEFINE n == MaxItems
           seqs == [j \in 1..n |-> Part(items, j)]
           P == [m \in 0..n |-> {s \in Seq(Byte) : Laid(items, at, s, m)}]
<1>1. n \in Nat
  BY FramingAssumption
<1>2. Bytes(items) = FlattenSeq(seqs)
  BY DEF Bytes, Part
<1>3. seqs \in [1..n -> Seq(Byte)]
  OBVIOUS
<1>4. \A j \in 1..n : seqs[j] = Part(items, j)
  OBVIOUS
<1>5. <<>> \in P[0]
  <2>1. <<>> \in Seq(Byte) /\ Len(<<>>) = 0 /\ 1..0 = {}
    OBVIOUS
  <2>2. Laid(items, at, <<>>, 0)
    BY <2>1 DEF Laid, Places
  <2>3. QED
    BY <1>1, <2>1, <2>2
<1>6. ASSUME NEW i \in 1..n, NEW s \in Seq(Byte), s \in P[i - 1]
      PROVE  s \o seqs[i] \in P[i]
  <2>1. i - 1 \in 0..n /\ i \in 0..n /\ i \in Nat /\ i - 1 \in Nat /\ i >= 1 /\ i <= n
    BY <1>1
  <2>2. Laid(items, at, s, i - 1)
    BY <1>6, <2>1
  <2> DEFINE p == Part(items, i)
             u == s \o p
             l == Len(items[i].v)
  <2>3. p \in Seq(Byte) /\ Len(p) = l /\ l \in Nat
    <3>1. p \in Seq(Byte) /\ Len(p) = l
      OBVIOUS
    <3> HIDE DEF p, l
    <3>2. Len(p) \in Nat
      BY <3>1
    <3>3. QED
      BY <3>1, <3>2
  <2> HIDE DEF p
  <2>4. /\ u \in Seq(Byte) /\ Len(u) = Len(s) + l
        /\ \A x \in 1..(Len(s) + l) : u[x] = IF x <= Len(s) THEN s[x] ELSE p[x - Len(s)]
    <3> HIDE DEF l
    <3> QED BY <2>3, ConcatProperties
  <2> HIDE DEF u, l
  <2>5. Len(s) = at[i - 1] /\ at[i] = at[i - 1] + l /\ Len(s) \in Nat
    BY <2>2 DEF Laid, Places, l
  <2>6. Len(u) = at[i]
    BY <2>4, <2>5
  <2>7. ASSUME NEW j \in 1..i, NEW k \in 1..Len(items[j].v)
        PROVE  u[at[j - 1] + k] = Part(items, j)[k]
    <3>1. CASE j = i
      <4>1. k \in 1..l
        BY <3>1 DEF l
      <4>2. /\ Len(s) + k \in 1..(Len(s) + l) /\ ~(Len(s) + k <= Len(s))
            /\ (Len(s) + k) - Len(s) = k
        BY <2>3, <2>5, <4>1, SMTT(30)
      <4>3. u[Len(s) + k] = p[k]
        BY <2>4, <4>2
      <4>4. QED
        BY <2>5, <3>1, <4>3 DEF p
    <3>2. CASE j # i
      <4>1. j \in 1..(i - 1) /\ j \in 1..n /\ j \in 0..n /\ j - 1 \in 0..n /\ j <= i - 1
        BY <1>1, <2>1, <3>2
      <4>2. s[at[j - 1] + k] = Part(items, j)[k]
        BY <2>2, <4>1 DEF Laid
      <4>3. /\ at[j - 1] \in Nat /\ at[j] \in Nat /\ at[j] <= at[i - 1]
            /\ at[j] = at[j - 1] + Len(items[j].v)
        BY <2>1, <4>1 DEF Places
      <4>4. k \in Nat /\ k >= 1 /\ k <= Len(items[j].v)
        <5>1. Len(items[j].v) = Len(Part(items, j)) /\ Part(items, j) \in Seq(Byte)
          BY <4>1
        <5>2. Len(items[j].v) \in Nat
          BY <5>1
        <5>3. QED
          BY <5>2
      <4>5. at[j - 1] + k <= Len(s) /\ at[j - 1] + k \in 1..(Len(s) + l)
        <5> DEFINE a == at[j - 1]
                   c == at[j]
                   w == Len(items[j].v)
        <5>1. /\ a \in Nat /\ c \in Nat /\ c <= Len(s) /\ c = a + w
              /\ k \in Nat /\ k >= 1 /\ k <= w /\ w \in Nat /\ Len(s) \in Nat /\ l \in Nat
          <6>1. Len(items[j].v) = Len(Part(items, j)) /\ Part(items, j) \in Seq(Byte)
            BY <4>1
          <6>2. Len(items[j].v) \in Nat
            BY <6>1
          <6>3. QED
            BY <2>3, <2>5, <4>3, <4>4, <6>2
        <5> HIDE DEF a, c, w
        <5>2. a + k <= Len(s) /\ a + k \in 1..(Len(s) + l)
          BY <5>1
        <5>3. QED
          BY <5>2 DEF a
      <4>6. QED
        BY <2>4, <4>2, <4>5
    <3>3. QED
      BY <3>1, <3>2
  <2>8. ASSUME NEW x \in 1..Len(u)
        PROVE  \E j \in 1..i : \E k \in 1..Len(items[j].v) : x = at[j - 1] + k
    <3>1. CASE x <= Len(s)
      <4>1. x \in 1..Len(s)
        BY <2>3, <2>4, <2>5, <3>1
      <4>2. PICK j \in 1..(i - 1) : \E k \in 1..Len(items[j].v) : x = at[j - 1] + k
        BY <2>2, <4>1 DEF Laid
      <4>3. j \in 1..i
        BY <2>1
      <4>4. QED
        BY <4>2, <4>3
    <3>2. CASE x > Len(s)
      <4>1. x - Len(s) \in 1..l /\ x = at[i - 1] + (x - Len(s)) /\ i \in 1..i
        <5>1. x \in Int /\ x <= Len(s) + l /\ x > Len(s)
          BY <2>3, <2>4, <2>5, <3>2
        <5>2. x - Len(s) \in 1..l /\ i \in 1..i /\ x = Len(s) + (x - Len(s))
          BY <2>1, <2>3, <2>5, <5>1
        <5>3. QED
          BY <2>5, <5>2
      <4>2. x - Len(s) \in 1..Len(items[i].v)
        BY <4>1 DEF l
      <4>3. QED
        BY <4>1, <4>2
    <3>3. QED
      BY <2>5, <3>1, <3>2
  <2>9. Laid(items, at, u, i)
    BY <2>6, <2>7, <2>8 DEF Laid
  <2>10. u \in P[i]
    BY <2>1, <2>4, <2>9
  <2>11. QED
    BY <1>4, <2>10 DEF u, p
<1>7. FlattenSeq(seqs) \in Seq(Byte) /\ FlattenSeq(seqs) \in P[n]
  <2> HIDE DEF seqs, P, n
  <2>1. \A i \in 1..n : \A s \in Seq(Byte) : s \in P[i - 1] => s \o seqs[i] \in P[i]
    BY <1>6
  <2> QED BY <1>1, <1>3, <1>5, <2>1, FlattenInvariant
<1>8. QED
  <2>1. n \in 0..n
    BY <1>1
  <2> HIDE DEF seqs, n
  <2>2. QED
    BY <1>2, <1>7, <2>1 DEF n

\* What an item is: a frame, damaged or not, or a stray byte.
ItemLooks(items, j) ==
    LET v == items[j].v
        p == Part(items, j)
    IN  /\ v \in Seq(Nat)
        /\ items[j].ok \in BOOLEAN
        /\ items[j].ok \/ Len(v) > 1 => Looks(format, v)
        /\ p \in Seq(Byte) /\ Len(p) = Len(v)
        /\ \A k \in 1..Len(v) : /\ p[k].v = v[k]
                                /\ p[k].of = IF items[j].ok THEN <<j, k>> ELSE <<0, 0>>

\* That is what every item is.
LEMMA ItemIs ==
    ASSUME format \in Formats, NEW items \in [1..MaxItems -> Items(format)],
           NEW j \in 1..MaxItems
    PROVE  ItemLooks(items, j)
<1> DEFINE v == items[j].v
           p == Part(items, j)
<1>1. items[j] \in Items(format)
  OBVIOUS
<1>2. v \in Seq(Nat) /\ items[j].ok \in BOOLEAN
      /\ (items[j].ok \/ Len(v) > 1 => Looks(format, v))
  <2>1. CASE items[j] \in {[ok |-> ok, v |-> FrameBytes(format, q)] :
                             ok \in BOOLEAN, q \in Payloads(format)}
    <3>1. PICK ok \in BOOLEAN, q \in Payloads(format) :
             items[j] = [ok |-> ok, v |-> FrameBytes(format, q)]
      BY <2>1
    <3>2. v = FrameBytes(format, q) /\ items[j].ok = ok
      BY <3>1
    <3>3. Looks(format, v)
      BY <3>2, FrameBytesLook
    <3>4. v \in Seq(Nat)
      BY <3>3 DEF Looks
    <3>5. QED
      BY <3>2, <3>3, <3>4
  <2>2. CASE items[j] \in {[ok |-> FALSE, v |-> <<x>>] : x \in Strays(format)}
    <3>1. PICK x \in Strays(format) : items[j] = [ok |-> FALSE, v |-> <<x>>]
      BY <2>2
    <3>2. x \in Nat
      BY DEF Strays, Start, Other, Second, Cr, Lf
    <3>3. v = <<x>> /\ items[j].ok = FALSE
      BY <3>1
    <3>4. v \in Seq(Nat) /\ Len(v) = 1
      BY <3>2, <3>3
    <3>5. ~items[j].ok /\ items[j].ok \in BOOLEAN
      BY <3>3
    <3> HIDE DEF v
    <3>6. ~(Len(v) > 1)
      BY <3>4
    <3>7. QED
      BY <3>4, <3>5, <3>6
  <2>3. QED
    BY <1>1, <2>1, <2>2 DEF Items
<1>3. DOMAIN v = 1..Len(v) /\ Len(v) \in Nat /\ j \in Nat
  BY <1>2, FramingAssumption
<1>4. \A k \in 1..Len(v) : p[k] = IF items[j].ok THEN [v |-> v[k], of |-> <<j, k>>]
                                  ELSE [v |-> v[k], of |-> <<0, 0>>]
  BY <1>3 DEF Part, Stray
<1>5. \A k \in 1..Len(v) : v[k] \in Nat /\ k \in Nat
  BY <1>2
<1>6. p = [k \in 1..Len(v) |-> p[k]]
  BY <1>3 DEF Part
<1> DEFINE ok == items[j].ok
<1> HIDE DEF p, v, ok
<1>7. \A k \in 1..Len(v) : p[k] \in Byte
  <2> TAKE k \in 1..Len(v)
  <2>1. <<j, k>> \in Nat \X Nat /\ <<0, 0>> \in Nat \X Nat /\ v[k] \in Nat
    BY <1>3, <1>5
  <2>2. QED
    <3> DEFINE fine == [v |-> v[k], of |-> <<j, k>>]
               stray == [v |-> v[k], of |-> <<0, 0>>]
    <3>1. fine \in Byte /\ stray \in Byte
      BY <2>1 DEF Byte
    <3>2. p[k] = IF ok THEN fine ELSE stray
      BY <1>4 DEF ok
    <3> HIDE DEF fine, stray
    <3>3. QED
      BY <3>1, <3>2
<1>8. p \in Seq(Byte) /\ Len(p) = Len(v)
  BY <1>3, <1>6, <1>7
<1>9. \A k \in 1..Len(v) : /\ p[k].v = v[k]
                           /\ p[k].of = IF ok THEN <<j, k>> ELSE <<0, 0>>
  <2> TAKE k \in 1..Len(v)
  <2>1. p[k] = IF ok THEN [v |-> v[k], of |-> <<j, k>>] ELSE [v |-> v[k], of |-> <<0, 0>>]
    BY <1>4 DEF ok
  <2>2. CASE ok
    BY <2>1, <2>2
  <2>3. CASE ~ok
    BY <2>1, <2>3
  <2>4. QED
    BY <2>2, <2>3
<1>10. QED
  BY <1>2, <1>8, <1>9 DEF ItemLooks, p, v, ok

\* The stream at the beginning: each frame is in it, whole, where it should be.
LEMMA StreamGood ==
    ASSUME format \in Formats, NEW items \in [1..MaxItems -> Items(format)],
           frames = [i \in {j \in 1..MaxItems : items[j].ok /\ Begins(format, items, j)} |->
                       Len(items[i].v)]
    PROVE  /\ Bytes(items) \in Seq(Byte)
           /\ FramesOK
           /\ Sound(Bytes(items))
           /\ \A f \in DOMAIN frames : Safe(Bytes(items), f)
<1> DEFINE n == MaxItems
           s == Bytes(items)
           size(j) == Len(items[j].v)
<1>1. n \in Nat
  BY FramingAssumption
<1>2. \A j \in 1..n : ItemLooks(items, j)
  BY ItemIs
<1>3. \A j \in 1..n : size(j) \in Nat
  <2> TAKE j \in 1..n
  <2>1. items[j].v \in Seq(Nat)
    BY <1>2 DEF ItemLooks
  <2>2. QED
    BY <2>1
<1>4. PICK at : Places(items, at)
  BY <1>3, PlacesExist
<1>5. s \in Seq(Byte) /\ Laid(items, at, s, n)
  <2>1. DOMAIN items = 1..n
    OBVIOUS
  <2>2. \A j \in 1..n : Part(items, j) \in Seq(Byte)
                        /\ Len(Part(items, j)) = Len(items[j].v)
    BY <1>2 DEF ItemLooks
  <2>3. QED
    BY <1>4, <2>1, <2>2, StreamLaid
<1> HIDE DEF n, s

\* Byte k of item j.
<1>6. ASSUME NEW j \in 1..n, NEW k \in 1..size(j)
      PROVE  /\ s[at[j - 1] + k].v = items[j].v[k]
             /\ s[at[j - 1] + k].of = IF items[j].ok THEN <<j, k>> ELSE <<0, 0>>
  <2>1. s[at[j - 1] + k] = Part(items, j)[k]
    BY <1>5 DEF Laid
  <2>2. QED
    BY <1>2, <2>1 DEF ItemLooks
<1>7. \A x \in 1..Len(s) : \E j \in 1..n : \E k \in 1..size(j) : x = at[j - 1] + k
  BY <1>5 DEF Laid
<1>8. ASSUME NEW j \in 1..n
      PROVE  /\ j \in Nat /\ j >= 1 /\ j - 1 \in 0..n /\ j \in 0..n
             /\ at[j - 1] \in Nat /\ at[j] \in Nat /\ at[j] = at[j - 1] + size(j)
             /\ at[j] <= Len(s)
  <2>1. j \in Nat /\ j >= 1 /\ j - 1 \in 0..n /\ j \in 0..n /\ n \in 0..n /\ j <= n
    BY <1>1
  <2>2. Len(s) = at[n]
    BY <1>5 DEF Laid
  <2>3. QED
    BY <1>4, <2>1, <2>2 DEF Places, n
<1>9. \A i, j \in 0..n : i <= j => at[i] <= at[j]
  BY <1>4 DEF Places, n
<1>10. FramesOK
  <2>1. DOMAIN frames = {j \in 1..n : items[j].ok /\ Begins(format, items, j)}
        /\ \A f \in DOMAIN frames : frames[f] = size(f)
    BY DEF n
  <2>2. DOMAIN frames \in SUBSET (Nat \ {0})
    BY <1>1, <2>1
  <2>3. ASSUME NEW f \in DOMAIN frames
        PROVE  frames[f] \in FrameSize..(FrameSize + MaxPayload)
    <3>1. f \in 1..n /\ items[f].ok /\ frames[f] = size(f)
      BY <2>1
    <3>2. Looks(format, items[f].v)
      BY <1>2, <3>1 DEF ItemLooks
    <3>3. QED
      BY <3>1, <3>2 DEF Looks, FrameSize, Formats
  <2>4. QED
    BY <2>2, <2>3 DEF FramesOK
<1>11. \A f \in DOMAIN frames : /\ f \in 1..n /\ items[f].ok /\ Begins(format, items, f)
                                /\ frames[f] = size(f) /\ Looks(format, items[f].v)
  <2> TAKE f \in DOMAIN frames
  <2>1. f \in 1..n /\ items[f].ok /\ Begins(format, items, f) /\ frames[f] = size(f)
    BY DEF n
  <2>2. QED
    BY <1>2, <2>1 DEF ItemLooks

\* A byte of a frame is at the place of its number.
<1>12. ASSUME NEW x \in 1..Len(s), Framed(s[x])
       PROVE  \E j \in 1..n : \E k \in 1..size(j) :
                 /\ x = at[j - 1] + k /\ items[j].ok /\ s[x].of = <<j, k>>
                 /\ s[x].v = items[j].v[k]
  <2>1. PICK j \in 1..n : \E k \in 1..size(j) : x = at[j - 1] + k
    BY <1>7
  <2>2. PICK k \in 1..size(j) : x = at[j - 1] + k
    BY <2>1
  <2>3. /\ s[x].v = items[j].v[k]
        /\ s[x].of = IF items[j].ok THEN <<j, k>> ELSE <<0, 0>>
    BY <1>6, <2>2
  <2>4. items[j].ok
    BY <1>12, <2>3 DEF Framed
  <2>5. QED
    BY <2>2, <2>3, <2>4
<1>13. InOrder(s)
  <2> SUFFICES ASSUME NEW x \in 1..Len(s), NEW y \in 1..Len(s),
                      x < y, Framed(s[x]), Framed(s[y])
               PROVE  Later(s[x].of, s[y].of)
    BY DEF InOrder
  <2>1. PICK j \in 1..n : \E k \in 1..size(j) : x = at[j - 1] + k /\ s[x].of = <<j, k>>
    BY <1>12
  <2>2. PICK k \in 1..size(j) : x = at[j - 1] + k /\ s[x].of = <<j, k>>
    BY <2>1
  <2>3. PICK i \in 1..n : \E m \in 1..size(i) : y = at[i - 1] + m /\ s[y].of = <<i, m>>
    BY <1>12
  <2>4. PICK m \in 1..size(i) : y = at[i - 1] + m /\ s[y].of = <<i, m>>
    BY <2>3
  <2>5. j < i \/ (j = i /\ k < m)
    <3>1. size(j) \in Nat /\ size(i) \in Nat
      BY <1>3 DEF n
    <3> HIDE DEF size
    <3>2. k \in Int /\ m \in Int /\ j \in Int /\ i \in Int /\ k >= 1 /\ m >= 1
          /\ m <= size(i)
      BY <1>1, <3>1
    <3>3. CASE j = i
      <4>1. at[j - 1] \in Nat
        BY <1>8
      <4>2. QED
        BY <2>2, <2>4, <3>2, <3>3, <4>1
    <3>4. CASE i < j
      <4>1. i <= j - 1 /\ i \in 0..n /\ j - 1 \in 0..n
        BY <1>8, <3>2, <3>4
      <4>2. at[i] <= at[j - 1]
        BY <1>9, <4>1
      <4>3. at[i] = at[i - 1] + size(i) /\ at[i] \in Nat /\ at[i - 1] \in Nat /\ at[j - 1] \in Nat
        BY <1>8
      <4>4. x \in Int /\ y \in Int /\ x > at[j - 1] /\ y <= at[i]
        <5> DEFINE a == at[i - 1]
                   b == at[j - 1]
                   c == at[i]
        <5>1. x = b + k /\ y = a + m /\ c = a + size(i) /\ a \in Nat /\ b \in Nat
          BY <2>2, <2>4, <4>3
        <5> HIDE DEF a, b, c
        <5>2. x \in Int /\ y \in Int /\ x > b /\ y <= c
          BY <3>1, <3>2, <5>1
        <5>3. QED
          BY <5>2 DEF a, b, c
      <4>5. QED
        BY <4>2, <4>3, <4>4
    <3>5. QED
      BY <3>2, <3>3, <3>4
  <2>6. QED
    BY <2>2, <2>4, <2>5 DEF Later
<1>14. NoGaps(s)
  <2> SUFFICES ASSUME NEW x \in 1..Len(s), NEW y \in 1..Len(s), Framed(s[x]),
                      s[y].of = <<s[x].of[1], s[x].of[2] + 1>>
               PROVE  y = x + 1
    BY DEF NoGaps
  <2>1. PICK j \in 1..n : \E k \in 1..size(j) : x = at[j - 1] + k /\ s[x].of = <<j, k>>
    BY <1>12
  <2>2. PICK k \in 1..size(j) : x = at[j - 1] + k /\ s[x].of = <<j, k>>
    BY <2>1
  <2>3. Framed(s[y]) /\ s[y].of = <<j, k + 1>>
    BY <2>2 DEF Framed
  <2>4. PICK i \in 1..n : \E m \in 1..size(i) : y = at[i - 1] + m /\ s[y].of = <<i, m>>
    BY <1>12, <2>3
  <2>5. PICK m \in 1..size(i) : y = at[i - 1] + m /\ s[y].of = <<i, m>>
    BY <2>4
  <2>6. i = j /\ m = k + 1
    BY <2>3, <2>5
  <2> DEFINE a == at[j - 1]
  <2>7. a \in Nat /\ k \in Int /\ x = a + k /\ y = a + (k + 1)
    <3>1. k \in Int /\ a \in Nat
      <4>1. size(j) \in Nat
        BY <1>3 DEF n
      <4> HIDE DEF size
      <4>2. QED
        BY <1>8, <4>1
    <3>2. QED
      BY <2>2, <2>5, <2>6, <3>1
  <2> HIDE DEF a
  <2>8. QED
    BY <2>7
<1>15. ASSUME NEW x \in 1..Len(s), s[x].of[1] \in DOMAIN frames PROVE Genuine(s[x])
  <2>1. Framed(s[x])
    BY <1>10, <1>15 DEF FramesOK, Framed
  <2>2. PICK j \in 1..n : \E k \in 1..size(j) : s[x].of = <<j, k>> /\ s[x].v = items[j].v[k]
    BY <1>12, <2>1
  <2>3. PICK k \in 1..size(j) : s[x].of = <<j, k>> /\ s[x].v = items[j].v[k]
    BY <2>2
  <2>4. j \in DOMAIN frames /\ frames[j] = size(j) /\ Looks(format, items[j].v)
    <3>1. s[x].of[1] = j
      BY <2>3
    <3>2. j \in DOMAIN frames
      BY <1>15, <3>1
    <3>3. QED
      BY <1>11, <3>2
  <2> DEFINE v == items[j].v
  <2>5. /\ k \in 1..Len(v)
        /\ format = "ubx" => v[1] = Start /\ v[2] = Second /\ v[3] = Len(v) - UbxSize
        /\ format = "rtcm" => v[1] = Start /\ v[2] = Len(v) - RtcmSize
        /\ format = "nmea" => (v[k] = Start <=> k = 1)
        /\ format = "ctrl" => v[1] = Start /\ v[k] # Cr
        /\ format \in {"nmea", "at"} => (v[k] = Cr <=> k = Len(v) - 1)
        /\ format \in {"nmea", "ctrl", "at"} => (v[k] = Lf <=> k = Len(v))
    BY <2>4 DEF Looks
  <2>6. s[x].of[1] = j /\ s[x].of[2] = k /\ s[x].v = v[k] /\ frames[j] = Len(v)
    BY <2>3, <2>4
  <2> HIDE DEF v
  <2>7. QED
    BY <2>5, <2>6 DEF Genuine
<1>16. ASSUME NEW f \in DOMAIN frames PROVE Safe(s, f)
  <2> DEFINE i == at[f - 1] + 1
             w == size(f)
  <2>1. /\ f \in 1..n /\ items[f].ok /\ Begins(format, items, f) /\ frames[f] = w
        /\ Looks(format, items[f].v)
    BY <1>11
  <2>2. /\ f \in Nat /\ f >= 1 /\ at[f - 1] \in Nat /\ at[f] = at[f - 1] + w
        /\ at[f] <= Len(s) /\ at[f] \in Nat
    BY <1>8, <2>1
  <2>3. w \in Nat /\ w >= 3
    <3>1. w \in Nat
      BY <1>3, <2>1 DEF n
    <3>2. Len(items[f].v) \in (IF format \in {"ubx", "nmea"} THEN 4..(4 + MaxPayload)
                               ELSE 3..(3 + MaxPayload))
      BY <2>1 DEF Looks
    <3>3. QED
      BY <3>1, <3>2, FramingAssumption
  <2>4. i \in 1..Len(s) /\ i + w - 1 <= Len(s) /\ i >= 1
    <3> HIDE DEF w
    <3>1. Len(s) \in Nat
      BY <1>5
    <3>2. QED
      BY <2>2, <2>3, <3>1
  <2>5. ASSUME NEW k \in 1..w PROVE s[i + k - 1].of = <<f, k>>
    <3>1. i + k - 1 = at[f - 1] + k
      <4> HIDE DEF w
      <4> QED BY <2>2, <2>3
    <3>2. s[at[f - 1] + k].of = <<f, k>>
      BY <1>6, <2>1
    <3>3. QED
      BY <3>1, <3>2
  <2>6. Whole(s, f, i)
    <3> HIDE DEF w, i
    <3> QED BY <2>1, <2>4, <2>5 DEF Whole
  <2>7. StartsLine(s, i)
    <3> SUFFICES ASSUME format \in Lines, i # 1
                 PROVE  /\ i > 1 /\ s[i - 1].v = Lf
                        /\ format = "at" => /\ i > 2 /\ s[i - 2].v = Cr
                                            /\ s[i - 2].of[1] = s[i - 1].of[1]
      BY DEF StartsLine
    <3> DEFINE g == f - 1
               m == size(g)
    <3>1. f # 1
      <4>1. at[0] = 0
        BY <1>4 DEF Places
      <4>2. f = 1 => f - 1 = 0
        OBVIOUS
      <4>3. QED
        BY <4>1, <4>2
    <3>2. g \in 1..n /\ Len(items[g].v) > 1
      <4>1. g \in 1..n
        BY <1>1, <2>1, <2>2, <3>1
      <4>2. QED
        BY <2>1, <3>1, <4>1 DEF Begins
    <3> HIDE DEF g
    <3>3. Looks(format, items[g].v)
      BY <1>2, <3>2 DEF ItemLooks
    <3>4. m \in Nat /\ m >= 3
      <4>1. m \in Nat
        BY <1>3, <3>2 DEF n
      <4>2. Len(items[g].v) \in (IF format \in {"ubx", "nmea"} THEN 4..(4 + MaxPayload)
                                 ELSE 3..(3 + MaxPayload))
        BY <3>3 DEF Looks
      <4>3. QED
        BY <4>1, <4>2, FramingAssumption
    <3>5. m \in 1..size(g) /\ m - 1 \in 1..size(g)
      BY <3>4
    <3>6. at[g] = at[g - 1] + m /\ at[g - 1] \in Nat /\ at[g] \in Nat
      BY <1>8, <3>2
    <3>7. i - 1 = at[g - 1] + m /\ i - 2 = at[g - 1] + (m - 1) /\ i > 2 /\ i > 1
      <4>1. at[g] = at[f - 1]
        BY DEF g
      <4> HIDE DEF m
      <4>2. QED
        BY <3>4, <3>6, <4>1
    <3> HIDE DEF i
    <3>8. items[g].v[m] = Lf /\ (format = "at" => items[g].v[m - 1] = Cr)
      <4>1. format \in {"ctrl", "at"}
        BY DEF Lines
      <4>2. QED
        BY <3>3, <3>5, <4>1 DEF Looks
    <3> HIDE DEF m
    <3>9. s[i - 1].v = items[g].v[m] /\ s[i - 2].v = items[g].v[m - 1]
      <4>1. /\ s[at[g - 1] + m].v = items[g].v[m]
            /\ s[at[g - 1] + (m - 1)].v = items[g].v[m - 1]
        BY <1>6, <3>2, <3>5
      <4>2. QED
        BY <3>7, <4>1
    <3>10. s[i - 1].of[1] = s[i - 2].of[1]
      <4>1. /\ s[i - 1].of = IF items[g].ok THEN <<g, m>> ELSE <<0, 0>>
            /\ s[i - 2].of = IF items[g].ok THEN <<g, m - 1>> ELSE <<0, 0>>
        <5>1. /\ s[at[g - 1] + m].of = IF items[g].ok THEN <<g, m>> ELSE <<0, 0>>
              /\ s[at[g - 1] + (m - 1)].of
                 = IF items[g].ok THEN <<g, m - 1>> ELSE <<0, 0>>
          BY <1>6, <3>2, <3>5
        <5>2. QED
          BY <3>7, <5>1
      <4>2. QED
        BY <4>1
    <3>11. QED
      BY <3>7, <3>8, <3>9, <3>10
  <2>8. QED
    BY <2>4, <2>6, <2>7 DEF Safe
<1>17. Sound(s)
  BY <1>13, <1>14, <1>15 DEF Sound
<1>18. QED
  BY <1>5, <1>10, <1>16, <1>17 DEF s

\* The invariant holds at the beginning, of every stream.
LEMMA InitGood == Init => IInv
<1> SUFFICES ASSUME Init PROVE IInv
  OBVIOUS
<1>1. format \in Formats
  BY DEF Init
<1>2. PICK items \in [1..MaxItems -> Items(format)] :
         /\ input = Bytes(items)
         /\ frames = [i \in {j \in 1..MaxItems :
                             items[j].ok /\ Begins(format, items, j)} |->
                        Len(items[i].v)]
  BY DEF Init
<1>3. /\ input \in Seq(Byte) /\ FramesOK /\ Sound(input)
      /\ \A f \in DOMAIN frames : Safe(input, f)
  BY <1>1, <1>2, StreamGood
<1>4. /\ parser = [ring |-> [i \in 0..(Capacity - 1) |-> Stray(Other)],
                   read |-> 0, write |-> 0]
      /\ pushed = <<>> /\ lost = {}
  BY DEF Init
<1>5. parser \in ParserType
  <2>1. Stray(Other) \in Byte
    BY DEF Stray, Other, Byte
  <2>2. 0 \in 0..(Capacity - 1)
    BY FramingAssumption
  <2>3. QED
    BY <1>4, <2>1, <2>2 DEF ParserType
<1>6. Line = input
  <2>1. Content(parser) \in Seq(Byte) /\ Len(Content(parser)) = buffer_length(parser)
    BY <1>5, ContentIs
  <2>2. buffer_length(parser) = 0
    BY <1>4 DEF buffer_length
  <2>3. Content(parser) = <<>>
    BY <2>1, <2>2, EmptySeq
  <2>4. QED
    BY <1>3, <2>3, ConcatEmptySeq DEF Line
<1>7. Good(pushed, Line, lost)
  <2>1. pushed \in Seq(Nat) /\ DOMAIN pushed = {}
    BY <1>4
  <2>2. Increasing(pushed) /\ After(pushed, Line)
    BY <2>1 DEF Increasing, After
  <2>3. Accounted(pushed, Line, lost)
    BY <1>3, <1>6 DEF Accounted
  <2>4. QED
    BY <1>3, <1>6, <2>1, <2>2, <2>3 DEF Good
<1>8. QED
  BY <1>1, <1>3, <1>5, <1>7 DEF IInv

\* The invariant is about the variables alone.
LEMMA Unchanged == IInv /\ UNCHANGED vars => IInv'
<1> SUFFICES ASSUME IInv, UNCHANGED vars PROVE IInv'
  OBVIOUS
<1>1. /\ format' = format /\ frames' = frames /\ refused' = refused /\ input' = input /\ parser' = parser
      /\ pushed' = pushed /\ lost' = lost
  BY DEF vars
<1>2. Line' = Line
  BY <1>1 DEF Line, Content, buffer_length
<1>3. Good(pushed, Line, lost) /\ Line \in Seq(Byte)
  BY DEF IInv, Good
<1>4. Good(pushed, Line, lost)'
  BY <1>1, <1>2, <1>3, GoodAsBefore
<1>5. FramesOK'
  BY <1>1 DEF IInv, FramesOK, FrameSize
<1>6. QED
  BY <1>1, <1>4, <1>5 DEF IInv, ParserType, Formats

----------------------------------------------------------------------------
(***************************************************************************)
(* Theorems                                                                *)
(***************************************************************************)

\* The ring buffer and what follows it are the stream with pieces taken out,
\* and whatever is neither given nor lost is still whole in it, or was refused as
\* a message and is gone from it: process_input keeps it so however the reads cut
\* the stream.
THEOREM StreamStaysSound == Spec => []IInv
<1>1. IInv /\ [Next]_vars => IInv'
  <2> SUFFICES ASSUME IInv, [Next]_vars PROVE IInv'
    OBVIOUS
  <2>1. CASE Next
    BY <2>1, ProcessInput DEF Next
  <2>2. CASE UNCHANGED vars
    BY <2>2, Unchanged
  <2>3. QED
    BY <2>1, <2>2
<1>2. QED
  BY InitGood, <1>1, PTL DEF Spec

\* Parsers give frames in the order of the stream and none twice, whatever
\* the ring buffer has overwritten or refused.
THEOREM FramesAreGivenInOrder == Spec => []PushedInOrder
<1>1. IInv => PushedInOrder
  BY DEF IInv, Good, Increasing, PushedInOrder
<1>2. QED
  BY StreamStaysSound, <1>1, PTL

\* Every frame has been given, or is still there to the last byte, or was refused
\* as a message and is gone, unless the ring buffer was full; where the end of a line is looked for within a bound
\* (128 bytes, AT 120), of the frames that end within it.
THEOREM FramesAreAccountedFor == Spec => [](LinesFit => EveryFrameIsAccountedFor)
<1>1. ASSUME IInv, LinesFit PROVE EveryFrameIsAccountedFor
  <2> SUFFICES ASSUME NEW f \in DOMAIN frames, f \notin Range(pushed) \cup lost
               PROVE  Left(f) = 1..frames[f] \/ (f \in refused /\ Left(f) = {})
    BY DEF EveryFrameIsAccountedFor
  <2> DEFINE L == Line
             w == frames[f]
  <2>1. /\ L \in Seq(Byte) /\ Sound(L) /\ w \in Int
        /\ Safe(L, f) \/ (f \in refused /\ Absent(L, f))
    BY <1>1 DEF IInv, Good, Accounted, FramesOK, FrameSize
  <2>2. Left(f) = {b.of[2] : b \in {c \in Range(L) : c.of[1] = f}} /\ DOMAIN L = 1..Len(L)
        /\ Range(L) = {L[x] : x \in 1..Len(L)}
    BY <2>1, SMTT(30) DEF Left, Line, Range
  <2> HIDE DEF L
  <2>3. CASE Safe(L, f)
    <3>1. PICK i \in 1..Len(L) : Whole(L, f, i)
      BY <2>3 DEF Safe
    <3>2. /\ Len(L) \in Nat /\ i + w - 1 <= Len(L) /\ i >= 1
          /\ \A k \in 1..w : L[i + k - 1].of = <<f, k>>
          /\ \A x \in 1..Len(L) : L[x].of[1] = f => L[x].of[2] \in 1..w
      BY <2>1, <3>1 DEF Whole, Sound, Genuine
    <3> HIDE DEF w
    <3>3. ASSUME NEW k \in 1..w PROVE k \in Left(f)
      <4>1. i + k - 1 \in 1..Len(L)
        BY <2>1, <3>2
      <4>2. L[i + k - 1] \in Range(L) /\ L[i + k - 1].of[1] = f /\ L[i + k - 1].of[2] = k
        BY <2>2, <3>2, <4>1
      <4>3. QED
        BY <2>2, <4>2
    <3>4. ASSUME NEW k \in Left(f) PROVE k \in 1..w
      <4>1. PICK x \in 1..Len(L) : L[x].of[1] = f /\ k = L[x].of[2]
        BY <2>2
      <4>2. QED
        BY <3>2, <4>1
    <3>5. QED
      BY <3>3, <3>4 DEF w
  <2>4. CASE f \in refused /\ Absent(L, f)
    BY <2>2, <2>4 DEF Absent
  <2>5. QED
    BY <2>1, <2>3, <2>4
<1>2. IInv => (LinesFit => EveryFrameIsAccountedFor)
  BY <1>1
<1>3. QED
  BY StreamStaysSound, <1>2, PTL

\* A candidate is skipped, or claims more bytes than there are.
LEMMA CandidateMoves ==
    ASSUME NEW n \in Nat, NEW rest \in Seq(Byte), NEW at \in 1..Len(rest),
           NEW size \in Nat \ {0}, NEW resync \in Nat \ {0}
    PROVE  \/ Candidate(n, rest, at, size, resync).skip > 0
           \/ n = 0 /\ rest[at].v \in 0..MaxPayload /\ Len(rest) < size + rest[at].v
<1> DEFINE got == Candidate(n, rest, at, size, resync)
           v == rest[at].v
<1>1. CandidateEnd(n, rest, at, size, resync, got)
  BY CandidateEnds
<1> HIDE DEF got
<1>2. \/ got = Nothing(n + resync)
      \/ v \in 0..MaxPayload /\ Len(rest) < size + v /\ got = Nothing(n)
      \/ v \in 0..MaxPayload /\ got = Decoded(n + (size + v), rest[1].of[1])
  BY <1>1 DEF CandidateEnd
<1> HIDE DEF v
<1>3. v \in 0..MaxPayload => v \in Nat
  BY FramingAssumption
<1>4. CASE got = Nothing(n + resync)
  <2>1. got.skip = n + resync
    BY <1>4 DEF Nothing
  <2>2. QED
    BY <2>1 DEF got
<1>5. CASE v \in 0..MaxPayload /\ Len(rest) < size + v /\ got = Nothing(n)
  <2>1. got.skip = n
    BY <1>5 DEF Nothing
  <2>2. QED
    BY <1>5, <2>1 DEF got, v
<1>6. CASE v \in 0..MaxPayload /\ got = Decoded(n + (size + v), rest[1].of[1])
  <2>1. got.skip = n + (size + v) /\ v \in Nat
    BY <1>3, <1>6, DecodedIs
  <2>2. QED
    BY <2>1 DEF got
<1>7. QED
  BY <1>2, <1>4, <1>5, <1>6

\* Skipping nothing.
LEMMA DropNone ==
    ASSUME NEW b \in Seq(Byte)
    PROVE  Drop(b, 0) = b
<1>1. Len(b) \in Nat /\ 0 \in 0..Len(b)
  OBVIOUS
<1>2. /\ Drop(b, 0) \in Seq(Byte) /\ Len(Drop(b, 0)) = Len(b) - 0
      /\ \A k \in 1..(Len(b) - 0) : Drop(b, 0)[k] = b[0 + k]
  BY <1>1, RestIs
<1>3. Len(b) - 0 = Len(b) /\ \A k \in 1..Len(b) : 0 + k = k
  BY <1>1
<1>4. QED
  BY <1>2, <1>3, SeqEqual

\* UBX moves on, or waits for the rest of a candidate.
LEMMA UbxMoves ==
    ASSUME NEW b \in Seq(Byte), Len(b) >= UbxSize
    PROVE  \/ UbxParse(b).skip > 0
           \/ b[3].v \in 0..MaxPayload /\ Len(b) < UbxSize + b[3].v
<1> DEFINE n == Search(b, LAMBDA k : \/ Len(b) - k < UbxSize
                                     \/ b[k + 1].v = Start /\ b[k + 2].v = Second)
           rest == Drop(b, n)
<1>1. n \in 0..Len(b)
  BY UbxSearch
<1>2. UbxParse(b) = IF Len(rest) < UbxSize THEN Nothing(n)
                    ELSE Candidate(n, rest, 3, UbxSize, 2)
  BY DEF UbxParse
<1> HIDE DEF n
<1>3. /\ rest \in Seq(Byte) /\ Len(rest) = Len(b) - n /\ Len(b) \in Nat /\ n \in Nat
      /\ Len(rest) \in Nat
  BY <1>1, RestIs
<1>4. n = 0 => rest = b
  BY DropNone
<1> HIDE DEF rest
<1>5. UbxSize = 4 /\ UbxSize \in Nat \ {0} /\ 2 \in Nat \ {0}
  BY DEF UbxSize
<1>6. CASE Len(rest) < UbxSize
  <2>1. UbxParse(b).skip = n
    BY <1>2, <1>6 DEF Nothing
  <2>2. n > 0
    BY <1>3, <1>5, <1>6
  <2>3. QED
    BY <2>1, <2>2
<1>7. CASE ~(Len(rest) < UbxSize)
  <2>1. 3 \in 1..Len(rest) /\ UbxParse(b) = Candidate(n, rest, 3, UbxSize, 2)
    BY <1>2, <1>3, <1>5, <1>7
  <2>2. \/ UbxParse(b).skip > 0
        \/ n = 0 /\ rest[3].v \in 0..MaxPayload /\ Len(rest) < UbxSize + rest[3].v
    BY <1>3, <1>5, <2>1, CandidateMoves
  <2>3. QED
    BY <1>4, <2>2
<1>8. QED
  BY <1>6, <1>7

\* So does RTCM.
LEMMA RtcmMoves ==
    ASSUME NEW b \in Seq(Byte), Len(b) >= 2
    PROVE  \/ RtcmParse(b).skip > 0
           \/ b[2].v \in 0..MaxPayload /\ Len(b) < RtcmSize + b[2].v
<1> DEFINE n == Search(b, LAMBDA k : k < Len(b) /\ b[k + 1].v = Start)
           rest == Drop(b, n)
<1>1. SearchesStart(b, n)
  BY SearchStart
<1>2. RtcmParse(b) = IF Len(rest) < 2 THEN Nothing(n)
                     ELSE Candidate(n, rest, 2, RtcmSize, 1)
  BY DEF RtcmParse
<1> HIDE DEF n
<1>3. /\ n \in 0..Len(b) /\ rest \in Seq(Byte) /\ Len(rest) = Len(b) - n /\ Len(b) \in Nat
      /\ n \in Nat /\ Len(rest) \in Nat
  <2>1. n \in 0..Len(b)
    BY <1>1 DEF SearchesStart
  <2>2. QED
    BY <2>1, RestIs
<1>4. n = 0 => rest = b
  BY DropNone
<1> HIDE DEF rest
<1>5. RtcmSize \in Nat \ {0} /\ 1 \in Nat \ {0}
  BY DEF RtcmSize
<1>6. CASE Len(rest) < 2
  <2>1. RtcmParse(b).skip = n
    BY <1>2, <1>6 DEF Nothing
  <2>2. n > 0
    BY <1>3, <1>6
  <2>3. QED
    BY <2>1, <2>2
<1>7. CASE ~(Len(rest) < 2)
  <2>1. 2 \in 1..Len(rest) /\ RtcmParse(b) = Candidate(n, rest, 2, RtcmSize, 1)
    BY <1>2, <1>3, <1>7
  <2>2. \/ RtcmParse(b).skip > 0
        \/ n = 0 /\ rest[2].v \in 0..MaxPayload /\ Len(rest) < RtcmSize + rest[2].v
    BY <1>3, <1>5, <2>1, CandidateMoves
  <2>3. QED
    BY <1>4, <2>2
<1>8. QED
  BY <1>6, <1>7

\* The places of the bytes of a frame that is whole in the buffer follow each
\* other.
LEMMA WholePlaces ==
    ASSUME FramesOK, NEW b \in Seq(Byte), NEW line \in Seq(Byte), Sound(line),
           AtFront(b, line), NEW f \in DOMAIN frames,
           {c.of[2] : c \in {d \in Range(b) : d.of[1] = f}} = 1..frames[f]
    PROVE  /\ \A k \in 1..frames[f] : \E x \in 1..Len(b) :
                 b[x].of = <<f, k>> /\ Genuine(b[x])
           /\ \A x, y \in 1..Len(b) : \A k \in 1..frames[f] :
                 b[x].of = <<f, k>> /\ b[y].of = <<f, k + 1>> => y = x + 1
<1>1. /\ \A x \in 1..Len(b) : b[x] = line[x] /\ x \in 1..Len(line)
      /\ Len(b) \in Nat /\ Len(line) \in Nat /\ f # 0
  BY DEF AtFront, FramesOK
<1>2. Range(b) = {b[x] : x \in 1..Len(b)}
  BY DEF Range
<1>3. ASSUME NEW k \in 1..frames[f]
      PROVE  \E x \in 1..Len(b) : b[x].of = <<f, k>> /\ Genuine(b[x])
  <2>1. PICK x \in 1..Len(b) : b[x].of[1] = f /\ b[x].of[2] = k
    BY <1>2
  <2>2. b[x].of \in Nat \X Nat
    <3>1. b[x] \in Byte
      OBVIOUS
    <3>2. QED
      BY <3>1 DEF Byte
  <2>3. b[x].of = <<f, k>>
    BY <2>1, <2>2
  <2>4. Genuine(b[x])
    BY <1>1, <2>1 DEF Sound
  <2>5. QED
    BY <2>3, <2>4
<1>4. ASSUME NEW x \in 1..Len(b), NEW y \in 1..Len(b), NEW k \in 1..frames[f],
             b[x].of = <<f, k>>, b[y].of = <<f, k + 1>>
      PROVE  y = x + 1
  <2>1. /\ x \in 1..Len(line) /\ y \in 1..Len(line) /\ line[x].of = <<f, k>>
        /\ line[y].of = <<f, k + 1>>
    BY <1>1, <1>4
  <2>2. Framed(line[x]) /\ line[y].of = <<line[x].of[1], line[x].of[2] + 1>>
    BY <1>1, <2>1 DEF Framed
  <2>3. QED
    BY <2>1, <2>2 DEF Sound, NoGaps
<1>5. QED
  BY <1>3, <1>4

\* While a whole frame waits in the buffer try_parse makes progress, unless a
\* candidate at the front claims more bytes than there are.
THEOREM ParsersMoveOn == Spec => []NeverStuck
<1>1. ASSUME IInv PROVE NeverStuck
  <2> DEFINE b == Content(parser)
  <2> SUFFICES ASSUME NEW f \in DOMAIN frames,
                      {c.of[2] : c \in {d \in Range(b) : d.of[1] = f}} = 1..frames[f]
               PROVE  try_parse(b).skip > 0 \/ Claims(b)
    BY DEF NeverStuck
  <2>1. format \in Formats /\ FramesOK /\ Line \in Seq(Byte) /\ Sound(Line)
    BY <1>1 DEF IInv, Good
  <2>2. b \in Seq(Byte) /\ input \in Seq(Byte)
    BY <1>1, ContentIs DEF IInv
  <2>3. Line = b \o input
    BY DEF Line
  <2> HIDE DEF b
  <2>4. AtFront(b, Line)
    <3> DEFINE u == b \o input
    <3>1. /\ Len(u) = Len(b) + Len(input)
          /\ \A i \in 1..(Len(b) + Len(input)) :
                u[i] = IF i <= Len(b) THEN b[i] ELSE input[i - Len(b)]
      BY <2>2, ConcatProperties
    <3> HIDE DEF u
    <3>2. Len(b) \in Nat /\ Len(input) \in Nat /\ Line = u
      BY <2>2, <2>3 DEF u
    <3>3. QED
      BY <3>1, <3>2 DEF AtFront
  <2> DEFINE w == frames[f]
  <2>5. /\ \A k \in 1..w : \E x \in 1..Len(b) : b[x].of = <<f, k>> /\ Genuine(b[x])
        /\ \A x, y \in 1..Len(b) : \A k \in 1..w :
              b[x].of = <<f, k>> /\ b[y].of = <<f, k + 1>> => y = x + 1
    BY <2>1, <2>2, <2>4, WholePlaces
  <2>6. /\ w \in Nat /\ w >= 3 /\ (format = "ubx" => w >= 4) /\ Len(b) \in Nat
    BY <2>1, <2>2, FramingAssumption DEF FramesOK, FrameSize
  <2> HIDE DEF w
  <2>7. Len(b) >= 3 /\ (format = "ubx" => Len(b) >= 4)
    <3>1. 1 \in 1..w /\ 2 \in 1..w /\ 3 \in 1..w /\ (format = "ubx" => 4 \in 1..w)
          /\ 1 + 1 = 2 /\ 2 + 1 = 3 /\ 3 + 1 = 4
      BY <2>6
    <3>2. PICK x1 \in 1..Len(b) : b[x1].of = <<f, 1>>
      BY <2>5, <3>1
    <3>3. PICK x2 \in 1..Len(b) : b[x2].of = <<f, 2>>
      BY <2>5, <3>1
    <3>4. PICK x3 \in 1..Len(b) : b[x3].of = <<f, 3>>
      BY <2>5, <3>1
    <3>5. x2 = x1 + 1 /\ x3 = x2 + 1
      BY <2>5, <3>1, <3>2, <3>3, <3>4
    <3>6. ASSUME format = "ubx" PROVE x3 + 1 <= Len(b)
      <4>1. PICK x4 \in 1..Len(b) : b[x4].of = <<f, 4>>
        BY <2>5, <3>1, <3>6
      <4>2. x4 = x3 + 1
        BY <2>5, <3>1, <3>4, <4>1
      <4>3. QED
        BY <4>2
    <3>7. x1 \in Int /\ x1 >= 1 /\ x3 <= Len(b) /\ x3 = x1 + 2
      BY <2>6, <3>5
    <3>8. QED
      BY <2>6, <3>6, <3>7
  <2>8. CASE format = "ubx"
    <3>1. Len(b) >= UbxSize
      BY <2>7, <2>8 DEF UbxSize
    <3>2. \/ UbxParse(b).skip > 0
          \/ b[3].v \in 0..MaxPayload /\ Len(b) < UbxSize + b[3].v
      BY <2>2, <3>1, UbxMoves
    <3>3. QED
      BY <2>8, <3>1, <3>2 DEF try_parse, Claims
  <2>9. CASE format = "rtcm"
    <3>1. Len(b) >= 2
      BY <2>6, <2>7
    <3>2. \/ RtcmParse(b).skip > 0
          \/ b[2].v \in 0..MaxPayload /\ Len(b) < RtcmSize + b[2].v
      BY <2>2, <3>1, RtcmMoves
    <3>3. QED
      BY <2>9, <3>1, <3>2 DEF try_parse, Claims
  <2>10. PICK last \in 1..Len(b) : b[last].of = <<f, w>> /\ Genuine(b[last])
    <3>1. w \in 1..w
      BY <2>6
    <3>2. QED
      BY <2>5, <3>1
  <2>11. format \in {"nmea", "ctrl", "at"} => b[last].v = Lf
    BY <2>10 DEF Genuine, w
  <2>12. CASE format = "ctrl"
    <3>1. CtrlParse(b).skip > 0
      BY <2>2, <2>11, <2>12, CtrlCall
    <3>2. QED
      BY <2>12, <3>1 DEF try_parse
  <2>13. CASE format \in {"nmea", "at"}
    <3>1. w - 1 \in 1..w /\ (w - 1) + 1 = w
      BY <2>6
    <3>2. PICK x \in 1..Len(b) : b[x].of = <<f, w - 1>> /\ Genuine(b[x])
      BY <2>5, <3>1
    <3>3. last = x + 1
      BY <2>5, <2>10, <3>1, <3>2
    <3>4. b[x].v = Cr
      BY <2>13, <3>2 DEF Genuine, w
    <3>5. last \in 2..Len(b) /\ last - 1 = x
      BY <2>6, <3>3
    <3>6. \E p \in 2..Len(b) : b[p - 1].v = Cr /\ b[p].v = Lf
      BY <2>11, <2>13, <3>4, <3>5
    <3>7. CASE format = "nmea"
      <4>1. NmeaParse(b).skip > 0
        BY <2>2, <3>6, NmeaCall
      <4>2. QED
        BY <3>7, <4>1 DEF try_parse
    <3>8. CASE format = "at"
      <4>1. AtParse(b).skip > 0
        BY <2>2, <3>6, AtCall
      <4>2. QED
        BY <3>8, <4>1 DEF try_parse
    <3>9. QED
      BY <2>13, <3>7, <3>8
  <2>14. QED
    BY <2>1, <2>8, <2>9, <2>12, <2>13 DEF Formats, b
<1>2. IInv => NeverStuck
  BY <1>1
<1>3. QED
  BY StreamStaysSound, <1>2, PTL
====
