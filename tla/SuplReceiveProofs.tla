------------------------- MODULE SuplReceiveProofs -------------------------
(***************************************************************************)
(* Proofs about SuplReceive, for every size of the receive buffer, of the  *)
(* records and of the kernel's buffers, and every length of messages.      *)
(*                                                                         *)
(* ImplementsFifo speaks of whole messages; the session sees bytes.  Its   *)
(* invariant puts the bytes that the receive buffer, the TLS backend, the  *)
(* kernel and the server hold into one line, and says that the line is     *)
(* what the server's stream has left after the messages handled: every     *)
(* byte of every later message, once, in order.  Then the buffer is a      *)
(* prefix of it, wherever the stream is cut.                               *)
(***************************************************************************)
EXTENDS SuplReceive, SequenceTheorems, FiniteSetTheorems, TLAPS

Message == [kind : Kinds, len : Lengths]
Byte    == (Nat \ {0}) \X (Nat \ {0})

\* One byte of the stream is before another.
Before(x, y) == x[1] < y[1] \/ (x[1] = y[1] /\ x[2] < y[2])

\* The bytes line are those of the messages ms after the first h.
Remainder(line, ms, h) ==
    /\ line \in Seq(Byte)
    /\ \A i \in DOMAIN line : /\ line[i][1] \in (h + 1)..Len(ms)
                              /\ line[i][2] \in 1..ms[line[i][1]].len
    /\ \A i, j \in DOMAIN line : i < j => Before(line[i], line[j])
    /\ \A m \in (h + 1)..Len(ms) : \A k \in 1..ms[m].len :
          \E i \in DOMAIN line : line[i] = <<m, k>>

Line == ((buffer \o pending) \o socket) \o outbox

TypeInv ==
    /\ tls \in BOOLEAN /\ closed \in BOOLEAN /\ connected \in BOOLEAN
    /\ messages \in Seq(Message)
    /\ outbox \in Seq(Byte) /\ socket \in Seq(Byte)
    /\ pending \in Seq(Byte) /\ buffer \in Seq(Byte)
    /\ Len(buffer) <= BufferSize
    /\ limits \subseteq 1..Len(socket)
    /\ ~tls => pending = <<>>
    /\ handled \in Seq(Nat) /\ Len(handled) <= Len(messages)
    /\ \A i \in 1..Len(handled) : handled[i] = i
    /\ phase \in {"handshake", "message", "disconnected", "error_only"}

IInv == TypeInv /\ Remainder(Line, messages, Len(handled))

----------------------------------------------------------------------------
(***************************************************************************)
(* The server's stream                                                     *)
(***************************************************************************)
LEMMA LengthOf ==
    ASSUME NEW ms \in Seq(Message), NEW m \in 1..Len(ms)
    PROVE  ms[m].len \in Nat \ {0} /\ ms[m].kind \in Kinds
<1>1. ms[m] \in Message
  OBVIOUS
<1>. QED
  BY <1>1, SuplReceiveAssumption DEF Message

\* What is left of a sequence without its first k elements.
LEMMA Suffix ==
    ASSUME NEW S, NEW s \in Seq(S), NEW k \in 0..Len(s)
    PROVE  /\ SubSeq(s, k + 1, Len(s)) \in Seq(S)
           /\ Len(SubSeq(s, k + 1, Len(s))) = Len(s) - k
           /\ DOMAIN SubSeq(s, k + 1, Len(s)) = 1..(Len(s) - k)
           /\ \A i \in 1..(Len(s) - k) : SubSeq(s, k + 1, Len(s))[i] = s[k + i]
<1> DEFINE t == SubSeq(s, k + 1, Len(s))
<1>1. Len(s) \in Nat /\ k + 1 \in Int /\ \A i \in (k + 1)..Len(s) : s[i] \in S
  OBVIOUS
<1>2. /\ t \in Seq(S)
      /\ Len(t) = IF k + 1 <= Len(s) THEN Len(s) - (k + 1) + 1 ELSE 0
      /\ \A i \in 1..(Len(s) - (k + 1) + 1) : t[i] = s[k + 1 + i - 1]
  BY <1>1, SubSeqProperties
<1> HIDE DEF t
<1>3. Len(t) = Len(s) - k
  BY <1>1, <1>2
<1>4. DOMAIN t = 1..(Len(s) - k)
  BY <1>2, <1>3
<1>5. \A i \in 1..(Len(s) - k) : t[i] = s[k + i]
  BY <1>1, <1>2
<1>. QED
  BY <1>2, <1>3, <1>4, <1>5 DEF t

\* The stream begins with the first byte of the next message.
LEMMA FirstByte ==
    ASSUME NEW ms \in Seq(Message), NEW h \in Nat, NEW line,
           Remainder(line, ms, h), line # <<>>
    PROVE  h + 1 \in 1..Len(ms) /\ line[1] = <<h + 1, 1>>
<1>1. line \in Seq(Byte) /\ 1 \in DOMAIN line
  BY DEF Remainder
<1>2. line[1][1] \in (h + 1)..Len(ms) /\ line[1][2] \in 1..ms[line[1][1]].len
  BY <1>1 DEF Remainder
<1>3. h + 1 \in (h + 1)..Len(ms) /\ h + 1 \in 1..Len(ms)
  BY <1>2
<1>4. ms[h + 1].len \in Nat \ {0}
  BY <1>3, LengthOf
<1>5. PICK i \in DOMAIN line : line[i] = <<h + 1, 1>>
  BY <1>3, <1>4 DEF Remainder
<1>6. i = 1
  <2> SUFFICES ASSUME i # 1 PROVE FALSE
    OBVIOUS
  <2>1. i \in DOMAIN line /\ 1 < i
    BY <1>1
  <2>2. Before(line[1], line[i])
    BY <2>1, <1>1 DEF Remainder
  <2>3. line[i][1] = h + 1 /\ line[i][2] = 1
    BY <1>5
  <2>4. line[1] \in Byte
    BY <1>1
  <2>. QED
    BY <2>2, <2>3, <2>4, <1>2 DEF Before, Byte
<1>. QED
  BY <1>3, <1>5, <1>6

\* A message that is there to its last byte is there whole, and so are those
\* before it; what follows it is what the stream has left after it.
LEMMA AfterMessage ==
    ASSUME NEW ms \in Seq(Message), NEW h \in Nat, NEW line, Remainder(line, ms, h),
           NEW m \in (h + 1)..Len(ms), NEW k \in DOMAIN line,
           line[k] = <<m, ms[m].len>>
    PROVE  Remainder(SubSeq(line, k + 1, Len(line)), ms, m)
<1> DEFINE n == Len(line)
           tail == SubSeq(line, k + 1, Len(line))
<1>1. line \in Seq(Byte) /\ n \in Nat /\ k \in 1..n /\ DOMAIN line = 1..n
  BY DEF Remainder
<1>2. /\ tail \in Seq(Byte) /\ Len(tail) = n - k /\ DOMAIN tail = 1..(n - k)
      /\ \A i \in 1..(n - k) : tail[i] = line[k + i] /\ k + i \in 1..n
  <2>1. k \in 0..Len(line)
    BY <1>1
  <2>2. /\ tail \in Seq(Byte) /\ Len(tail) = n - k /\ DOMAIN tail = 1..(n - k)
        /\ \A i \in 1..(n - k) : tail[i] = line[k + i]
    BY <1>1, <2>1, Suffix
  <2> HIDE DEF tail
  <2>. QED
    BY <1>1, <2>2
<1>3. \A i \in 1..n : line[i] \in Byte
  BY <1>1
<1>4. m \in Nat /\ ms[m].len \in Nat
  BY LengthOf
<1> HIDE DEF tail, n
<1>5. ASSUME NEW i \in DOMAIN tail
      PROVE  /\ tail[i][1] \in (m + 1)..Len(ms)
             /\ tail[i][2] \in 1..ms[tail[i][1]].len
  <2>1. tail[i] = line[k + i] /\ k + i \in 1..n /\ k < k + i
    BY <1>1, <1>2
  <2>2. Before(line[k], line[k + i])
    BY <2>1, <1>1 DEF Remainder
  <2>3. /\ line[k + i][1] \in (h + 1)..Len(ms)
        /\ line[k + i][2] \in 1..ms[line[k + i][1]].len
    BY <2>1, <1>1 DEF Remainder
  <2>4. line[k + i][1] > m
    <3>1. line[k][1] = m /\ line[k][2] = ms[m].len
      OBVIOUS
    <3>2. line[k + i][1] = m => line[k + i][2] <= ms[m].len
      BY <2>3, <1>4
    <3>. QED
      BY <2>2, <2>3, <3>1, <3>2, <1>3, <1>4, <2>1 DEF Before, Byte
  <2>. QED
    BY <2>1, <2>3, <2>4, <1>4
<1>6. ASSUME NEW i \in DOMAIN tail, NEW j \in DOMAIN tail, i < j
      PROVE  Before(tail[i], tail[j])
  <2>1. tail[i] = line[k + i] /\ tail[j] = line[k + j]
    BY <1>2
  <2>2. k + i \in DOMAIN line /\ k + j \in DOMAIN line /\ k + i < k + j
    BY <1>1, <1>2, <1>6
  <2>3. Before(line[k + i], line[k + j])
    BY <2>2 DEF Remainder
  <2>. QED
    BY <2>1, <2>3
<1>7. ASSUME NEW x \in (m + 1)..Len(ms), NEW y \in 1..ms[x].len
      PROVE  \E i \in DOMAIN tail : tail[i] = <<x, y>>
  <2>1. x \in (h + 1)..Len(ms) /\ x > m
    BY <1>4
  <2>2. PICK j \in DOMAIN line : line[j] = <<x, y>>
    BY <2>1 DEF Remainder
  <2>3. line[j][1] = x /\ line[k][1] = m
    BY <2>2
  <2>4. j # k
    BY <2>1, <2>3, <1>4
  <2>5. ~(j < k)
    <3> SUFFICES ASSUME j < k PROVE FALSE
      OBVIOUS
    <3>1. Before(line[j], line[k])
      BY DEF Remainder
    <3>. QED
      BY <3>1, <2>1, <2>3, <1>4 DEF Before
  <2>6. j - k \in DOMAIN tail /\ k + (j - k) = j
    BY <2>4, <2>5, <1>1, <1>2
  <2>7. tail[j - k] = line[k + (j - k)]
    BY <2>6, <1>2
  <2>. QED
    BY <2>2, <2>6, <2>7
<1>8. Remainder(tail, ms, m)
  BY <1>2, <1>5, <1>6, <1>7 DEF Remainder
<1>. QED
  BY <1>8 DEF tail

\* A message that the server begins to send comes after all there is.
LEMMA NextMessage ==
    ASSUME NEW ms \in Seq(Message), NEW h \in 0..Len(ms), NEW line,
           Remainder(line, ms, h), NEW new \in Message
    PROVE  /\ [k \in 1..new.len |-> <<Len(ms) + 1, k>>] \in Seq(Byte)
           /\ Remainder(line \o [k \in 1..new.len |-> <<Len(ms) + 1, k>>],
                        Append(ms, new), h)
<1> DEFINE c == Len(ms) + 1
           l == new.len
           bytes == [k \in 1..l |-> <<c, k>>]
           n == Len(line)
           longer == line \o bytes
           more == Append(ms, new)
<1>1. l \in Nat \ {0} /\ c \in Nat \ {0} /\ Len(ms) \in Nat
  <2>1. new.len \in Lengths
    BY DEF Message
  <2>2. l \in Nat \ {0}
    BY <2>1, SuplReceiveAssumption
  <2>3. Len(ms) \in Nat
    OBVIOUS
  <2>. QED
    BY <2>2, <2>3
<1>2. /\ line \in Seq(Byte) /\ n \in Nat /\ DOMAIN line = 1..n
      /\ \A i \in 1..n : line[i] \in Byte
  BY DEF Remainder
<1>3. /\ bytes \in Seq(Byte) /\ Len(bytes) = l /\ DOMAIN bytes = 1..l
      /\ \A i \in 1..l : bytes[i] = <<c, i>>
  <2> HIDE DEF l, c
  <2>1. \A k \in 1..l : <<c, k>> \in Byte
    BY <1>1 DEF Byte
  <2>. QED
    BY <1>1, <2>1
<1>4. /\ more \in Seq(Message) /\ Len(more) = c /\ more[c] = new
      /\ \A m \in 1..Len(ms) : more[m] = ms[m]
  OBVIOUS
<1> HIDE DEF bytes
<1>5. /\ longer \in Seq(Byte) /\ Len(longer) = n + l
      /\ \A i \in 1..(n + l) : longer[i] = IF i <= n THEN line[i] ELSE bytes[i - n]
  <2>1. /\ longer \in Seq(Byte) /\ Len(longer) = n + Len(bytes)
        /\ \A i \in 1..(n + Len(bytes)) :
              longer[i] = IF i <= n THEN line[i] ELSE bytes[i - n]
    BY <1>2, <1>3, ConcatProperties
  <2> HIDE DEF longer, n, l
  <2>. QED
    BY <1>3, <2>1
<1> HIDE DEF longer, n, l
<1>6. DOMAIN longer = 1..(n + l)
  BY <1>5
<1>7. ASSUME NEW i \in 1..n
      PROVE  /\ i \in DOMAIN longer /\ longer[i] = line[i]
             /\ line[i][1] \in (h + 1)..Len(ms)
             /\ line[i][2] \in 1..ms[line[i][1]].len
  <2>1. i \in 1..(n + l) /\ i <= n
    BY <1>1, <1>2
  <2>2. longer[i] = line[i]
    BY <2>1, <1>5
  <2>. QED
    BY <2>1, <2>2, <1>2, <1>6 DEF Remainder
<1>8. ASSUME NEW i \in DOMAIN longer, ~(i <= n)
      PROVE  i - n \in 1..l /\ longer[i] = <<c, i - n>>
  <2>1. i \in 1..(n + l) /\ i - n \in 1..l
    BY <1>1, <1>2, <1>6, <1>8
  <2>2. longer[i] = bytes[i - n]
    BY <2>1, <1>5, <1>8
  <2>. QED
    BY <2>1, <2>2, <1>3
<1> HIDE DEF more, c
<1>9. ASSUME NEW i \in DOMAIN longer
      PROVE  /\ longer[i][1] \in (h + 1)..Len(more)
             /\ longer[i][2] \in 1..more[longer[i][1]].len
  <2>1. CASE i <= n
    <3>1. i \in 1..n
      BY <2>1, <1>1, <1>2, <1>6
    <3>2. /\ longer[i] = line[i] /\ line[i][1] \in (h + 1)..Len(ms)
          /\ line[i][2] \in 1..ms[line[i][1]].len
      BY <3>1, <1>7
    <3>3. line[i][1] \in 1..Len(ms) /\ line[i][1] \in (h + 1)..c
      BY <3>2, <1>1 DEF c
    <3>. QED
      BY <3>2, <3>3, <1>4
  <2>2. CASE ~(i <= n)
    <3>1. i - n \in 1..l /\ longer[i] = <<c, i - n>>
      BY <2>2, <1>8
    <3>2. c \in (h + 1)..c
      BY <1>1 DEF c
    <3>. QED
      BY <3>1, <3>2, <1>4 DEF l
  <2>. QED
    BY <2>1, <2>2
<1>10. ASSUME NEW i \in DOMAIN longer, NEW j \in DOMAIN longer, i < j
       PROVE  Before(longer[i], longer[j])
  <2>0. i \in Nat /\ j \in Nat
    BY <1>1, <1>2, <1>6
  <2>1. CASE j <= n
    <3>1. i \in 1..n /\ j \in 1..n
      BY <2>1, <1>1, <1>2, <1>6, <1>10
    <3>2. Before(line[i], line[j])
      BY <3>1, <1>2, <1>10 DEF Remainder
    <3>. QED
      BY <3>1, <3>2, <1>7
  <2>2. CASE i <= n /\ ~(j <= n)
    <3>1. i \in 1..n
      BY <2>2, <1>1, <1>2, <1>6
    <3>2. longer[i][1] \in (h + 1)..Len(ms) /\ longer[j][1] = c
      BY <3>1, <2>2, <1>7, <1>8
    <3>. QED
      BY <3>2, <1>1 DEF Before, c
  <2>3. CASE ~(i <= n) /\ ~(j <= n)
    <3>1. longer[i] = <<c, i - n>> /\ longer[j] = <<c, j - n>>
      BY <2>3, <1>8
    <3>2. i - n < j - n
      BY <1>10, <1>2, <2>0
    <3>. QED
      BY <3>1, <3>2 DEF Before
  <2>. QED
    BY <2>0, <2>1, <2>2, <2>3, <1>2, <1>10
<1>11. ASSUME NEW x \in (h + 1)..Len(more), NEW y \in 1..more[x].len
       PROVE  \E i \in DOMAIN longer : longer[i] = <<x, y>>
  <2>1. CASE x = c
    <3>1. y \in 1..l
      BY <2>1, <1>4 DEF l
    <3>2. n + y \in 1..(n + l) /\ ~(n + y <= n) /\ (n + y) - n = y
      BY <3>1, <1>1, <1>2
    <3>3. longer[n + y] = bytes[(n + y) - n]
      BY <3>2, <1>5
    <3>4. bytes[(n + y) - n] = <<x, y>>
      BY <3>1, <3>2, <1>3, <2>1
    <3>. QED
      BY <3>2, <3>3, <3>4, <1>6
  <2>2. CASE x # c
    <3>1. x \in (h + 1)..Len(ms) /\ x \in 1..Len(ms)
      BY <2>2, <1>1, <1>4 DEF c
    <3>2. y \in 1..ms[x].len
      BY <3>1, <1>4
    <3>3. PICK i \in DOMAIN line : line[i] = <<x, y>>
      BY <3>1, <3>2 DEF Remainder
    <3>4. i \in DOMAIN longer /\ longer[i] = line[i]
      BY <1>2, <1>7
    <3>. QED
      BY <3>3, <3>4
  <2>. QED
    BY <2>1, <2>2
<1>12. Remainder(longer, more, h)
  BY <1>5, <1>9, <1>10, <1>11 DEF Remainder
<1>. QED
  BY <1>3, <1>12 DEF longer, bytes, more, l, c

\* The buffer holds the beginning of the stream: with the end of a message it
\* holds the messages before it.
LEMMA EarlierMessages ==
    ASSUME NEW ms \in Seq(Message), NEW h \in Nat, NEW b \in Seq(Byte),
           NEW rest \in Seq(Byte), Remainder(b \o rest, ms, h),
           NEW m \in (h + 1)..Len(ms), <<m, ms[m].len>> \in Range(b),
           NEW j \in (h + 1)..m
    PROVE  <<j, ms[j].len>> \in Range(b)
<1> DEFINE line == b \o rest
<1>1. /\ Len(b) \in Nat /\ Len(rest) \in Nat /\ line \in Seq(Byte)
      /\ Len(line) = Len(b) + Len(rest)
      /\ \A i \in 1..(Len(b) + Len(rest)) :
            line[i] = IF i <= Len(b) THEN b[i] ELSE rest[i - Len(b)]
  BY ConcatProperties
<1>2. DOMAIN b = 1..Len(b) /\ DOMAIN line = 1..(Len(b) + Len(rest))
  BY <1>1
<1>3. PICK k \in DOMAIN b : b[k] = <<m, ms[m].len>>
  BY DEF Range
<1>4. \A i \in DOMAIN b : i \in DOMAIN line /\ line[i] = b[i]
  BY <1>1, <1>2
<1>5. j \in (h + 1)..Len(ms) /\ j \in 1..Len(ms) /\ m \in 1..Len(ms)
  OBVIOUS
<1>6. ms[j].len \in Nat \ {0} /\ ms[m].len \in Nat \ {0}
  BY <1>5, LengthOf
<1>7. PICK i \in DOMAIN line : line[i] = <<j, ms[j].len>>
  <2>1. ms[j].len \in 1..ms[j].len
    BY <1>6
  <2>. QED
    BY <1>5, <2>1 DEF Remainder
<1>8. k \in DOMAIN line /\ line[k] = <<m, ms[m].len>>
  BY <1>3, <1>4
<1> HIDE DEF line
<1>9. i <= k
  <2> SUFFICES ASSUME ~(i <= k) PROVE FALSE
    OBVIOUS
  <2>1. k < i
    BY <1>1, <1>2
  <2>2. Before(line[k], line[i])
    BY <2>1, <1>8 DEF Remainder, line
  <2>3. m < j \/ (m = j /\ ms[m].len < ms[j].len)
    BY <2>2, <1>7, <1>8 DEF Before
  <2>. QED
    BY <2>3, <1>5, <1>6
<1>10. i \in DOMAIN b
  BY <1>1, <1>2, <1>9
<1>11. b[i] = <<j, ms[j].len>>
  BY <1>4, <1>7, <1>10
<1>. QED
  BY <1>10, <1>11 DEF Range

----------------------------------------------------------------------------
(***************************************************************************)
(* The messages that a read gives                                          *)
(***************************************************************************)
\* A set of numbers that begins after h and has no gap ends with its maximum.
LEMMA WithoutGap ==
    ASSUME NEW h \in Nat, NEW top \in Nat, NEW given, given \subseteq (h + 1)..top,
           given # {}, \A m \in given : \A j \in (h + 1)..m : j \in given
    PROVE  /\ Max(given) \in given
           /\ given = (h + 1)..Max(given)
<1> DEFINE Above == {x \in Nat : \A m \in given : m <= x}
<1>1. top \in Above
  BY DEF Above
<1>2. \E x \in Above : \A y \in Above : ~(<<y, x>> \in OpToRel(<, Nat))
  <2>1. Above \subseteq Nat /\ Above # {}
    BY <1>1
  <2> HIDE DEF Above
  <2>. QED
    BY <2>1, NatLessThanWellFounded, WFMin
<1>3. PICK x \in Above : \A y \in Above : ~(<<y, x>> \in OpToRel(<, Nat))
  BY <1>2
<1>4. \A y \in Above : ~(y < x)
  BY <1>3 DEF OpToRel
<1>5. x \in Nat /\ \A m \in given : m <= x
  BY <1>3
<1>6. x \in given
  <2> SUFFICES ASSUME x \notin given PROVE FALSE
    OBVIOUS
  <2>1. PICK m \in given : TRUE
    OBVIOUS
  <2>2. m \in Nat /\ m <= x /\ m # x /\ m > 0
    BY <2>1, <1>5
  <2>3. x - 1 \in Nat /\ x - 1 < x
    BY <2>2, <1>5
  <2>4. \A k \in given : k <= x - 1
    BY <1>5
  <2>5. x - 1 \in Above
    BY <2>3, <2>4
  <2>. QED
    BY <2>3, <2>5, <1>4
<1>7. \E y \in given : \A m \in given : y >= m
  BY <1>5, <1>6
<1>8. Max(given) \in given /\ \A m \in given : Max(given) >= m
  BY <1>7 DEF Max
<1> DEFINE M == Max(given)
<1> HIDE DEF M
<1>9. M \in given /\ \A m \in given : M >= m
  BY <1>8 DEF M
<1>10. given = (h + 1)..M
  <2>1. \A j \in (h + 1)..M : j \in given
    BY <1>9
  <2>2. \A m \in given : m \in (h + 1)..M
    BY <1>9
  <2>. QED
    BY <2>1, <2>2
<1>. QED
  BY <1>9, <1>10 DEF M

\* A sequence of natural numbers that increases grows at least by one a step.
LEMMA AtLeastOneAStep ==
    ASSUME NEW n \in Nat, NEW q \in [1..n -> Nat], NEW h \in Nat,
           \A i, j \in 1..n : i < j => q[i] < q[j],
           n > 0 => q[1] >= h + 1
    PROVE  \A i \in 1..n : q[i] >= h + i
<1> DEFINE Bad == {i \in 1..n : ~(q[i] >= h + i)}
<1> SUFFICES ASSUME Bad # {} PROVE FALSE
  OBVIOUS
<1>1. \E i \in Bad : \A j \in Bad : ~(<<j, i>> \in OpToRel(<, Nat))
  <2>1. Bad \subseteq Nat
    OBVIOUS
  <2> HIDE DEF Bad
  <2>. QED
    BY <2>1, NatLessThanWellFounded, WFMin
<1>2. PICK i \in Bad : \A j \in Bad : ~(<<j, i>> \in OpToRel(<, Nat))
  BY <1>1
<1>3. \A j \in Bad : ~(j < i)
  <2>1. Bad \subseteq Nat
    OBVIOUS
  <2> HIDE DEF Bad
  <2>. QED
    BY <1>2, <2>1 DEF OpToRel
<1>4. i \in 1..n /\ ~(q[i] >= h + i)
  BY <1>2
<1>5. i # 1 /\ n > 0
  BY <1>4
<1>6. i - 1 \in 1..n /\ i - 1 < i
  BY <1>4, <1>5
<1>7. i - 1 \notin Bad
  BY <1>3, <1>6
<1>8. q[i - 1] >= h + (i - 1)
  BY <1>6, <1>7
<1>9. q[i - 1] < q[i] /\ q[i - 1] \in Nat /\ q[i] \in Nat
  BY <1>4, <1>6
<1>. QED
  BY <1>4, <1>8, <1>9

LEMMA AtMostOneAStep ==
    ASSUME NEW n \in Nat, NEW q \in [1..n -> Nat], NEW h \in Nat,
           \A i, j \in 1..n : i < j => q[i] < q[j],
           n > 0 => q[n] <= h + n
    PROVE  \A i \in 1..n : q[i] <= h + i
<1> DEFINE Bad == {d \in 0..(n - 1) : ~(q[n - d] <= h + (n - d))}
<1> SUFFICES ASSUME Bad # {} PROVE \A i \in 1..n : q[i] <= h + i
  <2> SUFFICES ASSUME NEW i \in 1..n, ~(q[i] <= h + i) PROVE FALSE
    OBVIOUS
  <2>1. n - i \in 0..(n - 1) /\ n - (n - i) = i
    OBVIOUS
  <2>2. n - i \in Bad
    BY <2>1
  <2>. QED
    BY <2>2
<1>1. \E i \in Bad : \A j \in Bad : ~(<<j, i>> \in OpToRel(<, Nat))
  <2>1. Bad \subseteq Nat
    OBVIOUS
  <2> HIDE DEF Bad
  <2>. QED
    BY <2>1, NatLessThanWellFounded, WFMin
<1>2. PICK d \in Bad : \A j \in Bad : ~(<<j, d>> \in OpToRel(<, Nat))
  BY <1>1
<1>3. \A j \in Bad : ~(j < d)
  <2>1. Bad \subseteq Nat
    OBVIOUS
  <2> HIDE DEF Bad
  <2>. QED
    BY <1>2, <2>1 DEF OpToRel
<1>4. d \in 0..(n - 1) /\ ~(q[n - d] <= h + (n - d))
  BY <1>2
<1>5. d # 0
  BY <1>4
<1>6. d - 1 \in 0..(n - 1) /\ d - 1 < d
  BY <1>4, <1>5
<1>7. d - 1 \notin Bad
  BY <1>3, <1>6
<1>8. q[n - (d - 1)] <= h + (n - (d - 1))
  BY <1>6, <1>7
<1>9. n - d \in 1..n /\ n - (d - 1) \in 1..n /\ n - d < n - (d - 1)
  BY <1>4, <1>6
<1>10. q[n - d] < q[n - (d - 1)] /\ q[n - d] \in Nat /\ q[n - (d - 1)] \in Nat
  BY <1>9
<1>. QED
  BY <1>4, <1>6, <1>8, <1>10

\* The messages from h + 1 to m, in order, are h + 1, ..., m.
LEMMA InOrderOfInterval ==
    ASSUME NEW h \in Nat, NEW m \in Nat, h <= m
    PROVE  InOrder((h + 1)..m) = [k \in 1..(m - h) |-> h + k]
<1> DEFINE ms == (h + 1)..m
           n == m - h
           up == [k \in 1..n |-> h + k]
<1>1. n \in Nat /\ Cardinality(ms) = n
  <2>1. h + 1 \in Int /\ m \in Int
    OBVIOUS
  <2>2. Cardinality(ms) = IF h + 1 > m THEN 0 ELSE m - (h + 1) + 1
    BY <2>1, FS_Interval
  <2> HIDE DEF ms
  <2>. QED
    BY <2>2
<1>2. /\ up \in [1..Cardinality(ms) -> ms] /\ DOMAIN up = 1..n
      /\ \A i, j \in DOMAIN up : i < j => up[i] < up[j]
  BY <1>1
<1> DEFINE q == InOrder(ms)
<1> HIDE DEF ms
<1>3. /\ q \in [1..Cardinality(ms) -> ms]
      /\ \A i, j \in DOMAIN q : i < j => q[i] < q[j]
  <2> HIDE DEF up, n
  <2>. QED
    BY <1>2 DEF InOrder
<1> HIDE DEF q
<1>4. /\ q \in [1..n -> ms] /\ DOMAIN q = 1..n
      /\ \A i, j \in 1..n : i < j => q[i] < q[j]
  BY <1>1, <1>3
<1>5. /\ q \in [1..n -> Nat]
      /\ \A i \in 1..n : q[i] >= h + 1 /\ q[i] <= h + n
  BY <1>4 DEF ms
<1> HIDE DEF n
<1>6. \A i \in 1..n : q[i] >= h + i
  <2>1. n > 0 => q[1] >= h + 1
    BY <1>1, <1>5
  <2>. QED
    BY <1>1, <1>4, <1>5, <2>1, AtLeastOneAStep
<1>7. \A i \in 1..n : q[i] <= h + i
  <2>1. n > 0 => q[n] <= h + n
    BY <1>1, <1>5
  <2>. QED
    BY <1>1, <1>4, <1>5, <2>1, AtMostOneAStep
<1>8. \A i \in 1..n : q[i] = h + i
  BY <1>5, <1>6, <1>7, <1>1
<1>9. q = up
  BY <1>4, <1>8
<1>. QED
  BY <1>9 DEF q, ms, n

----------------------------------------------------------------------------
(***************************************************************************)
(* Reading                                                                 *)
(***************************************************************************)
LEMMA SuffixOfConcat ==
    ASSUME NEW S, NEW s \in Seq(S), NEW t \in Seq(S), NEW k \in 0..Len(s)
    PROVE  SubSeq(s \o t, k + 1, Len(s \o t)) = SubSeq(s, k + 1, Len(s)) \o t
<1> DEFINE w == s \o t
           a == SubSeq(w, k + 1, Len(w))
           r == SubSeq(s, k + 1, Len(s))
           b == r \o t
<1>1. /\ w \in Seq(S) /\ Len(w) = Len(s) + Len(t)
      /\ \A i \in 1..(Len(s) + Len(t)) : w[i] = IF i <= Len(s) THEN s[i] ELSE t[i - Len(s)]
  BY ConcatProperties
<1>2. Len(s) \in Nat /\ Len(t) \in Nat
  OBVIOUS
<1>3. /\ r \in Seq(S) /\ Len(r) = Len(s) - k
      /\ \A i \in 1..(Len(s) - k) : r[i] = s[k + i]
  BY Suffix
<1> HIDE DEF w, r
<1>4. k \in 0..Len(w)
  BY <1>1, <1>2
<1>5. /\ a \in Seq(S) /\ Len(a) = Len(w) - k
      /\ \A i \in 1..(Len(w) - k) : a[i] = w[k + i]
  BY <1>1, <1>4, Suffix
<1>6. /\ b \in Seq(S) /\ Len(b) = Len(r) + Len(t)
      /\ \A i \in 1..(Len(r) + Len(t)) : b[i] = IF i <= Len(r) THEN r[i] ELSE t[i - Len(r)]
  BY <1>3, ConcatProperties
<1> HIDE DEF a, b
<1>7. Len(a) = Len(b)
  BY <1>1, <1>2, <1>3, <1>5, <1>6
<1>8. ASSUME NEW i \in 1..Len(a) PROVE a[i] = b[i]
  <2>1. a[i] = w[k + i] /\ k + i \in 1..(Len(s) + Len(t))
    BY <1>1, <1>2, <1>5
  <2>2. i \in 1..(Len(r) + Len(t))
    BY <1>6, <1>7
  <2>3. CASE i <= Len(r)
    <3>1. b[i] = r[i] /\ i \in 1..(Len(s) - k) /\ k + i <= Len(s)
      BY <2>2, <2>3, <1>2, <1>3, <1>6
    <3>. QED
      BY <3>1, <2>1, <1>1, <1>3
  <2>4. CASE ~(i <= Len(r))
    <3>1. b[i] = t[i - Len(r)] /\ ~(k + i <= Len(s)) /\ (k + i) - Len(s) = i - Len(r)
      BY <2>2, <2>4, <1>2, <1>3, <1>6
    <3>. QED
      BY <3>1, <2>1, <1>1
  <2>. QED
    BY <2>3, <2>4
<1>9. a = b
  BY <1>5, <1>6, <1>7, <1>8, SeqEqual
<1>. QED
  BY <1>9 DEF a, b, r, w

\* What calls leave is what comes after the last message they give.
LEMMA RestIsSuffix ==
    ASSUME NEW b \in Seq(Byte), NEW last, <<last, messages[last].len>> \in Range(b)
    PROVE  \E k \in DOMAIN b : /\ b[k] = <<last, messages[last].len>>
                               /\ Rest(b, last) = SubSeq(b, k + 1, Len(b))
<1> DEFINE end == <<last, messages[last].len>>
           k == CHOOSE i \in DOMAIN b : b[i] = end
<1>1. k \in DOMAIN b /\ b[k] = end
  BY DEF Range
<1> HIDE DEF k
<1>2. k \in 1..Len(b) /\ Len(b) \in Nat
  BY <1>1
<1>3. Rest(b, last) = Consume(b, k)
  BY DEF Rest, k
<1>4. Consume(b, k) = SubSeq(b, k + 1, Len(b))
  <2>1. CASE k >= Len(b)
    <3>1. Len(b) < k + 1
      BY <1>2, <2>1
    <3>2. SubSeq(b, k + 1, Len(b)) = <<>>
      BY <3>1, <1>2, SubSeqEmpty
    <3>. QED
      BY <3>2, <2>1 DEF Consume
  <2>2. CASE ~(k >= Len(b))
    BY <2>2 DEF Consume
  <2>. QED
    BY <2>1, <2>2
<1>. QED
  BY <1>1, <1>3, <1>4

\* What a read finds is the beginning of what is behind the buffer.
LEMMA FoundFacts ==
    ASSUME TypeInv, NEW found \in Found
    PROVE  /\ found.data \in Seq(Byte) /\ found.left \in Seq(Byte)
           /\ found.limits \subseteq 1..Len(found.left)
           /\ found.data \o found.left = pending \o socket
<1>1. /\ socket \in Seq(Byte) /\ pending \in Seq(Byte)
      /\ limits \subseteq 1..Len(socket) /\ Len(socket) \in Nat
  BY DEF TypeInv
<1>2. CASE pending # <<>>
  <2>1. found = [data |-> pending, left |-> socket, limits |-> limits]
    BY <1>2 DEF Found
  <2>. QED
    BY <1>1, <2>1
<1>3. CASE pending = <<>>
  <2>1. PICK k \in limits :
           found = [data |-> SubSeq(socket, 1, k),
                    left |-> SubSeq(socket, k + 1, Len(socket)),
                    limits |-> {l - k : l \in {x \in limits : x > k}}]
    BY <1>3 DEF Found
  <2>2. k \in 1..Len(socket) /\ k \in 0..Len(socket)
    BY <1>1
  <2>3. /\ found.data = SubSeq(socket, 1, k)
        /\ found.left = SubSeq(socket, k + 1, Len(socket))
        /\ found.limits = {l - k : l \in {x \in limits : x > k}}
    BY <2>1
  <2>4. SubSeq(socket, 1, k) \in Seq(Byte)
    BY <1>1, <2>2
  <2>5. /\ SubSeq(socket, k + 1, Len(socket)) \in Seq(Byte)
        /\ Len(SubSeq(socket, k + 1, Len(socket))) = Len(socket) - k
    BY <1>1, <2>2, Suffix
  <2>6. {l - k : l \in {x \in limits : x > k}} \subseteq 1..(Len(socket) - k)
    BY <1>1, <2>2
  <2>7. SubSeq(socket, 1, k) \o SubSeq(socket, k + 1, Len(socket)) = socket
    <3>1. /\ 1 \in 1..(Len(socket) + 1) /\ k \in (1 - 1)..Len(socket)
          /\ Len(socket) \in k..Len(socket)
      BY <1>1, <2>2
    <3>2. SubSeq(socket, 1, k) \o SubSeq(socket, k + 1, Len(socket))
            = SubSeq(socket, 1, Len(socket))
      BY <1>1, <3>1, ConcatAdjacentSubSeq
    <3>. QED
      BY <1>1, <3>2, SubSeqFull
  <2>8. pending \o socket = socket
    BY <1>1, <1>3, ConcatEmptySeq
  <2>. QED
    BY <2>3, <2>4, <2>5, <2>6, <2>7, <2>8
<1>. QED
  BY <1>2, <1>3

LEMMA Joined ==
    \A s, t \in Seq(Byte) : \A i \in 1..(Len(s) + Len(t)) :
        (s \o t)[i] = IF i <= Len(s) THEN s[i] ELSE t[i - Len(s)]
BY ConcatProperties

LEMMA Associative ==
    \A s, t, u \in Seq(Byte) : (s \o t) \o u = s \o (t \o u)
BY ConcatAssociative

\* Reading moves bytes: none is lost, and none overtakes another.
LEMMA FillFacts ==
    ASSUME TypeInv, NEW filled \in Fill
    PROVE  /\ filled.buffer \in Seq(Byte) /\ filled.pending \in Seq(Byte)
           /\ filled.socket \in Seq(Byte)
           /\ Len(filled.buffer) <= BufferSize
           /\ filled.limits \subseteq 1..Len(filled.socket)
           /\ ~tls => filled.pending = <<>>
           /\ (filled.buffer \o filled.pending) \o filled.socket
                = (buffer \o pending) \o socket
<1>1. /\ socket \in Seq(Byte) /\ pending \in Seq(Byte) /\ buffer \in Seq(Byte)
      /\ limits \subseteq 1..Len(socket) /\ Len(buffer) <= BufferSize
      /\ ~tls => pending = <<>>
      /\ Len(buffer) \in Nat /\ BufferSize \in Nat
  BY SuplReceiveAssumption DEF TypeInv
<1>2. CASE Room = 0 \/ Found = {}
  <2>1. filled = [buffer |-> buffer, pending |-> pending, socket |-> socket,
                  limits |-> limits]
    BY <1>2 DEF Fill
  <2>. QED
    BY <1>1, <2>1
<1>3. CASE ~(Room = 0 \/ Found = {})
  <2>1. PICK found \in Found : filled = Filled(found, Least(Room, Len(found.data)))
    BY <1>3 DEF Fill
  <2> DEFINE data == found.data
             left == found.left
             n == Least(Room, Len(data))
             first == SubSeq(data, 1, n)
             rest == SubSeq(data, n + 1, Len(data))
  <2>2. /\ data \in Seq(Byte) /\ left \in Seq(Byte)
        /\ found.limits \subseteq 1..Len(left)
        /\ data \o left = pending \o socket
    BY FoundFacts
  <2>3. filled = [buffer  |-> buffer \o first,
                  pending |-> IF tls THEN rest ELSE <<>>,
                  socket  |-> IF tls THEN left ELSE rest \o left,
                  limits  |-> IF tls \/ rest = <<>> THEN found.limits ELSE {Len(rest)}]
    BY <2>1 DEF Filled
  <2> HIDE DEF data, left
  <2>4. n \in 0..Len(data) /\ n <= BufferSize - Len(buffer) /\ Len(data) \in Nat
    <3>1. Room \in Nat /\ Room = BufferSize - Len(buffer) /\ Len(data) \in Nat
      BY <1>1, <2>2 DEF Room
    <3>. QED
      BY <3>1 DEF Least
  <2> HIDE DEF n
  <2>5. first \in Seq(Byte) /\ Len(first) = n
    <3>1. /\ 1 \in Int /\ n \in Int /\ \A i \in 1..n : data[i] \in Byte
      BY <2>2, <2>4
    <3>2. first \in Seq(Byte) /\ Len(first) = IF 1 <= n THEN n - 1 + 1 ELSE 0
      BY <3>1, SubSeqProperties
    <3> HIDE DEF first
    <3>. QED
      BY <3>2, <2>4
  <2>6. rest \in Seq(Byte) /\ Len(rest) \in Nat
    <3>1. rest \in Seq(Byte)
      BY <2>2, <2>4, Suffix
    <3>. QED
      BY <3>1, LenProperties
  <2>7. first \o rest = data
    <3>1. /\ 1 \in 1..(Len(data) + 1) /\ n \in (1 - 1)..Len(data)
          /\ Len(data) \in n..Len(data)
      BY <2>4
    <3>2. first \o rest = SubSeq(data, 1, Len(data))
      BY <2>2, <3>1, ConcatAdjacentSubSeq
    <3>. QED
      BY <2>2, <3>2, SubSeqFull
  <2> HIDE DEF first, rest
  <2> DEFINE b == buffer \o first
  <2>8. b \in Seq(Byte) /\ Len(b) <= BufferSize
    <3>1. b \in Seq(Byte) /\ Len(b) = Len(buffer) + Len(first)
      BY <1>1, <2>5, ConcatProperties
    <3> HIDE DEF b
    <3>. QED
      BY <3>1, <1>1, <2>4, <2>5
  <2>9. b \o rest = buffer \o data
    <3>1. (buffer \o first) \o rest = buffer \o (first \o rest)
      BY <1>1, <2>5, <2>6, Associative
    <3>. QED
      BY <2>7, <3>1
  <2>10. (buffer \o data) \o left = (buffer \o pending) \o socket
    <3>1. (buffer \o data) \o left = buffer \o (data \o left)
      BY <1>1, <2>2, Associative
    <3>2. (buffer \o pending) \o socket = buffer \o (pending \o socket)
      BY <1>1, Associative
    <3>. QED
      BY <2>2, <3>1, <3>2
  <2> HIDE DEF b
  <2>11. (b \o rest) \o left = (buffer \o pending) \o socket
    BY <2>9, <2>10
  <2>12. CASE tls
    <3>1. /\ filled.buffer = b /\ filled.pending = rest /\ filled.socket = left
          /\ filled.limits = found.limits
      BY <2>3, <2>12 DEF b
    <3>. QED
      BY <3>1, <2>2, <2>6, <2>8, <2>11, <2>12
  <2>13. CASE ~tls
    <3>1. /\ filled.buffer = b /\ filled.pending = <<>>
          /\ filled.socket = rest \o left
          /\ filled.limits = IF rest = <<>> THEN found.limits ELSE {Len(rest)}
      BY <2>3, <2>13 DEF b
    <3>2. <<>> \in Seq(Byte) /\ rest \o left \in Seq(Byte)
      BY <2>2, <2>6
    <3>3. Len(rest \o left) = Len(rest) + Len(left) /\ Len(left) \in Nat
      BY <2>2, <2>6, ConcatProperties
    <3>4. (b \o <<>>) \o (rest \o left) = (b \o rest) \o left
      <4>1. b \o <<>> = b
        BY <2>8, ConcatEmptySeq
      <4>2. (b \o rest) \o left = b \o (rest \o left)
        BY <2>8, <2>6, <2>2, Associative
      <4>. QED
        BY <4>1, <4>2
    <3>5. (IF rest = <<>> THEN found.limits ELSE {Len(rest)}) \subseteq 1..Len(rest \o left)
      <4>1. CASE rest = <<>>
        <5>1. rest \o left = left
          BY <4>1, <2>2, ConcatEmptySeq
        <5>. QED
          BY <5>1, <4>1, <2>2
      <4>2. CASE rest # <<>>
        <5>1. Len(rest) \in Nat \ {0}
          BY <4>2, <2>6, EmptySeq
        <5>. QED
          BY <5>1, <4>2, <3>3
      <4>. QED
        BY <4>1, <4>2
    <3>. QED
      BY <3>1, <3>2, <3>4, <3>5, <2>8, <2>11, <2>13
  <2>. QED
    BY <2>12, <2>13
<1>. QED
  BY <1>2, <1>3

\* The end of message m, the last that calls give of the bytes b: what is left
\* after it is what the stream has left.
LEMMA LineAfter ==
    ASSUME NEW ms \in Seq(Message), NEW h \in Nat,
           NEW b \in Seq(Byte), NEW p \in Seq(Byte), NEW s \in Seq(Byte),
           NEW o \in Seq(Byte), Remainder(((b \o p) \o s) \o o, ms, h),
           NEW m \in (h + 1)..Len(ms), NEW k \in DOMAIN b,
           b[k] = <<m, ms[m].len>>
    PROVE  /\ SubSeq(b, k + 1, Len(b)) \in Seq(Byte)
           /\ Len(SubSeq(b, k + 1, Len(b))) <= Len(b)
           /\ Remainder(((SubSeq(b, k + 1, Len(b)) \o p) \o s) \o o, ms, m)
           /\ o # <<>> => Head(o)[1] > m
<1> DEFINE r == SubSeq(b, k + 1, Len(b))
           bp == b \o p
           bps == bp \o s
           line == bps \o o
<1>1. k \in 0..Len(b) /\ k \in 1..Len(b) /\ Len(b) \in Nat /\ Len(o) \in Nat
  OBVIOUS
<1>2. r \in Seq(Byte) /\ Len(r) = Len(b) - k
  BY <1>1, Suffix
<1>3. /\ bp \in Seq(Byte) /\ Len(bp) = Len(b) + Len(p) /\ Len(p) \in Nat
      /\ \A i \in 1..(Len(b) + Len(p)) : bp[i] = IF i <= Len(b) THEN b[i] ELSE p[i - Len(b)]
  BY ConcatProperties
<1>4. SubSeq(bp, k + 1, Len(bp)) = r \o p
  BY <1>1, SuffixOfConcat
<1>5. bp[k] = b[k] /\ k \in 0..Len(bp) /\ k \in 1..Len(bp) /\ Len(bp) \in Nat
  BY <1>1, <1>3
<1> HIDE DEF bp, r
<1>6. /\ bps \in Seq(Byte) /\ Len(bps) = Len(bp) + Len(s) /\ Len(s) \in Nat
      /\ \A i \in 1..(Len(bp) + Len(s)) :
            bps[i] = IF i <= Len(bp) THEN bp[i] ELSE s[i - Len(bp)]
  <2>1. bps \in Seq(Byte) /\ Len(bps) = Len(bp) + Len(s)
    BY <1>3, ConcatProperties
  <2>2. \A i \in 1..(Len(bp) + Len(s)) :
            bps[i] = IF i <= Len(bp) THEN bp[i] ELSE s[i - Len(bp)]
    BY <1>3, ConcatProperties
  <2>3. Len(s) \in Nat
    OBVIOUS
  <2> HIDE DEF bps
  <2>. QED
    BY <2>1, <2>2, <2>3
<1>7. SubSeq(bps, k + 1, Len(bps)) = SubSeq(bp, k + 1, Len(bp)) \o s
  BY <1>3, <1>5, SuffixOfConcat
<1>8. bps[k] = bp[k] /\ k \in 0..Len(bps) /\ k \in 1..Len(bps) /\ Len(bps) \in Nat
  <2> HIDE DEF bps
  <2>1. k \in 1..(Len(bp) + Len(s)) /\ k <= Len(bp)
    BY <1>5, <1>6
  <2>2. bps[k] = bp[k]
    BY <2>1, <1>6
  <2>. QED
    BY <1>5, <1>6, <2>1, <2>2
<1> HIDE DEF bps
<1>9. /\ line \in Seq(Byte) /\ Len(line) = Len(bps) + Len(o)
      /\ \A i \in 1..(Len(bps) + Len(o)) :
            line[i] = IF i <= Len(bps) THEN bps[i] ELSE o[i - Len(bps)]
  <2>1. line \in Seq(Byte) /\ Len(line) = Len(bps) + Len(o)
    BY <1>6, ConcatProperties
  <2>2. \A i \in 1..(Len(bps) + Len(o)) :
            line[i] = IF i <= Len(bps) THEN bps[i] ELSE o[i - Len(bps)]
    BY <1>6, Joined
  <2> HIDE DEF line
  <2>. QED
    BY <2>1, <2>2
<1>10. SubSeq(line, k + 1, Len(line)) = SubSeq(bps, k + 1, Len(bps)) \o o
  BY <1>6, <1>8, SuffixOfConcat
<1>11. line[k] = bps[k] /\ k \in 1..Len(line) /\ k \in DOMAIN line
  BY <1>1, <1>8, <1>9
<1>12. Remainder(line, ms, h)
  BY DEF bps, bp
<1> HIDE DEF line
<1>13. line[k] = <<m, ms[m].len>>
  BY <1>5, <1>8, <1>11
<1>14. Remainder(SubSeq(line, k + 1, Len(line)), ms, m)
  BY <1>11, <1>12, <1>13, AfterMessage
<1>15. SubSeq(line, k + 1, Len(line)) = ((r \o p) \o s) \o o
  BY <1>4, <1>7, <1>10
<1>16. ASSUME o # <<>> PROVE Head(o)[1] > m
  <2> DEFINE j == Len(bps) + 1
             t == SubSeq(line, k + 1, Len(line))
  <2>1. Len(o) \in Nat \ {0} /\ Head(o) = o[1]
    BY <1>16, <1>1
  <2>2. j \in 1..(Len(bps) + Len(o)) /\ ~(j <= Len(bps)) /\ j - Len(bps) = 1
    BY <2>1, <1>8
  <2>3. line[j] = o[1]
    BY <2>2, <1>9
  <2>4. k \in 0..Len(line) /\ j - k \in 1..(Len(line) - k) /\ k + (j - k) = j
    BY <2>1, <1>8, <1>9
  <2>5. /\ DOMAIN t = 1..(Len(line) - k)
        /\ \A i \in 1..(Len(line) - k) : t[i] = line[k + i]
    BY <2>4, <1>9, Suffix
  <2> HIDE DEF t
  <2>6. t[j - k] = o[1] /\ j - k \in DOMAIN t
    BY <2>3, <2>4, <2>5
  <2>7. t[j - k][1] \in (m + 1)..Len(ms)
    BY <2>6, <1>14 DEF Remainder, t
  <2>. QED
    BY <2>1, <2>6, <2>7
<1>17. Len(r) <= Len(b)
  BY <1>1, <1>2
<1>. QED
  BY <1>2, <1>14, <1>15, <1>16, <1>17 DEF r

\* The numbers given are those of the messages after h up to one of which the
\* bytes b hold the end.
Follow(given, b, h) ==
    /\ given \subseteq (h + 1)..Len(messages)
    /\ \A m \in given : /\ <<m, messages[m].len>> \in Range(b)
                        /\ \A j \in (h + 1)..m : j \in given

\* What the decoder finds in the buffer follows what has been handled.
LEMMA DecodableFollow ==
    ASSUME messages \in Seq(Message), NEW h \in Nat, NEW b \in Seq(Byte),
           NEW rest \in Seq(Byte), Remainder(b \o rest, messages, h)
    PROVE  /\ Follow(Decodable(b), b, h)
           /\ b # <<>> => b[1][1] = h + 1
<1>1. ASSUME b # <<>> PROVE b[1] = <<h + 1, 1>>
  <2>1. b \o rest # <<>>
    BY <1>1, ConcatEqualIffEmpty
  <2>2. (b \o rest)[1] = <<h + 1, 1>>
    BY <2>1, FirstByte
  <2>3. Len(b) \in Nat \ {0} /\ Len(rest) \in Nat
    BY <1>1, EmptySeq
  <2>4. 1 \in 1..(Len(b) + Len(rest)) /\ 1 <= Len(b)
    BY <2>3
  <2>5. (b \o rest)[1] = b[1]
    BY <2>4, Joined
  <2>. QED
    BY <2>2, <2>5
<1>2. b # <<>> => b[1][1] = h + 1
  BY <1>1
<1>3. CASE Decodable(b) = {}
  BY <1>2, <1>3 DEF Follow
<1>4. CASE Decodable(b) # {}
  <2>1. /\ b # <<>>
        /\ Decodable(b) = {m \in b[1][1]..Len(messages) :
                              /\ <<m, messages[m].len>> \in Range(b)
                              /\ \A j \in b[1][1]..m : messages[j].kind # "malformed"}
    BY <1>4 DEF Decodable
  <2>2. Decodable(b) = {m \in (h + 1)..Len(messages) :
                              /\ <<m, messages[m].len>> \in Range(b)
                              /\ \A j \in (h + 1)..m : messages[j].kind # "malformed"}
    BY <2>1, <1>2
  <2>3. ASSUME NEW m \in Decodable(b), NEW j \in (h + 1)..m
        PROVE  j \in Decodable(b)
    <3>1. /\ m \in (h + 1)..Len(messages) /\ <<m, messages[m].len>> \in Range(b)
          /\ \A i \in (h + 1)..m : messages[i].kind # "malformed"
      BY <2>2
    <3>2. <<j, messages[j].len>> \in Range(b)
      BY <3>1, EarlierMessages
    <3>3. /\ j \in (h + 1)..Len(messages)
          /\ \A i \in (h + 1)..j : messages[i].kind # "malformed"
      BY <3>1
    <3>. QED
      BY <3>2, <3>3, <2>2
  <2>4. /\ Decodable(b) \subseteq (h + 1)..Len(messages)
        /\ \A m \in Decodable(b) : <<m, messages[m].len>> \in Range(b)
    BY <2>2
  <2>. QED
    BY <2>3, <2>4, <1>2 DEF Follow
<1>. QED
  BY <1>3, <1>4

\* So is what the loop of state_message takes, up to a message that ends it.
LEMMA LoopFollow ==
    ASSUME messages \in Seq(Message), NEW h \in Nat, NEW b \in Seq(Byte),
           NEW rest \in Seq(Byte), Remainder(b \o rest, messages, h)
    PROVE  Follow(Loop(b), b, h)
<1>1. /\ Follow(Decodable(b), b, h)
      /\ b # <<>> => b[1][1] = h + 1
  BY DecodableFollow
<1>2. Loop(b) \subseteq Decodable(b)
  BY DEF Loop
<1>3. ASSUME NEW m \in Loop(b), NEW j \in (h + 1)..m
      PROVE  j \in Loop(b)
  <2>1. b # <<>>
    BY <1>2 DEF Decodable
  <2>2. b[1][1] = h + 1
    BY <2>1, <1>1
  <2>3. \A i \in (h + 1)..(m - 1) : ~Ending(i)
    BY <2>2 DEF Loop
  <2>4. j \in Decodable(b) /\ m \in Nat
    <3>1. m \in Decodable(b)
      BY <1>2
    <3>2. m \in (h + 1)..Len(messages)
      BY <3>1, <1>1 DEF Follow
    <3>3. j \in Decodable(b)
      BY <3>1, <1>1 DEF Follow
    <3>. QED
      BY <3>2, <3>3
  <2>5. \A i \in (h + 1)..(j - 1) : ~Ending(i)
    BY <2>3, <2>4
  <2>. QED
    BY <2>2, <2>4, <2>5 DEF Loop
<1>4. /\ Loop(b) \subseteq (h + 1)..Len(messages)
      /\ \A m \in Loop(b) : <<m, messages[m].len>> \in Range(b)
  BY <1>1, <1>2 DEF Follow
<1>. QED
  BY <1>3, <1>4 DEF Follow

\* And the one message that state_handshake_recv takes.
FirstOf(b) == Decodable(b) \cap {b[k][1] : k \in DOMAIN b \cap {1}}

LEMMA FirstFollow ==
    ASSUME messages \in Seq(Message), NEW h \in Nat, NEW b \in Seq(Byte),
           NEW rest \in Seq(Byte), Remainder(b \o rest, messages, h)
    PROVE  Follow(FirstOf(b), b, h)
<1>1. /\ Follow(Decodable(b), b, h)
      /\ b # <<>> => b[1][1] = h + 1
  BY DecodableFollow
<1>2. ASSUME NEW m \in FirstOf(b) PROVE m = h + 1 /\ m \in Decodable(b)
  <2>1. m \in Decodable(b) /\ 1 \in DOMAIN b /\ m = b[1][1]
    BY DEF FirstOf
  <2>2. b # <<>>
    BY <2>1
  <2>. QED
    BY <2>1, <2>2, <1>1
<1>3. ASSUME NEW m \in FirstOf(b), NEW j \in (h + 1)..m
      PROVE  j \in FirstOf(b)
  <2>1. m = h + 1
    BY <1>2
  <2>2. j = m
    BY <2>1
  <2>. QED
    BY <2>2
<1>. QED
  BY <1>1, <1>2, <1>3 DEF Follow

\* What a read of the handshake or of state_message does.
Disconnects ==
    /\ phase' \in Ended
    /\ UNCHANGED <<kernel, pending, buffer, handled>>

Takes(filled, given) ==
    /\ pending' = filled.pending /\ socket' = filled.socket /\ limits' = filled.limits
    /\ \/ /\ given = {}
          /\ buffer' = filled.buffer
          /\ UNCHANGED <<handled, phase>>
       \/ /\ given # {}
          /\ buffer' = Rest(filled.buffer, Max(given))
          /\ handled' = handled \o InOrder(given)
          /\ phase' \in {"message"} \cup Ended

LEMMA ReadIs ==
    ASSUME HandshakeRead \/ MessageRead
    PROVE  /\ phase \in {"handshake", "message"}
           /\ UNCHANGED <<tls, server, connected, sender>>
           /\ \/ Disconnects
              \/ \E filled \in Fill : \E given \in {FirstOf(filled.buffer), Loop(filled.buffer)} :
                    Takes(filled, given)
<1>1. CASE HandshakeRead
  <2>1. phase = "handshake" /\ UNCHANGED <<tls, server, connected, sender>>
    BY <1>1 DEF HandshakeRead, Reads
  <2>2. CASE FillFails
    BY <1>1, <2>1, <2>2 DEF HandshakeRead, Reads, Disconnects, Ended
  <2>3. CASE ~FillFails
    <3>1. PICK filled \in Fill :
             /\ pending' = filled.pending
             /\ socket' = filled.socket
             /\ limits' = filled.limits
             /\ IF FirstOf(filled.buffer) = {}
                THEN buffer' = filled.buffer /\ UNCHANGED <<handled, phase>>
                ELSE /\ buffer' = Rest(filled.buffer, Max(FirstOf(filled.buffer)))
                     /\ handled' = handled \o InOrder(FirstOf(filled.buffer))
                     /\ phase' = IF messages[Max(FirstOf(filled.buffer))].kind = "RESPONSE"
                                 THEN "message" ELSE "error_only"
      BY <1>1, <2>3 DEF HandshakeRead, Reads, FirstOf
    <3>2. Takes(filled, FirstOf(filled.buffer))
      BY <3>1 DEF Takes, Ended
    <3>. QED
      BY <2>1, <3>2
  <2>. QED
    BY <2>2, <2>3
<1>2. CASE MessageRead
  <2>1. phase = "message" /\ UNCHANGED <<tls, server, connected, sender>>
    BY <1>2 DEF MessageRead, Reads
  <2>2. CASE FillFails
    BY <1>2, <2>1, <2>2 DEF MessageRead, Reads, Disconnects, Ended
  <2>3. CASE ~FillFails
    <3>1. PICK filled \in Fill :
             /\ pending' = filled.pending
             /\ socket' = filled.socket
             /\ limits' = filled.limits
             /\ IF Loop(filled.buffer) = {}
                THEN buffer' = filled.buffer /\ UNCHANGED <<handled, phase>>
                ELSE /\ buffer' = Rest(filled.buffer, Max(Loop(filled.buffer)))
                     /\ handled' = handled \o InOrder(Loop(filled.buffer))
                     /\ phase' = IF Ending(Max(Loop(filled.buffer)))
                                 THEN "disconnected" ELSE phase
      BY <1>2, <2>3 DEF MessageRead, Reads
    <3>2. Takes(filled, Loop(filled.buffer))
      BY <3>1, <2>1 DEF Takes, Ended
    <3>. QED
      BY <2>1, <3>2
  <2>. QED
    BY <2>2, <2>3
<1>. QED
  BY <1>1, <1>2

----------------------------------------------------------------------------
(***************************************************************************)
(* What has been sent and what has been handled                            *)
(***************************************************************************)
Upto(n) == [k \in 1..n |-> k]

SentCount == IF outbox = <<>> THEN Len(messages) ELSE Head(outbox)[1] - 1

LEMMA UptoPrefix ==
    ASSUME NEW a \in Nat, NEW b \in Nat
    PROVE  /\ a <= b => IsPrefix(Upto(a), Upto(b))
           /\ a < b => IsStrictPrefix(Upto(a), Upto(b))
           /\ Len(Upto(a)) = a
<1>1. /\ Upto(a) \in Seq(Nat) /\ Upto(b) \in Seq(Nat)
      /\ Len(Upto(a)) = a /\ Len(Upto(b)) = b
      /\ \A i \in 1..a : Upto(a)[i] = i
      /\ \A i \in 1..b : Upto(b)[i] = i
  BY DEF Upto
<1> HIDE DEF Upto
<1>2. ASSUME a <= b PROVE SubSeq(Upto(a), 1, a) = SubSeq(Upto(b), 1, a)
  <2> DEFINE s == SubSeq(Upto(a), 1, a)
             t == SubSeq(Upto(b), 1, a)
  <2>1. /\ 1 \in Int /\ a \in Int /\ \A i \in 1..a : Upto(a)[i] \in Nat /\ Upto(b)[i] \in Nat
    BY <1>1, <1>2
  <2>2. /\ s \in Seq(Nat)
        /\ Len(s) = IF 1 <= a THEN a - 1 + 1 ELSE 0
        /\ \A i \in 1..(a - 1 + 1) : s[i] = Upto(a)[1 + i - 1]
    BY <2>1, SubSeqProperties
  <2>3. /\ t \in Seq(Nat)
        /\ Len(t) = IF 1 <= a THEN a - 1 + 1 ELSE 0
        /\ \A i \in 1..(a - 1 + 1) : t[i] = Upto(b)[1 + i - 1]
    BY <2>1, SubSeqProperties
  <2> HIDE DEF s, t
  <2>4. Len(s) = a /\ Len(t) = a
    BY <2>2, <2>3
  <2>5. \A i \in 1..a : s[i] = t[i]
    BY <2>2, <2>3, <1>1, <1>2
  <2>6. s = t
    BY <2>2, <2>3, <2>4, <2>5, SeqEqual
  <2>. QED
    BY <2>6 DEF s, t
<1>3. a <= b => IsPrefix(Upto(a), Upto(b))
  BY <1>1, <1>2 DEF IsPrefix
<1>4. a < b => Upto(a) # Upto(b)
  BY <1>1
<1>. QED
  BY <1>1, <1>3, <1>4 DEF IsStrictPrefix

\* The server has written every byte of the messages before the one it is
\* writing.
LEMMA SentIs ==
    ASSUME IInv
    PROVE  /\ SentCount \in 0..Len(messages)
           /\ Sent = Upto(SentCount)
<1> DEFINE x == (buffer \o pending) \o socket
           n == SentCount
<1>1. /\ messages \in Seq(Message) /\ outbox \in Seq(Byte)
      /\ Len(messages) \in Nat /\ Len(handled) \in Nat
  BY DEF IInv, TypeInv
<1>2. x \in Seq(Byte) /\ Remainder(x \o outbox, messages, Len(handled))
  BY DEF IInv, TypeInv, Line
<1> HIDE DEF x
<1>3. n \in 0..Len(messages)
  <2>1. CASE outbox = <<>>
    BY <2>1, <1>1 DEF SentCount
  <2>2. CASE outbox # <<>>
    <3>1. /\ Len(outbox) \in Nat \ {0} /\ Head(outbox) = outbox[1]
          /\ Len(x) \in Nat /\ Len(x \o outbox) = Len(x) + Len(outbox)
          /\ x \o outbox \in Seq(Byte)
      BY <1>1, <1>2, <2>2
    <3> DEFINE j == Len(x) + 1
    <3>2. /\ j \in 1..(Len(x) + Len(outbox)) /\ ~(j <= Len(x)) /\ j - Len(x) = 1
          /\ j \in DOMAIN (x \o outbox)
      BY <3>1
    <3>3. (x \o outbox)[j] = outbox[1]
      BY <3>2, <1>1, <1>2, Joined
    <3> HIDE DEF j
    <3>4. outbox[1][1] \in (Len(handled) + 1)..Len(messages)
      BY <3>2, <3>3, <1>2 DEF Remainder
    <3>. QED
      BY <3>1, <3>4, <2>2, <1>1 DEF SentCount
  <2>. QED
    BY <2>1, <2>2
<1>4. Sent = SubSeq([k \in DOMAIN messages |-> k], 1, n)
  BY DEF Sent, SentCount
<1> HIDE DEF n
<1>5. [k \in DOMAIN messages |-> k] = Upto(Len(messages))
  BY <1>1 DEF Upto
<1>6. SubSeq(Upto(Len(messages)), 1, n) = SubSeq(Upto(n), 1, n)
  <2>1. IsPrefix(Upto(n), Upto(Len(messages))) /\ Len(Upto(n)) = n
    BY <1>1, <1>3, UptoPrefix
  <2>. QED
    BY <2>1 DEF IsPrefix
<1>7. SubSeq(Upto(n), 1, n) = Upto(n)
  <2>1. Upto(n) \in Seq(Nat) /\ Len(Upto(n)) = n
    BY <1>3 DEF Upto
  <2> HIDE DEF Upto
  <2>. QED
    BY <2>1, SubSeqFull
<1>. QED
  BY <1>3, <1>4, <1>5, <1>6, <1>7 DEF n

LEMMA HandledIs ==
    ASSUME TypeInv
    PROVE  Len(handled) \in Nat /\ handled = Upto(Len(handled))
<1>1. handled \in Seq(Nat) /\ Len(handled) \in Nat
  BY DEF TypeInv
<1>2. handled \in [1..Len(handled) -> Nat] /\ \A i \in 1..Len(handled) : handled[i] = i
  BY <1>1 DEF TypeInv
<1> DEFINE n == Len(handled)
<1> HIDE DEF n
<1>. QED
  BY <1>1, <1>2 DEF Upto

\* What a read takes: the messages that follow are handled, and the stream goes
\* on behind them.
LEMMA TakesFacts ==
    ASSUME IInv, UNCHANGED server, NEW filled \in Fill, NEW given,
           given # {}, Follow(given, filled.buffer, Len(handled)),
           pending' = filled.pending, socket' = filled.socket,
           buffer' = Rest(filled.buffer, Max(given)),
           handled' = handled \o InOrder(given)
    PROVE  /\ buffer' \in Seq(Byte) /\ Len(buffer') <= BufferSize
           /\ handled' \in Seq(Nat) /\ \A i \in 1..Len(handled') : handled'[i] = i
           /\ Len(handled) < Len(handled') /\ Len(handled') <= SentCount
           /\ Len(handled') <= Len(messages)
           /\ Remainder(Line', messages', Len(handled'))
<1> DEFINE h == Len(handled)
           M == Max(given)
           fb == filled.buffer
           fp == filled.pending
           fs == filled.socket
<1>1. /\ messages \in Seq(Message) /\ outbox \in Seq(Byte)
      /\ Len(messages) \in Nat /\ h \in Nat
      /\ messages' = messages /\ outbox' = outbox
  BY DEF IInv, TypeInv, server
<1>2. /\ fb \in Seq(Byte) /\ fp \in Seq(Byte) /\ fs \in Seq(Byte)
      /\ Len(fb) <= BufferSize
      /\ (fb \o fp) \o fs = (buffer \o pending) \o socket
  BY FillFacts DEF IInv
<1>3. M \in given /\ given = (h + 1)..M
  BY <1>1, WithoutGap DEF Follow
<1>4. M \in (h + 1)..Len(messages) /\ <<M, messages[M].len>> \in Range(fb)
  BY <1>3 DEF Follow
<1>5. Remainder(((fb \o fp) \o fs) \o outbox, messages, h)
  BY <1>2 DEF IInv, Line
<1> HIDE DEF fb, fp, fs, M
<1>6. PICK k \in DOMAIN fb : /\ fb[k] = <<M, messages[M].len>>
                             /\ Rest(fb, M) = SubSeq(fb, k + 1, Len(fb))
  BY <1>2, <1>4, RestIsSuffix
<1> DEFINE r == SubSeq(fb, k + 1, Len(fb))
<1>7. /\ r \in Seq(Byte) /\ Len(r) <= Len(fb)
      /\ Remainder(((r \o fp) \o fs) \o outbox, messages, M)
      /\ outbox # <<>> => Head(outbox)[1] > M
  BY <1>1, <1>2, <1>4, <1>5, <1>6, LineAfter
<1>8. buffer' = r /\ pending' = fp /\ socket' = fs
  BY <1>6 DEF fb, fp, fs, M
<1> HIDE DEF r
<1>9. Line' = ((r \o fp) \o fs) \o outbox
  BY <1>1, <1>8 DEF Line
<1>10. h < M /\ M \in Nat /\ M <= Len(messages)
  BY <1>1, <1>4
<1>11. InOrder(given) = [i \in 1..(M - h) |-> h + i]
  BY <1>1, <1>3, <1>10, InOrderOfInterval
<1>12. handled \in Seq(Nat) /\ \A i \in 1..h : handled[i] = i
  BY DEF IInv, TypeInv
<1>13. /\ handled' \in Seq(Nat) /\ Len(handled') = M
       /\ \A i \in 1..M : handled'[i] = i
  <2> DEFINE q == [i \in 1..(M - h) |-> h + i]
  <2>1. q \in Seq(Nat) /\ Len(q) = M - h /\ \A i \in 1..(M - h) : q[i] = h + i
    BY <1>1, <1>10
  <2>2. handled' = handled \o q
    BY <1>11
  <2> HIDE DEF q
  <2>3. /\ handled \o q \in Seq(Nat) /\ Len(handled \o q) = h + Len(q)
        /\ \A i \in 1..(h + Len(q)) :
              (handled \o q)[i] = IF i <= h THEN handled[i] ELSE q[i - h]
    BY <1>12, <2>1, ConcatProperties
  <2> HIDE DEF h
  <2>4. Len(handled \o q) = M /\ h + Len(q) = M
    BY <1>1, <1>10, <2>1, <2>3
  <2>5. \A i \in 1..M : (handled \o q)[i] = i
    <3> SUFFICES ASSUME NEW i \in 1..M PROVE (handled \o q)[i] = i
      OBVIOUS
    <3>1. (handled \o q)[i] = IF i <= h THEN handled[i] ELSE q[i - h]
      BY <2>3, <2>4
    <3>2. CASE i <= h
      <4>1. i \in 1..h
        BY <3>2, <1>1, <1>10
      <4>. QED
        BY <3>1, <3>2, <4>1, <1>12
    <3>3. CASE ~(i <= h)
      <4>1. i - h \in 1..(M - h) /\ h + (i - h) = i
        BY <3>3, <1>1, <1>10
      <4>2. q[i - h] = h + (i - h)
        BY <4>1, <2>1
      <4>. QED
        BY <3>1, <3>3, <4>1, <4>2
    <3>. QED
      BY <3>2, <3>3
  <2>. QED
    BY <2>2, <2>3, <2>4, <2>5
<1>14. M <= SentCount
  <2>1. CASE outbox = <<>>
    BY <2>1, <1>10 DEF SentCount
  <2>2. CASE outbox # <<>>
    <3>1. Head(outbox)[1] > M /\ Head(outbox)[1] \in Nat
      BY <2>2, <1>1, <1>7 DEF Byte
    <3>. QED
      BY <3>1, <2>2, <1>10 DEF SentCount
  <2>. QED
    BY <2>1, <2>2
<1>15. Len(r) <= BufferSize
  <2>1. Len(r) \in Nat /\ Len(fb) \in Nat /\ BufferSize \in Nat
    BY <1>2, <1>7, SuplReceiveAssumption
  <2>. QED
    BY <2>1, <1>2, <1>7
<1>. QED
  BY <1>1, <1>7, <1>8, <1>9, <1>10, <1>13, <1>14, <1>15

----------------------------------------------------------------------------
(***************************************************************************)
(* The steps                                                               *)
(***************************************************************************)
LEMMA InitIInv == Init => IInv
<1> SUFFICES ASSUME Init PROVE IInv
  OBVIOUS
<1>1. /\ messages = <<>> /\ outbox = <<>> /\ socket = <<>> /\ pending = <<>>
      /\ buffer = <<>> /\ handled = <<>> /\ limits = {}
  BY DEF Init
<1>2. BufferSize \in Nat
  BY SuplReceiveAssumption
<1>3. TypeInv
  <2>1. /\ tls \in BOOLEAN /\ closed \in BOOLEAN /\ connected \in BOOLEAN
        /\ phase \in {"handshake", "message", "disconnected", "error_only"}
    BY DEF Init
  <2>2. /\ Len(<<>>) = 0 /\ <<>> \in Seq(Message) /\ <<>> \in Seq(Byte)
        /\ <<>> \in Seq(Nat) /\ 1..0 = {}
    OBVIOUS
  <2>. QED
    BY <1>1, <1>2, <2>1, <2>2 DEF TypeInv
<1>4. Line = <<>>
  BY <1>1 DEF Line
<1>5. Remainder(<<>>, <<>>, 0)
  BY DEF Remainder
<1>. QED
  BY <1>1, <1>3, <1>4, <1>5 DEF IInv

LEMMA ReadPreserves ==
    ASSUME IInv, HandshakeRead \/ MessageRead
    PROVE  /\ IInv'
           /\ UNCHANGED server /\ phase \notin Ended
           /\ \/ UNCHANGED <<handled, phase>>
              \/ phase' \in Ended /\ UNCHANGED handled
              \/ Len(handled) < Len(handled') /\ Len(handled') <= SentCount
<1>1. /\ phase \in {"handshake", "message"}
      /\ UNCHANGED <<tls, server, connected, sender>>
      /\ \/ Disconnects
         \/ \E filled \in Fill : \E given \in {FirstOf(filled.buffer), Loop(filled.buffer)} :
               Takes(filled, given)
  BY ReadIs
<1>2. /\ phase \notin Ended
      /\ tls' = tls /\ connected' = connected /\ UNCHANGED server
      /\ messages' = messages /\ outbox' = outbox /\ closed' = closed
  BY <1>1 DEF server, Ended
<1>3. CASE Disconnects
  <2>1. /\ socket' = socket /\ limits' = limits /\ pending' = pending
        /\ buffer' = buffer /\ handled' = handled /\ phase' \in Ended
    BY <1>3 DEF Disconnects, kernel
  <2>2. TypeInv'
    BY <1>2, <2>1 DEF IInv, TypeInv, Ended
  <2>3. Line' = Line
    BY <1>2, <2>1 DEF Line
  <2>. QED
    BY <1>2, <2>1, <2>2, <2>3 DEF IInv
<1>4. ASSUME NEW filled \in Fill,
             NEW given \in {FirstOf(filled.buffer), Loop(filled.buffer)},
             Takes(filled, given)
      PROVE  /\ IInv'
             /\ \/ UNCHANGED <<handled, phase>>
                \/ Len(handled) < Len(handled') /\ Len(handled') <= SentCount
  <2>1. /\ filled.buffer \in Seq(Byte) /\ filled.pending \in Seq(Byte)
        /\ filled.socket \in Seq(Byte)
        /\ Len(filled.buffer) <= BufferSize
        /\ filled.limits \subseteq 1..Len(filled.socket)
        /\ ~tls => filled.pending = <<>>
        /\ (filled.buffer \o filled.pending) \o filled.socket
             = (buffer \o pending) \o socket
    BY FillFacts DEF IInv
  <2>2. /\ pending' = filled.pending /\ socket' = filled.socket
        /\ limits' = filled.limits
    BY <1>4 DEF Takes
  <2>3. CASE given = {}
    <3>1. buffer' = filled.buffer /\ handled' = handled /\ phase' = phase
      BY <1>4, <2>3 DEF Takes
    <3>2. TypeInv'
      BY <1>2, <2>1, <2>2, <3>1 DEF IInv, TypeInv
    <3>3. Line' = Line
      BY <1>2, <2>1, <2>2, <3>1 DEF Line
    <3>. QED
      BY <1>2, <3>1, <3>2, <3>3 DEF IInv
  <2>4. CASE given # {}
    <3>1. /\ buffer' = Rest(filled.buffer, Max(given))
          /\ handled' = handled \o InOrder(given)
          /\ phase' \in {"message"} \cup Ended
      BY <1>4, <2>4 DEF Takes
    <3>2. Follow(given, filled.buffer, Len(handled))
      <4> DEFINE b == filled.buffer
                 fp == filled.pending
                 fs == filled.socket
                 rest == (fp \o fs) \o outbox
      <4>1. /\ messages \in Seq(Message) /\ Len(handled) \in Nat
            /\ outbox \in Seq(Byte)
        BY DEF IInv, TypeInv
      <4>2. rest \in Seq(Byte) /\ fp \o fs \in Seq(Byte)
        BY <2>1, <4>1
      <4>3. ((b \o fp) \o fs) \o outbox = b \o rest
        <5>1. (b \o fp) \o fs = b \o (fp \o fs)
          BY <2>1, Associative
        <5>2. (b \o (fp \o fs)) \o outbox = b \o rest
          BY <2>1, <4>1, <4>2, Associative
        <5>. QED
          BY <5>1, <5>2
      <4>4. Remainder(b \o rest, messages, Len(handled))
        BY <2>1, <4>3 DEF IInv, Line
      <4> HIDE DEF rest
      <4>5. Follow(Loop(b), b, Len(handled))
        BY <2>1, <4>1, <4>2, <4>4, LoopFollow
      <4>6. Follow(FirstOf(b), b, Len(handled))
        BY <2>1, <4>1, <4>2, <4>4, FirstFollow
      <4>. QED
        BY <4>5, <4>6
    <3>3. /\ buffer' \in Seq(Byte) /\ Len(buffer') <= BufferSize
          /\ handled' \in Seq(Nat) /\ \A i \in 1..Len(handled') : handled'[i] = i
          /\ Len(handled) < Len(handled') /\ Len(handled') <= SentCount
          /\ Len(handled') <= Len(messages)
          /\ Remainder(Line', messages', Len(handled'))
      BY <1>2, <2>2, <2>4, <3>1, <3>2, TakesFacts
    <3>4. TypeInv'
      BY <1>2, <2>1, <2>2, <3>1, <3>3 DEF IInv, TypeInv, Ended
    <3>. QED
      BY <3>3, <3>4 DEF IInv
  <2>. QED
    BY <2>3, <2>4
<1>. QED
  BY <1>1, <1>2, <1>3, <1>4 DEF Disconnects

LEMMA ServerSendsPreserves ==
    ASSUME IInv, ServerSends
    PROVE  /\ IInv' /\ SentCount' = SentCount
           /\ UNCHANGED <<handled, phase>>
<1>1. /\ tls' = tls /\ socket' = socket /\ limits' = limits /\ pending' = pending
      /\ buffer' = buffer /\ handled' = handled /\ phase' = phase
      /\ connected' = connected /\ closed' = closed
  BY DEF ServerSends, kernel
<1>2. PICK kind \in Kinds, len \in Lengths :
         /\ messages' = Append(messages, [kind |-> kind, len |-> len])
         /\ outbox' = outbox \o [k \in 1..len |-> <<Len(messages) + 1, k>>]
  BY DEF ServerSends
<1> DEFINE new == [kind |-> kind, len |-> len]
           c == Len(messages) + 1
           bytes == [k \in 1..len |-> <<c, k>>]
           x == (buffer \o pending) \o socket
<1>3. /\ messages \in Seq(Message) /\ outbox \in Seq(Byte) /\ handled \in Seq(Nat)
      /\ Len(handled) \in 0..Len(messages) /\ Len(messages) \in Nat
      /\ Remainder(x \o outbox, messages, Len(handled)) /\ x \in Seq(Byte)
  BY DEF IInv, TypeInv, Line
<1>4. new \in Message /\ new.len = len /\ len \in Nat \ {0}
  BY SuplReceiveAssumption DEF Message
<1>5. /\ bytes \in Seq(Byte)
      /\ Remainder((x \o outbox) \o bytes, Append(messages, new), Len(handled))
  <2> HIDE DEF x, new
  <2>. QED
    BY <1>3, <1>4, NextMessage
<1>6. Len(bytes) = len /\ bytes[1] = <<c, 1>>
  BY <1>4
<1> HIDE DEF bytes, new, x
<1>7. messages' = Append(messages, new) /\ outbox' = outbox \o bytes
  BY <1>2 DEF bytes, new
<1>8. /\ messages' \in Seq(Message) /\ Len(messages') = Len(messages) + 1
      /\ outbox' \in Seq(Byte)
  BY <1>3, <1>4, <1>5, <1>7
<1>9. Line' = (x \o outbox) \o bytes
  <2>1. Line' = x \o (outbox \o bytes)
    BY <1>1, <1>7 DEF Line, x
  <2>. QED
    BY <2>1, <1>3, <1>5, Associative
<1>10. TypeInv'
  <2>1. Len(handled) <= Len(messages')
    BY <1>3, <1>8
  <2>. QED
    BY <1>1, <1>8, <2>1 DEF IInv, TypeInv
<1>11. IInv'
  BY <1>1, <1>5, <1>7, <1>9, <1>10 DEF IInv
<1>12. SentCount' = SentCount
  <2>1. Len(outbox) \in Nat /\ len \in Nat \ {0}
    BY <1>3, <1>4
  <2>2. Len(outbox') = Len(outbox) + len
    BY <1>3, <1>5, <1>6, <1>7, ConcatProperties
  <2>3. outbox' # <<>> /\ Head(outbox') = outbox'[1]
    BY <1>8, <2>1, <2>2
  <2>4. CASE outbox = <<>>
    <3>1. outbox' = bytes
      BY <1>5, <1>7, <2>4, ConcatEmptySeq
    <3>2. Head(outbox')[1] = c
      BY <3>1, <2>3, <1>6
    <3>. QED
      BY <3>2, <2>3, <2>4, <1>3 DEF SentCount
  <2>5. CASE outbox # <<>>
    <3>1. Len(outbox) \in Nat \ {0} /\ Head(outbox) = outbox[1]
      BY <2>5, <1>3
    <3>2. 1 \in 1..(Len(outbox) + Len(bytes)) /\ 1 <= Len(outbox)
      BY <3>1, <2>1, <1>6
    <3>3. outbox'[1] = outbox[1]
      BY <3>2, <1>3, <1>5, <1>7, Joined
    <3>. QED
      BY <3>1, <3>3, <2>3, <2>5 DEF SentCount
  <2>. QED
    BY <2>4, <2>5
<1>. QED
  BY <1>1, <1>11, <1>12

LEMMA ServerWritesPreserves ==
    ASSUME IInv, ServerWrites
    PROVE  /\ IInv' /\ SentCount <= SentCount'
           /\ UNCHANGED <<handled, phase>>
<1>1. /\ tls' = tls /\ messages' = messages /\ pending' = pending
      /\ buffer' = buffer /\ handled' = handled /\ phase' = phase
      /\ connected' = connected /\ closed' = closed
  BY DEF ServerWrites
<1>2. /\ messages \in Seq(Message) /\ outbox \in Seq(Byte) /\ socket \in Seq(Byte)
      /\ buffer \in Seq(Byte) /\ pending \in Seq(Byte)
      /\ Len(outbox) \in Nat /\ Len(socket) \in Nat
      /\ limits \subseteq 1..Len(socket)
      /\ Remainder(Line, messages, Len(handled))
  BY DEF IInv, TypeInv
<1>3. PICK n \in 1..Least(RecordSize, Least(Len(outbox), SocketSize - Len(socket))) :
         /\ socket' = socket \o SubSeq(outbox, 1, n)
         /\ limits' = (IF tls THEN limits ELSE {}) \cup {Len(socket) + n}
         /\ outbox' = SubSeq(outbox, n + 1, Len(outbox))
  BY DEF ServerWrites
<1>4. n \in 1..Len(outbox) /\ n \in 0..Len(outbox)
  BY <1>2, SuplReceiveAssumption DEF Least
<1> DEFINE first == SubSeq(outbox, 1, n)
           rest == SubSeq(outbox, n + 1, Len(outbox))
           bp == buffer \o pending
<1>5. first \in Seq(Byte) /\ Len(first) = n
  <2>1. /\ 1 \in Int /\ n \in Int /\ \A i \in 1..n : outbox[i] \in Byte
    BY <1>2, <1>4
  <2>2. first \in Seq(Byte) /\ Len(first) = IF 1 <= n THEN n - 1 + 1 ELSE 0
    BY <2>1, SubSeqProperties
  <2> HIDE DEF first
  <2>. QED
    BY <2>2, <1>4
<1>6. /\ rest \in Seq(Byte) /\ Len(rest) = Len(outbox) - n
      /\ \A i \in 1..(Len(outbox) - n) : rest[i] = outbox[n + i]
  BY <1>2, <1>4, Suffix
<1>7. first \o rest = outbox
  <2>1. /\ 1 \in 1..(Len(outbox) + 1) /\ n \in (1 - 1)..Len(outbox)
        /\ Len(outbox) \in n..Len(outbox)
    BY <1>2, <1>4
  <2>2. first \o rest = SubSeq(outbox, 1, Len(outbox))
    BY <1>2, <2>1, ConcatAdjacentSubSeq
  <2>. QED
    BY <1>2, <2>2, SubSeqFull
<1> HIDE DEF first, rest
<1>8. socket' = socket \o first /\ outbox' = rest
  BY <1>3 DEF first, rest
<1>9. bp \in Seq(Byte) /\ bp \o socket \in Seq(Byte)
  BY <1>2
<1>10. Line' = Line
  <2>1. Line' = (bp \o (socket \o first)) \o rest
    BY <1>1, <1>8 DEF Line
  <2>2. Line = (bp \o socket) \o (first \o rest)
    BY <1>7 DEF Line
  <2> HIDE DEF bp
  <2>3. bp \o (socket \o first) = (bp \o socket) \o first
    <3>1. bp \in Seq(Byte) /\ socket \in Seq(Byte) /\ first \in Seq(Byte)
      BY <1>2, <1>5, <1>9
    <3>. QED
      BY <3>1, Associative
  <2>4. ((bp \o socket) \o first) \o rest = (bp \o socket) \o (first \o rest)
    BY <1>5, <1>6, <1>9, Associative
  <2>. QED
    BY <2>1, <2>2, <2>3, <2>4
<1>11. TypeInv'
  <2>1. /\ socket' \in Seq(Byte) /\ Len(socket') = Len(socket) + n
        /\ outbox' \in Seq(Byte)
    BY <1>2, <1>5, <1>6, <1>8, ConcatProperties
  <2>2. limits' \subseteq 1..Len(socket')
    <3>1. limits' \subseteq limits \cup {Len(socket) + n}
      BY <1>3
    <3>2. /\ n \in Nat /\ n >= 1 /\ Len(socket) + n \in 1..(Len(socket) + n)
          /\ 1..Len(socket) \subseteq 1..(Len(socket) + n)
      BY <1>2, <1>4
    <3>3. limits' \subseteq 1..(Len(socket) + n)
      BY <3>1, <3>2, <1>2
    <3>. QED
      BY <3>3, <2>1
  <2>. QED
    BY <1>1, <2>1, <2>2 DEF IInv, TypeInv
<1>12. IInv'
  BY <1>1, <1>10, <1>11 DEF IInv
<1>13. SentCount <= SentCount'
  <2>1. SentCount \in 0..Len(messages)
    BY SentIs
  <2>2. CASE rest = <<>>
    <3>1. SentCount' = Len(messages)
      BY <2>2, <1>1, <1>8 DEF SentCount
    <3>. QED
      BY <2>1, <3>1
  <2>3. CASE rest # <<>>
    <3> DEFINE w == bp \o socket
               i == Len(w) + 1
               j == Len(w) + (n + 1)
    <3>1. /\ w \in Seq(Byte) /\ Len(w) \in Nat /\ Line = w \o outbox
          /\ Len(w \o outbox) = Len(w) + Len(outbox) /\ w \o outbox \in Seq(Byte)
      BY <1>2, <1>9, ConcatProperties DEF Line
    <3>2. Len(rest) \in Nat \ {0} /\ n + 1 \in 1..Len(outbox) /\ outbox # <<>>
      BY <2>3, <1>2, <1>4, <1>6
    <3> HIDE DEF w
    <3>3. /\ i \in 1..(Len(w) + Len(outbox)) /\ ~(i <= Len(w)) /\ i - Len(w) = 1
          /\ j \in 1..(Len(w) + Len(outbox)) /\ ~(j <= Len(w)) /\ j - Len(w) = n + 1
          /\ i < j
      BY <3>1, <3>2, <1>4
    <3>4. (w \o outbox)[i] = outbox[1] /\ (w \o outbox)[j] = outbox[n + 1]
      <4> HIDE DEF i, j
      <4>1. (w \o outbox)[i] = outbox[i - Len(w)]
        BY <3>1, <3>3, <1>2, Joined
      <4>2. (w \o outbox)[j] = outbox[j - Len(w)]
        BY <3>1, <3>3, <1>2, Joined
      <4>. QED
        BY <3>3, <4>1, <4>2
    <3>5. i \in DOMAIN Line /\ j \in DOMAIN Line
      BY <3>1, <3>3
    <3>6. Before(outbox[1], outbox[n + 1])
      <4>1. Before(Line[i], Line[j])
        <5> HIDE DEF i, j
        <5>. QED
          BY <3>3, <3>5, <1>2 DEF Remainder
      <4>. QED
        BY <3>1, <3>4, <4>1
    <3>7. outbox[1] \in Byte /\ outbox[n + 1] \in Byte
      BY <1>2, <1>4, <3>2
    <3>8. outbox[1][1] <= outbox[n + 1][1]
      BY <3>6, <3>7 DEF Before, Byte
    <3>9. rest[1] = outbox[n + 1]
      BY <1>4, <1>6, <3>2
    <3>10. Head(outbox) = outbox[1] /\ Head(rest) = rest[1]
      BY <1>2, <1>6, <3>2, <2>3
    <3>11. SentCount = outbox[1][1] - 1 /\ SentCount' = outbox[n + 1][1] - 1
      BY <3>2, <3>9, <3>10, <1>8, <2>3 DEF SentCount
    <3>. QED
      BY <3>7, <3>8, <3>11 DEF Byte
  <2>. QED
    BY <2>2, <2>3
<1>. QED
  BY <1>1, <1>12, <1>13

\* The other steps do not touch the stream.
LEMMA RestPreserves ==
    ASSUME IInv,
           ServerReads \/ ServerCloses \/ Sends \/ SendsSome \/ SendFails \/ UNCHANGED vars
    PROVE  /\ IInv' /\ SentCount' = SentCount
           /\ UNCHANGED <<handled, phase>>
<1>1. /\ tls' = tls /\ messages' = messages /\ outbox' = outbox
      /\ socket' = socket /\ limits' = limits /\ pending' = pending
      /\ buffer' = buffer /\ handled' = handled /\ phase' = phase
  BY DEF ServerReads, ServerCloses, Sends, SendsSome, SendFails, vars, server, kernel
<1>2. closed' \in BOOLEAN /\ connected' \in BOOLEAN
  BY DEF ServerReads, ServerCloses, Sends, SendsSome, SendFails, vars, server, IInv,
         TypeInv
<1>3. Line' = Line
  BY <1>1 DEF Line
<1>4. TypeInv'
  BY <1>1, <1>2 DEF IInv, TypeInv
<1>. QED
  BY <1>1, <1>3, <1>4 DEF IInv, SentCount

\* The line of bytes is what the server's stream has left after the messages
\* handled, in every state.
THEOREM SpecIInv == Spec => []IInv
<1>1. IInv /\ [Next]_vars => IInv'
  <2> SUFFICES ASSUME IInv, [Next]_vars PROVE IInv'
    OBVIOUS
  <2>1. CASE ServerSends
    BY <2>1, ServerSendsPreserves
  <2>2. CASE ServerWrites
    BY <2>2, ServerWritesPreserves
  <2>3. CASE ReadEvent \/ EarlyEvent
    BY <2>3, ReadPreserves DEF ReadEvent, EarlyEvent
  <2>4. CASE ServerReads \/ ServerCloses \/ Sends \/ SendsSome \/ SendFails \/ UNCHANGED vars
    BY <2>4, RestPreserves
  <2>. QED
    BY <2>1, <2>2, <2>3, <2>4 DEF Next
<1>. QED
  BY InitIInv, <1>1, PTL DEF Spec

\* Every step is a step of MessageFifo, or changes nothing it speaks of.
LEMMA StepSimulation ==
    ASSUME IInv, IInv', [Next]_vars
    PROVE  [Fifo!Next]_(Fifo!vars)
<1> DEFINE h == Len(handled)
           n == SentCount
           open == phase \notin Ended
<1>1. /\ n \in Nat /\ Sent = Upto(n)
      /\ n' \in Nat /\ Sent' = Upto(n')
  <2>1. SentCount \in 0..Len(messages) /\ Sent = Upto(SentCount)
    BY SentIs
  <2>2. (SentCount \in 0..Len(messages) /\ Sent = Upto(SentCount))'
    BY SentIs, PTL
  <2>. QED
    BY <2>1, <2>2
<1>2. /\ h \in Nat /\ handled = Upto(h)
      /\ h' \in Nat /\ handled' = Upto(h')
  <2>1. Len(handled) \in Nat /\ handled = Upto(Len(handled))
    BY HandledIs DEF IInv
  <2>2. (Len(handled) \in Nat /\ handled = Upto(Len(handled)))'
    BY HandledIs, PTL DEF IInv
  <2>. QED
    BY <2>1, <2>2
<1>3. /\ n <= n' => IsPrefix(Upto(n), Upto(n'))
      /\ n < n' => IsStrictPrefix(Upto(n), Upto(n'))
  BY <1>1, UptoPrefix
<1>4. /\ h < h' => IsStrictPrefix(Upto(h), Upto(h'))
      /\ h' <= n => IsPrefix(Upto(h'), Upto(n))
  BY <1>1, <1>2, UptoPrefix
<1> HIDE DEF n, h
<1>5. ASSUME n' = n, UNCHANGED <<handled, phase>>
      PROVE  UNCHANGED Fifo!vars
  BY <1>1, <1>5 DEF Fifo!vars
<1>6. CASE ServerSends
  BY <1>5, <1>6, ServerSendsPreserves DEF n
<1>7. CASE ServerWrites
  <2>1. n <= n' /\ UNCHANGED <<handled, phase>>
    BY <1>7, ServerWritesPreserves DEF n
  <2>2. CASE n < n'
    <3>1. IsStrictPrefix(Sent, Sent')
      BY <2>2, <1>1, <1>3
    <3>2. handled' = handled /\ phase' = phase
      BY <2>1
    <3>3. Fifo!Send
      BY <3>1, <3>2 DEF Fifo!Send, IsStrictPrefix, IsPrefix,
            Fifo!IsStrictPrefix, Fifo!IsPrefix
    <3>. QED
      BY <3>3 DEF Fifo!Next
  <2>3. CASE n' = n
    BY <2>1, <2>3, <1>5
  <2>. QED
    BY <2>1, <2>2, <2>3, <1>1
<1>8. CASE ReadEvent \/ EarlyEvent
  <2>1. /\ UNCHANGED server /\ phase \notin Ended
        /\ \/ UNCHANGED <<handled, phase>>
           \/ phase' \in Ended /\ UNCHANGED handled
           \/ h < h' /\ h' <= n
    BY <1>8, ReadPreserves DEF ReadEvent, EarlyEvent, h, n
  <2>2. n' = n
    BY <2>1 DEF server, n, SentCount
  <2>3. Sent' = Sent
    BY <2>2, <1>1
  <2>4. CASE UNCHANGED <<handled, phase>>
    BY <2>2, <2>4, <1>5
  <2>5. CASE phase' \in Ended /\ UNCHANGED handled
    BY <2>1, <2>3, <2>5 DEF Fifo!Next, Fifo!Close
  <2>6. CASE h < h' /\ h' <= n
    <3>1. IsStrictPrefix(handled, handled') /\ IsPrefix(handled', Sent)
      BY <2>6, <1>1, <1>2, <1>4
    <3>2. (phase' \notin Ended) \in BOOLEAN
      OBVIOUS
    <3>3. Fifo!Handle
      BY <2>1, <2>3, <3>1, <3>2 DEF Fifo!Handle, IsStrictPrefix, IsPrefix,
            Fifo!IsStrictPrefix, Fifo!IsPrefix
    <3>. QED
      BY <3>3 DEF Fifo!Next
  <2>. QED
    BY <2>1, <2>4, <2>5, <2>6
<1>9. CASE ServerReads \/ ServerCloses \/ Sends \/ SendsSome \/ SendFails \/ UNCHANGED vars
  BY <1>5, <1>9, RestPreserves DEF n
<1>. QED
  BY <1>6, <1>7, <1>8, <1>9 DEF Next

LEMMA InitSimulation == Init => Fifo!Init
<1> SUFFICES ASSUME Init PROVE Fifo!Init
  OBVIOUS
<1>1. IInv /\ messages = <<>> /\ outbox = <<>>
  BY InitIInv DEF Init
<1>2. SentCount = 0
  BY <1>1 DEF SentCount
<1>3. Sent = Upto(0)
  BY <1>1, <1>2, SentIs
<1>4. Upto(0) = <<>>
  BY DEF Upto
<1>. QED
  BY <1>3, <1>4 DEF Init, Fifo!Init, Ended

\* Messages are handled in order, each once, however the stream is cut into
\* records and reads: fill_receive_buffer, parse_receive_buffer and the loops of
\* the states that read implement a queue of messages.
THEOREM SuplReceiveImplementsFifo == Spec => ImplementsFifo
<1>1. Init => Fifo!Init
  BY InitSimulation
<1>2. IInv /\ IInv' /\ [Next]_vars => [Fifo!Next]_(Fifo!vars)
  BY StepSimulation
<1>. QED
  BY <1>1, <1>2, SpecIInv, PTL DEF Spec, ImplementsFifo, Fifo!Spec
============================================================================
