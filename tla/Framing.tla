-------------------------------- MODULE Framing --------------------------------
(***************************************************************************)
(* The parsers that find messages in a stream of bytes: the ring buffer of *)
(* format::helper::Parser, try_parse of UBX, RTCM, NMEA and the control    *)
(* format and process of AT over it, and process_input, which appends what *)
(* was read and takes messages until it gets none.                         *)
(*                                                                         *)
(* A byte is [v |-> its value, of |-> <<frame, position>>]: the values a   *)
(* parser looks at are named, a checksum and a length are one byte each.   *)
(* Checksums are perfect: the one of a candidate holds if and only if the  *)
(* bytes are those of a frame that was sent.                               *)
(***************************************************************************)
EXTENDS Integers, Sequences, SequencesExt, FiniteSetsExt, Functions

CONSTANTS
    Capacity,   \* mBufferCapacity
    MaxLine,    \* how far the end of a line is looked for (128; AT 120)
    MaxPayload, \* bound: length of the payload of a frame
    MaxItems    \* bound: frames and stray bytes in the stream

ASSUME FramingAssumption ==
    /\ Capacity \in Nat \ {0} /\ MaxLine \in Nat \ {0}
    /\ MaxPayload \in Nat /\ MaxItems \in Nat

VARIABLES
    format, \* which parser
    frames, \* the lengths of the frames in the stream, by number
    refused, \* the frames that the parser of their message makes nothing of
    input,  \* what has not been read yet
    parser, \* helper::Parser
    pushed, \* the frames given to the program, in order
    lost    \* frames of which append overwrote or refused a byte, and lines
            \* that begin after one

vars == <<format, frames, refused, input, parser, pushed, lost>>

Formats == {"ubx", "rtcm", "nmea", "ctrl", "at"}
Lines == {"ctrl", "at"}

\* The formats in which a frame without an error may still give no message: a
\* decoder of UBX that refuses the payload, a sentence of NMEA with another
\* prefix or without data, a control line with another command or other fields.
Refusing == {"ubx", "nmea", "ctrl"}

\* Bytes that parsers look for: the start of a frame (B5, D3, $, /), the second
\* byte of the boundary of UBX (62), the end of a line; a checksum; any other.
\* A byte up to MaxPayload is one that a length may be.
Start == 200
Second == 201
Cr == 202
Lf == 203
Sum == 204
Other == 205

Stray(v) == [v |-> v, of |-> <<0, 0>>]

----------------------------------------------------------------------------
(***************************************************************************)
(* The ring buffer                                                         *)
(***************************************************************************)
buffer_length(p) ==
    IF p.write >= p.read THEN p.write - p.read ELSE Capacity - p.read + p.write

available_space(p) == Capacity - buffer_length(p) - 1

\* What peek and copy_to_buffer see.
Content(p) ==
    [k \in 1..buffer_length(p) |-> p.ring[(p.read + k - 1) % Capacity]]

\* append: the oldest bytes make room, but more than the capacity is refused.
append(p, bytes) ==
    IF Len(bytes) > Capacity THEN p
    ELSE LET end == (p.write + Len(bytes)) % Capacity
         IN  [ring |-> [i \in 0..(Capacity - 1) |->
                          LET k == (i - p.write) % Capacity
                          IN  IF k < Len(bytes) THEN bytes[k + 1] ELSE p.ring[i]],
              write |-> end,
              read |-> IF Len(bytes) > available_space(p) THEN (end + 1) % Capacity
                       ELSE p.read]

skip(p, n) ==
    [p EXCEPT !.read = (@ + Min({n, buffer_length(p)})) % Capacity]

Frames(bytes) == {b.of[1] : b \in Range(bytes)} \ {0}

----------------------------------------------------------------------------
(***************************************************************************)
(* try_parse: how many bytes it skips, the frame it gives, or 0, and       *)
(* whether its caller goes on.                                             *)
(***************************************************************************)
Nothing(n) == [skip |-> n, frame |-> 0, more |-> FALSE]
Gives(n, frame) == [skip |-> n, frame |-> frame, more |-> TRUE]

\* A frame found without an error is skipped whether its message is refused or
\* given; a refused one gives nullptr, as if there was no message.
Decoded(n, frame) == IF frame \in refused THEN Nothing(n) ELSE Gives(n, frame)

\* The bytes are those of one frame, from its first to its last, so that the
\* checksum holds.
Intact(bytes) ==
    /\ \A k \in DOMAIN bytes : bytes[k].of = <<bytes[1].of[1], k>>
    /\ bytes[1].of[1] # 0

\* Where a search for the start of a frame ends, in bytes skipped.
Search(b, From(_)) == Min({k \in 0..Len(b) : From(k) \/ k = Len(b)})

\* Mutants of the next operator: a candidate whose checksum is wrong is skipped
\* whole; one whose length is too large is not skipped; one that is right is
\* left in the buffer.
CandidateSkipped(n, rest, at, size, resync) ==
    IF rest[at].v \notin 0..MaxPayload THEN Nothing(n + resync)
    ELSE LET length == size + rest[at].v
         IN  IF Len(rest) < length THEN Nothing(n)
             ELSE IF ~Intact(SubSeq(rest, 1, length)) THEN Nothing(n + length)
             ELSE Decoded(n + length, rest[1].of[1])

CandidateStuck(n, rest, at, size, resync) ==
    IF rest[at].v \notin 0..MaxPayload THEN Nothing(n)
    ELSE LET length == size + rest[at].v
         IN  IF Len(rest) < length THEN Nothing(n)
             ELSE IF ~Intact(SubSeq(rest, 1, length)) THEN Nothing(n + resync)
             ELSE Decoded(n + length, rest[1].of[1])

CandidateKept(n, rest, at, size, resync) ==
    IF rest[at].v \notin 0..MaxPayload THEN Nothing(n + resync)
    ELSE LET length == size + rest[at].v
         IN  IF Len(rest) < length THEN Nothing(n)
             ELSE IF ~Intact(SubSeq(rest, 1, length)) THEN Nothing(n + resync)
             ELSE Decoded(n, rest[1].of[1])

\* With the start of a frame at the front of rest: its length is that of the
\* header and trailer, size, and of the payload, which byte `at' tells.
Candidate(n, rest, at, size, resync) ==
    IF rest[at].v \notin 0..MaxPayload THEN Nothing(n + resync)
    ELSE LET length == size + rest[at].v
         IN  IF Len(rest) < length THEN Nothing(n)
             ELSE IF ~Intact(SubSeq(rest, 1, length)) THEN Nothing(n + resync)
             ELSE Decoded(n + length, rest[1].of[1])

Drop(b, n) == SubSeq(b, n + 1, Len(b))

\* ubx::Parser: two bytes of boundary, and nothing is looked at before there
\* are as many bytes as the shortest frame has.
UbxSize == 4

UbxParse(b) ==
    LET n == Search(b, LAMBDA k : \/ Len(b) - k < UbxSize
                                  \/ b[k + 1].v = Start /\ b[k + 2].v = Second)
        rest == Drop(b, n)
    IN  IF Len(rest) < UbxSize THEN Nothing(n)
        ELSE Candidate(n, rest, 3, UbxSize, 2)

\* rtcm::Parser.
RtcmSize == 3

RtcmParse(b) ==
    LET n == Search(b, LAMBDA k : k < Len(b) /\ b[k + 1].v = Start)
        rest == Drop(b, n)
    IN  IF Len(rest) < 2 THEN Nothing(n)
        ELSE Candidate(n, rest, 2, RtcmSize, 1)

\* nmea::Parser: up to the end of the line, or to the start of another
\* sentence.  (The variant mLfOnly differs in the length of the line's end.)
NmeaParse(b) ==
    LET n == Search(b, LAMBDA k : k < Len(b) /\ b[k + 1].v = Start)
        rest == Drop(b, n)
        End(l) == rest[l + 1].v = Cr /\ rest[l + 2].v = Lf
        Again(l) == rest[l + 1].v = Start
        stops == {l \in 1..(Len(rest) - 2) : End(l) \/ Again(l)}
        l == Min(stops)
    IN  IF stops = {} THEN Nothing(n)
        ELSE IF ~End(l) THEN Nothing(n + l)
        ELSE IF ~Intact(SubSeq(rest, 1, l + 2)) THEN Nothing(n + 1)
        ELSE Decoded(n + l + 2, rest[1].of[1])

EndsLine(b, l) == b[l + 1].v = Cr /\ b[l + 2].v = Lf

\* ctrl::Parser: from a slash to the end of its line, if that is not too far.
\* What is not a line that was sent is no command it knows and gives nothing.
CtrlParse(b) ==
    LET n == Search(b, LAMBDA k : k < Len(b) /\ b[k + 1].v = Start)
        rest == Drop(b, n)
        stops == {l \in 1..Min({MaxLine, Len(rest) - 1}) :
                    \/ rest[l + 1].v = Lf
                    \/ l + 2 <= Len(rest) /\ EndsLine(rest, l)}
        l == Min(stops)
        length == IF rest[l + 1].v = Lf THEN l + 1 ELSE l + 2
    IN  IF rest = <<>> THEN Nothing(n)
        ELSE IF stops # {}
        THEN IF Intact(SubSeq(rest, 1, length)) THEN Decoded(n + length, rest[1].of[1])
             ELSE Nothing(n + length)
        ELSE Nothing(n + (IF Len(rest) > MaxLine THEN MaxLine + 1 ELSE 0))

\* One turn of at::Parser::process: every line is given, whatever it holds.
AtParse(b) ==
    LET stops == {l \in 0..(MaxLine + 1) : l + 2 <= Len(b) /\ EndsLine(b, l)}
        l == Min(stops)
    IN  IF stops # {}
        THEN Gives(l + 2, IF Intact(SubSeq(b, 1, l + 2)) THEN b[1].of[1] ELSE 0)
        ELSE Nothing(IF Len(b) > MaxLine + 1 THEN MaxLine + 1 ELSE 0)

try_parse(b) ==
    CASE format = "ubx"  -> UbxParse(b)
      [] format = "rtcm" -> RtcmParse(b)
      [] format = "nmea" -> NmeaParse(b)
      [] format = "ctrl" -> CtrlParse(b)
      [] format = "at"   -> AtParse(b)

\* The loop of process_input: calls until one gives no frame.
Parse(b) ==
    LET after[k \in 0..Len(b)] ==
          IF k = 0 THEN [skip |-> 0, frames |-> <<>>, more |-> TRUE]
          ELSE LET acc == after[k - 1]
                   got == try_parse(Drop(b, acc.skip))
               IN  IF ~acc.more THEN acc
                   ELSE [skip |-> acc.skip + got.skip,
                         frames |-> acc.frames \o
                                    (IF got.frame = 0 THEN <<>> ELSE <<got.frame>>),
                         more |-> got.more]
    IN  after[Len(b)]

----------------------------------------------------------------------------
(***************************************************************************)
(* The stream                                                              *)
(***************************************************************************)
FrameBytes(f, payload) ==
    LET n == Len(payload)
    IN  CASE f = "ubx"  -> <<Start, Second, n>> \o payload \o <<Sum>>
          [] f = "rtcm" -> <<Start, n>> \o payload \o <<Sum>>
          [] f = "nmea" -> <<Start>> \o payload \o <<Sum, Cr, Lf>>
          [] f = "ctrl" -> <<Start>> \o payload \o <<Other, Lf>>
          [] f = "at"   -> payload \o <<Other, Cr, Lf>>

\* A payload may hold any byte, but for NMEA those that end a sentence.
Payloads(f) ==
    SeqOf(IF f = "nmea" THEN {Other} ELSE {Start, Other}, MaxPayload)

Strays(f) ==
    {Start, Other} \cup
    (CASE f = "ubx" -> {Second, 1} [] f = "rtcm" -> {1} [] OTHER -> {Cr, Lf})

\* Frames, frames with an error in them, and stray bytes.
Items(f) ==
    {[ok |-> ok, v |-> FrameBytes(f, p)] : ok \in BOOLEAN, p \in Payloads(f)} \cup
    {[ok |-> FALSE, v |-> <<v>>] : v \in Strays(f)}

\* In the formats of lines what comes before a frame on its line spoils it: a
\* frame is one that begins the stream or follows another, good or not.
Begins(f, items, i) == f \in Lines => i = 1 \/ Len(items[i - 1].v) > 1

Bytes(items) ==
    FlattenSeq([i \in DOMAIN items |->
                  [k \in DOMAIN items[i].v |->
                     IF items[i].ok THEN [v |-> items[i].v[k], of |-> <<i, k>>]
                     ELSE Stray(items[i].v[k])]])

Init ==
    /\ format \in Formats
    /\ \E items \in [1..MaxItems -> Items(format)] :
         /\ input = Bytes(items)
         /\ frames = [i \in {j \in 1..MaxItems :
                             items[j].ok /\ Begins(format, items, j)} |->
                        Len(items[i].v)]
         /\ refused \in SUBSET {i \in 1..MaxItems : items[i].ok /\ format \in Refusing}
    /\ parser = [ring |-> [i \in 0..(Capacity - 1) |-> Stray(Other)],
                 read |-> 0, write |-> 0]
    /\ pushed = <<>>
    /\ lost = {}

\* process_input with the next n bytes.
process_input(n) ==
    LET bytes == SubSeq(input, 1, n)
        filled == append(parser, bytes)
        parsed == Parse(Content(filled))
        left == Content(parser) \o bytes
        gone == IF filled = parser THEN bytes
                ELSE SubSeq(left, 1, Len(left) - buffer_length(filled))
        next == Frames((IF filled = parser THEN <<>> ELSE Drop(left, Len(gone)))
                       \o Drop(input, n)) \ Frames(gone)
    IN  /\ input' = Drop(input, n)
        /\ parser' = skip(filled, parsed.skip)
        /\ pushed' = pushed \o parsed.frames
        /\ lost' = lost \cup Frames(gone) \cup
                   (IF gone = <<>> \/ format \notin Lines \/ next = {} THEN {}
                    ELSE {Min(next)})
        /\ UNCHANGED <<format, frames, refused>>

Next == \E n \in 1..Len(input) : process_input(n)

Spec == Init /\ [][Next]_vars

----------------------------------------------------------------------------
(***************************************************************************)
(* Properties                                                              *)
(***************************************************************************)
\* Frames are given in the order of the stream and none twice, however it is
\* cut into reads, and whatever the ring buffer has overwritten.
PushedInOrder ==
    \A i, j \in DOMAIN pushed : i < j => pushed[i] < pushed[j]

\* Every frame has been given, or is still there to the last byte, or was
\* refused as a message and is gone to the last byte, unless the ring buffer was
\* full: what a parser skips to find its way in a stream with errors, or with a
\* message it refuses, is never part of another frame.
Left(f) == {b.of[2] : b \in {c \in Range(Content(parser) \o input) : c.of[1] = f}}

EveryFrameIsAccountedFor ==
    \A f \in DOMAIN frames :
        \/ f \in Range(pushed) \cup lost
        \/ Left(f) = 1..frames[f]
        \/ f \in refused /\ Left(f) = {}

\* While a whole frame waits in the buffer, a call of try_parse makes progress,
\* unless a candidate at the front claims more bytes than there are.
Claims(b) ==
    CASE format = "ubx"  -> Len(b) >= UbxSize /\ b[3].v \in 0..MaxPayload
                            /\ Len(b) < UbxSize + b[3].v
      [] format = "rtcm" -> Len(b) >= 2 /\ b[2].v \in 0..MaxPayload
                            /\ Len(b) < RtcmSize + b[2].v
      [] OTHER -> FALSE

NeverStuck ==
    LET b == Content(parser)
        whole == {f \in DOMAIN frames :
                    {c.of[2] : c \in {d \in Range(b) : d.of[1] = f}} = 1..frames[f]}
    IN  whole # {} => try_parse(b).skip > 0 \/ Claims(b)

================================================================================
