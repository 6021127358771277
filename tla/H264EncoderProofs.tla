------------------------- MODULE H264EncoderProofs --------------------------
(***************************************************************************)
(* Proofs about the path of a frame through the encoder, for any number of *)
(* frames, writers, losses and failures: what the attribute queue holds    *)
(* and which frame a sample finds in it.                                   *)
(***************************************************************************)
EXTENDS H264Encoder, Integers, TLAPS

-----------------------------------------------------------------------------
(* Sequences.                                                              *)

\* What Tail leaves.
LEMMA TailFacts ==
  ASSUME NEW S, NEW s \in Seq(S), s # <<>>
  PROVE  /\ Tail(s) \in Seq(S) /\ Len(Tail(s)) = Len(s) - 1 /\ Len(s) \in Nat /\ Len(s) > 0
         /\ Head(s) = s[1] /\ Head(s) \in S
         /\ \A i \in DOMAIN Tail(s) : i + 1 \in DOMAIN s /\ Tail(s)[i] = s[i + 1]
  OBVIOUS

\* A suffix.
LEMMA SuffixFacts ==
  ASSUME NEW S, NEW s \in Seq(S), NEW m \in 1 .. Len(s) + 1
  PROVE  LET t == SubSeq(s, m, Len(s))
         IN  /\ t \in Seq(S) /\ Len(t) = Len(s) + 1 - m
             /\ \A i \in DOMAIN t : i + m - 1 \in DOMAIN s /\ t[i] = s[i + m - 1]
  OBVIOUS

\* One more element.
LEMMA AppendFacts ==
  ASSUME NEW S, NEW s \in Seq(S), NEW e \in S
  PROVE  /\ Append(s, e) \in Seq(S) /\ Len(Append(s, e)) = Len(s) + 1 /\ Len(s) \in Nat
         /\ DOMAIN Append(s, e) = 1 .. Len(s) + 1 /\ DOMAIN s = 1 .. Len(s)
         /\ \A i \in DOMAIN s : Append(s, e)[i] = s[i]
         /\ Append(s, e)[Len(s) + 1] = e
  OBVIOUS

\* The elements of a sequence, and the empty sequence.
LEMMA ElementFacts ==
  ASSUME NEW S, NEW s \in Seq(S)
  PROVE  /\ Len(s) \in Nat /\ DOMAIN s = 1 .. Len(s) /\ \A i \in DOMAIN s : s[i] \in S
  OBVIOUS

\* The empty sequence has no elements.
LEMMA EmptyFacts ==
  ASSUME NEW S
  PROVE  <<>> \in Seq(S) /\ Len(<<>>) = 0 /\ DOMAIN <<>> = {}
  OBVIOUS

\* The entries of a queue.
LEMMA QueueFacts ==
  ASSUME NEW q \in Seq(Entry)
  PROVE  /\ Len(q) \in Nat /\ DOMAIN q = 1 .. Len(q)
         /\ \A i \in DOMAIN q : q[i].id \in Nat /\ q[i].frame \in Nat
<1>1. Len(q) \in Nat /\ DOMAIN q = 1 .. Len(q) /\ \A i \in DOMAIN q : q[i] \in Entry
  BY ElementFacts
<1>2. \A e \in Entry : e.id \in Nat /\ e.frame \in Nat
  BY DEF Entry
<1>3. QED
  BY <1>1, <1>2

-----------------------------------------------------------------------------
(* Arithmetic of the timestamps.                                           *)

\* Two naturals less than R apart lie in the same block of R or in adjacent
\* ones.
LEMMA Blocks ==
  ASSUME NEW a \in Int, NEW b \in Int, NEW R \in Nat \ {0},
         NEW c \in 0 .. R - 1, NEW d \in 0 .. R - 1,
         R * a + c <= R * b + d, R * b + d < R * a + c + R
  PROVE  b = a \/ b = a + 1
<1>1. CASE b < a
  <2>1. PICK k \in Int : b = a - 1 - k /\ k >= 0
    BY <1>1
  <2>2. R * k >= 0
    BY <2>1
  <2>3. R * b = R * a - R - R * k
    BY <2>1
  <2>4. QED
    BY <2>2, <2>3
<1>2. CASE b > a + 1
  <2>1. PICK k \in Int : b = a + 2 + k /\ k >= 0
    BY <1>2
  <2>2. R * k >= 0
    BY <2>1
  <2>3. R * b = R * a + R + R + R * k
    BY <2>1
  <2>4. QED
    BY <2>2, <2>3
<1>3. QED
  BY <1>1, <1>2

\* The residue follows the number, with at most one wrap.
LEMMA Residues ==
  ASSUME NEW x \in Nat, NEW y \in Nat, NEW R \in Nat \ {0}, x <= y, y < x + R
  PROVE  \/ y % R = (x % R) + (y - x)
         \/ y % R = (x % R) + (y - x) - R
<1> DEFINE a == x \div R
           b == y \div R
           c == x % R
           d == y % R
<1>1. a \in Int /\ b \in Int /\ c \in 0 .. R - 1 /\ d \in 0 .. R - 1
  OBVIOUS
<1>2. x = R * a + c /\ y = R * b + d
  OBVIOUS
<1> HIDE DEF a, b, c, d
<1>3. b = a \/ b = a + 1
  BY <1>1, <1>2, Blocks
<1>4. R * (a + 1) = R * a + R
  BY <1>1
<1>5. d = c + (y - x) \/ d = c + (y - x) - R
  BY <1>1, <1>2, <1>3, <1>4
<1>6. QED
  BY <1>5 DEF c, d

\* A timestamp is an RTP timestamp.
LEMMA TimestampType == ASSUME NEW f \in Nat PROVE Timestamp(f) \in 0 .. RtpModulus - 1
  BY EncoderAssumption DEF Timestamp

\* The timestamp of a later frame is ahead by the frames in between, unless
\* it has wrapped.
LEMMA TimestampStep ==
  ASSUME NEW e \in Nat, NEW f \in Nat, e <= f, f < e + RtpModulus
  PROVE  \/ Timestamp(f) = Timestamp(e) + (f - e)
         \/ Timestamp(f) = Timestamp(e) + (f - e) - RtpModulus
<1> DEFINE x == FirstTimestamp + e
           y == FirstTimestamp + f
<1>1. /\ x \in Nat /\ y \in Nat /\ RtpModulus \in Nat \ {0}
      /\ x <= y /\ y < x + RtpModulus /\ y - x = f - e
  BY EncoderAssumption
<1> HIDE DEF x, y
<1>2. \/ y % RtpModulus = (x % RtpModulus) + (y - x)
      \/ y % RtpModulus = (x % RtpModulus) + (y - x) - RtpModulus
  BY <1>1, Residues
<1>3. QED
  BY <1>1, <1>2 DEF Timestamp, x, y

\* A small number is its own residue, and the next block folds back.
LEMMA SmallResidue ==
  ASSUME NEW m \in Nat, NEW x \in Nat
  PROVE  /\ x < m => x % m = x
         /\ m <= x /\ x < m + m => x % m = x - m
<1>1. CASE x < m
  BY <1>1
<1>2. CASE m <= x /\ x < m + m
  <2>1. m \in Nat \ {0} /\ x - m \in Nat /\ x - m < m
    BY <1>2
  <2>2. (x - m) % m = x - m
    BY <2>1
  <2>3. QED
    BY <1>2, <2>1, <2>2
<1>3. QED
  BY <1>1, <1>2

\* The time of a sample: what the frame is after the first one, and near
\* the top of the range once the RTP timestamp has wrapped.
LEMMA SampleTime ==
  ASSUME NEW f \in Nat, NEW s \in 0 .. RtpModulus - 1
  PROVE  /\ GetFrameTimestampHns(f, s) \in Nat
         /\ Timestamp(f) >= s => GetFrameTimestampHns(f, s) = Timestamp(f) - s
         /\ Timestamp(f) < s => GetFrameTimestampHns(f, s) = IdModulus + Timestamp(f) - s
<1> DEFINE t == Timestamp(f)
<1>1. t \in 0 .. RtpModulus - 1
  BY TimestampType
<1> HIDE DEF t
<1>2. IdModulus \in Nat /\ IdModulus + t - s \in Nat /\ RtpModulus \in Nat /\ IdModulus > 0
      /\ IdModulus >= 2 * RtpModulus
  BY <1>1, EncoderAssumption
<1>3. CASE t >= s
  <2>1. IdModulus <= IdModulus + t - s /\ IdModulus + t - s < IdModulus + IdModulus
    BY <1>1, <1>2, <1>3
  <2>2. (IdModulus + t - s) % IdModulus = t - s
    BY <1>1, <1>2, <2>1, SmallResidue
  <2>3. QED
    BY <1>1, <1>2, <1>3, <2>2 DEF GetFrameTimestampHns, t
<1>4. CASE t < s
  <2>1. IdModulus + t - s < IdModulus
    BY <1>1, <1>2, <1>4
  <2>2. (IdModulus + t - s) % IdModulus = IdModulus + t - s
    BY <1>1, <1>2, <2>1, SmallResidue
  <2>3. QED
    BY <1>1, <1>2, <1>4, <2>2 DEF GetFrameTimestampHns, t
<1>5. QED
  BY <1>1, <1>3, <1>4

\* The range of the RTP timestamp is not used up: fewer than 2^32 ticks pass.
NoFullCycle == MaxFrames < RtpModulus

\* The order of the sample times is the order of the frames, a wrap of the
\* RTP timestamp in between or not: what the loop of pop relies on.
LEMMA TimesFollowFrames ==
  ASSUME NoFullCycle, NEW f0 \in Nat, NEW f \in Nat, NEW h \in Nat,
         f0 <= f, f < h, h <= MaxFrames
  PROVE  GetFrameTimestampHns(f, Timestamp(f0)) < GetFrameTimestampHns(h, Timestamp(f0))
<1> DEFINE T0 == Timestamp(f0)
           T == Timestamp(f)
           U == Timestamp(h)
           A == GetFrameTimestampHns(f, T0)
           B == GetFrameTimestampHns(h, T0)
<1>1. /\ RtpModulus \in Nat \ {0} /\ MaxFrames \in Nat /\ MaxFrames < RtpModulus
      /\ IdModulus \in Nat /\ IdModulus >= 2 * RtpModulus
  BY EncoderAssumption DEF NoFullCycle
<1>2. T0 \in 0 .. RtpModulus - 1 /\ T \in 0 .. RtpModulus - 1 /\ U \in 0 .. RtpModulus - 1
  BY TimestampType
<1>3. T = T0 + (f - f0) \/ T = T0 + (f - f0) - RtpModulus
  BY <1>1, TimestampStep
<1>4. U = T0 + (h - f0) \/ U = T0 + (h - f0) - RtpModulus
  BY <1>1, TimestampStep
<1>5. U = T + (h - f) \/ U = T + (h - f) - RtpModulus
  BY <1>1, TimestampStep
<1>6. /\ A \in Nat /\ B \in Nat
      /\ T >= T0 => A = T - T0
      /\ T < T0 => A = IdModulus + T - T0
      /\ U >= T0 => B = U - T0
      /\ U < T0 => B = IdModulus + U - T0
  BY <1>2, SampleTime
<1> HIDE DEF T0, T, U, A, B
<1>7. A < B
  BY <1>1, <1>2, <1>3, <1>4, <1>5, <1>6
<1>8. QED
  BY <1>7 DEF A, B, T0

-----------------------------------------------------------------------------
(* pop().  Three entries at most, so that the first of them that is not     *)
(* smaller is found by cases.                                              *)

Answers(q, id, p) == q[p].id >= id /\ \A j \in 1 .. p - 1 : q[j].id < id

\* The loop of pop stops at an entry, or empties the queue.
LEMMA PopCases ==
  ASSUME NEW q \in Seq(Entry), Len(q) <= 3, NEW id \in Nat
  PROVE  \/ Pop(q, id) = [found |-> FALSE, frame |-> 0, queue |-> <<>>]
         \/ \E p \in DOMAIN q :
              /\ Answers(q, id, p)
              /\ Pop(q, id) =
                   [found |-> TRUE, frame |-> q[p].frame,
                    queue |-> SubSeq(q, IF q[p].id = id THEN p + 1 ELSE p, Len(q))]
<1>1. Len(q) \in Nat /\ DOMAIN q = 1 .. Len(q) /\ \A i \in DOMAIN q : q[i].id \in Nat
  BY QueueFacts
<1>2. CASE \A i \in DOMAIN q : q[i].id < id
  BY <1>2 DEF Pop
<1>3. CASE ~(\A i \in DOMAIN q : q[i].id < id)
  <2>1. \E p \in DOMAIN q : Answers(q, id, p)
    <3>1. PICK k \in DOMAIN q : q[k].id >= id
      BY <1>1, <1>3
    <3>2. k \in 1 .. 3
      BY <1>1
    <3>3. CASE 1 \in DOMAIN q /\ q[1].id >= id
      BY <3>3 DEF Answers
    <3>4. CASE 2 \in DOMAIN q /\ q[2].id >= id /\ q[1].id < id
      BY <3>4 DEF Answers
    <3>5. CASE 3 \in DOMAIN q /\ q[3].id >= id /\ q[2].id < id /\ q[1].id < id
      BY <3>5 DEF Answers
    <3>6. QED
      BY <1>1, <3>1, <3>2, <3>3, <3>4, <3>5
  <2> DEFINE p == CHOOSE i \in DOMAIN q :
                    q[i].id >= id /\ \A j \in 1 .. (i - 1) : q[j].id < id
  <2>2. p \in DOMAIN q /\ Answers(q, id, p)
    BY <2>1 DEF Answers
  <2>3. Pop(q, id) = [found |-> TRUE, frame |-> q[p].frame,
                      queue |-> SubSeq(q, IF q[p].id = id THEN p + 1 ELSE p, Len(q))]
    BY <1>3 DEF Pop
  <2> HIDE DEF p
  <2>4. QED
    BY <2>2, <2>3
<1>4. QED
  BY <1>2, <1>3

\* What pop returns and leaves.
LEMMA PopType ==
  ASSUME NEW q \in Seq(Entry), Len(q) <= 3, NEW id \in Nat
  PROVE  /\ Pop(q, id).found \in BOOLEAN /\ Pop(q, id).frame \in Nat
         /\ Pop(q, id).queue \in Seq(Entry) /\ Len(Pop(q, id).queue) <= 3
         /\ \E m \in Nat : \A i \in DOMAIN Pop(q, id).queue :
              i + m \in DOMAIN q /\ Pop(q, id).queue[i] = q[i + m]
<1>1. CASE Pop(q, id) = [found |-> FALSE, frame |-> 0, queue |-> <<>>]
  BY <1>1, EmptyFacts
<1>2. CASE \E p \in DOMAIN q :
              /\ Answers(q, id, p)
              /\ Pop(q, id) =
                   [found |-> TRUE, frame |-> q[p].frame,
                    queue |-> SubSeq(q, IF q[p].id = id THEN p + 1 ELSE p, Len(q))]
  <2>1. PICK p \in DOMAIN q :
              Pop(q, id) =
                   [found |-> TRUE, frame |-> q[p].frame,
                    queue |-> SubSeq(q, IF q[p].id = id THEN p + 1 ELSE p, Len(q))]
    BY <1>2
  <2>2. PICK m \in 1 .. Len(q) + 1 : Pop(q, id).queue = SubSeq(q, m, Len(q))
    <3>1. Pop(q, id).queue = SubSeq(q, IF q[p].id = id THEN p + 1 ELSE p, Len(q))
      BY <2>1
    <3>2. p \in 1 .. Len(q) + 1 /\ p + 1 \in 1 .. Len(q) + 1
      BY QueueFacts
    <3>3. QED
      BY <3>1, <3>2
  <2>3. Pop(q, id).found = TRUE /\ Pop(q, id).frame \in Nat
    BY <2>1, QueueFacts
  <2> DEFINE t == SubSeq(q, m, Len(q))
  <2>4. /\ t \in Seq(Entry) /\ Len(t) = Len(q) + 1 - m /\ Len(q) \in Nat
        /\ \A i \in DOMAIN t : i + m - 1 \in DOMAIN q /\ t[i] = q[i + m - 1]
    BY SuffixFacts, ElementFacts
  <2> HIDE DEF t
  <2>5. m - 1 \in Nat /\ \A i \in DOMAIN t : i + (m - 1) \in DOMAIN q /\ t[i] = q[i + (m - 1)]
    BY <2>4, ElementFacts
  <2>6. t = Pop(q, id).queue /\ Len(t) <= 3
    BY <2>2, <2>4 DEF t
  <2>7. QED
    BY <2>3, <2>4, <2>5, <2>6
<1>3. QED
  BY <1>1, <1>2, PopCases

\* Times that increase along the queue.
Ordered(q) == \A i, j \in DOMAIN q : i < j => q[i].id < q[j].id

\* Nothing that stays in an ordered queue is as old as the sample.
LEMMA PopLeavesLater ==
  ASSUME NEW q \in Seq(Entry), Len(q) <= 3, NEW id \in Nat, Ordered(q)
  PROVE  \A i \in DOMAIN Pop(q, id).queue : Pop(q, id).queue[i].id > id
<1>1. CASE Pop(q, id) = [found |-> FALSE, frame |-> 0, queue |-> <<>>]
  BY <1>1, EmptyFacts
<1>2. CASE \E p \in DOMAIN q :
              /\ Answers(q, id, p)
              /\ Pop(q, id) =
                   [found |-> TRUE, frame |-> q[p].frame,
                    queue |-> SubSeq(q, IF q[p].id = id THEN p + 1 ELSE p, Len(q))]
  <2>1. PICK p \in DOMAIN q :
              /\ Answers(q, id, p)
              /\ Pop(q, id) =
                   [found |-> TRUE, frame |-> q[p].frame,
                    queue |-> SubSeq(q, IF q[p].id = id THEN p + 1 ELSE p, Len(q))]
    BY <1>2
  <2> DEFINE m == IF q[p].id = id THEN p + 1 ELSE p
             t == SubSeq(q, m, Len(q))
  <2>2. Len(q) \in Nat /\ DOMAIN q = 1 .. Len(q) /\ \A i \in DOMAIN q : q[i].id \in Nat
    BY QueueFacts
  <2>3. m \in 1 .. Len(q) + 1
    BY <2>2
  <2>4. \A i \in DOMAIN q : i >= m => q[i].id > id
    <3>1. CASE q[p].id = id
      BY <2>1, <2>2, <3>1 DEF Ordered
    <3>2. CASE q[p].id # id
      <4>1. q[p].id > id /\ m = p
        BY <2>1, <2>2, <3>2 DEF Answers
      <4>2. QED
        BY <2>2, <4>1 DEF Ordered
    <3>3. QED
      BY <3>1, <3>2
  <2>5. t = Pop(q, id).queue
    BY <2>1
  <2> HIDE DEF m
  <2>6. t \in Seq(Entry) /\ \A i \in DOMAIN t : i + m - 1 \in DOMAIN q /\ t[i] = q[i + m - 1]
    BY <2>3, SuffixFacts
  <2> HIDE DEF t
  <2>7. \A i \in DOMAIN t : t[i].id > id
    BY <2>2, <2>3, <2>4, <2>6, ElementFacts
  <2>8. QED
    BY <2>5, <2>7
<1>3. QED
  BY <1>1, <1>2, PopCases

\* A sample whose entry is cached gets that entry, and only the entries up
\* to it are taken away.
LEMMA PopFinds ==
  ASSUME NEW q \in Seq(Entry), Len(q) <= 3, Ordered(q), NEW k \in DOMAIN q
  PROVE  /\ Pop(q, q[k].id).found /\ Pop(q, q[k].id).frame = q[k].frame
         /\ \A i \in DOMAIN q : i > k =>
              \E j \in DOMAIN Pop(q, q[k].id).queue : Pop(q, q[k].id).queue[j] = q[i]
<1> DEFINE id == q[k].id
<1>1. Len(q) \in Nat /\ DOMAIN q = 1 .. Len(q) /\ \A i \in DOMAIN q : q[i].id \in Nat
  BY QueueFacts
<1>2. id \in Nat
  BY <1>1
<1>3. PICK p \in DOMAIN q :
              /\ Answers(q, id, p)
              /\ Pop(q, id) =
                   [found |-> TRUE, frame |-> q[p].frame,
                    queue |-> SubSeq(q, IF q[p].id = id THEN p + 1 ELSE p, Len(q))]
  <2>1. Pop(q, id) # [found |-> FALSE, frame |-> 0, queue |-> <<>>]
    BY <1>1 DEF Pop
  <2>2. QED
    BY <1>2, <2>1, PopCases
<1>4. p = k
  BY <1>1, <1>3 DEF Answers, Ordered
<1> DEFINE t == SubSeq(q, k + 1, Len(q))
<1>5. Pop(q, id).found /\ Pop(q, id).frame = q[k].frame /\ Pop(q, id).queue = t
  BY <1>3, <1>4
<1>6. /\ t \in Seq(Entry) /\ Len(t) = Len(q) + 1 - (k + 1)
      /\ \A i \in DOMAIN t : i + (k + 1) - 1 \in DOMAIN q /\ t[i] = q[i + (k + 1) - 1]
  BY <1>1, SuffixFacts
<1> HIDE DEF t, id
<1>7. ASSUME NEW i \in DOMAIN q, i > k PROVE \E j \in DOMAIN t : t[j] = q[i]
  <2>1. DOMAIN t = 1 .. Len(t) /\ i - k \in DOMAIN t
    BY <1>1, <1>6, <1>7, ElementFacts
  <2>2. t[i - k] = q[i]
    BY <1>1, <1>6, <2>1
  <2>3. QED
    BY <2>1, <2>2
<1>8. QED
  BY <1>5, <1>7 DEF id

-----------------------------------------------------------------------------
(* Types, one kind at a time.                                              *)

FlagType ==
  /\ inited \in BOOLEAN /\ initFailed \in BOOLEAN /\ firstFrame \in BOOLEAN
  /\ callback \in BOOLEAN /\ tempCallback \in BOOLEAN /\ registered \in BOOLEAN
  /\ latePop \in BOOLEAN /\ crashed \in BOOLEAN

Encoding == pc \in {"requestKeyFrame", "makeSample", "writeSample"}
Rebuilding == pc \in {"shutdownSink", "restoreCallback", "initWriter"}

PlainType ==
  /\ pc = "idle" \/ Encoding \/ Rebuilding
  /\ purpose \in {"encode", "setRates", "release"}
  /\ writer \in {"none", "begun", "broken"}

NumberType ==
  /\ frame \in 0 .. MaxFrames /\ generation \in 0 .. MaxGenerations
  /\ losses \in Nat /\ writeFailures \in Nat
  /\ startTime \in 0 .. RtpModulus - 1

QueueType == attributes \in Seq(Entry) /\ Len(attributes) <= 3

Calls == [stage : {"none", "entered", "popped"}, id : Nat, frame : Nat, attr : Nat]
Images == [frame : Nat, attr : Nat]
ChannelType == channel \in [Generations -> Seq(Entry)]
CallType == call \in [Generations -> Calls] /\ delivered \in Seq(Images)

TypeInv == FlagType /\ PlainType /\ NumberType /\ QueueType /\ ChannelType /\ CallType

\* The parts together are the type invariant of the model.
LEMMA TypeParts == TypeInv => TypeOK
<1> SUFFICES ASSUME TypeInv PROVE TypeOK
  OBVIOUS
<1>1. startTime \in Nat
  BY EncoderAssumption DEF TypeInv, NumberType
<1>2. QED
  BY <1>1 DEF TypeInv, FlagType, PlainType, Encoding, Rebuilding, NumberType, QueueType,
     Calls, Images, ChannelType, CallType, TypeOK

\* Initially nothing has been encoded.
LEMMA TypeInitial == Init => TypeInv
<1> SUFFICES ASSUME Init PROVE TypeInv
  OBVIOUS
<1>1. FlagType /\ PlainType
  BY DEF Init, FlagType, PlainType
<1>2. NumberType
  BY EncoderAssumption DEF Init, NumberType
<1>3. QueueType /\ ChannelType
  BY EmptyFacts DEF Init, QueueType, ChannelType
<1>4. CallType
  BY EmptyFacts DEF Init, CallType, NoCall, Calls
<1>5. QED
  BY <1>1, <1>2, <1>3, <1>4 DEF TypeInv

\* The time of the sample that Encode makes, from the first frame on.
LEMMA StartFacts ==
  ASSUME NumberType, NEW start, start = IF firstFrame THEN Timestamp(frame) ELSE startTime
  PROVE  /\ start \in 0 .. RtpModulus - 1
         /\ GetFrameTimestampHns(frame, start) \in Nat
<1>1. frame \in Nat
  BY EncoderAssumption DEF NumberType
<1>2. start \in 0 .. RtpModulus - 1
  BY <1>1, TimestampType DEF NumberType
<1>3. QED
  BY <1>1, <1>2, SampleTime

\* The steps of the requests and of the encoder thread that touch neither
\* the queue nor the samples.
Quiet ==
  RegisterEncodeCompleteCallback \/ RestoreCallback \/ RequestKeyFrame \/ DropFrame
    \/ WriteSampleUnready \/ UNCHANGED vars
Advance == EncodeUninitialized \/ EncodeSameWriter
Clear == Release \/ EncodeReconfigure \/ SetRatesReconfigure
Build == InitEncode \/ RebuildWriter
Deliver(g) == DiscardSample(g) \/ OnEncodedImage(g)

\* Every step is of one of these kinds.
LEMMA Kinds ==
  ASSUME [Next]_vars
  PROVE  \/ Quiet \/ Advance \/ Clear \/ Build \/ ShutdownSink \/ FromVideoFrame \/ WriteSample
         \/ EmptySample
         \/ \E g \in Generations :
              LoseSample(g) \/ EncodedSample(g) \/ PopAttributes(g) \/ Deliver(g)
  BY DEF Next, EncoderThread, Requests, OnH264Encoded, Quiet, Advance, Clear, Build, Deliver

\* What a quiet step leaves alone.
LEMMA QuietFrame ==
  ASSUME Quiet
  PROVE  /\ UNCHANGED <<frame, inited, writer, generation, initFailed, startTime, firstFrame,
                        attributes, channel, call, delivered, latePop, losses>>
         /\ purpose' = purpose
<1> USE DEF threadVars, writerVars, timeVars, callbackVars, faultVars, sinkVars
<1>1. CASE RegisterEncodeCompleteCallback \/ RestoreCallback
  BY <1>1 DEF RegisterEncodeCompleteCallback, RestoreCallback
<1>2. CASE RequestKeyFrame \/ DropFrame \/ WriteSampleUnready
  BY <1>2 DEF RequestKeyFrame, DropFrame, WriteSampleUnready
<1>3. CASE UNCHANGED vars
  BY <1>3 DEF vars
<1>4. QED
  BY <1>1, <1>2, <1>3 DEF Quiet

\* What the next frame leaves alone.
LEMMA AdvanceFrame ==
  ASSUME Advance
  PROVE  /\ UNCHANGED <<purpose, inited, writer, generation, initFailed, startTime, firstFrame,
                        attributes, callback, tempCallback, registered, channel, call, delivered,
                        latePop, losses, writeFailures, crashed>>
         /\ frame < MaxFrames /\ frame' = frame + 1
         /\ pc = "idle" /\ pc' \in {"idle", "requestKeyFrame"}
         /\ pc' = "requestKeyFrame" => inited
         /\ ~crashed
  BY DEF Advance, EncodeUninitialized, EncodeSameWriter, At, threadVars, writerVars, timeVars,
     callbackVars, faultVars, sinkVars

\* What ReleaseWriter does and leaves alone.
LEMMA ClearFrame ==
  ASSUME Clear
  PROVE  /\ UNCHANGED <<generation, initFailed, registered, channel, call, delivered, latePop,
                        losses, writeFailures, crashed>>
         /\ frame' = frame \/ (frame < MaxFrames /\ frame' = frame + 1)
         /\ writer' = "none" /\ inited' = FALSE /\ startTime' = 0 /\ firstFrame' = TRUE
         /\ attributes' = <<>> /\ callback' = FALSE
         /\ pc = "idle" /\ pc' = "shutdownSink" /\ ~crashed
         /\ \/ purpose' = "release" /\ tempCallback' = tempCallback
            \/ purpose' \in {"encode", "setRates"} /\ tempCallback' = callback
  BY DEF Clear, Release, EncodeReconfigure, SetRatesReconfigure, ReleaseWriter, At, threadVars,
     writerVars, timeVars, callbackVars, faultVars, sinkVars

\* What building a writer does and leaves alone.
LEMMA BuildFrame ==
  ASSUME Build
  PROVE  /\ UNCHANGED <<purpose, frame, startTime, firstFrame, attributes, callback, tempCallback,
                        registered, channel, call, delivered, latePop, losses, writeFailures,
                        crashed>>
         /\ generation < MaxGenerations /\ generation' = generation + 1
         /\ \/ inited' = TRUE /\ writer' = "begun" /\ initFailed' = initFailed
            \/ writer' \in {"none", "broken"} /\ initFailed' = TRUE /\ inited' = inited
         /\ \/ pc = "idle" /\ pc' = "idle" /\ ~inited
            \/ pc = "initWriter" /\ pc' \in {"requestKeyFrame", "idle"}
         /\ ~crashed
  BY DEF Build, InitEncode, RebuildWriter, InitWriter, At, threadVars, writerVars, timeVars,
     callbackVars, faultVars, sinkVars

\* What making a sample does and leaves alone.
LEMMA MakeFrame ==
  ASSUME FromVideoFrame
  PROVE  /\ UNCHANGED <<purpose, frame, inited, writer, generation, initFailed, callback,
                        tempCallback, registered, channel, call, delivered, latePop, losses,
                        writeFailures, crashed>>
         /\ startTime' = (IF firstFrame THEN Timestamp(frame) ELSE startTime)
         /\ firstFrame' = FALSE
         /\ attributes' = Append(attributes,
                                 [id |-> GetFrameTimestampHns(frame, startTime'), frame |-> frame])
         /\ Len(attributes) <= 2
         /\ pc = "makeSample" /\ pc' = "writeSample" /\ ~crashed
  BY DEF FromVideoFrame, Push, At, threadVars, writerVars, timeVars, callbackVars, faultVars,
     sinkVars

\* What a sample without a buffer does and leaves alone.
LEMMA EmptyFrame ==
  ASSUME EmptySample
  PROVE  /\ UNCHANGED <<purpose, frame, inited, writer, generation, initFailed, callback,
                        tempCallback, registered, attributes, channel, call, delivered, latePop,
                        losses, writeFailures>>
         /\ startTime' = (IF firstFrame THEN Timestamp(frame) ELSE startTime)
         /\ firstFrame' = FALSE
         /\ pc = "makeSample" /\ pc' \in {"makeSample", "idle"} /\ ~crashed
         /\ crashed' = crashed \/ (crashed' = TRUE /\ writer = "none")
  BY DEF EmptySample, At, threadVars, writerVars, timeVars, callbackVars, faultVars, sinkVars

\* What writing a sample does and leaves alone.
LEMMA WriteFrame ==
  ASSUME WriteSample
  PROVE  /\ UNCHANGED <<purpose, frame, inited, writer, generation, initFailed, startTime,
                        firstFrame, attributes, callback, tempCallback, registered, call,
                        delivered, latePop, losses, crashed>>
         /\ \/ /\ channel' = [channel EXCEPT ![generation] =
                                Append(@, [id |-> GetFrameTimestampHns(frame, startTime),
                                           frame |-> frame])]
               /\ writeFailures' = writeFailures
            \/ channel' = channel /\ writeFailures' = writeFailures + 1
         /\ writer = "begun" /\ pc = "writeSample" /\ pc' = "idle" /\ ~crashed
  BY DEF WriteSample, At, threadVars, writerVars, timeVars, callbackVars, faultVars, sinkVars

\* What Shutdown does and leaves alone.
LEMMA ShutdownFrame ==
  ASSUME ShutdownSink
  PROVE  /\ UNCHANGED <<purpose, frame, inited, writer, generation, initFailed, startTime,
                        firstFrame, attributes, callback, tempCallback, call, delivered, latePop,
                        losses, writeFailures, crashed>>
         /\ channel' = [g \in Generations |-> <<>>]
         /\ pc = "shutdownSink" /\ ~crashed
         /\ \/ purpose = "release" /\ pc' = "idle"
            \/ purpose # "release" /\ pc' = "restoreCallback"
  BY DEF ShutdownSink, At, threadVars, writerVars, timeVars, callbackVars, faultVars, sinkVars

\* What the steps outside the encoder thread leave alone.
LEMMA SinkFrame ==
  ASSUME NEW g \in Generations,
         LoseSample(g) \/ EncodedSample(g) \/ PopAttributes(g) \/ Deliver(g)
  PROVE  UNCHANGED <<pc, purpose, frame, inited, writer, generation, initFailed, startTime,
                     firstFrame, callback, tempCallback, registered, writeFailures, crashed>>
  BY DEF LoseSample, EncodedSample, PopAttributes, Deliver, DiscardSample, OnEncodedImage,
     threadVars, writerVars, timeVars, callbackVars, faultVars, sinkVars

\* A sample is lost.
LEMMA LoseFrame ==
  ASSUME NEW g \in Generations, LoseSample(g)
  PROVE  /\ UNCHANGED <<attributes, call, delivered, latePop>>
         /\ losses' = losses + 1
         /\ channel[g] # <<>> /\ channel' = [channel EXCEPT ![g] = Tail(@)]
  BY DEF LoseSample, sinkVars

\* A sample reaches OnH264Encoded.
LEMMA EnterFrame ==
  ASSUME NEW g \in Generations, EncodedSample(g)
  PROVE  /\ UNCHANGED <<attributes, delivered, latePop, losses>>
         /\ call[g].stage = "none"
         /\ channel[g] # <<>> /\ channel' = [channel EXCEPT ![g] = Tail(@)]
         /\ call' = [call EXCEPT ![g] = [stage |-> "entered", id |-> Head(channel[g]).id,
                                         frame |-> Head(channel[g]).frame, attr |-> 0]]
  BY DEF EncodedSample, faultVars

\* The attributes are looked up.
LEMMA PopFrame ==
  ASSUME NEW g \in Generations, PopAttributes(g)
  PROVE  /\ UNCHANGED <<channel, delivered, losses>>
         /\ call[g].stage = "entered"
         /\ attributes' = Pop(attributes, call[g].id).queue
         /\ call' = [call EXCEPT ![g] =
                       IF Pop(attributes, call[g].id).found
                         THEN [@ EXCEPT !.stage = "popped",
                                        !.attr = Pop(attributes, call[g].id).frame]
                         ELSE NoCall]
         /\ latePop' = (latePop \/ g # generation \/ writer = "none")
  BY DEF PopAttributes, faultVars

\* The image is delivered, or not.
LEMMA DeliverFrame ==
  ASSUME NEW g \in Generations, Deliver(g)
  PROVE  /\ UNCHANGED <<attributes, channel, latePop, losses>>
         /\ call[g].stage = "popped"
         /\ call' = [call EXCEPT ![g] = NoCall]
         /\ \/ delivered' = delivered
            \/ /\ callback
               /\ delivered' = Append(delivered, [frame |-> call[g].frame, attr |-> call[g].attr])
  BY DEF Deliver, DiscardSample, OnEncodedImage, faultVars

\* The flags keep their type.
LEMMA FlagsTyped == ASSUME FlagType, [Next]_vars PROVE FlagType'
<1> USE DEF FlagType
<1>1. CASE Quiet
  <2>1. callback' \in BOOLEAN /\ tempCallback' \in BOOLEAN /\ registered' \in BOOLEAN
        /\ crashed' \in BOOLEAN
    BY <1>1 DEF Quiet, RegisterEncodeCompleteCallback, RestoreCallback, RequestKeyFrame,
       DropFrame, WriteSampleUnready, vars, callbackVars, faultVars
  <2>2. QED
    BY <1>1, <2>1, QuietFrame
<1>2. CASE Advance
  BY <1>2, AdvanceFrame
<1>3. CASE Clear
  BY <1>3, ClearFrame
<1>4. CASE Build
  BY <1>4, BuildFrame
<1>5. CASE ShutdownSink
  <2>1. registered' \in BOOLEAN
    BY <1>5 DEF ShutdownSink
  <2>2. QED
    BY <1>5, <2>1, ShutdownFrame
<1>6. CASE FromVideoFrame \/ WriteSample \/ EmptySample
  BY <1>6, MakeFrame, WriteFrame, EmptyFrame
<1>7. CASE \E g \in Generations :
             LoseSample(g) \/ EncodedSample(g) \/ PopAttributes(g) \/ Deliver(g)
  <2>1. PICK g \in Generations :
             LoseSample(g) \/ EncodedSample(g) \/ PopAttributes(g) \/ Deliver(g)
    BY <1>7
  <2>2. latePop' \in BOOLEAN
    BY <2>1, LoseFrame, EnterFrame, PopFrame, DeliverFrame
  <2>3. QED
    BY <2>1, <2>2, SinkFrame
<1>8. QED
  BY <1>1, <1>2, <1>3, <1>4, <1>5, <1>6, <1>7, Kinds

\* So do the program counter, the purpose and the state of the writer.
LEMMA PlainTyped == ASSUME PlainType, [Next]_vars PROVE PlainType'
<1> USE DEF PlainType, Encoding, Rebuilding
<1>1. CASE Quiet
  <2>1. pc' = "idle" \/ Encoding' \/ Rebuilding'
    BY <1>1 DEF Quiet, RegisterEncodeCompleteCallback, RestoreCallback, RequestKeyFrame,
       DropFrame, WriteSampleUnready, vars, threadVars
  <2>2. QED
    BY <1>1, <2>1, QuietFrame
<1>2. CASE Advance
  BY <1>2, AdvanceFrame
<1>3. CASE Clear
  BY <1>3, ClearFrame
<1>4. CASE Build
  BY <1>4, BuildFrame
<1>5. CASE ShutdownSink
  BY <1>5, ShutdownFrame
<1>6. CASE FromVideoFrame \/ WriteSample \/ EmptySample
  BY <1>6, MakeFrame, WriteFrame, EmptyFrame
<1>7. CASE \E g \in Generations :
             LoseSample(g) \/ EncodedSample(g) \/ PopAttributes(g) \/ Deliver(g)
  BY <1>7, SinkFrame
<1>8. QED
  BY <1>1, <1>2, <1>3, <1>4, <1>5, <1>6, <1>7, Kinds

\* The counters and the start time keep their range.
LEMMA NumbersTyped == ASSUME NumberType, [Next]_vars PROVE NumberType'
<1> USE DEF NumberType
<1>1. CASE Quiet
  <2>1. writeFailures' \in Nat
    BY <1>1 DEF Quiet, RegisterEncodeCompleteCallback, RestoreCallback, RequestKeyFrame,
       DropFrame, WriteSampleUnready, vars, faultVars
  <2>2. QED
    BY <1>1, <2>1, QuietFrame
<1>2. CASE Advance
  BY <1>2, AdvanceFrame, EncoderAssumption
<1>3. CASE Clear
  BY <1>3, ClearFrame, EncoderAssumption
<1>4. CASE Build
  BY <1>4, BuildFrame, EncoderAssumption
<1>5. CASE ShutdownSink
  BY <1>5, ShutdownFrame
<1>6. CASE FromVideoFrame \/ EmptySample
  BY <1>6, MakeFrame, EmptyFrame, StartFacts
<1>7. CASE WriteSample
  BY <1>7, WriteFrame
<1>8. CASE \E g \in Generations :
             LoseSample(g) \/ EncodedSample(g) \/ PopAttributes(g) \/ Deliver(g)
  <2>1. PICK g \in Generations :
             LoseSample(g) \/ EncodedSample(g) \/ PopAttributes(g) \/ Deliver(g)
    BY <1>8
  <2>2. losses' = losses \/ losses' = losses + 1
    BY <2>1 DEF LoseSample, EncodedSample, PopAttributes, Deliver, DiscardSample, OnEncodedImage,
       faultVars
  <2>3. QED
    BY <2>1, <2>2, SinkFrame
<1>9. QED
  BY <1>1, <1>2, <1>3, <1>4, <1>5, <1>6, <1>7, <1>8, Kinds

\* The entry Encode caches.
LEMMA NewEntry ==
  ASSUME NumberType, NEW start \in 0 .. RtpModulus - 1
  PROVE  [id |-> GetFrameTimestampHns(frame, start), frame |-> frame] \in Entry
<1>1. frame \in Nat
  BY EncoderAssumption DEF NumberType
<1>2. GetFrameTimestampHns(frame, start) \in Nat
  BY <1>1, SampleTime
<1> DEFINE t == GetFrameTimestampHns(frame, start)
<1> HIDE DEF t
<1>3. t \in Nat => [id |-> t, frame |-> frame] \in Entry
  BY <1>1 DEF Entry
<1>4. QED
  BY <1>2, <1>3 DEF t

\* What a call and the calls hold.
LEMMA CallFacts ==
  ASSUME CallType, NEW g \in Generations
  PROVE  /\ call[g] \in Calls
         /\ call[g].stage \in {"none", "entered", "popped"} /\ call[g].id \in Nat
         /\ call[g].frame \in Nat /\ call[g].attr \in Nat
<1>1. call[g] \in Calls
  BY DEF CallType
<1>2. QED
  BY <1>1 DEF Calls

\* NoCall is a call.
LEMMA NoCallFacts == NoCall \in Calls /\ NoCall.stage = "none"
  BY DEF NoCall, Calls

\* The attribute queue keeps its type and its three places.
LEMMA QueueTyped == ASSUME TypeInv, [Next]_vars PROVE QueueType'
<1>0. attributes \in Seq(Entry) /\ Len(attributes) <= 3 /\ Len(attributes) \in Nat
  BY QueueFacts DEF TypeInv, QueueType
<1>1. CASE Quiet \/ Advance \/ Build \/ ShutdownSink \/ WriteSample \/ EmptySample
  <2>1. attributes' = attributes
    BY <1>1, QuietFrame, AdvanceFrame, BuildFrame, ShutdownFrame, WriteFrame, EmptyFrame
  <2>2. QED
    BY <1>0, <2>1 DEF QueueType
<1>2. CASE Clear
  <2>1. attributes' = <<>>
    BY <1>2, ClearFrame
  <2>2. QED
    BY <2>1, EmptyFacts DEF QueueType
<1>3. CASE FromVideoFrame
  <2> DEFINE e == [id |-> GetFrameTimestampHns(frame, startTime'), frame |-> frame]
  <2>1. startTime' \in 0 .. RtpModulus - 1
    BY <1>3, MakeFrame, StartFacts DEF TypeInv
  <2>2. e \in Entry
    BY <2>1, NewEntry DEF TypeInv
  <2>3. attributes' = Append(attributes, e) /\ Len(attributes) <= 2
    BY <1>3, MakeFrame
  <2> HIDE DEF e
  <2>4. QED
    BY <1>0, <2>2, <2>3, AppendFacts DEF QueueType
<1>4. CASE \E g \in Generations : LoseSample(g) \/ EncodedSample(g) \/ Deliver(g)
  <2>1. attributes' = attributes
    BY <1>4 DEF LoseSample, EncodedSample, Deliver, DiscardSample, OnEncodedImage
  <2>2. QED
    BY <1>0, <2>1 DEF QueueType
<1>5. CASE \E g \in Generations : PopAttributes(g)
  <2>1. PICK g \in Generations : PopAttributes(g)
    BY <1>5
  <2>2. call[g].id \in Nat
    BY CallFacts DEF TypeInv
  <2>3. attributes' = Pop(attributes, call[g].id).queue
    BY <2>1, PopFrame
  <2>4. QED
    BY <1>0, <2>2, <2>3, PopType DEF QueueType
<1>6. QED
  BY <1>1, <1>2, <1>3, <1>4, <1>5, Kinds

\* The channels keep their type.
LEMMA ChannelTyped == ASSUME TypeInv, [Next]_vars PROVE ChannelType'
<1>0. channel \in [Generations -> Seq(Entry)]
  BY DEF TypeInv, ChannelType
<1>1. CASE Quiet \/ Advance \/ Clear \/ Build \/ FromVideoFrame \/ EmptySample
  <2>1. channel' = channel
    BY <1>1, QuietFrame, AdvanceFrame, ClearFrame, BuildFrame, MakeFrame, EmptyFrame
  <2>2. QED
    BY <1>0, <2>1 DEF ChannelType
<1>2. CASE ShutdownSink
  <2>1. channel' = [g \in Generations |-> <<>>]
    BY <1>2, ShutdownFrame
  <2>2. QED
    BY <2>1, EmptyFacts DEF ChannelType
<1>3. CASE WriteSample
  <2> DEFINE e == [id |-> GetFrameTimestampHns(frame, startTime), frame |-> frame]
  <2>1. e \in Entry
    BY NewEntry DEF TypeInv, NumberType
  <2>2. \/ channel' = channel
        \/ channel' = [channel EXCEPT ![generation] = Append(@, e)]
    BY <1>3, WriteFrame
  <2> HIDE DEF e
  <2>3. \A s \in Seq(Entry) : Append(s, e) \in Seq(Entry)
    BY <2>1, AppendFacts
  <2>4. QED
    BY <1>0, <2>2, <2>3 DEF ChannelType
<1>4. CASE \E g \in Generations : PopAttributes(g) \/ Deliver(g)
  <2>1. channel' = channel
    BY <1>4, PopFrame, DeliverFrame
  <2>2. QED
    BY <1>0, <2>1 DEF ChannelType
<1>5. CASE \E g \in Generations : LoseSample(g) \/ EncodedSample(g)
  <2>1. PICK g \in Generations :
          channel[g] # <<>> /\ channel' = [channel EXCEPT ![g] = Tail(@)]
    BY <1>5, LoseFrame, EnterFrame
  <2>2. Tail(channel[g]) \in Seq(Entry)
    BY <1>0, <2>1, TailFacts
  <2>3. QED
    BY <1>0, <2>1, <2>2 DEF ChannelType
<1>6. QED
  BY <1>1, <1>2, <1>3, <1>4, <1>5, Kinds

\* The calls and the images keep their type.
LEMMA CallsTyped == ASSUME TypeInv, [Next]_vars PROVE CallType'
<1>0. call \in [Generations -> Calls] /\ delivered \in Seq(Images)
  BY DEF TypeInv, CallType
<1>1. CASE \/ Quiet \/ Advance \/ Clear \/ Build \/ ShutdownSink \/ FromVideoFrame
           \/ WriteSample \/ EmptySample
  <2>1. call' = call /\ delivered' = delivered
    BY <1>1, QuietFrame, AdvanceFrame, ClearFrame, BuildFrame, ShutdownFrame, MakeFrame,
       WriteFrame, EmptyFrame
  <2>2. QED
    BY <1>0, <2>1 DEF CallType
<1>2. CASE \E g \in Generations : LoseSample(g)
  <2>1. call' = call /\ delivered' = delivered
    BY <1>2, LoseFrame
  <2>2. QED
    BY <1>0, <2>1 DEF CallType
<1>3. CASE \E g \in Generations : EncodedSample(g)
  <2>1. PICK g \in Generations : EncodedSample(g)
    BY <1>3
  <2> DEFINE c == [stage |-> "entered", id |-> Head(channel[g]).id,
                   frame |-> Head(channel[g]).frame, attr |-> 0]
  <2>2. channel[g] \in Seq(Entry) /\ channel[g] # <<>>
    BY <2>1, EnterFrame DEF TypeInv, ChannelType
  <2>3. Head(channel[g]) \in Entry
    BY <2>2, TailFacts
  <2>4. c \in Calls
    BY <2>3 DEF Entry, Calls
  <2>5. call' = [call EXCEPT ![g] = c] /\ delivered' = delivered
    BY <2>1, EnterFrame
  <2> HIDE DEF c
  <2>6. QED
    BY <1>0, <2>4, <2>5 DEF CallType
<1>4. CASE \E g \in Generations : PopAttributes(g)
  <2>1. PICK g \in Generations : PopAttributes(g)
    BY <1>4
  <2> DEFINE r == Pop(attributes, call[g].id)
             c == IF r.found THEN [call[g] EXCEPT !.stage = "popped", !.attr = r.frame]
                             ELSE NoCall
  <2>2. call[g] \in Calls /\ call[g].id \in Nat
    BY CallFacts DEF TypeInv
  <2>3. r.frame \in Nat /\ r.found \in BOOLEAN
    BY <2>2, PopType DEF TypeInv, QueueType
  <2>5. call' = [call EXCEPT ![g] = c] /\ delivered' = delivered
    BY <1>0, <2>1, PopFrame
  <2> HIDE DEF r
  <2>4. c \in Calls
    <3>1. [call[g] EXCEPT !.stage = "popped", !.attr = r.frame] \in Calls
      BY <2>2, <2>3 DEF Calls
    <3>2. QED
      BY <3>1, NoCallFacts
  <2> HIDE DEF c
  <2>6. QED
    BY <1>0, <2>4, <2>5 DEF CallType
<1>5. CASE \E g \in Generations : Deliver(g)
  <2>1. PICK g \in Generations : Deliver(g)
    BY <1>5
  <2> DEFINE e == [frame |-> call[g].frame, attr |-> call[g].attr]
  <2>2. e \in Images
    BY CallFacts DEF TypeInv, Images
  <2>3. /\ call' = [call EXCEPT ![g] = NoCall]
        /\ delivered' = delivered \/ delivered' = Append(delivered, e)
    BY <2>1, DeliverFrame
  <2> HIDE DEF e
  <2>4. delivered' \in Seq(Images)
    BY <1>0, <2>2, <2>3, AppendFacts
  <2>5. call' \in [Generations -> Calls]
    BY <1>0, <2>3, NoCallFacts
  <2>6. QED
    BY <2>4, <2>5 DEF CallType
<1>6. QED
  BY <1>1, <1>2, <1>3, <1>4, <1>5, Kinds

\* Every step keeps the types.
LEMMA TypeStep == ASSUME TypeInv, [Next]_vars PROVE TypeInv'
<1>1. FlagType' /\ PlainType' /\ NumberType'
  BY FlagsTyped, PlainTyped, NumbersTyped DEF TypeInv
<1>2. QueueType' /\ ChannelType' /\ CallType'
  BY QueueTyped, ChannelTyped, CallsTyped
<1>3. QED
  BY <1>1, <1>2 DEF TypeInv

\* Every variable of the encoder has its type, and never more than three
\* frames have attributes cached, the limit Encode checks before it makes a
\* sample.
THEOREM TypeCorrect == Spec => []TypeOK
<1>1. TypeInv /\ [Next]_vars => TypeInv'
  BY TypeStep
<1>2. QED
  BY <1>1, TypeInitial, TypeParts, PTL DEF Spec

-----------------------------------------------------------------------------
(* The writer and the callback.                                            *)

\* sinkWriter_ is null in the middle of Encode only if InitWriter failed, and
\* while the writer is replaced nothing is cached.
ControlInv ==
  /\ inited <=> writer = "begun"
  /\ Encoding /\ writer = "none" => initFailed
  /\ Rebuilding => attributes = <<>> /\ firstFrame /\ ~inited
  /\ firstFrame => attributes = <<>>
  /\ crashed => initFailed

\* A quiet step, but for the callback.
LEMMA QuietEffect ==
  ASSUME Quiet
  PROVE  /\ pc' \in {pc, "idle", "makeSample", "initWriter"}
         /\ pc' = "makeSample" => pc \in {"requestKeyFrame", "makeSample"}
         /\ pc' = "initWriter" => Rebuilding
         /\ crashed' # crashed => Encoding /\ writer = "none" /\ crashed'
         /\ pc = "writeSample" => \/ pc' = "writeSample" /\ UNCHANGED <<writeFailures, crashed>>
                                  \/ crashed' = TRUE
                                  \/ writeFailures' = writeFailures + 1
         /\ writeFailures' = writeFailures \/ writeFailures' = writeFailures + 1
<1> USE DEF Encoding, Rebuilding, At
<1>1. CASE RegisterEncodeCompleteCallback \/ RestoreCallback
  BY <1>1 DEF RegisterEncodeCompleteCallback, RestoreCallback, threadVars, faultVars
<1>2. CASE RequestKeyFrame \/ DropFrame
  BY <1>2 DEF RequestKeyFrame, DropFrame
<1>3. CASE WriteSampleUnready
  BY <1>3 DEF WriteSampleUnready
<1>4. CASE UNCHANGED vars
  BY <1>4 DEF vars, threadVars, faultVars
<1>5. QED
  BY <1>1, <1>2, <1>3, <1>4 DEF Quiet

\* ControlInv is inductive.
LEMMA ControlStep == ASSUME TypeInv, ControlInv, [Next]_vars PROVE ControlInv'
<1> USE DEF ControlInv
<1>1. CASE Quiet
  <2>1. UNCHANGED <<inited, writer, initFailed, firstFrame, attributes>>
    BY <1>1, QuietFrame
  <2>2. Encoding' => Encoding
    BY <1>1, QuietEffect DEF Encoding, Rebuilding
  <2>3. Rebuilding' => Rebuilding
    BY <1>1, QuietEffect DEF Encoding, Rebuilding
  <2>4. crashed' => initFailed
    BY <1>1, QuietEffect DEF TypeInv, FlagType
  <2>5. QED
    BY <2>1, <2>2, <2>3, <2>4
<1>2. CASE Advance
  BY <1>2, AdvanceFrame DEF Encoding, Rebuilding
<1>3. CASE Clear
  BY <1>3, ClearFrame DEF Encoding, Rebuilding
<1>4. CASE Build
  <2>1. ~inited
    BY <1>4, BuildFrame DEF Rebuilding
  <2>2. inited' <=> writer' = "begun"
    <3>1. CASE inited' = TRUE /\ writer' = "begun"
      BY <3>1
    <3>2. CASE writer' \in {"none", "broken"} /\ inited' = inited
      <4>1. writer' # "begun"
        BY <3>2
      <4>2. ~inited'
        BY <2>1, <3>2
      <4>3. QED
        BY <4>1, <4>2
    <3>3. QED
      BY <1>4, <3>1, <3>2, BuildFrame
  <2>3. writer' = "none" => initFailed'
    BY <1>4, BuildFrame
  <2>4. UNCHANGED <<attributes, firstFrame, crashed>> /\ ~crashed /\ ~Rebuilding'
    BY <1>4, BuildFrame DEF Rebuilding
  <2>5. QED
    BY <2>2, <2>3, <2>4
<1>5. CASE ShutdownSink
  BY <1>5, ShutdownFrame DEF Encoding, Rebuilding
<1>6. CASE FromVideoFrame
  <2>1. /\ UNCHANGED <<inited, writer, initFailed, crashed>> /\ firstFrame' = FALSE
        /\ pc = "makeSample" /\ pc' = "writeSample"
    BY <1>6, MakeFrame
  <2>2. QED
    BY <2>1 DEF Encoding, Rebuilding
<1>7. CASE WriteSample
  <2>1. /\ UNCHANGED <<inited, writer, initFailed, crashed, firstFrame, attributes>>
        /\ pc' = "idle"
    BY <1>7, WriteFrame
  <2>2. QED
    BY <2>1 DEF Encoding, Rebuilding
<1>8. CASE \E g \in Generations :
             LoseSample(g) \/ EncodedSample(g) \/ PopAttributes(g) \/ Deliver(g)
  <2>1. PICK g \in Generations :
             LoseSample(g) \/ EncodedSample(g) \/ PopAttributes(g) \/ Deliver(g)
    BY <1>8
  <2>2. UNCHANGED <<pc, inited, writer, initFailed, firstFrame, crashed>>
    BY <2>1, SinkFrame
  <2>3. attributes = <<>> => attributes' = <<>>
    <3>1. CASE LoseSample(g) \/ EncodedSample(g) \/ Deliver(g)
      BY <3>1, LoseFrame, EnterFrame, DeliverFrame
    <3>2. CASE PopAttributes(g)
      <4>1. attributes' = Pop(attributes, call[g].id).queue
        BY <3>2, PopFrame
      <4>2. attributes = <<>> => Pop(attributes, call[g].id).queue = <<>>
        BY DEF Pop
      <4>3. QED
        BY <4>1, <4>2
    <3>3. QED
      BY <2>1, <3>1, <3>2
  <2>4. QED
    BY <2>2, <2>3 DEF Encoding, Rebuilding
<1>9. CASE EmptySample
  <2>1. /\ UNCHANGED <<inited, writer, initFailed>> /\ firstFrame' = FALSE
        /\ pc = "makeSample" /\ pc' \in {"makeSample", "idle"} /\ ~crashed
        /\ crashed' = crashed \/ (crashed' = TRUE /\ writer = "none")
    BY <1>9, EmptyFrame
  <2>2. crashed' => initFailed
    BY <2>1 DEF Encoding
  <2>3. QED
    BY <2>1, <2>2 DEF Encoding, Rebuilding
<1>10. QED
  BY <1>1, <1>2, <1>3, <1>4, <1>5, <1>6, <1>7, <1>8, <1>9, Kinds

\* ControlInv holds at first.
LEMMA ControlInitial == Init => ControlInv
  BY DEF Init, ControlInv, Encoding, Rebuilding

\* The callback that is set, or that will be put back, is the registered one.
CallbackInv ==
  /\ callback => registered
  /\ pc \in {"shutdownSink", "restoreCallback"} => ~callback
  /\ pc = "restoreCallback" => purpose # "release"
  /\ pc \in {"shutdownSink", "restoreCallback"} /\ purpose # "release" /\ tempCallback =>
       registered

\* CallbackInv is inductive.
LEMMA CallbackStep == ASSUME TypeInv, CallbackInv, [Next]_vars PROVE CallbackInv'
<1> USE DEF CallbackInv
<1>1. CASE RegisterEncodeCompleteCallback \/ RestoreCallback
  BY <1>1 DEF RegisterEncodeCompleteCallback, RestoreCallback, At, threadVars
<1>2. CASE RequestKeyFrame \/ DropFrame \/ WriteSampleUnready
  BY <1>2 DEF RequestKeyFrame, DropFrame, WriteSampleUnready, At, callbackVars
<1>3. CASE UNCHANGED vars
  BY <1>3 DEF vars, threadVars, callbackVars
<1>4. CASE Advance
  BY <1>4, AdvanceFrame
<1>5. CASE Clear
  BY <1>5, ClearFrame
<1>6. CASE Build
  BY <1>6, BuildFrame
<1>7. CASE ShutdownSink
  <2>1. /\ UNCHANGED <<purpose, callback, tempCallback>> /\ pc = "shutdownSink"
        /\ \/ purpose = "release" /\ pc' = "idle"
           \/ purpose # "release" /\ pc' = "restoreCallback"
    BY <1>7, ShutdownFrame
  <2>2. registered /\ purpose # "release" => registered'
    BY <1>7 DEF ShutdownSink
  <2>3. QED
    BY <2>1, <2>2
<1>8. CASE FromVideoFrame \/ EmptySample
  <2>1. /\ UNCHANGED <<purpose, callback, tempCallback, registered>>
        /\ pc' \in {"writeSample", "makeSample", "idle"}
    BY <1>8, MakeFrame, EmptyFrame
  <2>2. QED
    BY <2>1
<1>9. CASE WriteSample
  <2>1. UNCHANGED <<purpose, callback, tempCallback, registered>> /\ pc' = "idle"
    BY <1>9, WriteFrame
  <2>2. QED
    BY <2>1
<1>10. CASE \E g \in Generations :
             LoseSample(g) \/ EncodedSample(g) \/ PopAttributes(g) \/ Deliver(g)
  BY <1>10, SinkFrame
<1>11. QED
  BY <1>1, <1>2, <1>3, <1>4, <1>5, <1>6, <1>7, <1>8, <1>9, <1>10, Kinds DEF Quiet

\* CallbackInv holds at first.
LEMMA CallbackInitial == Init => CallbackInv
  BY DEF Init, CallbackInv

\* Only OnEncodedImage delivers, and it does so through the callback.
LEMMA DeliveryNeedsCallback ==
  ASSUME [Next]_vars, delivered' # delivered PROVE callback
<1>1. CASE \/ Quiet \/ Advance \/ Clear \/ Build \/ ShutdownSink \/ FromVideoFrame
           \/ WriteSample \/ EmptySample
  BY <1>1, QuietFrame, AdvanceFrame, ClearFrame, BuildFrame, ShutdownFrame, MakeFrame, WriteFrame,
     EmptyFrame
<1>2. CASE \E g \in Generations : LoseSample(g) \/ EncodedSample(g) \/ PopAttributes(g)
  BY <1>2, LoseFrame, EnterFrame, PopFrame
<1>3. CASE \E g \in Generations : Deliver(g)
  BY <1>3, DeliverFrame
<1>4. QED
  BY <1>1, <1>2, <1>3, Kinds

\* OnEncodedImage is only called while WebRTC has a callback registered: a
\* call of OnH264Encoded that outlives Release finds no callback, and the
\* callback ReconfigureSinkWriter puts back is one that was not released.
THEOREM ImagesNeedRegistration == Spec => ImagesOnlyWhileRegistered
<1>1. TypeInv /\ CallbackInv /\ [Next]_vars => TypeInv' /\ CallbackInv'
  BY TypeStep, CallbackStep
<1>2. CallbackInv /\ [Next]_vars => [delivered' # delivered => registered]_vars
  BY DeliveryNeedsCallback DEF CallbackInv
<1>3. QED
  BY <1>1, <1>2, TypeInitial, CallbackInitial, PTL DEF Spec, ImagesOnlyWhileRegistered

-----------------------------------------------------------------------------
(* Entries and samples: the invariant behind the lookup of the attributes. *)

Live == writer # "none"
Sent == channel[generation]
Pending == call[generation].stage = "entered"

\* Writers that were not built have no samples.
IdleInv ==
  /\ Live => generation \in Generations
  /\ \A g \in Generations : g > generation => channel[g] = <<>> /\ call[g] = NoCall

\* An entry or a sample carries the time of its frame, counted from the frame
\* the queue was started with.
Dated(e, first, last, start) ==
  e.frame \in first .. last /\ e.id = GetFrameTimestampHns(e.frame, start)
AllDated(q, first, last, start) == \A i \in DOMAIN q : Dated(q[i], first, last, start)

StartedAt(f0) ==
  /\ f0 \in 0 .. frame
  /\ ~firstFrame => startTime = Timestamp(f0)
  /\ AllDated(attributes, f0, frame, startTime)
  /\ Live => /\ AllDated(Sent, f0, frame, startTime)
             /\ Pending => Dated(call[generation], f0, frame, startTime)

DatedInv == \E f0 \in Nat : StartedAt(f0)

Increasing(q) == \A i, j \in DOMAIN q : i < j => q[i].frame < q[j].frame
Below(q, n) == \A i \in DOMAIN q : q[i].frame < n

\* Entries and samples are in the order of their frames, the sample in
\* OnH264Encoded first, the frame in Encode last.
OrderInv ==
  /\ Increasing(attributes)
  /\ pc \in {"requestKeyFrame", "makeSample"} => Below(attributes, frame)
  /\ pc = "writeSample" => ~firstFrame
  /\ Live => /\ Increasing(Sent)
             /\ firstFrame => Sent = <<>> /\ ~Pending
             /\ Encoding => Below(Sent, frame) /\ (Pending => call[generation].frame < frame)
             /\ Pending => \A i \in DOMAIN Sent : call[generation].frame < Sent[i].frame

\* What is left of a sequence when elements are taken from its front.
Sub(t, q) == \E m \in Nat : \A i \in DOMAIN t : i + m \in DOMAIN q /\ t[i] = q[i + m]

\* The order survives it.
LEMMA SubKeeps ==
  ASSUME NEW t \in Seq(Entry), NEW q \in Seq(Entry), Sub(t, q)
  PROVE  /\ Increasing(q) => Increasing(t)
         /\ \A n : Below(q, n) => Below(t, n)
         /\ \A first, last, start :
              AllDated(q, first, last, start) => AllDated(t, first, last, start)
         /\ \A n : (\A i \in DOMAIN q : n < q[i].frame) => \A i \in DOMAIN t : n < t[i].frame
<1>1. PICK m \in Nat : \A i \in DOMAIN t : i + m \in DOMAIN q /\ t[i] = q[i + m]
  BY DEF Sub
<1>2. DOMAIN t \subseteq Nat
  BY QueueFacts
<1>3. ASSUME Increasing(q), NEW i \in DOMAIN t, NEW j \in DOMAIN t, i < j
      PROVE  t[i].frame < t[j].frame
  <2>1. i + m \in DOMAIN q /\ j + m \in DOMAIN q /\ i + m < j + m
    BY <1>1, <1>2, <1>3
  <2>2. q[i + m].frame < q[j + m].frame
    BY <1>3, <2>1 DEF Increasing
  <2>3. QED
    BY <1>1, <2>2
<1>4. \A n : Below(q, n) => Below(t, n)
  BY <1>1 DEF Below
<1>5. \A first, last, start : AllDated(q, first, last, start) => AllDated(t, first, last, start)
  BY <1>1 DEF AllDated
<1>6. \A n : (\A i \in DOMAIN q : n < q[i].frame) => \A i \in DOMAIN t : n < t[i].frame
  BY <1>1
<1>7. QED
  BY <1>3, <1>4, <1>5, <1>6 DEF Increasing

\* Tail takes the first.
LEMMA TailSub ==
  ASSUME NEW q \in Seq(Entry), q # <<>>
  PROVE  Tail(q) \in Seq(Entry) /\ Sub(Tail(q), q)
<1>1. /\ Tail(q) \in Seq(Entry)
      /\ \A i \in DOMAIN Tail(q) : i + 1 \in DOMAIN q /\ Tail(q)[i] = q[i + 1]
  BY TailFacts
<1>2. QED
  BY <1>1 DEF Sub

\* The head of an increasing sequence comes before the rest.
LEMMA HeadFirst ==
  ASSUME NEW q \in Seq(Entry), q # <<>>, Increasing(q)
  PROVE  /\ 1 \in DOMAIN q /\ Head(q) = q[1]
         /\ \A i \in DOMAIN Tail(q) : Head(q).frame < Tail(q)[i].frame
<1>1. /\ Tail(q) \in Seq(Entry) /\ Len(q) > 0 /\ Len(q) \in Nat /\ Head(q) = q[1]
      /\ \A i \in DOMAIN Tail(q) : i + 1 \in DOMAIN q /\ Tail(q)[i] = q[i + 1]
  BY TailFacts
<1>2. DOMAIN q = 1 .. Len(q) /\ DOMAIN Tail(q) \subseteq Nat \ {0}
  BY <1>1, QueueFacts
<1>3. ASSUME NEW i \in DOMAIN Tail(q) PROVE 1 < i + 1 /\ 1 \in DOMAIN q /\ i + 1 \in DOMAIN q
  BY <1>1, <1>2
<1>4. QED
  BY <1>1, <1>2, <1>3 DEF Increasing

\* Pop takes from the front.
LEMMA PopSub ==
  ASSUME NEW q \in Seq(Entry), Len(q) <= 3, NEW id \in Nat
  PROVE  Pop(q, id).queue \in Seq(Entry) /\ Sub(Pop(q, id).queue, q)
  BY PopType DEF Sub

\* What the types say about the current writer.
LEMMA CurrentTypes ==
  ASSUME TypeInv
  PROVE  /\ attributes \in Seq(Entry) /\ Len(attributes) <= 3
         /\ frame \in Nat /\ frame <= MaxFrames /\ generation \in Nat
         /\ \A g \in Generations : channel[g] \in Seq(Entry) /\ call[g] \in Calls
         /\ generation \in Generations => Sent \in Seq(Entry) /\ call[generation].frame \in Nat
                                          /\ call[generation].id \in Nat
<1>1. attributes \in Seq(Entry) /\ Len(attributes) <= 3 /\ frame \in Nat /\ frame <= MaxFrames
      /\ generation \in Nat
  BY EncoderAssumption DEF TypeInv, QueueType, NumberType
<1>2. \A g \in Generations : channel[g] \in Seq(Entry)
  BY DEF TypeInv, ChannelType
<1>3. \A g \in Generations : call[g] \in Calls /\ call[g].frame \in Nat /\ call[g].id \in Nat
  BY CallFacts DEF TypeInv
<1>4. QED
  BY <1>1, <1>2, <1>3 DEF Sent

\* The calls and channels of writers to come stay empty.
LEMMA IdleStep == ASSUME TypeInv, ControlInv, IdleInv, [Next]_vars PROVE IdleInv'
<1> USE DEF IdleInv, Live
<1>0. generation \in 0 .. MaxGenerations /\ channel \in [Generations -> Seq(Entry)]
      /\ call \in [Generations -> Calls] /\ MaxGenerations \in Nat
  BY EncoderAssumption DEF TypeInv, NumberType, ChannelType, CallType
<1>1. CASE Quiet \/ Advance \/ Clear \/ FromVideoFrame \/ EmptySample
  <2>1. UNCHANGED <<generation, channel, call>> /\ (Live' => Live)
    BY <1>1, QuietFrame, AdvanceFrame, ClearFrame, MakeFrame, EmptyFrame
  <2>2. QED
    BY <2>1
<1>2. CASE Build
  <2>1. UNCHANGED <<channel, call>> /\ generation < MaxGenerations /\ generation' = generation + 1
    BY <1>2, BuildFrame
  <2>2. generation' \in Generations
    BY <1>0, <2>1 DEF Generations
  <2>3. \A g \in Generations : g > generation' => g > generation
    BY <1>0, <2>1 DEF Generations
  <2>4. QED
    BY <2>1, <2>2, <2>3
<1>3. CASE ShutdownSink
  BY <1>3, ShutdownFrame
<1>4. CASE WriteSample
  <2>1. UNCHANGED <<generation, writer, call>>
    BY <1>4, WriteFrame
  <2>2. \A g \in Generations : g # generation => channel'[g] = channel[g]
    BY <1>0, <1>4, WriteFrame
  <2>3. \A g \in Generations : g > generation => g # generation
    BY <1>0 DEF Generations
  <2>4. QED
    BY <2>1, <2>2, <2>3
<1>5. ASSUME NEW g \in Generations,
             LoseSample(g) \/ EncodedSample(g) \/ PopAttributes(g) \/ Deliver(g)
      PROVE  IdleInv'
  <2>1. UNCHANGED <<generation, writer>>
    BY <1>5, SinkFrame
  <2>2. channel[g] # <<>> \/ call[g].stage # "none"
    BY <1>5, LoseFrame, EnterFrame, PopFrame, DeliverFrame
  <2>3. ~(g > generation)
    BY <2>2, NoCallFacts
  <2>4. \A h \in Generations : h # g => channel'[h] = channel[h] /\ call'[h] = call[h]
    BY <1>0, <1>5, LoseFrame, EnterFrame, PopFrame, DeliverFrame
  <2>5. QED
    BY <2>1, <2>3, <2>4
<1>6. QED
  BY <1>1, <1>2, <1>3, <1>4, <1>5, Kinds

\* What a step of a writer's thread, or a loss, does to the samples of the
\* current writer.
SameSamples == Sent' = Sent /\ call'[generation'] = call[generation]
LosesFirst ==
  /\ Sent # <<>> /\ Sent' = Tail(Sent) /\ call'[generation'] = call[generation]
  /\ losses' = losses + 1
EntersFirst ==
  /\ ~Pending /\ Sent # <<>> /\ Sent' = Tail(Sent)
  /\ call'[generation'] = [stage |-> "entered", id |-> Head(Sent).id,
                           frame |-> Head(Sent).frame, attr |-> 0]
EndsCall ==
  /\ Sent' = Sent /\ ~Pending'
  /\ Pending => attributes' = Pop(attributes, call[generation].id).queue

\* One of four things.
LEMMA SinkView ==
  ASSUME TypeInv, IdleInv, Live, NEW g \in Generations,
         LoseSample(g) \/ EncodedSample(g) \/ PopAttributes(g) \/ Deliver(g)
  PROVE  SameSamples \/ LosesFirst \/ EntersFirst \/ EndsCall
<1>0. channel \in [Generations -> Seq(Entry)] /\ call \in [Generations -> Calls]
      /\ generation \in Generations /\ generation' = generation
  BY SinkFrame DEF TypeInv, ChannelType, CallType, IdleInv
<1>1. CASE g # generation
  <2>1. channel'[generation] = channel[generation] /\ call'[generation] = call[generation]
    BY <1>0, <1>1, LoseFrame, EnterFrame, PopFrame, DeliverFrame
  <2>2. QED
    BY <1>0, <2>1 DEF SameSamples, Sent
<1>2. CASE g = generation /\ LoseSample(g)
  BY <1>0, <1>2, LoseFrame DEF LosesFirst, Sent
<1>3. CASE g = generation /\ EncodedSample(g)
  <2>1. /\ channel[g] # <<>> /\ channel'[g] = Tail(channel[g]) /\ call[g].stage = "none"
        /\ call'[g] = [stage |-> "entered", id |-> Head(channel[g]).id,
                       frame |-> Head(channel[g]).frame, attr |-> 0]
    BY <1>0, <1>3, EnterFrame
  <2>2. QED
    BY <1>0, <1>3, <2>1 DEF EntersFirst, Sent, Pending
<1>4. CASE g = generation /\ PopAttributes(g)
  <2> DEFINE r == Pop(attributes, call[g].id)
  <2>0. attributes' = r.queue
    BY <1>4, PopFrame
  <2>1. channel' = channel
        /\ call'[g] = IF r.found THEN [call[g] EXCEPT !.stage = "popped", !.attr = r.frame]
                                 ELSE NoCall
    BY <1>0, <1>4, PopFrame
  <2> HIDE DEF r
  <2>2. call[g] \in Calls
    BY <1>0
  <2>3. call'[g].stage # "entered"
    BY <2>1, <2>2, NoCallFacts DEF Calls
  <2>4. QED
    BY <1>0, <1>4, <2>0, <2>1, <2>3 DEF EndsCall, Sent, Pending, r
<1>5. CASE g = generation /\ Deliver(g)
  <2>1. channel' = channel /\ call'[g] = NoCall /\ call[g].stage = "popped"
    BY <1>0, <1>5, DeliverFrame
  <2>2. QED
    BY <1>0, <1>5, <2>1, NoCallFacts DEF EndsCall, Sent, Pending
<1>6. QED
  BY <1>1, <1>2, <1>3, <1>4, <1>5

\* The attribute queue only loses entries to the threads of the writers.
LEMMA SinkQueue ==
  ASSUME TypeInv, NEW g \in Generations,
         LoseSample(g) \/ EncodedSample(g) \/ PopAttributes(g) \/ Deliver(g)
  PROVE  attributes' = attributes
         \/ (attributes' \in Seq(Entry) /\ Sub(attributes', attributes))
<1>1. CASE LoseSample(g) \/ EncodedSample(g) \/ Deliver(g)
  BY <1>1, LoseFrame, EnterFrame, DeliverFrame
<1>2. CASE PopAttributes(g)
  <2>1. attributes' = Pop(attributes, call[g].id).queue
    BY <1>2, PopFrame
  <2>2. call[g].id \in Nat
    BY CallFacts DEF TypeInv
  <2>3. QED
    BY <2>1, <2>2, PopSub DEF TypeInv, QueueType
<1>3. QED
  BY <1>1, <1>2

\* A new writer has no samples.
LEMMA BuildView ==
  ASSUME TypeInv, IdleInv, Build
  PROVE  Sent' = <<>> /\ ~Pending'
<1>1. generation' \in Generations /\ generation' > generation /\ UNCHANGED <<channel, call>>
  BY BuildFrame, EncoderAssumption DEF TypeInv, NumberType, Generations
<1>2. channel[generation'] = <<>> /\ call[generation'] = NoCall
  BY <1>1 DEF IdleInv
<1>3. QED
  BY <1>1, <1>2, NoCallFacts DEF Sent, Pending

\* The times of entries and samples.
LEMMA DatedStep ==
  ASSUME TypeInv, ControlInv, IdleInv, OrderInv, DatedInv, [Next]_vars PROVE DatedInv'
<1>0. PICK f0 \in Nat : StartedAt(f0)
  BY DEF DatedInv
<1>T. /\ attributes \in Seq(Entry) /\ frame \in Nat
      /\ Live => generation \in Generations /\ Sent \in Seq(Entry)
  BY CurrentTypes DEF IdleInv
<1>1. CASE Quiet
  <2>1. UNCHANGED <<frame, writer, generation, startTime, firstFrame, attributes, channel, call>>
    BY <1>1, QuietFrame
  <2>2. StartedAt(f0)'
    BY <1>0, <2>1 DEF StartedAt, AllDated, Dated, Live, Sent, Pending
  <2>3. QED
    BY <2>2 DEF DatedInv
<1>2. CASE Advance
  <2>1. /\ UNCHANGED <<writer, generation, startTime, firstFrame, attributes, channel, call>>
        /\ frame' = frame + 1
    BY <1>2, AdvanceFrame
  <2>2. f0 \in 0 .. frame' /\ \A x \in f0 .. frame : x \in f0 .. frame'
    BY <1>0, <1>T, <2>1 DEF StartedAt
  <2>3. \A e : Dated(e, f0, frame, startTime) => Dated(e, f0, frame', startTime')
    BY <2>1, <2>2 DEF Dated
  <2>4. StartedAt(f0)'
    BY <1>0, <2>1, <2>2, <2>3 DEF StartedAt, AllDated, Live, Sent, Pending
  <2>5. QED
    BY <2>4 DEF DatedInv
<1>3. CASE Clear
  <2>0. PICK n \in Nat : n = frame'
    BY <1>3, <1>T, ClearFrame
  <2>1. attributes' = <<>> /\ ~Live' /\ firstFrame'
    BY <1>3, ClearFrame DEF Live
  <2>2. StartedAt(n)'
    BY <2>0, <2>1, EmptyFacts DEF StartedAt, AllDated
  <2>3. QED
    BY <2>1, <2>2 DEF DatedInv
<1>4. CASE Build
  <2>1. UNCHANGED <<frame, startTime, firstFrame, attributes>> /\ Sent' = <<>> /\ ~Pending'
    BY <1>4, BuildFrame, BuildView
  <2>2. StartedAt(f0)'
    BY <1>0, <2>1, EmptyFacts DEF StartedAt, AllDated, Dated
  <2>3. QED
    BY <2>2 DEF DatedInv
<1>5. CASE ShutdownSink
  <2>1. UNCHANGED <<frame, writer, generation, startTime, firstFrame, attributes, call>>
        /\ (Live => Sent' = <<>>)
    BY <1>5, <1>T, ShutdownFrame DEF Sent, Live
  <2>2. StartedAt(f0)'
    BY <1>0, <2>1, EmptyFacts DEF StartedAt, AllDated, Dated, Live, Pending
  <2>3. QED
    BY <2>2 DEF DatedInv
<1>6. CASE FromVideoFrame
  <2> DEFINE e == [id |-> GetFrameTimestampHns(frame, startTime'), frame |-> frame]
  <2>1. /\ UNCHANGED <<frame, writer, generation, channel, call>> /\ firstFrame' = FALSE
        /\ attributes' = Append(attributes, e)
        /\ startTime' = IF firstFrame THEN Timestamp(frame) ELSE startTime
    BY <1>6, MakeFrame
  <2>2. e \in Entry
    BY <1>6, MakeFrame, StartFacts, NewEntry DEF TypeInv
  <2>3. e.frame = frame' /\ e.id = GetFrameTimestampHns(e.frame, startTime')
    BY <2>1
  <2> HIDE DEF e
  <2>4. /\ DOMAIN attributes' = 1 .. Len(attributes) + 1 /\ DOMAIN attributes = 1 .. Len(attributes)
        /\ Len(attributes) \in Nat
        /\ \A i \in DOMAIN attributes : attributes'[i] = attributes[i]
        /\ attributes'[Len(attributes) + 1] = e
    BY <1>T, <2>1, <2>2, AppendFacts
  <2>5. CASE firstFrame
    <3>0. PICK n \in Nat : n = frame
      BY <1>T
    <3>1. attributes = <<>> /\ (Live => Sent = <<>> /\ ~Pending)
      BY <2>5 DEF ControlInv, OrderInv
    <3>2. Dated(e, n, frame', startTime')
      BY <1>T, <2>1, <2>3, <3>0 DEF Dated
    <3>3. AllDated(attributes', n, frame', startTime')
      BY <2>1, <2>4, <3>1, <3>2, EmptyFacts DEF AllDated
    <3>4. StartedAt(n)'
      BY <1>T, <2>1, <2>5, <3>0, <3>1, <3>3, EmptyFacts DEF StartedAt, AllDated, Live, Sent, Pending
    <3>5. QED
      BY <1>T, <2>1, <3>4 DEF DatedInv
  <2>6. CASE ~firstFrame
    <3>1. startTime' = startTime
      BY <2>1, <2>6
    <3>2. \A x : Dated(x, f0, frame, startTime) => Dated(x, f0, frame', startTime')
      BY <2>1, <3>1 DEF Dated
    <3>3. Dated(e, f0, frame', startTime')
      BY <1>0, <1>T, <2>1, <2>3 DEF Dated, StartedAt
    <3>4. \A i \in DOMAIN attributes : Dated(attributes'[i], f0, frame', startTime')
      BY <1>0, <2>4, <3>2 DEF StartedAt, AllDated
    <3>5. AllDated(attributes', f0, frame', startTime')
      BY <2>4, <3>3, <3>4 DEF AllDated
    <3>6. Live' => /\ AllDated(Sent', f0, frame', startTime')
                   /\ Pending' => Dated(call'[generation'], f0, frame', startTime')
      BY <1>0, <2>1, <3>2 DEF StartedAt, AllDated, Live, Sent, Pending
    <3>7. StartedAt(f0)'
      BY <1>0, <2>1, <2>6, <3>1, <3>5, <3>6 DEF StartedAt
    <3>8. QED
      BY <3>7 DEF DatedInv
  <2>7. QED
    BY <2>5, <2>6
<1>7. CASE WriteSample
  <2> DEFINE e == [id |-> GetFrameTimestampHns(frame, startTime), frame |-> frame]
  <2>1. /\ UNCHANGED <<frame, writer, generation, startTime, firstFrame, attributes, call>>
        /\ channel' = channel \/ channel' = [channel EXCEPT ![generation] = Append(@, e)]
        /\ Live
    BY <1>7, WriteFrame DEF Live
  <2>2. e \in Entry
    BY NewEntry DEF TypeInv, NumberType
  <2>3. e.frame = frame /\ e.id = GetFrameTimestampHns(e.frame, startTime)
    OBVIOUS
  <2> HIDE DEF e
  <2>4. Sent' = Sent \/ Sent' = Append(Sent, e)
    BY <1>T, <2>1 DEF Sent, TypeInv, ChannelType
  <2>5. \A x : Dated(x, f0, frame, startTime) => Dated(x, f0, frame', startTime')
    BY <2>1 DEF Dated
  <2>6. Dated(e, f0, frame', startTime')
    BY <1>0, <1>T, <2>1, <2>3 DEF Dated, StartedAt
  <2>7. AllDated(Sent', f0, frame', startTime')
    <3>1. CASE Sent' = Sent
      BY <1>0, <2>1, <2>5, <3>1 DEF StartedAt, AllDated
    <3>2. CASE Sent' = Append(Sent, e)
      <4>1. /\ DOMAIN Sent' = 1 .. Len(Sent) + 1 /\ DOMAIN Sent = 1 .. Len(Sent)
            /\ Len(Sent) \in Nat
            /\ \A i \in DOMAIN Sent : Sent'[i] = Sent[i]
            /\ Sent'[Len(Sent) + 1] = e
        BY <1>T, <2>1, <2>2, <3>2, AppendFacts
      <4>2. \A i \in DOMAIN Sent : Dated(Sent'[i], f0, frame', startTime')
        BY <1>0, <2>1, <2>5, <4>1 DEF StartedAt, AllDated
      <4>3. QED
        BY <2>6, <4>1, <4>2 DEF AllDated
    <3>3. QED
      BY <2>4, <3>1, <3>2
  <2>8. StartedAt(f0)'
    BY <1>0, <2>1, <2>5, <2>7 DEF StartedAt, AllDated, Live, Pending
  <2>9. QED
    BY <2>8 DEF DatedInv
<1>8. ASSUME NEW g \in Generations,
             LoseSample(g) \/ EncodedSample(g) \/ PopAttributes(g) \/ Deliver(g)
      PROVE  DatedInv'
  <2>1. UNCHANGED <<frame, writer, generation, startTime, firstFrame>>
    BY <1>8, SinkFrame
  <2>2. \A x : Dated(x, f0, frame, startTime) => Dated(x, f0, frame', startTime')
    BY <2>1 DEF Dated
  <2>3. AllDated(attributes', f0, frame', startTime')
    <3>1. AllDated(attributes, f0, frame, startTime)
      BY <1>0 DEF StartedAt
    <3>2. \A i \in DOMAIN attributes' : Dated(attributes'[i], f0, frame, startTime)
      BY <1>8, <1>T, <3>1, SinkQueue, SubKeeps DEF AllDated
    <3>3. QED
      BY <2>2, <3>2 DEF AllDated
  <2>4. ASSUME Live
        PROVE  /\ AllDated(Sent', f0, frame', startTime')
               /\ Pending' => Dated(call'[generation'], f0, frame', startTime')
    <3>0. /\ AllDated(Sent, f0, frame, startTime) /\ Sent \in Seq(Entry)
          /\ Pending => Dated(call[generation], f0, frame, startTime)
      BY <1>0, <1>T, <2>4 DEF StartedAt
    <3>1. CASE SameSamples
      BY <2>2, <3>0, <3>1 DEF SameSamples, AllDated, Pending
    <3>2. CASE LosesFirst
      <4>1. \A i \in DOMAIN Sent' : Dated(Sent'[i], f0, frame, startTime)
        BY <3>0, <3>2, TailSub, SubKeeps DEF LosesFirst, AllDated
      <4>2. QED
        BY <2>2, <3>0, <3>2, <4>1 DEF LosesFirst, AllDated, Pending
    <3>3. CASE EntersFirst
      <4>1. \A i \in DOMAIN Sent' : Dated(Sent'[i], f0, frame, startTime)
        BY <3>0, <3>3, TailSub, SubKeeps DEF EntersFirst, AllDated
      <4>2. Dated(Head(Sent), f0, frame, startTime)
        BY <3>0, <3>3, TailFacts, QueueFacts DEF EntersFirst, AllDated
      <4>3. call'[generation'].id = Head(Sent).id /\ call'[generation'].frame = Head(Sent).frame
        BY <3>3 DEF EntersFirst
      <4>4. Dated(call'[generation'], f0, frame', startTime')
        BY <2>1, <4>2, <4>3 DEF Dated
      <4>5. QED
        BY <2>2, <4>1, <4>4 DEF AllDated
    <3>4. CASE EndsCall
      BY <2>2, <3>0, <3>4 DEF EndsCall, AllDated
    <3>5. QED
      BY <1>8, <2>4, <3>1, <3>2, <3>3, <3>4, SinkView
  <2>5. Live' <=> Live
    BY <2>1 DEF Live
  <2>6. StartedAt(f0)'
    BY <1>0, <2>1, <2>3, <2>4, <2>5 DEF StartedAt
  <2>7. QED
    BY <2>6 DEF DatedInv
<1>9. CASE EmptySample
  <2>1. /\ UNCHANGED <<frame, writer, generation, attributes, channel, call>> /\ firstFrame' = FALSE
        /\ startTime' = IF firstFrame THEN Timestamp(frame) ELSE startTime
    BY <1>9, EmptyFrame
  <2>2. CASE firstFrame
    <3>1. PICK n \in Nat : n = frame
      BY <1>T
    <3>2. attributes = <<>> /\ (Live => Sent = <<>> /\ ~Pending)
      BY <2>2 DEF ControlInv, OrderInv
    <3>3. StartedAt(n)'
      BY <1>T, <2>1, <2>2, <3>1, <3>2, EmptyFacts DEF StartedAt, AllDated, Live, Sent, Pending
    <3>4. QED
      BY <3>3 DEF DatedInv
  <2>3. CASE ~firstFrame
    <3>1. StartedAt(f0)'
      BY <1>0, <2>1, <2>3 DEF StartedAt, AllDated, Dated, Live, Sent, Pending
    <3>2. QED
      BY <3>1 DEF DatedInv
  <2>4. QED
    BY <2>2, <2>3
<1>10. QED
  BY <1>1, <1>2, <1>3, <1>4, <1>5, <1>6, <1>7, <1>8, <1>9, Kinds

\* No entry and no sample is of a later frame than the last one.
LEMMA FramesBounded ==
  ASSUME TypeInv, IdleInv, DatedInv
  PROVE  /\ Below(attributes, frame + 1)
         /\ Live => Below(Sent, frame + 1) /\ (Pending => call[generation].frame < frame + 1)
<1>0. PICK f0 \in Nat : StartedAt(f0)
  BY DEF DatedInv
<1>1. frame \in Nat
  BY CurrentTypes
<1>2. \A e : Dated(e, f0, frame, startTime) => e.frame < frame + 1
  BY <1>1 DEF Dated
<1>3. QED
  BY <1>0, <1>2 DEF StartedAt, AllDated, Below

\* An entry of a later frame goes at the end.
LEMMA AppendLater ==
  ASSUME NEW q \in Seq(Entry), NEW e \in Entry, Increasing(q), Below(q, e.frame)
  PROVE  /\ Increasing(Append(q, e))
         /\ \A n \in Nat : n < e.frame /\ (\A i \in DOMAIN q : n < q[i].frame) =>
              \A i \in DOMAIN Append(q, e) : n < Append(q, e)[i].frame
<1> DEFINE t == Append(q, e)
<1>1. /\ Len(q) \in Nat /\ DOMAIN t = 1 .. Len(q) + 1 /\ DOMAIN q = 1 .. Len(q)
      /\ \A i \in DOMAIN q : t[i] = q[i]
      /\ t[Len(q) + 1] = e
  BY AppendFacts
<1> HIDE DEF t
<1>2. ASSUME NEW i \in DOMAIN t, NEW j \in DOMAIN t, i < j PROVE t[i].frame < t[j].frame
  <2>1. i \in DOMAIN q /\ (j \in DOMAIN q \/ j = Len(q) + 1)
    BY <1>1, <1>2
  <2>2. CASE j \in DOMAIN q
    BY <1>1, <1>2, <2>1, <2>2 DEF Increasing
  <2>3. CASE j = Len(q) + 1
    BY <1>1, <2>1, <2>3 DEF Below
  <2>4. QED
    BY <2>1, <2>2, <2>3
<1>3. ASSUME NEW n \in Nat, n < e.frame, \A i \in DOMAIN q : n < q[i].frame, NEW i \in DOMAIN t
      PROVE  n < t[i].frame
  <2>1. i \in DOMAIN q \/ i = Len(q) + 1
    BY <1>1
  <2>2. QED
    BY <1>1, <1>3, <2>1
<1>4. QED
  BY <1>2, <1>3 DEF Increasing, t

\* The order of entries and samples.
LEMMA OrderStep ==
  ASSUME TypeInv, ControlInv, IdleInv, DatedInv, OrderInv, [Next]_vars PROVE OrderInv'
<1>T. /\ attributes \in Seq(Entry) /\ frame \in Nat
      /\ Live => generation \in Generations /\ Sent \in Seq(Entry)
                 /\ call[generation].frame \in Nat
  BY CurrentTypes DEF IdleInv
<1>E. Increasing(<<>>) /\ \A n : Below(<<>>, n)
  BY EmptyFacts DEF Increasing, Below
<1>1. CASE Quiet
  <2>1. /\ UNCHANGED <<frame, firstFrame, attributes>> /\ Live' = Live /\ Sent' = Sent
        /\ Pending' = Pending /\ call'[generation'] = call[generation]
    BY <1>1, QuietFrame DEF Live, Sent, Pending
  <2>2. /\ pc' \in {"requestKeyFrame", "makeSample"} => pc \in {"requestKeyFrame", "makeSample"}
        /\ pc' = "writeSample" => pc = "writeSample"
        /\ Encoding' => Encoding
    BY <1>1, QuietEffect DEF Encoding
  <2>3. QED
    BY <2>1, <2>2 DEF OrderInv
<1>2. CASE Advance
  <2>1. /\ UNCHANGED <<firstFrame, attributes>> /\ Live' = Live /\ Sent' = Sent
        /\ Pending' = Pending /\ call'[generation'] = call[generation]
        /\ frame' = frame + 1 /\ pc' \in {"idle", "requestKeyFrame"}
    BY <1>2, AdvanceFrame DEF Live, Sent, Pending
  <2>2. QED
    BY <2>1, FramesBounded DEF OrderInv
<1>3. CASE Clear
  <2>1. attributes' = <<>> /\ ~Live' /\ pc' = "shutdownSink"
    BY <1>3, ClearFrame DEF Live
  <2>2. QED
    BY <1>E, <2>1 DEF OrderInv
<1>4. CASE Build
  <2>1. /\ UNCHANGED <<frame, firstFrame, attributes>> /\ Sent' = <<>> /\ ~Pending'
        /\ pc' # "writeSample"
    BY <1>4, BuildFrame, BuildView
  <2>2. pc' = "idle" \/ attributes = <<>>
    BY <1>4, BuildFrame DEF ControlInv, Rebuilding
  <2>3. pc' \in {"requestKeyFrame", "makeSample"} => Below(attributes', frame')
    BY <1>E, <2>1, <2>2
  <2>4. QED
    BY <1>E, <2>1, <2>3 DEF OrderInv
<1>5. CASE ShutdownSink
  <2>1. /\ UNCHANGED <<frame, firstFrame, attributes, call, writer, generation>>
        /\ pc' \in {"idle", "restoreCallback"}
    BY <1>5, ShutdownFrame
  <2>2. Live => Sent' = <<>>
    BY <1>5, <1>T, ShutdownFrame DEF Sent
  <2>3. ~Encoding'
    BY <2>1 DEF Encoding
  <2>4. (Pending' <=> Pending) /\ (Live' <=> Live)
    BY <2>1 DEF Pending, Live
  <2>5. QED
    BY <1>E, <2>1, <2>2, <2>3, <2>4, EmptyFacts DEF OrderInv
<1>6. CASE FromVideoFrame
  <2> DEFINE e == [id |-> GetFrameTimestampHns(frame, startTime'), frame |-> frame]
  <2>1. /\ UNCHANGED <<frame, writer, generation, channel, call>> /\ firstFrame' = FALSE
        /\ attributes' = Append(attributes, e)
        /\ pc = "makeSample" /\ pc' = "writeSample"
    BY <1>6, MakeFrame
  <2>2. e \in Entry /\ e.frame = frame
    BY <1>6, MakeFrame, StartFacts, NewEntry DEF TypeInv
  <2> HIDE DEF e
  <2>3. Increasing(attributes')
    BY <1>T, <2>1, <2>2, AppendLater DEF OrderInv
  <2>4. Live' = Live /\ Sent' = Sent /\ Pending' = Pending /\ Encoding' /\ Encoding
    BY <2>1 DEF Live, Sent, Pending, Encoding
  <2>5. QED
    BY <2>1, <2>3, <2>4 DEF OrderInv
<1>7. CASE WriteSample
  <2> DEFINE e == [id |-> GetFrameTimestampHns(frame, startTime), frame |-> frame]
  <2>1. /\ UNCHANGED <<frame, writer, generation, firstFrame, attributes, call>>
        /\ channel' = channel \/ channel' = [channel EXCEPT ![generation] = Append(@, e)]
        /\ Live /\ pc = "writeSample" /\ pc' = "idle"
    BY <1>7, WriteFrame DEF Live
  <2>2. e \in Entry /\ e.frame = frame
    BY NewEntry DEF TypeInv, NumberType
  <2> HIDE DEF e
  <2>3. Sent' = Sent \/ Sent' = Append(Sent, e)
    BY <1>T, <2>1 DEF Sent, TypeInv, ChannelType
  <2>4. Encoding /\ ~Encoding'
    BY <2>1 DEF Encoding
  <2>5. Below(Sent, e.frame) /\ (Pending => call[generation].frame < e.frame)
    BY <2>1, <2>2, <2>4 DEF OrderInv
  <2>6. Increasing(Sent')
    BY <1>T, <2>1, <2>2, <2>3, <2>5, AppendLater DEF OrderInv
  <2>7. Pending => \A i \in DOMAIN Sent' : call[generation].frame < Sent'[i].frame
    BY <1>T, <2>1, <2>2, <2>3, <2>5, AppendLater DEF OrderInv
  <2>8. (Pending' <=> Pending) /\ ~firstFrame
    BY <2>1 DEF Pending, OrderInv
  <2>9. QED
    BY <2>1, <2>4, <2>6, <2>7, <2>8 DEF OrderInv
<1>8. ASSUME NEW g \in Generations,
             LoseSample(g) \/ EncodedSample(g) \/ PopAttributes(g) \/ Deliver(g)
      PROVE  OrderInv'
  <2>1. UNCHANGED <<pc, frame, writer, generation, firstFrame>>
    BY <1>8, SinkFrame
  <2>2. Increasing(attributes')
        /\ (pc \in {"requestKeyFrame", "makeSample"} => Below(attributes', frame))
    BY <1>8, <1>T, SinkQueue, SubKeeps DEF OrderInv
  <2>3. ASSUME Live
        PROVE  /\ Increasing(Sent')
               /\ firstFrame => Sent' = <<>> /\ ~Pending'
               /\ Encoding => Below(Sent', frame) /\ (Pending' => call'[generation'].frame < frame)
               /\ Pending' => \A i \in DOMAIN Sent' : call'[generation'].frame < Sent'[i].frame
    <3>0. /\ Sent \in Seq(Entry) /\ Increasing(Sent)
          /\ firstFrame => Sent = <<>> /\ ~Pending
          /\ Encoding => Below(Sent, frame) /\ (Pending => call[generation].frame < frame)
          /\ Pending => \A i \in DOMAIN Sent : call[generation].frame < Sent[i].frame
      BY <1>T, <2>3 DEF OrderInv
    <3>1. CASE SameSamples
      BY <3>0, <3>1 DEF SameSamples, Pending
    <3>2. CASE LosesFirst
      <4>1. Sent # <<>> /\ Sent' = Tail(Sent) /\ Tail(Sent) \in Seq(Entry) /\ Sub(Tail(Sent), Sent)
        BY <3>0, <3>2, TailSub DEF LosesFirst
      <4>2. Increasing(Sent') /\ (Encoding => Below(Sent', frame))
        BY <3>0, <4>1, SubKeeps
      <4>3. Pending => \A i \in DOMAIN Sent' : call[generation].frame < Sent'[i].frame
        BY <3>0, <4>1, SubKeeps
      <4>4. QED
        BY <3>0, <3>2, <4>1, <4>2, <4>3 DEF LosesFirst, Pending
    <3>3. CASE EntersFirst
      <4>1. Sent # <<>> /\ Sent' = Tail(Sent) /\ Tail(Sent) \in Seq(Entry) /\ Sub(Tail(Sent), Sent)
        BY <3>0, <3>3, TailSub DEF EntersFirst
      <4>2. Increasing(Sent') /\ (Encoding => Below(Sent', frame))
        BY <3>0, <4>1, SubKeeps
      <4>3. call'[generation'].frame = Head(Sent).frame
        BY <3>3 DEF EntersFirst
      <4>4. 1 \in DOMAIN Sent /\ Head(Sent) = Sent[1]
            /\ \A i \in DOMAIN Sent' : Head(Sent).frame < Sent'[i].frame
        BY <3>0, <4>1, HeadFirst
      <4>5. Encoding => Head(Sent).frame < frame
        BY <3>0, <4>4 DEF Below
      <4>6. QED
        BY <3>0, <4>1, <4>2, <4>3, <4>4, <4>5
    <3>4. CASE EndsCall
      BY <3>0, <3>4 DEF EndsCall
    <3>5. QED
      BY <1>8, <2>3, <3>1, <3>2, <3>3, <3>4, SinkView
  <2>4. (Live' <=> Live) /\ (Encoding' <=> Encoding)
    BY <2>1 DEF Live, Encoding
  <2>5. pc = "writeSample" => ~firstFrame
    BY DEF OrderInv
  <2>6. QED
    BY <2>1, <2>2, <2>3, <2>4, <2>5 DEF OrderInv
<1>9. CASE EmptySample
  <2>1. /\ UNCHANGED <<frame, attributes>> /\ Live' = Live /\ Sent' = Sent
        /\ Pending' = Pending /\ call'[generation'] = call[generation] /\ firstFrame' = FALSE
    BY <1>9, EmptyFrame DEF Live, Sent, Pending
  <2>2. pc = "makeSample" /\ pc' \in {"makeSample", "idle"} /\ Encoding
    BY <1>9, EmptyFrame DEF Encoding
  <2>3. QED
    BY <2>1, <2>2 DEF OrderInv
<1>10. QED
  BY <1>1, <1>2, <1>3, <1>4, <1>5, <1>6, <1>7, <1>8, <1>9, Kinds

-----------------------------------------------------------------------------
(* The attributes a sample finds.                                          *)

\* Of two entries or samples, the one of the earlier frame has the smaller
\* time.
LEMMA DatedOrder ==
  ASSUME NoFullCycle, NEW f0 \in Nat, NEW last \in Nat, last <= MaxFrames, NEW start,
         start = Timestamp(f0), NEW a, NEW b,
         Dated(a, f0, last, start), Dated(b, f0, last, start), a.frame < b.frame
  PROVE  a.id < b.id
<1> DEFINE f == a.frame
           h == b.frame
<1>1. /\ f \in Nat /\ h \in Nat /\ f0 <= f /\ f < h /\ h <= MaxFrames
      /\ a.id = GetFrameTimestampHns(f, Timestamp(f0))
      /\ b.id = GetFrameTimestampHns(h, Timestamp(f0))
  BY EncoderAssumption DEF Dated
<1> HIDE DEF f, h
<1>2. QED
  BY <1>1, TimesFollowFrames

\* The queue is ordered by time, and a sample in OnH264Encoded has the time
\* of the entry of its frame and of no other.
LEMMA TimesOrdered ==
  ASSUME NoFullCycle, TypeInv, ControlInv, IdleInv, DatedInv, OrderInv
  PROVE  /\ Ordered(attributes)
         /\ Live /\ Pending => \A i \in DOMAIN attributes :
              attributes[i].id = call[generation].id <=>
                attributes[i].frame = call[generation].frame
<1>0. PICK f0 \in Nat : StartedAt(f0)
  BY DEF DatedInv
<1>T. /\ attributes \in Seq(Entry) /\ frame \in Nat /\ frame <= MaxFrames
      /\ \A i \in DOMAIN attributes : attributes[i].id \in Nat /\ attributes[i].frame \in Nat
      /\ Live => call[generation].frame \in Nat /\ call[generation].id \in Nat
  BY CurrentTypes, QueueFacts DEF IdleInv
<1>1. CASE firstFrame
  <2>1. DOMAIN attributes = {}
    BY <1>1, EmptyFacts DEF ControlInv
  <2>2. QED
    BY <2>1 DEF Ordered
<1>2. CASE ~firstFrame
  <2>1. /\ startTime = Timestamp(f0)
        /\ \A i \in DOMAIN attributes : Dated(attributes[i], f0, frame, startTime)
    BY <1>0, <1>2 DEF StartedAt, AllDated
  <2>2. Ordered(attributes)
    <3>1. ASSUME NEW i \in DOMAIN attributes, NEW j \in DOMAIN attributes, i < j
          PROVE  attributes[i].id < attributes[j].id
      <4>1. attributes[i].frame < attributes[j].frame
        BY <3>1 DEF OrderInv, Increasing
      <4>2. QED
        BY <1>T, <2>1, <4>1, DatedOrder
    <3>2. QED
      BY <3>1 DEF Ordered
  <2>3. ASSUME Live, Pending, NEW i \in DOMAIN attributes
        PROVE  attributes[i].id = call[generation].id <=>
                 attributes[i].frame = call[generation].frame
    <3> DEFINE c == call[generation]
               e == attributes[i]
    <3>1. Dated(c, f0, frame, startTime) /\ Dated(e, f0, frame, startTime)
      BY <1>0, <2>1, <2>3 DEF StartedAt
    <3>2. c.frame \in Nat /\ c.id \in Nat /\ e.frame \in Nat /\ e.id \in Nat
      BY <1>T, <2>3
    <3> HIDE DEF c, e
    <3>3. ASSUME e.frame = c.frame PROVE e.id = c.id <=> e.frame = c.frame
      BY <3>1, <3>3 DEF Dated
    <3>4. ASSUME e.frame < c.frame PROVE e.id = c.id <=> e.frame = c.frame
      <4>1. e.id < c.id
        BY <1>T, <2>1, <3>1, <3>4, DatedOrder
      <4>2. QED
        BY <3>2, <3>4, <4>1
    <3>5. ASSUME c.frame < e.frame PROVE e.id = c.id <=> e.frame = c.frame
      <4>1. c.id < e.id
        BY <1>T, <2>1, <3>1, <3>5, DatedOrder
      <4>2. QED
        BY <3>2, <3>5, <4>1
    <3>6. e.id = c.id <=> e.frame = c.frame
      BY <3>2, <3>3, <3>4, <3>5
    <3>7. QED
      BY <3>6 DEF c, e
  <2>4. QED
    BY <2>2, <2>3
<1>3. QED
  BY <1>1, <1>2

Cached(q, f) == \E i \in DOMAIN q : q[i].frame = f

\* Until a replaced writer interferes, each sample on the way finds its entry.
FoundInv ==
  ~latePop =>
    /\ pc = "writeSample" => Cached(attributes, frame)
    /\ Live => /\ \A i \in DOMAIN Sent : Cached(attributes, Sent[i].frame)
               /\ Pending => Cached(attributes, call[generation].frame)

\* So the calls and the images have the right attributes.
MatchInv ==
  ~latePop =>
    /\ \A g \in Generations : call[g].stage = "popped" => call[g].attr = call[g].frame
    /\ AttributesMatch

\* The lookup of a sample whose entry is cached: the entry is found, and the
\* entries of later frames stay.
LEMMA PopCached ==
  ASSUME NoFullCycle, TypeInv, ControlInv, IdleInv, DatedInv, OrderInv, Live, Pending,
         Cached(attributes, call[generation].frame)
  PROVE  LET r == Pop(attributes, call[generation].id)
         IN  /\ r.found /\ r.frame = call[generation].frame
             /\ \A f \in Nat : f > call[generation].frame /\ Cached(attributes, f) =>
                  Cached(r.queue, f)
<1> DEFINE c == call[generation]
           r == Pop(attributes, c.id)
<1>1. PICK k \in DOMAIN attributes : attributes[k].frame = c.frame
  BY DEF Cached
<1>2. attributes[k].id = c.id
  BY <1>1, TimesOrdered
<1>3. Ordered(attributes) /\ Increasing(attributes)
  BY TimesOrdered DEF OrderInv
<1>4. attributes \in Seq(Entry) /\ Len(attributes) <= 3 /\ c.frame \in Nat
  BY CurrentTypes DEF IdleInv
<1>5. /\ r.found /\ r.frame = c.frame
      /\ \A i \in DOMAIN attributes : i > k =>
           \E j \in DOMAIN r.queue : r.queue[j] = attributes[i]
  BY <1>1, <1>2, <1>3, <1>4, PopFinds
<1>6. DOMAIN attributes \subseteq Nat
  BY <1>4, QueueFacts
<1> HIDE DEF c, r
<1>7. ASSUME NEW f \in Nat, f > c.frame, Cached(attributes, f) PROVE Cached(r.queue, f)
  <2>1. PICK i \in DOMAIN attributes : attributes[i].frame = f
    BY <1>7 DEF Cached
  <2>2. i > k
    <3>1. ~(i < k) /\ i # k
      BY <1>1, <1>3, <1>4, <1>7, <2>1 DEF Increasing
    <3>2. QED
      BY <1>6, <3>1
  <2>3. QED
    BY <1>5, <2>1, <2>2 DEF Cached
<1>8. QED
  BY <1>5, <1>7 DEF c, r

\* A step of a writer that was replaced is noticed.
LEMMA PopIsCurrent ==
  ASSUME TypeInv, NEW g \in Generations, PopAttributes(g), ~latePop'
  PROVE  ~latePop /\ g = generation /\ Live /\ Pending
<1>1. latePop' = (latePop \/ g # generation \/ writer = "none") /\ call[g].stage = "entered"
  BY PopFrame
<1>2. ~latePop /\ g = generation /\ writer # "none"
  BY <1>1, Zenon
<1>3. QED
  BY <1>1, <1>2 DEF Live, Pending

\* Without such a step the samples keep finding their entries.
LEMMA FoundStep ==
  ASSUME NoFullCycle, TypeInv, ControlInv, IdleInv, DatedInv, OrderInv, FoundInv, [Next]_vars
  PROVE  FoundInv'
<1>T. /\ attributes \in Seq(Entry) /\ frame \in Nat
      /\ Live => generation \in Generations /\ Sent \in Seq(Entry)
                 /\ call[generation].frame \in Nat /\ \A i \in DOMAIN Sent : Sent[i].frame \in Nat
  BY CurrentTypes, QueueFacts DEF IdleInv
<1>1. CASE Quiet
  <2>1. /\ UNCHANGED <<frame, attributes, latePop>> /\ Live' = Live /\ Sent' = Sent
        /\ Pending' = Pending /\ call'[generation'] = call[generation]
    BY <1>1, QuietFrame DEF Live, Sent, Pending
  <2>2. pc' = "writeSample" => pc = "writeSample"
    BY <1>1, QuietEffect
  <2>3. QED
    BY <2>1, <2>2 DEF FoundInv
<1>2. CASE Advance
  <2>1. /\ UNCHANGED <<attributes, latePop>> /\ Live' = Live /\ Sent' = Sent
        /\ Pending' = Pending /\ call'[generation'] = call[generation]
        /\ pc' \in {"idle", "requestKeyFrame"}
    BY <1>2, AdvanceFrame DEF Live, Sent, Pending
  <2>2. QED
    BY <2>1 DEF FoundInv
<1>3. CASE Clear
  <2>1. ~Live' /\ pc' = "shutdownSink"
    BY <1>3, ClearFrame DEF Live
  <2>2. QED
    BY <2>1 DEF FoundInv
<1>4. CASE Build
  <2>1. Sent' = <<>> /\ ~Pending' /\ pc' # "writeSample"
    BY <1>4, BuildFrame, BuildView
  <2>2. QED
    BY <2>1, EmptyFacts DEF FoundInv
<1>5. CASE ShutdownSink
  <2>1. /\ UNCHANGED <<attributes, call, writer, generation, latePop>>
        /\ pc' \in {"idle", "restoreCallback"}
    BY <1>5, ShutdownFrame
  <2>2. Live => Sent' = <<>>
    BY <1>5, <1>T, ShutdownFrame DEF Sent
  <2>3. (Pending' <=> Pending) /\ (Live' <=> Live)
    BY <2>1 DEF Pending, Live
  <2>4. QED
    BY <2>1, <2>2, <2>3, EmptyFacts DEF FoundInv
<1>6. CASE FromVideoFrame
  <2> DEFINE e == [id |-> GetFrameTimestampHns(frame, startTime'), frame |-> frame]
  <2>1. /\ UNCHANGED <<frame, latePop, writer, generation, channel, call>>
        /\ attributes' = Append(attributes, e)
    BY <1>6, MakeFrame
  <2>2. e \in Entry /\ e.frame = frame
    BY <1>6, MakeFrame, StartFacts, NewEntry DEF TypeInv
  <2> HIDE DEF e
  <2>3. /\ DOMAIN attributes' = 1 .. Len(attributes) + 1 /\ DOMAIN attributes = 1 .. Len(attributes)
        /\ Len(attributes) \in Nat
        /\ \A i \in DOMAIN attributes : attributes'[i] = attributes[i]
        /\ attributes'[Len(attributes) + 1] = e
    BY <1>T, <2>1, <2>2, AppendFacts
  <2>4. Len(attributes) + 1 \in DOMAIN attributes' /\ DOMAIN attributes \subseteq DOMAIN attributes'
    BY <2>3
  <2>5. Cached(attributes', frame)
    BY <2>2, <2>3, <2>4 DEF Cached
  <2>6. \A f : Cached(attributes, f) => Cached(attributes', f)
    BY <2>3, <2>4 DEF Cached
  <2>7. Live' = Live /\ Sent' = Sent /\ Pending' = Pending
    BY <2>1 DEF Live, Sent, Pending
  <2>8. QED
    BY <2>1, <2>5, <2>6, <2>7 DEF FoundInv
<1>7. CASE WriteSample
  <2> DEFINE e == [id |-> GetFrameTimestampHns(frame, startTime), frame |-> frame]
  <2>1. /\ UNCHANGED <<frame, writer, generation, attributes, call, latePop>>
        /\ channel' = channel \/ channel' = [channel EXCEPT ![generation] = Append(@, e)]
        /\ Live /\ pc = "writeSample" /\ pc' = "idle"
    BY <1>7, WriteFrame DEF Live
  <2>2. e \in Entry /\ e.frame = frame
    BY NewEntry DEF TypeInv, NumberType
  <2> HIDE DEF e
  <2>3. Sent' = Sent \/ Sent' = Append(Sent, e)
    BY <1>T, <2>1 DEF Sent, TypeInv, ChannelType
  <2>4. \A i \in DOMAIN Sent' : (i \in DOMAIN Sent /\ Sent'[i] = Sent[i]) \/ Sent'[i] = e
    <3>1. CASE Sent' = Sent
      BY <3>1
    <3>2. CASE Sent' = Append(Sent, e)
      <4>1. /\ DOMAIN Sent' = 1 .. Len(Sent) + 1 /\ DOMAIN Sent = 1 .. Len(Sent)
            /\ Len(Sent) \in Nat
            /\ \A i \in DOMAIN Sent : Sent'[i] = Sent[i]
            /\ Sent'[Len(Sent) + 1] = e
        BY <1>T, <2>1, <2>2, <3>2, AppendFacts
      <4>2. \A i \in DOMAIN Sent' : i \in DOMAIN Sent \/ i = Len(Sent) + 1
        BY <4>1
      <4>3. QED
        BY <4>1, <4>2
    <3>3. QED
      BY <2>3, <3>1, <3>2
  <2>5. (Pending' <=> Pending) /\ (Live' <=> Live)
    BY <2>1 DEF Pending, Live
  <2>6. ~latePop => \A i \in DOMAIN Sent' : Cached(attributes, Sent'[i].frame)
    BY <2>1, <2>2, <2>4 DEF FoundInv
  <2>7. QED
    BY <2>1, <2>5, <2>6 DEF FoundInv
<1>8. ASSUME NEW g \in Generations, LoseSample(g) \/ EncodedSample(g) \/ Deliver(g)
      PROVE  FoundInv'
  <2>1. UNCHANGED <<pc, frame, writer, generation, attributes, latePop>>
    BY <1>8, SinkFrame, LoseFrame, EnterFrame, DeliverFrame
  <2>2. ASSUME Live, ~latePop
        PROVE  /\ \A i \in DOMAIN Sent' : Cached(attributes, Sent'[i].frame)
               /\ Pending' => Cached(attributes, call'[generation'].frame)
    <3>0. /\ Sent \in Seq(Entry) /\ \A i \in DOMAIN Sent : Cached(attributes, Sent[i].frame)
          /\ Pending => Cached(attributes, call[generation].frame)
      BY <1>T, <2>2 DEF FoundInv
    <3>1. CASE SameSamples
      BY <3>0, <3>1 DEF SameSamples, Pending
    <3>2. CASE LosesFirst
      <4>1. \A i \in DOMAIN Sent' : i + 1 \in DOMAIN Sent /\ Sent'[i] = Sent[i + 1]
        BY <3>0, <3>2, TailFacts DEF LosesFirst
      <4>2. QED
        BY <3>0, <3>2, <4>1 DEF LosesFirst, Pending
    <3>3. CASE EntersFirst
      <4>1. \A i \in DOMAIN Sent' : i + 1 \in DOMAIN Sent /\ Sent'[i] = Sent[i + 1]
        BY <3>0, <3>3, TailFacts DEF EntersFirst
      <4>2. 1 \in DOMAIN Sent /\ Head(Sent) = Sent[1]
        BY <2>2, <3>0, <3>3, HeadFirst DEF EntersFirst, OrderInv
      <4>3. call'[generation'].frame = Head(Sent).frame
        BY <3>3 DEF EntersFirst
      <4>4. QED
        BY <3>0, <4>1, <4>2, <4>3
    <3>4. CASE EndsCall
      BY <3>0, <3>4 DEF EndsCall
    <3>5. QED
      BY <1>8, <2>2, <3>1, <3>2, <3>3, <3>4, SinkView
  <2>3. Live' <=> Live
    BY <2>1 DEF Live
  <2>4. QED
    BY <2>1, <2>2, <2>3 DEF FoundInv
<1>9. ASSUME NEW g \in Generations, PopAttributes(g), ~latePop'
      PROVE  FoundInv'
  <2> DEFINE c == call[generation]
             r == Pop(attributes, c.id)
  <2>1. UNCHANGED <<pc, frame, writer, generation, channel>>
    BY <1>9, SinkFrame, PopFrame
  <2>2. ~latePop /\ g = generation /\ Live /\ Pending
    BY <1>9, PopIsCurrent
  <2>3. attributes' = r.queue
    BY <1>9, <2>2, PopFrame
  <2>4. Cached(attributes, c.frame)
    BY <2>2 DEF FoundInv
  <2>5. \A f \in Nat : f > c.frame /\ Cached(attributes, f) => Cached(r.queue, f)
    BY <2>2, <2>4, PopCached
  <2>6. ~Pending'
    <3>1. call'[g].stage # "entered"
      <4>1. call'[g] = IF r.found THEN [call[g] EXCEPT !.stage = "popped", !.attr = r.frame]
                                  ELSE NoCall
        BY <1>9, <2>2, PopFrame DEF TypeInv, CallType
      <4>2. call[g] \in Calls
        BY CallFacts DEF TypeInv
      <4> HIDE DEF r
      <4>3. QED
        BY <4>1, <4>2, NoCallFacts DEF Calls
    <3>2. QED
      BY <2>1, <2>2, <3>1 DEF Pending
  <2> HIDE DEF r, c
  <2>7. \A i \in DOMAIN Sent : Cached(attributes', Sent[i].frame)
    <3>1. \A i \in DOMAIN Sent : Sent[i].frame > c.frame /\ Sent[i].frame \in Nat
          /\ Cached(attributes, Sent[i].frame)
      BY <1>T, <2>2 DEF OrderInv, FoundInv, c
    <3>2. QED
      BY <2>3, <2>5, <3>1
  <2>8. pc = "writeSample" => Cached(attributes', frame)
    <3>1. pc = "writeSample" => frame > c.frame /\ Cached(attributes, frame)
      BY <1>T, <2>2 DEF OrderInv, FoundInv, Encoding, c
    <3>2. QED
      BY <1>T, <2>3, <2>5, <3>1
  <2>9. QED
    BY <2>1, <2>6, <2>7, <2>8 DEF FoundInv, Sent
<1>10. CASE EmptySample
  <2>1. /\ UNCHANGED <<frame, attributes, latePop>> /\ Live' = Live /\ Sent' = Sent
        /\ Pending' = Pending /\ call'[generation'] = call[generation]
        /\ pc' # "writeSample"
    BY <1>10, EmptyFrame DEF Live, Sent, Pending
  <2>2. QED
    BY <2>1 DEF FoundInv
<1>11. QED
  BY <1>1, <1>2, <1>3, <1>4, <1>5, <1>6, <1>7, <1>8, <1>9, <1>10, Kinds DEF FoundInv

\* The calls and the images.
LEMMA MatchStep ==
  ASSUME NoFullCycle, TypeInv, ControlInv, IdleInv, DatedInv, OrderInv, FoundInv, MatchInv,
         [Next]_vars
  PROVE  MatchInv'
<1>0. call \in [Generations -> Calls] /\ delivered \in Seq(Images)
  BY DEF TypeInv, CallType
<1>1. CASE \/ Quiet \/ Advance \/ Clear \/ Build \/ ShutdownSink \/ FromVideoFrame
           \/ WriteSample \/ EmptySample
  <2>1. UNCHANGED <<call, delivered, latePop>>
    BY <1>1, QuietFrame, AdvanceFrame, ClearFrame, BuildFrame, ShutdownFrame, MakeFrame,
       WriteFrame, EmptyFrame
  <2>2. QED
    BY <2>1 DEF MatchInv, AttributesMatch
<1>2. CASE \E g \in Generations : LoseSample(g)
  <2>1. UNCHANGED <<call, delivered, latePop>>
    BY <1>2, LoseFrame
  <2>2. QED
    BY <2>1 DEF MatchInv, AttributesMatch
<1>3. ASSUME NEW g \in Generations, EncodedSample(g) PROVE MatchInv'
  <2>1. UNCHANGED <<delivered, latePop>> /\ call'[g].stage = "entered"
        /\ \A h \in Generations : h # g => call'[h] = call[h]
    BY <1>0, <1>3, EnterFrame
  <2>2. \A h \in Generations : call'[h].stage = "popped" => call'[h] = call[h]
    BY <2>1
  <2>3. QED
    BY <2>1, <2>2 DEF MatchInv, AttributesMatch
<1>4. ASSUME NEW g \in Generations, PopAttributes(g), ~latePop' PROVE MatchInv'
  <2> DEFINE r == Pop(attributes, call[g].id)
  <2>1. ~latePop /\ g = generation /\ Live /\ Pending
    BY <1>4, PopIsCurrent
  <2>2. Cached(attributes, call[generation].frame)
    BY <2>1 DEF FoundInv
  <2>3. r.found /\ r.frame = call[g].frame
    BY <2>1, <2>2, PopCached
  <2>4. /\ delivered' = delivered
        /\ call' = [call EXCEPT ![g] = IF r.found
                                         THEN [@ EXCEPT !.stage = "popped", !.attr = r.frame]
                                         ELSE NoCall]
    BY <1>4, PopFrame
  <2> HIDE DEF r
  <2>5. call[g] \in Calls
    BY <1>0
  <2>6. call'[g] = [call[g] EXCEPT !.stage = "popped", !.attr = r.frame]
        /\ \A h \in Generations : h # g => call'[h] = call[h]
    BY <1>0, <2>3, <2>4
  <2>7. call'[g].attr = call'[g].frame
    BY <2>3, <2>5, <2>6 DEF Calls
  <2>8. \A h \in Generations : call'[h].stage = "popped" => call'[h].attr = call'[h].frame
    BY <2>1, <2>6, <2>7 DEF MatchInv
  <2>9. QED
    BY <2>1, <2>4, <2>8 DEF MatchInv, AttributesMatch
<1>5. ASSUME NEW g \in Generations, Deliver(g) PROVE MatchInv'
  <2> DEFINE e == [frame |-> call[g].frame, attr |-> call[g].attr]
  <2>1. /\ latePop' = latePop /\ call' = [call EXCEPT ![g] = NoCall] /\ call[g].stage = "popped"
        /\ delivered' = delivered \/ delivered' = Append(delivered, e)
    BY <1>5, DeliverFrame
  <2>2. \A h \in Generations : call'[h].stage = "popped" => call'[h] = call[h]
    BY <1>0, <2>1, NoCallFacts
  <2>3. e \in Images /\ e.frame = call[g].frame /\ e.attr = call[g].attr
    BY CallFacts DEF TypeInv, Images
  <2> HIDE DEF e
  <2>4. \A i \in DOMAIN delivered' :
          (i \in DOMAIN delivered /\ delivered'[i] = delivered[i]) \/ delivered'[i] = e
    <3>1. CASE delivered' = delivered
      BY <3>1
    <3>2. CASE delivered' = Append(delivered, e)
      <4>1. /\ DOMAIN delivered' = 1 .. Len(delivered) + 1 /\ DOMAIN delivered = 1 .. Len(delivered)
            /\ Len(delivered) \in Nat
            /\ \A i \in DOMAIN delivered : delivered'[i] = delivered[i]
            /\ delivered'[Len(delivered) + 1] = e
        BY <1>0, <2>3, <3>2, AppendFacts
      <4>2. \A i \in DOMAIN delivered' : i \in DOMAIN delivered \/ i = Len(delivered) + 1
        BY <4>1
      <4>3. QED
        BY <4>1, <4>2
    <3>3. QED
      BY <2>1, <3>1, <3>2
  <2>5. ~latePop => e.attr = e.frame
    BY <2>1, <2>3 DEF MatchInv
  <2>6. ~latePop => \A i \in DOMAIN delivered' : delivered'[i].attr = delivered'[i].frame
    BY <2>4, <2>5 DEF MatchInv, AttributesMatch
  <2>7. ~latePop =>
          \A h \in Generations : call'[h].stage = "popped" => call'[h].attr = call'[h].frame
    BY <2>2 DEF MatchInv
  <2>8. QED
    BY <2>1, <2>6, <2>7 DEF MatchInv, AttributesMatch
<1>6. QED
  BY <1>1, <1>2, <1>3, <1>4, <1>5, Kinds DEF MatchInv

-----------------------------------------------------------------------------
(* The samples an entry waits for.                                         *)

Healthy == losses = 0 /\ writeFailures = 0 /\ ~crashed
OnTheWay(e) ==
  \/ pc = "writeSample" /\ e.frame = frame
  \/ /\ inited
     /\ \/ \E j \in DOMAIN Sent : Sent[j] = e
        \/ Pending /\ call[generation].frame = e.frame

\* Each entry has its sample on the way, or about to be written.
EntryInv == Healthy => \A i \in DOMAIN attributes : OnTheWay(attributes[i])

\* The invariant that all the conjuncts so far form.
SampleInv == TypeInv /\ ControlInv /\ IdleInv /\ DatedInv /\ OrderInv

\* An entry leaves the way only when it leaves the queue.
LEMMA EntryStep ==
  ASSUME NoFullCycle, SampleInv, EntryInv, [Next]_vars PROVE EntryInv'
<1> USE DEF SampleInv
<1>T. /\ attributes \in Seq(Entry) /\ Len(attributes) <= 3 /\ frame \in Nat
      /\ Live => generation \in Generations /\ Sent \in Seq(Entry) /\ call[generation].id \in Nat
      /\ inited => Live
      /\ \A i \in DOMAIN attributes : attributes[i] \in Entry
  BY CurrentTypes, ElementFacts DEF IdleInv, ControlInv, Live
<1>1. CASE Quiet
  <2>1. /\ UNCHANGED <<frame, attributes, losses, inited>> /\ Sent' = Sent
        /\ Pending' = Pending /\ call'[generation'] = call[generation]
    BY <1>1, QuietFrame DEF Sent, Pending
  <2>2. writeFailures \in Nat /\ crashed \in BOOLEAN
    BY DEF TypeInv, NumberType, FlagType
  <2>3. Healthy' => Healthy
    BY <1>1, <2>1, <2>2, QuietEffect DEF Healthy
  <2>4. Healthy' /\ pc = "writeSample" => pc' = "writeSample"
    <3>1. Healthy' => crashed' # TRUE /\ writeFailures' = 0
      BY DEF Healthy
    <3>2. writeFailures + 1 # 0
      BY <2>2
    <3>3. QED
      BY <1>1, <3>1, <3>2, QuietEffect
  <2>5. QED
    BY <2>1, <2>3, <2>4 DEF EntryInv, OnTheWay
<1>2. CASE Advance
  <2>1. /\ UNCHANGED <<attributes, losses, writeFailures, crashed, inited>> /\ Sent' = Sent
        /\ Pending' = Pending /\ call'[generation'] = call[generation] /\ pc = "idle"
    BY <1>2, AdvanceFrame DEF Sent, Pending
  <2>2. QED
    BY <2>1 DEF EntryInv, OnTheWay, Healthy
<1>3. CASE Clear
  BY <1>3, ClearFrame, EmptyFacts DEF EntryInv
<1>4. CASE Build
  <2>1. UNCHANGED <<attributes, losses, writeFailures, crashed>> /\ pc # "writeSample"
    BY <1>4, BuildFrame
  <2>2. ~inited
    BY <1>4, BuildFrame DEF ControlInv, Rebuilding
  <2>3. QED
    BY <2>1, <2>2 DEF EntryInv, OnTheWay, Healthy
<1>5. CASE ShutdownSink
  <2>1. attributes' = attributes /\ attributes = <<>>
    BY <1>5, ShutdownFrame DEF ControlInv, Rebuilding
  <2>2. QED
    BY <2>1, EmptyFacts DEF EntryInv
<1>6. CASE FromVideoFrame
  <2> DEFINE e == [id |-> GetFrameTimestampHns(frame, startTime'), frame |-> frame]
  <2>1. /\ UNCHANGED <<frame, inited, losses, writeFailures, crashed, generation, channel, call>>
        /\ attributes' = Append(attributes, e)
        /\ pc = "makeSample" /\ pc' = "writeSample"
    BY <1>6, MakeFrame
  <2>2. e \in Entry /\ e.frame = frame
    BY <1>6, MakeFrame, StartFacts, NewEntry DEF TypeInv
  <2> HIDE DEF e
  <2>3. \A i \in DOMAIN attributes' :
          (i \in DOMAIN attributes /\ attributes'[i] = attributes[i]) \/ attributes'[i] = e
    <3>1. /\ DOMAIN attributes' = 1 .. Len(attributes) + 1
          /\ DOMAIN attributes = 1 .. Len(attributes) /\ Len(attributes) \in Nat
          /\ \A i \in DOMAIN attributes : attributes'[i] = attributes[i]
          /\ attributes'[Len(attributes) + 1] = e
      BY <1>T, <2>1, <2>2, AppendFacts
    <3>2. \A i \in DOMAIN attributes' : i \in DOMAIN attributes \/ i = Len(attributes) + 1
      BY <3>1
    <3>3. QED
      BY <3>1, <3>2
  <2>4. Sent' = Sent /\ Pending' = Pending /\ (Healthy' <=> Healthy)
    BY <2>1 DEF Sent, Pending, Healthy
  <2>5. QED
    BY <2>1, <2>2, <2>3, <2>4 DEF EntryInv, OnTheWay
<1>7. CASE WriteSample
  <2> DEFINE e == [id |-> GetFrameTimestampHns(frame, startTime), frame |-> frame]
  <2>1. /\ UNCHANGED <<frame, inited, writer, generation, attributes, call, losses, crashed>>
        /\ \/ channel' = [channel EXCEPT ![generation] = Append(@, e)]
              /\ writeFailures' = writeFailures
           \/ channel' = channel /\ writeFailures' = writeFailures + 1
        /\ writer = "begun"
    BY <1>7, WriteFrame
  <2>2. e \in Entry
    BY NewEntry DEF TypeInv, NumberType
  <2>3. inited /\ Live
    BY <2>1 DEF ControlInv, Live
  <2>4. \A x \in Entry : x.frame = frame /\ x.id = GetFrameTimestampHns(x.frame, startTime) => x = e
    BY DEF Entry
  <2> HIDE DEF e
  <2>5. \A i \in DOMAIN attributes :
          attributes[i].id = GetFrameTimestampHns(attributes[i].frame, startTime)
    BY DEF DatedInv, StartedAt, AllDated, Dated
  <2>6. CASE writeFailures' = writeFailures + 1
    BY <2>6 DEF EntryInv, Healthy, TypeInv, NumberType
  <2>7. CASE channel' = [channel EXCEPT ![generation] = Append(@, e)]
             /\ writeFailures' = writeFailures
    <3>1. Sent' = Append(Sent, e)
      BY <1>T, <2>1, <2>3, <2>7 DEF Sent, TypeInv, ChannelType
    <3>2. /\ DOMAIN Sent' = 1 .. Len(Sent) + 1 /\ DOMAIN Sent = 1 .. Len(Sent)
          /\ Len(Sent) \in Nat
          /\ \A i \in DOMAIN Sent : Sent'[i] = Sent[i]
          /\ Sent'[Len(Sent) + 1] = e
      BY <1>T, <2>2, <2>3, <3>1, AppendFacts
    <3>3. (\E j \in DOMAIN Sent' : Sent'[j] = e)
          /\ \A x : (\E j \in DOMAIN Sent : Sent[j] = x) => \E j \in DOMAIN Sent' : Sent'[j] = x
      <4>1. Len(Sent) + 1 \in DOMAIN Sent' /\ DOMAIN Sent \subseteq DOMAIN Sent'
        BY <3>2
      <4>2. QED
        BY <3>2, <4>1
    <3>4. (Healthy' <=> Healthy) /\ (Pending' <=> Pending)
      BY <2>1, <2>7 DEF Healthy, Pending
    <3>5. ASSUME Healthy, NEW i \in DOMAIN attributes
          PROVE  \/ \E j \in DOMAIN Sent' : Sent'[j] = attributes[i]
                 \/ Pending /\ call[generation].frame = attributes[i].frame
      <4>1. CASE attributes[i].frame = frame
        <5>1. attributes[i] = e
          BY <1>T, <2>4, <2>5, <4>1
        <5>2. QED
          BY <3>3, <5>1
      <4>2. CASE attributes[i].frame # frame
        <5>1. OnTheWay(attributes[i])
          BY <3>5 DEF EntryInv
        <5>2. QED
          BY <3>3, <4>2, <5>1 DEF OnTheWay
      <4>3. QED
        BY <4>1, <4>2
    <3>6. QED
      BY <2>1, <2>3, <3>4, <3>5 DEF EntryInv, OnTheWay
  <2>8. QED
    BY <2>1, <2>6, <2>7
<1>8. ASSUME NEW g \in Generations,
             LoseSample(g) \/ EncodedSample(g) \/ PopAttributes(g) \/ Deliver(g),
             Healthy'
      PROVE  EntryInv'
  <2>1. UNCHANGED <<pc, frame, inited, writer, generation, writeFailures, crashed>>
    BY <1>8, SinkFrame
  <2>2. losses' = losses /\ Healthy
    <3>1. losses \in Nat
      BY DEF TypeInv, NumberType
    <3>2. losses' = losses \/ losses' = losses + 1
      BY <1>8 DEF LoseSample, EncodedSample, PopAttributes, Deliver, DiscardSample,
         OnEncodedImage, faultVars
    <3>3. QED
      BY <1>8, <2>1, <3>1, <3>2 DEF Healthy
  <2>3. \A i \in DOMAIN attributes' : \E j \in DOMAIN attributes : attributes'[i] = attributes[j]
    <3>1. CASE attributes' = attributes
      BY <3>1
    <3>2. CASE attributes' \in Seq(Entry) /\ Sub(attributes', attributes)
      BY <3>2 DEF Sub
    <3>3. QED
      BY <1>8, <3>1, <3>2, SinkQueue
  <2>4. ASSUME NEW i \in DOMAIN attributes'
        PROVE  \/ pc = "writeSample" /\ attributes'[i].frame = frame
               \/ /\ inited
                  /\ \/ \E j \in DOMAIN Sent' : Sent'[j] = attributes'[i]
                     \/ Pending' /\ call'[generation'].frame = attributes'[i].frame
    <3> DEFINE e == attributes'[i]
    <3>1. PICK k \in DOMAIN attributes : e = attributes[k]
      BY <2>3
    <3>2. OnTheWay(e)
      BY <2>2, <3>1 DEF EntryInv
    <3>3. CASE pc = "writeSample" /\ e.frame = frame
      BY <3>3
    <3>4. CASE /\ inited
               /\ \/ \E j \in DOMAIN Sent : Sent[j] = e
                  \/ Pending /\ call[generation].frame = e.frame
      <4>0. Live /\ Sent \in Seq(Entry)
        BY <1>T, <3>4
      <4>1. CASE SameSamples
        BY <3>4, <4>1 DEF SameSamples, Pending
      <4>2. CASE LosesFirst
        <5>1. losses' # losses
          BY <4>2 DEF LosesFirst, TypeInv, NumberType
        <5>2. QED
          BY <2>2, <5>1
      <4>3. CASE EntersFirst
        <5>1. PICK j \in DOMAIN Sent : Sent[j] = e
          BY <3>4, <4>3 DEF EntersFirst
        <5>2. CASE j = 1
          BY <3>4, <4>0, <4>3, <5>1, <5>2, TailFacts DEF EntersFirst, Pending
        <5>3. CASE j # 1
          <6>1. /\ DOMAIN Sent = 1 .. Len(Sent) /\ Len(Sent) \in Nat
                /\ Sent' \in Seq(Entry) /\ Len(Sent') = Len(Sent) - 1
                /\ \A m \in DOMAIN Sent' : Sent'[m] = Sent[m + 1]
            BY <4>0, <4>3, TailFacts, QueueFacts DEF EntersFirst
          <6>2. DOMAIN Sent' = 1 .. Len(Sent')
            BY <6>1, QueueFacts
          <6>3. j - 1 \in DOMAIN Sent' /\ (j - 1) + 1 = j
            BY <5>1, <5>3, <6>1, <6>2
          <6>4. QED
            BY <3>4, <5>1, <6>1, <6>3
        <5>4. QED
          BY <5>2, <5>3
      <4>4. CASE EndsCall
        <5>1. ~(Pending /\ call[generation].frame = e.frame)
          <6>1. SUFFICES ASSUME Pending, call[generation].frame = e.frame PROVE FALSE
            OBVIOUS
          <6>2. attributes' = Pop(attributes, call[generation].id).queue
            BY <4>4, <6>1 DEF EndsCall
          <6>3. e.id > call[generation].id
            BY <1>T, <4>0, <6>2, PopLeavesLater, TimesOrdered
          <6>4. e.id = call[generation].id
            BY <3>1, <4>0, <6>1, TimesOrdered
          <6>5. QED
            BY <1>T, <4>0, <6>3, <6>4
        <5>2. QED
          BY <3>4, <4>4, <5>1 DEF EndsCall
      <4>5. QED
        BY <1>8, <4>0, <4>1, <4>2, <4>3, <4>4, SinkView
    <3>5. QED
      BY <3>2, <3>3, <3>4 DEF OnTheWay
  <2>5. QED
    BY <2>1, <2>4 DEF EntryInv, OnTheWay
<1>9. CASE EmptySample
  <2>1. /\ UNCHANGED <<frame, attributes, losses, writeFailures, inited>> /\ Sent' = Sent
        /\ Pending' = Pending /\ call'[generation'] = call[generation]
        /\ pc = "makeSample" /\ ~crashed
    BY <1>9, EmptyFrame DEF Sent, Pending
  <2>2. Healthy' => Healthy
    BY <2>1 DEF Healthy
  <2>3. QED
    BY <2>1, <2>2 DEF EntryInv, OnTheWay
<1>10. QED
  BY <1>1, <1>2, <1>3, <1>4, <1>5, <1>6, <1>7, <1>8, <1>9, Kinds DEF EntryInv

-----------------------------------------------------------------------------
(* The theorems.                                                           *)

\* All of it holds at first.
LEMMA SampleInitial == Init => SampleInv /\ FoundInv /\ MatchInv /\ EntryInv
<1> SUFFICES ASSUME Init PROVE SampleInv /\ FoundInv /\ MatchInv /\ EntryInv
  OBVIOUS
<1>1. TypeInv /\ ControlInv
  BY TypeInitial, ControlInitial
<1>2. /\ attributes = <<>> /\ delivered = <<>> /\ frame = 0 /\ firstFrame /\ ~Live
      /\ pc = "idle" /\ \A g \in Generations : channel[g] = <<>> /\ call[g] = NoCall
  BY DEF Init, Live
<1>3. IdleInv
  BY <1>2 DEF IdleInv
<1>4. StartedAt(0)
  BY <1>2, EmptyFacts DEF StartedAt, AllDated
<1>5. OrderInv
  BY <1>2, EmptyFacts DEF OrderInv, Increasing
<1>6. FoundInv /\ MatchInv
  BY <1>2, EmptyFacts, NoCallFacts DEF FoundInv, MatchInv, AttributesMatch
<1>7. EntryInv
  BY <1>2, EmptyFacts DEF EntryInv
<1>8. QED
  BY <1>1, <1>3, <1>4, <1>5, <1>6, <1>7 DEF SampleInv, DatedInv

\* The common invariant is inductive.
LEMMA SampleStep == ASSUME SampleInv, [Next]_vars PROVE SampleInv'
  BY TypeStep, ControlStep, IdleStep, DatedStep, OrderStep DEF SampleInv

\* Every image carries the attributes of the frame it encodes, whatever is
\* lost, dropped or refused and wherever the RTP timestamp wraps, until a
\* call of OnH264Encoded that a replaced writer left behind uses the queue.
\* The timestamp must not go round completely: after 2^32 ticks on one writer
\* the times start again and the order of the queue is gone.
THEOREM AttributesFollowFrames ==
  ASSUME NoFullCycle PROVE Spec => []MatchUnlessLatePop
<1>1. Init => SampleInv /\ FoundInv /\ MatchInv
  BY SampleInitial
<1>2. SampleInv /\ FoundInv /\ MatchInv /\ [Next]_vars => SampleInv' /\ FoundInv' /\ MatchInv'
  BY SampleStep, FoundStep, MatchStep DEF SampleInv
<1>3. MatchInv => MatchUnlessLatePop
  BY DEF MatchInv, MatchUnlessLatePop
<1>4. QED
  BY <1>1, <1>2, <1>3, PTL DEF Spec

\* As long as no sample is lost or refused, each cached entry has its sample
\* on the way, so that the limit of three cannot be reached by entries nobody
\* will pop; and sinkWriter_ is null in Encode only if InitWriter has failed.
THEOREM HarmNeedsFailure ==
  ASSUME NoFullCycle PROVE Spec => []HarmOnlyByFailure
<1>1. Init => SampleInv /\ EntryInv
  BY SampleInitial
<1>2. SampleInv /\ EntryInv /\ [Next]_vars => SampleInv' /\ EntryInv'
  BY SampleStep, EntryStep
<1>3. SampleInv /\ EntryInv => HarmOnlyByFailure
  BY DEF SampleInv, ControlInv, EntryInv, Healthy, OnTheWay, Sent, Pending, HarmOnlyByFailure,
     EntriesHaveSamples
<1>4. QED
  BY <1>1, <1>2, <1>3, PTL DEF Spec
=============================================================================
