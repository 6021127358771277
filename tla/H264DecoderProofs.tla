-------------------------- MODULE H264DecoderProofs -------------------------
(***************************************************************************)
(* Proofs about the decoder, for any pool, any transform and any number of *)
(* frames: what the transform is given, and what comes out of it.          *)
(***************************************************************************)
EXTENDS H264Decoder, TLAPS

-----------------------------------------------------------------------------
(* Types, in three parts: the provers take Booleans, numbers and sequences *)
(* one kind at a time.                                                     *)

FlagType ==
  /\ retrying \in BOOLEAN /\ inited \in BOOLEAN /\ registered \in BOOLEAN
  /\ requireKeyframe \in BOOLEAN /\ created \in BOOLEAN /\ changed \in BOOLEAN
  /\ primed \in BOOLEAN /\ unprimedInput \in BOOLEAN

ScalarType ==
  /\ pc \in {"idle", "enqueue", "reenqueue", "flush"}
  /\ frame \in 0 .. MaxFrames /\ kind \in Kinds
  /\ result \in {"none", "ok", "error", "parameter", "uninitialized"}
  /\ held \in 0 .. PoolSize
  /\ inits \in 0 .. MaxInits /\ failures \in 0 .. MaxFailures
  /\ slip \subseteq {"released", "lost", "partial"}
  /\ pc # "idle" => frame > 0

SequenceType ==
  /\ inside \in Seq(1 .. MaxFrames) /\ Len(inside) <= Capacity
  /\ decoded \in Seq([of : 1 .. MaxFrames, ts : 1 .. MaxFrames])

\* A frame is at work only after a Decode, so its number is not 0.
TypeInv == FlagType /\ ScalarType /\ SequenceType

\* The parts together are the type invariant of the model.
LEMMA TypeParts == TypeInv => TypeOK
  BY DEF TypeInv, FlagType, ScalarType, SequenceType, TypeOK

\* Initially every variable has its type.
LEMMA TypeInitial == Init => TypeInv
<1> USE DecoderAssumption DEF Init
<1>1. Init => FlagType
  BY DEF FlagType
<1>2. Init => ScalarType
  BY DEF ScalarType, Kinds
<1>3. Init => SequenceType
  BY DEF SequenceType
<1>4. QED
  BY <1>1, <1>2, <1>3 DEF TypeInv

\* The flags keep their type: every step copies, sets or clears them.
LEMMA FlagsTyped == ASSUME FlagType, [Next]_vars PROVE FlagType'
<1> USE DEF FlagType, threadVars, stateVars, transformVars, ghostVars
<1>1. CASE InitDecode \/ RegisterDecodeCompleteCallback \/ Release \/ ReturnBuffer
  BY <1>1 DEF InitDecode, RegisterDecodeCompleteCallback, Release, ReturnBuffer
<1>2. ASSUME NEW k \in Kinds, Decode(k) PROVE FlagType'
  BY <1>2 DEF Decode
<1>3. CASE EnqueueFrame
  BY <1>3 DEF EnqueueFrame, ProcessInput
<1>4. CASE NotAccepting
  BY <1>4 DEF NotAccepting
<1>5. CASE FlushFrame \/ FlushEnds \/ StreamChange
  BY <1>5 DEF FlushFrame, FlushEnds, StreamChange
<1>6. CASE UNCHANGED vars
  BY <1>6 DEF vars
<1>7. QED
  BY <1>1, <1>2, <1>3, <1>4, <1>5, <1>6 DEF Next, Decoding

\* The program counter, the counters and the buffers in use keep their type.
LEMMA ScalarsTyped == ASSUME ScalarType, [Next]_vars PROVE ScalarType'
<1> USE DecoderAssumption DEF ScalarType, Failure, Return,
    threadVars, stateVars, transformVars, ghostVars
<1>1. CASE InitDecode
  BY <1>1 DEF InitDecode
<1>2. CASE RegisterDecodeCompleteCallback \/ Release \/ ReturnBuffer
  <2>1. held' \in 0 .. PoolSize
    BY <1>2 DEF RegisterDecodeCompleteCallback, Release, ReturnBuffer
  <2>2. UNCHANGED <<pc, frame, kind, result, inits, failures, slip>>
    BY <1>2 DEF RegisterDecodeCompleteCallback, Release, ReturnBuffer
  <2>3. QED
    BY <2>1, <2>2
<1>3. ASSUME NEW k \in Kinds, Decode(k) PROVE ScalarType'
  BY <1>3 DEF Decode
<1>4. CASE EnqueueFrame
  <2>1. failures' \in 0 .. MaxFailures
    BY <1>4 DEF EnqueueFrame
  <2>2. pc' \in {"idle", "flush"} /\ result' \in {result, "error"}
    BY <1>4 DEF EnqueueFrame
  <2>3. slip' \subseteq {"released", "lost", "partial"}
    BY <1>4 DEF EnqueueFrame
  <2>4. UNCHANGED <<frame, kind, held, inits>> /\ pc # "idle"
    BY <1>4 DEF EnqueueFrame
  <2>5. QED
    BY <2>1, <2>2, <2>3, <2>4
<1>5. CASE NotAccepting
  <2>1. failures' \in 0 .. MaxFailures
    BY <1>5 DEF NotAccepting
  <2>2. pc' \in {"idle", "reenqueue"} /\ result' \in {result, "error"}
    BY <1>5 DEF NotAccepting
  <2>3. UNCHANGED <<frame, kind, held, inits, slip>> /\ pc # "idle"
    BY <1>5 DEF NotAccepting
  <2>4. QED
    BY <2>1, <2>2, <2>3
<1>6. CASE FlushFrame
  BY <1>6 DEF FlushFrame
<1>7. CASE FlushEnds \/ StreamChange
  <2>1. failures' \in 0 .. MaxFailures
    BY <1>7 DEF FlushEnds, StreamChange
  <2>2. pc' \in {"idle", "flush"} /\ result' \in {result, "ok", "error"}
    BY <1>7 DEF FlushEnds, StreamChange
  <2>3. UNCHANGED <<frame, kind, held, inits, slip>> /\ pc # "idle"
    BY <1>7 DEF FlushEnds, StreamChange
  <2>4. QED
    BY <2>1, <2>2, <2>3
<1>8. CASE UNCHANGED vars
  BY <1>8 DEF vars
<1>9. QED
  BY <1>1, <1>2, <1>3, <1>4, <1>5, <1>6, <1>7, <1>8 DEF Next, Decoding

-----------------------------------------------------------------------------
(* What is left when the transform gives up its first frame.               *)

\* Tail drops the first element and moves the others up.
LEMMA TailFacts ==
  ASSUME NEW S, NEW s \in Seq(S), s # <<>>
  PROVE  /\ Tail(s) \in Seq(S) /\ Len(Tail(s)) = Len(s) - 1
         /\ \A i \in 1 .. Len(s) - 1 : Tail(s)[i] = s[i + 1]
         /\ Len(s) > 0 /\ Head(s) = s[1] /\ Head(s) \in S
  OBVIOUS

\* SubSeq leaves an empty transform alone.
LEMMA SubSeqFacts ==
  ASSUME NEW S, NEW s \in Seq(S)
  PROVE  /\ SubSeq(s, 2, Len(s)) \in Seq(S)
         /\ Len(SubSeq(s, 2, Len(s))) = IF Len(s) = 0 THEN 0 ELSE Len(s) - 1
         /\ \A i \in 1 .. Len(s) - 1 : SubSeq(s, 2, Len(s))[i] = s[i + 1]
  OBVIOUS

\* A frame that goes in, or a picture that comes out, is the last.
LEMMA AppendFacts ==
  ASSUME NEW S, NEW s \in Seq(S), NEW e \in S
  PROVE  /\ Append(s, e) \in Seq(S) /\ Len(Append(s, e)) = Len(s) + 1
         /\ \A i \in 1 .. Len(s) : Append(s, e)[i] = s[i]
         /\ Append(s, e)[Len(s) + 1] = e
  OBVIOUS

\* What is in a sequence over S is in S.
LEMMA ElementFacts ==
  ASSUME NEW S, NEW s \in Seq(S)
  PROVE  Len(s) \in Nat /\ \A i \in 1 .. Len(s) : s[i] \in S
  OBVIOUS

\* The frames inside the transform and the pictures keep their type, and the
\* transform its capacity.
LEMMA SequencesTyped ==
  ASSUME ScalarType, SequenceType, [Next]_vars PROVE SequenceType'
<1> DEFINE Pictures == Seq([of : 1 .. MaxFrames, ts : 1 .. MaxFrames])
           Held(s) == s \in Seq(1 .. MaxFrames) /\ Len(s) <= Capacity
<1>0. inside \in Seq(1 .. MaxFrames) /\ Len(inside) <= Capacity /\ decoded \in Pictures
  BY DEF SequenceType
<1>1. Held(<<>>)
  BY DecoderAssumption
<1>2. CASE InitDecode \/ Release \/ NotAccepting
  <2>1. inside' \in {<<>>, inside} /\ decoded' = decoded
    BY <1>2 DEF InitDecode, Release, NotAccepting
  <2>2. QED
    BY <1>0, <1>1, <2>1 DEF SequenceType
<1>3. CASE RegisterDecodeCompleteCallback \/ ReturnBuffer \/ StreamChange
  BY <1>3 DEF RegisterDecodeCompleteCallback, ReturnBuffer, StreamChange,
     transformVars, SequenceType
<1>4. ASSUME NEW k \in Kinds, Decode(k) PROVE SequenceType'
  BY <1>4 DEF Decode, transformVars, SequenceType
<1>5. CASE EnqueueFrame
  <2>1. frame \in 1 .. MaxFrames
    BY <1>5 DEF EnqueueFrame, ScalarType
  <2>2. inside' = inside \/ (Len(inside) < Capacity /\ inside' = Append(inside, frame))
    BY <1>5 DEF EnqueueFrame, ProcessInput
  <2>3. Held(inside')
    <3>1. CASE inside' = inside
      BY <1>0, <3>1
    <3>2. CASE Len(inside) < Capacity /\ inside' = Append(inside, frame)
      BY <1>0, <2>1, <3>2, AppendFacts, DecoderAssumption
    <3>3. QED
      BY <2>2, <3>1, <3>2
  <2>4. decoded' = decoded
    BY <1>5 DEF EnqueueFrame
  <2>5. QED
    BY <1>0, <2>3, <2>4 DEF SequenceType
<1>6. CASE FlushFrame
  <2>1. frame \in 1 .. MaxFrames
    BY <1>6 DEF FlushFrame, ScalarType
  <2>2. inside # <<>> /\ inside' = Tail(inside)
    BY <1>6 DEF FlushFrame
  <2>3. Held(inside') /\ Head(inside) \in 1 .. MaxFrames
    BY <1>0, <2>2, TailFacts, DecoderAssumption
  <2>4. \/ decoded' = decoded
        \/ decoded' = Append(decoded, [of |-> Head(inside), ts |-> frame])
    BY <1>6 DEF FlushFrame
  <2>5. [of |-> Head(inside), ts |-> frame] \in [of : 1 .. MaxFrames, ts : 1 .. MaxFrames]
    BY <2>1, <2>3
  <2>6. Append(decoded, [of |-> Head(inside), ts |-> frame]) \in Pictures
    BY <1>0, <2>5, AppendFacts
  <2>7. QED
    BY <1>0, <2>3, <2>4, <2>6 DEF SequenceType
<1>7. CASE FlushEnds
  <2>1. inside' \in {inside, SubSeq(inside, 2, Len(inside))} /\ decoded' = decoded
    BY <1>7 DEF FlushEnds
  <2>2. Held(SubSeq(inside, 2, Len(inside)))
    BY <1>0, SubSeqFacts, DecoderAssumption
  <2>3. QED
    BY <1>0, <2>1, <2>2 DEF SequenceType
<1>8. CASE UNCHANGED vars
  BY <1>8 DEF vars, transformVars, SequenceType
<1>9. QED
  BY <1>2, <1>3, <1>4, <1>5, <1>6, <1>7, <1>8 DEF Next, Decoding

\* Every step keeps the types.
LEMMA TypeInductive == TypeInv /\ [Next]_vars => TypeInv'
  BY FlagsTyped, ScalarsTyped, SequencesTyped DEF TypeInv

\* Every variable keeps its type; in particular the transform never holds
\* more frames than it accepts and the renderer never has more buffers than
\* the pool.
THEOREM TypeCorrect == Spec => []TypeOK
  BY TypeInitial, TypeInductive, TypeParts, PTL DEF Spec

-----------------------------------------------------------------------------
(* Key frames                                                              *)

\* A decoder that is willing to take a delta frame has had a key frame, or the
\* need of one was forgotten in one of three ways.  The same holds of frames in
\* the transform, which is where a flush that fails leaves them.
KeyframeInv ==
  /\ pc # "idle" => inited /\ ~requireKeyframe /\ kind # "noData"
  /\ pc = "reenqueue" => kind # "delta"
  /\ /\ inited /\ ~requireKeyframe
     /\ pc \in {"idle", "flush"} \/ kind = "delta"
     => primed \/ slip # {}
  /\ inside # <<>> => primed \/ slip # {}
  /\ KeyframeFirstUnlessSlip

\* Initially there is neither a frame nor a decoder that would take one.
LEMMA KeyframeInitial == Init => KeyframeInv
  BY DEF Init, KeyframeInv, KeyframeFirstUnlessSlip

\* The calls around Decode.  InitDecode after a Release makes the transform
\* anew and is the slip "released" if require_keyframe_ is not set.
LEMMA CallsKeepKeyframe ==
  ASSUME TypeInv, KeyframeInv,
         InitDecode \/ RegisterDecodeCompleteCallback \/ Release \/ ReturnBuffer
  PROVE  KeyframeInv'
<1> USE DEF KeyframeInv, KeyframeFirstUnlessSlip, threadVars, stateVars,
    transformVars, ghostVars
<1>1. CASE InitDecode
  BY <1>1 DEF InitDecode
<1>2. CASE RegisterDecodeCompleteCallback
  BY <1>2 DEF RegisterDecodeCompleteCallback
<1>3. CASE Release
  BY <1>3 DEF Release
<1>4. CASE ReturnBuffer
  BY <1>4 DEF ReturnBuffer
<1>5. QED
  BY <1>1, <1>2, <1>3, <1>4

\* The checks at the start of Decode let a delta frame through only to a
\* transform that is primed, or after a slip.
LEMMA DecodeKeepsKeyframe ==
  ASSUME KeyframeInv, NEW k \in Kinds, Decode(k) PROVE KeyframeInv'
  BY DEF Decode, Return, Kinds, KeyframeInv, KeyframeFirstUnlessSlip,
     transformVars, ghostVars

\* The frame goes into the transform, or is lost on the way.
LEMMA EnqueueKeepsKeyframe ==
  ASSUME TypeInv, KeyframeInv, EnqueueFrame PROVE KeyframeInv'
<1>0. /\ kind \in Kinds \ {"noData"} /\ kind' = kind
      /\ pc # "idle" /\ pc # "flush" /\ slip \subseteq slip'
  BY DEF EnqueueFrame, TypeInv, ScalarType, KeyframeInv
<1>1. kind = "delta" => primed \/ slip # {}
  BY <1>0 DEF KeyframeInv
<1>2. primed' \/ slip' # {}
  <2>1. CASE primed
    BY <2>1 DEF EnqueueFrame, ProcessInput
  <2>2. CASE slip # {}
    BY <1>0, <2>2
  <2>3. CASE kind = "key" /\ ~primed
    BY <2>3 DEF EnqueueFrame, ProcessInput
  <2>4. CASE kind = "partialKey" /\ ~primed
    BY <2>4 DEF EnqueueFrame
  <2>5. QED
    BY <1>0, <1>1, <2>1, <2>2, <2>3, <2>4 DEF Kinds
<1>3. unprimedInput' => slip' # {}
  BY <1>0, <1>1 DEF EnqueueFrame, ProcessInput, KeyframeInv, KeyframeFirstUnlessSlip
<1>4. pc' \in {"idle", "flush"} /\ inited' /\ ~requireKeyframe'
  BY <1>0 DEF EnqueueFrame, Return, KeyframeInv, stateVars
<1>5. QED
  BY <1>0, <1>2, <1>3, <1>4 DEF KeyframeInv, KeyframeFirstUnlessSlip

\* A full transform is flushed.  It holds a frame, so that a flush that fails
\* leaves it primed, or there was a slip before.
LEMMA NotAcceptingKeepsKeyframe ==
  ASSUME TypeInv, KeyframeInv, NotAccepting PROVE KeyframeInv'
<1>0. pc = "enqueue" /\ inited' /\ slip' = slip /\ unprimedInput' = unprimedInput
      /\ kind' = kind
  BY DEF NotAccepting, KeyframeInv, ghostVars
<1>1. inside # <<>>
  BY DecoderAssumption DEF NotAccepting, TypeInv, SequenceType
<1>2. primed \/ slip # {}
  BY <1>1 DEF KeyframeInv
<1>3. \/ inside' = <<>>
      \/ primed' = primed
  BY DEF NotAccepting
<1>4. CASE kind = "delta"
  BY <1>0, <1>2, <1>3, <1>4 DEF NotAccepting, Return, KeyframeInv, KeyframeFirstUnlessSlip
<1>5. CASE kind # "delta" /\ failures' # failures
  BY <1>0, <1>2, <1>3, <1>5 DEF NotAccepting, Return, KeyframeInv, KeyframeFirstUnlessSlip
<1>6. CASE kind # "delta" /\ failures' = failures
  <2>1. inside' = <<>>
    BY <1>6 DEF NotAccepting, Failure, TypeInv, ScalarType
  <2>2. QED
    BY <1>0, <1>6, <2>1 DEF NotAccepting, KeyframeInv, KeyframeFirstUnlessSlip
<1>7. QED
  BY <1>4, <1>5, <1>6

\* FlushFrames takes pictures out and asks for no key frame.
LEMMA FlushKeepsKeyframe ==
  ASSUME TypeInv, KeyframeInv, FlushFrame \/ FlushEnds \/ StreamChange
  PROVE  KeyframeInv'
<1>1. pc = "flush" /\ pc' \in {"flush", "idle"}
      /\ UNCHANGED <<kind, inited, requireKeyframe, primed, slip, unprimedInput>>
  BY DEF FlushFrame, FlushEnds, StreamChange, Return, stateVars, ghostVars
<1>2. primed' \/ slip' # {}
  BY <1>1 DEF KeyframeInv
<1>3. QED
  BY <1>1, <1>2 DEF KeyframeInv, KeyframeFirstUnlessSlip

\* Every step keeps the invariant.
LEMMA KeyframeInductive == TypeInv /\ KeyframeInv /\ [Next]_vars => KeyframeInv'
<1> SUFFICES ASSUME TypeInv, KeyframeInv, [Next]_vars PROVE KeyframeInv'
  OBVIOUS
<1>1. CASE UNCHANGED vars
  BY <1>1 DEF vars, threadVars, stateVars, transformVars, ghostVars, KeyframeInv,
     KeyframeFirstUnlessSlip
<1>2. QED
  BY <1>1, CallsKeepKeyframe, DecodeKeepsKeyframe, EnqueueKeepsKeyframe,
     NotAcceptingKeepsKeyframe, FlushKeepsKeyframe DEF Next, Decoding

\* The transform gets a delta frame before a key frame only after one of the
\* three slips, and while frames are discarded Decode does not report success.
THEOREM KeyframeFirstOrExplained == Spec => []KeyframeFirstUnlessSlip
<1>1. KeyframeInv => KeyframeFirstUnlessSlip
  BY DEF KeyframeInv
<1>2. QED
  BY <1>1, TypeInitial, KeyframeInitial, TypeInductive, KeyframeInductive, PTL
     DEF Spec
-----------------------------------------------------------------------------
(* The order of the pictures                                               *)

\* The transform holds frames in the order of their numbers, all of them
\* later than the pictures that came out, and the frame on its way in is later
\* than all of these.
OrderInv ==
  /\ PicturesInOrder
  /\ \A i, j \in 1 .. Len(inside) : i < j => inside[i] < inside[j]
  /\ \A i \in 1 .. Len(inside), j \in 1 .. Len(decoded) : decoded[j].of < inside[i]
  /\ \A i \in 1 .. Len(inside) : inside[i] <= frame
  /\ \A j \in 1 .. Len(decoded) : decoded[j].of <= frame
  /\ pc \in {"enqueue", "reenqueue"} =>
       /\ \A i \in 1 .. Len(inside) : inside[i] < frame
       /\ \A j \in 1 .. Len(decoded) : decoded[j].of < frame

\* Initially nothing is inside and nothing came out.
LEMMA OrderInitial == Init => OrderInv
  BY DEF Init, OrderInv, PicturesInOrder

\* What any step does to the frames inside, if nothing comes out and nothing
\* goes in: some of the frames at the front are gone.
LEMMA DroppingKeepsOrder ==
  ASSUME TypeInv, OrderInv, decoded' = decoded, frame' = frame,
         \/ inside' = inside
         \/ inside' = <<>>
         \/ inside # <<>> /\ inside' = Tail(inside)
         \/ inside' = SubSeq(inside, 2, Len(inside)),
         pc' \in {"enqueue", "reenqueue"} => pc \in {"enqueue", "reenqueue"}
  PROVE  OrderInv'
<1>1. inside \in Seq(1 .. MaxFrames)
  BY DEF TypeInv, SequenceType
<1>2. PICK d \in {0, 1} :
        \A i \in 1 .. Len(inside') :
           i + d \in 1 .. Len(inside) /\ inside'[i] = inside[i + d]
  <2>1. CASE inside' = inside
    BY <1>1, <2>1
  <2>2. CASE inside' = <<>>
    BY <2>2
  <2>3. CASE inside # <<>> /\ inside' = Tail(inside)
    BY <1>1, <2>3, TailFacts
  <2>4. CASE inside' = SubSeq(inside, 2, Len(inside))
    BY <1>1, <2>4, SubSeqFacts
  <2>5. QED
    BY <2>1, <2>2, <2>3, <2>4
<1>3. Len(inside') \in Nat
  <2>1. CASE inside # <<>> /\ inside' = Tail(inside)
    BY <1>1, <2>1, TailFacts
  <2>2. CASE inside' = SubSeq(inside, 2, Len(inside))
    BY <1>1, <2>2, SubSeqFacts
  <2>3. CASE inside' = inside \/ inside' = <<>>
    BY <1>1, <2>3
  <2>4. QED
    BY <2>1, <2>2, <2>3
<1>4. PicturesInOrder'
  BY DEF OrderInv, PicturesInOrder
<1>5. \A i, j \in 1 .. Len(inside') : i < j => inside'[i] < inside'[j]
  BY <1>2, <1>3 DEF OrderInv
<1>6. QED
  BY <1>2, <1>3, <1>4, <1>5 DEF OrderInv

\* The frame Decode works on is new.
LEMMA DecodeKeepsOrder ==
  ASSUME TypeInv, OrderInv, NEW k \in Kinds, Decode(k) PROVE OrderInv'
<1>1. inside \in Seq(1 .. MaxFrames) /\ frame \in Nat
      /\ decoded \in Seq([of : 1 .. MaxFrames, ts : 1 .. MaxFrames])
  BY DEF TypeInv, SequenceType, ScalarType
<1>2. frame' = frame + 1 /\ inside' = inside /\ decoded' = decoded
  BY DEF Decode, transformVars
<1>3. /\ \A i \in 1 .. Len(inside) : inside[i] \in 1 .. MaxFrames
      /\ \A j \in 1 .. Len(decoded) :
           decoded[j] \in [of : 1 .. MaxFrames, ts : 1 .. MaxFrames]
  BY <1>1, ElementFacts
<1>4. /\ \A i \in 1 .. Len(inside) : inside[i] < frame'
      /\ \A j \in 1 .. Len(decoded) : decoded[j].of < frame'
  <2>1. ASSUME NEW i \in 1 .. Len(inside) PROVE inside[i] < frame'
    BY <1>1, <1>2, <1>3 DEF OrderInv
  <2>2. ASSUME NEW j \in 1 .. Len(decoded) PROVE decoded[j].of < frame'
    <3>1. decoded[j].of \in 1 .. MaxFrames
      BY <1>3
    <3>2. decoded[j].of <= frame
      BY DEF OrderInv
    <3>3. QED
      BY <1>1, <1>2, <3>1, <3>2
  <2>3. QED
    BY <2>1, <2>2
<1>5. QED
  BY <1>1, <1>2, <1>3, <1>4 DEF OrderInv, PicturesInOrder

\* A frame goes in behind the others and is the latest.
LEMMA EnqueueKeepsOrder ==
  ASSUME TypeInv, OrderInv, EnqueueFrame PROVE OrderInv'
<1>1. inside \in Seq(1 .. MaxFrames) /\ frame \in 1 .. MaxFrames
      /\ decoded \in Seq([of : 1 .. MaxFrames, ts : 1 .. MaxFrames])
  BY DEF TypeInv, SequenceType, ScalarType, EnqueueFrame
<1>2. frame' = frame /\ decoded' = decoded /\ pc' \in {"flush", "idle"}
  BY DEF EnqueueFrame, Return
<1>3. /\ \A i \in 1 .. Len(inside) : inside[i] < frame
      /\ \A j \in 1 .. Len(decoded) : decoded[j].of < frame
  BY DEF EnqueueFrame, OrderInv
<1>4. CASE inside' = inside
  BY <1>2, <1>4, DroppingKeepsOrder
<1>5. CASE inside' = Append(inside, frame)
  <2>1. /\ Len(inside') = Len(inside) + 1 /\ Len(inside) \in Nat
        /\ \A i \in 1 .. Len(inside) : inside'[i] = inside[i]
        /\ inside'[Len(inside) + 1] = frame
    BY <1>1, <1>5, AppendFacts
  <2>2. PicturesInOrder'
    BY <1>2 DEF OrderInv, PicturesInOrder
  <2>3. \A i, j \in 1 .. Len(inside') : i < j => inside'[i] < inside'[j]
    BY <1>3, <2>1 DEF OrderInv
  <2>4. \A i \in 1 .. Len(inside'), j \in 1 .. Len(decoded) : decoded[j].of < inside'[i]
    BY <1>3, <2>1 DEF OrderInv
  <2>5. \A i \in 1 .. Len(inside') : inside'[i] <= frame
    BY <1>1, <1>3, <2>1 DEF OrderInv
  <2>6. QED
    BY <1>2, <2>2, <2>3, <2>4, <2>5 DEF OrderInv
<1>6. QED
  BY <1>4, <1>5 DEF EnqueueFrame, ProcessInput

\* The picture that comes out is the one of the oldest frame inside, which is
\* later than every picture before.
LEMMA FlushFrameKeepsOrder ==
  ASSUME TypeInv, OrderInv, FlushFrame PROVE OrderInv'
<1> DEFINE Picture == [of |-> Head(inside), ts |-> frame]
<1>1. inside \in Seq(1 .. MaxFrames) /\ frame \in 1 .. MaxFrames /\ inside # <<>>
      /\ decoded \in Seq([of : 1 .. MaxFrames, ts : 1 .. MaxFrames])
  BY DEF TypeInv, SequenceType, ScalarType, FlushFrame
<1>2. frame' = frame /\ inside' = Tail(inside) /\ pc' \in {"flush", "idle"}
  BY DEF FlushFrame, Return
<1>3. CASE decoded' = decoded
  BY <1>1, <1>2, <1>3, DroppingKeepsOrder
<1>4. CASE decoded' = Append(decoded, Picture)
  <2>1. /\ Len(inside') = Len(inside) - 1 /\ Len(inside) \in Nat /\ Len(inside) > 0
        /\ \A i \in 1 .. Len(inside') : inside'[i] = inside[i + 1]
        /\ Head(inside) = inside[1] /\ Head(inside) \in 1 .. MaxFrames
    <3>1. Len(inside) \in Nat
      BY <1>1
    <3>2. QED
      BY <1>1, <1>2, <3>1, TailFacts
  <2>2. Picture \in [of : 1 .. MaxFrames, ts : 1 .. MaxFrames]
        /\ Picture.of = inside[1] /\ Picture.ts = frame
    BY <1>1, <2>1
  <2> HIDE DEF Picture
  <2>3. /\ decoded' \in Seq([of : 1 .. MaxFrames, ts : 1 .. MaxFrames])
        /\ Len(decoded') = Len(decoded) + 1 /\ Len(decoded) \in Nat
        /\ \A i \in 1 .. Len(decoded) : decoded'[i] = decoded[i]
        /\ decoded'[Len(decoded) + 1].of = inside[1]
        /\ decoded'[Len(decoded) + 1].ts = frame
    <3>1. Len(decoded) \in Nat
      BY <1>1
    <3>2. QED
      BY <1>1, <1>4, <2>2, <3>1, AppendFacts
  <2>4. DOMAIN decoded' = 1 .. Len(decoded) + 1 /\ DOMAIN decoded = 1 .. Len(decoded)
    BY <1>1, <2>3
  <2>5. /\ inside[1] <= frame /\ \A j \in 1 .. Len(decoded) : decoded[j].of < inside[1]
        /\ \A i \in 1 .. Len(inside') : inside[1] < inside'[i]
    BY <2>1 DEF OrderInv
  <2>6. PicturesInOrder'
    <3>1. \A i \in DOMAIN decoded' : decoded'[i].of <= decoded'[i].ts
      BY <2>3, <2>4, <2>5 DEF OrderInv, PicturesInOrder
    <3>2. ASSUME NEW i \in DOMAIN decoded', NEW j \in DOMAIN decoded', i < j
          PROVE  decoded'[i].of < decoded'[j].of
      <4>1. CASE j = Len(decoded) + 1
        <5>1. i \in 1 .. Len(decoded)
          BY <2>3, <2>4, <3>2, <4>1
        <5>2. QED
          BY <2>3, <2>5, <4>1, <5>1
      <4>2. CASE j # Len(decoded) + 1
        <5>1. i \in DOMAIN decoded /\ j \in DOMAIN decoded
          BY <2>3, <2>4, <3>2, <4>2
        <5>2. decoded'[i] = decoded[i] /\ decoded'[j] = decoded[j]
          BY <2>3, <2>4, <5>1
        <5>3. QED
          BY <3>2, <5>1, <5>2 DEF OrderInv, PicturesInOrder
      <4>3. QED
        BY <4>1, <4>2
    <3>3. QED
      BY <3>1, <3>2 DEF PicturesInOrder
  <2>7. \A i, j \in 1 .. Len(inside') : i < j => inside'[i] < inside'[j]
    BY <2>1 DEF OrderInv
  <2>8. ASSUME NEW i \in 1 .. Len(inside'), NEW j \in 1 .. Len(decoded')
        PROVE  decoded'[j].of < inside'[i]
    <3>1. CASE j = Len(decoded) + 1
      BY <2>3, <2>5, <3>1
    <3>2. CASE j # Len(decoded) + 1
      <4>1. j \in 1 .. Len(decoded) /\ i + 1 \in 1 .. Len(inside)
        BY <2>1, <2>3, <3>2
      <4>2. decoded'[j] = decoded[j] /\ inside'[i] = inside[i + 1]
        BY <2>1, <2>3, <4>1
      <4>3. QED
        BY <4>1, <4>2 DEF OrderInv
    <3>3. QED
      BY <3>1, <3>2
  <2>9. /\ \A i \in 1 .. Len(inside') : inside'[i] <= frame
        /\ \A j \in 1 .. Len(decoded') : decoded'[j].of <= frame
    <3>1. \A i \in 1 .. Len(inside') : inside'[i] <= frame
      BY <2>1 DEF OrderInv
    <3>2. ASSUME NEW j \in 1 .. Len(decoded') PROVE decoded'[j].of <= frame
      <4>1. CASE j = Len(decoded) + 1
        BY <2>3, <2>5, <4>1
      <4>2. CASE j # Len(decoded) + 1
        <5>1. j \in 1 .. Len(decoded)
          BY <2>3, <4>2
        <5>2. QED
          BY <2>3, <5>1 DEF OrderInv
      <4>3. QED
        BY <4>1, <4>2
    <3>3. QED
      BY <3>1, <3>2
  <2>10. QED
    BY <1>2, <2>6, <2>7, <2>8, <2>9 DEF OrderInv
<1>5. QED
  BY <1>3, <1>4 DEF FlushFrame

\* Every step keeps the order.
LEMMA OrderInductive == TypeInv /\ OrderInv /\ [Next]_vars => OrderInv'
<1> SUFFICES ASSUME TypeInv, OrderInv, [Next]_vars PROVE OrderInv'
  OBVIOUS
<1>1. CASE InitDecode \/ Release
  BY <1>1, DroppingKeepsOrder DEF InitDecode, Release, threadVars
<1>2. CASE RegisterDecodeCompleteCallback \/ ReturnBuffer \/ UNCHANGED vars
  BY <1>2, DroppingKeepsOrder DEF RegisterDecodeCompleteCallback, ReturnBuffer,
     vars, threadVars, transformVars
<1>3. CASE NotAccepting
  BY <1>3, DroppingKeepsOrder DEF NotAccepting, Return
<1>4. CASE FlushEnds \/ StreamChange
  BY <1>4, DroppingKeepsOrder DEF FlushEnds, StreamChange, Return
<1>5. QED
  BY <1>1, <1>2, <1>3, <1>4, DecodeKeepsOrder, EnqueueKeepsOrder,
     FlushFrameKeepsOrder DEF Next, Decoding

\* Pictures come out in the order of their frames, none twice, and never with
\* the timestamp of an earlier frame, whatever is flushed, lost or kept inside
\* the transform.
THEOREM PicturesComeInOrder == Spec => []PicturesInOrder
<1>1. OrderInv => PicturesInOrder
  BY DEF OrderInv
<1>2. QED
  BY <1>1, TypeInitial, OrderInitial, TypeInductive, OrderInductive, PTL DEF Spec
=============================================================================
