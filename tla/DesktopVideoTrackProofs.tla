----------------------- MODULE DesktopVideoTrackProofs -----------------------
(***************************************************************************)
(* Proofs about the desktop track, for any number of frames and any queue  *)
(* of the encoder: who may use what, and which picture a frame shows.      *)
(***************************************************************************)
EXTENDS DesktopVideoTrack, FiniteSetTheorems, TLAPS

-----------------------------------------------------------------------------
(* Who uses what.                                                          *)

\* The capture thread exists once StartCapture has run and has ended before
\* anything is deleted; there is nothing to paint before it exists, and from
\* then on there is a surface if there was one when it was started.  Once all
\* is deleted no coroutine is added to those that were under way.
LifeInv ==
  /\ thread = "none" <=> owner = "created"
  /\ owner = "deleted" => thread = "ended"
  /\ owner = "created" => paints = {}
  /\ owner # "created" /\ ~surfaceLate => surface \in {"created", "attached"}
  /\ owner = "deleted" /\ ~underWay => paints = {} /\ surface = "attached"
  /\ UsesExplained

\* Initially there is neither thread nor paint.
LEMMA LifeInitial == Init => LifeInv
  BY DEF Init, LifeInv, UsesExplained

\* What the owner does: the thread is there from StartCapture on and is
\* joined before the deletion.
LEMMA OwnerKeepsLife == ASSUME LifeInv, Owner PROVE LifeInv'
<1>1. CASE StartCapture
  BY <1>1 DEF StartCapture, Running, LifeInv, UsesExplained, renderVars
<1>2. CASE SetRunning
  BY <1>2 DEF SetRunning, LifeInv, UsesExplained, renderVars
<1>3. CASE AddPip \/ AddOrUpdateSink \/ RemoveSink
  BY <1>3 DEF AddPip, AddOrUpdateSink, RemoveSink, LifeInv, UsesExplained,
              captureVars, renderVars
<1>4. CASE StopCapture
  BY <1>4 DEF StopCapture, LifeInv, UsesExplained, renderVars
<1>5. CASE Delete
  <2>1. ~underWay' => paints = {} /\ surface = "attached"
    BY <1>5, Zenon DEF Delete
  <2>2. /\ thread = "ended" /\ owner' = "deleted" /\ crashed' = "no"
        /\ UNCHANGED <<thread, paints, surface, surfaceLate>>
    BY <1>5 DEF Delete, Running, captureVars, renderVars
  <2>3. QED
    BY <1>5, <2>1, <2>2 DEF Delete, LifeInv, UsesExplained
<1>6. QED
  BY <1>1, <1>2, <1>3, <1>4, <1>5 DEF Owner

\* What the capture thread does: it finds the capturer, as it has not ended.
LEMMA CaptureKeepsLife == ASSUME LifeInv, CaptureFrames PROVE LifeInv'
<1>1. thread \in {"loop", "converting"}
  BY DEF CaptureFrames, LoopEnds, CaptureFails, CaptureBegins, FrameCaptured
<1>2. owner \notin {"created", "deleted"}
  BY <1>1 DEF LifeInv
<1>3. owner' = owner /\ surface' = surface /\ surfaceLate' = surfaceLate
  BY DEF CaptureFrames, LoopEnds, CaptureFails, CaptureBegins, FrameCaptured,
         renderVars
<1>4. thread' \in {"loop", "converting", "ended"}
  BY <1>1 DEF CaptureFrames, LoopEnds, CaptureFails, CaptureBegins, FrameCaptured
<1>5. crashed' = "no"
  BY <1>2 DEF CaptureFrames, LoopEnds, CaptureFails, CaptureBegins, FrameCaptured,
              UsesCapturer
<1>6. QED
  BY <1>2, <1>3, <1>4, <1>5 DEF LifeInv, UsesExplained

\* What the coroutines do: a paint finds the surface unless the sleep was too
\* short, and the surface never goes away.
LEMMA RendererKeepsLife == ASSUME LifeInv, Renderer PROVE LifeInv'
<1>1. CASE VideoRendererAsync
  BY <1>1 DEF VideoRendererAsync, Uses, LifeInv, UsesExplained, captureVars
<1>2. ASSUME NEW p \in paints, PaintBackground(p) \/ PaintForeground(p)
      PROVE  LifeInv'
  <2>1. owner # "created"
    BY <1>2 DEF LifeInv
  <2>2. /\ owner' = owner /\ thread' = thread /\ surface' = surface
        /\ surfaceLate' = surfaceLate /\ underWay' = underWay
    BY <1>2 DEF PaintBackground, PaintForeground, captureVars
  <2>3. crashed' # "capturer" /\ (crashed' = "surface" => surfaceLate)
    BY <1>2, <2>1 DEF PaintBackground, PaintForeground, Uses, LifeInv
  <2>4. owner = "deleted" => underWay
    BY <1>2 DEF LifeInv
  <2>5. crashed' = "renderer" => owner = "deleted"
    BY <1>2 DEF PaintBackground, PaintForeground, Uses
  <2>6. QED
    BY <2>1, <2>2, <2>3, <2>4, <2>5 DEF LifeInv, UsesExplained
<1>3. QED
  BY <1>1, <1>2 DEF Renderer

\* Every step keeps the invariant.
LEMMA LifeInductive == LifeInv /\ [Next]_vars => LifeInv'
<1>1. SUFFICES ASSUME LifeInv, [Next]_vars PROVE LifeInv'
  OBVIOUS
<1>2. CASE Encode
  BY <1>1, <1>2 DEF Encode, LifeInv, UsesExplained, captureVars, renderVars
<1>3. CASE UNCHANGED vars
  BY <1>1, <1>3 DEF vars, LifeInv, UsesExplained, captureVars, renderVars
<1>4. QED
  BY <1>1, <1>2, <1>3, OwnerKeepsLife, CaptureKeepsLife, RendererKeepsLife DEF Next

\* The capture thread never uses a deleted capturer, and a paint finds no
\* surface only if the sleep in StartCapture was too short.
THEOREM UsesAreExplained == Spec => []UsesExplained
<1>1. LifeInv => UsesExplained
  BY DEF LifeInv
<1>2. QED
  BY <1>1, LifeInitial, LifeInductive, PTL DEF Spec

-----------------------------------------------------------------------------
(* Which picture a frame shows.                                            *)

\* A queued frame that has a picture of its own has its own one if it was
\* scaled, and otherwise the same or a later one.
Entry == [frame : Nat, scaled : BOOLEAN, kept : Nat]

GoodEntry(f, n) ==
  /\ f.frame \in 1 .. n
  /\ f.scaled => f.kept = f.frame
  /\ f.kept = 0 \/ f.kept >= f.frame

\* The buffer holds the last picture, or is being written.
PictureInv ==
  /\ frames \in Nat
  /\ buffer \in {0, frames}
  /\ queue \in Seq(Entry)
  /\ \A i \in 1 .. Len(queue) : GoodEntry(queue[i], frames)
  /\ TornOnlyIfPassed

\* Initially nothing is queued and nothing encoded.
LEMMA PictureInitial == Init => PictureInv
  BY DEF Init, PictureInv, TornOnlyIfPassed

\* A new frame in the queue is a good one, and the older ones stay good.
LEMMA CapturedKeepsPicture == ASSUME PictureInv, FrameCaptured PROVE PictureInv'
<1>1. frames' = frames + 1 /\ frames' \in Nat /\ buffer' = frames' /\ encoded' = encoded
  BY DEF FrameCaptured, PictureInv
<1>2. \A f \in Entry : GoodEntry(f, frames) => GoodEntry(f, frames')
  BY <1>1 DEF GoodEntry, PictureInv, Entry
<1>3. \A i \in 1 .. Len(queue) : queue[i] \in Entry
  BY DEF PictureInv
<1>4. CASE UNCHANGED queue
  BY <1>1, <1>2, <1>3, <1>4 DEF PictureInv, TornOnlyIfPassed
<1>5. ASSUME NEW f \in Entry, GoodEntry(f, frames'), queue' = Append(queue, f)
      PROVE  PictureInv'
  <2>1. queue' \in Seq(Entry) /\ Len(queue') = Len(queue) + 1
    BY <1>5 DEF PictureInv
  <2>2. \A i \in 1 .. Len(queue') :
          queue'[i] = IF i = Len(queue) + 1 THEN f ELSE queue[i]
    BY <1>5, <2>1 DEF PictureInv
  <2>3. \A i \in 1 .. Len(queue') : GoodEntry(queue'[i], frames')
    <3>1. TAKE i \in 1 .. Len(queue')
    <3>2. CASE i = Len(queue) + 1
      BY <1>5, <2>2, <3>2
    <3>3. CASE i # Len(queue) + 1
      <4>1. i \in 1 .. Len(queue)
        BY <2>1, <3>3 DEF PictureInv
      <4>2. QED
        BY <1>2, <1>3, <2>2, <3>3, <4>1 DEF PictureInv
    <3>4. QED
      BY <3>2, <3>3
  <2>4. QED
    BY <1>1, <2>1, <2>3 DEF PictureInv, TornOnlyIfPassed
<1>6. /\ [frame |-> frames + 1, scaled |-> TRUE, kept |-> frames + 1] \in Entry
      /\ [frame |-> frames + 1, scaled |-> FALSE, kept |-> 0] \in Entry
  BY <1>1 DEF Entry, PictureInv
<1>7. /\ GoodEntry([frame |-> frames + 1, scaled |-> TRUE, kept |-> frames + 1], frames')
      /\ GoodEntry([frame |-> frames + 1, scaled |-> FALSE, kept |-> 0], frames')
  BY <1>1 DEF GoodEntry, PictureInv
<1>8. QED
  BY <1>4, <1>5, <1>6, <1>7 DEF FrameCaptured, OnFrame, EncoderFrame

\* A new buffer leaves the frames that shared the old one with the picture in
\* it, which is not older than theirs.
LEMMA BeginsKeepsPicture == ASSUME PictureInv, CaptureBegins PROVE PictureInv'
<1>1. frames' = frames /\ buffer' = 0 /\ encoded' = encoded
  BY DEF CaptureBegins
<1>2. CASE UNCHANGED queue
  BY <1>1, <1>2 DEF PictureInv, TornOnlyIfPassed
<1>3. CASE queue' = [i \in DOMAIN queue |->
                       IF queue[i].kept = 0 THEN [queue[i] EXCEPT !.kept = buffer]
                                            ELSE queue[i]]
  <2>1. Len(queue) \in Nat /\ DOMAIN queue = 1 .. Len(queue)
    BY DEF PictureInv
  <2>2. ASSUME NEW i \in 1 .. Len(queue)
        PROVE  queue'[i] \in Entry /\ GoodEntry(queue'[i], frames)
    <3>1. queue[i] \in Entry /\ GoodEntry(queue[i], frames) /\ buffer \in Nat
      BY <2>2 DEF PictureInv
    <3>2. CASE queue[i].kept # 0
      BY <1>3, <2>1, <3>1, <3>2
    <3>3. CASE queue[i].kept = 0
      <4>1. queue'[i] = [queue[i] EXCEPT !.kept = buffer]
        BY <1>3, <2>1, <3>3
      <4>2. /\ queue'[i].frame = queue[i].frame /\ queue'[i].scaled = queue[i].scaled
            /\ queue'[i].kept = buffer /\ queue'[i] \in Entry
        BY <3>1, <4>1 DEF Entry
      <4>3. ~queue[i].scaled
        BY <3>1, <3>3 DEF GoodEntry, PictureInv
      <4>4. QED
        BY <3>1, <4>2, <4>3 DEF GoodEntry, PictureInv
    <3>4. QED
      BY <3>2, <3>3
  <2>3. queue' \in [1 .. Len(queue) -> Entry]
    BY <1>3, <2>1, <2>2
  <2>4. queue' \in Seq(Entry) /\ Len(queue') = Len(queue)
    BY <2>1, <2>3
  <2>5. QED
    BY <1>1, <2>2, <2>4 DEF PictureInv, TornOnlyIfPassed
<1>4. QED
  BY <1>2, <1>3 DEF CaptureBegins

\* The encoder reads the frame's own picture or what is in the buffer.
LEMMA EncodeKeepsPicture == ASSUME PictureInv, Encode PROVE PictureInv'
<1>1. frames' = frames /\ buffer' = buffer /\ queue # <<>> /\ queue' = Tail(queue)
  BY DEF Encode, captureVars
<1>2. Head(queue) = queue[1] /\ 1 \in 1 .. Len(queue)
  BY <1>1 DEF PictureInv
<1>3. /\ queue' \in Seq(Entry) /\ Len(queue') = Len(queue) - 1
      /\ \A i \in 1 .. Len(queue') : queue'[i] = queue[i + 1] /\ i + 1 \in 1 .. Len(queue)
  BY <1>1 DEF PictureInv
<1>4. \A i \in 1 .. Len(queue') : GoodEntry(queue'[i], frames)
  BY <1>3 DEF PictureInv
<1>5. DEFINE f == queue[1]
             picture == IF f.kept = 0 THEN buffer ELSE f.kept
<1>6. GoodEntry(f, frames) /\ f \in Entry
  BY <1>2 DEF PictureInv
<1>7. (f.scaled => picture = f.frame) /\ (picture = 0 \/ picture >= f.frame)
  BY <1>6 DEF GoodEntry, PictureInv, Entry
<1>8. encoded' = encoded \cup {[frame |-> f.frame, scaled |-> f.scaled,
                                picture |-> picture]}
  BY <1>2 DEF Encode
<1>9. TornOnlyIfPassed'
  BY <1>7, <1>8 DEF PictureInv, TornOnlyIfPassed
<1>10. QED
  BY <1>1, <1>3, <1>4, <1>9 DEF PictureInv

\* Every step keeps the invariant; the steps that are not named above touch
\* neither pictures nor queue.
LEMMA PictureInductive == PictureInv /\ [Next]_vars => PictureInv'
<1>1. SUFFICES ASSUME PictureInv, [Next]_vars,
                      ~FrameCaptured, ~CaptureBegins, ~Encode
               PROVE  PictureInv'
  BY CapturedKeepsPicture, BeginsKeepsPicture, EncodeKeepsPicture
<1>2. frames' = frames /\ buffer' = buffer /\ queue' = queue /\ encoded' = encoded
  <2>1. CASE Owner
    BY <2>1 DEF Owner, StartCapture, SetRunning, AddPip, AddOrUpdateSink, RemoveSink,
                StopCapture, Delete, captureVars, encoderVars
  <2>2. CASE LoopEnds \/ CaptureFails
    BY <2>2 DEF LoopEnds, CaptureFails, encoderVars
  <2>3. CASE Renderer
    BY <2>3 DEF Renderer, VideoRendererAsync, PaintBackground, PaintForeground,
                captureVars, encoderVars
  <2>4. CASE UNCHANGED vars
    BY <2>4 DEF vars, captureVars, encoderVars
  <2>5. QED
    BY <1>1, <2>1, <2>2, <2>3, <2>4 DEF Next, CaptureFrames
<1>3. QED
  BY <1>1, <1>2 DEF PictureInv, TornOnlyIfPassed

\* A scaled frame shows its own picture, one that passed as it was never an
\* earlier one.
THEOREM PicturesAreKept == Spec => []TornOnlyIfPassed
<1>1. PictureInv => TornOnlyIfPassed
  BY DEF PictureInv
<1>2. QED
  BY <1>1, PictureInitial, PictureInductive, PTL DEF Spec

-----------------------------------------------------------------------------
(* Types, one kind at a time.                                              *)

ControlType ==
  /\ owner \in {"created", "starting", "started", "connected", "joining", "deleted"}
  /\ isRunning \in BOOLEAN /\ startLost \in BOOLEAN /\ surfaceLate \in BOOLEAN
  /\ underWay \in BOOLEAN
  /\ thread \in {"none", "loop", "converting", "ended"}
  /\ sinks \subseteq {"pip", "encoder"}
  /\ surface \in {"posted", "background", "created", "attached"}
  /\ crashed \in {"no", "capturer", "renderer", "surface"}
  /\ attempts \in {0, 1}

\* A picture is only converted while the bound is not reached.
NumberType ==
  /\ frames \in 0 .. MaxFrames /\ buffer \in 0 .. frames
  /\ thread = "converting" => frames < MaxFrames

Queued == [frame : Frames, scaled : BOOLEAN, kept : 0 .. MaxFrames]
Read == [frame : Frames, scaled : BOOLEAN, picture : 0 .. MaxFrames]
EncoderType ==
  /\ queue \in Seq(Queued) /\ Len(queue) <= MaxQueued
  /\ encoded \subseteq Read

\* Each captured frame has at most one coroutine, which is gone once the frame
\* is drawn: why no frame is drawn twice.
Drawn == {shown[i] : i \in DOMAIN shown}
PaintType ==
  /\ paints \subseteq [frame : 1 .. frames, at : {"background", "foreground"}]
  /\ shown \in Seq(1 .. frames)
  /\ \A p, q \in paints : p.frame = q.frame => p = q
  /\ \A p \in paints : p.frame \notin Drawn
  /\ IsFiniteSet(Drawn) /\ Cardinality(Drawn) = Len(shown)

TypeInv == ControlType /\ NumberType /\ EncoderType /\ PaintType

\* A sequence over a set is one over a larger set.
LEMMA SeqMonotone == ASSUME NEW S, NEW T, S \subseteq T, NEW s \in Seq(S) PROVE s \in Seq(T)
  OBVIOUS

\* The parts together are the type invariant of the model.
LEMMA TypeParts == TypeInv => TypeOK
<1> SUFFICES ASSUME TypeInv PROVE TypeOK
  OBVIOUS
<1>1. 1 .. frames \subseteq Frames
  BY DesktopAssumption DEF TypeInv, NumberType, Frames
<1>2. shown \in Seq(Frames)
  BY <1>1, SeqMonotone DEF TypeInv, PaintType
<1>3. paints \subseteq [frame : Frames, at : {"background", "foreground"}]
  BY <1>1 DEF TypeInv, PaintType
<1>4. Len(shown) = Cardinality({shown[i] : i \in DOMAIN shown})
  BY DEF TypeInv, PaintType, Drawn
<1>5. QED
  BY <1>2, <1>3, <1>4 DEF TypeInv, ControlType, NumberType, EncoderType, Queued, Read, TypeOK

\* Initially there are no pictures.
LEMMA TypeInitial == Init => TypeInv
<1> SUFFICES ASSUME Init PROVE TypeInv
  OBVIOUS
<1>1. ControlType
  BY DEF Init, ControlType
<1>2. NumberType
  BY DesktopAssumption DEF Init, NumberType
<1>3. EncoderType
  BY DesktopAssumption DEF Init, EncoderType
<1>4. PaintType
  <2>1. shown = <<>> /\ paints = {} /\ Drawn = {}
    BY DEF Init, Drawn
  <2>2. QED
    BY <2>1, FS_EmptySet DEF PaintType
<1>5. QED
  BY <1>1, <1>2, <1>3, <1>4 DEF TypeInv

\* The places, flags and sinks keep their type.
LEMMA ControlTyped == ASSUME ControlType, [Next]_vars PROVE ControlType'
<1> USE DEF ControlType, captureVars, renderVars
<1>1. CASE Owner
  <2>1. CASE StartCapture
    BY <2>1 DEF StartCapture
  <2>2. CASE SetRunning
    BY <2>2 DEF SetRunning
  <2>3. CASE AddPip \/ AddOrUpdateSink
    <3>1. sinks' \subseteq {"pip", "encoder"}
      BY <2>3 DEF AddPip, AddOrUpdateSink
    <3>2. owner' \in {owner, "connected"} /\ crashed' = crashed
      BY <2>3 DEF AddPip, AddOrUpdateSink
    <3>3. UNCHANGED <<surfaceLate, underWay, captureVars, surface>>
      BY <2>3 DEF AddPip, AddOrUpdateSink
    <3>4. QED
      BY <3>1, <3>2, <3>3
  <2>4. CASE RemoveSink
    BY <2>4 DEF RemoveSink
  <2>5. CASE StopCapture
    BY <2>5 DEF StopCapture
  <2>6. CASE Delete
    BY <2>6 DEF Delete
  <2>7. QED
    BY <1>1, <2>1, <2>2, <2>3, <2>4, <2>5, <2>6 DEF Owner
<1>2. CASE LoopEnds \/ CaptureFails
  BY <1>2 DEF LoopEnds, CaptureFails, UsesCapturer
<1>3. CASE CaptureBegins \/ FrameCaptured
  BY <1>3 DEF CaptureBegins, FrameCaptured, UsesCapturer
<1>4. CASE Encode
  BY <1>4 DEF Encode
<1>5. CASE VideoRendererAsync
  BY <1>5 DEF VideoRendererAsync, Uses
<1>6. CASE \E p \in paints : PaintBackground(p) \/ PaintForeground(p)
  BY <1>6 DEF PaintBackground, PaintForeground, Uses
<1>7. CASE UNCHANGED vars
  BY <1>7 DEF vars
<1>8. QED
  BY <1>1, <1>2, <1>3, <1>4, <1>5, <1>6, <1>7 DEF Next, CaptureFrames, Renderer

\* The steps that capture or convert nothing leave the numbers alone.
LEMMA NumbersTyped == ASSUME NumberType, [Next]_vars PROVE NumberType'
<1> USE DesktopAssumption DEF NumberType
<1>1. CASE CaptureBegins
  BY <1>1 DEF CaptureBegins
<1>2. CASE FrameCaptured
  BY <1>2 DEF FrameCaptured
<1>3. CASE Owner
  BY <1>3 DEF Owner, StartCapture, SetRunning, AddPip, AddOrUpdateSink, RemoveSink, StopCapture,
     Delete, captureVars
<1>4. CASE LoopEnds \/ CaptureFails
  BY <1>4 DEF LoopEnds, CaptureFails
<1>5. CASE Encode \/ Renderer \/ UNCHANGED vars
  BY <1>5 DEF Encode, Renderer, VideoRendererAsync, PaintBackground, PaintForeground, vars,
     captureVars
<1>6. QED
  BY <1>1, <1>2, <1>3, <1>4, <1>5 DEF Next, CaptureFrames

\* The frames the encoder has keep their type and their number its bound.
LEMMA EncoderTyped ==
  ASSUME NumberType, EncoderType, [Next]_vars PROVE EncoderType'
<1>0. queue \in Seq(Queued) /\ Len(queue) <= MaxQueued /\ encoded \subseteq Read
      /\ Len(queue) \in Nat /\ MaxQueued \in Nat
  BY DesktopAssumption DEF EncoderType
<1>1. CASE CaptureBegins
  <2>1. encoded' = encoded
    BY <1>1 DEF CaptureBegins
  <2>2. CASE UNCHANGED queue
    BY <1>0, <2>1, <2>2 DEF EncoderType
  <2>3. CASE queue' = [i \in DOMAIN queue |->
                         IF queue[i].kept = 0 THEN [queue[i] EXCEPT !.kept = buffer]
                                              ELSE queue[i]]
    <3>1. DOMAIN queue = 1 .. Len(queue) /\ buffer \in 0 .. MaxFrames
          /\ \A i \in DOMAIN queue : queue[i] \in Queued
      BY <1>0, DesktopAssumption DEF NumberType
    <3>2. \A e \in Queued : [e EXCEPT !.kept = buffer] \in Queued
      BY <3>1 DEF Queued
    <3>3. queue' \in [1 .. Len(queue) -> Queued]
      BY <2>3, <3>1, <3>2
    <3>4. queue' \in Seq(Queued) /\ Len(queue') = Len(queue)
      BY <1>0, <3>3
    <3>5. QED
      BY <1>0, <2>1, <3>4 DEF EncoderType
  <2>4. QED
    BY <1>1, <2>2, <2>3 DEF CaptureBegins
<1>2. CASE FrameCaptured
  <2> DEFINE a == [frame |-> frames + 1, scaled |-> TRUE, kept |-> frames + 1]
             b == [frame |-> frames + 1, scaled |-> FALSE, kept |-> 0]
  <2>1. frames + 1 \in 1 .. MaxFrames /\ 0 \in 0 .. MaxFrames
    BY <1>2, DesktopAssumption DEF FrameCaptured, NumberType
  <2>2. a \in Queued /\ b \in Queued
    BY <2>1 DEF Queued, Frames
  <2>3. encoded' = encoded /\ \/ queue' = queue
                              \/ Len(queue) < MaxQueued /\ queue' = Append(queue, a)
                              \/ Len(queue) < MaxQueued /\ queue' = Append(queue, b)
    BY <1>2 DEF FrameCaptured, OnFrame, EncoderFrame
  <2> HIDE DEF a, b
  <2>4. \A e \in Queued : Append(queue, e) \in Seq(Queued) /\ Len(Append(queue, e)) = Len(queue) + 1
    BY <1>0
  <2>5. QED
    BY <1>0, <2>2, <2>3, <2>4 DEF EncoderType
<1>3. CASE Encode
  <2> DEFINE f == Head(queue)
             picture == IF f.kept = 0 THEN buffer ELSE f.kept
             e == [frame |-> f.frame, scaled |-> f.scaled, picture |-> picture]
  <2>1. queue # <<>> /\ queue' = Tail(queue) /\ encoded' = encoded \cup {e}
    BY <1>3 DEF Encode
  <2>2. f \in Queued /\ Tail(queue) \in Seq(Queued) /\ Len(Tail(queue)) = Len(queue) - 1
    BY <1>0, <2>1
  <2> HIDE DEF f
  <2>3. f.frame \in Frames /\ f.scaled \in BOOLEAN /\ f.kept \in 0 .. MaxFrames
    BY <2>2 DEF Queued
  <2>4. picture \in 0 .. MaxFrames
    BY <2>3, DesktopAssumption DEF NumberType
  <2> HIDE DEF picture
  <2>5. e \in Read
    BY <2>3, <2>4 DEF Read
  <2> HIDE DEF e
  <2>6. QED
    BY <1>0, <2>1, <2>2, <2>5 DEF EncoderType
<1>4. CASE Owner \/ LoopEnds \/ CaptureFails \/ Renderer \/ UNCHANGED vars
  <2>1. queue' = queue /\ encoded' = encoded
    BY <1>4 DEF Owner, StartCapture, SetRunning, AddPip, AddOrUpdateSink, RemoveSink, StopCapture,
       Delete, LoopEnds, CaptureFails, Renderer, VideoRendererAsync, PaintBackground,
       PaintForeground, vars, encoderVars
  <2>2. QED
    BY <1>0, <2>1 DEF EncoderType
<1>5. QED
  BY <1>1, <1>2, <1>3, <1>4 DEF Next, CaptureFrames

\* One more frame is drawn.
LEMMA DrawnAppend ==
  ASSUME NEW S, NEW s \in Seq(S), NEW e \in S
  PROVE  {Append(s, e)[i] : i \in DOMAIN Append(s, e)} = {s[i] : i \in DOMAIN s} \cup {e}
<1> DEFINE t == Append(s, e)
<1>1. /\ DOMAIN t = 1 .. Len(s) + 1 /\ DOMAIN s = 1 .. Len(s) /\ Len(s) \in Nat
      /\ \A i \in DOMAIN s : t[i] = s[i]
      /\ t[Len(s) + 1] = e
  OBVIOUS
<1> HIDE DEF t
<1>2. DOMAIN t = DOMAIN s \cup {Len(s) + 1}
  BY <1>1
<1>3. {t[i] : i \in DOMAIN t} = {s[i] : i \in DOMAIN s} \cup {e}
  BY <1>1, <1>2
<1>4. QED
  BY <1>3 DEF t

\* The coroutines and what they have drawn.
LEMMA PaintsTyped ==
  ASSUME NumberType, PaintType, [Next]_vars PROVE PaintType'
<1>0. /\ paints \subseteq [frame : 1 .. frames, at : {"background", "foreground"}]
      /\ shown \in Seq(1 .. frames)
      /\ \A p, q \in paints : p.frame = q.frame => p = q
      /\ \A p \in paints : p.frame \notin Drawn
      /\ IsFiniteSet(Drawn) /\ Cardinality(Drawn) = Len(shown)
      /\ frames \in Nat
  BY DesktopAssumption DEF PaintType, NumberType
<1>1. CASE FrameCaptured
  <2> DEFINE n == frames + 1
             a == [frame |-> n, at |-> "background"]
  <2>1. frames' = n /\ shown' = shown /\ Drawn' = Drawn
        /\ (paints' = paints \/ paints' = paints \cup {a})
    BY <1>1 DEF FrameCaptured, OnFrame, RenderFrame, Drawn
  <2>2. 1 .. frames \subseteq 1 .. n /\ n \in 1 .. n /\ n \notin 1 .. frames
    BY <1>0
  <2> HIDE DEF n
  <2>3. shown' \in Seq(1 .. n)
    BY <1>0, <2>1, <2>2, SeqMonotone
  <2>4. Drawn \subseteq 1 .. frames
    BY <1>0 DEF Drawn
  <2>5. a \in [frame : 1 .. n, at : {"background", "foreground"}] /\ a.frame = n
    BY <2>2
  <2> HIDE DEF a
  <2>6. \A p \in paints : p \in [frame : 1 .. n, at : {"background", "foreground"}]
                          /\ p.frame # n
    BY <1>0, <2>2
  <2>7. paints' \subseteq [frame : 1 .. n, at : {"background", "foreground"}]
    BY <2>1, <2>5, <2>6
  <2>8. \A p, q \in paints' : p.frame = q.frame => p = q
    BY <1>0, <2>1, <2>5, <2>6
  <2>9. \A p \in paints' : p.frame \notin Drawn
    BY <1>0, <2>1, <2>2, <2>4, <2>5
  <2>10. QED
    BY <1>0, <2>1, <2>3, <2>7, <2>8, <2>9 DEF PaintType
<1>2. ASSUME NEW p \in paints, PaintBackground(p) PROVE PaintType'
  <2> DEFINE a == [p EXCEPT !.at = "foreground"]
  <2>1. shown' = shown /\ frames' = frames /\ Drawn' = Drawn /\ paints' = (paints \ {p}) \cup {a}
    BY <1>2 DEF PaintBackground, captureVars, Drawn
  <2>2. p \in [frame : 1 .. frames, at : {"background", "foreground"}]
    BY <1>0
  <2>3. a \in [frame : 1 .. frames, at : {"background", "foreground"}] /\ a.frame = p.frame
    BY <2>2
  <2> HIDE DEF a
  <2>4. \A q \in paints \ {p} : q.frame # p.frame
    BY <1>0
  <2>5. QED
    BY <1>0, <2>1, <2>3, <2>4 DEF PaintType
<1>3. ASSUME NEW p \in paints, PaintForeground(p) PROVE PaintType'
  <2>1. shown' = Append(shown, p.frame) /\ frames' = frames /\ paints' = paints \ {p}
    BY <1>3 DEF PaintForeground, captureVars
  <2>2. p.frame \in 1 .. frames
    BY <1>0
  <2>3. Drawn' = Drawn \cup {p.frame}
    BY <1>0, <2>1, <2>2, DrawnAppend DEF Drawn
  <2>4. IsFiniteSet(Drawn') /\ Cardinality(Drawn') = Cardinality(Drawn) + 1
    BY <1>0, <2>3, FS_AddElement
  <2>5. shown' \in Seq(1 .. frames) /\ Len(shown') = Len(shown) + 1
    BY <1>0, <2>1, <2>2
  <2>6. \A q \in paints' : q.frame \notin Drawn'
    BY <1>0, <2>1, <2>3
  <2>7. QED
    BY <1>0, <2>1, <2>4, <2>5, <2>6 DEF PaintType
<1>4. CASE Owner \/ LoopEnds \/ CaptureFails \/ CaptureBegins \/ Encode \/ VideoRendererAsync
           \/ UNCHANGED vars
  <2>1. UNCHANGED <<frames, paints, shown>>
    BY <1>4 DEF Owner, StartCapture, SetRunning, AddPip, AddOrUpdateSink, RemoveSink, StopCapture,
       Delete, LoopEnds, CaptureFails, CaptureBegins, Encode, VideoRendererAsync, vars,
       captureVars, renderVars
  <2>2. Drawn' = Drawn
    BY <2>1 DEF Drawn
  <2>3. QED
    BY <1>0, <2>1, <2>2 DEF PaintType
<1>5. QED
  BY <1>1, <1>2, <1>3, <1>4 DEF Next, CaptureFrames, Renderer

\* Every variable has its type, the encoder never has more frames than its
\* bound, and no frame is drawn twice, in whatever order the coroutines of
\* PaintFrameAsync come to the UI thread.
THEOREM TypeCorrect == Spec => []TypeOK
<1>1. TypeInv /\ [Next]_vars => TypeInv'
  BY ControlTyped, NumbersTyped, EncoderTyped, PaintsTyped DEF TypeInv
<1>2. QED
  BY <1>1, TypeInitial, TypeParts, PTL DEF Spec
=============================================================================
