----------------------------- MODULE H264Encoder ----------------------------
(***************************************************************************)
(* The path of a frame through H264EncoderMFImpl                           *)
(* (encoder/h264_encoder_mf_impl.cc): Encode caches the frame's attributes *)
(* and writes a sample to the sink writer; the encoded sample comes back   *)
(* on the work-queue thread of the stream sink, in OnH264Encoded, which    *)
(* looks the attributes up again and calls OnEncodedImage.                 *)
(*                                                                         *)
(* WebRTC calls InitEncode, Encode, SetRates and Release from one task     *)
(* queue, the encoder thread.  Encode and SetRates may rebuild the writer  *)
(* (ReconfigureSinkWriter); each writer, with its media sink and stream    *)
(* sink, is a generation, and the thread of a generation that was replaced *)
(* may still be inside OnH264Encoded.  When the writer is rebuilt is the   *)
(* subject of H264RateControl; here Encode chooses.                        *)
(*                                                                         *)
(* What lies between WriteSample and OnH264Encoded, the Media Foundation   *)
(* encoder and the stream sink, is a channel per generation: it keeps the  *)
(* order, may lose samples, and after Shutdown only the call that had      *)
(* started goes on (EncodedSampleChannel, which H264StreamSink implements).*)
(*                                                                         *)
(* Sample times are in RTP ticks: the factor 10000/90 of                   *)
(* GetFrameTimestampHns keeps their order.  framePendingCount_,            *)
(* frameCount_, lastTimestampHns_ and lastFrameDropped_ are written and    *)
(* never decide anything, and are left out.                                *)
(***************************************************************************)
EXTENDS SampleAttributeQueue

CONSTANTS MaxFrames,         \* bound: frames passed to Encode
          MaxGenerations,    \* bound: writers built
          MaxLosses,         \* bound: samples lost inside Media Foundation
          MaxWriteFailures,  \* bound: failing WriteSample calls
          RtpModulus,        \* 2^32, the range of VideoFrame::timestamp()
          IdModulus,         \* 2^64, the range of the queue's ids
          FirstTimestamp     \* timestamp of frame 0

ASSUME EncoderAssumption ==
  /\ MaxFrames \in Nat /\ MaxGenerations \in Nat
  /\ MaxLosses \in Nat /\ MaxWriteFailures \in Nat
  /\ RtpModulus \in Nat \ {0} /\ IdModulus \in Nat
  /\ 2 * RtpModulus <= IdModulus
  /\ FirstTimestamp \in Nat

VARIABLES
  pc,            \* where the encoder thread is
  purpose,       \* the call that releases the writer: "encode", "setRates"
                 \* or "release"
  frame,         \* the frame Encode works on; frames are numbered
  inited,        \* inited_
  writer,        \* sinkWriter_: "none", "begun" or "broken"
  generation,    \* number of writers built
  initFailed,    \* ghost: InitWriter has failed
  startTime,     \* startTime_
  firstFrame,    \* firstFrame_
  attributes,    \* _sampleAttributeQueue
  callback,      \* encodedCompleteCallback_ # nullptr
  tempCallback,  \* tempCallback of ReconfigureSinkWriter
  registered,    \* WebRTC has registered a callback and not yet released
  channel,       \* samples written and not yet given to OnH264Encoded
  call,          \* the OnH264Encoded call of each generation
  delivered,     \* frame encoded and frame whose attributes OnEncodedImage got
  losses, writeFailures,
  latePop,       \* a call of a replaced generation used the attribute queue
  crashed        \* a null sinkWriter_ was used

threadVars == <<pc, purpose, frame>>
writerVars == <<inited, writer, generation, initFailed>>
timeVars == <<startTime, firstFrame>>
callbackVars == <<callback, tempCallback, registered>>
faultVars == <<losses, writeFailures, crashed>>
sinkVars == <<call, delivered, latePop>>
vars == <<threadVars, writerVars, timeVars, attributes, callbackVars, channel,
          sinkVars, faultVars>>

Generations == 1 .. MaxGenerations
NoCall == [stage |-> "none", id |-> 0, frame |-> 0, attr |-> 0]

Init ==
  /\ pc = "idle" /\ purpose = "release" /\ frame = 0
  /\ inited = FALSE /\ writer = "none" /\ generation = 0
  /\ initFailed = FALSE
  /\ startTime = 0 /\ firstFrame = TRUE
  /\ attributes = <<>>
  /\ callback = FALSE /\ tempCallback = FALSE /\ registered = FALSE
  /\ channel = [g \in Generations |-> <<>>]
  /\ call = [g \in Generations |-> NoCall]
  /\ delivered = <<>>
  /\ losses = 0 /\ writeFailures = 0
  /\ latePop = FALSE
  /\ crashed = FALSE

-----------------------------------------------------------------------------
Timestamp(f) == (FirstTimestamp + f) % RtpModulus

\* GetFrameTimestampHns is signed and becomes uint64_t in the queue.
GetFrameTimestampHns(f, start) == (IdModulus + Timestamp(f) - start) % IdModulus

-----------------------------------------------------------------------------
(* The encoder thread.                                                     *)

At(where) == pc = where /\ ~crashed

\* InitWriter under crit_.  It may fail before sinkWriter_ is set or after.
InitWriter ==
  /\ generation < MaxGenerations
  /\ generation' = generation + 1
  /\ \/ inited' = TRUE /\ writer' = "begun" /\ UNCHANGED initFailed
     \/ /\ writer' \in {"none", "broken"}
        /\ initFailed' = TRUE
        /\ UNCHANGED inited

InitEncode ==
  /\ At("idle")
  /\ ~inited
  /\ InitWriter
  /\ UNCHANGED <<threadVars, timeVars, attributes, callbackVars, channel,
                 sinkVars, faultVars>>

RegisterEncodeCompleteCallback ==
  /\ At("idle")
  /\ callback' = TRUE
  /\ registered' = TRUE
  /\ UNCHANGED <<threadVars, writerVars, timeVars, attributes, tempCallback,
                 channel, sinkVars, faultVars>>

\* Mutants: the queue is not cleared; the callback is not cleared.
ReleaseWriterKeepsQueue ==
  /\ writer' = "none" /\ inited' = FALSE
  /\ startTime' = 0 /\ firstFrame' = TRUE
  /\ callback' = FALSE
  /\ pc' = "shutdownSink"
  /\ UNCHANGED attributes
ReleaseWriterKeepsCallback ==
  /\ writer' = "none" /\ inited' = FALSE
  /\ startTime' = 0 /\ firstFrame' = TRUE
  /\ attributes' = <<>>
  /\ pc' = "shutdownSink"
  /\ UNCHANGED callback

\* The part of ReleaseWriter under crit_ and callbackCrit_.
ReleaseWriter ==
  /\ writer' = "none" /\ inited' = FALSE
  /\ startTime' = 0 /\ firstFrame' = TRUE
  /\ attributes' = <<>>
  /\ callback' = FALSE
  /\ pc' = "shutdownSink"

\* The end of ReleaseWriter: tmpMediaSink->Shutdown().
ShutdownSink ==
  /\ At("shutdownSink")
  /\ channel' = [g \in Generations |-> <<>>]
  /\ pc' = IF purpose = "release" THEN "idle" ELSE "restoreCallback"
  /\ registered' = (registered /\ purpose # "release")
  /\ UNCHANGED <<purpose, frame, writerVars, timeVars, attributes, callback,
                 tempCallback, sinkVars, faultVars>>

Release ==
  /\ At("idle")
  /\ ReleaseWriter
  /\ purpose' = "release"
  /\ UNCHANGED <<frame, generation, initFailed, tempCallback, registered,
                 channel, sinkVars, faultVars>>

\* ReconfigureSinkWriter after ReleaseWriter: the callback is put back and
\* the next writer is built; the result of InitWriter is not looked at.
RestoreCallback ==
  /\ At("restoreCallback")
  /\ callback' = tempCallback
  /\ pc' = "initWriter"
  /\ UNCHANGED <<purpose, frame, writerVars, timeVars, attributes, tempCallback,
                 registered, channel, sinkVars, faultVars>>

RebuildWriter ==
  /\ At("initWriter")
  /\ InitWriter
  /\ pc' = IF purpose = "encode" THEN "requestKeyFrame" ELSE "idle"
  /\ UNCHANGED <<purpose, frame, timeVars, attributes, callbackVars, channel,
                 sinkVars, faultVars>>

EncodeUninitialized ==
  /\ At("idle")
  /\ frame < MaxFrames
  /\ ~inited
  /\ frame' = frame + 1
  /\ UNCHANGED <<pc, purpose, writerVars, timeVars, attributes, callbackVars,
                 channel, sinkVars, faultVars>>

EncodeSameWriter ==
  /\ At("idle")
  /\ frame < MaxFrames
  /\ inited
  /\ frame' = frame + 1
  /\ pc' = "requestKeyFrame"
  /\ UNCHANGED <<purpose, writerVars, timeVars, attributes, callbackVars,
                 channel, sinkVars, faultVars>>

EncodeReconfigure ==
  /\ At("idle")
  /\ frame < MaxFrames
  /\ generation < MaxGenerations
  /\ inited
  /\ frame' = frame + 1
  /\ purpose' = "encode"
  /\ tempCallback' = callback
  /\ ReleaseWriter
  /\ UNCHANGED <<generation, initFailed, registered, channel, sinkVars,
                 faultVars>>

SetRatesReconfigure ==
  /\ At("idle")
  /\ generation < MaxGenerations
  /\ writer # "none"
  /\ purpose' = "setRates"
  /\ tempCallback' = callback
  /\ ReleaseWriter
  /\ UNCHANGED <<frame, generation, initFailed, registered, channel, sinkVars,
                 faultVars>>

\* The key frame request goes through sinkWriter_ without a lock.
RequestKeyFrame ==
  /\ At("requestKeyFrame")
  /\ \/ pc' = "makeSample" /\ UNCHANGED crashed
     \/ writer = "none" /\ crashed' = TRUE /\ UNCHANGED pc
  /\ UNCHANGED <<purpose, frame, writerVars, timeVars, attributes, callbackVars,
                 channel, sinkVars, losses, writeFailures>>

\* Mutant: one frame too many is let into the pipeline.
FromVideoFrameFour ==
  LET start == IF firstFrame THEN Timestamp(frame) ELSE startTime
  IN  /\ At("makeSample")
      /\ Len(attributes) <= 3
      /\ startTime' = start
      /\ firstFrame' = FALSE
      /\ attributes' =
           Push(attributes, GetFrameTimestampHns(frame, start), frame)
      /\ pc' = "writeSample"
      /\ UNCHANGED <<purpose, frame, writerVars, callbackVars, channel, sinkVars,
                     faultVars>>

\* FromVideoFrame with a sample to encode.
FromVideoFrame ==
  LET start == IF firstFrame THEN Timestamp(frame) ELSE startTime
  IN  /\ At("makeSample")
      /\ Len(attributes) <= 2
      /\ startTime' = start
      /\ firstFrame' = FALSE
      /\ attributes' =
           Push(attributes, GetFrameTimestampHns(frame, start), frame)
      /\ pc' = "writeSample"
      /\ UNCHANGED <<purpose, frame, writerVars, callbackVars, channel, sinkVars,
                     faultVars>>

\* FromVideoFrame with a sample that has no buffer: nothing is cached, and Media
\* Foundation refuses the sample.
EmptySample ==
  /\ At("makeSample")
  /\ Len(attributes) <= 2
  /\ startTime' = IF firstFrame THEN Timestamp(frame) ELSE startTime
  /\ firstFrame' = FALSE
  /\ IF writer = "none"
       THEN crashed' = TRUE /\ UNCHANGED pc
       ELSE pc' = "idle" /\ UNCHANGED crashed
  /\ UNCHANGED <<purpose, frame, writerVars, attributes, callbackVars, channel,
                 sinkVars, losses, writeFailures>>

\* Three frames are pending, or FromVideoFrame could not create a sample.
DropFrame ==
  /\ At("makeSample")
  /\ IF writer = "none"
       THEN crashed' = TRUE /\ UNCHANGED pc
       ELSE pc' = "idle" /\ UNCHANGED crashed
  /\ UNCHANGED <<purpose, frame, writerVars, timeVars, attributes, callbackVars,
                 channel, sinkVars, losses, writeFailures>>

\* The result of WriteSample is not looked at.
WriteSample ==
  /\ At("writeSample")
  /\ writer = "begun"
  /\ pc' = "idle"
  /\ \/ /\ channel' = [channel EXCEPT ![generation] =
                         Append(@, [id |-> GetFrameTimestampHns(frame, startTime),
                                    frame |-> frame])]
        /\ UNCHANGED writeFailures
     \/ /\ writeFailures < MaxWriteFailures
        /\ writeFailures' = writeFailures + 1
        /\ UNCHANGED channel
  /\ UNCHANGED <<purpose, frame, writerVars, timeVars, attributes, callbackVars,
                 sinkVars, losses, crashed>>

\* A writer that InitWriter left half built refuses the sample.
WriteSampleUnready ==
  /\ At("writeSample")
  /\ writer # "begun"
  /\ IF writer = "none"
       THEN crashed' = TRUE /\ UNCHANGED <<pc, writeFailures>>
       ELSE pc' = "idle" /\ writeFailures' = writeFailures + 1 /\ UNCHANGED crashed
  /\ UNCHANGED <<purpose, frame, writerVars, timeVars, attributes, callbackVars,
                 channel, sinkVars, losses>>

-----------------------------------------------------------------------------
(* Media Foundation and the thread of a generation's work queue.           *)

LoseSample(g) ==
  /\ ~crashed
  /\ losses < MaxLosses
  /\ channel[g] # <<>>
  /\ losses' = losses + 1
  /\ channel' = [channel EXCEPT ![g] = Tail(@)]
  /\ UNCHANGED <<threadVars, writerVars, timeVars, attributes, callbackVars,
                 sinkVars, writeFailures, crashed>>

EncodedSample(g) ==
  /\ ~crashed
  /\ call[g].stage = "none"
  /\ channel[g] # <<>>
  /\ call' = [call EXCEPT ![g] =
                [stage |-> "entered", id |-> Head(channel[g]).id,
                 frame |-> Head(channel[g]).frame, attr |-> 0]]
  /\ channel' = [channel EXCEPT ![g] = Tail(@)]
  /\ UNCHANGED <<threadVars, writerVars, timeVars, attributes, callbackVars,
                 delivered, latePop, faultVars>>

\* Mutant: the entry is only popped for a sample that will be delivered.
PopAttributesIfWanted(g) ==
  /\ ~crashed
  /\ call[g].stage = "entered"
  /\ LET r == Pop(attributes, call[g].id)
     IN  \/ /\ attributes' = r.queue
            /\ call' = [call EXCEPT ![g] =
                          IF r.found
                            THEN [@ EXCEPT !.stage = "popped", !.attr = r.frame]
                            ELSE NoCall]
         \/ /\ call' = [call EXCEPT ![g] = NoCall]
            /\ UNCHANGED attributes
  /\ latePop' = (latePop \/ g # generation \/ writer = "none")
  /\ UNCHANGED <<threadVars, writerVars, timeVars, callbackVars, channel,
                 delivered, faultVars>>

\* OnH264Encoded up to the pop of the attributes.
PopAttributes(g) ==
  /\ ~crashed
  /\ call[g].stage = "entered"
  /\ LET r == Pop(attributes, call[g].id)
     IN  /\ attributes' = r.queue
         /\ call' = [call EXCEPT ![g] =
                       IF r.found
                         THEN [@ EXCEPT !.stage = "popped", !.attr = r.frame]
                         ELSE NoCall]
  /\ latePop' = (latePop \/ g # generation \/ writer = "none")
  /\ UNCHANGED <<threadVars, writerVars, timeVars, callbackVars, channel,
                 delivered, faultVars>>

\* An empty sample, or a buffer that cannot be locked.
DiscardSample(g) ==
  /\ ~crashed
  /\ call[g].stage = "popped"
  /\ call' = [call EXCEPT ![g] = NoCall]
  /\ UNCHANGED <<threadVars, writerVars, timeVars, attributes, callbackVars,
                 channel, delivered, latePop, faultVars>>

\* The end of OnH264Encoded, under callbackCrit_.
OnEncodedImage(g) ==
  /\ ~crashed
  /\ call[g].stage = "popped"
  /\ delivered' = IF callback
                    THEN Append(delivered, [frame |-> call[g].frame,
                                            attr |-> call[g].attr])
                    ELSE delivered
  /\ call' = [call EXCEPT ![g] = NoCall]
  /\ UNCHANGED <<threadVars, writerVars, timeVars, attributes, callbackVars,
                 channel, latePop, faultVars>>

-----------------------------------------------------------------------------
EncoderThread ==
  \/ ShutdownSink
  \/ RestoreCallback
  \/ RebuildWriter
  \/ RequestKeyFrame
  \/ FromVideoFrame
  \/ EmptySample
  \/ DropFrame
  \/ WriteSample
  \/ WriteSampleUnready

Requests ==
  \/ InitEncode
  \/ RegisterEncodeCompleteCallback
  \/ EncodeUninitialized
  \/ EncodeSameWriter
  \/ EncodeReconfigure
  \/ SetRatesReconfigure
  \/ Release

OnH264Encoded(g) ==
  \/ EncodedSample(g)
  \/ PopAttributes(g)
  \/ DiscardSample(g)
  \/ OnEncodedImage(g)

Next ==
  \/ EncoderThread
  \/ Requests
  \/ \E g \in Generations : OnH264Encoded(g) \/ LoseSample(g)

Spec == Init /\ [][Next]_vars

\* A call that was made runs to its end, and Media Foundation encodes what it
\* was given; nobody has to call Encode.
FairSpec ==
  /\ Spec
  /\ WF_vars(EncoderThread)
  /\ \A g \in Generations : WF_vars(OnH264Encoded(g))

-----------------------------------------------------------------------------
(* Properties                                                              *)

Entry == [id : Nat, frame : Nat]

\* Every variable has its type; at most three frames have attributes cached,
\* the limit at which Encode drops frames.
TypeOK ==
  /\ pc \in {"idle", "shutdownSink", "restoreCallback", "initWriter",
             "requestKeyFrame", "makeSample", "writeSample"}
  /\ purpose \in {"encode", "setRates", "release"}
  /\ frame \in 0 .. MaxFrames
  /\ inited \in BOOLEAN /\ initFailed \in BOOLEAN
  /\ writer \in {"none", "begun", "broken"}
  /\ generation \in 0 .. MaxGenerations
  /\ startTime \in Nat
  /\ firstFrame \in BOOLEAN
  /\ attributes \in Seq(Entry) /\ Len(attributes) <= 3
  /\ {callback, tempCallback, registered} \subseteq BOOLEAN
  /\ channel \in [Generations -> Seq(Entry)]
  /\ call \in [Generations -> [stage : {"none", "entered", "popped"}, id : Nat,
                               frame : Nat, attr : Nat]]
  /\ delivered \in Seq([frame : Nat, attr : Nat])
  /\ losses \in Nat /\ writeFailures \in Nat
  /\ latePop \in BOOLEAN /\ crashed \in BOOLEAN

\* Every image passed to OnEncodedImage carries the attributes of the frame
\* it encodes.
AttributesMatch == \A i \in DOMAIN delivered : delivered[i].attr = delivered[i].frame

\* Within one cycle of the RTP timestamp, the attributes can only be confused by
\* a call of OnH264Encoded that a replaced writer left behind: lost samples,
\* dropped frames and the step from the last timestamp to 0 do not.
MatchUnlessLatePop == ~latePop => AttributesMatch

\* Each cached entry has its sample on the way.
EntriesHaveSamples ==
  losses = 0 /\ writeFailures = 0 /\ ~crashed /\ inited =>
    \A i \in DOMAIN attributes :
      \/ pc = "writeSample" /\ attributes[i].frame = frame
      \/ \E j \in DOMAIN channel[generation] : channel[generation][j] = attributes[i]
      \/ /\ call[generation].stage = "entered"
         /\ call[generation].frame = attributes[i].frame

\* Unless a sample is lost or not written, each cached entry has its sample
\* on the way, so that the three entries that make Encode drop frames will
\* be popped: the queue cannot clog.  And sinkWriter_ is only used when null
\* after InitWriter has failed: Release and the callback of an old writer never
\* pull it from under Encode.
HarmOnlyByFailure ==
  /\ EntriesHaveSamples
  /\ crashed => initFailed

\* OnEncodedImage is only called while WebRTC has a callback registered: once
\* Release has returned, no call of OnH264Encoded that is still running and
\* no restored tempCallback reaches the old callback.
ImagesOnlyWhileRegistered == [][delivered' # delivered => registered]_vars

\* A full attribute queue does not stay full.
QueueDrains ==
  Len(attributes) = 3 ~>
    (Len(attributes) < 3 \/ losses > 0 \/ writeFailures > 0 \/ crashed)
=============================================================================
