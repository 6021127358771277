---------------------------- MODULE H264MediaSink ----------------------------
(***************************************************************************)
(* The media sink (encoder/h264_media_sink.cc) composed with its one       *)
(* stream sink and with the way H264EncoderMFImpl::InitWriter and          *)
(* ReleaseWriter use the two.                                              *)
(*                                                                         *)
(* InitWriter creates the media sink, has the sink writer add a stream,    *)
(* registers the callback and begins writing; ON_SUCCEEDED skips the rest  *)
(* after a failure, so ReleaseWriter may come after any of these steps.    *)
(* Every call of the media sink but RegisterEncodingCallback holds its     *)
(* critSec_ until the call of the stream sink it makes has returned, hence *)
(* one action.  The sink writer, which is external, keeps its own          *)
(* reference to the stream and goes on calling it whatever the media sink  *)
(* does; the presentation clock keeps calling the media sink until it is   *)
(* removed from the clock, which Shutdown does not do.                     *)
(***************************************************************************)
EXTENDS H264StreamSink

VARIABLES
  sinkIsShutdown,  \* isShutdown_ of the media sink
  outputStream,    \* outputStream_ != nullptr
  clockCalls,      \* the presentation clock has this sink as a state sink
  writer,          \* how far InitWriter and ReleaseWriter have come
  removed,         \* ghost: "no", "shut" or "kept" by RemoveStreamSink
  nullStream       \* a call was made through a null outputStream_

mediaVars == <<sinkIsShutdown, outputStream, clockCalls, writer, removed,
               nullStream>>
sinkVars == <<vars, mediaVars>>

MediaInit ==
  /\ Init
  /\ sinkIsShutdown = FALSE
  /\ outputStream = FALSE
  /\ clockCalls = FALSE
  /\ writer = "created"
  /\ removed = "no"
  /\ nullStream = FALSE

\* CheckShutdown, in a process that has not crashed.
CheckShutdown == ~sinkIsShutdown /\ ~crashed /\ ~nullStream

\* outputStream_->Call() without a test for null.
ThroughStream(Call) ==
  IF outputStream
    THEN Call /\ UNCHANGED nullStream
    ELSE nullStream' = TRUE /\ UNCHANGED vars

\* The stream was added: it has had a media type ever since.
Added == state # "TypeNotSet"

-----------------------------------------------------------------------------
(* InitWriter and ReleaseWriter.                                           *)

\* sinkWriter_->AddStream: the writer calls AddStreamSink with the media type.
AddStreamSink(t) ==
  /\ writer = "created"
  /\ CheckShutdown
  /\ ~outputStream
  /\ outputStream' = TRUE
  /\ writer' = "added"
  /\ SetCurrentMediaType(t)
  /\ UNCHANGED <<sinkIsShutdown, clockCalls, removed, nullStream>>

\* MakeAndInitialize or the stream's SetCurrentMediaType fails; only the latter
\* leaves a stream behind.  InitWriter gives up.
AddStreamSinkFails(t) ==
  /\ writer = "created"
  /\ CheckShutdown
  /\ ~outputStream
  /\ writer' = "failed"
  /\ \/ UNCHANGED <<vars, outputStream>>
     \/ SetCurrentMediaTypeFails(t) /\ outputStream' = TRUE
  /\ UNCHANGED <<sinkIsShutdown, clockCalls, removed, nullStream>>

\* Takes no lock of the media sink.
RegisterCallback ==
  /\ writer = "added"
  /\ ~crashed /\ ~nullStream
  /\ writer' = "registered"
  /\ ThroughStream(RegisterEncodingCallback)
  /\ UNCHANGED <<sinkIsShutdown, outputStream, clockCalls, removed>>

\* Mutant: the writer begins before the callback is registered.
BeginWritingFirst ==
  /\ writer = "added"
  /\ CheckShutdown
  /\ writer' = "writing"
  /\ clockCalls' = TRUE
  /\ UNCHANGED <<vars, sinkIsShutdown, outputStream, removed, nullStream>>

\* sinkWriter_->BeginWriting: the writer gives the sink its clock.
BeginWriting ==
  /\ writer = "registered"
  /\ CheckShutdown
  /\ writer' = "writing"
  /\ clockCalls' = TRUE
  /\ UNCHANGED <<vars, sinkIsShutdown, outputStream, removed, nullStream>>

\* Mutants: the media sink is marked and the stream only let go; the stream is
\* shut down and the media sink not marked.
MediaShutdownKeepsStream ==
  /\ writer # "released"
  /\ CheckShutdown
  /\ writer' = "released"
  /\ sinkIsShutdown' = outputStream
  /\ outputStream' = FALSE
  /\ UNCHANGED <<vars, clockCalls, removed, nullStream>>
MediaShutdownUnmarked ==
  /\ writer # "released"
  /\ CheckShutdown
  /\ writer' = "released"
  /\ IF outputStream THEN Shutdown ELSE UNCHANGED vars
  /\ outputStream' = FALSE
  /\ UNCHANGED <<sinkIsShutdown, clockCalls, removed, nullStream>>

\* ReleaseWriter ends with H264MediaSink::Shutdown, which does nothing at all
\* without a stream.
MediaShutdown ==
  /\ writer # "released"
  /\ CheckShutdown
  /\ writer' = "released"
  /\ IF outputStream
       THEN /\ Shutdown
            /\ outputStream' = FALSE
            /\ sinkIsShutdown' = TRUE
       ELSE UNCHANGED <<vars, outputStream, sinkIsShutdown>>
  /\ UNCHANGED <<clockCalls, removed, nullStream>>

-----------------------------------------------------------------------------
(* The calls of the sink writer and of the presentation clock.             *)

\* The stream is let go even if the identifier is not its own.
RemoveStreamSink ==
  /\ CheckShutdown
  /\ outputStream
  /\ \/ Shutdown /\ removed' = "shut"
     \/ UNCHANGED vars /\ removed' = "kept"
  /\ outputStream' = FALSE
  /\ UNCHANGED <<sinkIsShutdown, clockCalls, writer, nullStream>>

\* The old clock forgets the sink, a new one, if there is one, gets it.
SetPresentationClock ==
  /\ clockCalls
  /\ CheckShutdown
  /\ clockCalls' \in BOOLEAN
  /\ UNCHANGED <<vars, sinkIsShutdown, outputStream, writer, removed, nullStream>>

OnClockStart ==
  /\ clockCalls
  /\ CheckShutdown
  /\ ThroughStream(Start)
  /\ UNCHANGED <<sinkIsShutdown, outputStream, clockCalls, writer, removed>>

OnClockStop ==
  /\ clockCalls
  /\ CheckShutdown
  /\ ThroughStream(Stop)
  /\ UNCHANGED <<sinkIsShutdown, outputStream, clockCalls, writer, removed>>

\* The writer looks up the stream it has added.
GetStreamSinkByIndex ==
  /\ Added
  /\ CheckShutdown
  /\ ThroughStream(UNCHANGED vars)
  /\ UNCHANGED <<sinkIsShutdown, outputStream, clockCalls, writer, removed>>

\* The writer calls the stream itself.
WriterCalls ==
  /\ Added
  /\ ~nullStream
  /\ \/ \E t \in Subtypes : SetCurrentMediaType(t) \/ SetCurrentMediaTypeFails(t)
     \/ ProcessSample
     \/ ProcessSampleRefused
     \/ PlaceMarker
     \/ Flush
  /\ UNCHANGED mediaVars

WorkQueueThread == ~nullStream /\ OnDispatchWorkItem /\ UNCHANGED mediaVars

-----------------------------------------------------------------------------
MediaNext ==
  \/ \E t \in Subtypes : AddStreamSink(t) \/ AddStreamSinkFails(t)
  \/ RegisterCallback
  \/ BeginWriting
  \/ MediaShutdown
  \/ RemoveStreamSink
  \/ SetPresentationClock
  \/ OnClockStart
  \/ OnClockStop
  \/ GetStreamSinkByIndex
  \/ WriterCalls
  \/ WorkQueueThread

MediaSpec == MediaInit /\ [][MediaNext]_sinkVars

\* Media Foundation keeps executing the items of the work queue.
MediaFairSpec == MediaSpec /\ WF_sinkVars(WorkQueueThread)

-----------------------------------------------------------------------------
(* Properties                                                              *)

\* The media sink, the clock and the encoder together call the stream sink
\* only in the ways H264StreamSink allows: the callback is registered before
\* the first Start, and Shutdown comes once.
ImplementsStreamSink == Spec

\* Once ReleaseWriter has returned, no call of OnH264Encoded starts, unless the
\* stream had been removed under a wrong identifier.
QuietAfterRelease ==
  [][writer = "released" /\ removed # "kept" /\ dispatcher # "calling"
       => dispatcher' # "calling"]_sinkVars

\* The clock goes on calling after Shutdown, and a failed InitWriter may leave
\* no stream; neither leads through a null outputStream_, RemoveStreamSink
\* can.  OnDispatchWorkItem goes through a bad encodingCallback_ in one case
\* only: Shutdown cleared it between the null test and the call.  The pointer
\* is never used before RegisterEncodingCallback has given it a value.
NullCallsExplained ==
  /\ nullStream => removed # "no"
  /\ crashed => isShutdown /\ callback = "null" /\ dispatcher = "calling"

\* Shutdown of the stream ends all the work that was pending.
PendingWorkEnds ==
  isShutdown ~> \/ crashed \/ nullStream
                \/ dispatcher = "idle" /\ workQueue = <<>>
=============================================================================
