-------------------------- MODULE DesktopVideoTrack --------------------------
(***************************************************************************)
(* The desktop track of the wrapper library: VideoTrackSource with its     *)
(* DesktopCapturer, the VideoSource both are built on, and the VideoRender *)
(* of the preview ("pip").                                                 *)
(*                                                                         *)
(* The owner is the thread that creates the track, calls ConnectPip and at *)
(* last deletes the source.  The capture thread runs CaptureFrames and, in *)
(* the same call, OnFrame of the source and of every sink.  The renderer   *)
(* goes on in coroutines that hop between the thread pool and the UI       *)
(* thread.  The encoder of WebRTC (external) is the other sink: it keeps a *)
(* reference to the frame and reads it on a thread of its own.             *)
(*                                                                         *)
(* A picture is the number of the capture it came from, 0 while a buffer   *)
(* is being written.  A queued frame has its own picture in `kept', or 0   *)
(* while it shares the buffer of the capturer.  The 5 seconds StartCapture *)
(* sleeps "for the ui is not ready" guarantee nothing; surfaceLate         *)
(* remembers that they were too few.                                       *)
(***************************************************************************)
EXTENDS Naturals, Sequences, FiniteSets

CONSTANTS MaxFrames,  \* bound: pictures captured
          MaxQueued   \* frames the encoder keeps; it drops what comes then

ASSUME DesktopAssumption == MaxFrames \in Nat /\ MaxQueued \in Nat

VARIABLES
  owner,        \* where the owner is
  isRunning,    \* _isRunning
  thread,       \* where the capture thread is
  frames,       \* pictures captured, _frameCount
  buffer,       \* the picture in _i420_buffer
  sinks,        \* the sinks of _broadcaster
  queue,        \* frames the encoder has not read yet
  encoded,      \* what the encoder has read
  surface,      \* how far VideoRendererAsync has come
  paints,       \* the coroutines of PaintFrameAsync
  shown,        \* what was drawn, in that order
  crashed,      \* "no", or what was used before its time or after it
  attempts,     \* ghost: calls of CaptureFrame, 0, 1 or more
  startLost,    \* ghost: the thread ended before _isRunning was set
  surfaceLate,  \* ghost: StartCapture went on before the surface was there
  underWay      \* ghost: a coroutine was not done when the source was deleted

captureVars == <<isRunning, thread, frames, buffer, attempts, startLost>>
encoderVars == <<queue, encoded>>
renderVars == <<surface, paints, shown>>
vars == <<owner, sinks, crashed, surfaceLate, underWay, captureVars, encoderVars,
          renderVars>>

Init ==
  /\ owner = "created"
  /\ isRunning = FALSE
  /\ thread = "none"
  /\ frames = 0
  /\ buffer = 0
  /\ sinks = {}
  /\ queue = <<>>
  /\ encoded = {}
  /\ surface = "posted"
  /\ paints = {}
  /\ shown = <<>>
  /\ crashed = "no"
  /\ attempts = 0
  /\ startLost = FALSE
  /\ surfaceLate = FALSE
  /\ underWay = FALSE

Running == crashed = "no"

-----------------------------------------------------------------------------
(* The owner: ConnectPip and the destructor.                               *)

\* StartCapture after its sleep, up to the start of the thread.
StartCapture ==
  /\ Running
  /\ owner = "created"
  /\ owner' = "starting"
  /\ thread' = "loop"
  /\ surfaceLate' = (surface \notin {"created", "attached"})
  /\ UNCHANGED <<sinks, underWay, crashed, isRunning, frames, buffer, attempts,
                 startLost, encoderVars, renderVars>>

\* The thread is already running when _isRunning is set.
SetRunning ==
  /\ Running
  /\ owner = "starting"
  /\ owner' = "started"
  /\ isRunning' = TRUE
  /\ UNCHANGED <<sinks, crashed, surfaceLate, underWay, thread, frames, buffer,
                 attempts, startLost, encoderVars, renderVars>>

\* The second half of ConnectPip.
AddPip ==
  /\ Running
  /\ owner = "started"
  /\ owner' = "connected"
  /\ sinks' = sinks \cup {"pip"}
  /\ UNCHANGED <<crashed, surfaceLate, underWay, captureVars, encoderVars,
                 renderVars>>

\* WebRTC adds its encoder when a peer is there, and removes it before it lets
\* the track go.
AddOrUpdateSink ==
  /\ Running
  /\ owner = "connected"
  /\ sinks' = sinks \cup {"encoder"}
  /\ UNCHANGED <<owner, crashed, surfaceLate, underWay, captureVars,
                 encoderVars, renderVars>>

RemoveSink ==
  /\ Running
  /\ sinks' = sinks \ {"encoder"}
  /\ UNCHANGED <<owner, crashed, surfaceLate, underWay, captureVars,
                 encoderVars, renderVars>>

\* Mutant: _isRunning is left set when the thread is joined.
StopCaptureStillRunning ==
  /\ Running
  /\ owner = "connected"
  /\ "encoder" \notin sinks
  /\ owner' = "joining"
  /\ UNCHANGED <<sinks, crashed, surfaceLate, underWay, captureVars,
                 encoderVars, renderVars>>

\* The destructors of source and capturer, Dispose, and StopCapture up to the
\* join.
StopCapture ==
  /\ Running
  /\ owner = "connected"
  /\ "encoder" \notin sinks
  /\ owner' = "joining"
  /\ isRunning' = FALSE
  /\ UNCHANGED <<sinks, crashed, surfaceLate, underWay, thread, frames, buffer,
                 attempts, startLost, encoderVars, renderVars>>

\* Mutant: the thread is not joined.
DeleteAtOnce ==
  /\ Running
  /\ owner = "joining"
  /\ owner' = "deleted"
  /\ sinks' = {}
  /\ underWay' = (paints # {} \/ surface # "attached")
  /\ UNCHANGED <<crashed, surfaceLate, captureVars, encoderVars, renderVars>>

\* join() returns; capturer, source and renderer are deleted.
Delete ==
  /\ Running
  /\ owner = "joining"
  /\ thread = "ended"
  /\ owner' = "deleted"
  /\ sinks' = {}
  /\ underWay' = (paints # {} \/ surface # "attached")
  /\ UNCHANGED <<crashed, surfaceLate, captureVars, encoderVars, renderVars>>

-----------------------------------------------------------------------------
(* CaptureFrames, the capture thread.                                      *)

\* A step of the thread that uses the capturer.
UsesCapturer ==
  /\ Running
  /\ crashed' = IF owner = "deleted" THEN "capturer" ELSE "no"

\* while (_isRunning) ends.
LoopEnds ==
  /\ UsesCapturer
  /\ thread = "loop"
  /\ ~isRunning
  /\ thread' = "ended"
  /\ startLost' = (startLost \/ owner = "starting")
  /\ UNCHANGED <<owner, sinks, surfaceLate, underWay, isRunning, frames, buffer,
                 attempts, encoderVars, renderVars>>

\* CaptureFrame without a picture, and the pause.
CaptureFails ==
  /\ UsesCapturer
  /\ thread = "loop"
  /\ isRunning
  /\ attempts' = 1
  /\ UNCHANGED <<owner, sinks, surfaceLate, underWay, isRunning, thread, frames,
                 buffer, startLost, encoderVars, renderVars>>

\* OnCaptureResult converts the picture into the one _i420_buffer, or into a new
\* one if the screen has grown; frames that shared the old one then keep it.
CaptureBegins ==
  /\ UsesCapturer
  /\ thread = "loop"
  /\ isRunning
  /\ frames < MaxFrames
  /\ thread' = "converting"
  /\ buffer' = 0
  /\ \/ UNCHANGED queue
     \/ queue' = [i \in DOMAIN queue |->
                    IF queue[i].kept = 0 THEN [queue[i] EXCEPT !.kept = buffer]
                                         ELSE queue[i]]
  /\ attempts' = 1
  /\ UNCHANGED <<owner, sinks, surfaceLate, underWay, isRunning, frames,
                 startLost, encoded, renderVars>>

\* VideoRender::OnFrame scales into a buffer of its own, converts that into
\* new memory and calls PaintFrameAsync.
RenderFrame(n) ==
  IF "pip" \in sinks
    THEN paints' = paints \cup {[frame |-> n, at |-> "background"]}
    ELSE UNCHANGED paints

\* The encoder keeps the frame, or drops it when it has too many.
EncoderFrame(n, scaled, kept) ==
  IF "encoder" \in sinks /\ Len(queue) < MaxQueued
    THEN queue' = Append(queue, [frame |-> n, scaled |-> scaled, kept |-> kept])
    ELSE UNCHANGED queue

\* Mutant: a down-scaled picture is put into the capturer's own buffer.
OnFrameInPlace(n) ==
  \/ UNCHANGED <<paints, queue>>
  \/ \E scaled \in BOOLEAN : RenderFrame(n) /\ EncoderFrame(n, scaled, 0)

\* VideoSource::OnFrame: the adapter drops the frame, has it scaled into a new
\* buffer, or lets it pass as it is.
OnFrame(n) ==
  \/ UNCHANGED <<paints, queue>>
  \/ RenderFrame(n) /\ EncoderFrame(n, TRUE, n)
  \/ RenderFrame(n) /\ EncoderFrame(n, FALSE, 0)

FrameCaptured ==
  /\ UsesCapturer
  /\ thread = "converting"
  /\ frames' = frames + 1
  /\ buffer' = frames + 1
  /\ OnFrame(frames + 1)
  /\ thread' = "loop"
  /\ UNCHANGED <<owner, sinks, surfaceLate, underWay, isRunning, attempts,
                 startLost, encoded, surface, shown>>

-----------------------------------------------------------------------------
(* The encoder reads the oldest frame it has.                              *)

Encode ==
  /\ Running
  /\ queue # <<>>
  /\ LET f == Head(queue)
     IN  encoded' = encoded \cup {[frame |-> f.frame, scaled |-> f.scaled,
                                   picture |-> IF f.kept = 0 THEN buffer ELSE f.kept]}
  /\ queue' = Tail(queue)
  /\ UNCHANGED <<owner, sinks, crashed, surfaceLate, underWay, captureVars,
                 renderVars>>

-----------------------------------------------------------------------------
(* The renderer's coroutines.                                              *)

\* A coroutine that goes on with a renderer that is gone, or a null surface.
Uses(needsSurface) ==
  /\ Running
  /\ crashed' = CASE owner = "deleted" -> "renderer"
                  [] owner # "deleted" /\ needsSurface
                       /\ surface \notin {"created", "attached"} -> "surface"
                  [] OTHER -> "no"

\* VideoRendererAsync: the compositor on the UI thread, the surface on the
\* thread pool, the visual on the UI thread.
VideoRendererAsync ==
  /\ Uses(FALSE)
  /\ \/ surface = "posted" /\ surface' = "background"
     \/ surface = "background" /\ surface' = "created"
     \/ surface = "created" /\ surface' = "attached"
  /\ UNCHANGED <<owner, sinks, surfaceLate, underWay, captureVars, encoderVars,
                 paints, shown>>

\* Mutant: the picture is drawn on the thread pool and again on the UI thread.
PaintBackgroundDraws(p) ==
  /\ Uses(TRUE)
  /\ p.at = "background"
  /\ paints' = (paints \ {p}) \cup {[p EXCEPT !.at = "foreground"]}
  /\ shown' = Append(shown, p.frame)
  /\ UNCHANGED <<owner, sinks, surfaceLate, underWay, captureVars, encoderVars,
                 surface>>

\* PaintFrameAsync on the thread pool: the bitmap, and the size of the surface.
PaintBackground(p) ==
  /\ Uses(TRUE)
  /\ p.at = "background"
  /\ paints' = (paints \ {p}) \cup {[p EXCEPT !.at = "foreground"]}
  /\ UNCHANGED <<owner, sinks, surfaceLate, underWay, captureVars, encoderVars,
                 surface, shown>>

\* PaintFrameAsync on the UI thread: the drawing session.
PaintForeground(p) ==
  /\ Uses(TRUE)
  /\ p.at = "foreground"
  /\ paints' = paints \ {p}
  /\ shown' = Append(shown, p.frame)
  /\ UNCHANGED <<owner, sinks, surfaceLate, underWay, captureVars, encoderVars,
                 surface>>

-----------------------------------------------------------------------------
Owner ==
  \/ StartCapture \/ SetRunning \/ AddPip
  \/ AddOrUpdateSink \/ RemoveSink
  \/ StopCapture \/ Delete

CaptureFrames == LoopEnds \/ CaptureFails \/ CaptureBegins \/ FrameCaptured

Renderer ==
  \/ VideoRendererAsync
  \/ \E p \in paints : PaintBackground(p) \/ PaintForeground(p)

Next == Owner \/ CaptureFrames \/ Encode \/ Renderer

Spec == Init /\ [][Next]_vars

\* The capture thread is scheduled, join() returns once the thread has ended,
\* and thread pool and UI thread run what was posted to them.
FairSpec ==
  /\ Spec
  /\ WF_vars(CaptureFrames)
  /\ WF_vars(SetRunning)
  /\ WF_vars(Delete)
  /\ WF_vars(Renderer)

-----------------------------------------------------------------------------
(* Properties                                                              *)

Frames == 1 .. MaxFrames

\* Every variable has its type; a frame is drawn at most once.
TypeOK ==
  /\ owner \in {"created", "starting", "started", "connected", "joining", "deleted"}
  /\ isRunning \in BOOLEAN
  /\ thread \in {"none", "loop", "converting", "ended"}
  /\ frames \in 0 .. MaxFrames /\ buffer \in 0 .. frames
  /\ sinks \subseteq {"pip", "encoder"}
  /\ queue \in Seq([frame : Frames, scaled : BOOLEAN, kept : 0 .. MaxFrames])
  /\ Len(queue) <= MaxQueued
  /\ encoded \subseteq [frame : Frames, scaled : BOOLEAN, picture : 0 .. MaxFrames]
  /\ surface \in {"posted", "background", "created", "attached"}
  /\ paints \subseteq [frame : Frames, at : {"background", "foreground"}]
  /\ shown \in Seq(Frames)
  /\ Len(shown) = Cardinality({shown[i] : i \in DOMAIN shown})
  /\ crashed \in {"no", "capturer", "renderer", "surface"}
  /\ attempts \in {0, 1}
  /\ startLost \in BOOLEAN /\ surfaceLate \in BOOLEAN /\ underWay \in BOOLEAN

\* The encoder sees the picture of the frame it was given, although it reads it
\* while the capture thread is already writing the next one into the one
\* _i420_buffer, if the source has scaled the frame.  A frame that passes as it
\* is may be torn or show a later picture, never an earlier one.
TornOnlyIfPassed ==
  \A e \in encoded :
    /\ e.scaled => e.picture = e.frame
    /\ e.picture = 0 \/ e.picture >= e.frame

\* The capture thread never uses a deleted capturer or sink, and a paint never
\* finds the surface missing unless the sleep in StartCapture was too short.
\* A deleted renderer is used only by a coroutine that was already under way
\* when the source was deleted: none begins after that.
UsesExplained ==
  /\ crashed # "capturer"
  /\ crashed = "surface" => surfaceLate
  /\ crashed = "renderer" => underWay

\* Once StartCapture has returned pictures are taken, unless the thread found
\* _isRunning not yet set; and the destructor that joins the thread returns.
StartAndStopTakeEffect ==
  /\ owner = "started" ~> attempts > 0 \/ startLost
                            \/ owner \in {"joining", "deleted"} \/ ~Running
  /\ owner = "joining" ~> owner = "deleted" \/ ~Running
=============================================================================
