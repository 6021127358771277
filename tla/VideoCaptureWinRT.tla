-------------------------- MODULE VideoCaptureWinRT -------------------------
(***************************************************************************)
(* The camera module (video_capture/windows/video_capture_winrt.cc):       *)
(* VideoCaptureWinRT, whose calls run one at a time under _apiCs, over     *)
(* VideoCaptureWinRTInternal, which opens a MediaCapture, looks for a      *)
(* frame source and a format, and runs a MediaFrameReader.  The reader     *)
(* calls FrameArrived on threads of its own, through a handler that holds  *)
(* a plain pointer to the object.                                          *)
(*                                                                         *)
(* Each wait for an asynchronous operation is a step that may fail, by an  *)
(* error or by the timeout of WaitForASyncWithEvent, in which case the     *)
(* operation may still complete later.  A reader is a number; the frames   *)
(* themselves carry no state.                                              *)
(***************************************************************************)
EXTENDS Naturals, Sequences

CONSTANTS Capabilities,    \* requested capabilities [type, size, maxFPS]
          SourceLists,     \* what a device may offer: sequences of sources
                           \* [color, formats], formats being sequences of
                           \* [type, size, fps]
          PlainTypes,      \* I420, YUY2, YV12 and NV12
          NoCapability,    \* _requestedCapability before the first capture
          MaxReaders,      \* bound: readers created
          MaxFailures      \* bound: failing operations

ASSUME CaptureAssumption ==
  /\ MaxReaders \in Nat /\ MaxFailures \in Nat
  /\ NoCapability \notin Capabilities
  /\ SourceLists \subseteq
       Seq([color : BOOLEAN, formats : Seq([type : STRING, size : Nat, fps : Nat])])

VARIABLES
  pc, purpose,    \* where the call under _apiCs is, and what it stops for
  capability,     \* the argument of StartCapture
  sources,        \* frame_sources of the device
  src, fmt,       \* positions in the two loops of StartCapture
  hr,             \* SUCCEEDED(hr) in StopCapture
  alive,          \* the object has not been destroyed
  capturing,      \* is_capturing
  requested,      \* _requestedCapability
  opened,         \* media_capture_ # nullptr
  reader,         \* media_frame_reader_, 0: none
  readers,        \* number of readers created
  handlers,       \* readers with the FrameArrived handler
  running,        \* readers that have been started and not stopped
  delivering,     \* reader that is calling FrameArrived, 0: none
  failures,
  cause           \* ghost: which operations failed half way

loopVars == <<sources, src, fmt>>
objectVars == <<alive, capturing, requested, opened>>
readerVars == <<reader, readers, handlers, running, delivering>>
faultVars == <<failures, cause>>
vars == <<pc, purpose, capability, loopVars, hr, objectVars, readerVars,
          faultVars>>

Init ==
  /\ pc = "idle" /\ purpose = "stop" /\ capability = NoCapability
  /\ sources = <<>> /\ src = 1 /\ fmt = 1
  /\ hr = TRUE
  /\ alive = TRUE /\ capturing = FALSE /\ requested = NoCapability
  /\ opened = FALSE
  /\ reader = 0 /\ readers = 0
  /\ handlers = {} /\ running = {} /\ delivering = 0
  /\ failures = 0 /\ cause = {}

Failure ==
  /\ failures < MaxFailures
  /\ failures' = failures + 1

-----------------------------------------------------------------------------
(* The API calls.                                                          *)

StopPc == IF reader # 0 THEN "removeHandler" ELSE "closeCapture"

\* Mutant: a capture that is running is not stopped.
StartCaptureAgain(c) ==
  /\ pc = "idle" /\ alive
  /\ ~(capturing /\ c = requested)
  /\ readers < MaxReaders
  /\ capability' = c
  /\ pc' = "openCapture"
  /\ UNCHANGED <<purpose, hr, loopVars, objectVars, readerVars, faultVars>>

\* VideoCaptureWinRT::StartCapture; when it is capturing with this capability
\* already, it returns and changes nothing.
StartCapture(c) ==
  /\ pc = "idle" /\ alive
  /\ ~(capturing /\ c = requested)
  /\ readers < MaxReaders
  /\ capability' = c
  /\ IF capturing
       THEN pc' = StopPc /\ purpose' = "restart" /\ hr' = TRUE
       ELSE pc' = "openCapture" /\ UNCHANGED <<purpose, hr>>
  /\ UNCHANGED <<loopVars, objectVars, readerVars, faultVars>>

StopCapture ==
  /\ pc = "idle" /\ alive
  /\ pc' = StopPc
  /\ purpose' = "stop"
  /\ hr' = TRUE
  /\ UNCHANGED <<capability, loopVars, objectVars, readerVars, faultVars>>

Destroy ==
  /\ pc = "idle" /\ alive
  /\ pc' = StopPc
  /\ purpose' = "destroy"
  /\ hr' = TRUE
  /\ UNCHANGED <<capability, loopVars, objectVars, readerVars, faultVars>>

-----------------------------------------------------------------------------
(* VideoCaptureWinRTInternal::StartCapture                                 *)

\* A failure before GetMediaCaptureWithInitSettings keeps the old
\* media_capture_, a failure in it leaves none, one after it the new one.
OpenCapture ==
  /\ pc = "openCapture"
  /\ \/ /\ sources' \in SourceLists
        /\ src' = 1 /\ fmt' = 1
        /\ pc' = "sources"
        /\ opened' = TRUE
        /\ UNCHANGED failures
     \/ /\ Failure
        /\ pc' = "idle"
        /\ opened' \in {opened, FALSE, TRUE}
        /\ UNCHANGED loopVars
  /\ UNCHANGED <<purpose, capability, hr, alive, capturing, requested, readerVars,
                 cause>>

\* Mutants: the iterator moves twice; it does not move past a source of
\* another kind.
InspectSourceSkips ==
  /\ pc = "sources"
  /\ IF src > Len(sources)
       THEN pc' = "idle" /\ UNCHANGED <<src, fmt>>
     ELSE IF sources[src].color
       THEN pc' = "formats" /\ fmt' = 1 /\ UNCHANGED src
     ELSE src' = src + 2 /\ UNCHANGED <<pc, fmt>>
  /\ UNCHANGED <<purpose, capability, sources, hr, objectVars, readerVars,
                 faultVars>>
InspectSourceStays ==
  /\ pc = "sources"
  /\ IF src > Len(sources)
       THEN pc' = "idle" /\ UNCHANGED <<src, fmt>>
     ELSE IF sources[src].color
       THEN pc' = "formats" /\ fmt' = 1 /\ UNCHANGED src
     ELSE UNCHANGED <<pc, src, fmt>>
  /\ UNCHANGED <<purpose, capability, sources, hr, objectVars, readerVars,
                 faultVars>>

\* The head of the while loop: MoveNext is called for a source that is not a
\* colour source, and for no other.
InspectSource ==
  /\ pc = "sources"
  /\ IF src > Len(sources)
       THEN pc' = "idle" /\ UNCHANGED <<src, fmt>>
     ELSE IF sources[src].color
       THEN pc' = "formats" /\ fmt' = 1 /\ UNCHANGED src
     ELSE src' = src + 1 /\ UNCHANGED <<pc, fmt>>
  /\ UNCHANGED <<purpose, capability, sources, hr, objectVars, readerVars,
                 faultVars>>

Matches(f) ==
  /\ f.type = capability.type \/ f.type \in PlainTypes
  /\ f.size = capability.size
  /\ f.fps <= capability.maxFPS

\* The for loop over the formats of a source.
InspectFormat ==
  /\ pc = "formats"
  /\ IF fmt > Len(sources[src].formats)
       THEN pc' = "sources" /\ UNCHANGED <<fmt, failures>>
     ELSE IF ~Matches(sources[src].formats[fmt])
       THEN fmt' = fmt + 1 /\ UNCHANGED <<pc, failures>>
     ELSE /\ UNCHANGED fmt
          /\ \/ pc' = "createReader" /\ UNCHANGED failures
             \/ pc' = "idle" /\ Failure
  /\ UNCHANGED <<purpose, capability, sources, src, hr, objectVars, readerVars,
                 cause>>

\* media_frame_reader_ is overwritten: a reader that an earlier failure left
\* there is let go with its handler, also when GetResults then fails.  If
\* add_FrameArrived fails the new reader stays, without a handler.
CreateReader ==
  /\ pc = "createReader"
  /\ \/ /\ readers' = readers + 1
        /\ reader' = readers + 1
        /\ handlers' = handlers \cup {readers + 1}
        /\ pc' = "startReader"
        /\ UNCHANGED failures
     \/ /\ Failure
        /\ pc' = "idle"
        /\ \/ reader' \in {reader, 0} /\ UNCHANGED readers
           \/ reader' = readers + 1 /\ readers' = readers + 1
        /\ UNCHANGED handlers
  /\ UNCHANGED <<purpose, capability, loopVars, hr, objectVars, running,
                 delivering, cause>>

\* A start that fails may have timed out and have its effect all the same.
StartReader ==
  /\ pc = "startReader"
  /\ pc' = "idle"
  /\ \/ /\ running' = running \cup {reader}
        /\ capturing' = TRUE /\ requested' = capability
        /\ UNCHANGED faultVars
     \/ /\ Failure
        /\ cause' = cause \cup {"startFailed"}
        /\ running' \in {running, running \cup {reader}}
        /\ UNCHANGED <<capturing, requested>>
  /\ UNCHANGED <<purpose, capability, loopVars, hr, alive, opened, reader, readers,
                 handlers, delivering>>

-----------------------------------------------------------------------------
(* VideoCaptureWinRTInternal::StopCapture                                  *)

StopFails ==
  /\ Failure
  /\ hr' = FALSE
  /\ cause' = cause \cup {"stopFailed"}
  /\ pc' = "closeCapture"

RemoveHandler ==
  /\ pc = "removeHandler"
  /\ \/ /\ handlers' = handlers \ {reader}
        /\ pc' = "stopReader"
        /\ UNCHANGED <<hr, faultVars>>
     \/ StopFails /\ UNCHANGED handlers
  /\ UNCHANGED <<purpose, capability, loopVars, objectVars, reader, readers,
                 running, delivering>>

\* Mutant: StopAsync is not waited for.
StopReaderAtOnce ==
  /\ pc = "stopReader"
  /\ running' = running \ {reader}
  /\ pc' = "closeCapture"
  /\ UNCHANGED <<hr, faultVars, purpose, capability, loopVars, objectVars, reader,
                 readers, handlers, delivering>>

\* StopAsync completes when the reader has no frame in hand; the wait ends
\* after 250 ms.
StopReader ==
  /\ pc = "stopReader"
  /\ \/ /\ delivering # reader
        /\ running' = running \ {reader}
        /\ pc' = "closeCapture"
        /\ UNCHANGED <<hr, faultVars>>
     \/ StopFails /\ UNCHANGED running
  /\ UNCHANGED <<purpose, capability, loopVars, objectVars, reader, readers,
                 handlers, delivering>>

\* Close and the resets; the result is not looked at by StartCapture and only
\* asserted by the destructor.
CloseCapture ==
  /\ pc = "closeCapture"
  /\ \/ /\ hr
        /\ capturing' = FALSE
        /\ UNCHANGED faultVars
     \/ /\ ~hr
        /\ UNCHANGED <<capturing, faultVars>>
     \/ /\ hr /\ opened /\ Failure
        /\ cause' = cause \cup {"stopFailed"}
        /\ UNCHANGED capturing
  /\ reader' = 0
  /\ opened' = FALSE
  /\ alive' = (purpose # "destroy")
  /\ pc' = IF purpose = "restart" THEN "openCapture" ELSE "idle"
  /\ UNCHANGED <<purpose, capability, loopVars, hr, requested, readers, handlers,
                 running, delivering>>

-----------------------------------------------------------------------------
(* The threads of the readers.                                             *)

FrameArrived(r) ==
  /\ delivering = 0
  /\ r \in handlers /\ r \in running
  /\ delivering' = r
  /\ UNCHANGED <<pc, purpose, capability, loopVars, hr, objectVars, reader,
                 readers, handlers, running, faultVars>>

IncomingFrame ==
  /\ delivering # 0
  /\ delivering' = 0
  /\ UNCHANGED <<pc, purpose, capability, loopVars, hr, objectVars, reader,
                 readers, handlers, running, faultVars>>

\* A reader that is not referenced any more ends in its own time.
ReaderEnds(r) ==
  /\ r \in running /\ r # reader
  /\ running' = running \ {r}
  /\ UNCHANGED <<pc, purpose, capability, loopVars, hr, objectVars, reader,
                 readers, handlers, delivering, faultVars>>

-----------------------------------------------------------------------------
Starting == OpenCapture \/ InspectSource \/ InspectFormat \/ CreateReader \/ StartReader
Stopping == RemoveHandler \/ StopReader \/ CloseCapture

Next ==
  \/ \E c \in Capabilities : StartCapture(c)
  \/ StopCapture
  \/ Destroy
  \/ Starting
  \/ Stopping
  \/ \E r \in 1 .. MaxReaders : FrameArrived(r) \/ ReaderEnds(r)
  \/ IncomingFrame

Spec == Init /\ [][Next]_vars

\* A call goes on, and a frame that arrived is taken by IncomingFrame.
FairSpec ==
  /\ Spec
  /\ WF_vars(Starting)
  /\ WF_vars(Stopping)
  /\ WF_vars(IncomingFrame)

-----------------------------------------------------------------------------
(* Properties                                                              *)

\* Every variable has its type; the two loops of StartCapture stay inside the
\* lists they walk.
TypeOK ==
  /\ pc \in {"idle", "openCapture", "sources", "formats", "createReader",
             "startReader", "removeHandler", "stopReader", "closeCapture"}
  /\ purpose \in {"stop", "restart", "destroy"}
  /\ {capability, requested} \subseteq Capabilities \cup {NoCapability}
  /\ sources \in SourceLists \cup {<<>>}
  /\ src \in 1 .. Len(sources) + 1
  /\ src <= Len(sources) => fmt \in 1 .. Len(sources[src].formats) + 1
  /\ hr \in BOOLEAN /\ opened \in BOOLEAN
  /\ alive \in BOOLEAN /\ capturing \in BOOLEAN
  /\ readers \in 0 .. MaxReaders /\ reader \in 0 .. readers
  /\ handlers \subseteq 1 .. readers /\ running \subseteq 1 .. readers
  /\ delivering \in 0 .. readers
  /\ failures \in 0 .. MaxFailures
  /\ cause \subseteq {"startFailed", "stopFailed"}

\* Unless an operation failed half way, no reader but the current one can call
\* FrameArrived: the frames of two captures are never mixed.  And "Returns true
\* if the capture device is running" (CaptureStarted) is wrong only after a
\* StopCapture that failed half way.
OneReader ==
  /\ cause # {} \/ \A r \in handlers \cap running : r = reader
  /\ pc = "idle" /\ alive /\ capturing =>
       "stopFailed" \in cause \/ reader \in running

\* FrameArrived does not run on a destroyed object, unless an operation failed
\* half way (a stop that was not waited for, a reader let go with its handler).
NoFrameAfterDestroy == ~alive /\ delivering # 0 => cause # {}

\* A colour source none of whose formats matches the requested capability.
Unmatched ==
  \E i \in DOMAIN sources :
    /\ sources[i].color
    /\ ~\E j \in DOMAIN sources[i].formats : Matches(sources[i].formats[j])

\* Every call returns, whatever times out or fails, unless StartCapture is
\* looking at a device with a colour source that has no matching format.
CallReturnsIfMatching ==
  pc # "idle" ~> (pc = "idle" \/ (pc \in {"sources", "formats"} /\ Unmatched))

\* Every call returns; for StartCapture that includes "video capture device
\* with capabilities not found".
CallReturns == pc # "idle" ~> pc = "idle"
=============================================================================
