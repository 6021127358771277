--------------------------- MODULE H264StreamSink ---------------------------
(***************************************************************************)
(* The stream sink that receives the H.264 samples of the Media Foundation *)
(* sink writer and hands them to the WebRTC encoder                        *)
(* (encoder/h264_stream_sink.cc).                                          *)
(*                                                                         *)
(* Three kinds of threads meet here.  The sink writer calls ProcessSample, *)
(* PlaceMarker, Flush and SetCurrentMediaType; the presentation clock      *)
(* calls Start and Stop through the media sink, and the encoder calls      *)
(* Shutdown the same way.  All of them run under critSec_, only change     *)
(* state_ and sampleQueue_, and post a work item.  The thread of the       *)
(* serial work queue executes the items one after the other: the first     *)
(* half of OnDispatchWorkItem runs under critSec_, the second half, the    *)
(* call of OnH264Encoded, under cbCritSec_ only.                           *)
(*                                                                         *)
(* A sample is its number in the order of acceptance.  A work item carries *)
(* the number of samples accepted when it was posted: the code keeps no    *)
(* such tag, no guard reads it, and the properties use it to say which     *)
(* samples precede an item.                                                *)
(***************************************************************************)
EXTENDS Naturals, Sequences

CONSTANTS Subtypes,        \* media subtypes a caller may propose
          NoType,          \* spCurrentType_ == nullptr
          MaxSamples,      \* bound: samples accepted in a behaviour
          MaxWork,         \* bound: work items pending when a call is made
          MaxRequests,     \* bound: requests unanswered when Start is called
          MaxPutFailures   \* bound: failures of MFPutWorkItem2

ASSUME BoundsAssumption ==
  /\ MaxSamples \in Nat /\ MaxWork \in Nat
  /\ MaxRequests \in Nat /\ MaxPutFailures \in Nat
  /\ NoType \notin Subtypes

VARIABLES
  state,         \* state_
  isShutdown,    \* isShutdown_
  currentType,   \* spCurrentType_, by its subtype guidCurrentSubtype_
  sampleQueue,   \* sampleQueue_
  callback,      \* encodingCallback_: "uninit", "set" or "null"
  workQueue,     \* items posted to workQueueId_ and not yet executed
  dispatcher,    \* where the thread of the work queue is
  inHand,        \* the local variable sample of OnDispatchWorkItem, 0: none
  requests,      \* MEStreamSinkRequestSample events the writer can answer
  accepted,      \* number of samples accepted so far
  delivered,     \* samples OnH264Encoded was called with
  putFailures,   \* failures of MFPutWorkItem2 while the queue was alive
  crashed        \* a call through a null or uninitialised encodingCallback_

callVars == <<state, currentType, accepted, putFailures>>
threadVars == <<dispatcher, inHand, delivered, crashed>>
vars == <<state, isShutdown, currentType, sampleQueue, callback, workQueue,
          dispatcher, inHand, requests, accepted, delivered, putFailures,
          crashed>>

States == {"TypeNotSet", "Ready", "Started", "Stopped"}
Operations == {"SetMediaType", "Start", "Stop", "ProcessSample", "PlaceMarker"}

Init ==
  /\ state = "TypeNotSet"
  /\ isShutdown = FALSE
  /\ currentType = NoType
  /\ sampleQueue = <<>>
  /\ callback = "uninit"
  /\ workQueue = <<>>
  /\ dispatcher = "idle"
  /\ inHand = 0
  /\ requests = 0
  /\ accepted = 0
  /\ delivered = <<>>
  /\ putFailures = 0
  /\ crashed = FALSE

-----------------------------------------------------------------------------
(* The calls made by the writer, the clock and the encoder.                *)

ValidStateMatrix ==
  [s \in States |->
     CASE s = "TypeNotSet" -> {"SetMediaType"}
       [] s = "Started"    -> {"SetMediaType", "Start", "Stop", "ProcessSample"}
       [] OTHER            -> {"SetMediaType", "Start", "Stop"}]

ValidateOperation(op) == op \in ValidStateMatrix[state]

\* MFPutWorkItem2 fails once Shutdown has given the work queue back, and may
\* fail for want of memory before.
QueueAsyncOperation(op, n) ==
  \/ /\ ~isShutdown
     /\ workQueue' = Append(workQueue, [op |-> op, after |-> n])
     /\ UNCHANGED putFailures
  \/ /\ ~isShutdown
     /\ putFailures < MaxPutFailures
     /\ putFailures' = putFailures + 1
     /\ UNCHANGED workQueue
  \/ /\ isShutdown
     /\ UNCHANGED <<workQueue, putFailures>>

\* Bound on the calls, no guard of the code.
CallAllowed == ~crashed /\ Len(workQueue) < MaxWork

IsMediaTypeSupported(t) == currentType # NoType => t = currentType

SetCurrentMediaType(t) ==
  /\ CallAllowed
  /\ ~isShutdown
  /\ ValidateOperation("SetMediaType")
  /\ state # "TypeNotSet" => IsMediaTypeSupported(t)
  /\ currentType' = t
  /\ state' = IF state = "TypeNotSet" THEN "Ready" ELSE state
  /\ IF state \in {"Started", "Stopped"}
       THEN QueueAsyncOperation("SetMediaType", accepted)
       ELSE UNCHANGED <<workQueue, putFailures>>
  /\ UNCHANGED <<isShutdown, sampleQueue, callback, requests,
                 accepted>>
  /\ UNCHANGED threadVars

\* MFCreateMediaType has let the old type go when it fails; a failure of
\* CopyAllItems or GetGUID comes after a new type took its place, and
\* guidCurrentSubtype_ is then what it was.
SetCurrentMediaTypeFails(t) ==
  /\ ~crashed
  /\ ~isShutdown
  /\ ValidateOperation("SetMediaType")
  /\ state # "TypeNotSet" => IsMediaTypeSupported(t)
  /\ currentType' \in {NoType, currentType}
  /\ UNCHANGED <<state, isShutdown, sampleQueue, callback, workQueue, requests,
                 accepted, putFailures>>
  /\ UNCHANGED threadVars

Start ==
  /\ CallAllowed
  /\ requests < MaxRequests
  /\ ValidateOperation("Start")
  /\ state' = "Started"
  /\ QueueAsyncOperation("Start", accepted)
  /\ UNCHANGED <<isShutdown, currentType, sampleQueue, callback,
                 requests, accepted>>
  /\ UNCHANGED threadVars

Stop ==
  /\ CallAllowed
  /\ ValidateOperation("Stop")
  /\ state' = "Stopped"
  /\ QueueAsyncOperation("Stop", accepted)
  /\ UNCHANGED <<isShutdown, currentType, sampleQueue, callback,
                 requests, accepted>>
  /\ UNCHANGED threadVars

\* The writer gives one sample for each request it has seen.
ProcessSample ==
  /\ CallAllowed
  /\ requests > 0
  /\ accepted < MaxSamples
  /\ ~isShutdown
  /\ ValidateOperation("ProcessSample")
  /\ requests' = requests - 1
  /\ accepted' = accepted + 1
  /\ sampleQueue' = Append(sampleQueue, accepted + 1)
  /\ QueueAsyncOperation("ProcessSample", accepted + 1)
  /\ UNCHANGED <<state, isShutdown, currentType, callback>>
  /\ UNCHANGED threadVars

\* A sample refused because of a Stop or a Shutdown the writer has not seen:
\* the request it answered is used up.
ProcessSampleRefused ==
  /\ ~crashed
  /\ requests > 0
  /\ isShutdown \/ ~ValidateOperation("ProcessSample")
  /\ requests' = requests - 1
  /\ UNCHANGED <<isShutdown, sampleQueue, callback, workQueue>>
  /\ UNCHANGED <<callVars, threadVars>>

PlaceMarker ==
  /\ CallAllowed
  /\ ~isShutdown
  /\ QueueAsyncOperation("PlaceMarker", accepted)
  /\ UNCHANGED <<state, isShutdown, currentType, sampleQueue, callback,
                 requests, accepted>>
  /\ UNCHANGED threadVars

Flush ==
  /\ ~crashed
  /\ ~isShutdown
  /\ sampleQueue' = <<>>
  /\ UNCHANGED <<isShutdown, callback, workQueue, requests>>
  /\ UNCHANGED <<callVars, threadVars>>

\* encodingCallback_ is cleared under critSec_, not under cbCritSec_: a call
\* that has passed its null test is not waited for.
Shutdown ==
  /\ ~crashed
  /\ ~isShutdown
  /\ isShutdown' = TRUE
  /\ sampleQueue' = <<>>
  /\ currentType' = NoType
  /\ callback' = "null"
  /\ UNCHANGED <<state, workQueue, requests, accepted, putFailures>>
  /\ UNCHANGED threadVars

\* Waits for cbCritSec_, which OnDispatchWorkItem holds during the call.
RegisterEncodingCallback ==
  /\ ~crashed
  /\ dispatcher # "calling"
  /\ callback' = "set"
  /\ UNCHANGED <<isShutdown, sampleQueue, workQueue, requests>>
  /\ UNCHANGED <<callVars, threadVars>>

-----------------------------------------------------------------------------
(* The thread of the serial work queue.                                    *)

\* The next item starts when OnDispatchWorkItem has returned from the last.
Dispatching(op) ==
  /\ ~crashed
  /\ dispatcher = "idle"
  /\ workQueue # <<>>
  /\ Head(workQueue).op = op
  /\ workQueue' = Tail(workQueue)
  /\ UNCHANGED <<isShutdown, callback, delivered, crashed>>
  /\ UNCHANGED callVars

\* QueueEvent fails after Shutdown, and every case below stops there.
QueueEvent == ~isShutdown

\* Mutant: front() without pop_front().
ProcessSamplesWithoutPop ==
  IF sampleQueue = <<>>
    THEN UNCHANGED <<sampleQueue, inHand, dispatcher>>
    ELSE /\ inHand' = Head(sampleQueue)
         /\ dispatcher' = "popped"
         /\ UNCHANGED sampleQueue

ProcessSamplesFromQueue ==
  IF sampleQueue = <<>>
    THEN UNCHANGED <<sampleQueue, inHand, dispatcher>>
    ELSE /\ inHand' = Head(sampleQueue)
         /\ sampleQueue' = Tail(sampleQueue)
         /\ dispatcher' = "popped"

\* Mutant: OpStart never requests a sample.
DispatchStartSilent ==
  /\ Dispatching("Start")
  /\ QueueEvent
  /\ ProcessSamplesFromQueue
  /\ UNCHANGED requests

DispatchStart ==
  /\ Dispatching("Start")
  /\ QueueEvent
  /\ ProcessSamplesFromQueue
  /\ requests' = IF sampleQueue = <<>> THEN requests + 1 ELSE requests

DispatchStop ==
  /\ Dispatching("Stop")
  /\ QueueEvent
  /\ sampleQueue' = <<>>
  /\ UNCHANGED <<dispatcher, inHand, requests>>

\* Mutants: OpProcessSample withdraws a request; OpProcessSample takes no sample.
DispatchProcessSampleWithdraws ==
  /\ Dispatching("ProcessSample")
  /\ QueueEvent
  /\ requests' = requests - 1
  /\ ProcessSamplesFromQueue
DispatchProcessSampleIdle ==
  /\ Dispatching("ProcessSample")
  /\ QueueEvent
  /\ requests' = requests + 1
  /\ UNCHANGED <<sampleQueue, inHand, dispatcher>>

DispatchProcessSample ==
  /\ Dispatching("ProcessSample")
  /\ QueueEvent
  /\ requests' = requests + 1
  /\ ProcessSamplesFromQueue

\* MEStreamSinkMarker and MEStreamSinkFormatChanged.
DispatchNotification ==
  /\ \/ Dispatching("PlaceMarker")
     \/ Dispatching("SetMediaType")
  /\ QueueEvent
  /\ UNCHANGED <<sampleQueue, dispatcher, inHand, requests>>

DispatchAfterShutdown ==
  /\ \E op \in Operations : Dispatching(op)
  /\ ~QueueEvent
  /\ sampleQueue' = IF Head(workQueue).op = "Stop" THEN <<>> ELSE sampleQueue
  /\ UNCHANGED <<dispatcher, inHand, requests>>

\* Mutant: waits for a callback instead of dropping the sample.
EnterCallbackWaits ==
  /\ ~crashed
  /\ dispatcher = "popped"
  /\ callback # "null"
  /\ dispatcher' = "calling"
  /\ UNCHANGED <<isShutdown, sampleQueue, callback, workQueue,
                 requests, inHand, delivered, crashed>>
  /\ UNCHANGED callVars

\* AutoLock(cbCritSec_); if (encodingCallback_ != nullptr)
EnterCallback ==
  /\ ~crashed
  /\ dispatcher = "popped"
  /\ IF callback # "null"
       THEN dispatcher' = "calling" /\ UNCHANGED inHand
       ELSE dispatcher' = "idle" /\ inHand' = 0
  /\ UNCHANGED <<isShutdown, sampleQueue, callback, workQueue,
                 requests, delivered, crashed>>
  /\ UNCHANGED callVars

\* encodingCallback_->OnH264Encoded(sample).  The compiler may load the
\* pointer again after the test; if Shutdown has cleared it in between, the
\* call then goes through null.
OnH264Encoded ==
  /\ ~crashed
  /\ dispatcher = "calling"
  /\ \/ /\ callback # "uninit"
        /\ delivered' = Append(delivered, inHand)
        /\ dispatcher' = "idle"
        /\ inHand' = 0
        /\ UNCHANGED crashed
     \/ /\ callback # "set"
        /\ crashed' = TRUE
        /\ UNCHANGED <<delivered, dispatcher, inHand>>
  /\ UNCHANGED <<isShutdown, sampleQueue, callback, workQueue,
                 requests>>
  /\ UNCHANGED callVars

-----------------------------------------------------------------------------
\* InitWriter (h264_encoder_mf_impl.cc) registers the callback between
\* AddStream and BeginWriting, which starts the clock.
Calls ==
  \/ \E t \in Subtypes : SetCurrentMediaType(t) \/ SetCurrentMediaTypeFails(t)
  \/ state = "Ready" /\ ~isShutdown /\ RegisterEncodingCallback
  \/ callback # "uninit" /\ Start
  \/ Stop
  \/ ProcessSample
  \/ ProcessSampleRefused
  \/ PlaceMarker
  \/ Flush
  \/ Shutdown

OnDispatchWorkItem ==
  \/ DispatchStart
  \/ DispatchStop
  \/ DispatchProcessSample
  \/ DispatchNotification
  \/ DispatchAfterShutdown
  \/ EnterCallback
  \/ OnH264Encoded

Next == Calls \/ OnDispatchWorkItem

Spec == Init /\ [][Next]_vars

-----------------------------------------------------------------------------
(* Properties                                                              *)

WorkItem == [op : Operations, after : Nat]

\* Every variable has its type.
TypeOK ==
  /\ state \in States
  /\ isShutdown \in BOOLEAN
  /\ currentType \in Subtypes \cup {NoType}
  /\ sampleQueue \in Seq(Nat \ {0})
  /\ callback \in {"uninit", "set", "null"}
  /\ workQueue \in Seq(WorkItem)
  /\ dispatcher \in {"idle", "popped", "calling"}
  /\ inHand \in Nat
  /\ requests \in Nat
  /\ accepted \in Nat
  /\ delivered \in Seq(Nat)
  /\ putFailures \in Nat
  /\ crashed \in BOOLEAN

\* OnH264Encoded sees the accepted samples in their order and none of them
\* twice, whatever Start, Stop, Flush and the double pop of OpStart do.
DeliveredInOrder ==
  \A i, j \in DOMAIN delivered : i < j => delivered[i] < delivered[j]

\* While the stream is started the writer either holds a request it can
\* answer or a work item that will produce one is pending.  OpStart asks for
\* nothing when it finds a sample: the request then comes from that sample's
\* own item.
WriterNeverStarves ==
  state = "Started" /\ ~isShutdown /\ putFailures = 0 =>
    \/ requests > 0
    \/ \E i \in DOMAIN workQueue : workQueue[i].op \in {"Start", "ProcessSample"}

\* When the marker's turn comes, no sample accepted before PlaceMarker is
\* still waiting in sampleQueue_: the marker event does not overtake samples.
MarkerAfterSamples ==
  workQueue # <<>> /\ Head(workQueue).op = "PlaceMarker" /\ putFailures = 0 =>
    \A i \in DOMAIN sampleQueue : sampleQueue[i] > Head(workQueue).after

\* After Shutdown no call of OnH264Encoded starts: at most the one that had
\* already passed its null test still reaches the encoder.
NoCallStartsAfterShutdown ==
  [][isShutdown /\ dispatcher # "calling" => dispatcher' # "calling"]_vars

-----------------------------------------------------------------------------
(* The stream sink implements EncodedSampleChannel: a sample popped but not *)
(* yet past the null test still counts as queued.                           *)

Channel == INSTANCE EncodedSampleChannel WITH
  open <- ~isShutdown,
  queue <- IF dispatcher = "popped" THEN <<inHand>> \o sampleQueue
                                    ELSE sampleQueue,
  calling <- IF dispatcher = "calling" THEN inHand ELSE 0,
  handed <- delivered

\* Every step of the stream sink is a step of the channel or none of it.
ImplementsChannel == Channel!Spec
=============================================================================
