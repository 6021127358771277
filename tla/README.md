# A verification project for WeiRtcWindowsNative

WeiRtcWindowsNative makes WebRTC usable from a Windows (UWP) application. It
has three layers of its own:

* **patches for WebRTC** (`patches_for_WebRTC_org/m84/src/modules/`): a
  hardware H.264 encoder and decoder over Media Foundation, a camera module over
  WinRT's `MediaFrameReader`, and a Core Audio device;
* **a wrapper library** (`WeiStreaming.WeiRtc.Native/`): peer connection,
  factory, sources, desktop capture and renderer;
* **a sample application** (`WeiRtcSampleApp/`): a TCP server that exchanges
  JSON messages with one peer and negotiates the connection.

`libwebrtc/` holds vendored headers, `libweirtc/include` copies of the wrapper's
headers; the patches under `m80`, `master` and `win_from_old_master` are older
copies of the m84 ones. The models follow the m84 patches.

In this text `ENC` is `.../h264/win/encoder/h264_encoder_mf_impl.cc`, `DEC`
is `.../h264/win/decoder/h264_decoder_mf_impl.cc`, `MS` is
`.../h264/win/encoder/h264_media_sink.cc` and `AUD` is
`.../audio_device/win/audio_device_core_win.cc`.

## 1. Inventory

| Component | State | Operations | Threads that meet | What makes it correct |
|---|---|---|---|---|
| H.264 stream sink (`encoder/h264_stream_sink.cc`) | `state_`, `sampleQueue_`, `encodingCallback_`, the serial work queue | the `IMFStreamSink` calls, `Start`, `Stop`, `Shutdown`, `OnDispatchWorkItem` | sink writer, presentation clock, encoder, work queue | samples reach the encoder in order and once; the writer is always asked for the next one; nothing starts after `Shutdown` |
| H.264 encoder, frame path (`ENC`) | the writer, the attribute queue, the callback, `startTime_` | `InitEncode`, `Encode`, `SetRates`, `Release`, `OnH264Encoded` | WebRTC's encoder queue, the work queue of each writer, current or replaced | an image carries the attributes of its own frame; the attribute queue does not clog; no image after `Release` |
| H.264 encoder, rate control (`ENC`) | rates, next rates, `rate_change_requested_`, time of the last change | `SetRates`, `Encode`, `InitEncode`, `Release` | one | the rates in use are close to those asked for last; changes are rare; a postponed change is applied |
| H.264 decoder (`DEC`) | `inited_`, `require_keyframe_`, the transform, the buffer pool | `InitDecode`, `Decode`, `Release` | WebRTC's decoder, the renderer returning buffers | no delta frame before a key frame; pictures in order; every `Decode` returns |
| Camera capture (`video_capture_winrt.cc`) | `is_capturing`, the `MediaCapture`, the reader and its handler | `StartCapture`, `StopCapture`, destruction, `FrameArrived` | the caller, the reader's threads | one reader at a time; no frame reaches a dead object; every call returns |
| TCP signalling (`DirectTcpServer.cpp`, `SimpleTcpSignaling.cpp`, observers) | sockets, the descriptions | `Start` (receive loop), `OnTcpMessage`, `Send`, observer callbacks | the server's thread, WebRTC's signalling thread | messages handled in order, each offer answered once, lines not mixed |
| H.264 media sink (`MS`) | `isShutdown_`, the stream, the clock | stream list, clock calls, `Shutdown` | sink writer, presentation clock, encoder | the stream is used only between `AddStreamSink` and `Shutdown`; after `ReleaseWriter` the encoder is left alone |
| Core Audio device (`AUD`) | per side: device, mixer, client, `_transporting`, the thread's handle, three events | `SetDevice`, `Init*`, `Start*`, `Stop*`, `Terminate`, `Transport` | the caller and a thread per side, one lock | `Playing` and `Recording` tell the truth; no wait with a limit lasts for ever; nothing is used after `Terminate` |
| Desktop capture (`DesktopCapturer.cpp`) | `_isRunning`, the thread, one I420 buffer | `StartCapture`, `StopCapture`, `Dispose`, `OnCaptureResult` | the owner, the capture thread | the thread runs iff started, ends when joined; a frame keeps its picture |
| Video source, track source, renderer (`VideoSource.cpp`, `VideoTrackSource.cpp`, `VideoRender.cpp`) | the sinks, the surface, the paints under way | `ConnectPip`, `AddOrUpdateSink`, `RemoveSink`, `OnFrame`, `PaintFrameAsync` | the capture thread, WebRTC, thread pool, UI | nothing is used before it exists or after its deletion |
| PeerConnection and factory, application start-up | the native objects, three threads | creation, negotiation, deletion | UI, signalling | nothing is used after deletion |
| Camera device enumeration, codec factory, camera source | little or none | queries, forwarding | | |

How they interact. WebRTC calls the **encoder**, which writes samples to a Media
Foundation sink writer. The writer drives the **media sink** and the **stream
sink**, whose work-queue thread calls the encoder back in `OnH264Encoded`. A
change of rates or of frame size replaces writer, media sink and stream sink, and
the old thread may still be in that callback. WebRTC calls the **decoder**, whose
pictures lie in pool buffers the renderer returns when it likes. The **camera**
module calls `IncomingFrame` from the reader's thread. The **desktop capturer** is a
video source: its thread calls every sink, the encoder of WebRTC and the
**renderer** of the preview, in the same call. The **audio device** moves packets on a
thread per side, which meets the API calls at one lock. The **signalling** server
thread drives the peer connection; answers and candidates are sent back from
WebRTC's signalling thread.

What is hard: calls of replaced writers, two locks of the stream sink that protect
different halves of one work item, unchecked results (`WriteSample`,
`InitWriter`), waits with a timeout whose operation goes on, waits made with a lock
held, coroutines that outlive their object, one buffer for all frames, byte streams
treated as messages, results of asynchronous calls nobody looks at, members read
before they are set, and state that survives `Release`. `PROJECT.json` lists the hazards
line by line, with the properties that guard them, or a note where the code promises
nothing a property could state. These are exposed too, and have no property:

* `ENC:538` scans for NAL units up to `size() - 5` in unsigned arithmetic; the bytes are
  abstracted. The same goes for the terminating zero of `DirectTcpServer.cpp:105`
  and for the shape of the buffers `DesktopCapturer.cpp:40` and `VideoRender.cpp:90`
  keep while their area is large enough.
* `ENC:264`: `MFStartup` is called once, `MFShutdown` by `Release` and by the destructor;
  the count is Media Foundation's and is shared with the rest of the process.
* `DirectTcpServer.cpp:158` closes a socket that the other thread closes again. The
  races that lead there are in `SimpleTcpSignaling`; what a second `closesocket` hits
  is not.
* `PeerConnection.cpp:26`: `Close` does nothing; no line says what it should stop.
* `AUD:479`: a device selected after `InitMixer` is never used; devices are not told apart.
* `h264_stream_sink.cc:409`: `Start` and `Stop` change `state_` at once and send their
  events later. The serial work queue keeps the events in the order of the calls; the
  model keeps no record of them.
* `ENC:399`: the sample times of one writer repeat after a full cycle of the RTP timestamp
  (2^32 ticks of 90 kHz, about 13 hours); see `H264EncoderProofs` in section 4.
* `VideoRender.cpp:127`: paints may overtake each other. The model has these orders, the
  code promises none.

## 2. Modules and how they correspond to the code

| Module | Models | Abstractions |
|---|---|---|
| `EncodedSampleChannel` | the promise of a stream sink: an ordered channel that may give up its newest samples and, once closed, begins no call | abstract specification |
| `H264StreamSink` | `h264_stream_sink.cc`. Every call under `critSec_` is one action; `OnDispatchWorkItem` is three: the half under `critSec_`, the null test of the callback, the call itself | a sample is its number; a work item carries a ghost tag, the number of samples accepted when it was posted |
| `H264MediaSink` | `MS` composed with `H264StreamSink` (which it extends) and with the order in which `InitWriter` and `ReleaseWriter` use the two. `RegisterEncodingCallback`, `Start`, `Stop` and `Shutdown` of the stream happen only through the media sink; the writer calls the stream directly | a sink writer that may stop after any step of `InitWriter`, or whose stream or media type is refused; `removed` is a ghost: how `RemoveStreamSink` let the stream go |
| `SampleAttributeQueue` | `push` and `pop` of `sample_attribute_queue.h`, as operators | entries are `[id, frame]` |
| `H264Encoder` | frame path of `ENC`; a rebuild is four steps, as the locks are taken and released, and `OnH264Encoded` three | a writer with its sinks is a *generation*; what lies between `WriteSample` and `OnH264Encoded` is, per generation, the channel above; RTP timestamps wrap and their difference is stored unsigned |
| `H264RateControl` | rate control of `ENC`, one step per call, as `crit_` is held; the `next_` rates hold anything until they are assigned, and differences of rates are 32-bit | time since the last change, saturated just above the minimal interval, the only thing the code compares it with |
| `H264Decoder` | `DEC`; a `Decode` is a sequence of calls to the transform | a frame is its number and kind; the transform (external) holds up to `Capacity` frames and returns pictures in order, as late as it likes |
| `VideoCaptureWinRT` | `video_capture_winrt.cc` with `help_functions_winrt.cc`; every asynchronous wait is a step that may fail or time out | pictures carry no data; a format is type, size, frame rate |
| `SimpleTcpSignaling` | receive loop, `OnTcpMessage`, the observers, `Send`, `OnPeerConnectionDropped`; WebRTC may refuse an offer, a candidate or a local description | a message is two fragments, `recv` takes any prefix; a chunk parses iff it is exactly one message; an answer can be made once some offer was taken; ICE may fail, be checked again and fail again |
| `AudioDeviceWindowsCore` | `AUD`: selection of a device, `InitMixer`, `InitTransport`, `StartTransport` and `StopTransport` up to, and after, their waits, `Terminate`, and the `Transport` of either side | device, mixer and client are present or absent; volume, formats and audio data are left out; a wait for a thread may time out whenever the thread has not answered, the one for the activation ends when Windows likes, if ever |
| `DesktopVideoTrack` | `DesktopCapturer`, `VideoSource`, `VideoTrackSource` and `VideoRender` as one track: owner, capture thread, encoder (external) and the coroutines, cut at each `co_await` | a picture is the number of its capture, 0 while it is being written; sizes are left out |
| `H264SinkProofs` (stream and media sink), `H264EncoderProofs`, `H264RateControlProofs`, `H264DecoderProofs`, `VideoCaptureWinRTProofs`, `SimpleTcpSignalingProofs`, `AudioDeviceWindowsCoreProofs`, `DesktopVideoTrackProofs` | theorems about the module of the same name | |
| `MCVideoCaptureWinRT`, `MCSimpleTcpSignaling` | devices and peers for TLC; the other runs need values in their `.cfg` only | |

Composition: `H264StreamSink` implements `EncodedSampleChannel` (refinement
mapping in `H264StreamSink`: a sample popped but not yet past the null test counts
as queued). `H264MediaSink` implements `H264StreamSink` with the identity as its
mapping. `H264Encoder` uses one such channel per generation. Where the channel
"gives up the newest samples", the encoder's channel loses samples inside Media
Foundation (`LoseSample`) and drops everything at `Shutdown`.

Definitions whose name says what a slip would do (`MediaShutdownKeepsStream`,
`PopFront`, `StopReaderAtOnce`...) stand before the definition they vary. Each is
the plausible bug that one property must notice; `Next` does not use them.

Undefined behaviour is a choice of outcomes: a use of an uninitialised callback, a
null writer, a null audio client or surface, or a deleted object sets `crashed`
(`nullStream` in the media sink), and the behaviour stops there; a member that was
never assigned holds any value of its type. A null
`sinkWriter_` in the key-frame request may or may not matter, as the request is
made only for key frames. A failed `assert(ok)` is recorded and the program goes
on, as in a release build.

## 3. Runs

All passing runs use `FairSpec` and `CHECK_DEADLOCK FALSE`: nobody is obliged to
call Encode, Decode or StartCapture again, so the system really may stop.

| Run | Distinct states | What it shows |
|---|---|---|
| `stream_sink` | 1 044 569 | inside its media sink, the stream delivers samples in order and once under every interleaving of writer, clock, release and work queue, with a failing `MFPutWorkItem2`; the writer never starves; a marker never overtakes samples; after `ReleaseWriter` no call starts and pending work ends; clock calls after `Shutdown` and an `InitWriter` that failed half way go through no null stream, and a bad callback is used only by a call that `Shutdown` overtakes between its null test and its use; the media sink uses the stream sink as its specification allows, and both implement the channel |
| `encoder` | 613 011 | within one cycle of the RTP timestamp, attributes are confused by a late call of a replaced writer and by nothing else (losses, drops, empty samples and a wrap inside the cycle do no harm); the queue does not clog unless a sample is lost; a null writer is used only after `InitWriter` failed; no image while WebRTC has no callback registered |
| `encoder_stale_attributes` | violation | the late call does deliver an image with another frame's attributes |
| `rate_control` | 36 304 | rates too far off have two causes, an older request applied after the last one, and `next_` rates never assigned that a new frame size puts into use; but for the latter no frame rate is 0; the last request is kept unless an older one was left pending; changes are spaced; a postponed change is applied |
| `rate_control_stale` | violation | that cause occurs: `SetRates` applied at once leaves the older request pending and `Encode` applies it over the new rates |
| `decoder` | 124 507 | a delta frame comes first only after one of three named slips; pictures in order, never stamped from an earlier frame; waiting for a key frame is reported; `Decode` returns |
| `decoder_keyframe` | violation | `Release` and `InitDecode` forget that a key frame is needed |
| `capture` | 56 080 | one reader at a time, no frame on a dead object, `CaptureStarted` right unless a stop failed half way; every call returns if each colour source has a matching format |
| `capture_endless_loop` | violation | a colour source without a matching format makes `StartCapture` loop for ever |
| `signalling` | 113 146 | messages handled in order and only when complete, lines intact, an answer that was set before any candidate, one answer per offer and in their order, sent whether or not it could be set; the assert fails only for a candidate WebRTC refused, or when every offer before it was lost or refused; handled offers are answered unless `CreateAnswer` fails |
| `audio_transport` | 192 599 | a side that counts as playing or recording has one thread, which has started its stream and was not told to stop, unless a wait timed out on that side; a null client is used only after `InitMixer` failed, a deleted helper only by a thread that a stop gave up; every wait ends unless it is the one for an activation that never completes, and a thread given up ends unless another thread takes its event |
| `desktop_track` | 248 942 | a frame is torn, or shows a later picture, only if the source passed it on unscaled, and never an earlier one; the capture thread never uses a deleted capturer; a paint finds no surface only if the five seconds were too few; a deleted renderer is used only by a coroutine under way at the deletion; a started capture takes pictures unless the thread saw `_isRunning` too early; the destructor returns |

### Bounds, and why they are enough

* `stream_sink`: 2 samples, 3 pending items, 2 open requests, 1 failing post, 2
  subtypes. `OpStart` and a sample's own item race for one sample, a marker needs
  one sample on either side. (The proofs need no bound.)
* `encoder`: 4 frames and 3 generations. The queue limit is 3, so 4 frames fill it and
  drop one; a late call needs one replaced generation, and a third writer is needed
  for what a broken one leaves behind: a writer whose `BeginWriting` failed refuses
  its sample, whose entry then stays. Timestamps have
  modulus 8 and start at 5, so they wrap inside a run; ids have modulus 16, which
  leaves a negative difference apart from any positive one, as 2^64 does for
  2^32. One lost sample and one failing write.
* `rate_control`: two sizes, three bitrates of which two are within the ignored
  variation of each other, two frame rates (and the 0 WebRTC may pass), 0 and a value
  above `INT_MAX` for a member not yet assigned (`Half` is 256 in place of 2^31), a minimal
  interval of 2 ticks (below, at and above it are reachable), 4 calls.
* `decoder`: a pool of 1 (exhausted by one held picture), a transform of 2 frames
  (`MF_E_NOTACCEPTING` reachable), 4 frames, each a
  key frame, a delta frame, an incomplete key frame or without data, 2
  initialisations, 1 failure.
* `capture`: 3 readers (first capture, restart, restart after a failed stop), 2
  failures (a failed start that leaves something behind, then a failed stop), three
  devices: a depth and a colour source, no colour source, and a colour source that never matches.
* `signalling`: three peers of three or four messages, so that a chunk can be a part of
  a message, a whole one, or several; a second offer, which may be answered from the
  first; a candidate that comes too early; 2 candidates, 1 failing send, 2 ICE failures.
* `audio_transport`: 2 sides and 2 threads, so that either each side has one or a
  side has a second beside one that was given up; 2 failing Windows calls, as a
  prepared side loses its client by the second failure of its `InitMixer`.
* `desktop_track`: 3 pictures, of which the encoder may hold 2 while the third is
  being written.

### Fairness

| Run | Assumed | Why |
|---|---|---|
| `stream_sink` | WF of the work-queue thread | Media Foundation executes posted items; callers owe nothing |
| `encoder` | WF of the encoder thread inside a call, WF of each generation's thread | a call that was made runs to its end; Media Foundation encodes what it was given |
| `rate_control` | WF of time, WF of an `Encode` of the current size | a capturer goes on delivering frames |
| `decoder` | WF of the steps inside `Decode` | the thread is scheduled; the transform answers each call |
| `capture` | WF of the steps inside a call, WF of `IncomingFrame` | waits end by success, error or timeout; a frame handler returns |
| `audio_transport` | WF of the waits that have a limit, WF of each step of a thread, SF of taking the lock and of finding the buffer empty | a wait for a thread has a limit; the activation at `AUD:522` has none, nothing is assumed of it and `WaitsEnd` names it as its exception; a critical section is granted to who waits for it; the threads empty the buffer faster than the device fills it |
| `desktop_track` | WF of the capture thread, of `StartCapture` going on, of the join and of the coroutines | threads, thread pool and UI thread run; nothing is assumed of the encoder or of WebRTC's sinks |
| `signalling` | WF of `CreateAnswer`, of its callbacks and of `Send` | WebRTC's signalling thread runs its tasks; nothing is assumed of peer, `recv` or ICE |

## 4. Proofs

TLAPS checks the following for every value of the constants, so for any number of
samples, work items, frames, writers, threads, readers, messages and failures. Every
invariant and every action property of the passing runs is stated by a theorem, and
so are the two refinements.

**`H264SinkProofs`**, from `BoundsAssumption` (the bounds are naturals and
`NoType` is not a subtype), first for the stream sink alone:

* `TypeCorrect`: `TypeOK`.
* `DeliveryOrder`: `DeliveredInOrder`. Alone it is not inductive: one needs
  that the samples delivered, in hand and queued form one increasing sequence
  bounded by `accepted` (`Ordered`).
* `NoStarvation`: `WriterNeverStarves`. The delicate case is `OpStart`, which
  asks for nothing if it finds a sample. The argument is that a queued sample
  still has its own `OpProcessSample` item in the work queue (`OwnItemPending`), and
  that item asks. It stays pending while its sample is queued because tags grow along the
  work queue (`WorkOrdered`): when an item at the head is executed, only samples
  with a tag up to its own lose their item, and the head of the sample queue is
  removed with it.
* `MarkerOrder`: `MarkerAfterSamples`, from the same two: a sample the marker
  follows would have its item before the marker in the queue.
* `QuietAfterShutdown`: `NoCallStartsAfterShutdown`, from `ShutdownClears` (after
  `Shutdown` the callback is null).

* `ChannelImplemented`: `ImplementsChannel`, one lemma per step of the channel. A
  sample popped but not past the null test still counts as queued, so popping is a
  stutter and `EnterCallback` begins the call. When the null test drops a sample the
  channel must give up its *newest*: there is no other, since the callback is null only
  after `Shutdown` (`NullOnlyAfterShutdown`), which has cleared the queue.

`IInv` is `TypeOK`, `Ordered`, `ShutdownClears`, `WorkOrdered`, `OwnItemPending` and
`WriterNeverStarves`; each conjunct has lemmas, one step per action.

Then for the media sink with its stream:

* `StreamSinkImplemented`: `ImplementsStreamSink`. Every step of the composition is a
  step of `H264StreamSink` or leaves it alone. What has to be shown is that the
  stream sink is started only with its callback registered and shut down only once.
  Both follow from `MediaInv`: which stage of `InitWriter` has been reached says what
  the stream is like (`StagesInOrder`), and the media sink holds the stream
  exactly while it is alive, apart from a removal under a wrong identifier
  (`StreamHeld`).
* `StreamTheoremsHold`: sample order, request credit and marker order, for the stream
  of a media sink, from the theorem above and those of the stream sink;
  `MediaImplementsChannel`: the channel, in the same way.
* `NoNullCall`: `NullCallsExplained`. For the stream `StreamHeld` gives it: after `Shutdown`
  the sink is marked, so that the clock's calls are refused, and before `AddStreamSink`
  there is no clock. `NothingBeforeAdded` (no work before there is a stream)
  completes the invariant. For the callback it is `CallbackUseExplained` of the stream
  sink: with `QuietUntilRegistered` (no work that could use it is posted before it has
  a value) a call finds a bad pointer only if `Shutdown` came after its null test.
* `ReleaseIsQuiet`: `QuietAfterRelease`, from `StreamHeld` and the stream sink's
  `ShutdownClears`.

**`H264RateControlProofs`**, from `RateAssumption` (the rates WebRTC asks for fit an `int`,
frame rates and the interval are positive, no set is empty; a member not yet assigned
may hold any `UINT32`):

* `RatesFollowRequests`: `RatesOffOnlyIfStale`; `RequestNotLost`: `RequestKept`.
  They need each other: what a postponed change applies is near what was asked
  only because the postponed request is the last one. Both exclude what has a cause of its
  own: a request left pending (`stale`) and rates never assigned (`unsetUsed`). That the
  code's cast arithmetic (`Near`) means what it says (`Close`) holds only for rates that
  fit an `int`, hence the second exclusion.
* `ChangesSpaced`: `RateChangesSpaced`, from `ElapsedBehindBuild`: the code's clock is
  never ahead of the time since the writer was built, as every build resets it.
* `TypeCorrect`: `TypeOK`, a conjunct of the same invariant: which rates can be ones nobody
  asked for, and so 0, is part of it.

**`H264EncoderProofs`**, from `EncoderAssumption` (ids have at least twice the range
of the timestamps, as 2^64 has of 2^32):

* `TypeCorrect`: `TypeOK`. The limit of three entries is what has to be shown: it is
  tested in one step of `Encode` and used in another.
* `ImagesNeedRegistration`: `ImagesOnlyWhileRegistered`, with `CallbackInv`: the callback
  that is set, or that a replacement of the writer has taken aside to put back, is the
  registered one.
* `AttributesFollowFrames`: `MatchUnlessLatePop`. `SampleInv` says what the queue, the
  channel of the current writer and the sample in `OnH264Encoded` have in common: all
  carry the time of their frame counted from the same first frame (`DatedInv`), in the
  order of the frames (`OrderInv`), and a writer not yet built has nothing (`IdleInv`).
  `TimesFollowFrames` is the arithmetic: sample times keep the order of the frames
  across a wrap of the RTP timestamp, although a difference is stored unsigned. With
  `FoundInv` (each sample on the way still has its entry) the loop of `pop` stops at
  the right entry.
* `HarmNeedsFailure`: `HarmOnlyByFailure`, with `EntryInv`, the converse of `FoundInv`:
  while nothing was lost or refused each entry has its sample on the way.

The last two assume `NoFullCycle`, that a behaviour has fewer frames than the RTP
timestamp has values. The assumption is needed: after a full cycle on one writer the
sample times start again, and with one lost sample TLC then finds a wrong match (timestamps
modulo 2, four frames). For `HarmOnlyByFailure` no counterexample is known; the proof
uses the order of the times.

**`H264DecoderProofs`**, from `DecoderAssumption` (bounds are naturals, pool and
transform hold something):

* `TypeCorrect`: `TypeOK`.
* `KeyframeFirstOrExplained`: `KeyframeFirstUnlessSlip`, with `KeyframeInv`: a decoder
  that would take a delta frame has had a key frame or has slipped, and so have the
  frames inside the transform, which a failed flush leaves there.
* `PicturesComeInOrder`: `PicturesInOrder`, with `OrderInv`: pictures that came out,
  frames inside and the frame on its way in are one increasing sequence.

**`VideoCaptureWinRTProofs`**, from `CaptureAssumption` (the shape of a device's
sources and formats):

* `TypeCorrect`: `TypeOK`, the bounds of the two nested searches among it.
* `FramesOfOneReader`: `OneReader`. `RunInv` is about `CaptureStarted`; `CalmInv` says, as
  long as nothing has failed half way, in which order `StopCapture` takes the handler
  off, waits for the frame in hand and lets the reader go.
* `NoUseAfterDestroy`: `NoFrameAfterDestroy`, from the same invariants.

**`SimpleTcpSignalingProofs`**, from `ScriptsAssumption` and `BoundsAssumption`, for peers
that send offers and candidates in any order:

* `TypeCorrect`: `TypeOK`. `StreamInv` gives every piece its place: piece h of message k
  is the byte 2k - 2 + h of the stream.
* `MessagesKeepOrder`: `HandledInOrder`. From `StreamInv` a chunk that parses ends exactly
  where the pieces received end, so it lies behind all that was handled; and while no
  remote description is set every offer handled was refused, so a candidate that fails
  was refused for itself or has before it only offers that were lost or refused.
* `LinesReachPeer`: `LinesInOrder`, with `LineInv`: once an answer is set as the local
  description it is out, or the signalling thread has it in hand; a message without its newline
  is about to get it, or the socket is closed for good.
* `AnswersFollowOffers`: `AnswersMatchOffers`, with `DealInv` (offers handled pass through
  `creating` into `answers` or `unanswered` in their order, and `notSet` is a part of
  `answers`) and `SentInv` (the answer in hand is behind those sent).

**`AudioDeviceWindowsCoreProofs`**, from `AudioAssumption` (there is a side, bounds are
naturals):

* `TypeCorrect`: `TypeOK`, with `LockInv`: the lock has one holder, a thread with a packet
  or the call that waits.
* `CrashesAreExplained`: `CrashesExplained`, with `OwnInv` (a side has the handle of its
  own thread only, and a thread that lives is that one or was given up after a
  timeout) and `CrashInv` (a mixer has its client, and a prepared side has one or had a
  failed `InitMixer`).
* `TransportingIsTruthful`: `TransportingMeansStreaming`, with `SideInv`: on a side
  without a timeout an event is set only while the call it belongs to waits. This is
  what a timeout breaks, and why such a side is excluded.

**`DesktopVideoTrackProofs`**, the first two from no assumption on the bounds at all:

* `UsesAreExplained`: `UsesExplained`, with `LifeInv`: the thread exists from
  `StartCapture` on and has ended before a deletion, so it finds its capturer; there are
  no paints before it exists; a surface that was there when it started stays; and no
  coroutine begins once the source is deleted, so one that finds the renderer gone was
  under way (`underWay`).
* `PicturesAreKept`: `TornOnlyIfPassed`, with `PictureInv`: the buffer holds the last
  picture or is being written, and a queued frame with a picture of its own has
  its own one (scaled) or the same or a later one (left with an old buffer).

* `TypeCorrect`: `TypeOK`, from `DesktopAssumption`. That no frame is drawn twice is
  the part with content: each frame has one coroutine, which is gone when the frame
  is drawn (`PaintType`).

Only model-checked: liveness (`PendingWorkEnds`, `QueueDrains`, `PostponedApplied`,
`DecodeReturns`, `CallReturnsIfMatching`, `OfferAnswered`, `WaitsEnd`,
`StartAndStopTakeEffect`), as TLAPS here handles neither fairness nor ENABLED. Nothing
here needs induction over data.

## 5. Findings

1. `ENC:491`: attributes are looked up by sample time alone, and sample times
   start again with each writer. A late `OnH264Encoded` of a replaced writer takes the entry
   of a new frame (run `encoder_stale_attributes`).
2. `ENC:635`: rates applied at once leave `rate_change_requested_` set, and the
   next `Encode` applies older rates over them (run `rate_control_stale`).
3. `DEC:553`: `Release` leaves `require_keyframe_` alone, so the next transform is
   fed a delta frame (run `decoder_keyframe`).
4. `video_capture_winrt.cc:237`: the source iterator advances only past sources
   that are not colour sources (run `capture_endless_loop`).

Observations that have no run of their own:

* `ENC:467` ignores the result of `WriteSample`. The entry of a failed write stays
  until a later sample comes back; after three of them in a row Encode drops every
  frame, the clogging the comment at `ENC:488-489` wants to avoid.
  `HarmOnlyByFailure` and `QueueDrains` exclude lost samples for this reason.
* `DEC:364` says "Use ntp time from the earliest frame"; the picture gets the time
  of the frame whose `Decode` produced it. `PicturesInOrder` states the part that holds.
* After a `StopCapture` that failed half way `CaptureStarted` returns true for a
  capture that is gone (`video_capture_winrt.cc:423-428`).
* `Shutdown` of the stream sink may clear `encodingCallback_` between the null test and the
  call in `OnDispatchWorkItem`, which holds another lock; `NullCallsExplained` says that
  this is the only way to a bad pointer.
* `next_frame_rate_` and `next_target_bps_` have no initial value
  (`h264_encoder_mf_impl.h:103-104`), and the first `Encode` of a new frame size applies
  them if no request was postponed before (`ENC:421-423`): the frame rate may become 0,
  and a rate above `INT_MAX`, cast to `int`, counts as near any other, so that it stays.
* `CreateSessionDescriptionObserver.cpp:16-21` sends the answer whatever becomes of
  `SetLocalDescription`, and a refused offer goes unnoticed too: `OnSdpSetFailure` is empty
  (`SetSessionDescriptionObserer.cpp:11-16`, `WeiRtcApp.cpp:57`) and `CreateAnswer` is called
  all the same. A refused candidate fails the `assert(ok)` like one without an offer.
* `OnPeerConnectionDropped` deletes the factory and keeps the pointer (`WeiRtcApp.cpp:131`):
  ICE failing a second time deletes it again.
* An offer that `recv` splits is dropped, and the `assert(ok)` at
  `SimpleTcpSignaling.cpp:56` then fails for its candidates;
  `DirectTcpServer.cpp:12` relies on messages coming "in one shot".
* `PeerConnection::Close` has its body commented out (`PeerConnection.cpp:26`), and
  `PeerConnection::SetLocalDescription` (lines 100-102) calls `SetRemoteDescription`.
* `Send` and the receive loop can each close the client socket after an error.
* The comment at `ENC:234-235` wants `Shutdown` of the sink called without a lock "to
  prevent lock inversion". `ReconfigureSinkWriter` calls `ReleaseWriter` with `crit_`
  already held (it is recursive), so the lock is held all the same. It does no harm:
  `OnH264Encoded` takes `callbackCrit_` and the queue's lock, never `crit_`, and the locks
  are always taken in the order `crit_`, media sink, stream sink. With no cycle
  there is nothing for a model of the locks to find.
* `MediaSink::Shutdown` neither marks the sink without a stream (`MS:221-228`) nor leaves
  the clock (`MS:225`); `RemoveStreamSink` with a wrong identifier lets a live stream go
  (`MS:91`); `AddStreamSink` never sets `*ppStreamSink`. Only the removal can lead to
  a call through a null stream (`NullCallsExplained`).
* The comment at `AUD:645-648` explains that the shutdown event is reset lest it "be
  caught by the new render thread". After a stop that timed out (`AUD:634-640`) it is
  not reset; that is why `TransportingMeansStreaming` excludes such a side.
* `InitTransport` goes on after a failed `InitMixer` (`AUD:1103`, `AUD:1584`) and may use a
  null client; `Terminate` may delete the helper of a thread that was given up. `InitMixer`
  waits for the activation without a limit and with the lock held (`AUD:522`), so an
  activation that never completes blocks the caller, every later call and the threads. A
  `QueryInterface` that fails lets the old client go (`AUD:538`).
* A failed `add_FrameArrived` leaves a reader without a handler
  (`video_capture_winrt.cc:346-360`).
* `DesktopCapturer::StartCapture` sets `_isRunning` after it has started the thread
  (lines 106-107), which may therefore end at once. The five seconds it sleeps
  first (line 103) are all that keeps a frame from a surface that is not there yet; the
  renderer of the remote picture (`PeerConnection.cpp:46`) has no such pause.
* A paint under way when the track is deleted goes on with the deleted renderer
  (`VideoRender.cpp:127`, `141`), and frames may be painted out of order.
* `_interval_ms` is slept as microseconds (`DesktopCapturer.cpp:136`).

## 6. Not modelled, and why

* The bytes of a picture or a NAL unit, colour conversion, logging: no property
  here tells them apart.
* Codec factory, camera source, XAML handlers: forwarding, no state.
* libwebrtc and Media Foundation are external; what the code relies on is in the
  modules of their callers (the encoder's channel, the transform, the reader, the
  sink writer). `libwebrtc/` is by far the larger part of the repository's lines.
* Volume, mute and stereo of the audio device: each call sets or reads one value
  under the lock.
* The lock order of encoder and sinks: see the observation in section 5.
* Device enumeration: one query of Windows per call.
* Peer connection factory and application start-up: the objects are made by one
  coroutine and live as long as the application object; the one deletion before
  that, on a failed connection, is in `SimpleTcpSignaling`.

## 7. Plan

Done, in order of importance: stream sink and its abstract channel; encoder frame path;
rate control; decoder; camera; signalling; media sink composed with the stream sink;
audio transport; desktop track with source and renderer; theorems for every safety
property of the runs and for both refinements.

Next theorems: that the encoder's channel of one generation takes only steps of
`EncodedSampleChannel`, which would join the proofs of sinks and encoder;
`HarmOnlyByFailure` without `NoFullCycle`; the safety half of the liveness properties,
such as a bound on what a wait still waits for.
