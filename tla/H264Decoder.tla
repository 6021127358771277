----------------------------- MODULE H264Decoder ----------------------------
(***************************************************************************)
(* H264DecoderMFImpl (decoder/h264_decoder_mf_impl.cc): WebRTC's decoding  *)
(* thread feeds encoded frames to a Media Foundation transform and takes   *)
(* the pictures it has ready, which go to WebRTC in buffers of a pool;     *)
(* the renderer gives the buffers back on a thread of its own.             *)
(*                                                                         *)
(* A frame is its number in the order of the Decode calls, and is a        *)
(* complete key frame, an incomplete one, a delta frame, or one with a     *)
(* size and no data.  Sample times (first_frame_rtp_) are written into the *)
(* samples and never read back; width_ and height_ only decide the size of *)
(* the buffers.  Both are left out.                                        *)
(*                                                                         *)
(* The transform is not part of the repository.  It takes frames until it  *)
(* holds Capacity of them, gives their pictures back in order but as late  *)
(* as it likes, and may announce a stream change after a key frame.        *)
(***************************************************************************)
EXTENDS Naturals, Sequences

CONSTANTS PoolSize,      \* max_number_of_buffers of buffer_pool_
          Capacity,      \* frames the transform holds before MF_E_NOTACCEPTING
          MaxFrames,     \* bound: Decode calls
          MaxInits,      \* bound: InitDecode calls
          MaxFailures    \* bound: failing Media Foundation calls

ASSUME DecoderAssumption ==
  /\ PoolSize \in Nat \ {0} /\ Capacity \in Nat \ {0}
  /\ MaxFrames \in Nat /\ MaxInits \in Nat /\ MaxFailures \in Nat

Kinds == {"key", "partialKey", "delta", "noData"}

VARIABLES
  pc,               \* where the decoding thread is
  inited,           \* inited_
  registered,       \* decode_complete_callback_ # nullptr
  requireKeyframe,  \* require_keyframe_
  frame, kind,      \* the frame Decode works on
  retrying,         \* FlushFrames is called for the second time
  result,           \* what the last Decode returned: "none" before the first
  created,          \* decoder_ # nullptr
  inside,           \* frames the transform holds
  changed,          \* the transform has announced a stream change
  held,             \* buffers of the pool in use downstream
  decoded,          \* pictures given to Decoded: the frame it was decoded from
                    \* and the frame whose timestamps it got
  inits, failures,
  primed,           \* ghost: the transform has had a complete key frame since
                    \* it was created or flushed
  unprimedInput,    \* ghost: it took a delta frame without
  slip              \* ghost: how the need of a key frame was forgotten

threadVars == <<pc, frame, kind, retrying, result>>
stateVars == <<inited, registered, requireKeyframe>>
transformVars == <<created, inside, changed, primed>>
ghostVars == <<unprimedInput, slip>>
vars == <<threadVars, stateVars, transformVars, held, decoded, inits, failures,
          ghostVars>>

Init ==
  /\ pc = "idle" /\ frame = 0 /\ kind = "delta"
  /\ retrying = FALSE /\ result = "none"
  /\ inited = FALSE /\ registered = FALSE /\ requireKeyframe = TRUE
  /\ created = FALSE /\ inside = <<>> /\ changed = FALSE /\ primed = FALSE
  /\ held = 0
  /\ decoded = <<>>
  /\ inits = 0 /\ failures = 0
  /\ unprimedInput = FALSE
  /\ slip = {}

Failure ==
  /\ failures < MaxFailures
  /\ failures' = failures + 1

Return(r) ==
  /\ pc' = "idle"
  /\ result' = r

-----------------------------------------------------------------------------
(* Calls of WebRTC other than Decode.                                      *)

\* WebRTC initialises a new decoder or one it has released.  A failure may
\* come before or after the transform is created; one of the last messages
\* fails with inited_ set.
InitDecode ==
  /\ pc = "idle" /\ ~inited
  /\ inits < MaxInits
  /\ inits' = inits + 1
  /\ \/ created' = TRUE /\ inited' = TRUE /\ UNCHANGED failures
     \/ /\ Failure
        /\ \/ created' \in BOOLEAN /\ UNCHANGED inited
           \/ created' = TRUE /\ inited' = TRUE
  /\ inside' = <<>> /\ changed' = FALSE /\ primed' = FALSE
  /\ slip' = IF requireKeyframe THEN slip ELSE slip \cup {"released"}
  /\ UNCHANGED <<threadVars, registered, requireKeyframe, held, decoded,
                 unprimedInput>>

RegisterDecodeCompleteCallback ==
  /\ pc = "idle"
  /\ registered' \in BOOLEAN
  /\ UNCHANGED <<threadVars, inited, requireKeyframe, transformVars, held,
                 decoded, inits, failures, ghostVars>>

\* The pool forgets its buffers; the renderer keeps the ones it holds.
Release ==
  /\ pc = "idle"
  /\ inited' = FALSE
  /\ created' = FALSE
  /\ inside' = <<>> /\ changed' = FALSE /\ primed' = FALSE
  /\ held' = 0
  /\ UNCHANGED <<threadVars, registered, requireKeyframe, decoded, inits,
                 failures, ghostVars>>

-----------------------------------------------------------------------------
(* Decode                                                                  *)

\* The checks at its start.
Decode(k) ==
  /\ pc = "idle"
  /\ frame < MaxFrames
  /\ frame' = frame + 1
  /\ kind' = k
  /\ retrying' = FALSE
  /\ IF ~inited \/ ~registered
       THEN Return("uninitialized") /\ UNCHANGED requireKeyframe
     ELSE IF k = "noData"
       THEN Return("parameter") /\ UNCHANGED requireKeyframe
     ELSE IF requireKeyframe /\ k # "key"
       THEN Return("error") /\ UNCHANGED requireKeyframe
     ELSE pc' = "enqueue" /\ requireKeyframe' = FALSE /\ UNCHANGED result
  /\ UNCHANGED <<inited, registered, transformVars, held, decoded, inits,
                 failures, ghostVars>>

\* ProcessInput of a frame the transform takes.
ProcessInput ==
  /\ Len(inside) < Capacity
  /\ inside' = Append(inside, frame)
  /\ primed' = (primed \/ kind = "key")
  /\ changed' \in IF kind = "key" THEN {changed, TRUE} ELSE {changed}
  /\ unprimedInput' = (unprimedInput \/ (kind = "delta" /\ ~primed))

\* EnqueueFrame succeeds, or fails in a way that Decode only reports.
EnqueueFrame ==
  /\ pc \in {"enqueue", "reenqueue"}
  /\ \/ /\ ProcessInput
        /\ pc' = "flush"
        /\ slip' = IF kind = "partialKey" /\ ~primed
                     THEN slip \cup {"partial"} ELSE slip
        /\ UNCHANGED <<result, failures>>
     \/ /\ Failure
        /\ Return("error")
        /\ slip' = IF primed THEN slip ELSE slip \cup {"lost"}
        /\ UNCHANGED <<inside, primed, changed, unprimedInput>>
  /\ UNCHANGED <<frame, kind, retrying, stateVars, created, held, decoded,
                 inits>>

\* Mutant: a key frame is not required after the flush.
NotAcceptingForgets ==
  /\ pc = "enqueue"
  /\ Len(inside) >= Capacity
  /\ inside' = <<>> /\ primed' = FALSE
  /\ IF kind # "delta"
       THEN pc' = "reenqueue" /\ UNCHANGED result
       ELSE Return("error")
  /\ UNCHANGED <<frame, kind, retrying, stateVars, created, changed,
                 held, decoded, inits, failures, ghostVars>>

\* MF_E_NOTACCEPTING: the transform is flushed, if that succeeds, and only a
\* key frame is tried again.
NotAccepting ==
  /\ pc = "enqueue"
  /\ Len(inside) >= Capacity
  /\ \/ inside' = <<>> /\ primed' = FALSE /\ UNCHANGED failures
     \/ Failure /\ UNCHANGED <<inside, primed>>
  /\ IF kind = "delta" THEN Return("error") /\ requireKeyframe' = TRUE
     ELSE IF failures' # failures THEN Return("error") /\ UNCHANGED requireKeyframe
     ELSE pc' = "reenqueue" /\ UNCHANGED <<result, requireKeyframe>>
  /\ UNCHANGED <<frame, kind, retrying, inited, registered, created, changed,
                 held, decoded, inits, ghostVars>>

\* Mutants: the exhausted pool is not noticed; the picture stays in the
\* transform.
FlushFrameUnlimited ==
  /\ pc = "flush" /\ ~changed
  /\ inside # <<>>
  /\ inside' = Tail(inside)
  /\ held' = held + 1
  /\ decoded' = Append(decoded, [of |-> Head(inside), ts |-> frame])
  /\ UNCHANGED <<pc, result>>
  /\ UNCHANGED <<frame, kind, retrying, stateVars, created, changed, primed,
                 inits, failures, ghostVars>>
FlushFrameTwice ==
  /\ pc = "flush" /\ ~changed
  /\ inside # <<>>
  /\ IF held < PoolSize
       THEN /\ held' = held + 1
            /\ decoded' = Append(decoded, [of |-> Head(inside), ts |-> frame])
            /\ UNCHANGED <<pc, result>>
       ELSE /\ Return("ok")
            /\ UNCHANGED <<held, decoded>>
  /\ UNCHANGED <<inside, frame, kind, retrying, stateVars, created, changed,
                 primed, inits, failures, ghostVars>>

\* One turn of the loop of FlushFrames that finds a picture.  If the pool is
\* exhausted the picture is dropped, WEBRTC_VIDEO_CODEC_NO_OUTPUT counts as
\* success and the pictures behind it wait for the next Decode.
FlushFrame ==
  /\ pc = "flush" /\ ~changed
  /\ inside # <<>>
  /\ inside' = Tail(inside)
  /\ IF held < PoolSize
       THEN /\ held' = held + 1
            /\ decoded' = Append(decoded, [of |-> Head(inside), ts |-> frame])
            /\ UNCHANGED <<pc, result>>
       ELSE /\ Return("ok")
            /\ UNCHANGED <<held, decoded>>
  /\ UNCHANGED <<frame, kind, retrying, stateVars, created, changed, primed,
                 inits, failures, ghostVars>>

\* MF_E_TRANSFORM_NEED_MORE_INPUT, or a failure inside the loop, which may
\* come after ProcessOutput and lose its picture.
FlushEnds ==
  /\ pc = "flush" /\ ~changed
  /\ \/ Return("ok") /\ UNCHANGED <<inside, failures>>
     \/ /\ Return("error") /\ Failure
        /\ inside' \in {inside, SubSeq(inside, 2, Len(inside))}
  /\ UNCHANGED <<frame, kind, retrying, stateVars, created, changed, primed, held,
                 decoded, inits, ghostVars>>

\* Mutant: the output type is set again as long as the stream changes.
StreamChangeAgain ==
  /\ pc = "flush" /\ changed
  /\ \/ /\ retrying' = ~retrying /\ changed' \in BOOLEAN
        /\ UNCHANGED <<pc, result, failures>>
     \/ Return("error") /\ Failure /\ UNCHANGED <<retrying, changed>>
  /\ UNCHANGED <<frame, kind, stateVars, created, inside, primed, held, decoded,
                 inits, ghostVars>>

\* MF_E_TRANSFORM_STREAM_CHANGE: the output type is set again and FlushFrames
\* called once more.
StreamChange ==
  /\ pc = "flush" /\ changed
  /\ IF retrying
       THEN Return("error") /\ UNCHANGED <<retrying, changed, failures>>
       ELSE \/ /\ retrying' = TRUE /\ changed' \in BOOLEAN
               /\ UNCHANGED <<pc, result, failures>>
            \/ Return("error") /\ Failure /\ UNCHANGED <<retrying, changed>>
  /\ UNCHANGED <<frame, kind, stateVars, created, inside, primed, held, decoded,
                 inits, ghostVars>>

\* The renderer is done with a picture.
ReturnBuffer ==
  /\ held > 0
  /\ held' = held - 1
  /\ UNCHANGED <<threadVars, stateVars, transformVars, decoded, inits, failures,
                 ghostVars>>

-----------------------------------------------------------------------------
Decoding == EnqueueFrame \/ NotAccepting \/ FlushFrame \/ FlushEnds \/ StreamChange

Next ==
  \/ InitDecode
  \/ RegisterDecodeCompleteCallback
  \/ Release
  \/ \E k \in Kinds : Decode(k)
  \/ Decoding
  \/ ReturnBuffer

Spec == Init /\ [][Next]_vars

\* A Decode that was called goes on.
FairSpec == Spec /\ WF_vars(Decoding)

-----------------------------------------------------------------------------
(* Properties                                                              *)

\* Every variable has its type; the pool never gives out more buffers than
\* it has.
TypeOK ==
  /\ pc \in {"idle", "enqueue", "reenqueue", "flush"}
  /\ frame \in 0 .. MaxFrames /\ kind \in Kinds
  /\ retrying \in BOOLEAN
  /\ result \in {"none", "ok", "error", "parameter", "uninitialized"}
  /\ inited \in BOOLEAN /\ registered \in BOOLEAN
  /\ requireKeyframe \in BOOLEAN
  /\ created \in BOOLEAN
  /\ inside \in Seq(1 .. MaxFrames) /\ Len(inside) <= Capacity
  /\ changed \in BOOLEAN
  /\ held \in 0 .. PoolSize
  /\ decoded \in Seq([of : 1 .. MaxFrames, ts : 1 .. MaxFrames])
  /\ inits \in 0 .. MaxInits /\ failures \in 0 .. MaxFailures
  /\ primed \in BOOLEAN /\ unprimedInput \in BOOLEAN
  /\ slip \subseteq {"released", "lost", "partial"}

\* "Discard until keyframe": the transform gets no delta frame before it has
\* had a complete key frame.
KeyframeFirst == ~unprimedInput

\* The transform gets a delta frame without a key frame only if the decoder
\* was released and initialised again, if the key frame was lost on its way
\* into the transform, or if an incomplete one followed a flush.  And while the
\* decoder discards frames until a key frame comes, Decode has told WebRTC so,
\* which asks the sender for a key frame on an error.
KeyframeFirstUnlessSlip ==
  /\ unprimedInput => slip # {}
  /\ requireKeyframe /\ pc = "idle" =>
       result \in {"none", "error", "parameter", "uninitialized"}

\* Pictures come out in the order of their frames, none twice, and never with
\* the timestamp of an earlier frame.
PicturesInOrder ==
  /\ \A i \in DOMAIN decoded : decoded[i].of <= decoded[i].ts
  /\ \A i, j \in DOMAIN decoded : i < j => decoded[i].of < decoded[j].of

\* Decode returns, whatever the transform does.
DecodeReturns == pc # "idle" ~> pc = "idle"
=============================================================================
