--------------------------- MODULE H264RateControl --------------------------
(***************************************************************************)
(* When H264EncoderMFImpl rebuilds its sink writer, and with which rates   *)
(* (encoder/h264_encoder_mf_impl.cc).  WebRTC's SetRates is applied at     *)
(* once, or postponed to an Encode when the last change is too recent;     *)
(* Encode also rebuilds the writer when the size of the frames changes.    *)
(* All of it runs under crit_ on the encoder's task queue, so each call is *)
(* one step; what the rebuilding does to the samples under way is in       *)
(* H264Encoder.                                                            *)
(*                                                                         *)
(* Time is the time since last_rate_change_time_rtc_ms, in units of which  *)
(* kMinIntervalBetweenRateChangesMs has MinInterval; the code only asks    *)
(* whether it is below, at or above that, so it stops there.               *)
(***************************************************************************)
EXTENDS Integers

CONSTANTS Resolutions,   \* frame sizes (width_, height_)
          Bitrates,      \* bits per second
          FrameRates,    \* frames per second, without 0
          UnsetRates,    \* what the memory of a UINT32 may hold before it is set
          Half,          \* half the range of a UINT32: 2^31
          MinInterval,   \* kMinIntervalBetweenRateChangesMs
          MaxCalls       \* bound: SetRates, InitEncode and Release calls and
                         \* changes of the frame size

ASSUME RateAssumption ==
  /\ Resolutions # {}
  /\ Half \in Nat \ {0}
  /\ Bitrates \subseteq 0 .. Half - 1 /\ Bitrates # {}
  /\ FrameRates \subseteq 1 .. Half - 1 /\ FrameRates # {}
  /\ UnsetRates \subseteq 0 .. 2 * Half - 1 /\ UnsetRates # {}
  /\ MinInterval \in Nat \ {0}
  /\ MaxCalls \in Nat

VARIABLES
  writer,      \* "begun": inited_; "broken": sinkWriter_ set but not begun;
               \* "none": sinkWriter_ is null
  resolution,  \* width_, height_
  bps, fps,    \* target_bps_, frame_rate_
  nextBps,     \* next_target_bps_
  nextFps,     \* next_frame_rate_
  requested,   \* rate_change_requested_
  elapsed,     \* time since last_rate_change_time_rtc_ms, up to MinInterval + 1
  calls,       \* number of calls, for the bound
  wantedBps,   \* ghosts: the rates WebRTC asked for last
  wantedFps,
  stale,       \* ghost: rates of an older request were left to be applied, or
               \* were applied, after the last request
  nextSet,     \* ghost: the next_ rates have been assigned
  unsetUsed,   \* ghost: since InitEncode, Encode has used next_ rates that
               \* were never assigned
  sinceBuild   \* ghost: time since a writer was last begun, as elapsed

rateVars == <<bps, fps, nextBps, nextFps, requested>>
ghostVars == <<wantedBps, wantedFps, stale, nextSet, unsetUsed>>
vars == <<writer, resolution, rateVars, elapsed, calls, ghostVars, sinceBuild>>

Saturated == MinInterval + 1

\* last_rate_change_time_rtc_ms is 0, long ago.  next_target_bps_ and
\* next_frame_rate_ have no initial value, so they hold anything; the members
\* InitEncode sets have none either, but nothing reads them before.
Init ==
  /\ writer = "none"
  /\ resolution \in Resolutions
  /\ bps \in Bitrates /\ fps \in FrameRates
  /\ nextBps \in UnsetRates /\ nextFps \in UnsetRates
  /\ requested = FALSE
  /\ elapsed = Saturated
  /\ calls = 0
  /\ wantedBps = bps /\ wantedFps = fps
  /\ stale = FALSE /\ nextSet = FALSE /\ unsetUsed = FALSE
  /\ sinceBuild = Saturated

Call ==
  /\ calls < MaxCalls
  /\ calls' = calls + 1

\* The difference of two UINT32 values, as the 32-bit int that holds it.
AsInt(x) ==
  IF x >= Half THEN x - 2 * Half ELSE IF x < -Half THEN x + 2 * Half ELSE x

\* "Ignore small changes": a change of at most kMinRateVariation, by the code's
\* arithmetic; both rates are cast to int.
Near(rate, new) ==
  LET diff == AsInt(rate - new)
  IN  AsInt(IF diff < 0 THEN -diff ELSE diff) * 10 <= rate

-----------------------------------------------------------------------------
InitWriter ==
  /\ writer' \in {"begun", "broken", "none"}
  /\ sinceBuild' = IF writer' = "begun" THEN 0 ELSE sinceBuild
  /\ elapsed' = IF writer' = "begun" THEN 0 ELSE elapsed

\* Mutant: the time of the change is only noted by a change of the bitrate.
ReconfigureSinkWriterSilent(newRes, newBps, newFps) ==
  /\ resolution' = newRes
  /\ bps' = IF Near(bps, newBps) THEN bps ELSE newBps
  /\ fps' = IF Near(fps, newFps) THEN fps ELSE newFps
  /\ IF newRes # resolution \/ bps' # bps \/ fps' # fps
       THEN /\ writer' \in {"begun", "broken", "none"}
            /\ sinceBuild' = IF writer' = "begun" THEN 0 ELSE sinceBuild
            /\ elapsed' = IF bps' # bps THEN 0 ELSE elapsed
       ELSE UNCHANGED <<writer, sinceBuild, elapsed>>

\* Mutant: the frame rate is left alone when the bitrate changes.
ReconfigureSinkWriterOneRate(newRes, newBps, newFps) ==
  /\ resolution' = newRes
  /\ bps' = IF Near(bps, newBps) THEN bps ELSE newBps
  /\ fps' = IF Near(fps, newFps) \/ bps' # bps THEN fps ELSE newFps
  /\ IF newRes # resolution \/ bps' # bps \/ fps' # fps
       THEN /\ writer' \in {"begun", "broken", "none"}
            /\ sinceBuild' = IF writer' = "begun" THEN 0 ELSE sinceBuild
            /\ elapsed' = 0
       ELSE UNCHANGED <<writer, sinceBuild, elapsed>>

\* ReleaseWriter and InitWriter, whose failure is not looked at.
ReconfigureSinkWriter(newRes, newBps, newFps) ==
  /\ resolution' = newRes
  /\ bps' = IF Near(bps, newBps) THEN bps ELSE newBps
  /\ fps' = IF Near(fps, newFps) THEN fps ELSE newFps
  /\ IF newRes # resolution \/ bps' # bps \/ fps' # fps
       THEN /\ writer' \in {"begun", "broken", "none"}
            /\ sinceBuild' = IF writer' = "begun" THEN 0 ELSE sinceBuild
            /\ elapsed' = 0
       ELSE UNCHANGED <<writer, sinceBuild, elapsed>>

\* A postponed request survives InitEncode: it is reset nowhere.
InitEncode ==
  /\ Call
  /\ writer # "begun"
  /\ resolution' \in Resolutions
  /\ bps' \in Bitrates /\ fps' \in FrameRates
  /\ InitWriter
  /\ wantedBps' = bps' /\ wantedFps' = fps'
  /\ stale' = requested
  /\ unsetUsed' = FALSE
  /\ UNCHANGED <<nextBps, nextFps, requested, nextSet>>

Release ==
  /\ Call
  /\ writer # "none"
  /\ writer' = "none"
  /\ UNCHANGED <<resolution, rateVars, elapsed, ghostVars, sinceBuild>>

\* Mutants: a frame rate of 0 is not ignored; a request that is pending is not
\* replaced.
SetRatesZero(newBps, newFps) ==
  /\ Call
  /\ writer # "none"
  /\ wantedBps' = newBps /\ wantedFps' = newFps
  /\ UNCHANGED unsetUsed
  /\ IF elapsed < MinInterval
       THEN /\ nextBps' = newBps /\ nextFps' = newFps
            /\ requested' = TRUE
            /\ stale' = FALSE /\ nextSet' = TRUE
            /\ UNCHANGED <<writer, resolution, bps, fps, elapsed, sinceBuild>>
       ELSE /\ ReconfigureSinkWriter(resolution, newBps, newFps)
            /\ stale' = requested
            /\ UNCHANGED <<nextBps, nextFps, requested, nextSet>>
SetRatesKeepsFirst(newBps, newFps) ==
  /\ Call
  /\ writer # "none" /\ newFps # 0
  /\ wantedBps' = newBps /\ wantedFps' = newFps
  /\ UNCHANGED unsetUsed
  /\ IF elapsed < MinInterval
       THEN /\ nextBps' = (IF requested THEN nextBps ELSE newBps)
            /\ nextFps' = (IF requested THEN nextFps ELSE newFps)
            /\ requested' = TRUE
            /\ stale' = FALSE /\ nextSet' = TRUE
            /\ UNCHANGED <<writer, resolution, bps, fps, elapsed, sinceBuild>>
       ELSE /\ ReconfigureSinkWriter(resolution, newBps, newFps)
            /\ stale' = requested
            /\ UNCHANGED <<nextBps, nextFps, requested, nextSet>>

\* A call with a frame rate of 0, or without a writer, is ignored.  WebRTC
\* passes whole numbers of frames per second, in a double.
SetRates(newBps, newFps) ==
  /\ Call
  /\ writer # "none" /\ newFps # 0
  /\ wantedBps' = newBps /\ wantedFps' = newFps
  /\ UNCHANGED unsetUsed
  /\ IF elapsed < MinInterval
       THEN /\ nextBps' = newBps /\ nextFps' = newFps
            /\ requested' = TRUE
            /\ stale' = FALSE /\ nextSet' = TRUE
            /\ UNCHANGED <<writer, resolution, bps, fps, elapsed, sinceBuild>>
       ELSE /\ ReconfigureSinkWriter(resolution, newBps, newFps)
            /\ stale' = requested
            /\ UNCHANGED <<nextBps, nextFps, requested, nextSet>>

ShouldChangeRateNow == requested /\ elapsed > MinInterval

\* Mutant: rate_change_requested_ is not cleared.
EncodeReconfigureKeeps(newRes) ==
  /\ writer = "begun"
  /\ newRes # resolution \/ ShouldChangeRateNow
  /\ IF newRes # resolution THEN Call ELSE UNCHANGED calls
  /\ ReconfigureSinkWriter(newRes, nextBps, nextFps)
  /\ stale' = (stale \/ nextBps # wantedBps \/ nextFps # wantedFps)
  /\ unsetUsed' = (unsetUsed \/ ~nextSet)
  /\ UNCHANGED <<nextBps, nextFps, requested, nextSet, wantedBps, wantedFps>>

\* Encode with a frame of size newRes; the next_ rates are used whether or
\* not a request is pending, or was ever made.
EncodeReconfigure(newRes) ==
  /\ writer = "begun"
  /\ newRes # resolution \/ ShouldChangeRateNow
  /\ IF newRes # resolution THEN Call ELSE UNCHANGED calls
  /\ ReconfigureSinkWriter(newRes, nextBps, nextFps)
  /\ requested' = FALSE
  /\ stale' = (stale \/ nextBps # wantedBps \/ nextFps # wantedFps)
  /\ unsetUsed' = (unsetUsed \/ ~nextSet)
  /\ UNCHANGED <<nextBps, nextFps, nextSet, wantedBps, wantedFps>>

Tick ==
  /\ elapsed < Saturated \/ sinceBuild < Saturated
  /\ elapsed' = IF elapsed < Saturated THEN elapsed + 1 ELSE elapsed
  /\ sinceBuild' = IF sinceBuild < Saturated THEN sinceBuild + 1 ELSE sinceBuild
  /\ UNCHANGED <<writer, resolution, rateVars, calls, ghostVars>>

Next ==
  \/ InitEncode
  \/ Release
  \/ \E b \in Bitrates, f \in FrameRates \cup {0} : SetRates(b, f)
  \/ \E r \in Resolutions : EncodeReconfigure(r)
  \/ Tick

Spec == Init /\ [][Next]_vars

\* Time passes, and a capturer goes on delivering frames.
FairSpec ==
  /\ Spec
  /\ WF_vars(Tick)
  /\ WF_vars(EncodeReconfigure(resolution))

-----------------------------------------------------------------------------
(* Properties                                                              *)

\* Every variable has its type.  The frame rate in use and the one kept for
\* later are rates WebRTC asked for, so never 0, except for what next_frame_rate_
\* and next_target_bps_ hold before they are assigned.
TypeOK ==
  /\ writer \in {"begun", "broken", "none"}
  /\ resolution \in Resolutions
  /\ wantedBps \in Bitrates /\ wantedFps \in FrameRates
  /\ nextBps \in (IF nextSet THEN Bitrates ELSE UnsetRates)
  /\ nextFps \in (IF nextSet THEN FrameRates ELSE UnsetRates)
  /\ bps \in (IF unsetUsed THEN Bitrates \cup UnsetRates ELSE Bitrates)
  /\ fps \in (IF unsetUsed THEN FrameRates \cup UnsetRates ELSE FrameRates)
  /\ requested \in BOOLEAN /\ stale \in BOOLEAN
  /\ nextSet \in BOOLEAN /\ unsetUsed \in BOOLEAN
  /\ elapsed \in 0 .. Saturated /\ sinceBuild \in 0 .. Saturated
  /\ calls \in 0 .. MaxCalls

\* rate is within kMinRateVariation of the wanted one.
Close(rate, wanted) ==
  (IF rate > wanted THEN rate - wanted ELSE wanted - rate) * 10 <= rate

\* "we are ignoring small variations which means the rates might end up being
\* off the requested value by a small amount": when no change is pending the
\* writer runs with rates near the ones WebRTC asked for last.
RatesNearRequested ==
  writer = "begun" /\ ~requested => Close(bps, wantedBps) /\ Close(fps, wantedFps)

\* Rates further off than that come from two causes only.  Either Encode used,
\* for a new frame size, next_ rates that nobody had assigned (what they leave
\* behind can outlive later requests: cast to int, a rate above INT_MAX is near
\* every other).  Or an older request was applied after the last one: one that
\* SetRates or InitEncode left pending, or the next_ rates of a request already
\* dealt with, used again for a new frame size.
RatesOffOnlyIfStale == ~stale /\ ~unsetUsed => RatesNearRequested

\* What WebRTC asked for last is never forgotten: it is in force, or it is
\* what the next Encode will apply, unless an older request was left pending.
RequestKept ==
  ~stale /\ requested => nextBps = wantedBps /\ nextFps = wantedFps

\* "changing rates is slow and will cause visible stuttering, so we don't want
\* to do it too often": a writer that was begun is not torn down for another
\* one of the same frame size before MinInterval has passed.
RateChangesSpaced ==
  [][(writer = "begun" /\ resolution' = resolution /\ <<bps, fps>>' # <<bps, fps>>)
       => sinceBuild >= MinInterval]_vars

\* A postponed change is applied while frames go on arriving, if WebRTC stops
\* asking for other rates.
PostponedApplied == requested /\ writer = "begun" ~> ~requested \/ writer # "begun"
=============================================================================
