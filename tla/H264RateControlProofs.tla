------------------------ MODULE H264RateControlProofs -----------------------
(***************************************************************************)
(* For every set of rates and sizes, whatever the unassigned next_ rates   *)
(* hold, and every interval: rates far from the requested ones have two    *)
(* causes, a request is not forgotten, and changes of rate are spaced.     *)
(***************************************************************************)
EXTENDS H264RateControl, TLAPS

\* elapsed restarts with every writer that is begun, and more often.
ElapsedBehindBuild == elapsed <= sinceBuild

IInv == TypeOK /\ RatesOffOnlyIfStale /\ RequestKept /\ ElapsedBehindBuild

\* On rates that fit an int the code's test of nearness is the real one.
LEMMA NearIsClose ==
  \A x, y \in 0 .. Half - 1 : Near(x, y) <=> Close(x, y)
  BY RateAssumption DEF Near, Close, AsInt

\* A rate is close to itself.
LEMMA CloseItself == \A x \in Nat : Close(x, x)
  BY DEF Close

\* What ReconfigureSinkWriter keeps of the types and the clocks; a rate that
\* moved is equal to the new one.
LEMMA ReconfigureFacts ==
  ASSUME TypeOK, NEW r \in Resolutions, NEW b, NEW f,
         ReconfigureSinkWriter(r, b, f)
  PROVE  /\ resolution' \in Resolutions
         /\ bps' \in {bps, b} /\ fps' \in {fps, f}
         /\ writer' \in {"begun", "broken", "none"}
         /\ elapsed' \in 0 .. Saturated /\ sinceBuild' \in 0 .. Saturated
         /\ ElapsedBehindBuild => ElapsedBehindBuild'
<1> USE RateAssumption
<1>4. elapsed' \in 0 .. Saturated /\ sinceBuild' \in 0 .. Saturated
  BY DEF ReconfigureSinkWriter, TypeOK, Saturated
<1>5. ElapsedBehindBuild => ElapsedBehindBuild'
  BY DEF ReconfigureSinkWriter, TypeOK, Saturated, ElapsedBehindBuild
<1>6. bps' \in {bps, b} /\ fps' \in {fps, f} /\ resolution' \in Resolutions
  BY DEF ReconfigureSinkWriter, TypeOK
<1>7. writer' \in {"begun", "broken", "none"}
  BY DEF ReconfigureSinkWriter, TypeOK
<1> QED
  BY <1>4, <1>5, <1>6, <1>7

\* While only assigned rates are used, both rates are close to the new ones
\* after ReconfigureSinkWriter.
LEMMA ReconfigureCloses ==
  ASSUME TypeOK, ~unsetUsed, NEW r, NEW b \in Bitrates, NEW f \in FrameRates,
         ReconfigureSinkWriter(r, b, f)
  PROVE  Close(bps', b) /\ Close(fps', f)
<1> USE RateAssumption
<1>1. {bps, b} \subseteq 0 .. Half - 1 /\ {fps, f} \subseteq 0 .. Half - 1
  BY DEF TypeOK
<1>2. Close(b, b) /\ Close(f, f)
  BY <1>1, CloseItself
<1>3. (Near(bps, b) => Close(bps, b)) /\ (Near(fps, f) => Close(fps, f))
  BY <1>1, NearIsClose
<1>4. /\ bps' = IF Near(bps, b) THEN bps ELSE b
      /\ fps' = IF Near(fps, f) THEN fps ELSE f
  BY DEF ReconfigureSinkWriter
<1> QED
  BY <1>2, <1>3, <1>4

\* The inductive invariant holds initially and every call keeps it.
THEOREM Inductive == Spec => []IInv
<1> USE RateAssumption DEF Saturated
<1>1. Init => IInv
  <2> SUFFICES ASSUME Init PROVE IInv
    OBVIOUS
  <2>1. TypeOK
    <3>1. elapsed \in 0 .. Saturated /\ sinceBuild \in 0 .. Saturated
      BY DEF Init
    <3>2. calls \in 0 .. MaxCalls
      BY DEF Init
    <3>3. /\ requested \in BOOLEAN /\ stale \in BOOLEAN
          /\ nextSet \in BOOLEAN /\ unsetUsed \in BOOLEAN
      BY Zenon DEF Init
    <3>4. writer \in {"begun", "broken", "none"}
      BY DEF Init
    <3> QED
      BY <3>1, <3>2, <3>3, <3>4 DEF Init, TypeOK
  <2>2. RatesOffOnlyIfStale
    BY DEF Init, RatesOffOnlyIfStale, RatesNearRequested
  <2>3. RequestKept /\ ElapsedBehindBuild
    BY DEF Init, RequestKept, ElapsedBehindBuild
  <2> QED
    BY <2>1, <2>2, <2>3 DEF IInv
<1>2. IInv /\ [Next]_vars => IInv'
  <2> SUFFICES ASSUME IInv, [Next]_vars PROVE IInv'
    OBVIOUS
  <2> USE DEF IInv
  <2>1. CASE InitEncode
    <3>1. bps' \in Bitrates /\ fps' \in FrameRates
      BY <2>1 DEF InitEncode
    <3>2. Close(bps', wantedBps') /\ Close(fps', wantedFps')
      BY <2>1, <3>1, CloseItself DEF InitEncode
    <3>3. elapsed' \in 0 .. Saturated /\ sinceBuild' \in 0 .. Saturated
      BY <2>1 DEF InitEncode, InitWriter, TypeOK
    <3>4. TypeOK'
      <4>1. /\ requested' \in BOOLEAN /\ stale' \in BOOLEAN
            /\ nextSet' \in BOOLEAN /\ unsetUsed' \in BOOLEAN /\ ~unsetUsed'
        BY <2>1 DEF InitEncode, TypeOK
      <4>2. writer' \in {"begun", "broken", "none"} /\ calls' \in 0 .. MaxCalls
        BY <2>1 DEF InitEncode, InitWriter, Call, TypeOK
      <4>3. /\ nextBps' \in (IF nextSet' THEN Bitrates ELSE UnsetRates)
            /\ nextFps' \in (IF nextSet' THEN FrameRates ELSE UnsetRates)
            /\ resolution' \in Resolutions
            /\ wantedBps' \in Bitrates /\ wantedFps' \in FrameRates
        BY <2>1 DEF InitEncode, TypeOK
      <4> QED
        BY <3>1, <3>3, <4>1, <4>2, <4>3 DEF TypeOK
    <3>5. RatesOffOnlyIfStale'
      BY <3>2 DEF RatesOffOnlyIfStale, RatesNearRequested
    <3>6. RequestKept'
      BY <2>1 DEF InitEncode, RequestKept
    <3>7. ElapsedBehindBuild'
      BY <2>1 DEF InitEncode, InitWriter, ElapsedBehindBuild, TypeOK
    <3> QED
      BY <3>4, <3>5, <3>6, <3>7
  <2>2. CASE Release
    <3>1. TypeOK'
      BY <2>2 DEF Release, Call, TypeOK, rateVars, ghostVars
    <3>2. RatesOffOnlyIfStale'
      BY <2>2 DEF Release, RatesOffOnlyIfStale, RatesNearRequested
    <3>3. RequestKept' /\ ElapsedBehindBuild'
      BY <2>2 DEF Release, rateVars, ghostVars, RequestKept, ElapsedBehindBuild
    <3> QED
      BY <3>1, <3>2, <3>3
  <2>3. CASE \E b \in Bitrates, f \in FrameRates \cup {0} : SetRates(b, f)
    <3>1. PICK b \in Bitrates, f \in FrameRates : SetRates(b, f)
      BY <2>3 DEF SetRates
    <3>2. wantedBps' = b /\ wantedFps' = f /\ calls' \in 0 .. MaxCalls
      BY <3>1 DEF SetRates, Call, TypeOK
    <3>3. CASE elapsed < MinInterval
      <4>1. TypeOK'
        BY <3>1, <3>2, <3>3 DEF SetRates, TypeOK
      <4>2. RatesOffOnlyIfStale' /\ RequestKept' /\ ElapsedBehindBuild'
        BY <3>1, <3>3 DEF SetRates, RatesOffOnlyIfStale, RatesNearRequested,
           RequestKept, ElapsedBehindBuild
      <4> QED
        BY <4>1, <4>2
    <3>4. CASE ~(elapsed < MinInterval)
      <4>1. /\ ReconfigureSinkWriter(resolution, b, f)
            /\ stale' = requested
            /\ UNCHANGED <<nextBps, nextFps, requested>>
        BY <3>1, <3>4 DEF SetRates
      <4>2. resolution \in Resolutions
        BY DEF TypeOK
      <4>3. TypeOK'
        BY <3>1, <3>2, <4>1, <4>2, ReconfigureFacts DEF SetRates, TypeOK
      <4>4. RatesOffOnlyIfStale'
        <5> SUFFICES ASSUME ~unsetUsed
                     PROVE  Close(bps', wantedBps') /\ Close(fps', wantedFps')
          BY <3>1 DEF SetRates, RatesOffOnlyIfStale, RatesNearRequested
        <5> QED
          BY <3>2, <4>1, ReconfigureCloses
      <4>5. RequestKept' /\ ElapsedBehindBuild'
        BY <4>1, <4>2, ReconfigureFacts DEF RequestKept
      <4> QED
        BY <4>3, <4>4, <4>5
    <3> QED
      BY <3>3, <3>4
  <2>4. CASE \E r \in Resolutions : EncodeReconfigure(r)
    <3>1. PICK r \in Resolutions : EncodeReconfigure(r)
      BY <2>4
    <3>2. /\ ReconfigureSinkWriter(r, nextBps, nextFps)
          /\ requested' = FALSE
          /\ stale' = (stale \/ nextBps # wantedBps \/ nextFps # wantedFps)
          /\ unsetUsed' = (unsetUsed \/ ~nextSet)
          /\ UNCHANGED <<nextBps, nextFps, nextSet, wantedBps, wantedFps>>
          /\ calls' \in 0 .. MaxCalls
      BY <3>1 DEF EncodeReconfigure, Call, TypeOK
    <3>3. unsetUsed' \in BOOLEAN /\ stale' \in BOOLEAN
      BY <3>2
    <3>4. TypeOK'
      <4>1. unsetUsed \/ ~nextSet => unsetUsed'
        BY <3>2, Zenon
      <4>2. /\ bps' \in (IF unsetUsed' THEN Bitrates \cup UnsetRates ELSE Bitrates)
            /\ fps' \in (IF unsetUsed' THEN FrameRates \cup UnsetRates ELSE FrameRates)
        BY <3>2, <4>1, ReconfigureFacts DEF TypeOK
      <4> QED
        BY <3>2, <3>3, <4>2, ReconfigureFacts DEF TypeOK
    <3>5. RatesOffOnlyIfStale'
      <4> SUFFICES ASSUME ~stale', ~unsetUsed'
                   PROVE  Close(bps', wantedBps') /\ Close(fps', wantedFps')
        BY DEF RatesOffOnlyIfStale, RatesNearRequested
      <4>1. ~unsetUsed /\ nextSet
        BY <3>2, Zenon DEF TypeOK
      <4>2. nextBps = wantedBps' /\ nextFps = wantedFps'
        BY <3>2, Zenon
      <4> QED
        BY <3>2, <4>1, <4>2, ReconfigureCloses DEF TypeOK
    <3>6. RequestKept' /\ ElapsedBehindBuild'
      BY <3>2, <3>3, ReconfigureFacts DEF RequestKept
    <3> QED
      BY <3>4, <3>5, <3>6
  <2>5. CASE Tick
    <3>1. TypeOK'
      BY <2>5 DEF Tick, TypeOK, rateVars, ghostVars
    <3>2. RatesOffOnlyIfStale' /\ RequestKept'
      BY <2>5 DEF Tick, RatesOffOnlyIfStale, RatesNearRequested, RequestKept,
         rateVars, ghostVars
    <3>3. ElapsedBehindBuild'
      BY <2>5 DEF Tick, ElapsedBehindBuild, TypeOK
    <3> QED
      BY <3>1, <3>2, <3>3
  <2>6. CASE UNCHANGED vars
    BY <2>6 DEF vars, rateVars, ghostVars, TypeOK, RatesOffOnlyIfStale,
       RatesNearRequested, RequestKept, ElapsedBehindBuild
  <2> QED
    BY <2>1, <2>2, <2>3, <2>4, <2>5, <2>6 DEF Next
<1> QED
  BY <1>1, <1>2, PTL DEF Spec

\* Every variable keeps its type.  A frame rate of 0, or any rate nobody asked
\* for, is in use only after Encode applied next_ rates that were never
\* assigned, and it is gone with the next InitEncode.
THEOREM TypeCorrect == Spec => []TypeOK
  BY Inductive, PTL DEF IInv

\* Rates that are off by more than kMinRateVariation come from next_ rates that
\* were never assigned, from a request that SetRates or InitEncode left
\* pending, or from the next_ rates of a request that was dealt with before.
THEOREM RatesFollowRequests == Spec => []RatesOffOnlyIfStale
  BY Inductive, PTL DEF IInv

\* The last request is in force or about to be applied, never forgotten.
THEOREM RequestNotLost == Spec => []RequestKept
  BY Inductive, PTL DEF IInv

\* ReconfigureSinkWriter changes a rate, at the same frame size, only when
\* kMinIntervalBetweenRateChangesMs has passed since the writer was begun.
THEOREM ChangesSpaced == Spec => RateChangesSpaced
<1> DEFINE RateStep ==
      (writer = "begun" /\ resolution' = resolution /\ <<bps, fps>>' # <<bps, fps>>)
        => sinceBuild >= MinInterval
<1>1. IInv /\ [Next]_vars => [RateStep]_vars
  <2> SUFFICES ASSUME IInv, Next,
                      writer = "begun", resolution' = resolution,
                      <<bps, fps>>' # <<bps, fps>>
               PROVE  sinceBuild >= MinInterval
    OBVIOUS
  <2>1. elapsed >= MinInterval => sinceBuild >= MinInterval
    BY RateAssumption DEF IInv, TypeOK, Saturated, ElapsedBehindBuild
  <2>2. CASE \E b \in Bitrates, f \in FrameRates \cup {0} : SetRates(b, f)
    BY <2>1, <2>2, RateAssumption DEF SetRates, IInv, TypeOK, Saturated
  <2>3. CASE \E r \in Resolutions : EncodeReconfigure(r)
    BY <2>1, <2>3, RateAssumption DEF EncodeReconfigure, ReconfigureSinkWriter,
       ShouldChangeRateNow, IInv, TypeOK, Saturated
  <2>4. ~InitEncode /\ ~Release /\ ~Tick
    BY DEF InitEncode, Release, Tick, rateVars
  <2> QED
    BY <2>2, <2>3, <2>4 DEF Next
<1>2. Spec => [][RateStep]_vars
  BY <1>1, Inductive, PTL DEF Spec
<1> QED
  BY <1>2 DEF RateChangesSpaced
=============================================================================
