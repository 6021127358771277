-------------------- MODULE AudioDeviceWindowsCoreProofs --------------------
(***************************************************************************)
(* Proofs about the audio device, for any number of sides and threads: who *)
(* holds the lock, whose thread is whose, what Playing() and Recording()   *)
(* may be relied on for, and what can crash.                               *)
(***************************************************************************)
EXTENDS AudioDeviceWindowsCore, FiniteSetTheorems, TLAPS

Places == {"starting", "waiting", "ready", "inside", "stopping", "failing", "ended"}

\* The API call that waits, by its side.
Starting(s) == api.pc = "startWait" /\ api.side = s
Stopping(s) == api.pc = "stopWait" /\ api.side = s

\* NoCall is idle and has a side.
LEMMA NoCallFacts == NoCall.pc = "idle" /\ NoCall.side \in Sides
<1>1. \E s \in Sides : TRUE
  BY AudioAssumption
<1>2. QED
  BY <1>1 DEF NoCall

\* A step of a thread that finds what it needs.
Moves(t) == Transport(t) /\ crashed' = crashed

\* The other steps of threads use a client that InitMixer has lost.
LEMMA TransportCases ==
  ASSUME NEW t \in Threads, Transport(t)
  PROVE  Moves(t) \/ UsesLostClient(t)
  BY DEF Transport, TakesLock, Runs, Moves, TransportStarts, TransportFails,
     SeesShutdown, SamplesReady, WaitTimesOut, EntersLock, MovesPacket, FindsNothing,
     PacketFails, TransportEnds, CleansUp

\* What a step of a thread leaves alone, and what it may do at all: it moves
\* only itself, starts or stops the stream of its side, may set the started
\* event of its side and may clear its shutdown event.
LEMMA TransportFrame ==
  ASSUME NEW t \in Threads, Moves(t)
  PROVE  /\ UNCHANGED <<initialized, device, mixer, client, ready, stale, mixerFailed>>
         /\ UNCHANGED <<transporting, hThread, api, threads, sideOf, crashed>>
         /\ UNCHANGED <<timedOut, abandoned, told>>
         /\ ~crashed /\ Live(t)
         /\ \E w \in Places : at' = [at EXCEPT ![t] = w]
<1> USE DEF AtPlace, Goes, Places, Live, setupVars, callVars, eventVars, ghostVars
<1>1. CASE TransportStarts(t)
  BY <1>1 DEF TransportStarts
<1>2. CASE TransportFails(t)
  BY <1>2 DEF TransportFails
<1>3. CASE SeesShutdown(t) \/ SamplesReady(t) \/ WaitTimesOut(t)
  BY <1>3 DEF SeesShutdown, SamplesReady, WaitTimesOut
<1>4. CASE EntersLock(t) \/ MovesPacket(t) \/ FindsNothing(t)
  BY <1>4 DEF EntersLock, MovesPacket, FindsNothing
<1>5. CASE PacketFails(t) \/ TransportEnds(t) \/ CleansUp(t)
  BY <1>5 DEF PacketFails, TransportEnds, CleansUp
<1>6. ~UsesLostClient(t)
  BY DEF Moves, UsesLostClient, AtPlace
<1>7. QED
  BY <1>1, <1>2, <1>3, <1>4, <1>5, <1>6 DEF Moves, Transport, TakesLock, Runs

\* The rest of a thread's step: the events and the streams, of its own side.
LEMMA TransportEffect ==
  ASSUME NEW t \in Threads, Moves(t)
  PROVE  /\ shutdownEvent' \subseteq shutdownEvent
         /\ startedEvent' \in {startedEvent, startedEvent \cup {sideOf[t]}}
         /\ streaming' \in {streaming, streaming \cup {sideOf[t]}, streaming \ {sideOf[t]}}
         /\ robbed' \subseteq robbed \cup told
         /\ failures' = failures \/ Failure
<1> USE DEF eventVars, ghostVars
<1>1. CASE TransportStarts(t)
  BY <1>1 DEF TransportStarts
<1>2. CASE TransportFails(t)
  BY <1>2 DEF TransportFails
<1>3. CASE SeesShutdown(t) \/ SamplesReady(t) \/ WaitTimesOut(t)
  BY <1>3 DEF SeesShutdown, SamplesReady, WaitTimesOut, Unaware
<1>4. CASE EntersLock(t) \/ MovesPacket(t) \/ FindsNothing(t)
  BY <1>4 DEF EntersLock, MovesPacket, FindsNothing
<1>5. CASE PacketFails(t) \/ TransportEnds(t) \/ CleansUp(t)
  BY <1>5 DEF PacketFails, TransportEnds, CleansUp
<1>6. ~UsesLostClient(t)
  BY DEF Moves, UsesLostClient, AtPlace
<1>7. QED
  BY <1>1, <1>2, <1>3, <1>4, <1>5, <1>6 DEF Moves, Transport, TakesLock, Runs

\* A thread that uses a lost client changes nothing else any more.
LEMMA LostClientFrame ==
  ASSUME NEW t \in Threads, UsesLostClient(t)
  PROVE  /\ UNCHANGED <<initialized, device, mixer, client, ready, stale, mixerFailed>>
         /\ UNCHANGED <<transporting, hThread, api, threads, sideOf, at, streaming>>
         /\ UNCHANGED <<shutdownEvent, startedEvent, failures>>
         /\ UNCHANGED <<timedOut, abandoned, told, robbed>>
         /\ crashed' = TRUE /\ Live(t) /\ sideOf[t] \notin client
  BY DEF UsesLostClient, AtPlace, Live, setupVars, eventVars, callVars, threadVars,
     ghostVars

\* The calls that only prepare a side, up to the wait for its activation.
Preparing(s) == SetDevice(s) \/ InitMixer(s) \/ InitTransport(s)

\* What they leave alone; a wait that begins is for a side that neither
\* transports nor has a mixer.
LEMMA PreparingFrame ==
  ASSUME NEW s \in Sides, Preparing(s)
  PROVE  /\ UNCHANGED <<initialized, shutdownEvent, startedEvent, transporting>>
         /\ UNCHANGED <<hThread, threads, sideOf, at, streaming, stale>>
         /\ UNCHANGED <<mixer, client>>
         /\ UNCHANGED <<timedOut, abandoned, told, robbed>>
         /\ Call
         /\ failures' = failures \/ Failure
         /\ \/ api' = api
            \/ /\ api'.pc \in Activating /\ api'.side = s
               /\ s \notin transporting /\ s \notin mixer
<1> USE DEF eventVars, callVars, threadVars, ghostVars
<1>1. CASE SetDevice(s)
  BY <1>1 DEF SetDevice
<1>2. CASE InitMixer(s)
  BY <1>2 DEF InitMixer, MixerRefused, MixerWaits, Activating
<1>3. CASE InitTransport(s)
  BY <1>3 DEF InitTransport, MixerRefused, MixerWaits, Activating
<1>4. QED
  BY <1>1, <1>2, <1>3 DEF Preparing

\* InitTransport uses the client, and prepares no side without one.
LEMMA ClientUsedEffect ==
  ASSUME NEW s \in Sides, ClientUsed(s)
  PROVE  /\ crashed' \in BOOLEAN /\ (crashed' => s \notin client')
         /\ ready \subseteq ready' /\ ready' \subseteq ready \cup {s}
         /\ s \in ready' => s \in ready \/ s \in client'
<1>1. crashed' = (s \in device' \ client')
  BY DEF ClientUsed
<1>2. crashed' \in BOOLEAN
  BY <1>1, SMT
<1>3. crashed' => s \notin client'
  BY <1>1, Zenon
<1>4. QED
  BY <1>2, <1>3 DEF ClientUsed

\* The preparing calls as a whole; only InitTransport can use a null client.
LEMMA PreparingEffect ==
  ASSUME NEW s \in Sides, Preparing(s), crashed \in BOOLEAN
  PROVE  /\ device' \subseteq device \cup {s}
         /\ ready \subseteq ready' /\ ready' \subseteq ready \cup {s}
         /\ s \in ready' => s \in ready \/ s \in client
         /\ mixerFailed \subseteq mixerFailed' /\ mixerFailed' \subseteq mixerFailed \cup {s}
         /\ crashed' \in BOOLEAN
         /\ crashed' => mixerFailed' # {} \/ s \in mixer \ client
<1>1. CASE SetDevice(s)
  BY <1>1 DEF SetDevice, Call
<1>2. CASE InitMixer(s)
  BY <1>2 DEF InitMixer, MixerRefused, MixerWaits, Call
<1>3. CASE InitTransport(s)
  <2>1. UNCHANGED client /\ ~crashed
    BY <1>3 DEF InitTransport, MixerRefused, MixerWaits, Call
  <2>2. /\ device' \subseteq device
        /\ mixerFailed \subseteq mixerFailed' /\ mixerFailed' \subseteq mixerFailed \cup {s}
    BY <1>3 DEF InitTransport, MixerRefused, MixerWaits
  <2>3. CASE s \in mixer /\ ClientUsed(s)
    BY <2>1, <2>2, <2>3, ClientUsedEffect
  <2>4. CASE MixerRefused(s) /\ ClientUsed(s)
    <3>1. mixerFailed' # {}
      BY <2>4 DEF MixerRefused
    <3>2. QED
      BY <2>1, <2>2, <2>4, <3>1, ClientUsedEffect
  <2>5. CASE UNCHANGED <<ready, crashed>>
    BY <2>1, <2>2, <2>5
  <2>6. QED
    BY <1>3, <2>3, <2>4, <2>5 DEF InitTransport
<1>4. QED
  BY <1>1, <1>2, <1>3 DEF Preparing

\* What the end of an activation leaves alone.
LEMMA ActivationFrame ==
  ASSUME Activation
  PROVE  /\ UNCHANGED <<initialized, device, shutdownEvent, startedEvent>>
         /\ UNCHANGED <<transporting, hThread, threads, sideOf, at>>
         /\ UNCHANGED <<timedOut, abandoned, told, robbed>>
         /\ api.pc \in Activating /\ ~crashed /\ api' = NoCall
         /\ failures' = failures \/ Failure
<1>1. Activated(api.side) /\ api.pc \in Activating /\ ~crashed
  BY DEF Activation, InitMixerEnds, InitTransportEnds, Activating
<1>2. QED
  BY <1>1 DEF Activated, eventVars, ghostVars

\* InitMixer ends with a client and a mixer, or with a failure; it touches only
\* its own side.
LEMMA ActivatedEffect ==
  ASSUME NEW s \in Sides, Activated(s)
  PROVE  /\ mixer' \subseteq mixer \cup {s} /\ client' \subseteq client \cup {s}
         /\ client \subseteq client' \cup {s}
         /\ stale' \subseteq stale \cup {s}
         /\ streaming' \subseteq streaming /\ streaming \subseteq streaming' \cup {s}
         /\ mixerFailed \subseteq mixerFailed' /\ mixerFailed' \subseteq mixerFailed \cup {s}
         /\ s \in client' \/ s \in mixerFailed'
         /\ s \in mixer' => s \in mixer \/ s \in client'
<1>1. CASE mixer' = mixer \cup {s} /\ ReplacesClient(s) /\ s \in client' /\ UNCHANGED mixerFailed
  BY <1>1 DEF ReplacesClient
<1>2. CASE mixerFailed' = mixerFailed \cup {s} /\ UNCHANGED mixer /\ ReplacesClient(s)
  BY <1>2 DEF ReplacesClient
<1>3. CASE mixerFailed' = mixerFailed \cup {s} /\ UNCHANGED <<mixer, client, stale, streaming>>
  BY <1>3
<1>4. QED
  BY <1>1, <1>2, <1>3 DEF Activated

\* The end of an activation as a whole; only InitTransport goes on and uses the
\* client.
LEMMA ActivationEffect ==
  ASSUME Activation, api.side \in Sides, crashed \in BOOLEAN
  PROVE  /\ Activated(api.side)
         /\ ready \subseteq ready' /\ ready' \subseteq ready \cup {api.side}
         /\ api.side \in ready' => api.side \in ready \/ api.side \in client'
         /\ crashed' \in BOOLEAN /\ (crashed' => api.side \notin client')
<1>1. CASE InitMixerEnds
  BY <1>1 DEF InitMixerEnds
<1>2. CASE InitTransportEnds
  BY <1>2, ClientUsedEffect DEF InitTransportEnds
<1>3. QED
  BY <1>1, <1>2 DEF Activation

-----------------------------------------------------------------------------
(* Types and the lock.                                                     *)

SetType ==
  /\ initialized \in BOOLEAN /\ crashed \in BOOLEAN /\ failures \in 0 .. MaxFailures
  /\ device \subseteq Sides /\ mixer \subseteq Sides /\ client \subseteq Sides
  /\ ready \subseteq Sides /\ stale \subseteq Sides /\ transporting \subseteq Sides
  /\ shutdownEvent \subseteq Sides /\ startedEvent \subseteq Sides
  /\ streaming \subseteq Sides /\ timedOut \subseteq Sides /\ mixerFailed \subseteq Sides

ThreadType ==
  /\ hThread \in [Sides -> 0 .. threads]
  /\ api.pc \in {"idle", "startWait", "stopWait"} \cup Activating /\ api.side \in Sides
  /\ api.pc \in {"startWait", "stopWait"} => hThread[api.side] # 0
  /\ threads \in 0 .. MaxThreads
  /\ sideOf \in [Threads -> Sides]
  /\ at \in [Threads -> Places]
  /\ abandoned \subseteq 1 .. threads /\ told \subseteq 1 .. threads
  /\ robbed \subseteq 1 .. threads

\* _critSect has one holder: a thread with a packet, or the API call that waits.
LockInv ==
  /\ \A t, u \in Threads : at[t] = "inside" /\ at[u] = "inside" => t = u
  /\ api.pc # "idle" => \A t \in Threads : at[t] # "inside"

TypeInv == SetType /\ ThreadType /\ LockInv

\* TypeOK counts the holders.
LEMMA TypeParts == TypeInv => TypeOK
<1> SUFFICES ASSUME TypeInv PROVE TypeOK
  OBVIOUS
<1> DEFINE Inside == {t \in Threads : at[t] = "inside"}
<1>1. CASE Inside = {}
  <2>1. Cardinality(Inside) = 0
    BY <1>1, FS_EmptySet
  <2>2. Cardinality(Inside) + (IF api.pc = "idle" THEN 0 ELSE 1) <= 1
    BY <2>1
  <2>3. QED
    BY <2>2 DEF TypeInv, SetType, ThreadType, TypeOK, Places
<1>2. CASE Inside # {}
  <2>1. PICK t \in Threads : at[t] = "inside"
    BY <1>2
  <2>2. Inside = {t}
    BY <2>1 DEF TypeInv, LockInv
  <2>3. Cardinality(Inside) = 1
    BY <2>2, FS_Singleton
  <2>4. api.pc = "idle"
    BY <2>1 DEF TypeInv, LockInv
  <2>5. Cardinality(Inside) + (IF api.pc = "idle" THEN 0 ELSE 1) <= 1
    BY <2>3, <2>4
  <2>6. QED
    BY <2>5 DEF TypeInv, SetType, ThreadType, TypeOK, Places
<1>3. QED
  BY <1>1, <1>2

\* Initially every variable has its type and nobody holds the lock.
LEMMA TypeInitial == Init => TypeInv
<1> SUFFICES ASSUME Init PROVE TypeInv
  OBVIOUS
<1>1. SetType
  <2>1. initialized \in BOOLEAN /\ crashed \in BOOLEAN
    BY DEF Init
  <2>2. failures \in 0 .. MaxFailures
    BY AudioAssumption DEF Init
  <2>3. QED
    BY <2>1, <2>2 DEF Init, SetType
<1>2. api.pc = "idle" /\ api.side \in Sides
  BY NoCallFacts DEF Init
<1>3. ThreadType
  BY <1>2, NoCallFacts, AudioAssumption DEF Init, ThreadType, Places
<1>4. LockInv
  BY <1>2 DEF Init, LockInv
<1>5. QED
  BY <1>1, <1>3, <1>4 DEF TypeInv

\* The preparing calls change sets of sides, and may wait with the lock held.
LEMMA PreparingKeepsType ==
  ASSUME TypeInv, NEW s \in Sides, Preparing(s) PROVE TypeInv'
<1>1. SetType'
  <2>1. failures' \in 0 .. MaxFailures
    BY PreparingFrame, AudioAssumption DEF TypeInv, SetType, Failure
  <2>2. QED
    BY <2>1, PreparingFrame, PreparingEffect DEF TypeInv, SetType
<1>2. /\ api'.pc \in {"idle"} \cup Activating /\ api'.side \in Sides
      /\ \A t \in Threads : at[t] # "inside"
  BY PreparingFrame DEF Call, LockFree, TypeInv, ThreadType
<1>3. ThreadType'
  BY <1>2, PreparingFrame DEF TypeInv, ThreadType, Activating
<1>4. LockInv'
  BY <1>2, PreparingFrame DEF TypeInv, LockInv
<1>5. QED
  BY <1>1, <1>3, <1>4 DEF TypeInv

\* The end of an activation gives the lock back.
LEMMA ActivationKeepsType == ASSUME TypeInv, Activation PROVE TypeInv'
<1>0. api.side \in Sides /\ crashed \in BOOLEAN
  BY DEF TypeInv, SetType, ThreadType
<1>1. SetType'
  <2>1. failures' \in 0 .. MaxFailures
    BY ActivationFrame, AudioAssumption DEF TypeInv, SetType, Failure
  <2>2. QED
    BY <1>0, <2>1, ActivationFrame, ActivationEffect, ActivatedEffect DEF TypeInv, SetType
<1>2. api'.pc = "idle" /\ api'.side \in Sides
  BY ActivationFrame, NoCallFacts
<1>3. ThreadType'
  BY <1>2, ActivationFrame DEF TypeInv, ThreadType
<1>4. LockInv'
  BY <1>2, ActivationFrame DEF TypeInv, LockInv
<1>5. QED
  BY <1>1, <1>3, <1>4 DEF TypeInv

\* StartTransport creates a thread and waits with the lock held.
LEMMA StartTransportKeepsType ==
  ASSUME TypeInv, NEW s \in Sides, StartTransport(s) PROVE TypeInv'
<1>1. SetType'
  BY DEF StartTransport, setupVars, eventVars, ghostVars, TypeInv, SetType
<1>2. threads + 1 \in Threads /\ threads' = threads + 1 /\ threads' \in 0 .. MaxThreads
  BY AudioAssumption DEF StartTransport, Threads, TypeInv, ThreadType
<1>3. api'.pc = "startWait" /\ api'.side = s
  BY DEF StartTransport
<1>4. hThread' \in [Sides -> 0 .. threads'] /\ hThread'[s] # 0
  BY <1>2 DEF StartTransport, TypeInv, ThreadType
<1>5. sideOf' \in [Threads -> Sides] /\ at' \in [Threads -> Places]
  BY <1>2 DEF StartTransport, TypeInv, ThreadType, Places
<1>6. abandoned' \subseteq 1 .. threads' /\ told' \subseteq 1 .. threads'
      /\ robbed' \subseteq 1 .. threads'
  BY <1>2 DEF StartTransport, ghostVars, TypeInv, ThreadType
<1>7. ThreadType'
  BY <1>2, <1>3, <1>4, <1>5, <1>6 DEF ThreadType
<1>8. LockInv'
  BY <1>2 DEF StartTransport, Call, LockFree, TypeInv, ThreadType, LockInv
<1>9. QED
  BY <1>1, <1>7, <1>8 DEF TypeInv

\* The waits of the API, and StopTransport, which begins one.
Waiting == Waits \/ \E s \in Sides : StopTransport(s)

\* What they leave alone: nothing moves but the call and its bookkeeping.
LEMMA WaitingFrame ==
  ASSUME TypeInv, Waiting
  PROVE  /\ UNCHANGED <<initialized, device, mixer, client, ready, stale, mixerFailed>>
         /\ UNCHANGED <<threads, sideOf, at, streaming, failures, crashed>>
         /\ startedEvent' \subseteq startedEvent
         /\ shutdownEvent' \subseteq shutdownEvent \cup {api'.side, api.side}
         /\ transporting' \subseteq transporting \cup {api.side}
         /\ timedOut \subseteq timedOut' /\ timedOut' \subseteq timedOut \cup {api.side}
         /\ abandoned \subseteq abandoned' /\ robbed' \subseteq robbed \cup told
         /\ api'.side \in Sides
<1> USE DEF setupVars, eventVars, threadVars, ghostVars
<1>0. api.side \in Sides
  BY DEF TypeInv, ThreadType
<1>1. CASE StartSucceeds
  BY <1>1, NoCallFacts DEF StartSucceeds
<1>2. CASE StartTimesOut
  BY <1>0, <1>2 DEF StartTimesOut, StopThread
<1>3. CASE StopSucceeds
  BY <1>3, NoCallFacts DEF StopSucceeds, Unaware
<1>4. CASE StopTimesOut
  BY <1>4, NoCallFacts DEF StopTimesOut
<1>5. CASE \E s \in Sides : StopTransport(s)
  BY <1>5 DEF StopTransport, StopThread
<1>6. QED
  BY <1>1, <1>2, <1>3, <1>4, <1>5 DEF Waiting, Waits
\* A wait that begins or ends: the lock stays with the call or is given back.
LEMMA WaitingKeepsType == ASSUME TypeInv, Waiting PROVE TypeInv'
<1>0. api.side \in Sides /\ hThread \in [Sides -> 0 .. threads] /\ threads \in Nat
      /\ told \subseteq 1 .. threads /\ abandoned \subseteq 1 .. threads
  BY DEF TypeInv, ThreadType
<1>1. SetType'
  BY <1>0, WaitingFrame DEF TypeInv, SetType
<1>2. api'.pc \in {"idle", "stopWait"} /\ api'.side \in Sides /\ hThread' \in [Sides -> 0 .. threads]
      /\ told' \subseteq 1 .. threads /\ abandoned' \subseteq 1 .. threads
      /\ (api'.pc = "stopWait" => hThread'[api'.side] # 0)
  <2>1. CASE StartSucceeds
    BY <1>0, <2>1, NoCallFacts DEF StartSucceeds, ghostVars
  <2>2. CASE StartTimesOut
    <3>1. hThread[api.side] \in 1 .. threads
      BY <1>0, <2>2 DEF StartTimesOut, TypeInv, ThreadType
    <3>2. told' \subseteq 1 .. threads
      BY <1>0, <2>2, <3>1 DEF StartTimesOut, StopThread
    <3>3. QED
      BY <1>0, <2>2, <3>1, <3>2 DEF StartTimesOut, StopThread
  <2>3. CASE StopSucceeds
    BY <1>0, <2>3, NoCallFacts DEF StopSucceeds
  <2>4. CASE StopTimesOut
    <3>1. hThread[api.side] \in 1 .. threads
      BY <1>0, <2>4 DEF StopTimesOut, TypeInv, ThreadType
    <3>2. abandoned' \subseteq 1 .. threads
      BY <1>0, <2>4, <3>1 DEF StopTimesOut
    <3>3. QED
      BY <1>0, <2>4, <3>1, <3>2, NoCallFacts DEF StopTimesOut
  <2>5. CASE \E s \in Sides : StopTransport(s)
    <3>1. PICK s \in Sides : StopTransport(s)
      BY <2>5
    <3>2. hThread[s] \in 1 .. threads
      BY <1>0, <3>1 DEF StopTransport
    <3>3. QED
      BY <1>0, <3>1, <3>2 DEF StopTransport, StopThread
  <2>6. QED
    BY <2>1, <2>2, <2>3, <2>4, <2>5 DEF Waiting, Waits
<1>3. ThreadType'
  BY <1>2, WaitingFrame DEF TypeInv, ThreadType
<1>4. api.pc # "idle" \/ \A t \in Threads : at[t] # "inside"
  BY DEF Waiting, Waits, StartSucceeds, StartTimesOut, StopSucceeds, StopTimesOut,
     StopTransport, Call, LockFree
<1>5. LockInv'
  BY <1>4, WaitingFrame DEF TypeInv, LockInv
<1>6. QED
  BY <1>1, <1>3, <1>5 DEF TypeInv

\* Terminate only deletes the helpers.
LEMMA TerminateKeepsType == ASSUME TypeInv, Terminate PROVE TypeInv'
<1>1. SetType'
  <2>1. initialized' \in BOOLEAN
    BY DEF Terminate
  <2>2. crashed' \in BOOLEAN
    BY DEF Terminate
  <2>3. QED
    BY <2>1, <2>2 DEF Terminate, eventVars, callVars, threadVars, ghostVars, TypeInv, SetType
<1>2. ThreadType' /\ LockInv'
  BY DEF Terminate, callVars, threadVars, ghostVars, TypeInv, ThreadType, LockInv
<1>3. QED
  BY <1>1, <1>2 DEF TypeInv

\* A thread takes the lock only when it is free.
LEMMA MovesKeepsType ==
  ASSUME TypeInv, NEW t \in Threads, Moves(t) PROVE TypeInv'
<1>0. sideOf[t] \in Sides /\ at \in [Threads -> Places] /\ api.side \in Sides
  BY DEF TypeInv, ThreadType
<1>1. SetType'
  <2>1. failures' \in 0 .. MaxFailures
    BY TransportEffect, AudioAssumption DEF TypeInv, SetType, Failure
  <2>2. QED
    BY <1>0, <2>1, TransportFrame, TransportEffect DEF TypeInv, SetType
<1>2. PICK w \in Places : at' = [at EXCEPT ![t] = w]
  BY TransportFrame
<1>3. ThreadType'
  <2>1. at' \in [Threads -> Places]
    BY <1>0, <1>2
  <2>2. robbed' \subseteq 1 .. threads
    BY TransportEffect DEF TypeInv, ThreadType
  <2>3. QED
    BY <2>1, <2>2, TransportFrame DEF TypeInv, ThreadType
<1>4. w = "inside" => LockFree
  <2>1. CASE EntersLock(t)
    BY <2>1 DEF EntersLock
  <2>2. CASE ~EntersLock(t)
    BY <1>0, <1>2, <2>2 DEF Moves, Transport, TakesLock, Runs, TransportStarts,
       TransportFails, UsesLostClient, AtPlace, SeesShutdown, SamplesReady, WaitTimesOut,
       MovesPacket, FindsNothing, PacketFails, TransportEnds, CleansUp, Goes
  <2>3. QED
    BY <2>1, <2>2
<1>5. LockInv'
  <2>1. UNCHANGED api
    BY TransportFrame
  <2>2. QED
    BY <1>0, <1>2, <1>4, <2>1 DEF LockFree, TypeInv, LockInv
<1>6. QED
  BY <1>1, <1>3, <1>5 DEF TypeInv

\* So does a thread that uses a lost client.
LEMMA TransportKeepsType ==
  ASSUME TypeInv, NEW t \in Threads, Transport(t) PROVE TypeInv'
<1>1. CASE UsesLostClient(t)
  <2>1. SetType'
    BY <1>1, LostClientFrame DEF TypeInv, SetType
  <2>2. ThreadType' /\ LockInv'
    BY <1>1, LostClientFrame DEF TypeInv, ThreadType, LockInv
  <2>3. QED
    BY <2>1, <2>2 DEF TypeInv
<1>2. QED
  BY <1>1, MovesKeepsType, TransportCases

\* Every step keeps the types and the lock.
LEMMA TypeInductive == TypeInv /\ [Next]_vars => TypeInv'
<1> SUFFICES ASSUME TypeInv, [Next]_vars PROVE TypeInv'
  OBVIOUS
<1>1. CASE UNCHANGED vars
  BY <1>1 DEF vars, setupVars, eventVars, callVars, threadVars, ghostVars,
     TypeInv, SetType, ThreadType, LockInv
<1>2. QED
  BY <1>1, PreparingKeepsType, ActivationKeepsType, StartTransportKeepsType, WaitingKeepsType,
     TerminateKeepsType, TransportKeepsType DEF Next, Preparing, Waiting

\* Every variable keeps its type, and _critSect is never held twice: no thread
\* moves a packet while another does or while an API call waits.
THEOREM TypeCorrect == Spec => []TypeOK
  BY TypeInitial, TypeInductive, TypeParts, PTL DEF Spec
-----------------------------------------------------------------------------
(* Whose thread is whose, and what can crash.                              *)

\* The handle of a side is one of its own threads, and only while the side is
\* transporting or about to be; a live thread is the one its side has the
\* handle of, unless StopTransport gave it up, which takes a timeout on that
\* side.  Threads that were not created do not live, the others are of prepared
\* sides.  A side that is activated neither transports nor has a mixer.
OwnInv ==
  /\ \A s \in Sides : hThread[s] # 0 =>
       sideOf[hThread[s]] = s /\ (s \in transporting \/ Starting(s))
  /\ \A t \in Threads \ abandoned : Live(t) => hThread[sideOf[t]] = t
  /\ \A t \in abandoned : sideOf[t] \in timedOut
  /\ \A t \in Threads : t > threads => ~Live(t)
  /\ \A t \in Threads : t <= threads => sideOf[t] \in ready
  /\ api.pc \in Activating => api.side \notin transporting \cup mixer

\* A mixer has its client; a prepared side may have lost it again.
CrashInv ==
  /\ mixer \subseteq client
  /\ ready \subseteq client \cup mixerFailed
  /\ CrashesExplained

\* Initially there is no thread.
LEMMA OwnInitial == Init => OwnInv /\ CrashInv
  BY NoCallFacts, AudioAssumption DEF Init, OwnInv, CrashInv, CrashesExplained, Live,
     Activating, Threads

\* The preparing calls touch no thread; a null client means a failed InitMixer.
LEMMA PreparingKeepsOwn ==
  ASSUME TypeInv, OwnInv, CrashInv, NEW s \in Sides, Preparing(s)
  PROVE  OwnInv' /\ CrashInv'
<1>1. crashed \in BOOLEAN /\ ~crashed /\ api.pc = "idle"
  BY PreparingFrame DEF TypeInv, SetType, Call, LockFree
<1>2. OwnInv'
  BY <1>1, PreparingFrame, PreparingEffect DEF OwnInv, Live, Starting, Activating
<1>3. mixer' \subseteq client' /\ ready' \subseteq client' \cup mixerFailed'
  BY <1>1, PreparingFrame, PreparingEffect DEF CrashInv
<1>4. crashed' => mixerFailed' # {}
  BY <1>1, PreparingEffect DEF CrashInv
<1>5. QED
  BY <1>2, <1>3, <1>4 DEF CrashInv, CrashesExplained

\* InitMixer loses a client only by a failure, and only where no mixer is up.
LEMMA ActivationKeepsOwn ==
  ASSUME TypeInv, OwnInv, CrashInv, Activation PROVE OwnInv' /\ CrashInv'
<1>0. api.side \in Sides /\ crashed \in BOOLEAN /\ api.side \notin mixer
  BY ActivationFrame DEF TypeInv, SetType, ThreadType, OwnInv
<1>1. Activated(api.side)
  BY <1>0, ActivationEffect
<1>2. api.pc \in Activating /\ api'.pc = "idle"
  BY ActivationFrame, NoCallFacts
<1>3. OwnInv'
  BY <1>0, <1>2, ActivationFrame, ActivationEffect DEF OwnInv, Live, Starting, Activating
<1>4. mixer' \subseteq client'
  BY <1>0, <1>1, ActivatedEffect DEF CrashInv
<1>5. ready' \subseteq client' \cup mixerFailed'
  BY <1>0, <1>1, ActivatedEffect, ActivationEffect DEF CrashInv
<1>6. crashed' => mixerFailed' # {}
  BY <1>0, <1>1, ActivatedEffect, ActivationEffect
<1>7. QED
  BY <1>3, <1>4, <1>5, <1>6 DEF CrashInv, CrashesExplained

\* StartTransport finds no handle on its side, hence no thread it would forget.
LEMMA StartTransportKeepsOwn ==
  ASSUME TypeInv, OwnInv, CrashInv, NEW s \in Sides, StartTransport(s)
  PROVE  OwnInv' /\ CrashInv'
<1> DEFINE n == threads + 1
<1>1. /\ n \in Threads /\ threads \in Nat /\ threads' = n
      /\ sideOf \in [Threads -> Sides] /\ at \in [Threads -> Places]
      /\ hThread \in [Sides -> 0 .. threads]
      /\ abandoned \subseteq 1 .. threads
  BY AudioAssumption DEF StartTransport, Threads, TypeInv, ThreadType
<1>2. /\ hThread' = [hThread EXCEPT ![s] = n] /\ sideOf' = [sideOf EXCEPT ![n] = s]
      /\ at' = [at EXCEPT ![n] = "starting"] /\ api'.pc = "startWait" /\ api'.side = s
      /\ hThread[s] = 0 /\ s \in ready
      /\ UNCHANGED <<transporting, timedOut, abandoned, mixer, client, ready, crashed, mixerFailed>>
  BY DEF StartTransport, setupVars, ghostVars
<1>3. ~crashed /\ api.pc = "idle"
  BY DEF StartTransport, Call, LockFree
<1>4. n \notin abandoned /\ \A r \in Sides : hThread[r] # n
  BY <1>1
<1> HIDE DEF n
<1>5. \A r \in Sides : hThread'[r] # 0 =>
        sideOf'[hThread'[r]] = r /\ (r \in transporting' \/ Starting(r)')
  <2> TAKE r \in Sides
  <2>1. CASE r = s
    BY <1>1, <1>2, <2>1 DEF Starting
  <2>2. CASE r # s
    <3>1. hThread'[r] = hThread[r] /\ hThread[r] # n
      BY <1>1, <1>2, <1>4, <2>2
    <3>2. hThread[r] # 0 => hThread[r] \in Threads
      BY <1>1, AudioAssumption DEF n, Threads
    <3>3. QED
      BY <1>1, <1>2, <1>3, <3>1, <3>2 DEF OwnInv, Starting
  <2>3. QED
    BY <2>1, <2>2
<1>6. \A t \in Threads \ abandoned' : Live(t)' => hThread'[sideOf'[t]] = t
  <2> TAKE t \in Threads \ abandoned'
  <2>1. CASE t = n
    BY <1>1, <1>2, <2>1
  <2>2. CASE t # n
    <3>1. at'[t] = at[t] /\ sideOf'[t] = sideOf[t] /\ sideOf[t] \in Sides
      BY <1>1, <1>2, <2>2
    <3>2. Live(t) => hThread[sideOf[t]] = t
      BY <1>2 DEF OwnInv
    <3>3. t # 0
      BY DEF Threads
    <3>4. QED
      BY <1>1, <1>2, <3>1, <3>2, <3>3 DEF Live
  <2>3. QED
    BY <2>1, <2>2
<1>7. \A t \in abandoned' : sideOf'[t] \in timedOut'
  <2>1. \A t \in abandoned : t \in Threads
    BY <1>1, AudioAssumption DEF Threads, n
  <2>2. QED
    BY <1>1, <1>2, <1>4, <2>1 DEF OwnInv
<1>8. \A t \in Threads : t > threads' => ~Live(t)'
  <2>1. \A t \in Threads : t > threads' => t # n /\ t > threads
    BY <1>1 DEF Threads, n
  <2>2. QED
    BY <1>1, <1>2, <2>1 DEF OwnInv, Live
<1>9. CrashInv'
  BY <1>2, <1>3 DEF CrashInv, CrashesExplained
<1>10. \A t \in Threads : t <= threads' => sideOf'[t] \in ready'
  <2>1. \A t \in Threads : t <= threads' => t = n \/ t <= threads
    BY <1>1 DEF Threads, n
  <2>2. QED
    BY <1>1, <1>2, <2>1 DEF OwnInv
<1>11. api'.pc \notin Activating
  BY <1>2 DEF Activating
<1>12. QED
  BY <1>5, <1>6, <1>7, <1>8, <1>9, <1>10, <1>11 DEF OwnInv

\* StopTransport forgets a handle when the thread has ended or gives it up.
LEMMA WaitingKeepsOwn ==
  ASSUME TypeInv, OwnInv, CrashInv, Waiting PROVE OwnInv' /\ CrashInv'
<1>1. /\ threads \in Nat /\ sideOf \in [Threads -> Sides] /\ api.side \in Sides
      /\ hThread \in [Sides -> 0 .. threads] /\ abandoned \subseteq Threads
      /\ \A s \in Sides : hThread[s] # 0 => hThread[s] \in Threads
      /\ api.pc \in {"startWait", "stopWait"} => hThread[api.side] # 0
  BY AudioAssumption DEF TypeInv, ThreadType, Threads
<1>2. UNCHANGED <<threads, sideOf, at, crashed, mixer, client, ready, mixerFailed>>
  BY WaitingFrame
<1>3. ~crashed /\ api'.pc \notin Activating
  BY NoCallFacts DEF Waiting, Waits, StartSucceeds, StartTimesOut, StopSucceeds,
     StopTimesOut, StopTransport, StopThread, Call, Activating
<1>4. CrashInv'
  BY <1>2, <1>3 DEF CrashInv, CrashesExplained
<1>5. CASE StartSucceeds
  <2>1. UNCHANGED <<hThread, abandoned, timedOut>> /\ transporting' = transporting \cup {api.side}
    BY <1>5 DEF StartSucceeds, ghostVars
  <2>2. QED
    BY <1>1, <1>2, <1>3, <1>4, <2>1 DEF OwnInv, Live, Starting
<1>6. CASE StartTimesOut
  <2>1. UNCHANGED <<hThread, abandoned>> /\ transporting' = transporting \cup {api.side}
        /\ timedOut \subseteq timedOut'
    BY <1>6 DEF StartTimesOut
  <2>2. QED
    BY <1>1, <1>2, <1>3, <1>4, <2>1 DEF OwnInv, Live, Starting
<1>7. CASE \E s \in Sides : StopTransport(s)
  <2>1. UNCHANGED <<hThread, abandoned, timedOut, transporting>> /\ api.pc = "idle"
    BY <1>7 DEF StopTransport, Call, LockFree
  <2>2. QED
    BY <1>1, <1>2, <1>3, <1>4, <2>1 DEF OwnInv, Live, Starting
<1>8. CASE StopSucceeds \/ StopTimesOut
  <2>1. /\ hThread' = [hThread EXCEPT ![api.side] = 0]
        /\ transporting' = transporting \ {api.side} /\ api.pc = "stopWait"
    BY <1>8 DEF StopSucceeds, StopTimesOut
  <2>2. /\ timedOut \subseteq timedOut' /\ abandoned \subseteq abandoned'
        /\ \/ ~Live(hThread[api.side]) /\ abandoned' = abandoned
           \/ api.side \in timedOut' /\ abandoned' = abandoned \cup {hThread[api.side]}
    BY <1>8 DEF StopSucceeds, StopTimesOut
  <2>3. \A s \in Sides : hThread'[s] # 0 =>
          sideOf'[hThread'[s]] = s /\ (s \in transporting' \/ Starting(s)')
    BY <1>1, <1>2, <2>1 DEF OwnInv, Starting
  <2>4. \A t \in Threads \ abandoned' : Live(t)' => hThread'[sideOf'[t]] = t
    <3> SUFFICES ASSUME NEW t \in Threads \ abandoned', Live(t)
                 PROVE  hThread'[sideOf[t]] = t
      BY <1>2 DEF Live
    <3>1. hThread[sideOf[t]] = t /\ sideOf[t] \in Sides
      BY <1>1, <2>2 DEF OwnInv
    <3>2. sideOf[t] # api.side
      BY <2>2, <3>1
    <3>3. QED
      BY <1>1, <2>1, <3>1, <3>2
  <2>5. \A t \in abandoned' : sideOf'[t] \in timedOut'
    <3>1. sideOf[hThread[api.side]] = api.side
      BY <1>1, <2>1 DEF OwnInv
    <3>2. QED
      BY <1>2, <2>2, <3>1 DEF OwnInv
  <2>6. \A t \in Threads : t > threads' => ~Live(t)'
    BY <1>2 DEF OwnInv, Live
  <2>7. \A t \in Threads : t <= threads' => sideOf'[t] \in ready'
    BY <1>2 DEF OwnInv
  <2>8. QED
    BY <1>3, <1>4, <2>3, <2>4, <2>5, <2>6, <2>7 DEF OwnInv
<1>9. QED
  BY <1>5, <1>6, <1>7, <1>8 DEF Waiting, Waits

\* Terminate finds no handle any more, so that a thread that lives was given up.
LEMMA TerminateKeepsOwn ==
  ASSUME TypeInv, OwnInv, CrashInv, Terminate PROVE OwnInv' /\ CrashInv'
<1>1. /\ UNCHANGED <<mixer, client, ready, mixerFailed, hThread, transporting, api>>
      /\ UNCHANGED <<threads, sideOf, at, abandoned, timedOut>>
      /\ transporting = {} /\ api.pc = "idle"
  BY DEF Terminate, Call, LockFree, callVars, threadVars, ghostVars
<1>2. OwnInv'
  BY <1>1 DEF OwnInv, Live, Starting
<1>3. crashed' => \E t \in Threads : Live(t)
  BY Zenon DEF Terminate
<1>4. \A s \in Sides : hThread[s] = 0
  BY <1>1 DEF OwnInv, Starting
<1>5. \A t \in Threads : Live(t) => t \in abandoned
  <2> SUFFICES ASSUME NEW t \in Threads, Live(t), t \notin abandoned PROVE FALSE
    OBVIOUS
  <2>1. hThread[sideOf[t]] = t /\ sideOf[t] \in Sides /\ t # 0
    BY DEF OwnInv, Threads, TypeInv, ThreadType
  <2>2. QED
    BY <1>4, <2>1
<1>6. crashed' => \E t \in abandoned' : Live(t)'
  BY <1>1, <1>3, <1>5 DEF Live
<1>7. QED
  BY <1>1, <1>2, <1>6 DEF CrashInv, CrashesExplained

\* A thread that moves does not come back to life; one without a client is of
\* a prepared side whose client InitMixer has lost.
LEMMA TransportKeepsOwn ==
  ASSUME TypeInv, OwnInv, CrashInv, NEW t \in Threads, Transport(t)
  PROVE  OwnInv' /\ CrashInv'
<1>1. CASE Moves(t)
  <2>1. /\ UNCHANGED <<mixer, client, ready, mixerFailed, transporting, hThread, api>>
        /\ UNCHANGED <<threads, sideOf, crashed, timedOut, abandoned>> /\ ~crashed /\ Live(t)
    BY <1>1, TransportFrame
  <2>2. PICK w \in Places : at' = [at EXCEPT ![t] = w]
    BY <1>1, TransportFrame
  <2>3. \A u \in Threads : Live(u)' => Live(u)
    BY <2>1, <2>2 DEF Live, TypeInv, ThreadType
  <2>4. QED
    BY <2>1, <2>3 DEF OwnInv, Starting, CrashInv, CrashesExplained
<1>2. CASE UsesLostClient(t)
  <2>1. /\ UNCHANGED <<mixer, client, ready, mixerFailed, transporting, hThread, api>>
        /\ UNCHANGED <<threads, sideOf, at, timedOut, abandoned>>
        /\ Live(t) /\ sideOf[t] \notin client
    BY <1>2, LostClientFrame
  <2>2. t <= threads
    BY <2>1 DEF OwnInv, TypeInv, ThreadType, Threads
  <2>3. mixerFailed # {}
    BY <2>1, <2>2 DEF OwnInv, CrashInv
  <2>4. QED
    BY <2>1, <2>3 DEF OwnInv, Live, Starting, CrashInv, CrashesExplained
<1>3. QED
  BY <1>1, <1>2, TransportCases

\* Every step keeps the two invariants.
LEMMA OwnInductive ==
  TypeInv /\ OwnInv /\ CrashInv /\ [Next]_vars => OwnInv' /\ CrashInv'
<1> SUFFICES ASSUME TypeInv, OwnInv, CrashInv, [Next]_vars PROVE OwnInv' /\ CrashInv'
  OBVIOUS
<1>1. CASE UNCHANGED vars
  BY <1>1 DEF vars, setupVars, eventVars, callVars, threadVars, ghostVars,
     OwnInv, CrashInv, CrashesExplained, Starting, Live
<1>2. QED
  BY <1>1, PreparingKeepsOwn, ActivationKeepsOwn, StartTransportKeepsOwn, WaitingKeepsOwn,
     TerminateKeepsOwn, TransportKeepsOwn DEF Next, Preparing, Waiting

\* A null client is used only after an InitMixer that failed, and a deleted
\* helper only by a thread that a StopTransport gave up after its timeout.
THEOREM CrashesAreExplained == Spec => []CrashesExplained
<1>1. CrashInv => CrashesExplained
  BY DEF CrashInv
<1>2. QED
  BY <1>1, TypeInitial, OwnInitial, TypeInductive, OwnInductive, PTL DEF Spec
-----------------------------------------------------------------------------
(* What Playing() and Recording() may be relied on for.                    *)

\* On a side without a timeout the events are set only while the call they
\* belong to waits, and its thread is where that call has brought it.
CalmSide(s) ==
  /\ s \in shutdownEvent => Stopping(s)
  /\ s \in transporting => hThread[s] # 0
  /\ s \in startedEvent => Starting(s) /\ at[hThread[s]] # "starting"
  /\ hThread[s] # 0 =>
       /\ hThread[s] \in told => Stopping(s)
       /\ at[hThread[s]] = "stopping" => Stopping(s)
       /\ at[hThread[s]] = "starting" => Starting(s)
       /\ at[hThread[s]] \in {"waiting", "ready", "inside"} => s \in streaming

SideInv == \A s \in Sides \ timedOut : CalmSide(s)

\* Initially no event is set.
LEMMA SideInitial == Init => SideInv
  BY DEF Init, SideInv, CalmSide

\* The preparing calls and Terminate change neither events nor threads.
LEMMA PreparingKeepsSide ==
  ASSUME TypeInv, SideInv, NEW s \in Sides, Preparing(s) \/ Terminate
  PROVE  SideInv'
<1>1. /\ UNCHANGED <<shutdownEvent, startedEvent, transporting, hThread, at>>
      /\ UNCHANGED <<streaming, timedOut, told>> /\ api.pc = "idle"
  BY PreparingFrame DEF Terminate, Call, LockFree, eventVars, callVars, threadVars, ghostVars
<1>2. QED
  BY <1>1 DEF SideInv, CalmSide, Starting, Stopping

\* InitMixer stops only the stream of a side that has no thread to call its own.
LEMMA ActivationKeepsSide ==
  ASSUME TypeInv, OwnInv, SideInv, Activation PROVE SideInv'
<1>0. api.side \in Sides /\ crashed \in BOOLEAN /\ api.side \notin transporting
  BY ActivationFrame DEF TypeInv, SetType, ThreadType, OwnInv
<1>1. Activated(api.side)
  BY <1>0, ActivationEffect
<1>2. api.pc \in Activating
  BY ActivationFrame
<1>3. hThread[api.side] = 0
  BY <1>0, <1>2 DEF OwnInv, Starting, Activating
<1>4. \A r \in Sides : r # api.side => (r \in streaming => r \in streaming')
  BY <1>0, <1>1, ActivatedEffect
<1>5. UNCHANGED <<shutdownEvent, startedEvent, transporting, hThread, at, timedOut, told>>
  BY ActivationFrame
<1> SUFFICES ASSUME NEW r \in Sides \ timedOut PROVE CalmSide(r)'
  BY <1>5 DEF SideInv
<1>6. CalmSide(r) /\ ~Starting(r) /\ ~Stopping(r)
  BY <1>2 DEF SideInv, Starting, Stopping, Activating
<1>7. QED
  BY <1>3, <1>4, <1>5, <1>6 DEF CalmSide

\* The new thread of a side has not been told anything, and neither of the
\* events of the side is set.
LEMMA StartTransportKeepsSide ==
  ASSUME TypeInv, SideInv, NEW s \in Sides, StartTransport(s) PROVE SideInv'
<1> DEFINE n == threads + 1
<1>1. /\ n \in Threads /\ at \in [Threads -> Places] /\ n # 0
      /\ hThread \in [Sides -> 0 .. threads] /\ n \notin told
      /\ \A r \in Sides : hThread[r] # n /\ (hThread[r] # 0 => hThread[r] \in Threads)
  BY AudioAssumption DEF StartTransport, Threads, TypeInv, ThreadType
<1>2. /\ hThread' = [hThread EXCEPT ![s] = n] /\ at' = [at EXCEPT ![n] = "starting"]
      /\ api'.pc = "startWait" /\ api'.side = s /\ api.pc = "idle"
      /\ UNCHANGED <<transporting, shutdownEvent, startedEvent, streaming, timedOut, told>>
  BY DEF StartTransport, Call, LockFree, eventVars, ghostVars
<1> HIDE DEF n
<1> SUFFICES ASSUME NEW r \in Sides \ timedOut PROVE CalmSide(r)'
  BY <1>2 DEF SideInv
<1>3. CalmSide(r)
  BY DEF SideInv
<1>4. r \notin shutdownEvent /\ r \notin startedEvent
  BY <1>2, <1>3 DEF CalmSide, Starting, Stopping
<1>5. CASE r = s
  BY <1>1, <1>2, <1>4, <1>5 DEF CalmSide, Starting
<1>6. CASE r # s
  <2>1. hThread'[r] = hThread[r] /\ (hThread[r] # 0 => at'[hThread[r]] = at[hThread[r]])
    BY <1>1, <1>2, <1>6
  <2>2. QED
    BY <1>2, <1>3, <1>4, <2>1 DEF CalmSide, Starting, Stopping
<1>7. QED
  BY <1>5, <1>6

\* A wait that ends leaves its side calm, or a timeout on it.
LEMMA WaitingKeepsSide ==
  ASSUME TypeInv, OwnInv, SideInv, Waiting PROVE SideInv'
<1>1. /\ api.side \in Sides /\ hThread \in [Sides -> 0 .. threads]
      /\ api.pc \in {"startWait", "stopWait"} => hThread[api.side] # 0
  BY DEF TypeInv, ThreadType
<1>2. UNCHANGED <<at, streaming>> /\ timedOut \subseteq timedOut'
  BY WaitingFrame
<1> SUFFICES ASSUME NEW r \in Sides \ timedOut' PROVE CalmSide(r)'
  BY DEF SideInv
<1>3. CalmSide(r)
  BY <1>2 DEF SideInv
<1>4. \A s \in Sides : hThread[s] # 0 => sideOf[hThread[s]] = s
  BY DEF OwnInv
<1>5. CASE StartSucceeds
  <2>1. /\ api.pc = "startWait" /\ api'.pc = "idle" /\ api.side \in startedEvent
        /\ startedEvent' = startedEvent \ {api.side}
        /\ transporting' = transporting \cup {api.side}
        /\ UNCHANGED <<shutdownEvent, hThread, told>>
    BY <1>5, NoCallFacts DEF StartSucceeds, ghostVars
  <2>2. QED
    BY <1>1, <1>2, <1>3, <2>1 DEF CalmSide, Starting, Stopping
<1>6. CASE StartTimesOut
  <2>1. /\ api.pc = "startWait" /\ r # api.side
        /\ shutdownEvent' = shutdownEvent \cup {api.side}
        /\ told' = told \cup {hThread[api.side]}
        /\ transporting' = transporting \cup {api.side}
        /\ UNCHANGED <<startedEvent, hThread>>
    BY <1>6 DEF StartTimesOut, StopThread
  <2>2. hThread[r] # 0 => hThread[r] # hThread[api.side]
    BY <1>1, <1>4, <2>1
  <2>3. QED
    BY <1>1, <1>2, <1>3, <2>1, <2>2 DEF CalmSide, Starting, Stopping
<1>7. CASE \E s \in Sides : StopTransport(s)
  <2>1. PICK s \in Sides : StopTransport(s)
    BY <1>7
  <2>2. /\ api.pc = "idle" /\ api'.pc = "stopWait" /\ api'.side = s /\ hThread[s] # 0
        /\ shutdownEvent' = shutdownEvent \cup {s}
        /\ told' = told \cup {hThread[s]}
        /\ UNCHANGED <<startedEvent, hThread, transporting>>
    BY <2>1 DEF StopTransport, StopThread, Call, LockFree
  <2>3. r # s => hThread[r] = 0 \/ hThread[r] # hThread[s]
    BY <1>4, <2>2
  <2>4. QED
    BY <1>1, <1>2, <1>3, <2>2, <2>3 DEF CalmSide, Starting, Stopping
<1>8. CASE StopSucceeds
  <2>1. /\ api.pc = "stopWait"
        /\ shutdownEvent' = shutdownEvent \ {api.side}
        /\ transporting' = transporting \ {api.side}
        /\ hThread' = [hThread EXCEPT ![api.side] = 0]
        /\ UNCHANGED <<startedEvent, told>>
    BY <1>8 DEF StopSucceeds
  <2>2. QED
    BY <1>1, <1>2, <1>3, <2>1 DEF CalmSide, Starting, Stopping
<1>9. CASE StopTimesOut
  <2>1. /\ api.pc = "stopWait" /\ r # api.side
        /\ transporting' = transporting \ {api.side}
        /\ hThread' = [hThread EXCEPT ![api.side] = 0]
        /\ UNCHANGED <<shutdownEvent, startedEvent, told>>
    BY <1>9 DEF StopTimesOut, eventVars
  <2>2. QED
    BY <1>1, <1>2, <1>3, <2>1 DEF CalmSide, Starting, Stopping
<1>10. QED
  BY <1>5, <1>6, <1>7, <1>8, <1>9 DEF Waiting, Waits

\* A thread does not disturb another side; on its own side without a timeout
\* it is the thread the side has the handle of.
LEMMA MovesKeepsSide ==
  ASSUME TypeInv, OwnInv, SideInv, NEW t \in Threads, Moves(t) PROVE SideInv'
<1>1. /\ hThread \in [Sides -> 0 .. threads] /\ at \in [Threads -> Places]
      /\ \A r \in Sides : hThread[r] # 0 => hThread[r] \in Threads
      /\ sideOf[t] \in Sides /\ t # 0
  BY AudioAssumption DEF TypeInv, ThreadType, Threads
<1>2. UNCHANGED <<transporting, hThread, api, timedOut, told, sideOf, abandoned>> /\ Live(t)
  BY TransportFrame
<1>3. PICK w \in Places : at' = [at EXCEPT ![t] = w]
  BY TransportFrame
<1> SUFFICES ASSUME NEW r \in Sides \ timedOut PROVE CalmSide(r)'
  BY <1>2 DEF SideInv
<1>4. CalmSide(r)
  BY DEF SideInv
<1>5. CASE r # sideOf[t]
  <2>1. hThread[r] # 0 => hThread[r] # t /\ at'[hThread[r]] = at[hThread[r]]
    BY <1>1, <1>3, <1>5 DEF OwnInv
  <2>2. /\ r \in shutdownEvent' => r \in shutdownEvent
        /\ r \in startedEvent' => r \in startedEvent
        /\ r \in streaming => r \in streaming'
    BY <1>5, TransportEffect
  <2>3. r \in startedEvent => hThread[r] # 0
    BY <1>4 DEF CalmSide, Starting, TypeInv, ThreadType
  <2>4. QED
    BY <1>2, <1>4, <2>1, <2>2, <2>3 DEF CalmSide, Starting, Stopping
<1>6. CASE r = sideOf[t]
  <2>1. hThread[r] = t
    BY <1>2, <1>6 DEF OwnInv
  <2>2. at'[t] = w
    BY <1>1, <1>3
  <2>3. UNCHANGED <<hThread, api, told, transporting>>
    BY <1>2
  <2> USE DEF AtPlace, Goes, eventVars, CalmSide, Starting, Stopping
  <2>4. CASE TransportStarts(t)
    BY <1>1, <1>4, <1>6, <2>1, <2>2, <2>3, <2>4 DEF TransportStarts
  <2>5. CASE TransportFails(t)
    BY <1>1, <1>4, <1>6, <2>1, <2>2, <2>3, <2>5 DEF TransportFails
  <2>6. CASE SeesShutdown(t) \/ SamplesReady(t) \/ WaitTimesOut(t)
    BY <1>1, <1>4, <1>6, <2>1, <2>2, <2>3, <2>6 DEF SeesShutdown, SamplesReady, WaitTimesOut
  <2>7. CASE EntersLock(t) \/ MovesPacket(t) \/ FindsNothing(t)
    BY <1>1, <1>4, <1>6, <2>1, <2>2, <2>3, <2>7 DEF EntersLock, MovesPacket, FindsNothing
  <2>8. CASE PacketFails(t) \/ TransportEnds(t) \/ CleansUp(t)
    BY <1>1, <1>4, <1>6, <2>1, <2>2, <2>3, <2>8 DEF PacketFails, TransportEnds, CleansUp
  <2>9. ~UsesLostClient(t)
    BY DEF Moves, UsesLostClient
  <2>10. QED
    BY <2>4, <2>5, <2>6, <2>7, <2>8, <2>9 DEF Moves, Transport, TakesLock, Runs
<1>7. QED
  BY <1>5, <1>6

\* A thread that uses a lost client disturbs no side.
LEMMA TransportKeepsSide ==
  ASSUME TypeInv, OwnInv, SideInv, NEW t \in Threads, Transport(t) PROVE SideInv'
<1>1. CASE UsesLostClient(t)
  BY <1>1, LostClientFrame DEF SideInv, CalmSide, Starting, Stopping
<1>2. QED
  BY <1>1, MovesKeepsSide, TransportCases

\* Every step keeps the sides calm that no timeout has hit.
LEMMA SideInductive ==
  TypeInv /\ OwnInv /\ SideInv /\ [Next]_vars => SideInv'
<1> SUFFICES ASSUME TypeInv, OwnInv, SideInv, [Next]_vars PROVE SideInv'
  OBVIOUS
<1>1. CASE UNCHANGED vars
  BY <1>1 DEF vars, eventVars, callVars, threadVars, ghostVars, SideInv, CalmSide,
     Starting, Stopping
<1>2. CASE Terminate
  <2>1. PICK s \in Sides : TRUE
    BY AudioAssumption
  <2>2. QED
    BY <1>2, <2>1, PreparingKeepsSide
<1>3. QED
  BY <1>1, <1>2, PreparingKeepsSide, ActivationKeepsSide, StartTransportKeepsSide, WaitingKeepsSide,
     TransportKeepsSide DEF Next, Preparing, Waiting

\* Between calls Playing() and Recording() tell the truth about a side on which
\* no wait has timed out, and every live thread that was not given up is the
\* one its side has the handle of.
THEOREM TransportingIsTruthful == Spec => []TransportingMeansStreaming
<1>1. TypeInv /\ OwnInv /\ SideInv => TransportingMeansStreaming
  <2> SUFFICES ASSUME TypeInv, OwnInv, SideInv PROVE TransportingMeansStreaming
    OBVIOUS
  <2>1. ASSUME api.pc = "idle", NEW s \in transporting \ timedOut
        PROVE  /\ hThread[s] # 0
               /\ hThread[s] \notin told
               /\ at[hThread[s]] \notin {"starting", "stopping"}
               /\ at[hThread[s]] \in {"waiting", "ready", "inside"} => s \in streaming
               /\ s \notin shutdownEvent
    BY <2>1 DEF TypeInv, SetType, SideInv, CalmSide, Starting, Stopping
  <2>2. QED
    BY <2>1 DEF OwnInv, TransportingMeansStreaming
<1>2. QED
  BY <1>1, TypeInitial, OwnInitial, SideInitial, TypeInductive, OwnInductive,
     SideInductive, PTL DEF Spec
=============================================================================
