----------------------- MODULE AudioDeviceWindowsCore -----------------------
(***************************************************************************)
(* The Core Audio device (audio_device/win/audio_device_core_win.cc): one  *)
(* helper object for the capture side and one for the render side, each    *)
(* with a thread that runs Transport() and three events between the thread *)
(* and the API calls.                                                      *)
(*                                                                         *)
(* WebRTC makes the API calls from one thread, after Init; each holds the  *)
(* one _critSect of the device until it returns, also while it waits:      *)
(* StartTransport and StopTransport for the thread, with a limit, InitMixer*)
(* for Windows to activate the device, without one.  The threads take the  *)
(* same _critSect for every packet and to clean up after an error.  A wait *)
(* with a limit may time out at any moment at which the thread has not     *)
(* answered.                                                               *)
(*                                                                         *)
(* Audio data, formats, delays, volume and mute change no state here.      *)
(* Device, mixer and client are only present or absent.                    *)
(***************************************************************************)
EXTENDS Naturals, FiniteSets

CONSTANTS Sides,        \* the capture and the render helper
          MaxThreads,   \* bound: threads created
          MaxFailures   \* bound: failing Windows calls

ASSUME AudioAssumption == Sides # {} /\ MaxThreads \in Nat /\ MaxFailures \in Nat

Threads == 1 .. MaxThreads

VARIABLES
  initialized,   \* _initialized: the helpers exist
  device,        \* sides with a _deviceInformation
  mixer,         \* sides with _mixerInitialized
  client,        \* sides with an _audioClient
  ready,         \* sides with _transportInitialized
  stale,         \* ready sides whose client was replaced or lost since
  transporting,  \* sides with _transporting
  hThread,       \* _hThread of a side, 0: null
  shutdownEvent, \* sides whose _hShutdownEvent is set
  startedEvent,  \* sides whose _hStartedEvent is set
  streaming,     \* sides whose client is started
  api,           \* the API call that waits, and its side
  threads,       \* number of threads created
  sideOf,        \* the side of a thread
  at,            \* where a thread is in Transport
  failures,
  crashed,       \* a null client or a deleted helper was used
  timedOut,      \* ghost: sides on which a wait of the API timed out
  mixerFailed,   \* ghost: sides on which InitMixer has failed
  abandoned,     \* ghost: threads that StopTransport stopped waiting for
  told,          \* ghost: threads StopTransport has set the event for
  robbed         \* ghost: told threads whose event was cleared by another

setupVars == <<initialized, device, mixer, client, ready, stale, mixerFailed>>
eventVars == <<shutdownEvent, startedEvent>>
callVars == <<transporting, hThread, api>>
threadVars == <<threads, sideOf, at, streaming>>
ghostVars == <<timedOut, abandoned, told, robbed>>
vars == <<setupVars, eventVars, callVars, threadVars, failures, crashed, ghostVars>>

NoCall == [pc |-> "idle", side |-> CHOOSE s \in Sides : TRUE]

Init ==
  /\ initialized = TRUE
  /\ device = {} /\ mixer = {} /\ client = {} /\ ready = {} /\ stale = {}
  /\ transporting = {}
  /\ hThread = [s \in Sides |-> 0]
  /\ shutdownEvent = {} /\ startedEvent = {} /\ streaming = {}
  /\ api = NoCall
  /\ threads = 0
  /\ sideOf = [t \in Threads |-> NoCall.side]
  /\ at = [t \in Threads |-> "ended"]
  /\ failures = 0 /\ crashed = FALSE
  /\ timedOut = {} /\ mixerFailed = {}
  /\ abandoned = {} /\ told = {} /\ robbed = {}

Failure ==
  /\ failures < MaxFailures
  /\ failures' = failures + 1

Live(t) == at[t] # "ended"

\* _critSect is held by a waiting API call or by a thread with a packet.
LockFree == api.pc = "idle" /\ \A t \in Threads : at[t] # "inside"

Call == initialized /\ ~crashed /\ LockFree

-----------------------------------------------------------------------------
(* The API calls.                                                          *)

\* A selection that fails late has already let the old device go.
SetDevice(s) ==
  /\ Call
  /\ \/ device' = device \cup {s} /\ UNCHANGED failures
     \/ Failure /\ device' \in {device, device \ {s}}
  /\ UNCHANGED <<initialized, mixer, client, ready, stale, mixerFailed, eventVars,
                 callVars, threadVars, crashed, ghostVars>>

\* The places of a call that waits for ActivateCompleted, in InitMixer.
Activating == {"mixerWait", "transportWait"}

\* InitMixer up to its wait fails: the device is selected again and may get
\* lost, or Windows refuses to activate it.
MixerRefused(s) ==
  /\ Failure
  /\ device' \in {device, device \ {s}}
  /\ mixerFailed' = mixerFailed \cup {s}
  /\ UNCHANGED <<mixer, client, api>>

\* InitMixer waits for the activation, as long as it takes.
MixerWaits(s, place) ==
  /\ api' = [pc |-> place, side |-> s]
  /\ UNCHANGED <<device, mixer, client, mixerFailed, failures>>

\* InitSpeaker and InitMicrophone; a mixer that is up stays as it is.
InitMixer(s) ==
  /\ Call
  /\ s \in device \ (transporting \cup mixer)
  /\ MixerRefused(s) \/ MixerWaits(s, "mixerWait")
  /\ UNCHANGED <<initialized, ready, stale, eventVars, transporting, hThread,
                 threadVars, crashed, ghostVars>>

\* InitTransport after InitMixer, whose failure is only logged: the client is
\* used all the same unless the device is lost.
ClientUsed(s) ==
  /\ crashed' = (s \in device' \ client')
  /\ \/ s \in device' \cap client' /\ ready' = ready \cup {s}
     \/ UNCHANGED ready

\* Mutant: InitTransport relies on an InitMixer made by somebody else.
InitTransportBare(s) ==
  /\ Call
  /\ s \in device \ (transporting \cup ready)
  /\ UNCHANGED <<device, mixer, client, mixerFailed, failures, api>>
  /\ ClientUsed(s)
  /\ UNCHANGED <<initialized, stale, eventVars, transporting, hThread, threadVars,
                 ghostVars>>

\* InitPlayout and InitRecording.
InitTransport(s) ==
  /\ Call
  /\ s \in device \ (transporting \cup ready)
  /\ \/ /\ s \in mixer
        /\ UNCHANGED <<device, mixer, client, mixerFailed, failures, api>>
        /\ ClientUsed(s)
     \/ s \notin mixer /\ MixerRefused(s) /\ ClientUsed(s)
     \/ s \notin mixer /\ MixerWaits(s, "transportWait") /\ UNCHANGED <<ready, crashed>>
  /\ UNCHANGED <<initialized, stale, eventVars, transporting, hThread, threadVars,
                 ghostVars>>

\* QueryInterface lets the old client go: a client that is there now was never
\* prepared or started.
ReplacesClient(s) ==
  /\ client' \in {client \ {s}, client \cup {s}}
  /\ stale' = stale \cup ({s} \cap ready)
  /\ streaming' = streaming \ {s}

\* The rest of InitMixer, once Windows has called ActivateCompleted.
Activated(s) ==
  /\ \/ /\ mixer' = mixer \cup {s}
        /\ ReplacesClient(s) /\ s \in client'
        /\ UNCHANGED <<mixerFailed, failures>>
     \/ /\ Failure
        /\ mixerFailed' = mixerFailed \cup {s}
        /\ ReplacesClient(s) \/ UNCHANGED <<client, stale, streaming>>
        /\ UNCHANGED mixer
  /\ api' = NoCall
  /\ UNCHANGED <<initialized, device, eventVars, transporting, hThread, threads,
                 sideOf, at, ghostVars>>

InitMixerEnds ==
  /\ api.pc = "mixerWait" /\ ~crashed
  /\ Activated(api.side)
  /\ UNCHANGED <<ready, crashed>>

InitTransportEnds ==
  /\ api.pc = "transportWait" /\ ~crashed
  /\ Activated(api.side)
  /\ ClientUsed(api.side)

\* StartTransport up to its wait for _hStartedEvent.
StartTransport(s) ==
  /\ Call
  /\ s \in ready \ transporting
  /\ hThread[s] = 0
  /\ threads < MaxThreads
  /\ threads' = threads + 1
  /\ hThread' = [hThread EXCEPT ![s] = threads + 1]
  /\ sideOf' = [sideOf EXCEPT ![threads + 1] = s]
  /\ at' = [at EXCEPT ![threads + 1] = "starting"]
  /\ api' = [pc |-> "startWait", side |-> s]
  /\ UNCHANGED <<setupVars, eventVars, transporting, streaming, failures,
                 crashed, ghostVars>>

StartSucceeds ==
  /\ api.pc = "startWait" /\ ~crashed
  /\ api.side \in startedEvent
  /\ startedEvent' = startedEvent \ {api.side}
  /\ transporting' = transporting \cup {api.side}
  /\ api' = NoCall
  /\ UNCHANGED <<setupVars, shutdownEvent, hThread, threadVars, failures,
                 crashed, ghostVars>>

\* SetEvent(_hShutdownEvent) and the wait for the thread.
StopThread(s) ==
  /\ shutdownEvent' = shutdownEvent \cup {s}
  /\ told' = told \cup {hThread[s]}
  /\ api' = [pc |-> "stopWait", side |-> s]

\* "did not start up properly": StopTransport is called with the lock held.
StartTimesOut ==
  /\ api.pc = "startWait" /\ ~crashed
  /\ api.side \notin startedEvent
  /\ transporting' = transporting \cup {api.side}
  /\ StopThread(api.side)
  /\ timedOut' = timedOut \cup {api.side}
  /\ UNCHANGED <<setupVars, startedEvent, hThread, threadVars, failures, crashed,
                 abandoned, robbed>>

StopTransport(s) ==
  /\ Call
  /\ s \in transporting
  /\ hThread[s] # 0
  /\ StopThread(s)
  /\ UNCHANGED <<setupVars, startedEvent, transporting, hThread, threadVars,
                 failures, crashed, timedOut, abandoned, robbed>>

\* Told threads of side s, other than t, that have not looked at the event.
Unaware(s, t) ==
  {u \in told : u # t /\ sideOf[u] = s /\ at[u] \notin {"stopping", "ended"}}

\* Mutant: the event is left as it is.
StopSucceedsNoReset ==
  /\ api.pc = "stopWait" /\ ~crashed
  /\ ~Live(hThread[api.side])
  /\ transporting' = transporting \ {api.side}
  /\ hThread' = [hThread EXCEPT ![api.side] = 0]
  /\ api' = NoCall
  /\ UNCHANGED <<setupVars, eventVars, threadVars, failures, crashed, ghostVars>>

\* The thread has ended; ResetEvent for an event it did not live to see.
StopSucceeds ==
  /\ api.pc = "stopWait" /\ ~crashed
  /\ ~Live(hThread[api.side])
  /\ shutdownEvent' = shutdownEvent \ {api.side}
  /\ robbed' = robbed \cup Unaware(api.side, hThread[api.side])
  /\ transporting' = transporting \ {api.side}
  /\ hThread' = [hThread EXCEPT ![api.side] = 0]
  /\ api' = NoCall
  /\ UNCHANGED <<setupVars, startedEvent, threadVars, failures, crashed,
                 timedOut, abandoned, told>>

\* Mutant: StopTransport waits without a limit.
StopTimesOutNever == FALSE /\ UNCHANGED vars

\* "failed to close down": the handle is closed and the thread left alone.
StopTimesOut ==
  /\ api.pc = "stopWait" /\ ~crashed
  /\ Live(hThread[api.side])
  /\ transporting' = transporting \ {api.side}
  /\ hThread' = [hThread EXCEPT ![api.side] = 0]
  /\ api' = NoCall
  /\ timedOut' = timedOut \cup {api.side}
  /\ abandoned' = abandoned \cup {hThread[api.side]}
  /\ UNCHANGED <<setupVars, eventVars, threadVars, failures, crashed, told, robbed>>

\* Terminate deletes the helpers; a thread that lives on uses a deleted one.
\* WebRTC stops both sides first.
Terminate ==
  /\ Call
  /\ transporting = {}
  /\ initialized' = FALSE
  /\ crashed' = \E t \in Threads : Live(t)
  /\ UNCHANGED <<device, mixer, client, ready, stale, mixerFailed, eventVars,
                 callVars, threadVars, failures, ghostVars>>

-----------------------------------------------------------------------------
(* Transport(), the function of the threads.                               *)

Goes(t, where) == at' = [at EXCEPT ![t] = where]

AtPlace(t, where) == at[t] = where /\ ~crashed

\* The client is started and the event set; a client that is already started
\* refuses, and so does one that InitTransport has not prepared.
TransportStarts(t) ==
  LET s == sideOf[t]
  IN  /\ AtPlace(t, "starting")
      /\ s \notin streaming \cup stale
      /\ streaming' = streaming \cup {s}
      /\ startedEvent' = startedEvent \cup {s}
      /\ Goes(t, "waiting")
      /\ UNCHANGED <<setupVars, shutdownEvent, callVars, threads, sideOf, failures,
                     crashed, ghostVars>>

\* COM cannot be initialised, or a call before the loop fails, which stops the
\* client.
TransportFails(t) ==
  /\ AtPlace(t, "starting")
  /\ \/ /\ Failure
        /\ \/ Goes(t, "ended") /\ UNCHANGED streaming
           \/ Goes(t, "failing") /\ streaming' = streaming \ {sideOf[t]}
     \/ /\ sideOf[t] \in (streaming \cup stale) \cap client
        /\ Goes(t, "failing") /\ streaming' = streaming \ {sideOf[t]}
        /\ UNCHANGED failures
     \/ /\ sideOf[t] \notin client
        /\ Goes(t, "ended") /\ UNCHANGED <<streaming, failures>>
  /\ UNCHANGED <<setupVars, eventVars, callVars, threads, sideOf, crashed, ghostVars>>

\* Only the capture side looks whether there is a client, and the render side
\* within its loop.
UsesLostClient(t) ==
  /\ AtPlace(t, "starting") \/ AtPlace(t, "stopping")
  /\ sideOf[t] \notin client
  /\ crashed' = TRUE
  /\ UNCHANGED <<setupVars, eventVars, callVars, threadVars, failures, ghostVars>>

\* WaitForMultipleObjects prefers the shutdown event, and clears it.
SeesShutdown(t) ==
  LET s == sideOf[t]
  IN  /\ AtPlace(t, "waiting")
      /\ s \in shutdownEvent
      /\ shutdownEvent' = shutdownEvent \ {s}
      /\ robbed' = robbed \cup Unaware(s, t)
      /\ Goes(t, "stopping")
      /\ UNCHANGED <<setupVars, startedEvent, callVars, threads, sideOf, streaming,
                     failures, crashed, timedOut, abandoned, told>>

SamplesReady(t) ==
  /\ AtPlace(t, "waiting")
  /\ sideOf[t] \notin shutdownEvent
  /\ Goes(t, "ready")
  /\ UNCHANGED <<setupVars, eventVars, callVars, threads, sideOf, streaming,
                 failures, crashed, ghostVars>>

\* No samples for half a second, always so when the client is stopped.
WaitTimesOut(t) ==
  /\ AtPlace(t, "waiting")
  /\ sideOf[t] \notin shutdownEvent
  /\ \/ Failure
     \/ sideOf[t] \notin streaming /\ UNCHANGED failures
  /\ Goes(t, "failing")
  /\ UNCHANGED <<setupVars, eventVars, callVars, threads, sideOf, streaming,
                 crashed, ghostVars>>

\* Mutant: the packet is moved without the lock.
EntersUnlocked(t) ==
  /\ AtPlace(t, "ready")
  /\ Goes(t, "inside")
  /\ UNCHANGED <<setupVars, eventVars, callVars, threads, sideOf, streaming,
                 failures, crashed, ghostVars>>

EntersLock(t) ==
  /\ AtPlace(t, "ready")
  /\ LockFree
  /\ Goes(t, "inside")
  /\ UNCHANGED <<setupVars, eventVars, callVars, threads, sideOf, streaming,
                 failures, crashed, ghostVars>>

\* A packet was moved, and there may be another.
MovesPacket(t) ==
  /\ AtPlace(t, "inside")
  /\ sideOf[t] \in client
  /\ Goes(t, "ready")
  /\ UNCHANGED <<setupVars, eventVars, callVars, threads, sideOf, streaming,
                 failures, crashed, ghostVars>>

\* Nothing to move: the thread waits for the next samples.
FindsNothing(t) ==
  /\ AtPlace(t, "inside")
  /\ sideOf[t] \in client
  /\ Goes(t, "waiting")
  /\ UNCHANGED <<setupVars, eventVars, callVars, threads, sideOf, streaming,
                 failures, crashed, ghostVars>>

\* The client is stopped at once only if the error was one of its own; a lost
\* client is noticed here.
PacketFails(t) ==
  /\ AtPlace(t, "inside")
  /\ Failure \/ (sideOf[t] \notin client /\ UNCHANGED failures)
  /\ Goes(t, "failing")
  /\ streaming' \in {streaming, streaming \ {sideOf[t]}}
  /\ UNCHANGED <<setupVars, eventVars, callVars, threads, sideOf, crashed, ghostVars>>

\* The end after a shutdown event, without the lock.
TransportEnds(t) ==
  /\ AtPlace(t, "stopping")
  /\ streaming' = streaming \ {sideOf[t]}
  /\ Goes(t, "ended")
  /\ UNCHANGED <<setupVars, eventVars, callVars, threads, sideOf, failures, crashed,
                 ghostVars>>

\* The end after an error: Stop and Reset under the lock.
CleansUp(t) ==
  /\ AtPlace(t, "failing")
  /\ LockFree
  /\ streaming' = streaming \ {sideOf[t]}
  /\ Goes(t, "ended")
  /\ UNCHANGED <<setupVars, eventVars, callVars, threads, sideOf, failures, crashed,
                 ghostVars>>

-----------------------------------------------------------------------------
Activation == InitMixerEnds \/ InitTransportEnds

Waits == StartSucceeds \/ StartTimesOut \/ StopSucceeds \/ StopTimesOut

\* The steps of a thread, those that need the lock first.
TakesLock(t) == EntersLock(t) \/ CleansUp(t)

Runs(t) ==
  \/ TransportStarts(t) \/ TransportFails(t) \/ UsesLostClient(t)
  \/ SeesShutdown(t) \/ SamplesReady(t) \/ WaitTimesOut(t)
  \/ MovesPacket(t) \/ FindsNothing(t) \/ PacketFails(t)
  \/ TransportEnds(t)

Transport(t) == TakesLock(t) \/ Runs(t)

Next ==
  \/ \E s \in Sides :
       \/ SetDevice(s) \/ InitMixer(s) \/ InitTransport(s)
       \/ StartTransport(s) \/ StopTransport(s)
  \/ Activation
  \/ Waits
  \/ Terminate
  \/ \E t \in Threads : Transport(t)

Spec == Init /\ [][Next]_vars

\* Threads run, _critSect is granted to whoever waits for it, a buffer that is
\* emptied faster than it fills becomes empty, and a wait with a limit ends.
\* Nothing is assumed of the activation, which has no limit.
FairSpec ==
  /\ Spec
  /\ WF_vars(Waits)
  /\ \A t \in Threads :
       /\ WF_vars(Runs(t))
       /\ SF_vars(TakesLock(t))
       /\ SF_vars(FindsNothing(t) \/ PacketFails(t))

-----------------------------------------------------------------------------
(* Properties                                                              *)

\* Every variable has its type; _critSect has one holder.
TypeOK ==
  /\ initialized \in BOOLEAN /\ crashed \in BOOLEAN
  /\ UNION {device, mixer, client, ready, stale, transporting} \subseteq Sides
  /\ UNION {shutdownEvent, startedEvent, streaming, timedOut, mixerFailed}
       \subseteq Sides
  /\ hThread \in [Sides -> 0 .. threads]
  /\ api.pc \in {"idle", "startWait", "stopWait"} \cup Activating
  /\ api.side \in Sides
  /\ threads \in 0 .. MaxThreads
  /\ sideOf \in [Threads -> Sides]
  /\ at \in [Threads -> {"starting", "waiting", "ready", "inside", "stopping",
                         "failing", "ended"}]
  /\ failures \in 0 .. MaxFailures
  /\ UNION {abandoned, told, robbed} \subseteq 1 .. threads
  /\ Cardinality({t \in Threads : at[t] = "inside"})
       + (IF api.pc = "idle" THEN 0 ELSE 1) <= 1

\* Playing() and Recording() tell the truth between calls: the side has its
\* own thread and no other, and that thread has started the stream and was not
\* stopped by an event meant for an earlier one, or has ended on an error of
\* its own.  Only a wait that timed out on that side breaks this.
TransportingMeansStreaming ==
  /\ api.pc = "idle" =>
       \A s \in transporting \ timedOut :
         /\ hThread[s] # 0
         /\ hThread[s] \notin told
         /\ at[hThread[s]] \notin {"starting", "stopping"}
         /\ at[hThread[s]] \in {"waiting", "ready", "inside"} => s \in streaming
         /\ s \notin shutdownEvent
  /\ \A t \in Threads \ abandoned : Live(t) => hThread[sideOf[t]] = t

\* A null client needs a failed InitMixer, and a helper deleted under its
\* thread a StopTransport that gave the thread up.
CrashesExplained ==
  crashed => mixerFailed # {} \/ \E t \in abandoned : Live(t)

\* The activation in InitMixer is the only wait that can last for ever: if
\* Windows completes it, every API call returns, although StartTransport and
\* StopTransport wait for a thread with the lock held that the thread may be
\* waiting for; and a thread that StopTransport gave up still ends, as its
\* event stays set, unless another thread of the side takes the event away.
WaitsEnd ==
  \/ <>[](api.pc \in Activating)
  \/ /\ api.pc # "idle" ~> (api.pc = "idle" \/ crashed)
     /\ \A t \in Threads :
          t \in abandoned ~> (~Live(t) \/ t \in robbed \/ crashed)
=============================================================================
