--------------------------- MODULE H264SinkProofs ---------------------------
(***************************************************************************)
(* Proofs about the two sinks of the encoder, for any number of samples,   *)
(* work items and calls: first the stream sink of H264StreamSink alone,    *)
(* then the media sink of H264MediaSink with the stream sink it holds.     *)
(***************************************************************************)
EXTENDS H264MediaSink, SequenceTheorems, TLAPS

(***************************************************************************)
(* The inductive invariant.                                                *)
(***************************************************************************)

\* The samples delivered, in hand and queued form one increasing sequence.
SamplesOrdered ==
  /\ \A i, j \in DOMAIN sampleQueue : i < j => sampleQueue[i] < sampleQueue[j]
  /\ \A i \in DOMAIN sampleQueue :
       /\ sampleQueue[i] <= accepted
       /\ inHand < sampleQueue[i]
       /\ \A k \in DOMAIN delivered : delivered[k] < sampleQueue[i]
  /\ inHand <= accepted
  /\ \A k \in DOMAIN delivered : delivered[k] <= accepted

HandOrdered ==
  /\ dispatcher = "idle" <=> inHand = 0
  /\ inHand # 0 => \A k \in DOMAIN delivered : delivered[k] < inHand

\* Tags never decrease along the work queue, and the item of a sample comes
\* after everything that was posted before that sample was accepted.
WorkOrdered ==
  /\ \A i \in DOMAIN workQueue : workQueue[i].after <= accepted
  /\ \A i, j \in DOMAIN workQueue :
       i < j => /\ workQueue[i].after <= workQueue[j].after
                /\ workQueue[j].op = "ProcessSample" =>
                     workQueue[i].after < workQueue[j].after

\* A queued sample still has its own OpProcessSample item pending.
OwnItemPending ==
  putFailures = 0 =>
    \A i \in DOMAIN sampleQueue : \E k \in DOMAIN workQueue :
      workQueue[k].op = "ProcessSample" /\ workQueue[k].after = sampleQueue[i]

ShutdownClears == isShutdown => sampleQueue = <<>> /\ callback = "null"

Ordered == SamplesOrdered /\ HandOrdered /\ DeliveredInOrder

IInv ==
  /\ TypeOK
  /\ Ordered
  /\ ShutdownClears
  /\ WorkOrdered
  /\ OwnItemPending
  /\ WriterNeverStarves

-----------------------------------------------------------------------------
(***************************************************************************)
(* Taking the head of a sequence, and appending to one, index by index.    *)
(***************************************************************************)

\* What front() and pop_front() leave.
LEMMA PopFacts ==
  ASSUME NEW S, NEW q \in Seq(S), q # <<>>
  PROVE  /\ Head(q) \in S /\ Head(q) = q[1] /\ 1 \in DOMAIN q
         /\ Tail(q) \in Seq(S)
         /\ \A i \in DOMAIN Tail(q) : i + 1 \in DOMAIN q /\ Tail(q)[i] = q[i + 1]
         /\ \A i \in DOMAIN q : i # 1 => i - 1 \in DOMAIN Tail(q)
  BY HeadTailProperties, LenProperties, EmptySeq

\* What push_back() leaves.
LEMMA PushFacts ==
  ASSUME NEW S, NEW q \in Seq(S), NEW x \in S
  PROVE  /\ Append(q, x) \in Seq(S)
         /\ Len(q) + 1 \in DOMAIN Append(q, x)
         /\ Append(q, x)[Len(q) + 1] = x
         /\ \A i \in DOMAIN q :
              i < Len(q) + 1 /\ i \in DOMAIN Append(q, x) /\ Append(q, x)[i] = q[i]
         /\ \A i \in DOMAIN Append(q, x) : i \in DOMAIN q \/ i = Len(q) + 1
  BY AppendProperties, LenProperties

-----------------------------------------------------------------------------
(***************************************************************************)
(* Type correctness.                                                       *)
(***************************************************************************)

\* Posting a work item keeps the work queue well typed.
LEMMA QueueAsyncType ==
  ASSUME TypeOK, NEW op \in Operations, NEW n \in Nat,
         QueueAsyncOperation(op, n)
  PROVE  /\ workQueue' \in Seq(WorkItem)
         /\ putFailures' \in Nat
<1>1. [op |-> op, after |-> n] \in WorkItem
  BY DEF WorkItem
<1>2. workQueue \in Seq(WorkItem) /\ putFailures \in Nat
  BY DEF TypeOK
<1>3. Append(workQueue, [op |-> op, after |-> n]) \in Seq(WorkItem)
  BY <1>1, <1>2
<1>4. QED
  BY <1>2, <1>3 DEF QueueAsyncOperation

\* The calls keep the types.
LEMMA CallsType ==
  ASSUME TypeOK, Calls
  PROVE  TypeOK'
<1> USE BoundsAssumption
<1>1. ASSUME NEW t \in Subtypes, SetCurrentMediaType(t) PROVE TypeOK'
  <2>1. workQueue' \in Seq(WorkItem) /\ putFailures' \in Nat
    BY <1>1, QueueAsyncType DEF SetCurrentMediaType, TypeOK, Operations
  <2>2. QED
    BY <1>1, <2>1 DEF SetCurrentMediaType, TypeOK, States, threadVars
<1>2. CASE RegisterEncodingCallback
  BY <1>2 DEF RegisterEncodingCallback, TypeOK, callVars, threadVars
<1>3. CASE Start
  <2>1. workQueue' \in Seq(WorkItem) /\ putFailures' \in Nat
    BY <1>3, QueueAsyncType DEF Start, TypeOK, Operations
  <2>2. QED
    BY <1>3, <2>1 DEF Start, TypeOK, States, threadVars
<1>4. CASE Stop
  <2>1. workQueue' \in Seq(WorkItem) /\ putFailures' \in Nat
    BY <1>4, QueueAsyncType DEF Stop, TypeOK, Operations
  <2>2. QED
    BY <1>4, <2>1 DEF Stop, TypeOK, States, threadVars
<1>5. CASE ProcessSample
  <2>1. workQueue' \in Seq(WorkItem) /\ putFailures' \in Nat
    BY <1>5, QueueAsyncType DEF ProcessSample, TypeOK, Operations
  <2>2. QED
    BY <1>5, <2>1 DEF ProcessSample, TypeOK, threadVars
<1>6. CASE ProcessSampleRefused
  BY <1>6 DEF ProcessSampleRefused, TypeOK, callVars, threadVars
<1>7. CASE PlaceMarker
  <2>1. workQueue' \in Seq(WorkItem) /\ putFailures' \in Nat
    BY <1>7, QueueAsyncType DEF PlaceMarker, TypeOK, Operations
  <2>2. QED
    BY <1>7, <2>1 DEF PlaceMarker, TypeOK, threadVars
<1>8. CASE Flush
  BY <1>8 DEF Flush, TypeOK, callVars, threadVars
<1>9. CASE Shutdown
  BY <1>9 DEF Shutdown, TypeOK, threadVars
<1>10. ASSUME NEW t \in Subtypes, SetCurrentMediaTypeFails(t) PROVE TypeOK'
  BY <1>10 DEF SetCurrentMediaTypeFails, TypeOK, threadVars
<1>11. QED
  BY <1>1, <1>2, <1>3, <1>4, <1>5, <1>6, <1>7, <1>8, <1>9, <1>10 DEF Calls

\* Taking a work item keeps the work queue well typed.
LEMMA DispatchingType ==
  ASSUME TypeOK, NEW op, Dispatching(op)
  PROVE  workQueue' \in Seq(WorkItem)
  BY PopFacts DEF TypeOK, Dispatching

\* Taking a sample keeps the sample queue and the sample in hand well typed.
LEMMA TakeType ==
  ASSUME TypeOK, ProcessSamplesFromQueue
  PROVE  /\ sampleQueue' \in Seq(Nat \ {0})
         /\ inHand' \in Nat
         /\ dispatcher' \in {"idle", "popped", "calling"}
<1>1. sampleQueue \in Seq(Nat \ {0})
  BY DEF TypeOK
<1>2. CASE sampleQueue = <<>>
  BY <1>1, <1>2 DEF TypeOK, ProcessSamplesFromQueue
<1>3. CASE sampleQueue # <<>>
  <2>1. Head(sampleQueue) \in Nat \ {0} /\ Tail(sampleQueue) \in Seq(Nat \ {0})
    BY <1>1, <1>3, PopFacts
  <2>2. QED
    BY <1>3, <2>1 DEF ProcessSamplesFromQueue
<1>4. QED
  BY <1>2, <1>3

\* The thread of the work queue keeps the types.
LEMMA DispatchType ==
  ASSUME TypeOK, OnDispatchWorkItem
  PROVE  TypeOK'
<1>1. CASE DispatchStart
  BY <1>1, DispatchingType, TakeType
     DEF DispatchStart, Dispatching, TypeOK, callVars
<1>2. CASE DispatchStop
  BY <1>2, DispatchingType DEF DispatchStop, Dispatching, TypeOK, callVars
<1>3. CASE DispatchProcessSample
  BY <1>3, DispatchingType, TakeType
     DEF DispatchProcessSample, Dispatching, TypeOK, callVars
<1>4. CASE DispatchNotification
  BY <1>4, DispatchingType
     DEF DispatchNotification, Dispatching, TypeOK, callVars
<1>5. CASE DispatchAfterShutdown
  BY <1>5, DispatchingType
     DEF DispatchAfterShutdown, Dispatching, TypeOK, callVars
<1>6. CASE EnterCallback
  BY <1>6 DEF EnterCallback, TypeOK, callVars
<1>7. CASE OnH264Encoded
  <2>1. Append(delivered, inHand) \in Seq(Nat)
    BY DEF TypeOK
  <2>2. QED
    BY <1>7, <2>1, 0 \in Nat, ZenonT(30) DEF OnH264Encoded, TypeOK, callVars
<1>8. QED
  BY <1>1, <1>2, <1>3, <1>4, <1>5, <1>6, <1>7 DEF OnDispatchWorkItem

\* The initial state is well typed.
LEMMA InitialTypes == Init => TypeOK
<1>1. /\ <<>> \in Seq(Nat \ {0}) /\ <<>> \in Seq(Nat)
      /\ <<>> \in Seq(WorkItem) /\ 0 \in Nat
  BY EmptySeq
<1>2. QED
  BY <1>1, Zenon DEF Init, TypeOK, States

\* Every variable of the stream sink keeps its type, whatever the calls and
\* however they interleave with the thread of the work queue.
THEOREM TypeCorrect == Spec => []TypeOK
<1>1. Init => TypeOK
  BY InitialTypes
<1>2. TypeOK /\ [Next]_vars => TypeOK'
  <2>1. CASE UNCHANGED vars
    BY <2>1 DEF vars, TypeOK
  <2>2. QED
    BY <2>1, CallsType, DispatchType DEF Next
<1>3. QED
  BY <1>1, <1>2, PTL DEF Spec

-----------------------------------------------------------------------------
(***************************************************************************)
(* The order of the samples.                                               *)
(***************************************************************************)

\* Taking the first sample moves it behind all the delivered ones.
LEMMA TakeOrdered ==
  ASSUME TypeOK, Ordered, ProcessSamplesFromQueue, dispatcher = "idle",
         UNCHANGED <<delivered, accepted>>
  PROVE  Ordered'
<1>1. sampleQueue \in Seq(Nat \ {0}) /\ delivered \in Seq(Nat) /\ inHand = 0
  BY DEF TypeOK, Ordered, HandOrdered
<1>2. CASE sampleQueue = <<>>
  BY <1>2 DEF ProcessSamplesFromQueue, Ordered, SamplesOrdered, HandOrdered,
              DeliveredInOrder
<1>3. CASE sampleQueue # <<>>
  <2>1. /\ inHand' = sampleQueue[1] /\ sampleQueue' = Tail(sampleQueue)
        /\ dispatcher' = "popped" /\ 1 \in DOMAIN sampleQueue
        /\ inHand' \in Nat \ {0}
        /\ \A i \in DOMAIN sampleQueue' :
              i \in Nat \ {0} /\ i + 1 \in DOMAIN sampleQueue /\ sampleQueue'[i] = sampleQueue[i + 1]
    BY <1>1, <1>3, PopFacts, LenProperties DEF ProcessSamplesFromQueue
  <2>2. SamplesOrdered'
    BY <1>1, <2>1 DEF TypeOK, Ordered, SamplesOrdered
  <2>3. HandOrdered'
    BY <1>1, <2>1 DEF Ordered, SamplesOrdered, HandOrdered
  <2>4. QED
    BY <2>2, <2>3 DEF Ordered, DeliveredInOrder
<1>4. QED
  BY <1>2, <1>3

\* Accepting a sample puts it behind all the others.
LEMMA AcceptOrdered ==
  ASSUME TypeOK, Ordered, ProcessSample
  PROVE  Ordered'
<1>1. /\ sampleQueue' = Append(sampleQueue, accepted + 1)
      /\ accepted' = accepted + 1 /\ accepted \in Nat /\ inHand \in Nat
      /\ sampleQueue \in Seq(Nat \ {0}) /\ delivered \in Seq(Nat)
      /\ UNCHANGED <<delivered, inHand, dispatcher>>
  BY DEF ProcessSample, threadVars, TypeOK
<1>2. /\ \A i \in DOMAIN sampleQueue :
             i \in Nat /\ i < Len(sampleQueue) + 1 /\ sampleQueue'[i] = sampleQueue[i]
      /\ \A i \in DOMAIN sampleQueue' :
             i \in DOMAIN sampleQueue \/ i = Len(sampleQueue) + 1
      /\ sampleQueue'[Len(sampleQueue) + 1] = accepted + 1
      /\ \A i \in DOMAIN sampleQueue : sampleQueue[i] \in Nat
      /\ \A i \in DOMAIN delivered : delivered[i] \in Nat
      /\ Len(sampleQueue) \in Nat
  BY <1>1, PushFacts, LenProperties
<1>3. SamplesOrdered'
  BY <1>1, <1>2 DEF Ordered, SamplesOrdered
<1>4. QED
  BY <1>1, <1>3 DEF Ordered, HandOrdered, DeliveredInOrder

\* Emptying the sample queue keeps the order.
LEMMA ClearOrdered ==
  ASSUME TypeOK, Ordered, sampleQueue' = <<>>,
         UNCHANGED <<delivered, accepted, inHand, dispatcher>>
  PROVE  Ordered'
  BY DEF Ordered, SamplesOrdered, HandOrdered, DeliveredInOrder

\* Steps that touch none of the samples keep the order.
LEMMA SameOrdered ==
  ASSUME Ordered, UNCHANGED <<sampleQueue, delivered, accepted, inHand, dispatcher>>
  PROVE  Ordered'
  BY DEF Ordered, SamplesOrdered, HandOrdered, DeliveredInOrder

\* The end of OnDispatchWorkItem moves the sample in hand to the delivered ones.
LEMMA DeliverOrdered ==
  ASSUME TypeOK, Ordered, OnH264Encoded
  PROVE  Ordered'
<1>1. /\ sampleQueue' = sampleQueue /\ accepted' = accepted
      /\ dispatcher = "calling" /\ inHand \in Nat \ {0}
      /\ delivered \in Seq(Nat) /\ sampleQueue \in Seq(Nat \ {0})
      /\ accepted \in Nat
  BY DEF OnH264Encoded, Ordered, HandOrdered, TypeOK, callVars
<1>2. CASE UNCHANGED <<delivered, dispatcher, inHand>>
  BY <1>1, <1>2, SameOrdered
<1>3. CASE delivered' = Append(delivered, inHand) /\ dispatcher' = "idle" /\ inHand' = 0
  <2>1. /\ \A i \in DOMAIN delivered :
               i \in Nat /\ i < Len(delivered) + 1 /\ delivered'[i] = delivered[i]
        /\ \A i \in DOMAIN delivered' :
               i \in DOMAIN delivered \/ i = Len(delivered) + 1
        /\ delivered'[Len(delivered) + 1] = inHand
        /\ \A i \in DOMAIN delivered : delivered[i] \in Nat
        /\ \A i \in DOMAIN sampleQueue : sampleQueue[i] \in Nat \ {0}
        /\ Len(delivered) \in Nat
    BY <1>1, <1>3, PushFacts, LenProperties
  <2>2. SamplesOrdered'
    BY <1>1, <1>3, <2>1 DEF Ordered, SamplesOrdered
  <2>3. DeliveredInOrder'
    BY <1>1, <2>1 DEF Ordered, HandOrdered, DeliveredInOrder
  <2>4. QED
    BY <1>3, <2>2, <2>3 DEF Ordered, HandOrdered
<1>4. QED
  BY <1>2, <1>3 DEF OnH264Encoded

\* Every step keeps the samples in order.
LEMMA OrderedStep ==
  ASSUME TypeOK, Ordered, [Next]_vars
  PROVE  Ordered'
<1>1. CASE ProcessSample
  BY <1>1, AcceptOrdered
<1>2. CASE Flush \/ Shutdown \/ DispatchStop
  BY <1>2, ClearOrdered
     DEF Flush, Shutdown, DispatchStop, Dispatching, callVars, threadVars
<1>3. CASE DispatchStart \/ DispatchProcessSample
  BY <1>3, TakeOrdered
     DEF DispatchStart, DispatchProcessSample, Dispatching, callVars
<1>4. CASE DispatchAfterShutdown
  BY <1>4, ClearOrdered, SameOrdered
     DEF DispatchAfterShutdown, Dispatching, callVars
<1>5. CASE EnterCallback
  BY <1>5, SameOrdered
     DEF EnterCallback, callVars, Ordered, SamplesOrdered, HandOrdered,
         DeliveredInOrder, TypeOK
<1>6. CASE OnH264Encoded
  BY <1>6, DeliverOrdered
<1>7. CASE DispatchNotification
  BY <1>7, SameOrdered DEF DispatchNotification, Dispatching, callVars
<1>8. CASE UNCHANGED vars
  BY <1>8, SameOrdered DEF vars
<1>9. ASSUME \/ \E t \in Subtypes : SetCurrentMediaType(t) \/ SetCurrentMediaTypeFails(t)
             \/ RegisterEncodingCallback \/ Start \/ Stop
             \/ ProcessSampleRefused \/ PlaceMarker
      PROVE  Ordered'
  BY <1>9, SameOrdered
     DEF SetCurrentMediaType, SetCurrentMediaTypeFails, RegisterEncodingCallback,
         Start, Stop, ProcessSampleRefused, PlaceMarker, callVars, threadVars
<1>10. QED
  BY <1>1, <1>2, <1>3, <1>4, <1>5, <1>6, <1>7, <1>8, <1>9
     DEF Next, Calls, OnDispatchWorkItem

-----------------------------------------------------------------------------
(***************************************************************************)
(* The order of the work items, and the item of each queued sample.        *)
(***************************************************************************)

WorkInv == WorkOrdered /\ OwnItemPending

\* A posted item goes behind all the others, whose tags do not exceed its own.
LEMMA PostOrdered ==
  ASSUME TypeOK, WorkOrdered, NEW op \in Operations, NEW n \in Nat,
         QueueAsyncOperation(op, n), accepted' = n,
         \/ n = accepted /\ op # "ProcessSample"
         \/ n = accepted + 1
  PROVE  WorkOrdered'
<1>1. workQueue \in Seq(WorkItem) /\ accepted \in Nat
  BY DEF TypeOK
<1>2. \A i \in DOMAIN workQueue : workQueue[i].after \in Nat /\ i \in Nat
  <2>1. \A i \in DOMAIN workQueue : workQueue[i] \in WorkItem /\ i \in Nat
    BY <1>1, LenProperties
  <2>2. QED
    BY <2>1 DEF WorkItem
<1>3. CASE UNCHANGED workQueue
  BY <1>1, <1>2, <1>3 DEF WorkOrdered
<1>4. CASE workQueue' = Append(workQueue, [op |-> op, after |-> n])
  <2>1. [op |-> op, after |-> n] \in WorkItem
    BY DEF WorkItem
  <2>2. /\ \A i \in DOMAIN workQueue :
               i < Len(workQueue) + 1 /\ workQueue'[i] = workQueue[i]
        /\ \A i \in DOMAIN workQueue' :
               i \in DOMAIN workQueue \/ i = Len(workQueue) + 1
        /\ workQueue'[Len(workQueue) + 1] = [op |-> op, after |-> n]
        /\ Len(workQueue) \in Nat
    BY <1>1, <1>4, <2>1, PushFacts, LenProperties
  <2>3. \A i \in DOMAIN workQueue' : workQueue'[i].after <= accepted'
    BY <1>1, <1>2, <2>2 DEF WorkOrdered
  <2>4. ASSUME NEW i \in DOMAIN workQueue', NEW j \in DOMAIN workQueue', i < j
        PROVE  /\ workQueue'[i].after <= workQueue'[j].after
               /\ workQueue'[j].op = "ProcessSample" =>
                    workQueue'[i].after < workQueue'[j].after
    <3>1. i \in DOMAIN workQueue
      BY <1>2, <2>2, <2>4
    <3>2. CASE j \in DOMAIN workQueue
      BY <2>2, <2>4, <3>1, <3>2 DEF WorkOrdered
    <3>3. CASE j = Len(workQueue) + 1
      BY <1>1, <1>2, <2>2, <3>1, <3>3 DEF WorkOrdered
    <3>4. QED
      BY <2>2, <3>2, <3>3
  <2>5. QED
    BY <2>3, <2>4 DEF WorkOrdered
<1>5. QED
  BY <1>3, <1>4 DEF QueueAsyncOperation

\* Posting an item loses none of the pending ones.
LEMMA PostKeeps ==
  ASSUME TypeOK, NEW op \in Operations, NEW n \in Nat,
         QueueAsyncOperation(op, n), ~isShutdown, putFailures' = 0
  PROVE  /\ putFailures = 0
         /\ \A k \in DOMAIN workQueue :
              k \in DOMAIN workQueue' /\ workQueue'[k] = workQueue[k]
         /\ \E k \in DOMAIN workQueue' :
              workQueue'[k] = [op |-> op, after |-> n]
<1>1. workQueue \in Seq(WorkItem) /\ putFailures \in Nat
  BY DEF TypeOK
<1>2. [op |-> op, after |-> n] \in WorkItem
  BY DEF WorkItem
<1>3. /\ workQueue' = Append(workQueue, [op |-> op, after |-> n])
      /\ putFailures = 0
  BY <1>1 DEF QueueAsyncOperation
<1>4. QED
  BY <1>1, <1>2, <1>3, PushFacts

\* Taking the first work item keeps the order of the others.
LEMMA DispatchOrdered ==
  ASSUME TypeOK, WorkOrdered, NEW op, Dispatching(op)
  PROVE  /\ WorkOrdered'
         /\ \A k \in DOMAIN workQueue :
              k = 1 \/ (k - 1 \in DOMAIN workQueue' /\ workQueue'[k - 1] = workQueue[k])
         /\ workQueue[1].op = op /\ 1 \in DOMAIN workQueue
<1>1. workQueue \in Seq(WorkItem) /\ workQueue # <<>> /\ accepted' = accepted
      /\ workQueue' = Tail(workQueue)
  BY DEF TypeOK, Dispatching, callVars
<1>2. /\ 1 \in DOMAIN workQueue /\ Head(workQueue) = workQueue[1]
      /\ \A i \in DOMAIN workQueue' :
           i \in Nat /\ i + 1 \in DOMAIN workQueue /\ workQueue'[i] = workQueue[i + 1]
      /\ \A i \in DOMAIN workQueue : i \in Nat /\ (i # 1 => i - 1 \in DOMAIN workQueue')
  BY <1>1, PopFacts, LenProperties
<1>3. WorkOrdered'
  BY <1>1, <1>2 DEF WorkOrdered
<1>4. QED
  BY <1>2, <1>3 DEF Dispatching

\* Taking the next sample leaves every queued sample its own item: the item
\* that is taken is at most that of the sample that is taken.
LEMMA TakeOwnItem ==
  ASSUME TypeOK, Ordered, WorkInv, NEW op, Dispatching(op),
         op \in {"Start", "ProcessSample"}, ProcessSamplesFromQueue
  PROVE  OwnItemPending'
<1>1. sampleQueue \in Seq(Nat \ {0}) /\ putFailures' = putFailures
  BY DEF TypeOK, Dispatching, callVars
<1>2. SUFFICES ASSUME putFailures = 0, NEW i \in DOMAIN sampleQueue'
               PROVE  \E k \in DOMAIN workQueue' :
                        /\ workQueue'[k].op = "ProcessSample"
                        /\ workQueue'[k].after = sampleQueue'[i]
  BY <1>1 DEF OwnItemPending
<1>3. CASE sampleQueue = <<>>
  BY <1>3, <1>2 DEF ProcessSamplesFromQueue
<1>4. CASE sampleQueue # <<>>
  <2>1. /\ 1 \in DOMAIN sampleQueue /\ i \in Nat \ {0}
        /\ i + 1 \in DOMAIN sampleQueue /\ sampleQueue'[i] = sampleQueue[i + 1]
    BY <1>1, <1>2, <1>4, PopFacts, LenProperties DEF ProcessSamplesFromQueue
  <2>2. sampleQueue[1] < sampleQueue[i + 1]
    BY <2>1 DEF Ordered, SamplesOrdered
  <2>3. PICK k \in DOMAIN workQueue :
          workQueue[k].op = "ProcessSample" /\ workQueue[k].after = sampleQueue[i + 1]
    BY <1>2, <2>1 DEF WorkInv, OwnItemPending
  <2>4. PICK f \in DOMAIN workQueue :
          workQueue[f].op = "ProcessSample" /\ workQueue[f].after = sampleQueue[1]
    BY <1>2, <2>1 DEF WorkInv, OwnItemPending
  <2>5. f < k
    <3>1. f \in Nat /\ k \in Nat
      BY LenProperties DEF TypeOK
    <3>2. sampleQueue[1] \in Nat /\ sampleQueue[i + 1] \in Nat
      BY <1>1, <2>1, LenProperties
    <3>3. QED
      BY <2>2, <2>3, <2>4, <3>1, <3>2 DEF WorkInv, WorkOrdered
  <2>6. k # 1
    BY <2>5, LenProperties DEF TypeOK
  <2>7. k - 1 \in DOMAIN workQueue' /\ workQueue'[k - 1] = workQueue[k]
    BY <2>6, DispatchOrdered DEF WorkInv
  <2>8. QED
    BY <2>1, <2>3, <2>7
<1>5. QED
  BY <1>3, <1>4

\* Every call keeps the order of the work items and the item of each sample.
LEMMA CallsWorkInv ==
  ASSUME TypeOK, WorkInv, ShutdownClears, Calls
  PROVE  WorkInv'
<1> DEFINE Post(op) == QueueAsyncOperation(op, accepted)
<1>1. accepted \in Nat /\ putFailures \in Nat
  BY DEF TypeOK
<1>2. ASSUME NEW op \in Operations \ {"ProcessSample"}, Post(op),
             UNCHANGED <<accepted, sampleQueue>>
      PROVE  WorkInv'
  <2>1. WorkOrdered'
    BY <1>1, <1>2, PostOrdered DEF WorkInv
  <2>2. OwnItemPending'
    <3>1. CASE isShutdown
      BY <1>2, <3>1 DEF ShutdownClears, OwnItemPending
    <3>2. CASE ~isShutdown
      BY <1>1, <1>2, <3>2, PostKeeps DEF WorkInv, OwnItemPending
    <3>3. QED
      BY <3>1, <3>2
  <2>3. QED
    BY <2>1, <2>2 DEF WorkInv
<1>3. ASSUME UNCHANGED <<accepted, workQueue, putFailures>>,
             sampleQueue' = sampleQueue \/ sampleQueue' = <<>>
      PROVE  WorkInv'
  BY <1>3 DEF WorkInv, WorkOrdered, OwnItemPending
<1>4. CASE ProcessSample
  <2>1. /\ QueueAsyncOperation("ProcessSample", accepted + 1)
        /\ accepted' = accepted + 1 /\ ~isShutdown
        /\ sampleQueue' = Append(sampleQueue, accepted + 1)
        /\ sampleQueue \in Seq(Nat \ {0})
    BY <1>4 DEF ProcessSample, TypeOK
  <2>2. WorkOrdered'
    BY <1>1, <2>1, PostOrdered DEF WorkInv, Operations
  <2>3. ASSUME putFailures' = 0, NEW i \in DOMAIN sampleQueue'
        PROVE  \E k \in DOMAIN workQueue' :
                 /\ workQueue'[k].op = "ProcessSample"
                 /\ workQueue'[k].after = sampleQueue'[i]
    <3>1. /\ putFailures = 0
          /\ \A k \in DOMAIN workQueue :
               k \in DOMAIN workQueue' /\ workQueue'[k] = workQueue[k]
          /\ \E k \in DOMAIN workQueue' :
               workQueue'[k] = [op |-> "ProcessSample", after |-> accepted + 1]
      BY <1>1, <2>1, <2>3, PostKeeps DEF Operations
    <3>2. \/ i \in DOMAIN sampleQueue /\ sampleQueue'[i] = sampleQueue[i]
          \/ sampleQueue'[i] = accepted + 1
      BY <1>1, <2>1, <2>3, PushFacts
    <3>3. QED
      BY <3>1, <3>2 DEF WorkInv, OwnItemPending
  <2>4. QED
    BY <2>2, <2>3 DEF WorkInv, OwnItemPending
<1>5. ASSUME NEW t \in Subtypes, SetCurrentMediaType(t) PROVE WorkInv'
  <2>1. "SetMediaType" \in Operations \ {"ProcessSample"}
    BY DEF Operations
  <2>2. QED
    BY <1>2, <1>3, <1>5, <2>1 DEF SetCurrentMediaType, threadVars
<1>6. CASE Start \/ Stop \/ PlaceMarker
  <2>1. {"Start", "Stop", "PlaceMarker"} \subseteq Operations \ {"ProcessSample"}
    BY DEF Operations
  <2>2. QED
    BY <1>2, <1>6, <2>1 DEF Start, Stop, PlaceMarker
<1>7. CASE RegisterEncodingCallback \/ ProcessSampleRefused \/ Flush \/ Shutdown
  BY <1>3, <1>7
     DEF RegisterEncodingCallback, ProcessSampleRefused, Flush, Shutdown, callVars
<1>8. ASSUME NEW t \in Subtypes, SetCurrentMediaTypeFails(t) PROVE WorkInv'
  BY <1>3, <1>8 DEF SetCurrentMediaTypeFails
<1>9. QED
  BY <1>4, <1>5, <1>6, <1>7, <1>8 DEF Calls

\* So does every step of the thread of the work queue.
LEMMA DispatchWorkInv ==
  ASSUME TypeOK, Ordered, WorkInv, ShutdownClears, OnDispatchWorkItem
  PROVE  WorkInv'
<1>1. CASE DispatchStart
  <2>1. Dispatching("Start") /\ ProcessSamplesFromQueue
    BY <1>1 DEF DispatchStart
  <2>2. QED
    BY <2>1, TakeOwnItem, DispatchOrdered DEF WorkInv
<1>2. CASE DispatchProcessSample
  <2>1. Dispatching("ProcessSample") /\ ProcessSamplesFromQueue
    BY <1>2 DEF DispatchProcessSample
  <2>2. QED
    BY <2>1, TakeOwnItem, DispatchOrdered DEF WorkInv
<1>3. CASE DispatchStop \/ DispatchAfterShutdown
  <2>1. PICK op : Dispatching(op) /\ sampleQueue' = <<>>
    BY <1>3 DEF DispatchStop, DispatchAfterShutdown, QueueEvent, ShutdownClears
  <2>2. WorkOrdered'
    BY <2>1, DispatchOrdered DEF WorkInv
  <2>3. QED
    BY <2>1, <2>2 DEF WorkInv, OwnItemPending
<1>4. CASE DispatchNotification
  <2>1. PICK op \in {"PlaceMarker", "SetMediaType"} : Dispatching(op)
    BY <1>4 DEF DispatchNotification
  <2>2. UNCHANGED <<sampleQueue, putFailures>>
    BY <1>4, <2>1 DEF DispatchNotification, Dispatching, callVars
  <2>3. /\ WorkOrdered'
        /\ \A k \in DOMAIN workQueue : workQueue[k].op = "ProcessSample" =>
             k - 1 \in DOMAIN workQueue' /\ workQueue'[k - 1] = workQueue[k]
    BY <2>1, DispatchOrdered DEF WorkInv
  <2>4. QED
    BY <2>2, <2>3 DEF WorkInv, OwnItemPending
<1>5. CASE EnterCallback \/ OnH264Encoded
  BY <1>5 DEF EnterCallback, OnH264Encoded, callVars, WorkInv, WorkOrdered,
              OwnItemPending
<1>6. QED
  BY <1>1, <1>2, <1>3, <1>4, <1>5 DEF OnDispatchWorkItem

\* Shutdown is final and leaves no sample queued.
LEMMA ShutdownClearsStep ==
  ASSUME TypeOK, ShutdownClears, [Next]_vars
  PROVE  ShutdownClears'
<1>1. ASSUME Calls PROVE ShutdownClears'
  BY <1>1
     DEF Calls, SetCurrentMediaType, SetCurrentMediaTypeFails,
         RegisterEncodingCallback, Start, Stop,
         ProcessSample, ProcessSampleRefused, PlaceMarker, Flush, Shutdown,
         callVars, threadVars, ShutdownClears
<1>2. ASSUME OnDispatchWorkItem PROVE ShutdownClears'
  BY <1>2
     DEF OnDispatchWorkItem, DispatchStart, DispatchStop, DispatchProcessSample,
         DispatchNotification, DispatchAfterShutdown, Dispatching, QueueEvent,
         EnterCallback, OnH264Encoded, ShutdownClears
<1>3. CASE UNCHANGED vars
  BY <1>3 DEF vars, ShutdownClears
<1>4. QED
  BY <1>1, <1>2, <1>3 DEF Next

-----------------------------------------------------------------------------
(***************************************************************************)
(* The writer always has, or is about to get, a request to answer.         *)
(***************************************************************************)

\* The calls keep the writer supplied: a call either posts an item that asks
\* for a sample, or takes nothing away.
LEMMA CallsStarve ==
  ASSUME TypeOK, WriterNeverStarves, Calls
  PROVE  WriterNeverStarves'
<1>1. accepted \in Nat /\ requests \in Nat /\ putFailures \in Nat
  BY DEF TypeOK
<1>2. SUFFICES ASSUME state' = "Started", ~isShutdown', putFailures' = 0
               PROVE  \/ requests' > 0
                      \/ \E i \in DOMAIN workQueue' :
                           workQueue'[i].op \in {"Start", "ProcessSample"}
  BY DEF WriterNeverStarves
<1>3. ASSUME NEW op \in Operations, NEW n \in Nat, QueueAsyncOperation(op, n),
             ~isShutdown, requests' = requests,
             state = "Started" \/ op = "Start"
      PROVE  \/ requests' > 0
             \/ \E i \in DOMAIN workQueue' :
                  workQueue'[i].op \in {"Start", "ProcessSample"}
  BY <1>2, <1>3, PostKeeps DEF WriterNeverStarves
<1>4. ASSUME UNCHANGED <<state, isShutdown, workQueue, requests, putFailures>>
      PROVE  \/ requests' > 0
             \/ \E i \in DOMAIN workQueue' :
                  workQueue'[i].op \in {"Start", "ProcessSample"}
  BY <1>2, <1>4 DEF WriterNeverStarves
<1>5. ASSUME NEW t \in Subtypes, SetCurrentMediaType(t)
      PROVE  \/ requests' > 0
             \/ \E i \in DOMAIN workQueue' :
                  workQueue'[i].op \in {"Start", "ProcessSample"}
  <2>1. state = "Started" /\ ~isShutdown /\ requests' = requests
    BY <1>2, <1>5 DEF SetCurrentMediaType
  <2>2. QueueAsyncOperation("SetMediaType", accepted)
    BY <1>5, <2>1 DEF SetCurrentMediaType
  <2>3. QED
    BY <1>1, <1>3, <2>1, <2>2 DEF Operations
<1>6. CASE Start
  BY <1>1, <1>2, <1>3, <1>6 DEF Start, Operations
<1>7. CASE Stop
  BY <1>2, <1>7 DEF Stop
<1>8. CASE PlaceMarker
  BY <1>1, <1>2, <1>3, <1>8 DEF PlaceMarker, Operations
<1>9. CASE ProcessSample
  <2>1. QueueAsyncOperation("ProcessSample", accepted + 1) /\ ~isShutdown
    BY <1>9 DEF ProcessSample
  <2>2. \E k \in DOMAIN workQueue' :
          workQueue'[k] = [op |-> "ProcessSample", after |-> accepted + 1]
    BY <1>1, <1>2, <2>1, PostKeeps DEF Operations
  <2>3. QED
    BY <2>2
<1>10. CASE ProcessSampleRefused
  BY <1>2, <1>10 DEF ProcessSampleRefused, ValidateOperation, ValidStateMatrix,
                     States, callVars
<1>11. CASE RegisterEncodingCallback \/ Flush
  BY <1>4, <1>11 DEF RegisterEncodingCallback, Flush, callVars
<1>12. CASE Shutdown
  BY <1>2, <1>12 DEF Shutdown
<1>13. CASE \E t \in Subtypes : SetCurrentMediaTypeFails(t)
  BY <1>4, <1>13 DEF SetCurrentMediaTypeFails
<1>14. QED
  BY <1>5, <1>6, <1>7, <1>8, <1>9, <1>10, <1>11, <1>12, <1>13 DEF Calls

\* So does the thread of the work queue: OpProcessSample asks for a sample
\* itself, and an OpStart that asks for none leaves the OpProcessSample of
\* the sample it takes pending.
LEMMA DispatchStarve ==
  ASSUME TypeOK, WorkInv, WriterNeverStarves, OnDispatchWorkItem
  PROVE  WriterNeverStarves'
<1>1. requests \in Nat /\ sampleQueue \in Seq(Nat \ {0})
  BY DEF TypeOK
<1>2. ASSUME NEW op, Dispatching(op), op \notin {"Start", "ProcessSample"},
             UNCHANGED requests
      PROVE  WriterNeverStarves'
  <2>1. \A k \in DOMAIN workQueue : workQueue[k].op \in {"Start", "ProcessSample"} =>
          k - 1 \in DOMAIN workQueue' /\ workQueue'[k - 1] = workQueue[k]
    BY <1>2, DispatchOrdered DEF WorkInv
  <2>2. UNCHANGED <<state, isShutdown, putFailures>>
    BY <1>2 DEF Dispatching, callVars
  <2>3. QED
    BY <1>2, <2>1, <2>2 DEF WriterNeverStarves
<1>3. CASE DispatchStart
  <2>1. CASE sampleQueue = <<>>
    BY <1>1, <1>3, <2>1 DEF DispatchStart, WriterNeverStarves
  <2>2. CASE sampleQueue # <<>> /\ putFailures = 0
    <3>1. 1 \in DOMAIN sampleQueue /\ Dispatching("Start")
      BY <1>1, <1>3, <2>2, PopFacts DEF DispatchStart
    <3>2. PICK k \in DOMAIN workQueue : workQueue[k].op = "ProcessSample"
      BY <2>2, <3>1 DEF WorkInv, OwnItemPending
    <3>3. k - 1 \in DOMAIN workQueue' /\ workQueue'[k - 1] = workQueue[k]
      BY <3>1, <3>2, DispatchOrdered DEF WorkInv
    <3>4. QED
      BY <3>2, <3>3 DEF WriterNeverStarves
  <2>3. CASE putFailures # 0
    BY <1>3, <2>3 DEF DispatchStart, Dispatching, callVars, WriterNeverStarves
  <2>4. QED
    BY <2>1, <2>2, <2>3
<1>4. CASE DispatchProcessSample
  BY <1>1, <1>4 DEF DispatchProcessSample, WriterNeverStarves
<1>5. CASE DispatchStop
  BY <1>2, <1>5 DEF DispatchStop
<1>6. CASE DispatchNotification
  BY <1>2, <1>6 DEF DispatchNotification
<1>7. CASE DispatchAfterShutdown
  BY <1>7 DEF DispatchAfterShutdown, Dispatching, QueueEvent, WriterNeverStarves
<1>8. CASE EnterCallback \/ OnH264Encoded
  BY <1>8 DEF EnterCallback, OnH264Encoded, callVars, WriterNeverStarves
<1>9. QED
  BY <1>3, <1>4, <1>5, <1>6, <1>7, <1>8 DEF OnDispatchWorkItem

-----------------------------------------------------------------------------
(***************************************************************************)
(* The theorems.                                                           *)
(***************************************************************************)

\* The invariant holds initially and no step breaks it.
LEMMA Inductive == Spec => []IInv
<1>1. Init => IInv
  <2>1. Init => TypeOK
    <3>1. /\ <<>> \in Seq(Nat \ {0}) /\ <<>> \in Seq(Nat)
          /\ <<>> \in Seq(WorkItem) /\ 0 \in Nat
      BY EmptySeq
    <3>2. QED
      BY <3>1, Zenon DEF Init, TypeOK, States
  <2>2. QED
    BY <2>1 DEF Init, IInv, Ordered, SamplesOrdered, HandOrdered,
                DeliveredInOrder, ShutdownClears, WorkOrdered, OwnItemPending,
                WriterNeverStarves
<1>2. IInv /\ [Next]_vars => IInv'
  <2>1. SUFFICES ASSUME IInv, [Next]_vars PROVE IInv'
    OBVIOUS
  <2>2. TypeOK /\ Ordered /\ WorkInv /\ ShutdownClears /\ WriterNeverStarves
    BY <2>1 DEF IInv, WorkInv
  <2>3. Ordered' /\ ShutdownClears'
    BY <2>1, <2>2, OrderedStep, ShutdownClearsStep
  <2>4. TypeOK' /\ WorkInv' /\ WriterNeverStarves'
    <3>1. CASE Calls
      BY <2>2, <3>1, CallsType, CallsWorkInv, CallsStarve
    <3>2. CASE OnDispatchWorkItem
      BY <2>2, <3>2, DispatchType, DispatchWorkInv, DispatchStarve
    <3>3. CASE UNCHANGED vars
      BY <2>2, <3>3 DEF vars, TypeOK, WorkInv, WorkOrdered, OwnItemPending,
                        WriterNeverStarves
    <3>4. QED
      BY <2>1, <3>1, <3>2, <3>3 DEF Next
  <2>5. QED
    BY <2>3, <2>4 DEF IInv, WorkInv
<1>3. QED
  BY <1>1, <1>2, PTL DEF Spec

\* OnH264Encoded gets the samples ProcessSample accepted in their order and
\* none twice, for any number of samples and calls.
THEOREM DeliveryOrder == Spec => []DeliveredInOrder
<1>1. IInv => DeliveredInOrder
  BY DEF IInv, Ordered
<1>2. QED
  BY <1>1, Inductive, PTL

\* OnDispatchWorkItem never leaves the writer of a started stream without a
\* request and without a work item that will ask for a sample.
THEOREM NoStarvation == Spec => []WriterNeverStarves
<1>1. IInv => WriterNeverStarves
  BY DEF IInv
<1>2. QED
  BY <1>1, Inductive, PTL

\* The marker event of PlaceMarker never overtakes a sample accepted before.
THEOREM MarkerOrder == Spec => []MarkerAfterSamples
<1>1. IInv => MarkerAfterSamples
  <2>1. SUFFICES ASSUME IInv, workQueue # <<>>, putFailures = 0,
                        Head(workQueue).op = "PlaceMarker",
                        NEW i \in DOMAIN sampleQueue
                 PROVE  sampleQueue[i] > Head(workQueue).after
    BY DEF MarkerAfterSamples
  <2>2. PICK k \in DOMAIN workQueue :
          workQueue[k].op = "ProcessSample" /\ workQueue[k].after = sampleQueue[i]
    BY <2>1 DEF IInv, OwnItemPending
  <2>3. workQueue \in Seq(WorkItem) /\ sampleQueue \in Seq(Nat \ {0})
    BY <2>1 DEF IInv, TypeOK
  <2>4. /\ Head(workQueue) = workQueue[1] /\ 1 \in DOMAIN workQueue
        /\ k \in Nat \ {0}
    BY <2>1, <2>3, PopFacts, LenProperties
  <2>5. 1 < k
    BY <2>1, <2>2, <2>4
  <2>6. workQueue[1].after < workQueue[k].after
    BY <2>1, <2>2, <2>4, <2>5 DEF IInv, WorkOrdered
  <2>7. workQueue[1].after \in Nat /\ sampleQueue[i] \in Nat
    <3>1. workQueue[1] \in WorkItem /\ sampleQueue[i] \in Nat
      BY <2>3, <2>4, LenProperties
    <3>2. QED
      BY <3>1 DEF WorkItem
  <2>8. QED
    BY <2>2, <2>4, <2>6, <2>7
<1>2. QED
  BY <1>1, Inductive, PTL

\* After Shutdown no call of OnH264Encoded starts.
THEOREM QuietAfterShutdown == Spec => NoCallStartsAfterShutdown
<1>1. IInv /\ [Next]_vars =>
        [isShutdown /\ dispatcher # "calling" => dispatcher' # "calling"]_vars
  <2>1. ASSUME Calls PROVE dispatcher' = dispatcher
    BY <2>1
       DEF Calls, SetCurrentMediaType, SetCurrentMediaTypeFails,
         RegisterEncodingCallback, Start, Stop,
           ProcessSample, ProcessSampleRefused, PlaceMarker, Flush, Shutdown,
           threadVars
  <2>2. ASSUME IInv, OnDispatchWorkItem, isShutdown, dispatcher # "calling"
        PROVE  dispatcher' # "calling"
    BY <2>2
       DEF OnDispatchWorkItem, DispatchStart, DispatchStop, DispatchProcessSample,
           DispatchNotification, DispatchAfterShutdown, Dispatching, QueueEvent,
           EnterCallback, OnH264Encoded, IInv, ShutdownClears
  <2>3. QED
    BY <2>1, <2>2 DEF Next
<1>2. QED
  BY <1>1, Inductive, PTL DEF Spec, NoCallStartsAfterShutdown

-----------------------------------------------------------------------------
(***************************************************************************)
(* The stream sink implements the channel, step by step.                   *)
(***************************************************************************)

\* The callback is cleared by Shutdown only.
NullOnlyAfterShutdown == callback = "null" => isShutdown

\* RegisterEncodingCallback never clears it, and nothing revives the sink.
LEMMA NullStep == NullOnlyAfterShutdown /\ [Next]_vars => NullOnlyAfterShutdown'
<1> SUFFICES ASSUME NullOnlyAfterShutdown, [Next]_vars PROVE NullOnlyAfterShutdown'
  OBVIOUS
<1> USE DEF NullOnlyAfterShutdown
<1>1. CASE Shutdown \/ RegisterEncodingCallback
  BY <1>1 DEF Shutdown, RegisterEncodingCallback
<1>2. CASE \E t \in Subtypes : SetCurrentMediaType(t) \/ SetCurrentMediaTypeFails(t)
  BY <1>2 DEF SetCurrentMediaType, SetCurrentMediaTypeFails
<1>3. CASE Start \/ Stop \/ ProcessSample \/ ProcessSampleRefused \/ PlaceMarker \/ Flush
  BY <1>3 DEF Start, Stop, ProcessSample, ProcessSampleRefused, PlaceMarker, Flush
<1>4. CASE OnDispatchWorkItem
  BY <1>4 DEF OnDispatchWorkItem, DispatchStart, DispatchStop, DispatchProcessSample,
     DispatchNotification, DispatchAfterShutdown, Dispatching, EnterCallback, OnH264Encoded
<1>5. CASE UNCHANGED vars
  BY <1>5 DEF vars
<1>6. QED
  BY <1>1, <1>2, <1>3, <1>4, <1>5 DEF Next, Calls

\* Until the callback is registered no request has been made, no sample taken
\* and no item posted that would lead to either.
QuietUntilRegistered ==
  callback = "uninit" =>
    /\ dispatcher = "idle" /\ requests = 0 /\ sampleQueue = <<>>
    /\ \A i \in DOMAIN workQueue : workQueue[i].op \notin {"Start", "ProcessSample"}

\* The only call through a bad pointer is the one Shutdown overtakes.
CrashExplained ==
  crashed => isShutdown /\ callback = "null" /\ dispatcher = "calling"

\* An item that asks for no sample does not break the silence.
LEMMA PostQuiet ==
  ASSUME TypeOK, QuietUntilRegistered, callback = "uninit",
         NEW op \in Operations \ {"Start", "ProcessSample"},
         QueueAsyncOperation(op, accepted)
  PROVE  \A i \in DOMAIN workQueue' : workQueue'[i].op \notin {"Start", "ProcessSample"}
<1>1. workQueue \in Seq(WorkItem) /\ [op |-> op, after |-> accepted] \in WorkItem
  BY DEF TypeOK, WorkItem
<1>2. CASE workQueue' = workQueue
  BY <1>2 DEF QuietUntilRegistered
<1>3. CASE workQueue' = Append(workQueue, [op |-> op, after |-> accepted])
  BY <1>1, <1>3, PushFacts DEF QuietUntilRegistered
<1>4. QED
  BY <1>2, <1>3 DEF QueueAsyncOperation

\* The calls keep the silence until RegisterEncodingCallback ends it.
LEMMA CallsQuiet ==
  ASSUME TypeOK, QuietUntilRegistered, Calls
  PROVE  QuietUntilRegistered'
<1>1. SUFFICES ASSUME callback' = "uninit"
               PROVE  QuietUntilRegistered'
  BY DEF QuietUntilRegistered
<1>2. ASSUME NEW t \in Subtypes, SetCurrentMediaType(t) PROVE QuietUntilRegistered'
  <2>1. CASE UNCHANGED workQueue
    BY <1>1, <1>2, <2>1 DEF SetCurrentMediaType, threadVars, QuietUntilRegistered
  <2>2. CASE QueueAsyncOperation("SetMediaType", accepted)
    BY <1>1, <1>2, <2>2, PostQuiet
       DEF SetCurrentMediaType, threadVars, QuietUntilRegistered, Operations
  <2>3. QED
    BY <1>2, <2>1, <2>2 DEF SetCurrentMediaType
<1>3. CASE Stop
  BY <1>1, <1>3, PostQuiet DEF Stop, threadVars, QuietUntilRegistered, Operations
<1>4. CASE PlaceMarker
  BY <1>1, <1>4, PostQuiet DEF PlaceMarker, threadVars, QuietUntilRegistered, Operations
<1>5. CASE (callback # "uninit" /\ Start) \/ RegisterEncodingCallback \/ Shutdown
  BY <1>1, <1>5 DEF Start, RegisterEncodingCallback, Shutdown
<1>6. CASE ProcessSample \/ ProcessSampleRefused
  BY <1>1, <1>6 DEF ProcessSample, ProcessSampleRefused, QuietUntilRegistered
<1>7. CASE Flush
  BY <1>1, <1>7 DEF Flush, callVars, threadVars, QuietUntilRegistered
<1>8. CASE \E t \in Subtypes : SetCurrentMediaTypeFails(t)
  BY <1>1, <1>8 DEF SetCurrentMediaTypeFails, threadVars, QuietUntilRegistered
<1>9. QED
  BY <1>2, <1>3, <1>4, <1>5, <1>6, <1>7, <1>8 DEF Calls

\* So does the thread of the work queue, which finds only items that ask for
\* nothing.
LEMMA DispatchQuiet ==
  ASSUME TypeOK, QuietUntilRegistered, OnDispatchWorkItem
  PROVE  QuietUntilRegistered'
<1>1. SUFFICES ASSUME callback' = "uninit"
               PROVE  QuietUntilRegistered'
  BY DEF QuietUntilRegistered
<1>2. callback = "uninit"
  BY <1>1 DEF OnDispatchWorkItem, DispatchStart, DispatchStop, DispatchProcessSample,
     DispatchNotification, DispatchAfterShutdown, Dispatching, EnterCallback, OnH264Encoded
<1>3. workQueue \in Seq(WorkItem) /\ dispatcher = "idle" /\ sampleQueue = <<>>
  BY <1>2 DEF TypeOK, QuietUntilRegistered
<1>4. ASSUME NEW op, Dispatching(op)
      PROVE  /\ op \notin {"Start", "ProcessSample"}
             /\ \A i \in DOMAIN workQueue' :
                  workQueue'[i].op \notin {"Start", "ProcessSample"}
  BY <1>2, <1>3, <1>4, PopFacts DEF Dispatching, QuietUntilRegistered
<1>5. CASE DispatchStop \/ DispatchNotification \/ DispatchAfterShutdown
  BY <1>2, <1>3, <1>4, <1>5
     DEF DispatchStop, DispatchNotification, DispatchAfterShutdown, QuietUntilRegistered
<1>6. CASE DispatchStart \/ DispatchProcessSample
  BY <1>4, <1>6 DEF DispatchStart, DispatchProcessSample
<1>7. CASE EnterCallback \/ OnH264Encoded
  BY <1>3, <1>7 DEF EnterCallback, OnH264Encoded
<1>8. QED
  BY <1>5, <1>6, <1>7 DEF OnDispatchWorkItem

\* No step but the end of an overtaken call sets crashed, and none follows it.
LEMMA CrashStep ==
  ASSUME QuietUntilRegistered, NullOnlyAfterShutdown, CrashExplained, TypeOK, [Next]_vars
  PROVE  CrashExplained'
<1>1. CASE UNCHANGED vars
  BY <1>1 DEF vars, CrashExplained
<1>2. CASE Calls
  BY <1>2
     DEF Calls, SetCurrentMediaType, SetCurrentMediaTypeFails, RegisterEncodingCallback,
         Start, Stop, ProcessSample, ProcessSampleRefused, PlaceMarker, Flush, Shutdown,
         CallAllowed, threadVars, CrashExplained
<1>3. CASE OnH264Encoded
  BY <1>3 DEF OnH264Encoded, QuietUntilRegistered, NullOnlyAfterShutdown, CrashExplained,
              TypeOK
<1>4. CASE EnterCallback
  BY <1>4 DEF EnterCallback, CrashExplained
<1>5. CASE OnDispatchWorkItem /\ ~OnH264Encoded /\ ~EnterCallback
  BY <1>5 DEF OnDispatchWorkItem, DispatchStart, DispatchStop, DispatchProcessSample,
     DispatchNotification, DispatchAfterShutdown, Dispatching, CrashExplained
<1>6. QED
  BY <1>1, <1>2, <1>3, <1>4, <1>5 DEF Next

\* OnDispatchWorkItem uses encodingCallback_ neither before it is registered
\* nor after Shutdown has cleared it, but for the call Shutdown overtakes.
THEOREM CallbackUseExplained == Spec => []CrashExplained
<1>1. Init => TypeOK /\ QuietUntilRegistered /\ NullOnlyAfterShutdown /\ CrashExplained
  <2>1. Init => QuietUntilRegistered /\ NullOnlyAfterShutdown /\ CrashExplained
    BY DEF Init, QuietUntilRegistered, NullOnlyAfterShutdown, CrashExplained
  <2>2. Init => TypeOK
    BY InitialTypes
  <2>3. QED
    BY <2>1, <2>2
<1>2. TypeOK /\ QuietUntilRegistered /\ [Next]_vars => QuietUntilRegistered'
  <2>1. CASE UNCHANGED vars
    BY <2>1 DEF vars, QuietUntilRegistered
  <2>2. QED
    BY <2>1, CallsQuiet, DispatchQuiet DEF Next
<1>3. QED
  BY <1>1, <1>2, NullStep, CrashStep, TypeCorrect, PTL DEF Spec

\* What the refinement needs of the invariant.
ChannelInv ==
  /\ sampleQueue \in Seq(Nat \ {0}) /\ inHand \in Nat /\ isShutdown \in BOOLEAN
  /\ dispatcher \in {"idle", "popped", "calling"}
  /\ dispatcher # "idle" => inHand # 0
  /\ isShutdown => sampleQueue = <<>> /\ callback = "null"
  /\ NullOnlyAfterShutdown

\* The sample in hand in front of the queue.
LEMMA FrontFacts ==
  ASSUME NEW S, NEW q \in Seq(S), NEW x \in S
  PROVE  /\ <<x>> \o q \in Seq(S) /\ <<x>> \o q # <<>> /\ Len(<<x>> \o q) >= 1
         /\ Head(<<x>> \o q) = x /\ Tail(<<x>> \o q) = q
         /\ \A y \in S : <<x>> \o Append(q, y) = Append(<<x>> \o q, y)
         /\ SubSeq(q, 1, 0) = <<>>
         /\ q # <<>> => <<Head(q)>> \o Tail(q) = q
<1>1. <<x>> \in Seq(S)
  OBVIOUS
<1>2. <<x>> \o q \in Seq(S) /\ <<x>> \o q # <<>> /\ Len(<<x>> \o q) >= 1
  BY <1>1
<1>3. Head(<<x>> \o q) = x
  BY <1>1
<1>4. Tail(<<x>> \o q) = q
  BY <1>1
<1>5. \A y \in S : <<x>> \o Append(q, y) = Append(<<x>> \o q, y)
  BY <1>1
<1>6. SubSeq(q, 1, 0) = <<>>
  OBVIOUS
<1>7. q # <<>> => <<Head(q)>> \o Tail(q) = q
  OBVIOUS
<1>8. QED
  BY <1>2, <1>3, <1>4, <1>5, <1>6, <1>7

\* The prefix of one sample is the sample in hand alone.
LEMMA FrontAlone ==
  ASSUME NEW S, NEW q \in Seq(S), NEW x \in S, NEW r, r = <<x>> \o q
  PROVE  SubSeq(r, 1, 1) = <<x>> /\ <<x>> \o <<>> = <<x>>
<1>1. <<x>> \in Seq(S) /\ r \in Seq(S)
  OBVIOUS
<1>2. Len(r) \in Nat /\ Len(r) >= 1 /\ r[1] = x
  BY <1>1
<1>3. SubSeq(r, 1, 1) = <<x>>
  <2>1. \A i \in 1 .. 1 : r[i] \in S
    BY <1>2
  <2>2. SubSeq(r, 1, 1) \in Seq(S) /\ Len(SubSeq(r, 1, 1)) = 1 /\ SubSeq(r, 1, 1)[1] = r[1]
    BY <2>1, SubSeqProperties
  <2>3. Len(<<x>>) = 1 /\ <<x>>[1] = x
    OBVIOUS
  <2>4. \A i \in 1 .. 1 : SubSeq(r, 1, 1)[i] = <<x>>[i]
    BY <1>2, <2>2, <2>3
  <2>5. QED
    BY <1>1, <2>2, <2>3, <2>4, SeqEqual
<1>4. <<x>> \o <<>> = <<x>>
  BY <1>1
<1>5. QED
  BY <1>3, <1>4

\* The steps that touch nothing the channel shows.
LEMMA ChannelStutter ==
  ASSUME UNCHANGED <<isShutdown, accepted, sampleQueue, dispatcher, inHand, delivered>>
  PROVE  UNCHANGED Channel!chanVars
  BY DEF Channel!chanVars

\* ProcessSample accepts a sample.
LEMMA ProcessIsAccept == ASSUME ChannelInv, TypeOK, ProcessSample PROVE Channel!Accept
<1>1. ~isShutdown /\ UNCHANGED <<isShutdown, dispatcher, inHand, delivered>>
      /\ accepted' = accepted + 1 /\ sampleQueue' = Append(sampleQueue, accepted + 1)
      /\ accepted + 1 \in Nat \ {0}
  BY DEF ProcessSample, threadVars, TypeOK
<1>2. CASE dispatcher = "popped"
  <2>1. inHand \in Nat \ {0} /\ sampleQueue \in Seq(Nat \ {0})
    BY <1>2 DEF ChannelInv
  <2>2. <<inHand>> \o Append(sampleQueue, accepted + 1) = Append(<<inHand>> \o sampleQueue, accepted + 1)
    BY <1>1, <2>1, FrontFacts
  <2>3. QED
    BY <1>1, <1>2, <2>2 DEF Channel!Accept
<1>3. CASE dispatcher # "popped"
  BY <1>1, <1>3 DEF Channel!Accept
<1>4. QED
  BY <1>2, <1>3

\* Flush, Shutdown and OpStop give up what is queued; a sample already popped
\* is kept.
LEMMA ClearIsGiveUp ==
  ASSUME ChannelInv, sampleQueue' = <<>>, isShutdown' \in {isShutdown, TRUE},
         UNCHANGED <<accepted, dispatcher, inHand, delivered>>
  PROVE  Channel!GiveUp
<1>1. (~isShutdown') \in {~isShutdown, FALSE}
  BY DEF ChannelInv
<1>2. CASE dispatcher = "popped"
  <2>1. inHand \in Nat \ {0} /\ sampleQueue \in Seq(Nat \ {0})
    BY <1>2 DEF ChannelInv
  <2>2. PICK r : r = <<inHand>> \o sampleQueue
    OBVIOUS
  <2>3. SubSeq(r, 1, 1) = <<inHand>> /\ <<inHand>> \o <<>> = <<inHand>>
    BY <2>1, <2>2, FrontAlone
  <2>4. r \in Seq(Nat \ {0}) /\ Len(r) >= 1
    BY <2>1, <2>2, FrontFacts
  <2>5. 1 \in 0 .. Len(r)
    BY <2>4
  <2>6. QED
    BY <1>1, <1>2, <2>2, <2>3, <2>5 DEF Channel!GiveUp
<1>3. CASE dispatcher # "popped"
  <2>1. SubSeq(sampleQueue, 1, 0) = <<>> /\ 0 \in 0 .. Len(sampleQueue)
    BY DEF ChannelInv
  <2>2. QED
    BY <1>1, <1>3, <2>1 DEF Channel!GiveUp
<1>4. QED
  BY <1>2, <1>3

\* A popped sample still counts as queued.
LEMMA TakeIsStutter ==
  ASSUME ChannelInv, dispatcher = "idle", ProcessSamplesFromQueue,
         UNCHANGED <<isShutdown, accepted, delivered>>
  PROVE  UNCHANGED Channel!chanVars
<1>1. CASE sampleQueue = <<>>
  BY <1>1, ChannelStutter DEF ProcessSamplesFromQueue
<1>2. CASE sampleQueue # <<>>
  <2>1. inHand' = Head(sampleQueue) /\ sampleQueue' = Tail(sampleQueue) /\ dispatcher' = "popped"
    BY <1>2 DEF ProcessSamplesFromQueue
  <2>2. Head(sampleQueue) \in Nat \ {0} /\ sampleQueue \in Seq(Nat \ {0})
    BY <1>2, PopFacts DEF ChannelInv
  <2>3. <<Head(sampleQueue)>> \o Tail(sampleQueue) = sampleQueue
    BY <1>2, <2>2, FrontFacts
  <2>4. QED
    BY <2>1, <2>3 DEF Channel!chanVars
<1>3. QED
  BY <1>1, <1>2

\* Past the null test the call begins; a sample dropped there is the last one.
LEMMA EnterIsCall ==
  ASSUME ChannelInv, EnterCallback PROVE Channel!BeginCall \/ Channel!GiveUp
<1>1. dispatcher = "popped" /\ inHand \in Nat \ {0} /\ sampleQueue \in Seq(Nat \ {0})
      /\ UNCHANGED <<isShutdown, accepted, sampleQueue, delivered>>
  BY DEF ChannelInv, EnterCallback, callVars
<1>2. CASE callback # "null"
  <2>1. ~isShutdown /\ dispatcher' = "calling" /\ inHand' = inHand
    BY <1>2 DEF ChannelInv, EnterCallback
  <2>2. <<inHand>> \o sampleQueue # <<>> /\ Head(<<inHand>> \o sampleQueue) = inHand
        /\ Tail(<<inHand>> \o sampleQueue) = sampleQueue
    BY <1>1, FrontFacts
  <2>3. Channel!BeginCall
    BY <1>1, <2>1, <2>2 DEF Channel!BeginCall
  <2>4. QED
    BY <2>3
<1>3. CASE callback = "null"
  <2>1. isShutdown /\ sampleQueue = <<>> /\ dispatcher' = "idle"
    BY <1>3 DEF ChannelInv, NullOnlyAfterShutdown, EnterCallback
  <2>2. <<inHand>> \o sampleQueue \in Seq(Nat \ {0})
    BY <1>1, FrontFacts
  <2>3. SubSeq(<<inHand>> \o sampleQueue, 1, 0) = <<>> /\ 0 \in 0 .. Len(<<inHand>> \o sampleQueue)
    BY <2>2
  <2>4. Channel!GiveUp
    BY <1>1, <2>1, <2>3 DEF Channel!GiveUp
  <2>5. QED
    BY <2>4
<1>4. QED
  BY <1>2, <1>3

\* The return from OnH264Encoded ends the call; the crash leaves it open.
LEMMA EncodedIsEnd ==
  ASSUME ChannelInv, OnH264Encoded PROVE Channel!EndCall \/ UNCHANGED Channel!chanVars
<1>1. dispatcher = "calling" /\ inHand # 0 /\ UNCHANGED <<isShutdown, accepted, sampleQueue>>
  BY DEF ChannelInv, OnH264Encoded, callVars
<1>2. CASE delivered' = Append(delivered, inHand) /\ dispatcher' = "idle" /\ inHand' = 0
  <2>1. Channel!EndCall
    BY <1>1, <1>2 DEF Channel!EndCall
  <2>2. QED
    BY <2>1
<1>3. CASE UNCHANGED <<delivered, dispatcher, inHand>>
  BY <1>1, <1>3, ChannelStutter
<1>4. QED
  BY <1>2, <1>3 DEF OnH264Encoded

\* Every step is one of the channel or none.
LEMMA ChannelStep ==
  ASSUME ChannelInv, TypeOK, [Next]_vars PROVE [Channel!Next]_(Channel!chanVars)
<1>1. CASE ProcessSample
  BY <1>1, ProcessIsAccept DEF Channel!Next
<1>2. CASE Flush \/ Shutdown \/ DispatchStop
  <2>1. sampleQueue' = <<>> /\ isShutdown' \in {isShutdown, TRUE}
        /\ UNCHANGED <<accepted, dispatcher, inHand, delivered>>
    BY <1>2 DEF Flush, Shutdown, DispatchStop, Dispatching, callVars, threadVars
  <2>2. QED
    BY <2>1, ClearIsGiveUp DEF Channel!Next
<1>3. CASE DispatchStart \/ DispatchProcessSample
  BY <1>3, TakeIsStutter DEF DispatchStart, DispatchProcessSample, Dispatching, callVars
<1>4. CASE EnterCallback
  BY <1>4, EnterIsCall DEF Channel!Next
<1>5. CASE OnH264Encoded
  BY <1>5, EncodedIsEnd DEF Channel!Next
<1>6. CASE DispatchNotification
  BY <1>6, ChannelStutter DEF DispatchNotification, Dispatching, callVars
<1>7. CASE DispatchAfterShutdown
  <2>1. isShutdown /\ sampleQueue = <<>>
    BY <1>7 DEF ChannelInv, DispatchAfterShutdown, QueueEvent
  <2>2. sampleQueue' = sampleQueue
    BY <1>7, <2>1 DEF DispatchAfterShutdown
  <2>3. QED
    BY <1>7, <2>2, ChannelStutter DEF DispatchAfterShutdown, Dispatching, callVars
<1>8. CASE \E t \in Subtypes : SetCurrentMediaType(t) \/ SetCurrentMediaTypeFails(t)
  BY <1>8, ChannelStutter DEF SetCurrentMediaType, SetCurrentMediaTypeFails, threadVars
<1>9. CASE RegisterEncodingCallback \/ Start \/ Stop \/ ProcessSampleRefused \/ PlaceMarker
  BY <1>9, ChannelStutter
     DEF RegisterEncodingCallback, Start, Stop, ProcessSampleRefused, PlaceMarker,
         callVars, threadVars
<1>10. CASE UNCHANGED vars
  BY <1>10, ChannelStutter DEF vars
<1>11. QED
  BY <1>1, <1>2, <1>3, <1>4, <1>5, <1>6, <1>7, <1>8, <1>9, <1>10
     DEF Next, Calls, OnDispatchWorkItem

\* The stream sink is a channel that keeps the order of the samples, gives up
\* only the newest ones and begins no call once closed.
THEOREM ChannelImplemented == Spec => ImplementsChannel
<1>1. Init => Channel!Init
  BY DEF Init, Channel!Init
<1>2. IInv /\ NullOnlyAfterShutdown => ChannelInv /\ TypeOK
  BY DEF IInv, TypeOK, Ordered, HandOrdered, ShutdownClears, ChannelInv
<1>3. ChannelInv /\ TypeOK /\ [Next]_vars => [Channel!Next]_(Channel!chanVars)
  BY ChannelStep
<1>4. Init => NullOnlyAfterShutdown
  BY DEF Init, NullOnlyAfterShutdown
<1>5. QED
  BY <1>1, <1>2, <1>3, <1>4, NullStep, Inductive, PTL DEF Spec, ImplementsChannel, Channel!Spec

-----------------------------------------------------------------------------
(* The media sink with its stream sink: together they behave as            *)
(* H264StreamSink says, so that every theorem above holds for the stream   *)
(* of a media sink.  First the inductive invariant.                        *)

\* A stream the media sink holds is alive; one it has let go was shut down,
\* unless RemoveStreamSink was given a wrong identifier.
StreamHeld ==
  /\ outputStream => ~isShutdown /\ ~sinkIsShutdown /\ (Added \/ writer = "failed")
  /\ ~outputStream /\ Added => isShutdown \/ removed = "kept"
  /\ ~outputStream /\ Added => sinkIsShutdown \/ removed # "no"

\* InitWriter makes its calls in their order.
StagesInOrder ==
  /\ writer \in {"created", "failed"} => ~Added
  /\ writer \in {"added", "registered"} => state = "Ready"
  /\ writer \in {"created", "failed", "added", "registered"} => ~clockCalls
  /\ writer = "registered" => callback # "uninit" \/ nullStream
  /\ writer = "released" => ~outputStream
  /\ sinkIsShutdown => writer = "released"
  /\ clockCalls => callback # "uninit" /\ Added

\* Only RemoveStreamSink leads to a call through a null outputStream_.
NullStreamExplained == nullStream => removed # "no"

\* Before the stream exists its thread has nothing to do.
NothingBeforeAdded == ~Added => dispatcher = "idle" /\ workQueue = <<>>

MediaInv ==
  StreamHeld /\ StagesInOrder /\ NothingBeforeAdded /\ NullStreamExplained

\* The initial state of the media sink satisfies the invariant.
LEMMA MediaInitial == MediaInit => MediaInv
  BY DEF MediaInit, Init, MediaInv, StreamHeld, StagesInOrder, NothingBeforeAdded,
         NullStreamExplained, Added

\* What the calls of the sink writer on the stream leave alone.
LEMMA WriterCallsLeave ==
  ASSUME Added, WriterCalls
  PROVE  /\ state' = state /\ callback' = callback /\ isShutdown' = isShutdown
         /\ dispatcher' = dispatcher /\ Calls
  BY DEF Added, WriterCalls, SetCurrentMediaType, SetCurrentMediaTypeFails, ProcessSample, ProcessSampleRefused,
         PlaceMarker, Flush, callVars, threadVars, Calls

\* What the thread of the work queue leaves alone.
LEMMA WorkQueueThreadLeaves ==
  ASSUME OnDispatchWorkItem
  PROVE  /\ state' = state /\ callback' = callback /\ isShutdown' = isShutdown
         /\ workQueue # <<>> \/ dispatcher # "idle"
  BY DEF OnDispatchWorkItem, DispatchStart, DispatchStop, DispatchProcessSample,
         DispatchNotification, DispatchAfterShutdown, Dispatching, EnterCallback,
         OnH264Encoded, callVars

\* Every step of the composition is a step of the stream sink or none of it.
LEMMA StepIsStreamStep ==
  ASSUME MediaInv, [MediaNext]_sinkVars
  PROVE  [Next]_vars
<1>1. CASE UNCHANGED sinkVars
  BY <1>1 DEF sinkVars
<1>2. ASSUME NEW t \in Subtypes, AddStreamSink(t) PROVE [Next]_vars
  BY <1>2 DEF AddStreamSink, Next, Calls
<1>2f. ASSUME NEW t \in Subtypes, AddStreamSinkFails(t) PROVE [Next]_vars
  BY <1>2f DEF AddStreamSinkFails, Next, Calls
<1>3. CASE RegisterCallback
  BY <1>3 DEF RegisterCallback, ThroughStream, MediaInv, StreamHeld, StagesInOrder,
              Next, Calls
<1>4. CASE BeginWriting
  BY <1>4 DEF BeginWriting
<1>5. CASE MediaShutdown
  BY <1>5 DEF MediaShutdown, Next, Calls
<1>6. CASE RemoveStreamSink
  BY <1>6 DEF RemoveStreamSink, Next, Calls
<1>7. CASE SetPresentationClock
  BY <1>7 DEF SetPresentationClock
<1>8. CASE OnClockStart
  BY <1>8 DEF OnClockStart, ThroughStream, MediaInv, StagesInOrder, Next, Calls
<1>9. CASE OnClockStop
  BY <1>9 DEF OnClockStop, ThroughStream, Next, Calls
<1>10. CASE GetStreamSinkByIndex
  BY <1>10 DEF GetStreamSinkByIndex, ThroughStream
<1>11. CASE WriterCalls
  BY <1>11, WriterCallsLeave DEF WriterCalls, Next
<1>12. CASE WorkQueueThread
  BY <1>12 DEF WorkQueueThread, Next
<1>13. QED
  BY <1>1, <1>2, <1>2f, <1>3, <1>4, <1>5, <1>6, <1>7, <1>8, <1>9, <1>10, <1>11, <1>12
     DEF MediaNext

\* Every step of the composition keeps the invariant.
LEMMA MediaInductive ==
  ASSUME MediaInv, [MediaNext]_sinkVars
  PROVE  MediaInv'
<1> USE DEF MediaInv, StreamHeld, StagesInOrder, NothingBeforeAdded,
            NullStreamExplained, Added
<1>1. CASE UNCHANGED sinkVars
  BY <1>1 DEF sinkVars, mediaVars, vars
<1>2. ASSUME NEW t \in Subtypes, AddStreamSink(t) PROVE MediaInv'
  BY <1>2 DEF AddStreamSink, CheckShutdown, SetCurrentMediaType, ValidateOperation
<1>2f. ASSUME NEW t \in Subtypes, AddStreamSinkFails(t) PROVE MediaInv'
  BY <1>2f DEF AddStreamSinkFails, CheckShutdown, SetCurrentMediaTypeFails, threadVars, vars
<1>3. CASE RegisterCallback
  BY <1>3 DEF RegisterCallback, ThroughStream, RegisterEncodingCallback, callVars,
              threadVars, vars
<1>4. CASE BeginWriting
  BY <1>4 DEF BeginWriting, CheckShutdown, vars
<1>5. CASE MediaShutdown
  BY <1>5 DEF MediaShutdown, CheckShutdown, Shutdown, threadVars, vars
<1>6. CASE RemoveStreamSink
  BY <1>6 DEF RemoveStreamSink, CheckShutdown, Shutdown, threadVars, vars
<1>7. CASE SetPresentationClock
  BY <1>7 DEF SetPresentationClock, CheckShutdown, vars
<1>8. CASE OnClockStart
  BY <1>8 DEF OnClockStart, CheckShutdown, ThroughStream, Start, threadVars, vars
<1>9. CASE OnClockStop
  BY <1>9 DEF OnClockStop, CheckShutdown, ThroughStream, Stop, threadVars, vars
<1>10. CASE GetStreamSinkByIndex
  BY <1>10 DEF GetStreamSinkByIndex, CheckShutdown, ThroughStream, vars
<1>11. CASE WriterCalls
  BY <1>11, WriterCallsLeave DEF WriterCalls, mediaVars
<1>12. CASE WorkQueueThread
  BY <1>12, WorkQueueThreadLeaves DEF WorkQueueThread, mediaVars
<1>13. QED
  BY <1>1, <1>2, <1>2f, <1>3, <1>4, <1>5, <1>6, <1>7, <1>8, <1>9, <1>10, <1>11, <1>12
     DEF MediaNext

-----------------------------------------------------------------------------
(* The theorems.                                                           *)

\* Whatever writer, clock and encoder do, the media sink has its stream between
\* AddStreamSink and Shutdown or RemoveStreamSink, and only then.
THEOREM MediaInvariant == MediaSpec => []MediaInv
  BY MediaInitial, MediaInductive, PTL DEF MediaSpec

\* The stream inside a media sink is called only in the ways H264StreamSink
\* allows.
THEOREM StreamSinkImplemented == MediaSpec => ImplementsStreamSink
<1>1. MediaInit => Init
  BY DEF MediaInit
<1>2. QED
  BY <1>1, MediaInvariant, StepIsStreamStep, PTL
     DEF MediaSpec, ImplementsStreamSink, Spec

\* The stream of a media sink, too, is a channel that keeps the order of the
\* samples, gives up only the newest and begins no call once closed.
THEOREM MediaImplementsChannel == MediaSpec => ImplementsChannel
  BY StreamSinkImplemented, ChannelImplemented, PTL DEF ImplementsStreamSink

\* What is proved of the stream sink holds for the stream of a media sink.
THEOREM StreamTheoremsHold ==
  MediaSpec => [](DeliveredInOrder /\ WriterNeverStarves /\ MarkerAfterSamples)
  BY StreamSinkImplemented, DeliveryOrder, NoStarvation, MarkerOrder, PTL
     DEF ImplementsStreamSink

\* Neither the clock, which Shutdown does not leave, nor a failed InitWriter
\* leads to a call through a null outputStream_; through a null
\* encodingCallback_ only the call that Shutdown overtakes goes.
THEOREM NoNullCall == MediaSpec => []NullCallsExplained
<1>1. MediaInv /\ CrashExplained => NullCallsExplained
  BY DEF MediaInv, NullStreamExplained, CrashExplained, NullCallsExplained
<1>2. QED
  BY <1>1, MediaInvariant, StreamSinkImplemented, CallbackUseExplained, PTL
     DEF ImplementsStreamSink

\* After ReleaseWriter no call of OnH264Encoded starts.
THEOREM ReleaseIsQuiet == MediaSpec => QuietAfterRelease
<1>1. ASSUME MediaInv, IInv, [MediaNext]_sinkVars
      PROVE  [writer = "released" /\ removed # "kept" /\ dispatcher # "calling"
                => dispatcher' # "calling"]_sinkVars
  <2>1. SUFFICES ASSUME MediaNext, writer = "released", removed # "kept",
                        dispatcher # "calling"
                 PROVE  dispatcher' # "calling"
    BY <1>1
  <2>2. isShutdown \/ (dispatcher = "idle" /\ workQueue = <<>>)
    BY <1>1, <2>1 DEF MediaInv, StreamHeld, StagesInOrder, NothingBeforeAdded
  <2>3. CASE OnDispatchWorkItem
    BY <1>1, <2>1, <2>2, <2>3
       DEF OnDispatchWorkItem, DispatchStart, DispatchStop, DispatchProcessSample,
           DispatchNotification, DispatchAfterShutdown, Dispatching, QueueEvent,
           EnterCallback, OnH264Encoded, IInv, ShutdownClears
  <2>4. CASE Calls
    BY <2>1, <2>4
       DEF Calls, SetCurrentMediaType, SetCurrentMediaTypeFails,
         RegisterEncodingCallback, Start, Stop,
           ProcessSample, ProcessSampleRefused, PlaceMarker, Flush, Shutdown,
           threadVars
  <2>5. CASE UNCHANGED vars
    BY <2>1, <2>5 DEF vars
  <2>6. QED
    BY <1>1, <2>1, <2>3, <2>4, <2>5, StepIsStreamStep DEF Next
<1>2. QED
  BY <1>1, MediaInvariant, StreamSinkImplemented, Inductive, PTL
     DEF MediaSpec, ImplementsStreamSink, QuietAfterRelease
=============================================================================
