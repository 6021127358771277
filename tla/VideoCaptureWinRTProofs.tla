----------------------- MODULE VideoCaptureWinRTProofs ----------------------
(***************************************************************************)
(* Proofs about the camera module, for any device, any capabilities and    *)
(* any number of captures: the loops stay inside their lists, and unless   *)
(* an operation fails half way the frames come from one reader only, and   *)
(* only while the object exists.                                           *)
(***************************************************************************)
EXTENDS VideoCaptureWinRT, TLAPS

SearchPcs == {"openCapture", "sources", "formats", "createReader"}
StopPcs == {"removeHandler", "stopReader", "closeCapture"}

-----------------------------------------------------------------------------
(* Types, one kind at a time.                                              *)

FlagType ==
  hr \in BOOLEAN /\ opened \in BOOLEAN /\ alive \in BOOLEAN /\ capturing \in BOOLEAN

PlainType ==
  /\ pc \in SearchPcs \cup StopPcs \cup {"idle", "startReader"}
  /\ purpose \in {"stop", "restart", "destroy"}
  /\ capability \in Capabilities \cup {NoCapability}
  /\ requested \in Capabilities \cup {NoCapability}
  /\ cause \subseteq {"startFailed", "stopFailed"}

FailureType == failures \in 0 .. MaxFailures

\* Where the two loops of StartCapture are.  A colour source is never left
\* behind, so that at any other source the format loop has not begun.
LoopType ==
  /\ sources \in SourceLists \cup {<<>>}
  /\ src \in 1 .. Len(sources) + 1
  /\ src <= Len(sources) => fmt \in 1 .. Len(sources[src].formats) + 1
  /\ pc = "formats" => src <= Len(sources) /\ sources[src].color
  /\ pc = "sources" /\ src <= Len(sources) => sources[src].color \/ fmt = 1

\* The readers.  A call that will create one was let in while there was room.
ReaderType ==
  /\ readers \in 0 .. MaxReaders /\ reader \in 0 .. readers
  /\ handlers \subseteq 1 .. readers /\ running \subseteq 1 .. readers
  /\ delivering \in 0 .. readers
  /\ pc \in SearchPcs \/ (purpose = "restart" /\ pc \in StopPcs) => readers < MaxReaders
  /\ pc \in {"startReader", "removeHandler", "stopReader"} => reader # 0

TypeInv == FlagType /\ PlainType /\ FailureType /\ LoopType /\ ReaderType

\* The parts together are the type invariant of the model.
LEMMA TypeParts == TypeInv => TypeOK
  BY DEF TypeInv, FlagType, PlainType, FailureType, LoopType, ReaderType, TypeOK,
     SearchPcs, StopPcs

\* Initially nothing is captured.
LEMMA TypeInitial == Init => TypeInv
<1> SUFFICES ASSUME Init PROVE TypeInv
  OBVIOUS
<1>1. FlagType
  BY DEF Init, FlagType
<1>2. PlainType /\ FailureType
  BY CaptureAssumption DEF Init, PlainType, FailureType
<1>3. LoopType
  BY DEF Init, LoopType
<1>4. ReaderType
  BY CaptureAssumption DEF Init, ReaderType, SearchPcs, StopPcs
<1>5. QED
  BY <1>1, <1>2, <1>3, <1>4 DEF TypeInv

\* The flags keep their type.
LEMMA FlagsTyped == ASSUME FlagType, [Next]_vars PROVE FlagType'
<1> USE DEF FlagType, objectVars
<1>1. CASE (\E c \in Capabilities : StartCapture(c)) \/ StopCapture \/ Destroy
  BY <1>1 DEF StartCapture, StopCapture, Destroy
<1>2. CASE OpenCapture \/ InspectSource \/ InspectFormat \/ CreateReader
  BY <1>2 DEF OpenCapture, InspectSource, InspectFormat, CreateReader
<1>3. CASE StartReader \/ RemoveHandler \/ StopReader
  BY <1>3 DEF StartReader, RemoveHandler, StopReader, StopFails
<1>4. CASE CloseCapture
  BY <1>4 DEF CloseCapture
<1>5. CASE (\E r \in 1 .. MaxReaders : FrameArrived(r) \/ ReaderEnds(r)) \/ IncomingFrame
  BY <1>5 DEF FrameArrived, ReaderEnds, IncomingFrame
<1>6. CASE UNCHANGED vars
  BY <1>6 DEF vars
<1>7. QED
  BY <1>1, <1>2, <1>3, <1>4, <1>5, <1>6 DEF Next, Starting, Stopping

\* So do the program counter, the arguments and the causes.
LEMMA PlainTyped == ASSUME PlainType, [Next]_vars PROVE PlainType'
<1> USE DEF PlainType, SearchPcs, StopPcs, objectVars, faultVars
<1>1. CASE (\E c \in Capabilities : StartCapture(c)) \/ StopCapture \/ Destroy
  BY <1>1 DEF StartCapture, StopCapture, Destroy, StopPc
<1>2. CASE OpenCapture \/ InspectSource
  BY <1>2 DEF OpenCapture, InspectSource
<1>3. CASE InspectFormat
  BY <1>3 DEF InspectFormat
<1>4. CASE CreateReader
  BY <1>4 DEF CreateReader
<1>5. CASE StartReader
  BY <1>5 DEF StartReader
<1>6. CASE RemoveHandler \/ StopReader
  BY <1>6 DEF RemoveHandler, StopReader, StopFails
<1>7. CASE CloseCapture
  BY <1>7 DEF CloseCapture
<1>8. CASE (\E r \in 1 .. MaxReaders : FrameArrived(r) \/ ReaderEnds(r)) \/ IncomingFrame
  BY <1>8 DEF FrameArrived, ReaderEnds, IncomingFrame
<1>9. CASE UNCHANGED vars
  BY <1>9 DEF vars
<1>10. QED
  BY <1>1, <1>2, <1>3, <1>4, <1>5, <1>6, <1>7, <1>8, <1>9 DEF Next, Starting, Stopping

\* A step fails once or not at all.
LEMMA FailuresTyped == ASSUME FailureType, [Next]_vars PROVE FailureType'
<1> USE DEF faultVars
<1>1. CASE (\E c \in Capabilities : StartCapture(c)) \/ StopCapture \/ Destroy
  BY <1>1 DEF FailureType, StartCapture, StopCapture, Destroy
<1>2. CASE (\E r \in 1 .. MaxReaders : FrameArrived(r) \/ ReaderEnds(r)) \/ IncomingFrame
           \/ UNCHANGED vars
  BY <1>2 DEF FailureType, FrameArrived, ReaderEnds, IncomingFrame, vars
<1>3. CASE Starting \/ Stopping
  <2>1. failures' = failures \/ Failure
    BY <1>3 DEF Starting, OpenCapture, InspectSource, InspectFormat, CreateReader,
       StartReader, Stopping, RemoveHandler, StopReader, StopFails, CloseCapture
  <2>2. QED
    BY <2>1, CaptureAssumption DEF FailureType, Failure
<1>4. QED
  BY <1>1, <1>2, <1>3 DEF Next

\* A list of sources and the formats of one have a length.
LEMMA SourceFacts ==
  ASSUME NEW s \in SourceLists \cup {<<>>}
  PROVE  /\ Len(s) \in Nat
         /\ \A i \in 1 .. Len(s) : s[i].color \in BOOLEAN /\ Len(s[i].formats) \in Nat
<1> DEFINE Formats == Seq([type : STRING, size : Nat, fps : Nat])
           Source == [color : BOOLEAN, formats : Formats]
<1>1. s \in Seq(Source)
  <2>1. CASE s \in SourceLists
    BY <2>1, CaptureAssumption
  <2>2. CASE s = <<>>
    <3> HIDE DEF Source
    <3> QED
      BY <2>2
  <2>3. QED
    BY <2>1, <2>2
<1> HIDE DEF Formats
<1>2. Len(s) \in Nat /\ \A i \in 1 .. Len(s) : s[i] \in Source
  <2> HIDE DEF Source
  <2> QED
    BY <1>1
<1>3. \A i \in 1 .. Len(s) : s[i].color \in BOOLEAN /\ s[i].formats \in Formats
  BY <1>2
<1>4. \A f \in Formats : Len(f) \in Nat
  BY DEF Formats
<1>5. QED
  BY <1>2, <1>3, <1>4

\* The loops stay inside their lists.
LEMMA LoopTyped == ASSUME PlainType, LoopType, [Next]_vars PROVE LoopType'
<1> USE DEF LoopType
<1>0. /\ Len(sources) \in Nat
      /\ \A i \in 1 .. Len(sources) :
           sources[i].color \in BOOLEAN /\ Len(sources[i].formats) \in Nat
  BY SourceFacts
<1>1. CASE /\ UNCHANGED loopVars
           /\ pc' \in {"formats", "sources"} => pc' = pc
  BY <1>1 DEF loopVars
<1>2. CASE OpenCapture
  <2>1. CASE sources' \in SourceLists /\ src' = 1 /\ fmt' = 1 /\ pc' = "sources"
    <3>1. /\ Len(sources') \in Nat
          /\ \A i \in 1 .. Len(sources') : Len(sources'[i].formats) \in Nat
      BY <2>1, SourceFacts
    <3>2. QED
      BY <2>1, <3>1
  <2>2. CASE UNCHANGED loopVars /\ pc' = "idle"
    BY <1>1, <2>2
  <2>3. QED
    BY <1>2, <2>1, <2>2 DEF OpenCapture
<1>3. CASE InspectSource
  <2>1. CASE src > Len(sources)
    BY <1>0, <1>3, <2>1 DEF InspectSource
  <2>2. CASE src <= Len(sources) /\ sources[src].color
    BY <1>0, <1>3, <2>2 DEF InspectSource
  <2>3. CASE src <= Len(sources) /\ ~sources[src].color
    BY <1>0, <1>3, <2>3 DEF InspectSource
  <2>4. QED
    BY <1>0, <2>1, <2>2, <2>3
<1>4. CASE InspectFormat
  <2>1. src \in 1 .. Len(sources) /\ fmt \in 1 .. Len(sources[src].formats) + 1
        /\ sources[src].color
    BY <1>0, <1>4 DEF InspectFormat
  <2>2. /\ UNCHANGED <<sources, src>> /\ pc' \in {"sources", "formats", "createReader", "idle"}
        /\ \/ fmt' = fmt
           \/ fmt' = fmt + 1 /\ fmt <= Len(sources[src].formats)
    BY <1>0, <1>4, <2>1 DEF InspectFormat
  <2>3. QED
    BY <1>0, <2>1, <2>2
<1>5. CASE (\E c \in Capabilities : StartCapture(c)) \/ StopCapture \/ Destroy
  BY <1>1, <1>5 DEF StartCapture, StopCapture, Destroy, StopPc
<1>6. CASE CreateReader \/ StartReader
  BY <1>1, <1>6 DEF CreateReader, StartReader
<1>7. CASE RemoveHandler \/ StopReader \/ CloseCapture
  BY <1>1, <1>7 DEF RemoveHandler, StopReader, StopFails, CloseCapture
<1>8. CASE (\E r \in 1 .. MaxReaders : FrameArrived(r) \/ ReaderEnds(r)) \/ IncomingFrame
  BY <1>1, <1>8 DEF FrameArrived, ReaderEnds, IncomingFrame
<1>9. CASE UNCHANGED vars
  BY <1>1, <1>9 DEF vars
<1>10. QED
  BY <1>2, <1>3, <1>4, <1>5, <1>6, <1>7, <1>8, <1>9 DEF Next, Starting, Stopping

\* The readers stay within their number.
LEMMA ReaderTyped == ASSUME PlainType, ReaderType, [Next]_vars PROVE ReaderType'
<1> USE CaptureAssumption DEF ReaderType, SearchPcs, StopPcs, readerVars
<1>1. CASE (\E c \in Capabilities : StartCapture(c)) \/ StopCapture \/ Destroy
  BY <1>1 DEF StartCapture, StopCapture, Destroy, StopPc
<1>2. CASE OpenCapture \/ InspectSource \/ InspectFormat
  BY <1>2 DEF OpenCapture, InspectSource, InspectFormat
<1>3. CASE CreateReader
  <2>1. CASE readers' = readers + 1
    <3>1. readers < MaxReaders
      BY <1>3 DEF CreateReader
    <3>2. /\ handlers' \in {handlers, handlers \cup {readers + 1}}
          /\ reader' = readers + 1 /\ pc' \in {"startReader", "idle"}
          /\ UNCHANGED <<running, delivering>>
      BY <1>3, <2>1 DEF CreateReader
    <3>3. handlers' \subseteq 1 .. readers'
      BY <2>1, <3>2
    <3>4. running' \subseteq 1 .. readers' /\ delivering' \in 0 .. readers'
      BY <2>1, <3>2
    <3>5. QED
      BY <2>1, <3>1, <3>2, <3>3, <3>4
  <2>2. CASE pc' = "idle" /\ UNCHANGED readers
    <3>1. reader' \in {reader, 0} /\ UNCHANGED <<handlers, running, delivering>>
      BY <1>3, <2>2 DEF CreateReader
    <3>2. QED
      BY <2>2, <3>1
  <2>3. QED
    BY <1>3, <2>1, <2>2 DEF CreateReader
<1>4. CASE StartReader
  <2>1. running' \subseteq 1 .. readers
    <3>1. running' \in {running, running \cup {reader}}
      BY <1>4 DEF StartReader
    <3>2. reader \in 1 .. readers
      BY <1>4 DEF StartReader
    <3>3. QED
      BY <3>1, <3>2
  <2>2. QED
    BY <1>4, <2>1 DEF StartReader
<1>5. CASE RemoveHandler \/ StopReader
  BY <1>5 DEF RemoveHandler, StopReader, StopFails
<1>6. CASE CloseCapture
  BY <1>6 DEF CloseCapture
<1>7. CASE (\E r \in 1 .. MaxReaders : FrameArrived(r) \/ ReaderEnds(r)) \/ IncomingFrame
  <2>1. delivering' \in 0 .. readers /\ running' \subseteq running
    BY <1>7 DEF FrameArrived, ReaderEnds, IncomingFrame
  <2>2. UNCHANGED <<pc, purpose, reader, readers, handlers>>
    BY <1>7 DEF FrameArrived, ReaderEnds, IncomingFrame
  <2>3. QED
    BY <2>1, <2>2
<1>8. CASE UNCHANGED vars
  BY <1>8 DEF vars
<1>9. QED
  BY <1>1, <1>2, <1>3, <1>4, <1>5, <1>6, <1>7, <1>8 DEF Next, Starting, Stopping

\* Every step keeps the types.
LEMMA TypeInductive == TypeInv /\ [Next]_vars => TypeInv'
  BY FlagsTyped, PlainTyped, FailuresTyped, LoopTyped, ReaderTyped DEF TypeInv

\* Every variable keeps its type; in particular neither loop of StartCapture
\* ever looks behind the end of the list of sources or of formats.
THEOREM TypeCorrect == Spec => []TypeOK
  BY TypeInitial, TypeInductive, TypeParts, PTL DEF Spec
-----------------------------------------------------------------------------
(* CaptureStarted                                                          *)

\* is_capturing is still set while StartCapture looks for a format only if the
\* StopCapture before it failed half way; otherwise it is set when the reader
\* runs, which ends by itself only after it was let go.
RunInv ==
  /\ ~hr => "stopFailed" \in cause
  /\ pc \in SearchPcs \cup {"startReader"} /\ capturing => "stopFailed" \in cause
  /\ pc = "idle" /\ alive /\ capturing => "stopFailed" \in cause \/ reader \in running
  /\ ~alive => pc = "idle"

\* Initially nothing is captured.
LEMMA RunInitial == Init => RunInv
  BY DEF Init, RunInv

\* Every step keeps the invariant.
LEMMA RunInductive == TypeInv /\ RunInv /\ [Next]_vars => RunInv'
<1> SUFFICES ASSUME TypeInv, RunInv, [Next]_vars PROVE RunInv'
  OBVIOUS
<1> USE DEF RunInv, SearchPcs, objectVars, readerVars, faultVars
<1>1. CASE (\E c \in Capabilities : StartCapture(c)) \/ StopCapture \/ Destroy
  BY <1>1 DEF StartCapture, StopCapture, Destroy, StopPc
<1>2. CASE OpenCapture
  BY <1>2 DEF OpenCapture
<1>3. CASE InspectSource \/ InspectFormat
  BY <1>3 DEF InspectSource, InspectFormat
<1>4. CASE CreateReader
  BY <1>4 DEF CreateReader
<1>5. CASE StartReader
  BY <1>5 DEF StartReader
<1>6. CASE RemoveHandler \/ StopReader
  BY <1>6 DEF RemoveHandler, StopReader, StopFails
<1>7. CASE CloseCapture
  BY <1>7 DEF CloseCapture
<1>8. CASE (\E r \in 1 .. MaxReaders : FrameArrived(r) \/ ReaderEnds(r)) \/ IncomingFrame
  BY <1>8 DEF FrameArrived, ReaderEnds, IncomingFrame
<1>9. CASE UNCHANGED vars
  BY <1>9 DEF vars
<1>10. QED
  BY <1>1, <1>2, <1>3, <1>4, <1>5, <1>6, <1>7, <1>8, <1>9 DEF Next, Starting, Stopping

-----------------------------------------------------------------------------
(* One reader, and none after the destructor.                              *)

\* As long as nothing has failed half way: only the current reader has the
\* handler or a frame in hand; there is neither while StartCapture looks for a
\* format, nor after it has failed; StopCapture has taken the handler off before it waits for the
\* reader, and has waited for the frame in hand before it lets the reader go.
CalmCapture ==
  /\ handlers \subseteq {reader} /\ delivering \in {0, reader}
  /\ pc \in SearchPcs \/ (pc = "idle" /\ ~capturing) => handlers = {} /\ delivering = 0
  /\ pc \in {"stopReader", "closeCapture"} => handlers = {}
  /\ pc = "closeCapture" => delivering = 0
  /\ ~alive => handlers = {} /\ delivering = 0

CalmInv == cause = {} => CalmCapture

\* Initially there is no reader.
LEMMA CalmInitial == Init => CalmInv
  BY DEF Init, CalmInv, CalmCapture

\* Every step keeps the invariant.
LEMMA CalmInductive ==
  TypeInv /\ RunInv /\ CalmInv /\ [Next]_vars => CalmInv'
<1> SUFFICES ASSUME TypeInv, RunInv, CalmInv, [Next]_vars, cause' = {}
             PROVE  CalmCapture'
  BY DEF CalmInv
<1>1. cause = {}
  BY DEF Next, StartCapture, StopCapture, Destroy, Starting, OpenCapture, InspectSource,
     InspectFormat, CreateReader, StartReader, Stopping, RemoveHandler, StopReader,
     StopFails, CloseCapture, FrameArrived, ReaderEnds, IncomingFrame, vars, faultVars
<1>2. CalmCapture
  BY <1>1 DEF CalmInv
<1>3. hr /\ (pc \in SearchPcs \cup {"startReader"} => ~capturing)
  BY <1>1 DEF RunInv
<1>4. handlers \subseteq 1 .. readers /\ reader \in 0 .. readers
  BY DEF TypeInv, ReaderType
<1>5. reader = 0 => handlers = {} /\ delivering = 0
  BY <1>2, <1>4 DEF CalmCapture
<1> USE DEF SearchPcs, objectVars, readerVars, faultVars
<1>6. CASE (\E c \in Capabilities : StartCapture(c)) \/ StopCapture \/ Destroy
  BY <1>2, <1>5, <1>6 DEF StartCapture, StopCapture, Destroy, StopPc, CalmCapture
<1>7. CASE OpenCapture
  BY <1>2, <1>7 DEF OpenCapture, CalmCapture
<1>8. CASE InspectSource \/ InspectFormat
  BY <1>2, <1>8 DEF InspectSource, InspectFormat, CalmCapture
<1>9. CASE CreateReader
  BY <1>2, <1>5, <1>9 DEF CreateReader, CalmCapture, RunInv
<1>10. CASE StartReader
  BY <1>2, <1>10 DEF StartReader, CalmCapture, RunInv
<1>11. CASE RemoveHandler
  BY <1>2, <1>11 DEF RemoveHandler, StopFails, CalmCapture
<1>12. CASE StopReader
  BY <1>2, <1>12 DEF StopReader, StopFails, CalmCapture
<1>13. CASE CloseCapture
  BY <1>2, <1>3, <1>13 DEF CloseCapture, CalmCapture
<1>14. CASE (\E r \in 1 .. MaxReaders : FrameArrived(r) \/ ReaderEnds(r)) \/ IncomingFrame
  BY <1>2, <1>14 DEF FrameArrived, ReaderEnds, IncomingFrame, CalmCapture
<1>15. CASE UNCHANGED vars
  BY <1>2, <1>15 DEF vars, CalmCapture
<1>16. QED
  BY <1>6, <1>7, <1>8, <1>9, <1>10, <1>11, <1>12, <1>13, <1>14, <1>15
     DEF Next, Starting, Stopping

\* The invariants hold together.
LEMMA CaptureInvariant == Spec => [](TypeInv /\ RunInv /\ CalmInv)
  BY TypeInitial, RunInitial, CalmInitial, TypeInductive, RunInductive, CalmInductive,
     PTL DEF Spec

\* The frames of two captures are never mixed, and CaptureStarted is never
\* true of a reader that does not run, unless an operation failed half way.
THEOREM FramesOfOneReader == Spec => []OneReader
<1>1. RunInv /\ CalmInv => OneReader
  BY DEF RunInv, CalmInv, CalmCapture, OneReader
<1>2. QED
  BY <1>1, CaptureInvariant, PTL

\* FrameArrived does not run on a destroyed object, unless an operation failed
\* half way.
THEOREM NoUseAfterDestroy == Spec => []NoFrameAfterDestroy
<1>1. CalmInv => NoFrameAfterDestroy
  BY DEF CalmInv, CalmCapture, NoFrameAfterDestroy
<1>2. QED
  BY <1>1, CaptureInvariant, PTL
=============================================================================
