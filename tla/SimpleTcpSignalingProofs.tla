---------------------- MODULE SimpleTcpSignalingProofs ----------------------
(***************************************************************************)
(* Proofs about the signalling, for every peer, however recv cuts its      *)
(* stream, whatever WebRTC refuses and wherever the two threads meet.      *)
(***************************************************************************)
EXTENDS SimpleTcpSignaling, SequenceTheorems, TLAPS

-----------------------------------------------------------------------------
(* Sequences.                                                              *)

\* What Append does.
LEMMA AppendFacts ==
  ASSUME NEW S, NEW s \in Seq(S), NEW e \in S
  PROVE  /\ Append(s, e) \in Seq(S) /\ Len(s) \in Nat
         /\ Len(Append(s, e)) = Len(s) + 1
         /\ Append(s, e)[Len(s) + 1] = e
         /\ \A i \in 1..Len(s) : Append(s, e)[i] = s[i]
  OBVIOUS

\* What Head and Tail do.
LEMMA TailFacts ==
  ASSUME NEW S, NEW s \in Seq(S), s # <<>>
  PROVE  /\ Tail(s) \in Seq(S) /\ Len(s) \in Nat \ {0} /\ Head(s) = s[1] /\ Head(s) \in S
         /\ Len(Tail(s)) = Len(s) - 1
         /\ \A i \in 1..Len(Tail(s)) : Tail(s)[i] = s[i + 1]
  OBVIOUS

\* What is left when a prefix is taken.
LEMMA RestFacts ==
  ASSUME NEW S, NEW s \in Seq(S), NEW n \in 1..Len(s)
  PROVE  LET rest == SubSeq(s, n + 1, Len(s)) IN
         /\ rest \in Seq(S) /\ Len(s) \in Nat /\ Len(rest) = Len(s) - n
         /\ \A i \in 1..Len(rest) : rest[i] = s[n + i]
<1>1. Len(s) \in Nat /\ n \in 1..Len(s) /\ n \in Nat
  OBVIOUS
<1>2. \A i \in (n + 1)..Len(s) : s[i] \in S
  BY <1>1
<1> DEFINE rest == SubSeq(s, n + 1, Len(s))
<1>3. rest \in Seq(S)
  BY <1>1, <1>2, SubSeqProperties
<1>4. Len(rest) = Len(s) - n
  BY <1>1, <1>2, SubSeqProperties
<1>5. \A i \in 1..Len(rest) : rest[i] = s[n + i]
  BY <1>1, <1>2, <1>4, SubSeqProperties
<1>6. QED
  BY <1>1, <1>3, <1>4, <1>5

\* The prefix that is taken.
LEMMA PrefixFacts ==
  ASSUME NEW S, NEW s \in Seq(S), NEW n \in 1..Len(s)
  PROVE  /\ Len(SubSeq(s, 1, n)) = n
         /\ \A i \in 1..n : SubSeq(s, 1, n)[i] = s[i]
  OBVIOUS

\* Two elements are put behind.
LEMMA ConcatFacts ==
  ASSUME NEW S, NEW s \in Seq(S), NEW a \in S, NEW b \in S
  PROVE  /\ s \o <<a, b>> \in Seq(S) /\ Len(s) \in Nat
         /\ Len(s \o <<a, b>>) = Len(s) + 2
         /\ \A i \in 1..Len(s) : (s \o <<a, b>>)[i] = s[i]
         /\ (s \o <<a, b>>)[Len(s) + 1] = a
         /\ (s \o <<a, b>>)[Len(s) + 2] = b
  OBVIOUS

\* Behind r + l pieces of s messages come the two of the next message.
LEMMA NextPieces ==
  ASSUME NEW r \in Nat, NEW l \in Nat, NEW s \in Nat, r + l = 2 * s
  PROVE  r + (l + 2) = 2 * (s + 1)
  OBVIOUS

\* Taking n pieces from the stream only moves them to those received.
LEMMA PiecesMove ==
  ASSUME NEW r \in Nat, NEW l \in Nat, NEW n \in Nat
  PROVE  (r + n) + (l - n) = r + l
  OBVIOUS

\* Consecutive pieces of one message are its first and its second.
LEMMA PiecesPair ==
  ASSUME NEW r \in Nat, NEW k \in Nat, NEW a \in {1, 2}, NEW b \in {1, 2},
         2 * k - 2 + a = r + 1, 2 * k - 2 + b = r + 2
  PROVE  r < 2 * k /\ r + 2 = 2 * k
  OBVIOUS

-----------------------------------------------------------------------------
(* Types.                                                                  *)

Pieces == Messages \X {1, 2}
Sends == [type : {"none", "answer", "candidate", "newline"}, of : Nat]

\* Piece h of message k is the byte 2k - 2 + h of the stream: what has been
\* received and what is under way are the 2 * sent pieces sent, in order.
StreamInv ==
  /\ stream \in Seq(Pieces) /\ sent \in 0..Len(script) /\ received \in Nat
  /\ received + Len(stream) = 2 * sent
  /\ \A i \in 1..Len(stream) : 2 * stream[i][1] - 2 + stream[i][2] = received + i

PlaceType ==
  /\ server \in {"accepting", "receiving", "answering", "ended"}
  /\ socket \in {"invalid", "open", "closed"}
  /\ ice \in {"new", "checking", "failed"} /\ deletes \in 0..MaxDrops
  /\ candidates \in 0..MaxCandidates /\ sendErrors \in Nat

DealType ==
  /\ script \in Scripts /\ handled \in Seq(Messages)
  /\ remote \in {0} \cup Offers /\ creating \in Seq(Offers)
  /\ refused \subseteq Messages /\ asserts \subseteq Messages
  /\ unanswered \subseteq Offers /\ answers \in Seq(Offers) /\ notSet \subseteq Offers
  /\ server = "answering" => handled # <<>> /\ Current \in Offers

SendType == sending \in Sends /\ out \in Seq(Sends)

TypeInv == StreamInv /\ PlaceType /\ DealType /\ SendType

\* The messages handled are increasing and have arrived; while no remote
\* description is set every offer among them was refused.
OrderInv ==
  /\ HandledInOrder
  /\ remote = 0 => HandledOffers \subseteq refused
  /\ \A c \in asserts : Arrived(c)

\* An answer that is set as the local description has reached the peer.
AnswerOut == \E j \in 1..Len(out) : out[j].type = "answer" /\ out[j].of \notin notSet

\* The socket of a server that still accepts is not the closed one; nothing is
\* sent before an answer is made; an answer set as the local description is the
\* next thing that is sent, or a closed socket ends all; and a message without
\* its newline is the last one before the thread sends it, or for good.
LineInv ==
  /\ LinesInOrder
  /\ server = "accepting" => socket = "invalid" /\ creating = <<>> /\ answers = <<>>
  /\ answers = <<>> => sending = Idle /\ out = <<>>
  /\ HasLocalDescription /\ socket # "closed" =>
       AnswerOut \/ (sending.type = "answer" /\ sending.of \notin notSet)
  /\ sending.type = "candidate" => HasLocalDescription
  /\ out # <<>> /\ out[Len(out)].type # "newline"
       => sending.type = "newline" \/ socket = "closed"
  /\ sending.type = "newline" => out # <<>>
  /\ out # <<>> => socket # "invalid"

\* The offers handled go through creating into answers or unanswered in their
\* order.
DealInv ==
  /\ \A i, j \in 1..Len(answers) : i < j => answers[i] < answers[j]
  /\ \A j \in 1..Len(answers) : answers[j] \in HandledOffers \ unanswered
  /\ \A j \in 1..Len(answers) : Answerable(answers[j])
  /\ \A k \in notSet : \E j \in 1..Len(answers) : answers[j] = k
  /\ \A i \in 1..Len(creating) : creating[i] \in HandledOffers
  /\ unanswered \subseteq HandledOffers
  /\ \A i, j \in 1..Len(creating) : i < j => creating[i] < creating[j]
  /\ \A i \in 1..Len(creating), j \in 1..Len(answers) : answers[j] < creating[i]
  /\ \A i \in 1..Len(creating), k \in unanswered : k < creating[i]
  /\ server = "answering" =>
       /\ Current \in HandledOffers
       /\ \A i \in 1..Len(creating) : creating[i] < Current
       /\ \A j \in 1..Len(answers) : answers[j] < Current
       /\ \A k \in unanswered : k < Current

\* The answer in hand is behind those that were sent.
SentInv ==
  /\ \A i, j \in 1..Len(out) :
       i < j /\ out[i].type = "answer" /\ out[j].type = "answer"
         => out[i].of < out[j].of
  /\ \A i \in 1..Len(out) :
       out[i].type = "answer" => \E j \in 1..Len(answers) : answers[j] = out[i].of
  /\ sending.type = "answer" =>
       /\ \E j \in 1..Len(answers) : answers[j] = sending.of
       /\ \A i \in 1..Len(out) : out[i].type = "answer" => out[i].of < sending.of

AnswerInv == DealInv /\ SentInv

\* The parts together are the type invariant of the model.
LEMMA TypeParts == TypeInv => TypeOK
<1> SUFFICES ASSUME TypeInv PROVE TypeOK
  OBVIOUS
<1>1. received \in 0..(2 * Len(script))
  <2>1. Len(script) \in Nat /\ Len(stream) \in Nat
    BY ScriptsAssumption DEF TypeInv, StreamInv, DealType
  <2>2. QED
    BY <2>1 DEF TypeInv, StreamInv
<1>2. sending.type \in {"none", "answer", "candidate", "newline"}
  BY DEF TypeInv, SendType, Sends
<1>3. QED
  BY <1>1, <1>2 DEF TypeInv, StreamInv, PlaceType, DealType, Pieces, TypeOK

\* Nothing is sent, handled or answered yet.
LEMMA TypeInitial == Init => TypeInv
<1> SUFFICES ASSUME Init PROVE TypeInv
  OBVIOUS
<1>1. Len(script) \in Nat
  BY ScriptsAssumption DEF Init
<1>2. StreamInv
  BY <1>1 DEF Init, StreamInv
<1>3. PlaceType
  <2>1. candidates \in 0..MaxCandidates /\ sendErrors \in Nat /\ deletes \in 0..MaxDrops
    BY BoundsAssumption DEF Init
  <2>2. QED
    BY <2>1 DEF Init, PlaceType
<1>4. DealType
  BY DEF Init, DealType
<1>5. SendType
  BY DEF Init, SendType, Sends, Idle
<1>6. QED
  BY <1>2, <1>3, <1>4, <1>5 DEF TypeInv

\* Only the peer and the receive loop touch the stream and what was handled.
LEMMA StreamSteps ==
  ASSUME [Next]_vars, ~PeerSends, ~Receive PROVE UNCHANGED tcpVars
<1> USE DEF tcpVars
<1>1. CASE Accept \/ StartFails \/ ReceiveEnd \/ ReceiveFails \/ CreateAnswer
  BY <1>1 DEF Accept, StartFails, ReceiveEnd, ReceiveFails, CreateAnswer
<1>2. CASE OnSuccess \/ OnFailure \/ OnIceCandidate \/ OnPeerConnectionDropped \/ IceResumes
  BY <1>2 DEF OnSuccess, OnFailure, OnIceCandidate, OnPeerConnectionDropped, IceResumes
<1>3. CASE SendMessage \/ SendFails \/ SendNewline
  BY <1>3 DEF SendMessage, SendFails, SendNewline
<1>4. CASE UNCHANGED vars
  BY <1>4 DEF vars
<1>5. QED
  BY <1>1, <1>2, <1>3, <1>4 DEF Next

\* The script of the peer never changes.
LEMMA ScriptFixed ==
  ASSUME [Next]_vars
  PROVE  script' = script /\ Messages' = Messages /\ Offers' = Offers
<1>1. script' = script
  <2>1. CASE PeerSends \/ Receive
    BY <2>1 DEF PeerSends, Receive
  <2>2. QED
    BY <2>1, StreamSteps DEF tcpVars
<1>2. QED
  BY <1>1 DEF Messages, Offers

\* The peer puts the two pieces of its next message behind the others.
LEMMA PeerKeepsStream == ASSUME TypeInv, PeerSends PROVE StreamInv'
<1> DEFINE k == sent + 1
<1>1. Len(script) \in Nat /\ Messages' = Messages /\ script' = script
  BY ScriptsAssumption DEF TypeInv, DealType, PeerSends, Messages
<1>2. sent \in Nat /\ sent < Len(script) /\ sent' = k /\ received' = received /\ received \in Nat
      /\ stream' = stream \o <<<<k, 1>>, <<k, 2>>>>
  BY <1>1 DEF PeerSends, TypeInv, StreamInv
<1>3. k \in Nat /\ k \in 1..Len(script) /\ k = sent + 1
  BY <1>1, <1>2
<1> HIDE DEF k
<1>4. <<k, 1>> \in Pieces /\ <<k, 2>> \in Pieces /\ stream \in Seq(Pieces)
  BY <1>3 DEF Pieces, Messages, TypeInv, StreamInv
<1>5. /\ stream' \in Seq(Pieces) /\ Len(stream) \in Nat /\ Len(stream') = Len(stream) + 2
      /\ \A i \in 1..Len(stream) : stream'[i] = stream[i]
      /\ stream'[Len(stream) + 1] = <<k, 1>> /\ stream'[Len(stream) + 2] = <<k, 2>>
  BY <1>2, <1>4, ConcatFacts
<1>6. received' + Len(stream') = 2 * sent' /\ received + Len(stream) = 2 * sent
  <2>1. received + Len(stream) = 2 * sent
    BY DEF TypeInv, StreamInv
  <2>2. received + (Len(stream) + 2) = 2 * (sent + 1)
    BY <1>2, <1>5, <2>1, NextPieces
  <2>3. QED
    BY <1>2, <1>3, <1>5, <2>1, <2>2
<1>7. ASSUME NEW i \in 1..Len(stream')
      PROVE  2 * stream'[i][1] - 2 + stream'[i][2] = received' + i
  <2>1. CASE i \in 1..Len(stream)
    BY <2>1, <1>2, <1>5 DEF TypeInv, StreamInv
  <2>2. CASE i = Len(stream) + 1
    BY <2>2, <1>2, <1>3, <1>5, <1>6
  <2>3. CASE i = Len(stream) + 2
    BY <2>3, <1>2, <1>3, <1>5, <1>6
  <2>4. QED
    BY <2>1, <2>2, <2>3, <1>5
<1>8. sent' \in 0..Len(script')
  BY <1>1, <1>2, <1>3
<1>9. Pieces' = Pieces
  BY <1>1 DEF Pieces
<1>10. QED
  BY <1>2, <1>5, <1>6, <1>7, <1>8, <1>9 DEF StreamInv

\* What message k does when it is parsed.
Parsed(k) ==
  /\ handled' = Append(handled, k)
  /\ server' = IF script[k] = "offer" THEN "answering" ELSE server
  /\ Apply(k)

\* recv takes a prefix of the stream.  It is parsed only if it is the two
\* pieces of one message, which then ends where the pieces received end.
LEMMA ReceiveFacts ==
  ASSUME TypeInv, Receive
  PROVE  /\ StreamInv' /\ received' \in Nat /\ received' > received
         /\ \/ UNCHANGED <<handled, server, remote, refused, asserts>>
            \/ \E k \in Messages : received < 2 * k /\ received' = 2 * k /\ Parsed(k)
<1>1. script' = script /\ Messages' = Messages /\ sent' = sent /\ Pieces' = Pieces
  BY DEF Receive, Messages, Pieces
<1>2. PICK n \in 1..Len(stream) :
        /\ stream' = SubSeq(stream, n + 1, Len(stream))
        /\ received' = received + n
        /\ OnTcpMessage(SubSeq(stream, 1, n))
  BY DEF Receive
<1>3. stream \in Seq(Pieces) /\ received \in Nat /\ received + Len(stream) = 2 * sent
      /\ sent \in 0..Len(script)
      /\ \A i \in 1..Len(stream) : 2 * stream[i][1] - 2 + stream[i][2] = received + i
  BY DEF TypeInv, StreamInv
<1>4. Len(stream) \in Nat /\ n \in Nat /\ n > 0 /\ n <= Len(stream)
  BY <1>3
<1>5. /\ stream' \in Seq(Pieces) /\ Len(stream') = Len(stream) - n
      /\ \A i \in 1..Len(stream') : stream'[i] = stream[n + i]
  BY <1>2, <1>3, RestFacts
<1>6. \A i \in 1..Len(stream') : n + i \in 1..Len(stream) /\ i \in Nat
  BY <1>4, <1>5
<1>7. received' + Len(stream') = 2 * sent'
  <2>1. sent \in Nat /\ sent' = sent
    BY <1>1, <1>3, ScriptsAssumption DEF TypeInv, DealType
  <2>2. received' = received + n /\ received + Len(stream) = 2 * sent
    BY <1>2, <1>3
  <2>3. (received + n) + (Len(stream) - n) = received + Len(stream)
    BY <1>3, <1>4, PiecesMove
  <2>4. QED
    BY <1>5, <2>1, <2>2, <2>3
<1>8. \A i \in 1..Len(stream') : 2 * stream'[i][1] - 2 + stream'[i][2] = received' + i
  <2> TAKE i \in 1..Len(stream')
  <2>1. 2 * stream'[i][1] - 2 + stream'[i][2] = received + (n + i)
    BY <1>3, <1>5, <1>6
  <2>2. QED
    BY <2>1, <1>2, <1>3, <1>4, <1>6
<1>9. StreamInv' /\ received' \in Nat /\ received' > received
  <2>1. received' \in Nat /\ received' > received
    <3>1. received' = received + n
      BY <1>2
    <3>2. QED
      BY <1>3, <1>4, <3>1
  <2>2. sent' \in 0..Len(script')
    BY <1>1, <1>3
  <2>3. stream' \in Seq(Pieces')
    BY <1>1, <1>5
  <2>4. QED
    BY <1>7, <1>8, <2>1, <2>2, <2>3 DEF StreamInv
<1> DEFINE chunk == SubSeq(stream, 1, n)
<1>10. Len(chunk) = n /\ \A i \in 1..n : chunk[i] = stream[i]
  BY <1>3, PrefixFacts
<1> HIDE DEF chunk
<1>11. CASE ~TryParse(chunk)
  <2>1. UNCHANGED <<handled, server, remote, refused, asserts>>
    BY <1>2, <1>11 DEF OnTcpMessage, chunk
  <2>2. QED
    BY <1>9, <2>1
<1>12. CASE TryParse(chunk)
  <2>1. n = 2 /\ chunk[1] = stream[1] /\ chunk[2] = stream[2] /\ chunk[1][1] = chunk[2][1]
    BY <1>10, <1>12 DEF TryParse
  <2>2. stream[1] \in Pieces /\ stream[2] \in Pieces /\ 1 \in 1..Len(stream) /\ 2 \in 1..Len(stream)
    BY <2>1, <1>3, <1>4
  <2> DEFINE k == chunk[1][1]
             a == stream[1][2]
             b == stream[2][2]
  <2>3. k \in Messages /\ a \in {1, 2} /\ b \in {1, 2} /\ k = stream[1][1] /\ k = stream[2][1]
    BY <2>1, <2>2 DEF Pieces
  <2>4. k \in Nat
    BY <2>3, ScriptsAssumption DEF Messages, TypeInv, DealType
  <2>5. 2 * k - 2 + a = received + 1 /\ 2 * k - 2 + b = received + 2
    BY <1>3, <2>2, <2>3
  <2>6. Parsed(k)
    BY <1>2, <1>12 DEF OnTcpMessage, Parsed, chunk
  <2> HIDE DEF k, a, b
  <2>7. received < 2 * k /\ received' = 2 * k
    <3>1. received' = received + 2 /\ received \in Nat
      BY <1>2, <1>3, <2>1
    <3>2. received < 2 * k /\ received + 2 = 2 * k
      BY <2>3, <2>4, <2>5, <3>1, PiecesPair
    <3>3. QED
      BY <3>1, <3>2
  <2>8. QED
    BY <1>9, <2>3, <2>6, <2>7
<1>13. QED
  BY <1>11, <1>12

\* The pieces under way keep their places.
LEMMA StreamTyped == ASSUME TypeInv, [Next]_vars PROVE StreamInv'
<1>1. CASE PeerSends
  BY <1>1, PeerKeepsStream
<1>2. CASE Receive
  BY <1>2, ReceiveFacts
<1>3. CASE ~PeerSends /\ ~Receive
  <2>1. UNCHANGED tcpVars
    BY <1>3, StreamSteps
  <2>2. QED
    BY <2>1 DEF TypeInv, StreamInv, Pieces, Messages, tcpVars
<1>4. QED
  BY <1>1, <1>2, <1>3

\* Places, flags and counters.
LEMMA PlacesTyped == ASSUME TypeInv, [Next]_vars PROVE PlaceType'
<1>0. PlaceType
  BY DEF TypeInv
<1> USE <1>0 DEF PlaceType, tcpVars, peerVars, sendVars
<1>1. CASE PeerSends
  BY <1>1 DEF PeerSends
<1>2. CASE Accept \/ StartFails
  BY <1>2 DEF Accept, StartFails
<1>3. CASE ReceiveEnd \/ ReceiveFails
  BY <1>3 DEF ReceiveEnd, ReceiveFails
<1>4. CASE Receive
  <2>1. UNCHANGED <<socket, ice, candidates, sendErrors, deletes>>
    BY <1>4 DEF Receive, sendVars
  <2>2. CASE UNCHANGED <<handled, server, remote, refused, asserts>>
    BY <2>1, <2>2
  <2>3. CASE \E k \in Messages : Parsed(k)
    <3>1. server' \in {"accepting", "receiving", "answering", "ended"}
      BY <2>3 DEF Parsed
    <3>2. QED
      BY <2>1, <3>1
  <2>4. QED
    BY <1>4, <2>2, <2>3, ReceiveFacts
<1>5. CASE CreateAnswer
  BY <1>5 DEF CreateAnswer
<1>6. CASE OnSuccess \/ OnFailure \/ IceResumes
  BY <1>6 DEF OnSuccess, SetLocalDescription, OnFailure, IceResumes
<1>11. CASE OnPeerConnectionDropped
  <2>1. deletes' \in 0..MaxDrops
    BY <1>11, BoundsAssumption DEF OnPeerConnectionDropped
  <2>2. QED
    BY <1>11, <2>1 DEF OnPeerConnectionDropped
<1>7. CASE OnIceCandidate
  <2>1. candidates' \in 0..MaxCandidates
    BY <1>7, BoundsAssumption DEF OnIceCandidate
  <2>2. QED
    BY <1>7, <2>1 DEF OnIceCandidate
<1>8. CASE SendMessage \/ SendFails \/ SendNewline
  BY <1>8 DEF SendMessage, SendFails, SendNewline
<1>9. CASE UNCHANGED vars
  BY <1>9 DEF vars
<1>10. QED
  BY <1>1, <1>2, <1>3, <1>4, <1>5, <1>6, <1>7, <1>8, <1>9, <1>11 DEF Next

\* The steps that leave the negotiation alone.
LEMMA DealFrame ==
  ASSUME DealType, script' = script,
         UNCHANGED <<handled, remote, refused, asserts, creating, unanswered, answers, notSet>>,
         server' = "answering" => server = "answering"
  PROVE  DealType'
  BY DEF DealType, Offers, Messages, Current

\* A message that is parsed is one of the peer's, and a remote description an
\* offer of the peer.
LEMMA ParsedTyped ==
  ASSUME TypeInv, Receive, NEW k \in Messages, Parsed(k)
  PROVE  DealType'
<1>1. DealType /\ Messages' = Messages /\ Offers' = Offers /\ script' = script
      /\ UNCHANGED <<creating, unanswered, answers, notSet>>
  BY DEF TypeInv, Receive, Messages, Offers
<1>2. /\ handled \in Seq(Messages) /\ handled' \in Seq(Messages)
      /\ Len(handled) \in Nat /\ Len(handled') = Len(handled) + 1
      /\ handled'[Len(handled) + 1] = k
  <2>1. handled \in Seq(Messages) /\ handled' = Append(handled, k)
    BY <1>1 DEF DealType, Parsed
  <2>2. QED
    BY <2>1, AppendFacts
<1>3. handled' # <<>> /\ Current' = k
  BY <1>2 DEF Current
<1>4. remote' \in {0} \cup Offers /\ refused' \subseteq Messages /\ asserts' \subseteq Messages
  BY <1>1 DEF Parsed, Apply, DealType, Offers
<1>5. server' = "answering" => Current' \in Offers
  <2>1. server = "receiving"
    BY DEF Receive
  <2>2. QED
    BY <1>3, <2>1 DEF Parsed, Offers
<1>6. QED
  BY <1>1, <1>2, <1>3, <1>4, <1>5 DEF DealType

\* Offers pass from creating to answers or unanswered.
LEMMA DealTyped == ASSUME TypeInv, [Next]_vars PROVE DealType'
<1>0. DealType /\ script' = script /\ Messages' = Messages /\ Offers' = Offers
  BY ScriptFixed DEF TypeInv
<1>1. CASE PeerSends \/ Accept \/ StartFails \/ ReceiveEnd \/ ReceiveFails
  BY <1>0, <1>1, DealFrame
     DEF PeerSends, Accept, StartFails, ReceiveEnd, ReceiveFails, tcpVars, peerVars
<1>2. CASE SendMessage \/ SendFails \/ SendNewline
  BY <1>0, <1>2, DealFrame DEF SendMessage, SendFails, SendNewline, tcpVars, peerVars
<1>3. CASE UNCHANGED vars
  BY <1>0, <1>3, DealFrame DEF vars, tcpVars, peerVars
<1>4. CASE Receive
  <2>1. CASE UNCHANGED <<handled, server, remote, refused, asserts>>
    BY <1>0, <1>4, <2>1, DealFrame DEF Receive
  <2>2. CASE \E k \in Messages : Parsed(k)
    BY <1>4, <2>2, ParsedTyped
  <2>3. QED
    BY <1>4, <2>1, <2>2, ReceiveFacts
<1>5. CASE CreateAnswer
  <2>1. creating \in Seq(Offers) /\ Current \in Offers
    BY <1>0, <1>5 DEF DealType, CreateAnswer
  <2>2. creating' \in Seq(Offers)
    BY <1>5, <2>1, AppendFacts DEF CreateAnswer
  <2>3. QED
    BY <1>0, <1>5, <2>2 DEF DealType, CreateAnswer, tcpVars
<1>6. CASE OnSuccess
  <2>1. creating \in Seq(Offers) /\ creating # <<>> /\ answers \in Seq(Offers)
        /\ creating' = Tail(creating) /\ answers' = Append(answers, Head(creating))
    BY <1>0, <1>6 DEF DealType, OnSuccess
  <2>2. creating' \in Seq(Offers) /\ Head(creating) \in Offers
    BY <2>1, TailFacts
  <2>3. answers' \in Seq(Offers)
    BY <2>1, <2>2, AppendFacts
  <2>4. notSet' \subseteq Offers
    BY <1>0, <1>6, <2>2 DEF OnSuccess, SetLocalDescription, DealType
  <2>5. QED
    BY <1>0, <1>6, <2>2, <2>3, <2>4 DEF OnSuccess, DealType, tcpVars, Current
<1>7. CASE OnFailure
  <2>1. creating \in Seq(Offers) /\ creating # <<>> /\ creating' = Tail(creating)
    BY <1>0, <1>7 DEF DealType, OnFailure
  <2>2. creating' \in Seq(Offers) /\ Head(creating) \in Offers
    BY <2>1, TailFacts
  <2>3. unanswered' \subseteq Offers
    BY <1>0, <1>7, <2>2 DEF DealType, OnFailure
  <2>4. QED
    BY <1>0, <1>7, <2>2, <2>3 DEF OnFailure, DealType, tcpVars, Current
<1>8. CASE OnIceCandidate \/ OnPeerConnectionDropped \/ IceResumes
  BY <1>0, <1>8, DealFrame DEF OnIceCandidate, OnPeerConnectionDropped, IceResumes, tcpVars
<1>9. QED
  BY <1>1, <1>2, <1>3, <1>4, <1>5, <1>6, <1>7, <1>8 DEF Next

\* The message in hand and those that reached the peer.
LEMMA SendTyped == ASSUME TypeInv, [Next]_vars PROVE SendType'
<1>0. sending \in Sends /\ out \in Seq(Sends)
  BY DEF TypeInv, SendType
<1>1. CASE UNCHANGED <<sending, out>>
  BY <1>0, <1>1 DEF SendType, Sends
<1>2. CASE OnSuccess
  <2>1. Head(creating) \in Offers
    BY <1>2, TailFacts DEF TypeInv, DealType, OnSuccess
  <2>2. Head(creating) \in Nat
    BY <2>1, ScriptsAssumption DEF Offers, Messages, TypeInv, DealType
  <2>3. sending' \in Sends /\ out' = out
    BY <1>2, <2>2 DEF OnSuccess, Sends
  <2>4. QED
    BY <1>0, <2>3 DEF SendType, Sends
<1>3. CASE OnIceCandidate
  <2>1. candidates + 1 \in Nat
    BY BoundsAssumption DEF TypeInv, PlaceType
  <2>2. sending' \in Sends /\ out' = out
    BY <1>3, <2>1 DEF OnIceCandidate, Sends
  <2>3. QED
    BY <1>0, <2>2 DEF SendType, Sends
<1>4. CASE SendMessage
  <2>1. sending' \in Sends
    BY <1>0, <1>4 DEF SendMessage, Sends
  <2>2. out' \in Seq(Sends)
    BY <1>0, <1>4, AppendFacts DEF SendMessage
  <2>3. QED
    BY <2>1, <2>2 DEF SendType, Sends
<1>5. CASE SendFails \/ SendNewline
  <2>1. sending' \in Sends
    BY <1>5 DEF SendFails, SendNewline, Sends, Idle
  <2>2. out' = out \/ out' = Append(out, sending)
    BY <1>5 DEF SendFails, SendNewline
  <2>3. out' \in Seq(Sends)
    BY <1>0, <2>2, AppendFacts
  <2>4. QED
    BY <2>1, <2>3 DEF SendType, Sends
<1>6. CASE PeerSends \/ Accept \/ StartFails \/ ReceiveEnd \/ ReceiveFails \/ Receive
           \/ CreateAnswer \/ OnFailure \/ OnPeerConnectionDropped \/ IceResumes
           \/ UNCHANGED vars
  <2>1. UNCHANGED <<sending, out>>
    BY <1>6 DEF PeerSends, Accept, StartFails, ReceiveEnd, ReceiveFails, Receive,
       CreateAnswer, OnFailure, OnPeerConnectionDropped, IceResumes, vars, sendVars
  <2>2. QED
    BY <2>1, <1>1
<1>7. QED
  BY <1>2, <1>3, <1>4, <1>5, <1>6 DEF Next

\* The types and the places of the pieces hold throughout.
LEMMA TypeInductive == TypeInv /\ [Next]_vars => TypeInv'
  BY StreamTyped, PlacesTyped, DealTyped, SendTyped DEF TypeInv

\* Every variable keeps its type, whatever the peer sends and however recv cuts
\* it: only offers become remote descriptions and only they are answered.
THEOREM TypeCorrect == Spec => []TypeOK
  BY TypeParts, TypeInitial, TypeInductive, PTL DEF Spec

-----------------------------------------------------------------------------
(* Messages are handled in their order.                                    *)

\* The steps that handle nothing.
LEMMA OrderFrame ==
  ASSUME OrderInv, UNCHANGED <<script, received, handled, remote, refused, asserts>>
  PROVE  OrderInv'
  BY DEF OrderInv, HandledInOrder, HandledOffers, Offers, Messages, Arrived

\* What was handled or passed over has arrived for good.
LEMMA ArrivedStays ==
  ASSUME TypeInv, Receive, NEW k \in Messages, Arrived(k) PROVE Arrived(k)'
<1>1. received \in Nat /\ received' \in Nat /\ received' > received
  BY ReceiveFacts DEF TypeInv, StreamInv
<1>2. 2 * k <= received /\ k \in Nat
  BY ScriptsAssumption DEF Arrived, Messages, TypeInv, DealType
<1>3. QED
  BY <1>1, <1>2 DEF Arrived

\* A chunk that is not parsed only moves the stream on.
LEMMA PassedOver ==
  ASSUME TypeInv, OrderInv, Receive, UNCHANGED <<handled, server, remote, refused, asserts>>
  PROVE  OrderInv'
<1>1. script' = script /\ Messages' = Messages /\ Offers' = Offers
  BY DEF Receive, Messages, Offers
<1>2. \A k \in Messages : Arrived(k) => Arrived(k)'
  BY ArrivedStays
<1>3. \A i \in 1..Len(handled) : handled[i] \in Messages
  BY DEF TypeInv, DealType
<1>4. Offers \subseteq Messages
  BY DEF Offers
<1>5. \A i \in 1..Len(handled) : Arrived(handled[i])'
  BY <1>2, <1>3 DEF OrderInv, HandledInOrder
<1>6. \A c \in asserts : Arrived(c)'
  BY <1>2 DEF OrderInv, TypeInv, DealType
<1>7. HandledOffers' = HandledOffers
  BY <1>1 DEF HandledOffers
<1>8. QED
  BY <1>1, <1>5, <1>6, <1>7 DEF OrderInv, HandledInOrder, Arrived

\* A message that is parsed comes after all that arrived before it.  If it is a
\* candidate and no remote description is set, the offers handled before it
\* were all refused.
LEMMA ParsedInOrder ==
  ASSUME TypeInv, OrderInv, Receive, NEW k \in Messages,
         received < 2 * k, received' = 2 * k, Parsed(k)
  PROVE  OrderInv'
<1>1. script' = script /\ Messages' = Messages /\ Offers' = Offers /\ Offers \subseteq Messages
  BY DEF Receive, Messages, Offers
<1>2. script \in Scripts /\ Len(script) \in Nat /\ k \in 1..Len(script) /\ k \in Nat
      /\ received \in Nat /\ handled \in Seq(Messages) /\ Messages \subseteq Nat
  BY ScriptsAssumption DEF TypeInv, DealType, StreamInv, Messages
<1>3. /\ Len(handled) \in Nat /\ Len(handled') = Len(handled) + 1
      /\ handled'[Len(handled) + 1] = k
      /\ \A i \in 1..Len(handled) : handled'[i] = handled[i] /\ handled[i] \in Messages
  BY <1>2, AppendFacts DEF Parsed
<1>4. \A j \in Messages : Arrived(j) => j < k /\ Arrived(j)'
  BY <1>2, ArrivedStays DEF Arrived
<1>5. Arrived(k)'
  BY <1>2 DEF Arrived
<1>6. \A i \in 1..Len(handled) : Arrived(handled[i])
  BY DEF OrderInv, HandledInOrder
<1>7. \A i, j \in 1..Len(handled') : i < j => handled'[i] < handled'[j]
  <2> TAKE i, j \in 1..Len(handled')
  <2> HAVE i < j
  <2>1. i \in 1..Len(handled)
    BY <1>3
  <2>2. CASE j \in 1..Len(handled)
    BY <1>3, <2>1, <2>2 DEF OrderInv, HandledInOrder
  <2>3. CASE j = Len(handled) + 1
    BY <1>3, <1>4, <1>6, <2>1, <2>3
  <2>4. QED
    BY <1>3, <2>2, <2>3
<1>8. \A i \in 1..Len(handled') : 2 * handled'[i] <= received'
  <2> TAKE i \in 1..Len(handled')
  <2>1. CASE i \in 1..Len(handled)
    BY <1>3, <1>4, <1>6, <2>1 DEF Arrived
  <2>2. CASE i = Len(handled) + 1
    BY <1>3, <1>5, <2>2 DEF Arrived
  <2>3. QED
    BY <1>3, <2>1, <2>2
<1>9. /\ refused \subseteq refused' /\ refused' \subseteq refused \cup {k}
      /\ asserts' \subseteq asserts \cup {k} /\ asserts \subseteq Messages
  BY DEF Parsed, Apply, TypeInv, DealType
<1>10. \A h \in HandledOffers' : h = k \/ h \in HandledOffers
  BY <1>1, <1>3 DEF HandledOffers
<1>11. \A c \in asserts' : 2 * c <= received'
  BY <1>4, <1>5, <1>9 DEF OrderInv, Arrived
<1>12. ASSUME NEW c \in asserts', c \notin refused', NEW h \in HandledOffers', h < c
       PROVE  h \in refused'
  <2>1. CASE c \in asserts
    <3>1. c < k /\ c \in Nat
      BY <1>2, <1>4, <1>9, <2>1 DEF OrderInv
    <3>2. h \in HandledOffers
      BY <1>2, <1>10, <1>12, <3>1
    <3>3. QED
      BY <1>9, <1>12, <2>1, <3>2 DEF OrderInv, HandledInOrder
  <2>2. CASE c = k /\ c \notin asserts
    <3>1. script[k] = "candidate" /\ remote = 0
      BY <1>12, <2>2 DEF Parsed, Apply
    <3>2. h # k
      BY <1>1, <3>1 DEF HandledOffers, Offers
    <3>3. QED
      BY <1>9, <1>10, <3>1, <3>2 DEF OrderInv
  <2>3. QED
    BY <1>9, <1>12, <2>1, <2>2
<1>13. remote' = 0 => HandledOffers' \subseteq refused'
  <2> SUFFICES ASSUME remote' = 0, NEW h \in HandledOffers' PROVE h \in refused'
    OBVIOUS
  <2>1. k # 0
    BY <1>2
  <2>2. remote = 0 /\ (script[k] = "offer" => k \in refused')
    BY <2>1 DEF Parsed, Apply
  <2>3. CASE h = k
    BY <1>1, <2>2, <2>3 DEF HandledOffers, Offers
  <2>4. CASE h \in HandledOffers
    BY <1>9, <2>2, <2>4 DEF OrderInv
  <2>5. QED
    BY <1>10, <2>3, <2>4
<1>14. QED
  BY <1>1, <1>7, <1>8, <1>11, <1>12, <1>13 DEF OrderInv, HandledInOrder, Arrived

\* The order holds throughout.
LEMMA OrderInductive == TypeInv /\ OrderInv /\ [Next]_vars => OrderInv'
<1> SUFFICES ASSUME TypeInv, OrderInv, [Next]_vars PROVE OrderInv'
  OBVIOUS
<1>1. CASE Receive
  <2>1. CASE UNCHANGED <<handled, server, remote, refused, asserts>>
    BY <1>1, <2>1, PassedOver
  <2>2. CASE \E k \in Messages : received < 2 * k /\ received' = 2 * k /\ Parsed(k)
    BY <1>1, <2>2, ParsedInOrder
  <2>3. QED
    BY <1>1, <2>1, <2>2, ReceiveFacts
<1>2. CASE ~Receive
  <2>1. CASE PeerSends
    BY <2>1, OrderFrame DEF PeerSends, peerVars
  <2>2. CASE ~PeerSends
    <3>1. UNCHANGED <<script, received, handled>>
      BY <1>2, <2>2, StreamSteps DEF tcpVars
    <3>2. UNCHANGED <<remote, refused, asserts>>
      <4>1. CASE Accept \/ StartFails \/ ReceiveEnd \/ ReceiveFails \/ CreateAnswer
        BY <4>1 DEF Accept, StartFails, ReceiveEnd, ReceiveFails, CreateAnswer, peerVars
      <4>2. CASE \/ OnSuccess \/ OnFailure \/ OnIceCandidate
                 \/ OnPeerConnectionDropped \/ IceResumes
        BY <4>2 DEF OnSuccess, OnFailure, OnIceCandidate, OnPeerConnectionDropped, IceResumes
      <4>3. CASE SendMessage \/ SendFails \/ SendNewline \/ UNCHANGED vars
        BY <4>3 DEF SendMessage, SendFails, SendNewline, vars, peerVars
      <4>4. QED
        BY <1>2, <2>2, <4>1, <4>2, <4>3 DEF Next
    <3>3. QED
      BY <3>1, <3>2, OrderFrame
  <2>3. QED
    BY <2>1, <2>2
<1>3. QED
  BY <1>1, <1>2

\* Nothing has been handled at first.
LEMMA OrderInitial == Init => OrderInv
  BY DEF Init, OrderInv, HandledInOrder, HandledOffers

\* However recv cuts the stream, OnTcpMessage handles no message twice, out of
\* order or before it has arrived, and its assert fails only on a candidate that
\* WebRTC refused, or before which every offer was lost or refused.
THEOREM MessagesKeepOrder == Spec => []HandledInOrder
<1>1. OrderInv => HandledInOrder
  BY DEF OrderInv
<1>2. QED
  BY <1>1, TypeInitial, TypeInductive, OrderInitial, OrderInductive, PTL DEF Spec

-----------------------------------------------------------------------------
(* The answers the peer gets.                                              *)

\* The steps that neither handle an offer nor answer one.
LEMMA DealSame ==
  ASSUME DealInv,
         UNCHANGED <<script, handled, refused, creating, unanswered, answers, notSet>>,
         server' = "answering" => server = "answering"
  PROVE  DealInv'
  BY DEF DealInv, HandledOffers, Offers, Messages, Answerable, Current

\* Offers are numbers.
LEMMA OffersAreNumbers == ASSUME TypeInv PROVE Offers \subseteq Nat /\ HandledOffers \subseteq Offers
  BY ScriptsAssumption DEF TypeInv, DealType, Offers, Messages, HandledOffers

\* A message that is parsed is behind all offers handled before.
LEMMA ParsedKeepsDeals ==
  ASSUME TypeInv, OrderInv, DealInv, Receive, NEW k \in Messages,
         received < 2 * k, received' = 2 * k, Parsed(k)
  PROVE  DealInv'
<1>1. script' = script /\ Offers' = Offers /\ UNCHANGED <<creating, unanswered, answers, notSet>>
      /\ server = "receiving"
  BY DEF Receive, Messages, Offers
<1>2. k \in Nat /\ received \in Nat /\ handled \in Seq(Messages)
      /\ \A i \in 1..Len(handled) : handled[i] \in Nat
  BY ScriptsAssumption DEF TypeInv, DealType, StreamInv, Messages
<1>3. /\ Len(handled) \in Nat /\ Len(handled') = Len(handled) + 1
      /\ handled'[Len(handled) + 1] = k
      /\ \A i \in 1..Len(handled) : handled'[i] = handled[i]
  BY <1>2, AppendFacts DEF Parsed
<1>4. \A h \in HandledOffers : h < k
  <2> TAKE h \in HandledOffers
  <2>1. PICK i \in 1..Len(handled) : handled[i] = h
    BY DEF HandledOffers
  <2>2. 2 * h <= received /\ h \in Nat
    BY <1>2, <2>1 DEF OrderInv, HandledInOrder, Arrived
  <2>3. QED
    BY <1>2, <2>2
<1>5. HandledOffers \subseteq HandledOffers'
  <2> SUFFICES ASSUME NEW h \in HandledOffers PROVE h \in HandledOffers'
    OBVIOUS
  <2>1. PICK i \in 1..Len(handled) : handled[i] = h
    BY DEF HandledOffers
  <2>2. i \in 1..Len(handled') /\ handled'[i] = h /\ h \in Offers
    BY <1>3, <2>1 DEF HandledOffers
  <2>3. QED
    BY <1>1, <2>2 DEF HandledOffers
<1>6. ASSUME NEW h \in Nat, Answerable(h)
      PROVE  \E m \in HandledOffers' \ refused' : m <= h
  <2>1. PICK m \in HandledOffers \ refused : m <= h
    BY <1>6 DEF Answerable
  <2>2. m \notin refused'
    BY <1>2, <1>4, <2>1 DEF Parsed, Apply
  <2>3. QED
    BY <1>5, <2>1, <2>2
<1>7. \A j \in 1..Len(answers) : \E m \in HandledOffers' \ refused' : m <= answers[j]
  BY <1>6, OffersAreNumbers DEF DealInv
<1>8. CASE script[k] = "offer"
  <2>1. Current' = k /\ k \in Offers
    BY <1>3, <1>8 DEF Current, Offers
  <2>2. Len(handled) + 1 \in 1..Len(handled')
    BY <1>3
  <2>3. k \in HandledOffers'
    BY <1>1, <1>3, <2>1, <2>2 DEF HandledOffers
  <2>4. QED
    BY <1>1, <1>4, <1>5, <1>7, <2>1, <2>3 DEF DealInv, Answerable
<1>9. CASE script[k] # "offer"
  <2>1. server' # "answering"
    BY <1>1, <1>9 DEF Parsed
  <2>2. QED
    BY <1>1, <1>5, <1>7, <2>1 DEF DealInv, Answerable
<1>10. QED
  BY <1>8, <1>9

\* CreateAnswer puts its offer behind those that wait.
LEMMA CreateAnswerKeepsDeals == ASSUME TypeInv, DealInv, CreateAnswer PROVE DealInv'
<1>1. creating \in Seq(Offers) /\ Current \in Offers /\ Current \in HandledOffers
  BY DEF TypeInv, DealType, DealInv, CreateAnswer
<1>2. HandledOffers' = HandledOffers /\ UNCHANGED <<refused, unanswered, answers, notSet>>
      /\ server = "answering" /\ server' = "receiving"
      /\ creating' = Append(creating, Current)
  BY DEF CreateAnswer, tcpVars, HandledOffers, Offers, Messages
<1>3. /\ Len(creating) \in Nat /\ Len(creating') = Len(creating) + 1
      /\ creating'[Len(creating) + 1] = Current
      /\ \A i \in 1..Len(creating) : creating'[i] = creating[i]
  BY <1>1, <1>2, AppendFacts
<1>4. \A i \in 1..Len(creating') : i \in 1..Len(creating) \/ i = Len(creating) + 1
  BY <1>3
<1>5. \A i \in 1..Len(creating') :
        /\ creating'[i] \in HandledOffers
        /\ \A j \in 1..Len(answers) : answers[j] < creating'[i]
        /\ \A k \in unanswered : k < creating'[i]
  <2> TAKE i \in 1..Len(creating')
  <2>1. CASE i \in 1..Len(creating)
    BY <1>3, <2>1 DEF DealInv
  <2>2. CASE i = Len(creating) + 1
    BY <1>1, <1>2, <1>3, <2>2 DEF DealInv
  <2>3. QED
    BY <1>4, <2>1, <2>2
<1>6. \A i, j \in 1..Len(creating') : i < j => creating'[i] < creating'[j]
  <2> TAKE i, j \in 1..Len(creating')
  <2> HAVE i < j
  <2>1. i \in 1..Len(creating)
    BY <1>3
  <2>2. CASE j \in 1..Len(creating)
    BY <1>3, <2>1, <2>2 DEF DealInv
  <2>3. CASE j = Len(creating) + 1
    BY <1>2, <1>3, <2>1, <2>3 DEF DealInv
  <2>4. QED
    BY <1>4, <2>2, <2>3
<1>7. QED
  BY <1>2, <1>5, <1>6 DEF DealInv, Answerable

\* What is left of creating when its first offer is taken.
LEMMA CreatedFirst ==
  ASSUME TypeInv, DealInv, creating # <<>>, NEW rest, rest = Tail(creating),
         NEW first, first = Head(creating)
  PROVE  /\ first \in HandledOffers /\ first \in Nat
         /\ rest \in Seq(Offers) /\ Len(rest) \in Nat
         /\ \A j \in 1..Len(answers) : answers[j] < first
         /\ \A k \in unanswered : k < first
         /\ \A i \in 1..Len(rest) : first < rest[i] /\ rest[i] \in HandledOffers
         /\ \A i, j \in 1..Len(rest) : i < j => rest[i] < rest[j]
         /\ \A i \in 1..Len(rest), j \in 1..Len(answers) : answers[j] < rest[i]
         /\ \A i \in 1..Len(rest), k \in unanswered : k < rest[i]
<1>1. creating \in Seq(Offers)
  BY DEF TypeInv, DealType
<1>2. /\ rest \in Seq(Offers) /\ Len(creating) \in Nat \ {0} /\ first = creating[1]
      /\ first \in Offers /\ Len(rest) = Len(creating) - 1
      /\ \A i \in 1..Len(rest) : rest[i] = creating[i + 1]
  BY <1>1, TailFacts
<1>3. 1 \in 1..Len(creating) /\ \A i \in 1..Len(rest) : i + 1 \in 1..Len(creating) /\ 1 < i + 1
  BY <1>2
<1>4. first \in HandledOffers /\ first \in Nat
  BY <1>2, <1>3, OffersAreNumbers DEF DealInv
<1>5. \A j \in 1..Len(answers) : answers[j] < first
  BY <1>2, <1>3 DEF DealInv
<1>6. \A k \in unanswered : k < first
  BY <1>2, <1>3 DEF DealInv
<1>7. \A i \in 1..Len(rest) : first < rest[i] /\ rest[i] \in HandledOffers
  BY <1>2, <1>3 DEF DealInv
<1>8. \A i, j \in 1..Len(rest) : i < j => rest[i] < rest[j]
  <2> TAKE i, j \in 1..Len(rest)
  <2> HAVE i < j
  <2>1. i + 1 < j + 1
    BY <1>2
  <2>2. QED
    BY <1>2, <1>3, <2>1 DEF DealInv
<1>9. \A i \in 1..Len(rest), j \in 1..Len(answers) : answers[j] < rest[i]
  BY <1>2, <1>3 DEF DealInv
<1>10. \A i \in 1..Len(rest), k \in unanswered : k < rest[i]
  BY <1>2, <1>3 DEF DealInv
<1>11. Len(rest) \in Nat
  BY <1>2
<1>12. QED
  BY <1>2, <1>4, <1>5, <1>6, <1>7, <1>8, <1>9, <1>10, <1>11

\* OnSuccess moves the first offer behind the answers made before.
LEMMA OnSuccessKeepsDeals == ASSUME TypeInv, DealInv, OnSuccess PROVE DealInv'
<1>1. PICK first : first = Head(creating)
  OBVIOUS
<1>2. PICK rest : rest = Tail(creating)
  OBVIOUS
<1>3. creating # <<>> /\ creating' = rest /\ answers' = Append(answers, first)
      /\ UNCHANGED <<server, handled, refused, unanswered>> /\ HandledOffers' = HandledOffers
  BY <1>1, <1>2 DEF OnSuccess, tcpVars, HandledOffers, Offers, Messages
<1>4. /\ first \in HandledOffers /\ first \in Nat
      /\ \A j \in 1..Len(answers) : answers[j] < first
      /\ \A k \in unanswered : k < first
      /\ \A i \in 1..Len(rest) : first < rest[i] /\ rest[i] \in HandledOffers
      /\ \A i, j \in 1..Len(rest) : i < j => rest[i] < rest[j]
      /\ \A i \in 1..Len(rest), j \in 1..Len(answers) : answers[j] < rest[i]
      /\ \A i \in 1..Len(rest), k \in unanswered : k < rest[i]
  BY <1>1, <1>2, <1>3, CreatedFirst
<1>5. answers \in Seq(Offers) /\ first \in Offers
  BY <1>4, OffersAreNumbers DEF TypeInv, DealType
<1>6. /\ Len(answers) \in Nat /\ Len(answers') = Len(answers) + 1 /\ answers'[Len(answers) + 1] = first
      /\ \A i \in 1..Len(answers) : answers'[i] = answers[i]
  BY <1>3, <1>5, AppendFacts
<1>7. \A i \in 1..Len(answers') : i \in 1..Len(answers) \/ i = Len(answers) + 1
  BY <1>6
<1>8. \A i, j \in 1..Len(answers') : i < j => answers'[i] < answers'[j]
  <2> TAKE i, j \in 1..Len(answers')
  <2> HAVE i < j
  <2>1. i \in 1..Len(answers)
    BY <1>6
  <2>2. CASE j \in 1..Len(answers)
    BY <1>6, <2>1, <2>2 DEF DealInv
  <2>3. CASE j = Len(answers) + 1
    BY <1>4, <1>6, <2>1, <2>3
  <2>4. QED
    BY <1>7, <2>2, <2>3
<1>9. \A j \in 1..Len(answers') : answers'[j] \in HandledOffers \ unanswered
  <2>1. first \notin unanswered
    BY <1>4
  <2>2. \A j \in 1..Len(answers) : answers[j] \in HandledOffers \ unanswered
    BY DEF DealInv
  <2>3. QED
    BY <1>4, <1>6, <1>7, <2>1, <2>2
<1>10. \A i \in 1..Len(rest), j \in 1..Len(answers') : answers'[j] < rest[i]
  BY <1>4, <1>6, <1>7
<1>11. server = "answering" =>
         /\ \A i \in 1..Len(rest) : rest[i] < Current
         /\ \A j \in 1..Len(answers') : answers'[j] < Current
  <2> SUFFICES ASSUME server = "answering"
               PROVE  /\ \A i \in 1..Len(rest) : rest[i] < Current
                      /\ \A j \in 1..Len(answers') : answers'[j] < Current
    OBVIOUS
  <2>1. creating \in Seq(Offers) /\ \A i \in 1..Len(creating) : creating[i] < Current
    BY DEF DealInv, TypeInv, DealType
  <2>2. first < Current /\ \A i \in 1..Len(rest) : rest[i] < Current
    BY <1>1, <1>2, <1>3, <2>1, TailFacts
  <2>3. \A j \in 1..Len(answers) : answers[j] < Current
    BY DEF DealInv
  <2>4. QED
    BY <1>6, <1>7, <2>2, <2>3
<1>12. \A j \in 1..Len(answers') : Answerable(answers'[j])
  <2>1. Answerable(first)
    BY <1>1 DEF OnSuccess
  <2>2. \A j \in 1..Len(answers) : Answerable(answers[j])
    BY DEF DealInv
  <2>3. QED
    BY <1>6, <1>7, <2>1, <2>2
<1>13. \A k \in notSet' : \E j \in 1..Len(answers') : answers'[j] = k
  <2>1. \A k \in notSet' : k \in notSet \/ k = first
    BY <1>1 DEF OnSuccess, SetLocalDescription
  <2>2. Len(answers) + 1 \in 1..Len(answers') /\ 1..Len(answers) \subseteq 1..Len(answers')
    BY <1>6
  <2>3. \A k \in notSet : \E j \in 1..Len(answers) : answers[j] = k
    BY DEF DealInv
  <2>4. QED
    BY <1>6, <2>1, <2>2, <2>3
<1>14. QED
  BY <1>3, <1>4, <1>8, <1>9, <1>10, <1>11, <1>12, <1>13 DEF DealInv, Answerable, Current

\* OnFailure moves the first offer to the unanswered ones.
LEMMA OnFailureKeepsDeals == ASSUME TypeInv, DealInv, OnFailure PROVE DealInv'
<1>1. PICK first : first = Head(creating)
  OBVIOUS
<1>2. PICK rest : rest = Tail(creating)
  OBVIOUS
<1>3. creating # <<>> /\ creating' = rest /\ unanswered' = unanswered \cup {first}
      /\ UNCHANGED <<server, handled, refused, answers, notSet>> /\ HandledOffers' = HandledOffers
  BY <1>1, <1>2 DEF OnFailure, tcpVars, HandledOffers, Offers, Messages
<1>4. /\ first \in HandledOffers /\ first \in Nat
      /\ \A j \in 1..Len(answers) : answers[j] < first
      /\ \A k \in unanswered : k < first
      /\ \A i \in 1..Len(rest) : first < rest[i] /\ rest[i] \in HandledOffers
      /\ \A i, j \in 1..Len(rest) : i < j => rest[i] < rest[j]
      /\ \A i \in 1..Len(rest), j \in 1..Len(answers) : answers[j] < rest[i]
      /\ \A i \in 1..Len(rest), k \in unanswered : k < rest[i]
  BY <1>1, <1>2, <1>3, CreatedFirst
<1>5. \A j \in 1..Len(answers) : answers[j] \in HandledOffers \ unanswered'
  BY <1>3, <1>4 DEF DealInv
<1>6. server = "answering" =>
        /\ \A i \in 1..Len(rest) : rest[i] < Current
        /\ \A k \in unanswered' : k < Current
  <2> SUFFICES ASSUME server = "answering"
               PROVE  /\ \A i \in 1..Len(rest) : rest[i] < Current
                      /\ \A k \in unanswered' : k < Current
    OBVIOUS
  <2>1. creating \in Seq(Offers) /\ \A i \in 1..Len(creating) : creating[i] < Current
    BY DEF DealInv, TypeInv, DealType
  <2>2. first < Current /\ \A i \in 1..Len(rest) : rest[i] < Current
    BY <1>1, <1>2, <1>3, <2>1, TailFacts
  <2>3. QED
    BY <1>3, <2>2 DEF DealInv
<1>7. QED
  BY <1>3, <1>4, <1>5, <1>6 DEF DealInv, Answerable, Current

\* Offers stay in their order throughout.
LEMMA DealInductive == TypeInv /\ OrderInv /\ DealInv /\ [Next]_vars => DealInv'
<1> SUFFICES ASSUME TypeInv, OrderInv, DealInv, [Next]_vars PROVE DealInv'
  OBVIOUS
<1>1. CASE Receive
  <2>1. CASE UNCHANGED <<handled, server, remote, refused, asserts>>
    BY <1>1, <2>1, DealSame DEF Receive
  <2>2. CASE \E k \in Messages : received < 2 * k /\ received' = 2 * k /\ Parsed(k)
    BY <1>1, <2>2, ParsedKeepsDeals
  <2>3. QED
    BY <1>1, <2>1, <2>2, ReceiveFacts
<1>2. CASE PeerSends \/ Accept \/ StartFails \/ ReceiveEnd \/ ReceiveFails
  BY <1>2, DealSame
     DEF PeerSends, Accept, StartFails, ReceiveEnd, ReceiveFails, tcpVars, peerVars
<1>3. CASE OnIceCandidate \/ OnPeerConnectionDropped \/ IceResumes
  BY <1>3, DealSame DEF OnIceCandidate, OnPeerConnectionDropped, IceResumes, tcpVars
<1>4. CASE SendMessage \/ SendFails \/ SendNewline \/ UNCHANGED vars
  BY <1>4, DealSame DEF SendMessage, SendFails, SendNewline, vars, tcpVars, peerVars
<1>5. QED
  BY <1>1, <1>2, <1>3, <1>4, CreateAnswerKeepsDeals, OnSuccessKeepsDeals, OnFailureKeepsDeals
     DEF Next

\* The steps that send no answer: what they put in hand is none.
LEMMA SentSame ==
  ASSUME SentInv, UNCHANGED <<out, answers>>, sending' = sending \/ sending'.type # "answer"
  PROVE  SentInv'
  BY DEF SentInv

\* OnSuccess takes in hand the answer of an offer behind all answered before.
LEMMA OnSuccessKeepsSent == ASSUME TypeInv, DealInv, SentInv, OnSuccess PROVE SentInv'
<1>1. PICK first : first = Head(creating)
  OBVIOUS
<1>2. creating # <<>> /\ answers' = Append(answers, first) /\ out' = out
      /\ sending' = [type |-> "answer", of |-> first]
  BY <1>1 DEF OnSuccess
<1>3. first \in HandledOffers /\ \A j \in 1..Len(answers) : answers[j] < first
  BY <1>1, <1>2, CreatedFirst
<1>4. answers \in Seq(Offers) /\ first \in Offers
  BY <1>3, OffersAreNumbers DEF TypeInv, DealType
<1>5. /\ Len(answers) \in Nat /\ Len(answers') = Len(answers) + 1 /\ answers'[Len(answers) + 1] = first
      /\ \A i \in 1..Len(answers) : answers'[i] = answers[i]
  BY <1>2, <1>4, AppendFacts
<1>6. Len(answers) + 1 \in 1..Len(answers') /\ 1..Len(answers) \subseteq 1..Len(answers')
  BY <1>5
<1>7. \A i \in 1..Len(out) : out[i].type = "answer" => \E j \in 1..Len(answers') : answers'[j] = out[i].of
  BY <1>5, <1>6 DEF SentInv
<1>8. \A i \in 1..Len(out) : out[i].type = "answer" => out[i].of < first
  BY <1>3 DEF SentInv
<1>9. \E j \in 1..Len(answers') : answers'[j] = first
  BY <1>5, <1>6
<1>10. sending'.of = first
  BY <1>2
<1>11. QED
  BY <1>2, <1>7, <1>8, <1>9, <1>10 DEF SentInv

\* SendMessage puts what is in hand behind the rest.
LEMMA SendMessageKeepsSent == ASSUME TypeInv, SentInv, SendMessage PROVE SentInv'
<1>1. sending \in Sends /\ out \in Seq(Sends) /\ out' = Append(out, sending) /\ answers' = answers
  BY DEF SendMessage, TypeInv, SendType, peerVars
<1>2. /\ Len(out) \in Nat /\ Len(out') = Len(out) + 1 /\ out'[Len(out) + 1] = sending
      /\ \A i \in 1..Len(out) : out'[i] = out[i]
  BY <1>1, AppendFacts
<1>3. sending'.type = "newline"
  BY <1>1 DEF SendMessage, Sends
<1>4. \A i \in 1..Len(out') : i \in 1..Len(out) \/ i = Len(out) + 1
  BY <1>2
<1>5. \A i, j \in 1..Len(out') :
        i < j /\ out'[i].type = "answer" /\ out'[j].type = "answer" => out'[i].of < out'[j].of
  <2> TAKE i, j \in 1..Len(out')
  <2> HAVE i < j /\ out'[i].type = "answer" /\ out'[j].type = "answer"
  <2>1. i \in 1..Len(out)
    BY <1>2
  <2>2. CASE j \in 1..Len(out)
    BY <1>2, <2>1, <2>2 DEF SentInv
  <2>3. CASE j = Len(out) + 1
    BY <1>2, <2>1, <2>3 DEF SentInv
  <2>4. QED
    BY <1>4, <2>2, <2>3
<1>6. \A i \in 1..Len(out') :
        out'[i].type = "answer" => \E j \in 1..Len(answers) : answers[j] = out'[i].of
  BY <1>2, <1>4 DEF SentInv
<1>7. QED
  BY <1>1, <1>3, <1>5, <1>6 DEF SentInv

\* SendNewline adds no answer.
LEMMA SendNewlineKeepsSent == ASSUME TypeInv, SentInv, SendNewline PROVE SentInv'
<1>1. sending \in Sends /\ out \in Seq(Sends) /\ answers' = answers
      /\ sending.type = "newline" /\ sending'.type = "none"
  BY DEF SendNewline, TypeInv, SendType, peerVars, Idle
<1>2. CASE out' = out
  BY <1>1, <1>2, SentSame
<1>3. CASE out' = Append(out, sending)
  <2>1. /\ Len(out) \in Nat /\ Len(out') = Len(out) + 1 /\ out'[Len(out) + 1] = sending
        /\ \A i \in 1..Len(out) : out'[i] = out[i]
    BY <1>1, <1>3, AppendFacts
  <2>2. \A i \in 1..Len(out') : i \in 1..Len(out) \/ i = Len(out) + 1
    BY <2>1
  <2>3. \A i \in 1..Len(out') :
          out'[i].type = "answer" => i \in 1..Len(out) /\ out'[i] = out[i]
    BY <1>1, <2>1, <2>2
  <2>4. QED
    BY <1>1, <2>3 DEF SentInv
<1>4. QED
  BY <1>2, <1>3 DEF SendNewline

\* What the peer gets stays in order throughout.
LEMMA SentInductive == TypeInv /\ DealInv /\ SentInv /\ [Next]_vars => SentInv'
<1> SUFFICES ASSUME TypeInv, DealInv, SentInv, [Next]_vars PROVE SentInv'
  OBVIOUS
<1>1. CASE PeerSends \/ Accept \/ StartFails \/ ReceiveEnd \/ ReceiveFails
  BY <1>1, SentSame
     DEF PeerSends, Accept, StartFails, ReceiveEnd, ReceiveFails, peerVars, sendVars
<1>2. CASE \/ Receive \/ CreateAnswer \/ OnFailure
           \/ OnPeerConnectionDropped \/ IceResumes \/ UNCHANGED vars
  BY <1>2, SentSame
     DEF Receive, CreateAnswer, OnFailure, OnPeerConnectionDropped, IceResumes, vars,
         peerVars, sendVars
<1>3. CASE OnIceCandidate \/ SendFails
  BY <1>3, SentSame DEF OnIceCandidate, SendFails, peerVars, Idle
<1>4. QED
  BY <1>1, <1>2, <1>3, OnSuccessKeepsSent, SendMessageKeepsSent, SendNewlineKeepsSent DEF Next

\* Nothing has been answered at first.
LEMMA AnswerInitial == Init => AnswerInv
  BY DEF Init, AnswerInv, DealInv, SentInv, Idle

\* Offers and what the peer gets stay in order throughout.
LEMMA AnswerInductive == AnswerInv /\ OrderInv /\ TypeInv /\ [Next]_vars => AnswerInv'
  BY DealInductive, SentInductive DEF AnswerInv

\* Every answer the peer gets was made for an offer that was handled, while it
\* or an earlier one was the remote description, in the order of the offers and
\* once, although offers, callbacks and sends are on two threads.
THEOREM AnswersFollowOffers == Spec => []AnswersMatchOffers
<1>1. TypeInv /\ AnswerInv => AnswersMatchOffers
  <2> SUFFICES ASSUME TypeInv, AnswerInv PROVE AnswersMatchOffers
    OBVIOUS
  <2>1. \A j \in 1..Len(answers) : answers[j] \in Nat
    BY OffersAreNumbers DEF AnswerInv, DealInv
  <2>2. \A i \in 1..Len(creating) : creating[i] \in Nat
    BY OffersAreNumbers DEF AnswerInv, DealInv
  <2>3. \A j \in 1..Len(answers) : \A i \in 1..Len(creating) : creating[i] # answers[j]
    BY <2>1, <2>2 DEF AnswerInv, DealInv
  <2>4. QED
    BY <2>3 DEF AnswerInv, DealInv, SentInv, AnswersMatchOffers
<1>2. QED
  BY <1>1, TypeInitial, TypeInductive, OrderInitial, OrderInductive, AnswerInitial,
     AnswerInductive, PTL DEF Spec

-----------------------------------------------------------------------------
(* The lines the peer reads.                                               *)

\* A closed socket stays closed, and a step of the server or of the peer leaves
\* what is sent alone.
LEMMA LineFrame ==
  ASSUME LineInv, UNCHANGED <<out, sending, answers, notSet>>,
         socket = "closed" => socket' = "closed", socket' = "invalid" => socket = "invalid",
         server' = "accepting" => server = "accepting" /\ UNCHANGED <<socket, creating>>
  PROVE  LineInv'
  BY DEF LineInv, LinesInOrder, Idle, HasLocalDescription, AnswerOut

\* Every candidate that reached the peer is behind an answer that is set.
CandidatesLate ==
  \A i \in 1..Len(out) : out[i].type = "candidate" =>
    \E j \in 1..(i - 1) : out[j].type = "answer" /\ out[j].of \notin notSet

\* A message is put behind those that reached the peer.
LEMMA OutGrows ==
  ASSUME CandidatesLate, out \in Seq(Sends), NEW m \in Sends, out' = Append(out, m),
         notSet' = notSet, m.type = "candidate" => AnswerOut
  PROVE  /\ CandidatesLate'
         /\ AnswerOut => AnswerOut'
         /\ m.type = "answer" /\ m.of \notin notSet => AnswerOut'
<1>1. /\ Len(out) \in Nat /\ Len(out') = Len(out) + 1 /\ out'[Len(out) + 1] = m
      /\ \A i \in 1..Len(out) : out'[i] = out[i]
  BY AppendFacts
<1>2. AnswerOut => AnswerOut'
  BY <1>1 DEF AnswerOut
<1>3. m.type = "answer" /\ m.of \notin notSet => AnswerOut'
  BY <1>1 DEF AnswerOut
<1>4. ASSUME NEW i \in 1..Len(out'), out'[i].type = "candidate"
      PROVE  \E j \in 1..(i - 1) : out'[j].type = "answer" /\ out'[j].of \notin notSet
  <2>1. CASE i \in 1..Len(out)
    <3>1. PICK j \in 1..(i - 1) : out[j].type = "answer" /\ out[j].of \notin notSet
      BY <1>1, <1>4, <2>1 DEF CandidatesLate
    <3>2. j \in 1..Len(out)
      BY <1>1, <2>1, <3>1
    <3>3. QED
      BY <1>1, <3>1, <3>2
  <2>2. CASE i = Len(out) + 1
    <3>1. PICK j \in 1..Len(out) : out[j].type = "answer" /\ out[j].of \notin notSet
      BY <1>1, <1>4, <2>2 DEF AnswerOut
    <3>2. j \in 1..(i - 1)
      BY <1>1, <2>2, <3>1
    <3>3. QED
      BY <1>1, <3>1, <3>2
  <2>3. QED
    BY <1>1, <2>1, <2>2
<1>5. QED
  BY <1>2, <1>3, <1>4 DEF CandidatesLate

\* The server, its peer and the callbacks that send nothing.
LEMMA ServerKeepsLines ==
  ASSUME TypeInv, LineInv,
         \/ PeerSends \/ Accept \/ StartFails \/ ReceiveEnd \/ ReceiveFails
         \/ Receive \/ CreateAnswer \/ OnFailure
         \/ OnPeerConnectionDropped \/ IceResumes \/ UNCHANGED vars
  PROVE  LineInv'
<1>1. CASE PeerSends \/ StartFails \/ ReceiveEnd \/ ReceiveFails
  BY <1>1, LineFrame
     DEF PeerSends, StartFails, ReceiveEnd, ReceiveFails, peerVars, sendVars
<1>2. CASE Accept
  <2>1. server = "accepting" /\ socket = "invalid"
    BY <1>2 DEF Accept, LineInv
  <2>2. QED
    BY <1>2, <2>1, LineFrame DEF Accept, peerVars, sendVars
<1>3. CASE Receive
  <2>1. server' # "accepting"
    <3>1. CASE UNCHANGED <<handled, server, remote, refused, asserts>>
      BY <1>3, <3>1 DEF Receive
    <3>2. CASE \E k \in Messages : Parsed(k)
      BY <1>3, <3>2 DEF Receive, Parsed
    <3>3. QED
      BY <1>3, <3>1, <3>2, ReceiveFacts
  <2>2. QED
    BY <1>3, <2>1, LineFrame DEF Receive, sendVars
<1>4. CASE CreateAnswer
  BY <1>4, LineFrame DEF CreateAnswer, sendVars
<1>5. CASE OnFailure
  <2>1. server # "accepting" /\ server' = server
    BY <1>5 DEF OnFailure, LineInv
  <2>2. QED
    BY <1>5, <2>1, LineFrame DEF OnFailure, sendVars
<1>6. CASE OnPeerConnectionDropped \/ IceResumes \/ UNCHANGED vars
  BY <1>6, LineFrame DEF OnPeerConnectionDropped, IceResumes, vars, peerVars, sendVars
<1>7. QED
  BY <1>1, <1>2, <1>3, <1>4, <1>5, <1>6

\* A callback enters Send: nothing is sent yet.  The answer in hand is behind
\* those that were sent, so that its SetLocalDescription failing leaves the
\* others set.
LEMMA CallbackKeepsLines ==
  ASSUME TypeInv, LineInv, AnswerInv, OnSuccess \/ OnIceCandidate PROVE LineInv'
<1>1. CASE OnSuccess
  <2>1. PICK first : first = Head(creating)
    OBVIOUS
  <2>2. creating # <<>> /\ answers' = Append(answers, first) /\ UNCHANGED <<out, server, socket>>
        /\ sending' = [type |-> "answer", of |-> first] /\ sending.type = "none"
        /\ server # "accepting"
    BY <1>1, <2>1 DEF OnSuccess, Idle, LineInv
  <2>3. first \in Nat /\ first \in HandledOffers /\ \A j \in 1..Len(answers) : answers[j] < first
    BY <2>1, <2>2, CreatedFirst DEF AnswerInv
  <2>4. answers \in Seq(Offers) /\ first \in Offers
    BY <2>3, OffersAreNumbers DEF TypeInv, DealType
  <2>5. /\ Len(answers) \in Nat /\ Len(answers') = Len(answers) + 1
        /\ answers'[Len(answers) + 1] = first
        /\ \A i \in 1..Len(answers) : answers'[i] = answers[i] /\ answers[i] # first
    <3>1. \A i \in 1..Len(answers) : answers[i] # first
      BY <2>3
    <3>2. QED
      BY <2>2, <2>4, <3>1, AppendFacts
  <2>6. answers' # <<>>
    BY <2>5
  <2>7. first \notin notSet
    BY <2>5 DEF AnswerInv, DealInv
  <2>8. \A i \in 1..Len(out) : out[i].type = "answer" => out[i].of # first
    BY <2>5 DEF AnswerInv, SentInv
  <2>9. notSet' = notSet \/ notSet' = notSet \cup {first}
    BY <1>1, <2>1 DEF OnSuccess, SetLocalDescription
  <2>10. CandidatesLate
    BY DEF LineInv, LinesInOrder, CandidatesLate
  <2>11. CandidatesLate' /\ (AnswerOut => AnswerOut')
    <3>1. \A i \in 1..Len(out) :
            out[i].type = "answer" /\ out[i].of \notin notSet => out[i].of \notin notSet'
      BY <2>8, <2>9
    <3>2. AnswerOut => AnswerOut'
      BY <2>2, <3>1 DEF AnswerOut
    <3>3. ASSUME NEW i \in 1..Len(out), out[i].type = "candidate"
          PROVE  \E j \in 1..(i - 1) : out[j].type = "answer" /\ out[j].of \notin notSet'
      <4>1. PICK j \in 1..(i - 1) : out[j].type = "answer" /\ out[j].of \notin notSet
        BY <2>10, <3>3 DEF CandidatesLate
      <4>2. Len(out) \in Nat
        BY DEF TypeInv, SendType
      <4>3. j \in 1..Len(out)
        BY <4>1, <4>2
      <4>4. QED
        BY <3>1, <4>1, <4>3
    <3>4. QED
      BY <2>2, <3>2, <3>3 DEF CandidatesLate
  <2>12. HasLocalDescription' /\ socket # "closed" =>
           AnswerOut' \/ (sending'.type = "answer" /\ sending'.of \notin notSet')
    <3>1. CASE notSet' = notSet
      BY <2>2, <2>7, <3>1
    <3>2. CASE notSet' = notSet \cup {first}
      <4>1. HasLocalDescription' => HasLocalDescription
        BY <2>5, <3>2 DEF HasLocalDescription
      <4>2. QED
        BY <2>2, <2>11, <4>1 DEF LineInv
    <3>3. QED
      BY <2>9, <3>1, <3>2
  <2>13. sending'.type = "answer"
    BY <2>2
  <2>14. QED
    BY <2>2, <2>6, <2>11, <2>12, <2>13 DEF LineInv, LinesInOrder, CandidatesLate
<1>2. CASE OnIceCandidate
  <2>1. answers # <<>>
    BY <1>2 DEF OnIceCandidate, HasLocalDescription
  <2>2. HasLocalDescription /\ UNCHANGED <<answers, notSet, out, server, socket, creating>>
        /\ sending'.type = "candidate" /\ sending.type = "none"
    BY <1>2 DEF OnIceCandidate, Idle
  <2>3. HasLocalDescription' /\ (AnswerOut <=> AnswerOut')
    BY <2>2 DEF HasLocalDescription, AnswerOut
  <2>4. QED
    BY <2>1, <2>2, <2>3 DEF LineInv, LinesInOrder
<1>3. QED
  BY <1>1, <1>2

\* The first send follows a newline or nothing at all, and a candidate follows
\* an answer that is set.
LEMMA SendMessageKeepsLines == ASSUME TypeInv, LineInv, SendMessage PROVE LineInv'
<1>1. sending \in Sends /\ out \in Seq(Sends) /\ out' = Append(out, sending)
      /\ sending.type \in {"answer", "candidate"} /\ socket = "open"
      /\ UNCHANGED <<server, socket, creating, answers, notSet>>
  BY DEF SendMessage, TypeInv, SendType, peerVars
<1>2. /\ Len(out) \in Nat /\ Len(out') = Len(out) + 1 /\ out'[Len(out) + 1] = sending
      /\ \A i \in 1..Len(out) : out'[i] = out[i]
  BY <1>1, AppendFacts
<1>3. sending'.type = "newline"
  BY <1>1 DEF SendMessage, Sends
<1>4. answers # <<>> /\ out' # <<>>
  <2>1. answers # <<>>
    BY <1>1 DEF LineInv, Idle
  <2>2. QED
    BY <1>2, <2>1
<1>5. out # <<>> => out[Len(out)].type = "newline"
  BY <1>1 DEF LineInv
<1>6. /\ CandidatesLate' /\ (AnswerOut => AnswerOut')
      /\ sending.type = "answer" /\ sending.of \notin notSet => AnswerOut'
  <2>1. CandidatesLate
    BY DEF LineInv, LinesInOrder, CandidatesLate
  <2>2. sending.type = "candidate" => AnswerOut
    BY <1>1 DEF LineInv
  <2>3. QED
    BY <1>1, <2>1, <2>2, OutGrows
<1>7. \A i \in 1..(Len(out') - 1) :
        out'[i].type # "newline" => out'[i + 1].type = "newline"
  <2> TAKE i \in 1..(Len(out') - 1)
  <2>1. i \in 1..Len(out) /\ out # <<>>
    BY <1>1, <1>2
  <2>2. CASE i = Len(out)
    BY <1>2, <1>5, <2>1, <2>2
  <2>3. CASE i # Len(out)
    <3>1. i \in 1..(Len(out) - 1) /\ i + 1 \in 1..Len(out)
      BY <1>2, <2>1, <2>3
    <3>2. QED
      BY <1>2, <3>1, <2>1 DEF LineInv, LinesInOrder
  <2>4. QED
    BY <2>2, <2>3
<1>8. HasLocalDescription' /\ socket' # "closed" => AnswerOut'
  <2>1. HasLocalDescription' => HasLocalDescription
    BY <1>1 DEF HasLocalDescription
  <2>2. QED
    BY <1>1, <1>6, <2>1 DEF LineInv
<1>9. QED
  BY <1>1, <1>3, <1>4, <1>6, <1>7, <1>8 DEF LineInv, LinesInOrder, CandidatesLate

\* The newline ends the line, unless the socket is closed, and then the line is
\* the last one.
LEMMA SendNewlineKeepsLines == ASSUME TypeInv, LineInv, SendNewline PROVE LineInv'
<1>1. sending \in Sends /\ out \in Seq(Sends) /\ sending.type = "newline" /\ sending' = Idle
      /\ UNCHANGED <<server, socket, creating, answers, notSet>> /\ out # <<>> /\ answers # <<>>
  BY DEF SendNewline, TypeInv, SendType, peerVars, LineInv, Idle
<1>2. CASE socket # "open"
  <2>1. out' = out /\ socket = "closed"
    <3>1. socket # "invalid"
      BY <1>1 DEF LineInv
    <3>2. QED
      BY <1>2, <3>1 DEF SendNewline, TypeInv, PlaceType
  <2>2. QED
    BY <1>1, <2>1 DEF LineInv, LinesInOrder, Idle, HasLocalDescription, AnswerOut
<1>3. CASE socket = "open"
  <2>1. out' = Append(out, sending)
    BY <1>3 DEF SendNewline
  <2>2. /\ Len(out) \in Nat /\ Len(out') = Len(out) + 1 /\ out'[Len(out) + 1] = sending
        /\ \A i \in 1..Len(out) : out'[i] = out[i]
    BY <1>1, <2>1, AppendFacts
  <2>3. out' # <<>> /\ 1 \in 1..Len(out) /\ out'[Len(out')].type = "newline"
    BY <1>1, <2>2
  <2>4. \A i \in 1..(Len(out') - 1) :
          out'[i].type # "newline" => out'[i + 1].type = "newline"
    <3> TAKE i \in 1..(Len(out') - 1)
    <3>1. i \in 1..Len(out)
      BY <2>2
    <3>2. CASE i = Len(out)
      BY <1>1, <2>2, <3>2
    <3>3. CASE i # Len(out)
      <4>1. i \in 1..(Len(out) - 1) /\ i + 1 \in 1..Len(out)
        BY <2>2, <3>1, <3>3
      <4>2. QED
        BY <2>2, <4>1, <3>1 DEF LineInv, LinesInOrder
    <3>4. QED
      BY <3>2, <3>3
  <2>5. CandidatesLate' /\ (AnswerOut => AnswerOut')
    <3>1. CandidatesLate
      BY DEF LineInv, LinesInOrder, CandidatesLate
    <3>2. QED
      BY <1>1, <2>1, <3>1, OutGrows
  <2>6. HasLocalDescription' => HasLocalDescription
    BY <1>1 DEF HasLocalDescription
  <2>7. QED
    BY <1>1, <2>3, <2>4, <2>5, <2>6 DEF LineInv, LinesInOrder, CandidatesLate, Idle
<1>4. QED
  BY <1>2, <1>3

\* Lines and their order hold throughout.
LEMMA LineInductive == TypeInv /\ AnswerInv /\ LineInv /\ [Next]_vars => LineInv'
<1> SUFFICES ASSUME TypeInv, AnswerInv, LineInv, [Next]_vars PROVE LineInv'
  OBVIOUS
<1>1. CASE SendFails
  <2>1. socket' = "closed" /\ sending' = Idle /\ UNCHANGED <<server, creating, answers, out, notSet>>
        /\ server # "accepting" /\ answers # <<>>
    BY <1>1 DEF SendFails, peerVars, LineInv, Idle
  <2>2. QED
    BY <2>1 DEF LineInv, LinesInOrder, Idle
<1>2. QED
  BY <1>1, ServerKeepsLines, CallbackKeepsLines, SendMessageKeepsLines, SendNewlineKeepsLines
     DEF Next

\* Nothing has been sent at first.
LEMMA LineInitial == Init => LineInv
  BY DEF Init, LineInv, LinesInOrder, Idle, HasLocalDescription

\* A candidate reaches the peer only after an answer that is set as the local
\* description, and no two messages share a line, although Send makes two calls
\* of send() and ignores the result of the second one.
THEOREM LinesReachPeer == Spec => []LinesInOrder
<1>1. LineInv => LinesInOrder
  BY DEF LineInv
<1>2. QED
  BY <1>1, TypeInitial, TypeInductive, OrderInitial, OrderInductive, AnswerInitial,
     AnswerInductive, LineInitial, LineInductive, PTL DEF Spec

=============================================================================
