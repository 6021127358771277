-------------------------- MODULE SimpleTcpSignaling --------------------------
(***************************************************************************)
(* The signalling of the sample application: DirectTcpServer receives the  *)
(* peer's JSON messages, SimpleTcpSignaling parses them and drives the     *)
(* PeerConnection, whose callbacks send the answer and the ICE candidates  *)
(* back over the same socket.                                              *)
(*                                                                         *)
(* Two threads act: the one inside DirectTcpServer::Start (`server' is     *)
(* where it is) and the signalling thread of WebRTC, on which every        *)
(* observer callback runs (`sending' is the Send it is inside).            *)
(*                                                                         *)
(* TCP is a byte stream: a message is two fragments <<k, 1>> and <<k, 2>>, *)
(* and recv takes any nonempty prefix of what has arrived.                 *)
(***************************************************************************)
EXTENDS Integers, Sequences

CONSTANTS
  Scripts,         \* what the peer may send: sequences of message types
  MaxCandidates,   \* bound: local ICE candidates gathered
  MaxSendFailures, \* bound: failing calls of send() on an open socket
  MaxDrops         \* bound: reports of a failed ICE connection

Types == {"offer", "candidate", "other"}

ASSUME ScriptsAssumption == Scripts # {} /\ Scripts \subseteq Seq(Types)
ASSUME BoundsAssumption ==
  MaxCandidates \in Nat /\ MaxSendFailures \in Nat /\ MaxDrops \in Nat

VARIABLES
  script,      \* the messages of this peer
  stream,      \* fragments sent by the peer and not yet received
  sent,        \* how many messages the peer has sent
  server,      \* where DirectTcpServer::Start is
  socket,      \* _clientSocket: "invalid", "open" or "closed"
  received,    \* fragments received so far
  handled,     \* messages that were parsed, in order
  remote,      \* the remote description: the message that set it, 0 if none
  refused,     \* offers whose SetRemoteDescription failed, and candidates that
               \* AddIceCandidate did not take
  creating,    \* offers whose CreateAnswer has not called back yet
  unanswered,  \* offers whose CreateAnswer called OnFailure
  answers,     \* offers whose answer OnSuccess was given, in order
  notSet,      \* answers whose SetLocalDescription failed
  candidates,  \* ICE candidates gathered
  sending,     \* the Send the signalling thread is in
  out,         \* what reached the peer
  sendErrors,  \* calls of Send that failed
  asserts,     \* candidates for which assert(ok) was false
  ice,         \* the ICE connection state, as far as the handler looks
  deletes      \* calls of delete _peerConnectionFactory

tcpVars == <<script, stream, sent, received, handled>>
peerVars == <<remote, refused, creating, unanswered, answers, notSet,
              candidates, ice>>
sendVars == <<sending, out, sendErrors>>
vars == <<tcpVars, server, socket, peerVars, sendVars, asserts,
          deletes>>

Idle == [type |-> "none", of |-> 0]

Init ==
  /\ script \in Scripts /\ stream = <<>> /\ sent = 0
  /\ server = "accepting" /\ socket = "invalid"
  /\ received = 0 /\ handled = <<>>
  /\ remote = 0 /\ refused = {}
  /\ creating = <<>> /\ unanswered = {} /\ answers = <<>> /\ notSet = {}
  /\ candidates = 0 /\ ice = "new"
  /\ sending = Idle /\ out = <<>> /\ sendErrors = 0
  /\ asserts = {}
  /\ deletes = 0

-----------------------------------------------------------------------------
(* The peer and the network (external).                                    *)

PeerSends ==
  /\ socket # "invalid" /\ server # "ended" /\ sent < Len(script)
  /\ sent' = sent + 1
  /\ stream' = stream \o <<<<sent', 1>>, <<sent', 2>>>>
  /\ UNCHANGED <<script, received, handled, server, socket, peerVars,
                 sendVars, asserts, deletes>>

-----------------------------------------------------------------------------
(* DirectTcpServer::Start                                                  *)

Accept ==
  /\ server = "accepting"
  /\ server' = "receiving" /\ socket' = "open"
  /\ UNCHANGED <<tcpVars, peerVars, sendVars, asserts, deletes>>

\* WSAStartup, bind, listen or accept fails: Start returns 1.
StartFails ==
  /\ server = "accepting"
  /\ server' = "ended"
  /\ UNCHANGED <<tcpVars, socket, peerVars, sendVars, asserts,
                 deletes>>

\* recv returns 0 once the peer has shut the connection down and the stream is
\* empty; shutdown() may fail, both branches close the socket.
ReceiveEnd ==
  /\ server = "receiving" /\ socket = "open" /\ stream = <<>>
  /\ server' = "ended" /\ socket' = "closed"
  /\ UNCHANGED <<tcpVars, peerVars, sendVars, asserts, deletes>>

\* recv fails: the connection was reset, or Send closed the socket.
ReceiveFails ==
  /\ server = "receiving"
  /\ server' = "ended" /\ socket' = "closed"
  /\ UNCHANGED <<tcpVars, peerVars, sendVars, asserts, deletes>>

\* JsonObject::TryParse: a chunk is an object only if it is one whole message.
TryParse(chunk) == Len(chunk) = 2 /\ chunk[1][1] = chunk[2][1]

\* The call into WebRTC that a message leads to: SetRemoteDescription for an
\* offer, AddIceCandidate for a candidate.  WebRTC may refuse either (an
\* unusable description or candidate); a candidate it also refuses when there
\* is no remote description.  OnSdpSetFailure is empty, so nobody notices a
\* refused offer; a refused candidate fails the assert.
Apply(k) ==
  \E taken \in BOOLEAN :
    /\ remote' = IF script[k] = "offer" /\ taken THEN k ELSE remote
    /\ refused' = IF script[k] # "other" /\ ~taken THEN refused \cup {k} ELSE refused
    /\ asserts' = IF script[k] = "candidate" /\ (~taken \/ remote = 0)
                    THEN asserts \cup {k} ELSE asserts

\* A bug: every piece of a message that begins a buffer is taken for it.
OnTcpMessagePartial(chunk) ==
  LET k == chunk[1][1]
  IN  /\ handled' = Append(handled, k)
      /\ server' = IF script[k] = "offer" THEN "answering" ELSE server
      /\ Apply(k)

\* A bug: every object is taken for an offer.
OnTcpMessageUntyped(chunk) ==
  IF ~TryParse(chunk)
  THEN UNCHANGED <<handled, server, remote, refused, asserts>>
  ELSE /\ handled' = Append(handled, chunk[1][1])
       /\ server' = "answering"
       /\ remote' = chunk[1][1]
       /\ UNCHANGED <<refused, asserts>>

\* The first part of SimpleTcpSignaling::OnTcpMessage, up to its last call
\* into the PeerConnection. An offer goes on with CreateAnswer, whether or not
\* it was set.
OnTcpMessage(chunk) ==
  LET k == chunk[1][1]
  IN  IF ~TryParse(chunk)
      THEN UNCHANGED <<handled, server, remote, refused, asserts>>
      ELSE /\ handled' = Append(handled, k)
           /\ server' = IF script[k] = "offer" THEN "answering" ELSE server
           /\ Apply(k)

\* One turn of the receive loop: what recv returned is handed on as one
\* message and the buffer is cleared.
Receive ==
  /\ server = "receiving" /\ socket = "open"
  /\ \E n \in 1..Len(stream) :
       /\ stream' = SubSeq(stream, n + 1, Len(stream))
       /\ received' = received + n
       /\ OnTcpMessage(SubSeq(stream, 1, n))
  /\ UNCHANGED <<script, sent, socket, creating, unanswered, answers, notSet,
                 candidates, ice, sendVars, deletes>>

\* A bug: the offer is set but no answer is asked for.
CreateAnswerForgotten ==
  /\ server = "answering"
  /\ server' = "receiving"
  /\ UNCHANGED <<tcpVars, socket, peerVars, sendVars, asserts,
                 deletes>>

\* The message OnTcpMessage is handling.
Current == handled[Len(handled)]

\* The second call of the offer branch.
CreateAnswer ==
  /\ server = "answering"
  /\ server' = "receiving"
  /\ creating' = Append(creating, Current)
  /\ UNCHANGED <<tcpVars, socket, remote, refused, unanswered, answers, notSet,
                 candidates, ice, sendVars, asserts, deletes>>

-----------------------------------------------------------------------------
(* Callbacks on the signalling thread                                      *)

Messages == 1..Len(script)
Offers == {k \in Messages : script[k] = "offer"}
HandledOffers == {k \in Offers : \E i \in 1..Len(handled) : handled[i] = k}

\* There is a remote description to answer, that of offer k or of one before.
Answerable(k) == \E j \in HandledOffers \ refused : j <= k

\* SetLocalDescription succeeds, and ICE begins, or it fails; nobody looks.
SetLocalDescription(k) ==
  \/ ice' = "checking" /\ UNCHANGED notSet
  \/ notSet' = notSet \cup {k} /\ UNCHANGED ice

\* A bug: the observer is told twice.
OnSuccessTwice ==
  /\ sending = Idle /\ creating # <<>> /\ Len(answers) < 4
  /\ \E rest \in {creating, Tail(creating)} : creating' = rest
  /\ answers' = Append(answers, Head(creating))
  /\ ice' = "checking"
  /\ sending' = [type |-> "answer", of |-> Head(creating)]
  /\ UNCHANGED <<tcpVars, server, socket, remote, refused, unanswered, notSet,
                 candidates, out, sendErrors, asserts, deletes>>

\* CreateSessionDescriptionObserver::OnSuccess calls SetLocalDescription and,
\* whatever comes of it, OnSdpCreated, which enters Send.
OnSuccess ==
  /\ sending = Idle /\ creating # <<>> /\ Answerable(Head(creating))
  /\ creating' = Tail(creating)
  /\ answers' = Append(answers, Head(creating))
  /\ SetLocalDescription(Head(creating))
  /\ sending' = [type |-> "answer", of |-> Head(creating)]
  /\ UNCHANGED <<tcpVars, server, socket, remote, refused, unanswered,
                 candidates, out, sendErrors, asserts, deletes>>

\* OnFailure does nothing: the peer is never told.
OnFailure ==
  /\ sending = Idle /\ creating # <<>>
  /\ creating' = Tail(creating)
  /\ unanswered' = unanswered \cup {Head(creating)}
  /\ UNCHANGED <<tcpVars, server, socket, remote, refused, answers, notSet,
                 candidates, ice, sendVars, asserts, deletes>>

\* Some answer is set as the local description.
HasLocalDescription == \E i \in 1..Len(answers) : answers[i] \notin notSet

\* A bug: candidates are sent from the thread that gathers them.
OnIceCandidateAnyThread ==
  /\ HasLocalDescription /\ candidates < MaxCandidates
  /\ candidates' = candidates + 1
  /\ sending' = [type |-> "candidate", of |-> candidates']
  /\ UNCHANGED <<tcpVars, server, socket, remote, refused, creating, unanswered,
                 answers, notSet, ice, out, sendErrors, asserts, deletes>>

\* PeerConnection::OnIceCandidate, and SendCandidate which enters Send.
\* Gathering begins with the local description.
OnIceCandidate ==
  /\ sending = Idle /\ HasLocalDescription /\ candidates < MaxCandidates
  /\ candidates' = candidates + 1
  /\ sending' = [type |-> "candidate", of |-> candidates']
  /\ UNCHANGED <<tcpVars, server, socket, remote, refused, creating, unanswered,
                 answers, notSet, ice, out, sendErrors, asserts, deletes>>

\* OnStandardizedIceConnectionChange with kIceConnectionFailed, which runs
\* OnPeerConnectionDropped: Close, whose body is commented out, and delete.
OnPeerConnectionDropped ==
  /\ sending = Idle /\ ice = "checking" /\ deletes < MaxDrops
  /\ ice' = "failed"
  /\ deletes' = deletes + 1
  /\ UNCHANGED <<tcpVars, server, socket, remote, refused, creating, unanswered,
                 answers, notSet, candidates, sendVars, asserts>>

\* A failed ICE connection is checked again: late candidates of the peer, or
\* a network that comes back (external).
IceResumes ==
  /\ sending = Idle /\ ice = "failed"
  /\ ice' = "checking"
  /\ UNCHANGED <<tcpVars, server, socket, remote, refused, creating, unanswered,
                 answers, notSet, candidates, sendVars, asserts, deletes>>

-----------------------------------------------------------------------------
(* DirectTcpServer::Send, its two calls of send()                          *)

SendMessage ==
  /\ sending.type \in {"answer", "candidate"} /\ socket = "open"
  /\ out' = Append(out, sending)
  /\ sending' = [sending EXCEPT !.type = "newline"]
  /\ UNCHANGED <<tcpVars, server, socket, peerVars, sendErrors,
                 asserts, deletes>>

\* The first send fails: the socket is closed and the newline left out.
SendFails ==
  /\ sending.type \in {"answer", "candidate"}
  /\ \/ socket = "open" /\ sendErrors < MaxSendFailures
     \/ socket = "closed"
  /\ socket' = "closed"
  /\ sendErrors' = sendErrors + 1
  /\ sending' = Idle
  /\ UNCHANGED <<tcpVars, server, peerVars, out, asserts, deletes>>

\* The result of the second send is not looked at.
SendNewline ==
  /\ sending.type = "newline"
  /\ out' = IF socket = "open" THEN Append(out, sending) ELSE out
  /\ sending' = Idle
  /\ UNCHANGED <<tcpVars, server, socket, peerVars, sendErrors,
                 asserts, deletes>>

-----------------------------------------------------------------------------
Next ==
  \/ PeerSends
  \/ Accept \/ StartFails \/ Receive \/ ReceiveEnd \/ ReceiveFails
  \/ CreateAnswer
  \/ OnSuccess \/ OnFailure \/ OnIceCandidate \/ OnPeerConnectionDropped
  \/ IceResumes
  \/ SendMessage \/ SendFails \/ SendNewline

Spec == Init /\ [][Next]_vars

\* The signalling thread keeps running its callbacks and OnTcpMessage returns;
\* nothing is assumed of the peer, of recv or of ICE.
FairSpec ==
  /\ Spec
  /\ WF_vars(CreateAnswer)
  /\ WF_vars(OnSuccess \/ OnFailure)
  /\ WF_vars(SendMessage \/ SendFails)
  /\ WF_vars(SendNewline)

-----------------------------------------------------------------------------
Answered(k) == \E i \in 1..Len(out) : out[i] = [type |-> "answer", of |-> k]

\* Both fragments of message k have been received.
Arrived(k) == 2 * k <= received

\* Every variable has its type: only offers become remote descriptions, get
\* answers and are set as local ones.
TypeOK ==
  /\ script \in Scripts
  /\ stream \in Seq(Messages \X {1, 2}) /\ sent \in 0..Len(script)
  /\ server \in {"accepting", "receiving", "answering", "ended"}
  /\ socket \in {"invalid", "open", "closed"}
  /\ received \in 0..(2 * Len(script)) /\ handled \in Seq(Messages)
  /\ remote \in {0} \cup Offers /\ creating \in Seq(Offers)
  /\ refused \subseteq Messages /\ asserts \subseteq Messages
  /\ unanswered \subseteq Offers /\ answers \in Seq(Offers)
  /\ notSet \subseteq Offers
  /\ candidates \in 0..MaxCandidates
  /\ sending.type \in {"none", "answer", "candidate", "newline"}
  /\ sendErrors \in Nat
  /\ ice \in {"new", "checking", "failed"}
  /\ deletes \in 0..MaxDrops

\* However recv cuts the stream, no message is handled twice or out of order,
\* and none before its last byte has arrived; what the framing loses it loses
\* whole.  assert(ok) after AddIceCandidate fails only for a candidate that
\* WebRTC refused for itself, or when every offer before it was lost by the
\* framing (it is not among the handled ones) or refused unnoticed.
HandledInOrder ==
  /\ \A i, j \in 1..Len(handled) : i < j => handled[i] < handled[j]
  /\ \A i \in 1..Len(handled) : Arrived(handled[i])
  /\ \A c \in asserts :
       c \in refused \/ \A k \in HandledOffers : k < c => k \in refused

\* The peer reads lines, and a candidate of this side only after an answer that
\* is set as the local description: two messages of the callbacks never run
\* together in `out', because both come from the one signalling thread, on
\* which OnSuccess hands out the answer before the gathering it has started can
\* report.
LinesInOrder ==
  /\ \A i \in 1..(Len(out) - 1) :
       (out[i].type # "newline") => (out[i + 1].type = "newline")
  /\ \A i \in 1..Len(out) : out[i].type = "candidate" =>
       \E j \in 1..(i - 1) : out[j].type = "answer" /\ out[j].of \notin notSet

\* The answers are made, and sent, in the order of the offers they are made for
\* and once each: every answer the peer gets was given to OnSuccess for an offer
\* that was handled, none for one whose answer failed or is still being
\* created, and none unless that offer or an earlier one is a remote
\* description.  That the answer is a local description is not promised:
\* OnSuccess sends it although SetLocalDescription failed (notSet).
AnswersMatchOffers ==
  /\ \A i, j \in 1..Len(answers) : i < j => answers[i] < answers[j]
  /\ \A i, j \in 1..Len(out) :
       i < j /\ out[i].type = "answer" /\ out[j].type = "answer"
         => out[i].of < out[j].of
  /\ \A i \in 1..Len(out) :
       out[i].type = "answer" => \E j \in 1..Len(answers) : answers[j] = out[i].of
  /\ \A j \in 1..Len(answers) :
       /\ answers[j] \in HandledOffers \ unanswered
       /\ Answerable(answers[j])
       /\ \A i \in 1..Len(creating) : creating[i] # answers[j]
  /\ \A k \in notSet : \E j \in 1..Len(answers) : answers[j] = k

\* An offer that was handled is answered, unless creating the answer failed or
\* the socket was closed.
OfferAnswered ==
  \A k \in UNION {1..Len(s) : s \in Scripts} :
    (k \in HandledOffers) ~> (k \in unanswered \/ Answered(k) \/ socket = "closed")
=============================================================================
