------------------------ MODULE EncodedSampleChannel ------------------------
(***************************************************************************)
(* What the stream sink promises to the sink writer on one side and to the *)
(* encoder on the other: a channel that keeps the order of the samples,    *)
(* may give up the newest ones, hands over one sample at a time, and once  *)
(* closed begins no further call.  H264StreamSink implements it, and       *)
(* H264Encoder relies on it for each generation of its writer.             *)
(***************************************************************************)
EXTENDS Naturals, Sequences

VARIABLES open,      \* not yet shut down
          accepted,  \* number of samples accepted
          queue,     \* samples accepted and not yet handed over, by number
          calling,   \* the sample the encoder is being called with, 0: none
          handed     \* samples whose call has ended

chanVars == <<open, accepted, queue, calling, handed>>

Init ==
  /\ open = TRUE
  /\ accepted = 0
  /\ queue = <<>>
  /\ calling = 0
  /\ handed = <<>>

Accept ==
  /\ open
  /\ accepted' = accepted + 1
  /\ queue' = Append(queue, accepted + 1)
  /\ UNCHANGED <<open, calling, handed>>

BeginCall ==
  /\ open
  /\ calling = 0
  /\ queue # <<>>
  /\ calling' = Head(queue)
  /\ queue' = Tail(queue)
  /\ UNCHANGED <<open, accepted, handed>>

EndCall ==
  /\ calling # 0
  /\ handed' = Append(handed, calling)
  /\ calling' = 0
  /\ UNCHANGED <<open, accepted, queue>>

\* The channel gives up its newest samples, and may be closed with that.
GiveUp ==
  /\ \E k \in 0 .. Len(queue) : queue' = SubSeq(queue, 1, k)
  /\ open' \in {open, FALSE}
  /\ UNCHANGED <<accepted, calling, handed>>

Next == Accept \/ BeginCall \/ EndCall \/ GiveUp

Spec == Init /\ [][Next]_chanVars
=============================================================================
