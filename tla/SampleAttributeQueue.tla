------------------------ MODULE SampleAttributeQueue ------------------------
(***************************************************************************)
(* utils/sample_attribute_queue.h: the attributes of the frames inside the *)
(* encoder, keyed by the sample time their encoded sample will carry.      *)
(* Every method runs under the lock of the queue, so each is one operator  *)
(* on the sequence of its entries [id, frame].                             *)
(***************************************************************************)
EXTENDS Naturals, Sequences

\* push(): ids are appended in the order of the calls, whatever their value.
Push(q, id, frame) == Append(q, [id |-> id, frame |-> frame])

\* Mutant: stops at the first entry, whatever its id.
PopFront(q, id) ==
  IF q = <<>>
    THEN [found |-> FALSE, frame |-> 0, queue |-> <<>>]
    ELSE [found |-> TRUE, frame |-> Head(q).frame, queue |-> Tail(q)]

\* pop(): the loop discards the entries before the first one whose id is not
\* smaller.  That entry answers the call; it is removed only if its id is
\* equal, an entry with a larger id is returned and stays.
Pop(q, id) ==
  IF \A i \in DOMAIN q : q[i].id < id
    THEN [found |-> FALSE, frame |-> 0, queue |-> <<>>]
    ELSE LET i == CHOOSE i \in DOMAIN q :
                    q[i].id >= id /\ \A j \in 1 .. (i - 1) : q[j].id < id
         IN  [found |-> TRUE,
              frame |-> q[i].frame,
              queue |-> SubSeq(q, IF q[i].id = id THEN i + 1 ELSE i, Len(q))]
=============================================================================
