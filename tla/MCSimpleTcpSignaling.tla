------------------------ MODULE MCSimpleTcpSignaling ------------------------
(* Peers that send their offer before their candidates, and one whose first *)
(* candidate comes too early.                                               *)
EXTENDS SimpleTcpSignaling

MCScripts == {<<"offer", "candidate", "other">>,
              <<"offer", "candidate", "offer">>,
              <<"candidate", "offer", "offer", "candidate">>}
=============================================================================
