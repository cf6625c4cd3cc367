---------------------------- MODULE PacketStream ----------------------------
(***************************************************************************)
(* What the session relies on when it reads from the world server: packets *)
(* are handed over one at a time, in the order they were written, without  *)
(* a gap, a repeat or a packet the server never wrote.  The stream may end *)
(* anywhere, so nothing obliges it to deliver.                             *)
(***************************************************************************)
EXTENDS Naturals, Sequences

VARIABLES
    sent,    \* how many packets the server has written
    got      \* the packets handed to the session, by number

streamVars == <<sent, got>>

Init == sent = 0 /\ got = <<>>

Write ==
    /\ sent' = sent + 1
    /\ UNCHANGED got

Deliver ==
    /\ Len(got) < sent
    /\ got' = Append(got, Len(got) + 1)
    /\ UNCHANGED sent

Next == Write \/ Deliver

Spec == Init /\ [][Next]_streamVars

=============================================================================
