---------------------------- MODULE LogonFraming ----------------------------
(***************************************************************************)
(* The connection to the login server (TCPSocket, extension/wowee/src/     *)
(* network/tcp_socket.cpp).  Its packets carry no length: the socket       *)
(* derives one from what it has buffered, and guesses it for the answer to *)
(* a proof, whose size depends on the server's build.                      *)
(*                                                                         *)
(* Bytes are counted from the start of the connection: the server has      *)
(* written packets, of which arrived bytes can be received and recv are;   *)
(* the receive buffer is what lies between off and recv.                   *)
(***************************************************************************)
EXTENDS Integers, Sequences

CONSTANTS
    Challenges,   \* sizes of a challenge up to its security flags
    Extras,       \* sizes of what the flags announce
    Proofs,       \* sizes of the answer to a proof, by the server's build
    Denials,      \* sizes of the refusal of a proof
    RealmLists,   \* sizes of a realm list
    Cuts,         \* bound: bytes of a packet that may arrive without the others
    MaxPackets    \* bound: packets the server writes

ASSUME SizesAssumption ==
    /\ Challenges \subseteq {n \in Nat : n >= 86}
    /\ Extras \subseteq Nat
    /\ Proofs \subseteq {26, 28, 32}
    /\ Denials \subseteq {2, 4}
    /\ RealmLists \subseteq {n \in Nat : n >= 3}
    /\ Cuts \subseteq Nat
    /\ MaxPackets \in Nat \ {0}

VARIABLES
    packets,      \* what the server has written
    asked,        \* requests that reached it
    arrived, recv, off,
    handed,       \* the packets handed to packetCallback, and how much of each
    cut,          \* a packet was taken before its end had been received
    conn,         \* "up", or "closed" by update(), "failed" or "left"
    peer,         \* "open", "closed", "reset" or "broken"
    saw,          \* this update() has seen the close
    phase         \* "idle", or in update(): "parse", "done"

server == <<packets, asked>>
vars   == <<packets, asked, arrived, recv, off, handed, cut, conn,
            peer, saw, phase>>
client == <<off, handed, cut, conn>>

Written == IF packets = <<>> THEN 0 ELSE packets[Len(packets)].upto
Have    == recv - off
From(i) == IF i <= 1 THEN 0 ELSE packets[i - 1].upto

-----------------------------------------------------------------------------
\* The login server answers each request with one packet: a challenge, its
\* refusal or, for the following ones, the answer to a proof and realm lists.
Kinds(i) == IF i = 1 THEN {"challenge", "refusal"}
            ELSE IF i = 2 THEN {"proof", "denial"} ELSE {"realms"}
Packet(kind, base, more) ==
    [kind |-> kind, base |-> base, upto |-> Written + base + more]
Sizes(kind) ==
    CASE kind = "challenge" -> {Packet(kind, n, m) : n \in Challenges, m \in Extras}
      [] kind = "refusal"   -> {Packet(kind, 3, 0)}
      [] kind = "proof"     -> {Packet(kind, n, 0) : n \in Proofs}
      [] kind = "denial"    -> {Packet(kind, n, 0) : n \in Denials}
      [] kind = "realms"    -> {Packet(kind, n, 0) : n \in RealmLists}

Write ==
    /\ peer = "open" /\ Len(packets) < asked
    /\ \E kind \in Kinds(Len(packets) + 1) : \E p \in Sizes(kind) :
           packets' = Append(packets, p)
    /\ UNCHANGED <<asked, arrived, recv, client, peer, saw, phase>>

\* The server closes, or resets the connection, or recv() fails otherwise.
PeerEnds ==
    /\ peer = "open"
    /\ peer' \in {"closed", "reset", "broken"}
    /\ UNCHANGED <<server, arrived, recv, client, saw, phase>>

\* The kernel has more bytes to be received: all, or some of a packet.
Pieces == {Written} \cup {From(Len(packets)) + n : n \in Cuts}
Arrive ==
    /\ conn = "up" /\ arrived < Written
    /\ arrived' \in {n \in Pieces : arrived < n /\ n <= Written}
    /\ UNCHANGED <<server, recv, client, peer, saw, phase>>

-----------------------------------------------------------------------------
\* TCPSocket::disconnect()
Drop(why, at) == conn' = why /\ off' = at /\ phase' = "idle" /\ saw' = FALSE

\* The session drops the connection: the player cancels, a realm is joined, a
\* login is refused.  Also from inside the callback of a packet.
Disconnect ==
    /\ conn = "up"
    /\ Drop("left", recv)
    /\ UNCHANGED <<server, arrived, recv, handed, cut, peer>>

\* receivedAny.  Mistake: what came with a close is not parsed.
ReceivedBeforeClose == arrived > recv /\ peer = "open"
ReceivedAny         == arrived > recv

\* update() drains the socket.  A close is behind the last byte, a reset may
\* overtake some; other errors drop what was received with them.
Drain ==
    /\ conn = "up" /\ phase = "idle"
    /\ recv' = arrived
    /\ \/ /\ peer # "broken"
          /\ saw' = (peer = "reset" \/ (peer = "closed" /\ arrived = Written))
          /\ phase' = IF ReceivedAny THEN "parse" ELSE "done"
          /\ UNCHANGED <<off, conn>>
       \/ /\ peer = "broken"
          /\ Drop("failed", arrived)
    /\ UNCHANGED <<server, arrived, handed, cut, peer>>

\* The packet that begins where the buffer does, if one does.
Starts == {i \in DOMAIN packets : From(i) = off}

\* Mistakes: the sizes are tried from the smallest; the challenge ends with
\* its flags; a refusal is always of four bytes.
SmallestFirst(p) ==
    CASE p.kind = "proof"  -> IF Have >= 26 THEN 26 ELSE 0
      [] p.kind = "denial" -> IF Have >= 4 THEN 4 ELSE IF Have >= 2 THEN 2 ELSE 0
      [] OTHER             -> IF Have >= p.base THEN p.upto - off ELSE 0
EndsWithFlags(p) ==
    CASE p.kind \in {"proof", "denial"} -> Have
      [] p.kind = "realms" -> IF Have >= 3 THEN p.upto - off ELSE 0
      [] OTHER             -> IF Have >= p.base THEN p.base ELSE 0
AlwaysFour(p) ==
    CASE p.kind = "denial" -> IF Have >= 4 THEN 4 ELSE 0
      [] p.kind = "realms" -> IF Have >= 3 THEN p.upto - off ELSE 0
      [] OTHER             -> IF Have >= p.base THEN p.upto - off ELSE 0

\* getExpectedPacketSize(), from the bytes buffered of p; zero if more are
\* needed.  Up to its flags a challenge does not show how long it is, and a
\* realm list shows it in its first three bytes.
ExpectedPacketSize(p) ==
    CASE p.kind = "proof"  -> IF Have >= 32 THEN 32 ELSE IF Have >= 28 THEN 28
                              ELSE IF Have >= 26 THEN 26 ELSE 0
      [] p.kind = "denial" -> IF Have >= 4 THEN 4 ELSE IF Have >= 2 THEN 2 ELSE 0
      [] p.kind = "realms" -> IF Have >= 3 THEN p.upto - off ELSE 0
      [] OTHER             -> IF Have >= p.base THEN p.upto - off ELSE 0

\* Mistake: the end of the packet is not waited for.
Known(n) == n # 0
Fits(n)  == n # 0 /\ n <= Have

\* packetCallback.  The handler of a challenge sends the proof, and that of an
\* accepted proof asks for the realms; a send that fails is only logged.  The
\* session may ask for the realms again.
Handle(kind) ==
    /\ \/ /\ kind \in {"challenge", "proof", "realms"} /\ asked < MaxPackets
          /\ asked' = asked + 1
       \/ UNCHANGED asked
    /\ UNCHANGED packets

\* tryParsePackets(), one turn of its loop.
Parse ==
    /\ phase = "parse" /\ Have >= 1
    /\ \E i \in Starts :
           LET n == ExpectedPacketSize(packets[i]) IN
           /\ Fits(n)
           /\ off' = off + n
           /\ handed' = Append(handed, [packet |-> i, size |-> n])
           /\ cut' = (cut \/ recv < packets[i].upto)
           /\ Handle(packets[i].kind)
    /\ UNCHANGED <<arrived, recv, conn, peer, saw, phase>>

\* What is left of a packet that was cut is taken for the start of another, of
\* any size from two bytes up; no handler expects what comes of it.
ParseGarbled ==
    /\ phase = "parse"
    /\ Starts = {}
    /\ \E n \in 2 .. Have : off' = off + n
    /\ UNCHANGED <<server, arrived, recv, handed, cut, conn, peer, saw, phase>>

\* The loop ends: the buffer is empty, or waits for more.
ParseEnd ==
    /\ phase = "parse"
    /\ \A i \in Starts : ~Fits(ExpectedPacketSize(packets[i]))
    /\ phase' = "done"
    /\ UNCHANGED <<server, arrived, recv, client, peer, saw>>

\* The end of update().
UpdateEnd ==
    /\ phase = "done"
    /\ UNCHANGED <<server, arrived, recv, handed, cut, peer>>
    /\ \/ saw /\ Drop("closed", recv)
       \/ ~saw /\ phase' = "idle" /\ UNCHANGED <<off, conn, saw>>

-----------------------------------------------------------------------------
Init ==
    /\ packets = <<>> /\ asked = 1
    /\ arrived = 0 /\ recv = 0 /\ off = 0
    /\ handed = <<>> /\ cut = FALSE
    /\ conn = "up" /\ peer = "open" /\ saw = FALSE /\ phase = "idle"

Update == Drain \/ Parse \/ ParseGarbled \/ ParseEnd \/ UpdateEnd

Next ==
    Write \/ PeerEnds \/ Arrive \/ Update \/ Disconnect

Spec == Init /\ [][Next]_vars

\* update() is called every frame, and what was written arrives.
FairSpec ==
    /\ Spec
    /\ WF_vars(Update)
    /\ WF_vars(Arrive)

-----------------------------------------------------------------------------
TypeOK ==
    /\ packets \in Seq([kind : {"challenge", "refusal", "proof", "denial", "realms"},
                        base : Nat, upto : Nat])
    /\ asked \in 0 .. MaxPackets
    /\ off \in 0 .. recv /\ recv \in 0 .. arrived /\ arrived \in 0 .. Written
    /\ handed \in Seq([packet : Nat, size : Nat])
    /\ cut \in BOOLEAN
    /\ conn \in {"up", "closed", "failed", "left"}
    /\ peer \in {"open", "closed", "reset", "broken"}
    /\ saw \in BOOLEAN /\ phase \in {"idle", "parse", "done"}

\* The handlers get the server's packets in order and none of them twice, in
\* whatever pieces these arrive; and each of them whole, with none left out,
\* unless the answer to a proof was taken while the end of it was under way.
FramesArePackets ==
    /\ \A i, j \in DOMAIN handed : i < j => handed[i].packet < handed[j].packet
    /\ ~cut => \A i \in DOMAIN handed :
                   /\ i \in DOMAIN packets
                   /\ handed[i] = [packet |-> i, size |-> packets[i].upto - From(i)]

\* The parsers of these packets ask for nothing (LogonLayouts), so whatever
\* they read has to be there, also if the packet was cut: two bytes of a
\* refused proof, with the server's proof twenty more of an accepted one, and
\* all of the others.
Reads(i) ==
    CASE packets[i].kind = "proof"  -> 22
      [] packets[i].kind = "denial" -> 2
      [] OTHER                      -> packets[i].upto - From(i)
HandedIsWhole ==
    \A i \in DOMAIN handed :
        handed[i].size >= Reads(handed[i].packet)

\* A server may answer and close: its last answer is handled before the close
\* is noticed.
CloseAfterAnswer ==
    conn = "closed" /\ peer = "closed" /\ ~cut => Len(handed) = Len(packets)

\* Every answer is handled while the connection stands.
AnswersHandled ==
    \A n \in 1 .. MaxPackets :
        Len(packets) >= n ~> Len(handed) >= n \/ conn # "up" \/ cut

=============================================================================
