------------------------- MODULE LogonFramingProofs -------------------------
(***************************************************************************)
(* Proofs about LogonFraming, for every size of the server's answers that  *)
(* SizesAssumption allows, every number of them, and pieces cut anywhere.  *)
(*                                                                         *)
(* That a guess from the buffered bytes can be right at all rests on two   *)
(* facts: the server answers one request at a time, and the next request   *)
(* leaves from the handler of the answer.  So the buffer never holds a     *)
(* byte behind the packet it begins with (OneAtATime), and what is         *)
(* buffered of a packet that is there whole is its size.                   *)
(***************************************************************************)
EXTENDS LogonFraming, TLAPS

PacketTypes == [kind : {"challenge", "refusal", "proof", "denial", "realms"},
                base : Nat, upto : Nat]

\* Each packet follows the one before it, with a size of its kind.
SizedAs(p, from) ==
    /\ from + p.base <= p.upto /\ p.base > 0
    /\ p.kind # "challenge" => p.upto = from + p.base
    /\ p.kind = "challenge" => p.base >= 86
    /\ p.kind = "proof"     => p.base \in {26, 28, 32}
    /\ p.kind = "denial"    => p.base \in {2, 4}
    /\ p.kind = "realms"    => p.base >= 3
StreamOK ==
    /\ \A i \in DOMAIN packets : SizedAs(packets[i], From(i))
    /\ \A i, j \in DOMAIN packets : i < j => packets[i].upto < packets[j].upto

\* The server answers no more than it is asked, and is asked by handlers.
OneAtATime ==
    /\ Len(packets) <= asked
    /\ asked <= Len(handed) + 1

\* Unless a packet was cut, the buffer starts at the first that is not handed
\* over, and whatever was received whole is.
InStep ==
    ~cut => /\ Len(handed) <= Len(packets)
            /\ conn = "up" => off = From(Len(handed) + 1)
            /\ conn = "up" /\ phase # "parse" /\ recv = Written =>
                   Len(handed) = Len(packets)

\* What is handed over has been written, also after a cut.
PacketsHanded == \A i \in DOMAIN handed : handed[i].packet \in DOMAIN packets

\* What is handed over is whole and is each in its turn, unless one was cut.
WholeUnlessCut ==
    ~cut => \A i \in DOMAIN handed :
                /\ i \in DOMAIN packets
                /\ handed[i] = [packet |-> i, size |-> packets[i].upto - From(i)]

\* A close is seen behind the last byte, and acted upon after parsing.
ClosingOK ==
    /\ conn # "up" => phase = "idle"
    /\ saw => peer \in {"closed", "reset"} /\ conn = "up"
    /\ saw /\ peer = "closed" => recv = Written
    /\ conn = "closed" => peer \in {"closed", "reset"}

IInv ==
    /\ TypeOK
    /\ StreamOK
    /\ OneAtATime
    /\ InStep
    /\ ClosingOK
    /\ PacketsHanded
    /\ WholeUnlessCut
    /\ HandedIsWhole
    /\ CloseAfterAnswer

-----------------------------------------------------------------------------
LEMMA PacketFacts ==
    ASSUME TypeOK, NEW i \in DOMAIN packets
    PROVE  /\ packets[i] \in PacketTypes
           /\ packets[i].base \in Nat /\ packets[i].upto \in Nat
           /\ i \in Nat /\ i >= 1 /\ i <= Len(packets)
<1>1. packets \in Seq(PacketTypes)
  BY DEF TypeOK, PacketTypes
<1>2. DOMAIN packets = 1 .. Len(packets) /\ Len(packets) \in Nat /\ packets[i] \in PacketTypes
  BY <1>1
<1> QED BY <1>2 DEF PacketTypes

\* Where packets begin: at the end of the one before, each later than all
\* before it.
LEMMA FromIncreases ==
    ASSUME TypeOK, StreamOK
    PROVE  /\ Len(packets) \in Nat /\ Written \in Nat
           /\ Written = From(Len(packets) + 1)
           /\ \A i \in 1 .. Len(packets) + 1 : From(i) \in Nat /\ From(i) <= Written
           /\ \A i \in 1 .. Len(packets) : From(i) < packets[i].upto
           /\ \A i, j \in 1 .. Len(packets) + 1 : i < j => From(i) < From(j)
<1>1. Len(packets) \in Nat /\ DOMAIN packets = 1 .. Len(packets)
  BY DEF TypeOK
<1>2. \A i \in 1 .. Len(packets) : packets[i].upto \in Nat /\ packets[i].base \in Nat
  BY <1>1, PacketFacts
<1>3. \A i \in 1 .. Len(packets) + 1 : From(i) \in Nat
  BY <1>1, <1>2 DEF From
<1>4. Written = From(Len(packets) + 1)
  BY <1>1 DEF Written, From, TypeOK
<1>5. \A i \in 1 .. Len(packets) : From(i) < packets[i].upto
  BY <1>1, <1>2, <1>3, SMTT(60) DEF StreamOK, SizedAs
<1>6. ASSUME NEW i \in 1 .. Len(packets) + 1, NEW j \in 1 .. Len(packets) + 1, i < j
      PROVE  From(i) < From(j)
  <2>1. j - 1 \in 1 .. Len(packets) /\ i \in 1 .. Len(packets) /\ i <= j - 1
    BY <1>6, <1>1
  <2>2. From(j) = packets[j - 1].upto
    BY <2>1 DEF From
  <2>3. packets[i].upto <= packets[j - 1].upto
    <3>1. CASE i = j - 1
      BY <3>1, <2>1, <1>2
    <3>2. CASE i < j - 1
      BY <3>2, <2>1, <1>1, <1>2, SMTT(60) DEF StreamOK
    <3> QED BY <3>1, <3>2, <2>1
  <2> QED BY <2>1, <2>2, <2>3, <1>5, <1>2, <1>3
<1>7. \A i \in 1 .. Len(packets) + 1 : From(i) <= Written
  BY <1>1, <1>3, <1>4, <1>6
<1> QED BY <1>1, <1>3, <1>4, <1>5, <1>6, <1>7

\* While nothing was cut, the packet that begins where the buffer does is the
\* next to be handed over, and nothing is buffered behind its end.
LEMMA NextPacket ==
    ASSUME IInv, ~cut, conn = "up", Have >= 1
    PROVE  /\ Len(packets) = Len(handed) + 1
           /\ Starts = {Len(packets)}
           /\ recv <= packets[Len(packets)].upto
           /\ Written = packets[Len(packets)].upto
<1> DEFINE k == Len(handed) + 1
<1>1. /\ off \in Nat /\ recv \in Nat /\ recv <= Written /\ off < recv
      /\ asked \in Nat /\ Len(handed) \in Nat /\ Len(packets) \in Nat
  BY FromIncreases DEF IInv, TypeOK, Have
<1>2. off = From(k) /\ Len(packets) <= k /\ k <= Len(packets) + 1
  BY <1>1 DEF IInv, InStep, OneAtATime
<1>3. k # Len(packets) + 1
  BY <1>1, <1>2, FromIncreases DEF IInv
<1>4. k = Len(packets)
  BY <1>1, <1>2, <1>3
<1>5. DOMAIN packets = 1 .. Len(packets)
  BY DEF IInv, TypeOK
<1>6. Starts = {k}
  <2>1. \A i \in 1 .. Len(packets) + 1 : From(i) \in Nat
    BY FromIncreases DEF IInv
  <2>2. ASSUME NEW i \in 1 .. Len(packets), From(i) = From(k) PROVE i = k
    <3>1. \A a, b \in 1 .. Len(packets) + 1 : a < b => From(a) < From(b)
      BY FromIncreases DEF IInv
    <3>2. From(i) \in Nat /\ From(k) \in Nat
      BY <2>1, <1>1, <1>4
    <3> QED BY <2>2, <3>1, <3>2, <1>1, <1>4
  <2>3. k \in DOMAIN packets
    BY <1>4, <1>5, <1>1
  <2> QED BY <2>2, <2>3, <1>2, <1>5 DEF Starts
<1>7. Written = packets[Len(packets)].upto
  BY <1>1, <1>4 DEF Written
<1> QED BY <1>1, <1>4, <1>6, <1>7

\* What the guess yields: of a packet that is there whole with nothing behind
\* it, its size; and always as much as its parser reads.
LEMMA GuessIsRight ==
    ASSUME TypeOK, StreamOK, NEW i \in Starts
    PROVE  LET p == packets[i]  n == ExpectedPacketSize(p) IN
           /\ n \in Nat
           /\ Fits(n) => n >= Reads(i)
           /\ recv = p.upto => n = p.upto - off /\ Fits(n)
<1> DEFINE p == packets[i]
<1>1. /\ i \in DOMAIN packets /\ From(i) = off /\ p \in PacketTypes
      /\ p.base \in Nat /\ p.upto \in Nat
  BY PacketFacts DEF Starts
<1>2. SizedAs(p, off)
  BY <1>1 DEF StreamOK
<1>3. off \in Nat /\ recv \in Nat /\ Have \in Nat /\ Have = recv - off
  BY FromIncreases DEF TypeOK, Have
<1>4. p.upto - From(i) \in Nat /\ p.upto - off = p.upto - From(i) /\ p.upto - off > 0
  BY <1>1, <1>2, <1>3 DEF SizedAs
<1>5. CASE p.kind = "proof"
  BY <1>1, <1>2, <1>3, <1>4, <1>5 DEF SizedAs, ExpectedPacketSize, Fits, Reads
<1>6. CASE p.kind = "denial"
  BY <1>1, <1>2, <1>3, <1>4, <1>6 DEF SizedAs, ExpectedPacketSize, Fits, Reads
<1>7. CASE p.kind \in {"challenge", "refusal"}
  BY <1>1, <1>2, <1>3, <1>4, <1>7 DEF SizedAs, ExpectedPacketSize, Fits, Reads
<1>8. CASE p.kind = "realms"
  BY <1>1, <1>2, <1>3, <1>4, <1>8 DEF SizedAs, ExpectedPacketSize, Fits, Reads
<1> QED BY <1>1, <1>5, <1>6, <1>7, <1>8 DEF PacketTypes

-----------------------------------------------------------------------------
LEMMA InitIInv == Init => IInv
<1> SUFFICES ASSUME Init PROVE IInv
  OBVIOUS
<1>1. MaxPackets \in Nat \ {0}
  BY SizesAssumption
<1>2. Written = 0 /\ Len(packets) = 0 /\ DOMAIN packets = {} /\ From(1) = 0
      /\ Len(handed) = 0 /\ DOMAIN handed = {}
  BY DEF Init, Written, From
<1>3. TypeOK
  <2>1. packets \in Seq(PacketTypes) /\ handed \in Seq([packet : Nat, size : Nat])
    BY DEF Init
  <2>2. cut \in BOOLEAN /\ saw \in BOOLEAN
    BY DEF Init
  <2>5. asked \in 0 .. MaxPackets
    BY <1>1 DEF Init
  <2>4. /\ off \in 0 .. recv /\ recv \in 0 .. arrived /\ arrived \in 0 .. Written
    BY <1>2 DEF Init
  <2>3. /\ conn \in {"up", "closed", "failed", "left"}
        /\ peer \in {"open", "closed", "reset", "broken"}
        /\ phase \in {"idle", "parse", "done"}
    BY DEF Init
  <2> QED BY <2>1, <2>2, <2>3, <2>4, <2>5 DEF TypeOK, PacketTypes
<1>4. StreamOK /\ PacketsHanded /\ WholeUnlessCut /\ HandedIsWhole
  BY <1>2 DEF StreamOK, PacketsHanded, WholeUnlessCut, HandedIsWhole
<1>5. OneAtATime /\ InStep /\ ClosingOK /\ CloseAfterAnswer
  BY <1>2 DEF Init, OneAtATime, InStep, ClosingOK, CloseAfterAnswer
<1> QED BY <1>3, <1>4, <1>5 DEF IInv

\* The server writes another packet.
LEMMA WriteStep == IInv /\ Write => IInv'
<1> SUFFICES ASSUME IInv, Write PROVE IInv'
  OBVIOUS
<1> USE DEF IInv
<1>u. /\ peer = "open" /\ Len(packets) < asked
      /\ UNCHANGED <<asked, arrived, recv, off, handed, cut, conn, peer, saw, phase>>
  BY DEF Write, client
<1>0. PICK kind \in Kinds(Len(packets) + 1) :
          \E p \in Sizes(kind) : packets' = Append(packets, p)
  BY DEF Write
<1>1. PICK p \in Sizes(kind) : packets' = Append(packets, p)
  BY <1>0
<1>2. Len(packets) \in Nat /\ Written \in Nat /\ DOMAIN packets = 1 .. Len(packets)
  BY FromIncreases DEF TypeOK
<1>3. /\ p \in PacketTypes /\ p.upto > Written /\ SizedAs(p, Written)
  <2>1. CASE kind = "challenge"
    BY <1>1, <1>2, <2>1, SizesAssumption DEF Sizes, Packet, SizedAs, PacketTypes
  <2>2. CASE kind = "refusal"
    BY <1>1, <1>2, <2>2 DEF Sizes, Packet, SizedAs, PacketTypes
  <2>3. CASE kind = "proof"
    BY <1>1, <1>2, <2>3, SizesAssumption DEF Sizes, Packet, SizedAs, PacketTypes
  <2>4. CASE kind = "denial"
    BY <1>1, <1>2, <2>4, SizesAssumption DEF Sizes, Packet, SizedAs, PacketTypes
  <2>5. CASE kind = "realms"
    BY <1>1, <1>2, <2>5, SizesAssumption DEF Sizes, Packet, SizedAs, PacketTypes
  <2> QED BY <1>0, <2>1, <2>2, <2>3, <2>4, <2>5 DEF Kinds
<1>4. /\ packets' \in Seq(PacketTypes) /\ Len(packets') = Len(packets) + 1
      /\ DOMAIN packets' = 1 .. Len(packets) + 1
      /\ \A i \in 1 .. Len(packets) : packets'[i] = packets[i]
      /\ packets'[Len(packets) + 1] = p
  <2>1. packets \in Seq(PacketTypes)
    BY DEF TypeOK, PacketTypes
  <2> QED BY <1>1, <1>3, <2>1
<1>5. /\ \A i \in 1 .. Len(packets) + 1 : From(i)' = From(i)
      /\ Written' = p.upto
  BY <1>2, <1>4 DEF From, Written
<1>6. From(Len(packets) + 1) = Written /\ p.upto \in Nat
  BY FromIncreases, <1>3 DEF PacketTypes
<1>7. TypeOK'
  BY <1>u, <1>2, <1>3, <1>4, <1>5, <1>6 DEF TypeOK, PacketTypes
<1>8. StreamOK'
  <2>1. ASSUME NEW i \in 1 .. Len(packets) + 1 PROVE SizedAs(packets'[i], From(i)')
    BY <1>2, <1>3, <1>4, <1>5, <1>6 DEF StreamOK
  <2>2. ASSUME NEW i \in 1 .. Len(packets), NEW j \in 1 .. Len(packets) + 1, i < j
        PROVE  packets'[i].upto < packets'[j].upto
    <3>1. CASE j <= Len(packets)
      BY <2>2, <3>1, <1>2, <1>4 DEF StreamOK
    <3>2. CASE j = Len(packets) + 1
      <4>1. From(i + 1) <= Written /\ From(i + 1) = packets[i].upto
        <5>1. i + 1 \in 1 .. Len(packets) + 1 /\ i + 1 # 1 /\ i + 1 > 1
          BY <1>2
        <5>2. From(i + 1) = packets[i].upto
          BY <5>1, <1>2 DEF From
        <5> QED BY <5>1, <5>2, FromIncreases
      <4> QED BY <4>1, <3>2, <1>2, <1>3, <1>4, <1>6, PacketFacts
    <3> QED BY <3>1, <3>2, <1>2
  <2> QED BY <2>1, <2>2, <1>2, <1>4, <1>5 DEF StreamOK
<1>9. OneAtATime'
  BY <1>u, <1>2, <1>4 DEF OneAtATime, TypeOK
<1>10. InStep'
  BY <1>u, <1>2, <1>3, <1>4, <1>5, <1>6 DEF InStep, TypeOK
<1>11. ClosingOK'
  BY <1>u DEF ClosingOK
<1>12. WholeUnlessCut'
  BY <1>u, <1>2, <1>4, <1>5 DEF WholeUnlessCut
<1>13. HandedIsWhole'
  <2>1. ASSUME NEW i \in DOMAIN handed PROVE handed[i].packet \in 1 .. Len(packets)
    BY <2>1, <1>2 DEF PacketsHanded
  <2>2. ASSUME NEW i \in 1 .. Len(packets) PROVE Reads(i)' = Reads(i)
    BY <2>2, <1>2, <1>4, <1>5 DEF Reads
  <2> QED BY <1>u, <2>1, <2>2 DEF HandedIsWhole
<1>14. CloseAfterAnswer'
  BY <1>u DEF CloseAfterAnswer
<1>15. PacketsHanded'
  BY <1>u, <1>2, <1>4 DEF PacketsHanded
<1> QED BY <1>7, <1>8, <1>9, <1>10, <1>11, <1>12, <1>13, <1>14, <1>15

LEMMA TypesStay ==
    ASSUME TypeOK, UNCHANGED <<packets, asked, handed>>,
           off' \in 0 .. recv', recv' \in 0 .. arrived', arrived' \in 0 .. Written,
           cut' \in BOOLEAN, saw' \in BOOLEAN,
           conn' \in {"up", "closed", "failed", "left"},
           peer' \in {"open", "closed", "reset", "broken"},
           phase' \in {"idle", "parse", "done"}
    PROVE  TypeOK'
<1>1. Written' = Written
  BY DEF Written
<1> QED BY <1>1 DEF TypeOK

\* The steps that leave the packets alone keep what is said of them only.
LEMMA PacketsStay ==
    ASSUME IInv, UNCHANGED <<packets, asked, handed>>, TypeOK'
    PROVE  /\ StreamOK' /\ OneAtATime' /\ PacketsHanded' /\ HandedIsWhole'
           /\ Written' = Written /\ \A i : From(i)' = From(i)
           /\ (cut => cut') => WholeUnlessCut'
<1>1. Written' = Written /\ \A i : From(i)' = From(i)
  BY DEF Written, From
<1>2. StreamOK' /\ OneAtATime' /\ PacketsHanded'
  BY <1>1 DEF IInv, StreamOK, OneAtATime, PacketsHanded
<1>3. HandedIsWhole'
  BY <1>1 DEF IInv, HandedIsWhole, Reads
<1>4. (cut => cut') => WholeUnlessCut'
  BY <1>1 DEF IInv, WholeUnlessCut
<1> QED BY <1>1, <1>2, <1>3, <1>4

LEMMA SmallSteps ==
    IInv /\ (PeerEnds \/ Arrive \/ Disconnect \/ Drain \/ ParseEnd \/ UpdateEnd \/ UNCHANGED vars)
        => IInv'
<1> SUFFICES ASSUME IInv,
                    PeerEnds \/ Arrive \/ Disconnect \/ Drain \/ ParseEnd \/ UpdateEnd
                        \/ UNCHANGED vars
             PROVE  IInv'
  OBVIOUS
<1>1. /\ Len(packets) \in Nat /\ Written \in Nat /\ Len(handed) \in Nat
      /\ off \in Nat /\ recv \in Nat /\ arrived \in Nat
      /\ off <= recv /\ recv <= arrived /\ arrived <= Written
      /\ \A i \in 1 .. Len(packets) + 1 : From(i) \in Nat /\ From(i) <= Written
  BY FromIncreases DEF IInv, TypeOK
<1>2. CASE PeerEnds
  <2>1. TypeOK'
    BY <1>2 DEF IInv, TypeOK, PeerEnds, server, client, Written
  <2>2. UNCHANGED <<packets, asked, handed, cut, conn, recv, off, phase, saw>>
    BY <1>2 DEF PeerEnds, server, client
  <2>3. Written' = Written /\ \A i : From(i)' = From(i)
    BY <2>1, <2>2, PacketsStay
  <2>4. InStep' /\ ClosingOK' /\ CloseAfterAnswer'
    BY <1>2, <2>2, <2>3 DEF IInv, PeerEnds, InStep, ClosingOK, CloseAfterAnswer
  <2> QED BY <2>1, <2>2, <2>4, PacketsStay DEF IInv
<1>3. CASE Arrive
  <2>1. arrived' \in Nat /\ arrived' > arrived /\ arrived' <= Written
    <3>1. arrived' \in Pieces /\ arrived < arrived' /\ arrived' <= Written
      BY <1>3 DEF Arrive
    <3>2. From(Len(packets)) \in Nat
      <4>1. CASE Len(packets) = 0
        BY <4>1 DEF From
      <4>2. CASE Len(packets) # 0
        BY <1>1, <4>2
      <4> QED BY <4>1, <4>2
    <3>3. Pieces \subseteq Nat
      BY <1>1, <3>2, SizesAssumption DEF Pieces
    <3> QED BY <1>1, <3>1, <3>3
  <2>2. UNCHANGED <<packets, asked, handed, cut, conn, recv, off, phase, saw, peer>>
    BY <1>3 DEF Arrive, server, client
  <2>3. TypeOK'
    BY <1>1, <2>1, <2>2, TypesStay DEF IInv, TypeOK
  <2> QED BY <2>2, <2>3, PacketsStay DEF IInv, InStep, ClosingOK, CloseAfterAnswer
<1>4. CASE Disconnect
  <2>1. /\ conn = "up" /\ conn' = "left" /\ off' = recv /\ phase' = "idle" /\ saw' = FALSE
        /\ UNCHANGED <<packets, asked, arrived, recv, handed, cut, peer>>
    BY <1>4 DEF Disconnect, Drop, server
  <2>2. TypeOK'
    <3>1. off' \in 0 .. recv' /\ recv' \in 0 .. arrived' /\ arrived' \in 0 .. Written
      BY <1>1, <2>1
    <3> QED BY <2>1, <3>1, TypesStay DEF IInv, TypeOK
  <2> QED BY <2>1, <2>2, PacketsStay DEF IInv, InStep, ClosingOK, CloseAfterAnswer
<1>5. CASE Drain
  <2>1. /\ conn = "up" /\ phase = "idle" /\ recv' = arrived
        /\ UNCHANGED <<packets, asked, arrived, handed, cut, peer>>
    BY <1>5 DEF Drain, server
  <2>2. CASE peer = "broken"
    <3>1. conn' = "failed" /\ off' = arrived /\ phase' = "idle" /\ saw' = FALSE
      BY <1>5, <2>2 DEF Drain, Drop
    <3>2. TypeOK'
      <4>1. off' \in 0 .. recv' /\ recv' \in 0 .. arrived' /\ arrived' \in 0 .. Written
        BY <1>1, <2>1, <3>1
      <4> QED BY <2>1, <3>1, <4>1, TypesStay DEF IInv, TypeOK
    <3> QED BY <2>1, <3>1, <3>2, PacketsStay DEF IInv, InStep, ClosingOK, CloseAfterAnswer
  <2>3. CASE peer # "broken"
    <3>1. /\ saw' = (peer = "reset" \/ (peer = "closed" /\ arrived = Written))
          /\ phase' = IF arrived > recv THEN "parse" ELSE "done"
          /\ UNCHANGED <<off, conn>>
      BY <1>5, <2>3 DEF Drain, ReceivedAny
    <3>2. TypeOK'
      <4>1. off' \in 0 .. recv' /\ recv' \in 0 .. arrived' /\ arrived' \in 0 .. Written
        BY <1>1, <2>1, <3>1
      <4> QED BY <2>1, <3>1, <4>1, TypesStay DEF IInv, TypeOK
    <3>3. Written' = Written /\ \A i : From(i)' = From(i)
      BY <2>1, <3>2, PacketsStay
    <3>4. InStep'
      BY <1>1, <2>1, <3>1, <3>3 DEF IInv, InStep
    <3>5. ClosingOK' /\ CloseAfterAnswer'
      BY <2>1, <3>1, <3>3 DEF IInv, ClosingOK, CloseAfterAnswer
    <3> QED BY <2>1, <3>2, <3>4, <3>5, PacketsStay DEF IInv
  <2> QED BY <2>2, <2>3
<1>6. CASE ParseEnd
  <2>1. /\ phase = "parse" /\ phase' = "done"
        /\ \A i \in Starts : ~Fits(ExpectedPacketSize(packets[i]))
        /\ UNCHANGED <<packets, asked, arrived, recv, handed, cut, peer, off, conn, saw>>
    BY <1>6 DEF ParseEnd, server, client
  <2>2. TypeOK'
    BY <1>1, <2>1, TypesStay DEF IInv, TypeOK
  <2>3. Written' = Written /\ \A i : From(i)' = From(i)
    BY <2>1, <2>2, PacketsStay
  <2>4. ASSUME ~cut, conn = "up", recv = Written PROVE Len(handed) = Len(packets)
    <3>1. CASE Have >= 1
      <4>1. Len(packets) \in Starts /\ Written = packets[Len(packets)].upto
        BY <2>4, <3>1, NextPacket
      <4>2. Fits(ExpectedPacketSize(packets[Len(packets)]))
        BY <2>4, <4>1, GuessIsRight DEF IInv
      <4> QED BY <2>1, <4>1, <4>2
    <3>2. CASE ~(Have >= 1)
      <4>1. off = Written
        BY <1>1, <2>4, <3>2 DEF Have
      <4>2. off = From(Len(handed) + 1) /\ Len(handed) <= Len(packets)
        BY <2>4 DEF IInv, InStep
      <4>3. Written = From(Len(packets) + 1)
            /\ \A i, j \in 1 .. Len(packets) + 1 : i < j => From(i) < From(j)
        BY FromIncreases DEF IInv
      <4> QED BY <1>1, <4>1, <4>2, <4>3
    <3> QED BY <3>1, <3>2
  <2>5. InStep'
    BY <2>1, <2>3, <2>4 DEF IInv, InStep
  <2>6. ClosingOK' /\ CloseAfterAnswer'
    BY <2>1, <2>3 DEF IInv, ClosingOK, CloseAfterAnswer
  <2> QED BY <2>1, <2>2, <2>5, <2>6, PacketsStay DEF IInv
<1>7. CASE UpdateEnd
  <2>1. /\ phase = "done" /\ phase' = "idle"
        /\ UNCHANGED <<packets, asked, arrived, recv, handed, cut, peer>>
    BY <1>7 DEF UpdateEnd, Drop, server
  <2>2. CASE saw
    <3>1. conn' = "closed" /\ off' = recv /\ saw' = FALSE
      BY <1>7, <2>2 DEF UpdateEnd, Drop
    <3>2. TypeOK'
      <4>1. off' \in 0 .. recv' /\ recv' \in 0 .. arrived' /\ arrived' \in 0 .. Written
        BY <1>1, <2>1, <3>1
      <4> QED BY <2>1, <3>1, <4>1, TypesStay DEF IInv, TypeOK
    <3>3. CloseAfterAnswer'
      BY <2>1, <2>2, <3>1 DEF IInv, InStep, ClosingOK, CloseAfterAnswer
    <3>4. ClosingOK'
      BY <2>1, <2>2, <3>1 DEF IInv, ClosingOK
    <3>5. InStep'
      BY <2>1, <3>1, <3>2, PacketsStay DEF IInv, InStep
    <3> QED BY <2>1, <3>2, <3>3, <3>4, <3>5, PacketsStay DEF IInv
  <2>3. CASE ~saw
    <3>1. UNCHANGED <<off, conn, saw>>
      BY <1>7, <2>3 DEF UpdateEnd
    <3>2. TypeOK'
      <4>1. off' \in 0 .. recv' /\ recv' \in 0 .. arrived' /\ arrived' \in 0 .. Written
        BY <1>1, <2>1, <3>1
      <4> QED BY <2>1, <3>1, <4>1, TypesStay DEF IInv, TypeOK
    <3> QED BY <2>1, <3>1, <3>2, PacketsStay DEF IInv, InStep, ClosingOK, CloseAfterAnswer
  <2> QED BY <2>2, <2>3
<1>8. CASE UNCHANGED vars
  <2>1. TypeOK'
    BY <1>8, TypesStay DEF IInv, TypeOK, vars
  <2> QED BY <1>8, <2>1, PacketsStay DEF vars, IInv, InStep, ClosingOK, CloseAfterAnswer
<1> QED BY <1>2, <1>3, <1>4, <1>5, <1>6, <1>7, <1>8

LEMMA ParseStep == IInv /\ Parse => IInv'
<1> SUFFICES ASSUME IInv, Parse PROVE IInv'
  OBVIOUS
<1>1. PICK i \in Starts :
          /\ Fits(ExpectedPacketSize(packets[i]))
          /\ off' = off + ExpectedPacketSize(packets[i])
          /\ handed' = Append(handed, [packet |-> i, size |-> ExpectedPacketSize(packets[i])])
          /\ cut' = (cut \/ recv < packets[i].upto)
          /\ Handle(packets[i].kind)
  BY DEF Parse
<1> DEFINE n == ExpectedPacketSize(packets[i])
<1>2. /\ phase = "parse" /\ Have >= 1 /\ UNCHANGED <<packets, arrived, recv, conn, peer, saw, phase>>
  BY <1>1 DEF Parse, Handle
<1>3. conn = "up"
  BY <1>2 DEF IInv, ClosingOK
<1>4. asked' = asked \/ (asked' = asked + 1 /\ asked < MaxPackets)
  BY <1>1 DEF Handle
<1>5. /\ Len(packets) \in Nat /\ Written \in Nat /\ DOMAIN packets = 1 .. Len(packets)
      /\ off \in Nat /\ recv \in Nat /\ arrived \in Nat /\ Have = recv - off
      /\ off <= recv /\ recv <= arrived /\ arrived <= Written
      /\ handed \in Seq([packet : Nat, size : Nat]) /\ asked \in 0 .. MaxPackets
  BY FromIncreases DEF IInv, TypeOK, Have
<1>6. i \in DOMAIN packets /\ From(i) = off /\ packets[i].upto \in Nat /\ i \in Nat
  BY PacketFacts DEF Starts, IInv
<1>7. n \in Nat /\ n <= Have /\ n >= Reads(i) /\ (recv = packets[i].upto => n = packets[i].upto - off)
  BY <1>1, GuessIsRight DEF IInv, Fits
<1>8. Written' = Written /\ \A k : From(k)' = From(k) /\ Reads(k)' = Reads(k)
  BY <1>2 DEF Written, From, Reads
<1>9. /\ handed' \in Seq([packet : Nat, size : Nat]) /\ Len(handed) \in Nat
      /\ Len(handed') = Len(handed) + 1 /\ DOMAIN handed = 1 .. Len(handed)
      /\ DOMAIN handed' = 1 .. Len(handed) + 1
      /\ \A k \in 1 .. Len(handed) : handed'[k] = handed[k]
      /\ handed'[Len(handed) + 1] = [packet |-> i, size |-> n]
  <2>1. [packet |-> i, size |-> n] \in [packet : Nat, size : Nat]
    BY <1>6, <1>7
  <2> QED BY <1>1, <1>5, <2>1
\* Unless this packet is cut, it is the next, it is there whole, and no more.
<1>10. ASSUME ~cut'
       PROVE  ~cut /\ i = Len(handed) + 1 /\ i = Len(packets) /\ off' = packets[i].upto
              /\ n = packets[i].upto - From(i)
  <2>1. ~cut /\ ~(recv < packets[i].upto)
    BY <1>1, <1>10
  <2>2. Len(packets) = Len(handed) + 1 /\ i = Len(packets) /\ recv <= packets[i].upto
    BY <1>2, <1>3, <2>1, NextPacket
  <2> QED BY <1>1, <1>5, <1>6, <1>7, <2>1, <2>2
<1>11. TypeOK'
  <2>1. off' \in 0 .. recv'
    BY <1>1, <1>2, <1>5, <1>7
  <2>2. cut' \in BOOLEAN
    BY <1>1
  <2>3. asked' \in 0 .. MaxPackets
    BY <1>4, <1>5, SizesAssumption
  <2> QED BY <1>2, <1>8, <1>9, <2>1, <2>2, <2>3 DEF IInv, TypeOK
<1>12. StreamOK'
  BY <1>2, <1>8 DEF IInv, StreamOK
<1>13. OneAtATime'
  BY <1>2, <1>4, <1>5, <1>9 DEF IInv, OneAtATime
<1>14. InStep'
  <2>1. SUFFICES ASSUME ~cut'
                 PROVE  Len(handed') <= Len(packets) /\ off' = From(Len(handed') + 1)
    BY <1>2, <1>8 DEF InStep
  <2>2. From(Len(handed') + 1) = packets[i].upto
    <3>1. Len(handed') + 1 = i + 1 /\ i >= 1
      BY <1>5, <1>6, <1>9, <1>10, <2>1
    <3> QED BY <1>6, <3>1 DEF From
  <2> QED BY <1>5, <1>9, <1>10, <2>1, <2>2
<1>15. ClosingOK' /\ CloseAfterAnswer'
  BY <1>2, <1>3, <1>8 DEF IInv, ClosingOK, CloseAfterAnswer
<1>16. PacketsHanded'
  <2>1. SUFFICES ASSUME NEW k \in 1 .. Len(handed) + 1
                 PROVE  handed'[k].packet \in DOMAIN packets
    BY <1>2, <1>9 DEF PacketsHanded
  <2>2. CASE k \in 1 .. Len(handed)
    <3>1. handed'[k] = handed[k] /\ k \in DOMAIN handed
      BY <1>9, <2>2
    <3> QED BY <3>1 DEF IInv, PacketsHanded
  <2>3. CASE k = Len(handed) + 1
    <3>1. handed'[k] = [packet |-> i, size |-> n]
      BY <1>9, <2>3
    <3> QED BY <1>6, <3>1
  <2> QED BY <1>9, <2>1, <2>2, <2>3
<1>17. WholeUnlessCut'
  <2>1. SUFFICES ASSUME ~cut', NEW k \in 1 .. Len(handed) + 1
                 PROVE  /\ k \in DOMAIN packets
                        /\ handed'[k] = [packet |-> k, size |-> packets[k].upto - From(k)]
    BY <1>2, <1>8, <1>9 DEF WholeUnlessCut
  <2>2. CASE k <= Len(handed)
    BY <1>9, <1>10, <2>1, <2>2, SMTT(60) DEF IInv, WholeUnlessCut
  <2>3. CASE k = Len(handed) + 1
    BY <1>6, <1>9, <1>10, <2>1, <2>3
  <2> QED BY <1>9, <2>1, <2>2, <2>3
<1>18. HandedIsWhole'
  <2>1. SUFFICES ASSUME NEW k \in 1 .. Len(handed) + 1
                 PROVE  handed'[k].size >= Reads(handed'[k].packet)
    BY <1>8, <1>9 DEF HandedIsWhole
  <2>2. CASE k <= Len(handed)
    <3>1. k \in DOMAIN handed /\ handed'[k] = handed[k]
      BY <1>9, <2>1, <2>2
    <3> QED BY <3>1 DEF IInv, HandedIsWhole
  <2>3. CASE k = Len(handed) + 1
    BY <1>7, <1>9, <2>3
  <2> QED BY <1>9, <2>1, <2>2, <2>3
<1> QED BY <1>11, <1>12, <1>13, <1>14, <1>15, <1>16, <1>17, <1>18 DEF IInv

\* The buffer starts in the middle of a packet only after a cut.
LEMMA ParseGarbledStep == IInv /\ ParseGarbled => IInv'
<1> SUFFICES ASSUME IInv, ParseGarbled PROVE IInv'
  OBVIOUS
<1>1. /\ phase = "parse" /\ Starts = {}
      /\ UNCHANGED <<packets, asked, arrived, recv, handed, cut, conn, peer, saw, phase>>
  BY DEF ParseGarbled, server
<1>n. PICK n \in 2 .. Have : off' = off + n
  BY DEF ParseGarbled
<1>h. Have >= 1 /\ n \in Nat /\ n <= Have
  BY <1>n, FromIncreases DEF IInv, TypeOK, Have
<1>2. conn = "up"
  BY <1>1 DEF IInv, ClosingOK
<1>3. cut
  BY <1>1, <1>2, <1>h, NextPacket
<1>4. TypeOK'
  <2>2. off' \in 0 .. recv' /\ recv' \in 0 .. arrived' /\ arrived' \in 0 .. Written
    BY <1>1, <1>n, <1>h, FromIncreases, SMTT(60) DEF IInv, TypeOK, Have
  <2> QED BY <1>1, <2>2, TypesStay DEF IInv, TypeOK
<1> QED BY <1>1, <1>2, <1>3, <1>4, PacketsStay
        DEF IInv, InStep, ClosingOK, CloseAfterAnswer, WholeUnlessCut

THEOREM Invariance == Spec => []IInv
<1>1. IInv /\ [Next]_vars => IInv'
  BY WriteStep, SmallSteps, ParseStep, ParseGarbledStep DEF Next, Update
<1> QED BY <1>1, InitIInv, PTL DEF Spec

\* The types, and that no byte is parsed before it is received.
THEOREM TypeCorrectness == Spec => []TypeOK
<1>1. IInv => TypeOK
  BY DEF IInv
<1> QED BY <1>1, Invariance, PTL

\* The buffer has passed the start of every packet that was handed over, also
\* where it lost its place; so whichever comes next is a later one.
Passed == \A k \in DOMAIN handed : From(handed[k].packet) < off
Rising == \A i, j \in DOMAIN handed : i < j => handed[i].packet < handed[j].packet

LEMMA PassedStep == IInv /\ Passed /\ Rising /\ [Next]_vars => Passed' /\ Rising'
<1> SUFFICES ASSUME IInv, Passed, Rising, [Next]_vars PROVE Passed' /\ Rising'
  OBVIOUS
<1>1. /\ Len(packets) \in Nat /\ DOMAIN packets = 1 .. Len(packets)
      /\ off \in Nat /\ recv \in Nat /\ arrived \in Nat /\ Have = recv - off
      /\ off <= recv /\ recv <= arrived
      /\ handed \in Seq([packet : Nat, size : Nat]) /\ Len(handed) \in Nat
      /\ DOMAIN handed = 1 .. Len(handed)
  BY FromIncreases DEF IInv, TypeOK, Have
<1>2. ASSUME NEW k \in DOMAIN handed
      PROVE  handed[k].packet \in 1 .. Len(packets) /\ From(handed[k].packet) \in Nat
  <2>1. handed[k].packet \in 1 .. Len(packets)
    BY <1>1 DEF IInv, PacketsHanded
  <2>2. TypeOK /\ StreamOK
    BY DEF IInv
  <2>3. \A i \in 1 .. Len(packets) + 1 : From(i) \in Nat
    BY <2>2, FromIncreases
  <2>4. handed[k].packet \in 1 .. Len(packets) + 1
    BY <2>1, <1>1
  <2> HIDE DEF From
  <2> QED BY <2>1, <2>3, <2>4
<1>3. CASE Write
  <2>1. UNCHANGED <<handed, off>>
    BY <1>3 DEF Write, client
  <2>2. PICK p : packets' = Append(packets, p)
    BY <1>3 DEF Write
  <2>3. ASSUME NEW i \in 1 .. Len(packets) PROVE From(i)' = From(i)
    <3>1. i > 1 => packets'[i - 1] = packets[i - 1]
      BY <1>1, <2>2 DEF IInv, TypeOK
    <3> QED BY <3>1 DEF From
  <2> QED BY <1>2, <2>1, <2>3 DEF Passed, Rising
<1>4. CASE PeerEnds \/ Arrive \/ Disconnect \/ Drain \/ ParseEnd \/ UpdateEnd \/ ParseGarbled
           \/ UNCHANGED vars
  <2>1. /\ UNCHANGED <<packets, handed>>
        /\ off' \in {off, recv, arrived} \/ \E n \in 2 .. Have : off' = off + n
    BY <1>4 DEF PeerEnds, Arrive, Disconnect, Drain, ParseEnd, UpdateEnd, ParseGarbled,
                Drop, server, client, vars
  <2>2. off' \in Nat /\ off <= off'
    BY <1>1, <2>1
  <2>3. \A i : From(i)' = From(i)
    BY <2>1 DEF From
  <2> QED BY <1>1, <1>2, <2>1, <2>2, <2>3 DEF Passed, Rising
<1>5. CASE Parse
  <2>1. PICK i \in Starts :
            /\ Fits(ExpectedPacketSize(packets[i]))
            /\ off' = off + ExpectedPacketSize(packets[i])
            /\ handed' = Append(handed, [packet |-> i, size |-> ExpectedPacketSize(packets[i])])
            /\ UNCHANGED packets
    BY <1>5 DEF Parse, Handle
  <2> DEFINE n == ExpectedPacketSize(packets[i])
  <2>2. n \in Nat /\ n > 0
    BY <2>1, GuessIsRight DEF IInv, Fits
  <2>3. i \in 1 .. Len(packets) /\ From(i) = off
    BY <1>1 DEF Starts
  <2>4. \A k : From(k)' = From(k)
    BY <2>1 DEF From
  <2>5. /\ Len(handed') = Len(handed) + 1 /\ DOMAIN handed' = 1 .. Len(handed) + 1
        /\ \A k \in 1 .. Len(handed) : handed'[k] = handed[k]
        /\ handed'[Len(handed) + 1].packet = i
    <3>1. [packet |-> i, size |-> n] \in [packet : Nat, size : Nat]
      BY <1>1, <2>2, <2>3
    <3> QED BY <1>1, <2>1, <3>1
  <2>6. ASSUME NEW k \in DOMAIN handed PROVE handed[k].packet < i
    <3>1. From(handed[k].packet) < From(i)
      BY <2>3 DEF Passed
    <3>2. \A a, b \in 1 .. Len(packets) + 1 : a < b => From(a) < From(b)
      BY FromIncreases DEF IInv
    <3>3. CASE handed[k].packet = i
      BY <1>2, <3>1, <3>3
    <3>4. CASE i < handed[k].packet
      <4>1. From(i) < From(handed[k].packet)
        <5>1. handed[k].packet \in 1 .. Len(packets)
          BY <1>2
        <5>2. \A a \in 1 .. Len(packets) : a \in 1 .. Len(packets) + 1
          BY <1>1
        <5> QED BY <2>3, <3>2, <3>4, <5>1, <5>2
      <4> QED BY <1>1, <1>2, <2>3, <3>1, <4>1
    <3> QED BY <1>1, <1>2, <2>3, <3>3, <3>4
  <2>7. Passed'
    <3>1. SUFFICES ASSUME NEW k \in 1 .. Len(handed) + 1
                   PROVE  From(handed'[k].packet) < off + n
      BY <2>1, <2>4, <2>5 DEF Passed
    <3>2. CASE k \in 1 .. Len(handed)
      <4>1. From(handed[k].packet) < off /\ From(handed[k].packet) \in Nat
        <5>1. k \in DOMAIN handed
          BY <1>1, <3>2
        <5> QED BY <1>2, <5>1 DEF Passed
      <4>2. handed'[k].packet = handed[k].packet
        BY <2>5, <3>2
      <4>3. off < off + n
        BY <1>1, <2>2
      <4> HIDE DEF n, From
      <4> QED BY <1>1, <2>2, <4>1, <4>2, <4>3
    <3>3. CASE k = Len(handed) + 1
      BY <1>1, <2>2, <2>3, <2>5, <3>3
    <3> QED BY <1>1, <3>1, <3>2, <3>3
  <2>8. Rising'
    <3>1. SUFFICES ASSUME NEW a \in 1 .. Len(handed) + 1, NEW b \in 1 .. Len(handed) + 1, a < b
                   PROVE  handed'[a].packet < handed'[b].packet
      BY <2>5 DEF Rising
    <3>2. a \in 1 .. Len(handed) /\ handed'[a] = handed[a]
      BY <1>1, <2>5, <3>1
    <3>3. CASE b \in 1 .. Len(handed)
      BY <1>1, <2>5, <3>1, <3>2, <3>3 DEF Rising
    <3>4. CASE b = Len(handed) + 1
      BY <1>1, <2>5, <2>6, <3>2, <3>4
    <3> QED BY <1>1, <3>3, <3>4
  <2> QED BY <2>7, <2>8
<1> QED BY <1>3, <1>4, <1>5 DEF Next, Update

\* The handlers get the packets of the login server in order and none twice,
\* and each of them whole, with none left out, unless the answer to a proof was
\* cut (getExpectedPacketSize()).
THEOREM PacketsWhole == Spec => []FramesArePackets
<1>1. Init => Passed /\ Rising
  BY DEF Init, Passed, Rising
<1>2. IInv /\ Rising => FramesArePackets
  BY DEF IInv, WholeUnlessCut, Rising, FramesArePackets
<1> QED BY <1>1, <1>2, PassedStep, Invariance, PTL DEF Spec

\* Until a packet is cut, what the handlers see of the login server is what the
\* session's handlers see of the world server: a stream of packets.
Stream == INSTANCE PacketStream
              WITH sent <- Len(packets), got <- [k \in DOMAIN handed |-> handed[k].packet]

THEOREM ImplementsStream ==
    Spec => Stream!Init /\ [][cut' \/ Stream!Next]_(Stream!streamVars)
<1>1. Init => Stream!Init
  BY DEF Init, Stream!Init
<1>2. IInv /\ IInv' /\ [Next]_vars => [cut' \/ Stream!Next]_(Stream!streamVars)
  <2> DEFINE got == [k \in DOMAIN handed |-> handed[k].packet]
  <2> SUFFICES ASSUME IInv, IInv', [Next]_vars, ~cut'
               PROVE  Stream!Next \/ UNCHANGED <<Len(packets), got>>
    BY DEF Stream!streamVars
  <2> USE DEF Stream!Next, Stream!Deliver, Stream!Write
  <2>1. CASE Write
    <3>1. packets \in Seq(PacketTypes) /\ UNCHANGED handed
      BY <2>1 DEF Write, client, IInv, TypeOK, PacketTypes
    <3>2. PICK p : packets' = Append(packets, p)
      BY <2>1 DEF Write
    <3> QED BY <3>1, <3>2
  <2>2. CASE Parse
    <3>1. PICK h : handed' = Append(handed, h) /\ UNCHANGED packets
      BY <2>2 DEF Parse, Handle
    <3>2. handed \in Seq([packet : Nat, size : Nat]) /\ Len(handed) \in Nat
      BY DEF IInv, TypeOK
    <3>3. Len(handed') = Len(handed) + 1 /\ DOMAIN handed' = 1 .. Len(handed')
          /\ \A k \in 1 .. Len(handed) : handed'[k] = handed[k]
      BY <3>1, <3>2
    <3>4. Len(handed') <= Len(packets)
      BY <3>1 DEF IInv, InStep
    <3>5. \A k \in DOMAIN handed' : handed'[k].packet = k
      BY DEF IInv, WholeUnlessCut
    <3>6. got' = [k \in 1 .. Len(handed) + 1 |-> k] /\ got = [k \in 1 .. Len(handed) |-> k]
      <4>1. DOMAIN handed = 1 .. Len(handed)
        BY <3>2
      <4>2. \A k \in 1 .. Len(handed) : handed[k].packet = k
        BY <3>2, <3>3, <3>5
      <4> QED BY <3>3, <3>5, <4>1, <4>2
    <3>7. Len(got) = Len(handed) /\ got' = Append(got, Len(got) + 1)
      BY <3>2, <3>6
    <3>8. Len(packets) \in Nat
      BY FromIncreases DEF IInv
    <3>9. Len(got) < Len(packets)
      BY <3>2, <3>3, <3>4, <3>7, <3>8
    <3>10. Stream!Deliver
      BY <3>1, <3>7, <3>9
    <3> HIDE DEF got
    <3> QED BY <3>10
  <2>3. CASE PeerEnds \/ Arrive \/ Disconnect \/ Drain \/ ParseEnd \/ UpdateEnd \/ ParseGarbled
             \/ UNCHANGED vars
    BY <2>3 DEF PeerEnds, Arrive, Disconnect, Drain, ParseEnd, UpdateEnd, ParseGarbled,
                server, client, vars
  <2> QED BY <2>1, <2>2, <2>3 DEF Next, Update
<1> QED BY <1>1, <1>2, Invariance, PTL DEF Spec

\* Also of a packet that was cut, the parser finds all it reads.
THEOREM ReadsWhatIsThere == Spec => []HandedIsWhole
<1>1. IInv => HandedIsWhole
  BY DEF IInv
<1> QED BY <1>1, Invariance, PTL

\* The server's last answer is handled before its close is (update()).
THEOREM CloseComesLast == Spec => []CloseAfterAnswer
<1>1. IInv => CloseAfterAnswer
  BY DEF IInv
<1> QED BY <1>1, Invariance, PTL

=============================================================================
