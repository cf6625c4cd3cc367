------------------------- MODULE WorldSocketProofs -------------------------
(***************************************************************************)
(* Proofs about WorldSocket, for every number of frames, every payload     *)
(* length and every budget.                                                *)
(*                                                                         *)
(* They assume that the server's answer to AUTH_SESSION finds the cipher   *)
(* on (~PromptReply): the code takes ioMutex_ once to send AUTH_SESSION    *)
(* and once more to start the cipher, and between the two the properties   *)
(* do not hold, as the run WorldSocketGarbled shows.                       *)
(***************************************************************************)
EXTENDS WorldSocket, TLAPS

(***************************************************************************)
(* Runs of consecutive packet numbers.                                     *)
(***************************************************************************)
LEMMA RunAppend ==
    ASSUME NEW s \in Seq(Nat), NEW n \in Nat, IsRun(s, n)
    PROVE  IsRun(Append(s, n + Len(s) + 1), n)
BY DEF IsRun

LEMMA RunConcat ==
    ASSUME NEW s \in Seq(Nat), NEW t \in Seq(Nat), NEW n \in Nat,
           IsRun(s, n), IsRun(t, n + Len(s))
    PROVE  IsRun(s \o t, n) /\ s \o t \in Seq(Nat)
           /\ Len(s \o t) = Len(s) + Len(t)
BY DEF IsRun

LEMMA RunSplit ==
    ASSUME NEW s \in Seq(Nat), NEW n \in Nat, NEW k \in 0 .. Len(s),
           IsRun(s, n)
    PROVE  /\ SubSeq(s, 1, k) \in Seq(Nat) /\ Len(SubSeq(s, 1, k)) = k
           /\ SubSeq(s, k + 1, Len(s)) \in Seq(Nat)
           /\ Len(SubSeq(s, k + 1, Len(s))) = Len(s) - k
           /\ IsRun(SubSeq(s, 1, k), n)
           /\ IsRun(SubSeq(s, k + 1, Len(s)), n + k)
BY SMTT(30) DEF IsRun

LEMMA RunHead ==
    ASSUME NEW s \in Seq(Nat), NEW n \in Nat, IsRun(s, n), s # <<>>
    PROVE  /\ Head(s) = n + 1
           /\ Tail(s) \in Seq(Nat) /\ Len(Tail(s)) = Len(s) - 1
           /\ IsRun(Tail(s), n + 1)
BY DEF IsRun

(***************************************************************************)
(* The inductive invariant.                                                *)
(***************************************************************************)

\* How many packets have been cut out of the stream so far.
Framed ==
    Len(dispatched) + Len(local) + Len(pending) + Len(parsed)

\* Where the keystream stands once the first m frames are decrypted.
KsAfter(m) == IF m <= 1 THEN 0 ELSE frames[m].ks + frames[m].hdr

\* The server's stream: each frame follows the ones before it, in bytes and
\* in keystream, and only the first is plain.
StreamOK ==
    \A k \in 1 .. Len(frames) :
        /\ \A j \in 0 .. k - 1 : End(j) + frames[k].hdr <= frames[k].end
        /\ frames[k].ks = IF k = 1 THEN Plain ELSE KsAfter(k - 1)
        /\ k = 1 => frames[k].hdr = 4 /\ frames[k].good

\* The receive buffer starts at a frame the pump has not cut out yet.
BufferOK ==
    /\ off <= recv /\ recv <= Written
    /\ Framed <= Len(frames)
    /\ connected => off = End(Framed)

\* The client's keystream stands where the server's stood at that frame.
CipherOK ==
    /\ ~encOn => hdrDec = 0
    /\ encOn /\ connected => decPos - hdrDec = KsAfter(Framed)

\* The cipher goes on after the first packet and before the second.
HandshakeOK ==
    /\ Len(frames) >= 2 => authed
    /\ authed => encOn \/ main = "gone"
    /\ encOn \/ main = "authSent" => Len(dispatched) >= 1
    /\ main = "authSent" => ~encOn

\* Packets cut out in a call wait in the call, which holds the lock and
\* keeps the socket open.
PumpOK ==
    /\ ~IoFree => connected
    /\ IoFree => parsed = <<>>
    /\ main = "new" => frames = <<>> /\ pump = "off" /\ ~authed
    /\ main = "gone" => pump = "off" /\ pending = <<>> /\ ~connected
    /\ main \notin {"callbacks", "authSent"} => local = <<>>

IInv ==
    /\ TypeOK
    /\ InOrder
    /\ StreamOK
    /\ BufferOK
    /\ CipherOK
    /\ HandshakeOK
    /\ PumpOK

LEMMA FrameTypes ==
    ASSUME TypeOK, NEW k \in 1 .. Len(frames)
    PROVE  /\ frames[k].hdr \in {4, 5} /\ frames[k].end \in Nat
           /\ frames[k].ks \in Nat \cup {Plain} /\ frames[k].good \in BOOLEAN
<1>1. frames[k] \in FrameType
  BY DEF TypeOK
<1> QED BY <1>1 DEF FrameType

LEMMA StreamTypes ==
    ASSUME TypeOK
    PROVE  /\ \A k \in 0 .. Len(frames) : End(k) \in Nat
           /\ \A k \in 0 .. Len(frames) : KsAfter(k) \in Nat
           /\ Len(frames) \in Nat /\ Written \in Nat
           /\ NextKs = KsAfter(Len(frames)) /\ NextKs \in Nat
           /\ Framed \in Nat
<1>1. ASSUME NEW k \in 0 .. Len(frames) PROVE End(k) \in Nat
  BY FrameTypes DEF End
<1>2. ASSUME NEW k \in 0 .. Len(frames) PROVE KsAfter(k) \in Nat
  BY FrameTypes DEF KsAfter, Plain
<1>3. Len(frames) \in Nat
  BY DEF TypeOK
<1>4. NextKs = KsAfter(Len(frames))
  BY DEF NextKs, KsAfter, Last
<1>5. Framed \in Nat
  BY DEF TypeOK, Framed
<1> QED BY <1>1, <1>2, <1>3, <1>4, <1>5 DEF Written

LEMMA InitInv == Init => IInv
<1> SUFFICES ASSUME Init PROVE IInv
  OBVIOUS
<1>1. /\ fin \in BOOLEAN /\ authed \in BOOLEAN /\ connected \in BOOLEAN
      /\ encOn \in BOOLEAN /\ sawClose \in BOOLEAN /\ stop \in BOOLEAN
      /\ deferred \in BOOLEAN
  BY Zenon DEF Init
<1>2. TypeOK
  BY <1>1 DEF Init, TypeOK
<1>3. InOrder
  BY DEF Init, InOrder, IsRun
<1>4. StreamOK /\ BufferOK
  BY DEF Init, StreamOK, BufferOK, End, Written, Framed
<1>5. CipherOK /\ HandshakeOK /\ PumpOK
  BY DEF Init, CipherOK, HandshakeOK, PumpOK, IoFree
<1> QED BY <1>2, <1>3, <1>4, <1>5 DEF IInv

LEMMA ServerSendInv ==
    ASSUME IInv, PromptReply = FALSE,
           NEW hdr \in {4, 5}, NEW body \in Bodies, NEW good \in BOOLEAN,
           ServerSend(hdr, body, good)
    PROVE  IInv'
<1> USE DEF IInv
<1> DEFINE f == [hdr |-> hdr, good |-> good, end |-> Written + hdr + body,
                 ks |-> IF frames = <<>> THEN Plain ELSE NextKs]
<1>b. Written \in Nat /\ \A j \in 0 .. Len(frames) : End(j) \in Nat
  BY StreamTypes
<1>0. f \in FrameType
  BY StreamTypes, ConstantsAssumption DEF FrameType
<1>1. frames' = Append(frames, f)
  BY DEF ServerSend
<1>a. /\ f.hdr = hdr /\ f.end = Written + hdr + body /\ f.good = good
      /\ f.ks = IF frames = <<>> THEN Plain ELSE NextKs
  OBVIOUS
<1> HIDE DEF f
<1>2. UNCHANGED <<fin, authed, io, out, pumpVars, pending, mainVars>>
  BY DEF ServerSend
<1>3. TypeOK'
  BY <1>0, <1>1, <1>2 DEF TypeOK, io, pumpVars, mainVars
<1>4. InOrder'
  BY <1>2 DEF InOrder, pumpVars, mainVars
<1>5. StreamOK'
  <2> SUFFICES ASSUME NEW k \in 1 .. Len(frames')
               PROVE  /\ \A j \in 0 .. k - 1 :
                            End(j)' + frames'[k].hdr <= frames'[k].end
                      /\ frames'[k].ks = IF k = 1 THEN Plain ELSE KsAfter(k - 1)'
                      /\ k = 1 => frames'[k].hdr = 4 /\ frames'[k].good
    BY DEF StreamOK
  <2>0. /\ Len(frames) \in Nat /\ Len(frames') = Len(frames) + 1
        /\ \A i \in 1 .. Len(frames) : frames'[i] = frames[i]
        /\ frames'[Len(frames) + 1] = f
    BY <1>0, <1>1 DEF TypeOK
  <2>1. \A j \in 0 .. Len(frames) : End(j)' = End(j) /\ KsAfter(j)' = KsAfter(j)
    BY <2>0 DEF End, KsAfter
  <2>2. CASE k <= Len(frames)
    <3>1. k \in 1 .. Len(frames) /\ frames'[k] = frames[k]
      BY <2>0, <2>2
    <3> QED BY <2>0, <2>1, <3>1 DEF StreamOK
  <2>3. CASE k = Len(frames) + 1
    <3>1. frames'[k] = f /\ KsAfter(k - 1)' = NextKs
      BY <2>0, <2>1, <2>3, StreamTypes
    <3>2. frames = <<>> <=> k = 1
      BY <2>3 DEF TypeOK
    <3>3. k = 1 => hdr = 4 /\ good
      BY <3>2 DEF ServerSend
    <3>4. ASSUME NEW j \in 0 .. Len(frames) PROVE End(j) <= Written /\ End(j) \in Nat
      <4>1. CASE j = Len(frames)
        BY <4>1, StreamTypes DEF Written
      <4>2. CASE j < Len(frames)
        <5>1. End(j) + frames[Len(frames)].hdr <= frames[Len(frames)].end
          BY <2>0, <4>2 DEF StreamOK
        <5>2. Written = frames[Len(frames)].end /\ Len(frames) \in 1 .. Len(frames)
          BY <2>0, <4>2 DEF Written, End
        <5>3. frames[Len(frames)].hdr \in {4, 5}
          BY <5>2, FrameTypes
        <5>4. Written \in Nat /\ End(j) \in Nat
          BY <1>b
        <5> HIDE DEF Written, End
        <5> QED BY ONLY <5>1, <5>2, <5>3, <5>4
      <4> QED BY <2>0, <4>1, <4>2
    <3>5. ASSUME NEW j \in 0 .. k - 1 PROVE End(j)' + hdr <= f.end
      BY <1>a, <2>0, <2>1, <2>3, <3>4, StreamTypes, ConstantsAssumption, SMTT(30)
    <3> QED BY <1>a, <3>1, <3>2, <3>3, <3>5
  <2> QED BY <2>0, <2>2, <2>3
<1>6. BufferOK' /\ CipherOK'
  <2>1. /\ Framed' = Framed /\ Framed \in Nat /\ Len(frames') = Len(frames) + 1
        /\ Len(frames) \in Nat
    BY <1>0, <1>1, <1>2, StreamTypes DEF Framed, pumpVars, mainVars, TypeOK
  <2>2. Written' >= Written /\ Written' \in Nat
    <3>1. Written' = f.end
      BY <1>1, <2>1 DEF Written, End, TypeOK
    <3> QED BY <1>a, <3>1, StreamTypes, ConstantsAssumption
  <2>3. End(Framed)' = End(Framed) /\ KsAfter(Framed)' = KsAfter(Framed)
    BY <1>1, <2>1 DEF BufferOK, End, KsAfter, TypeOK
  <2>4. recv' = recv /\ recv \in Nat /\ off' = off /\ Written \in Nat
    BY <1>2, StreamTypes DEF io, TypeOK
  <2>5. BufferOK'
    BY <1>2, <2>1, <2>2, <2>3, <2>4 DEF BufferOK, io
  <2> QED BY <1>2, <2>1, <2>3, <2>5 DEF CipherOK, io
<1>7. HandshakeOK' /\ PumpOK'
  BY <1>1, <1>2 DEF HandshakeOK, PumpOK, ServerSend, IoFree, TypeOK, io, pumpVars, mainVars
<1> QED BY <1>3, <1>4, <1>5, <1>6, <1>7

(***************************************************************************)
(* What does not write to the stream leaves its shape alone.               *)
(***************************************************************************)
LEMMA StreamKept ==
    ASSUME StreamOK, UNCHANGED frames
    PROVE  /\ StreamOK' /\ Written' = Written
           /\ \A m : End(m)' = End(m) /\ KsAfter(m)' = KsAfter(m)
BY DEF StreamOK, Written, End, KsAfter

\* The actions that only move a thread on, or close the server's side.
LEMMA MoveOnInv ==
    ASSUME IInv, TypeOK', PumpOK',
           UNCHANGED <<frames, authed, io, out, parsed, pending, local,
                       dispatched>>,
           main' = "authSent" <=> main = "authSent",
           main' = "gone" <=> main = "gone"
    PROVE  IInv'
<1> USE DEF IInv, io
<1>1. InOrder'
  BY DEF InOrder
<1>2. StreamOK' /\ BufferOK' /\ CipherOK'
  BY StreamKept DEF BufferOK, CipherOK, Framed
<1>3. HandshakeOK'
  BY DEF HandshakeOK
<1> QED BY <1>1, <1>2, <1>3

LEMMA ServerCloseInv ==
    ASSUME IInv, ServerClose PROVE IInv'
<1> USE DEF IInv, ServerClose, pumpVars, mainVars
<1>1. TypeOK'
  BY DEF TypeOK, io
<1>2. PumpOK'
  BY DEF PumpOK, IoFree, io
<1> QED BY <1>1, <1>2, MoveOnInv

LEMMA PumpStopInv ==
    ASSUME IInv, PumpStop PROVE IInv'
<1> USE DEF IInv, PumpStop, server, mainVars
<1>1. TypeOK'
  BY DEF TypeOK, io
<1>2. PumpOK'
  BY DEF PumpOK, IoFree, io
<1> QED BY <1>1, <1>2, MoveOnInv

LEMMA PumpCheckInv ==
    ASSUME IInv, PumpCheck PROVE IInv'
<1> USE DEF IInv, PumpCheck, server, mainVars
<1>1. TypeOK'
  BY DEF TypeOK, io
<1>2. PumpOK'
  BY DEF PumpOK, IoFree, io
<1> QED BY <1>1, <1>2, MoveOnInv

LEMMA ParseStopInv ==
    ASSUME IInv, ParseStop PROVE IInv'
<1> USE DEF IInv, ParseStop, server, mainVars
<1>0. deferred' \in BOOLEAN
  BY Zenon DEF BudgetReached
<1>1. TypeOK'
  BY <1>0 DEF TypeOK, io
<1>2. PumpOK'
  BY DEF PumpOK, IoFree, io
<1> QED BY <1>1, <1>2, MoveOnInv

LEMMA CallbacksDoneInv ==
    ASSUME IInv, CallbacksDone PROVE IInv'
<1> USE DEF IInv, CallbacksDone, server, pumpVars
<1>1. TypeOK'
  BY DEF TypeOK, io
<1>2. PumpOK'
  BY DEF PumpOK, IoFree, io
<1> QED BY <1>1, <1>2, MoveOnInv

LEMMA DisconnectBeginInv ==
    ASSUME IInv, DisconnectBegin PROVE IInv'
<1> USE DEF IInv, DisconnectBegin, server, pumpVars
<1>1. TypeOK'
  BY DEF TypeOK, io
<1>2. PumpOK'
  BY DEF PumpOK, IoFree, io
<1> QED BY <1>1, <1>2, MoveOnInv

LEMMA WordNat == Word \in Nat \ {0}
BY SMT DEF Word

LEMMA SendFrameType ==
    ASSUME TypeOK, NEW len \in Nat, SendFrame(len) PROVE out' \in Seq(OutType)
<1>1. ASSUME out # <<>> PROVE Last(out) \in OutType
  BY <1>1 DEF TypeOK, Last
<1>2. OutPos \in Nat
  <2>1. CASE out = <<>> \/ Last(out).ks = Plain
    BY <2>1 DEF OutPos
  <2>2. CASE out # <<>> /\ Last(out).ks # Plain
    <3>1. Last(out).ks \in Nat
      BY <1>1, <2>2, WordNat DEF OutType
    <3> QED BY <2>2, <3>1 DEF OutPos
  <2> QED BY <2>1, <2>2
<1> DEFINE size == (len + 4) % Word
           ks   == IF encOn THEN OutPos ELSE Plain
<1>3. size \in 0 .. Word - 1 /\ ks \in Nat \cup {Plain}
  BY <1>2, WordNat
<1>4. \/ out' = Append(out, [size |-> size, len |-> len, ks |-> ks])
      \/ out' = out
  BY DEF SendFrame
<1> HIDE DEF size, ks
<1>5. [size |-> size, len |-> len, ks |-> ks] \in OutType
  BY <1>3, WordNat DEF OutType
<1>6. out \in Seq(OutType)
  BY DEF TypeOK
<1> QED BY <1>4, <1>5, <1>6

LEMMA SendInv ==
    ASSUME IInv, NEW len \in Payloads, Send(len) PROVE IInv'
<1> USE DEF IInv, Send, server, pumpVars, mainVars
<1>1. TypeOK'
  <2>1. out' \in Seq(OutType)
    BY SendFrameType, ConstantsAssumption
  <2> QED BY <2>1 DEF TypeOK, io
<1>2. PumpOK' /\ InOrder'
  BY DEF PumpOK, IoFree, InOrder, io
<1>3. StreamOK' /\ BufferOK' /\ CipherOK'
  BY StreamKept DEF BufferOK, CipherOK, Framed, io
<1>4. HandshakeOK'
  BY DEF HandshakeOK, io
<1> QED BY <1>1, <1>2, <1>3, <1>4

LEMMA ConnectInv ==
    ASSUME IInv, Connect PROVE IInv'
<1> USE DEF IInv, Connect, server
<1>1. /\ Framed = 0 /\ off = 0 /\ Len(dispatched) = 0 /\ frames = <<>>
      /\ ~authed /\ UNCHANGED <<Framed, frames>>
  BY DEF PumpOK, BufferOK, Framed, Written, End, TypeOK
<1>2. TypeOK'
  BY DEF TypeOK
<1>3. PumpOK' /\ InOrder'
  BY DEF PumpOK, IoFree, InOrder
<1>4. HandshakeOK'
  BY <1>1 DEF HandshakeOK
<1>5. StreamOK' /\ CipherOK'
  BY <1>1, StreamKept DEF CipherOK, HandshakeOK
<1>6. BufferOK'
  <2>1. Framed' = 0 /\ off' = 0 /\ End(0)' = 0 /\ Written' = Written
    BY <1>1, StreamKept DEF End
  <2> QED BY <1>1, <2>1 DEF BufferOK
<1> QED BY <1>2, <1>3, <1>4, <1>5, <1>6

LEMMA PumpRecvInv ==
    ASSUME IInv, NEW n \in recv .. Written, NEW closed \in BOOLEAN,
           PumpRecv(n, closed)
    PROVE  IInv'
<1> USE DEF IInv, PumpRecv, server, mainVars
<1>1. n \in Nat /\ n >= recv /\ n <= Written
  BY StreamTypes DEF TypeOK
<1>2. TypeOK'
  BY <1>1 DEF TypeOK, AfterRecv
<1>3. PumpOK' /\ InOrder'
  BY DEF PumpOK, IoFree, InOrder
<1>4. HandshakeOK'
  BY DEF HandshakeOK
<1>5. StreamOK' /\ CipherOK'
  BY StreamKept DEF CipherOK, Framed
<1>6. BufferOK'
  BY <1>1, StreamTypes, StreamKept DEF BufferOK, Framed, TypeOK
<1> QED BY <1>2, <1>3, <1>4, <1>5, <1>6

LEMMA PumpFailInv ==
    ASSUME IInv, NEW n \in recv .. Written, PumpFail(n) PROVE IInv'
<1> USE DEF IInv, PumpFail, server, mainVars
<1>1. n \in Nat /\ n >= recv /\ n <= Written
  BY StreamTypes DEF TypeOK
<1>2. TypeOK'
  BY <1>1 DEF TypeOK
<1>3. PumpOK' /\ InOrder'
  BY DEF PumpOK, IoFree, InOrder
<1>4. HandshakeOK'
  BY DEF HandshakeOK
<1>5. StreamOK' /\ CipherOK'
  BY StreamKept DEF CipherOK, Framed
<1>6. BufferOK'
  BY <1>1, StreamTypes, StreamKept DEF BufferOK, Framed, TypeOK
<1> QED BY <1>2, <1>3, <1>4, <1>5, <1>6

(***************************************************************************)
(* The header at the front of the receive buffer is always readable: it is *)
(* the header of the next frame, and the keystreams meet at it.            *)
(***************************************************************************)
LEMMA FrontReadable ==
    ASSUME IInv, ~IoFree, Framed < Len(frames) PROVE Reads(Framed + 1)
<1> USE DEF IInv
<1>1. connected /\ Framed \in Nat /\ Framed + 1 \in 1 .. Len(frames)
  BY StreamTypes DEF PumpOK
<1>2. End(Framed) = off
  BY <1>1 DEF BufferOK
<1>3. frames[Framed + 1].ks = IF Framed = 0 THEN Plain ELSE KsAfter(Framed)
  BY <1>1 DEF StreamOK
<1>4. CASE Framed = 0
  <2>1. ~encOn
    BY <1>4 DEF HandshakeOK, Framed, TypeOK
  <2> QED BY <1>1, <1>2, <1>3, <1>4, <2>1 DEF Reads
<1>5. CASE Framed # 0
  <2>1. encOn
    BY <1>1, <1>5 DEF HandshakeOK, PumpOK
  <2> QED BY <1>1, <1>2, <1>3, <1>5, <2>1 DEF Reads, CipherOK
<1> QED BY <1>4, <1>5

\* Only that frame starts there.
LEMMA FrontUnique ==
    ASSUME IInv, ~IoFree, NEW k \in 1 .. Len(frames), Reads(k)
    PROVE  k = Framed + 1
<1> USE DEF IInv
<1>1. /\ k - 1 \in 0 .. Len(frames) /\ Framed \in 0 .. Len(frames)
      /\ End(k - 1) = off /\ End(Framed) = off /\ off \in Nat
  BY StreamTypes DEF PumpOK, BufferOK, Reads, TypeOK
<1>2. ASSUME NEW i \in 0 .. Len(frames), NEW j \in 0 .. Len(frames), i < j
      PROVE  End(i) # End(j)
  <2>1. j \in 1 .. Len(frames) /\ i \in 0 .. j - 1 /\ End(j) = frames[j].end
    BY <1>2, StreamTypes DEF End
  <2>2. End(i) + frames[j].hdr <= frames[j].end
    BY <2>1 DEF StreamOK
  <2>3. frames[j].hdr \in {4, 5} /\ End(i) \in Nat
    BY <2>1, FrameTypes, StreamTypes
  <2> QED BY <2>1, <2>2, <2>3
<1> QED BY <1>1, <1>2

\* A parse step meets a frame: the buffer holds bytes past the last one cut.
LEMMA FrontExists ==
    ASSUME IInv, MayParse PROVE ~IoFree /\ connected /\ Framed < Len(frames)
<1> USE DEF IInv
<1>1. ~IoFree /\ connected
  BY DEF MayParse, IoFree, PumpOK
<1>2. Framed # Len(frames)
  BY <1>1, StreamTypes DEF MayParse, BufferOK, Written, TypeOK
<1> QED BY <1>1, <1>2, StreamTypes DEF BufferOK

LEMMA ParsePacketInv ==
    ASSUME IInv, NEW k \in 1 .. Len(frames), ParsePacket(k) PROVE IInv'
<1> USE DEF IInv, ParsePacket, server, mainVars
<1>1. k = Framed + 1 /\ connected /\ Framed \in Nat
  BY FrontExists, FrontUnique, StreamTypes
<1>2. /\ frames[k].hdr \in {4, 5} /\ frames[k].end \in Nat
      /\ End(k) = frames[k].end
  BY FrameTypes DEF End
<1>3. Framed' = k
  BY <1>1 DEF Framed, TypeOK
<1>4. encOn => decPos - hdrDec = KsAfter(Framed) /\ KsAfter(Framed) \in Nat
  BY <1>1, StreamTypes DEF CipherOK
<1>5. TypeOK'
  <2>1. off' \in Nat /\ hdrDec' \in {0, 4, 5}
    BY <1>2
  <2>2. decPos' \in Nat
    <3>1. CASE encOn
      <4>1. decPos' = decPos - hdrDec + frames[k].hdr
        BY <3>1 DEF DecryptTo
      <4> QED BY <1>2, <1>4, <3>1, <4>1
    <3>2. CASE ~encOn
      BY <3>2 DEF DecryptTo, TypeOK
    <3> QED BY <3>1, <3>2
  <2>3. parsed' \in Seq(Nat)
    BY <1>2 DEF TypeOK
  <2> QED BY <2>1, <2>2, <2>3 DEF TypeOK
<1>6. InOrder'
  <2>1. k = Len(dispatched) + Len(local) + Len(pending) + Len(parsed) + 1
    BY <1>1 DEF Framed
  <2> QED BY <2>1, RunAppend DEF InOrder, TypeOK
<1>7. StreamOK' /\ HandshakeOK' /\ PumpOK'
  BY StreamKept DEF HandshakeOK, PumpOK, IoFree, MayParse
<1>8. BufferOK'
  BY <1>1, <1>2, <1>3, StreamKept DEF BufferOK, TypeOK
<1>9. CipherOK'
  <2>1. CASE encOn
    <3>1. Framed # 0
      BY <2>1 DEF HandshakeOK, Framed, TypeOK
    <3>2. KsAfter(k) = frames[k].ks + frames[k].hdr
      BY <1>1, <3>1 DEF KsAfter
    <3>3. frames[k].ks = KsAfter(Framed)
      BY <1>1, <3>1 DEF StreamOK
    <3> QED BY <1>2, <1>3, <1>4, <2>1, <3>2, <3>3, StreamKept DEF CipherOK, DecryptTo
  <2>2. CASE ~encOn
    BY <2>2 DEF CipherOK
  <2> QED BY <2>1, <2>2
<1> QED BY <1>5, <1>6, <1>7, <1>8, <1>9

LEMMA ParseIncompleteInv ==
    ASSUME IInv, NEW k \in 1 .. Len(frames), ParseIncomplete(k) PROVE IInv'
<1> USE DEF IInv, ParseIncomplete, server, mainVars
<1>1. connected /\ ~IoFree
  BY FrontExists
<1>2. PICK n \in {4, 5} :
        decPos' = DecryptTo(n) /\ hdrDec' = IF encOn THEN n ELSE hdrDec
  BY FrameTypes DEF HeaderBytes
<1>3. encOn => decPos - hdrDec = KsAfter(Framed) /\ KsAfter(Framed) \in Nat
  BY <1>1, StreamTypes DEF CipherOK, BufferOK
<1>4. TypeOK'
  <2>1. decPos' \in Nat
    <3>1. CASE encOn
      <4>1. decPos' = decPos - hdrDec + n
        BY <1>2, <3>1 DEF DecryptTo
      <4> QED BY <1>2, <1>3, <3>1, <4>1
    <3>2. CASE ~encOn
      BY <1>2, <3>2 DEF DecryptTo, TypeOK
    <3> QED BY <3>1, <3>2
  <2>2. hdrDec' \in {0, 4, 5}
    BY <1>2 DEF TypeOK
  <2> QED BY <2>1, <2>2 DEF TypeOK
<1>5. InOrder' /\ StreamOK' /\ HandshakeOK' /\ PumpOK'
  BY <1>1, StreamKept DEF InOrder, HandshakeOK, PumpOK, IoFree, MayParse
<1>6. BufferOK'
  BY StreamKept DEF BufferOK, Framed
<1>7. CipherOK'
  <2>1. Framed' = Framed /\ KsAfter(Framed)' = KsAfter(Framed)
    BY StreamKept DEF Framed
  <2>2. encOn' = encOn /\ connected' = connected /\ hdrDec \in Nat /\ decPos \in Nat
    BY DEF TypeOK
  <2>3. encOn => decPos' = decPos - hdrDec + n /\ hdrDec' = n
    BY <1>2 DEF DecryptTo
  <2>4. ~encOn => hdrDec' = hdrDec
    BY <1>2
  <2> HIDE DEF IInv, ParseIncomplete, server, mainVars
  <2>5. encOn => decPos' - hdrDec' = KsAfter(Framed)
    BY <1>2, <1>3, <2>2, <2>3
  <2>6. ~encOn => hdrDec' = 0
    BY <2>4 DEF IInv, CipherOK
  <2> QED BY <2>1, <2>2, <2>5, <2>6 DEF CipherOK
<1> QED BY <1>4, <1>5, <1>6, <1>7

LEMMA ParseCorruptInv ==
    ASSUME IInv, NEW k \in 1 .. Len(frames), ParseCorrupt(k) PROVE IInv'
<1> USE DEF IInv, ParseCorrupt, CloseOnDesync, server, mainVars
<1>1. TypeOK'
  <2>1. connected' \in BOOLEAN /\ sawClose' \in BOOLEAN
    BY Zenon
  <2> QED BY <2>1 DEF TypeOK
<1>2. InOrder' /\ StreamOK' /\ HandshakeOK' /\ PumpOK'
  BY StreamKept DEF InOrder, IsRun, HandshakeOK, PumpOK, IoFree, MayParse
<1>3. BufferOK'
  BY StreamTypes, StreamKept DEF BufferOK, Framed, TypeOK
<1>4. CipherOK'
  BY DEF CipherOK
<1> QED BY <1>1, <1>2, <1>3, <1>4

LEMMA ParseGarbledInv ==
    ASSUME IInv, ParseGarbled PROVE FALSE
BY FrontExists, FrontReadable, StreamTypes DEF ParseGarbled, IInv

LEMMA PumpQueueInv ==
    ASSUME IInv, PumpQueue PROVE IInv'
<1> USE DEF IInv, server, mainVars
<1> DEFINE q == pending \o parsed
           n == Len(dispatched) + Len(local)
<1>1. /\ pump = "queue" /\ connected /\ n \in Nat
      /\ Len(pending) \in Nat /\ Len(parsed) \in Nat
  BY DEF PumpQueue, PumpOK, IoFree, TypeOK
<1>2. q \in Seq(Nat) /\ Len(q) = Len(pending) + Len(parsed) /\ IsRun(q, n)
  BY <1>1, RunConcat DEF InOrder, TypeOK
<1>3. pending' = q \/ (pending' = <<>> /\ ~connected')
  BY DEF PumpQueue, Queued, StaysUp
<1>4. /\ parsed' = <<>> /\ sawClose' = FALSE /\ pump' = "check"
      /\ connected' \in BOOLEAN /\ sawClose' \in BOOLEAN
      /\ UNCHANGED <<server, recv, off, hdrDec, decPos, encOn, out, deferred, mainVars>>
  BY Zenon DEF PumpQueue, StaysUp
<1> HIDE DEF q
<1>5. pending' \in Seq(Nat) /\ IsRun(pending', n)
      /\ Len(pending') <= Len(q) /\ (connected' => pending' = q)
  <2>1. CASE pending' = q
    BY <1>1, <1>2, <2>1
  <2>2. CASE pending' = <<>> /\ ~connected'
    BY <1>1, <1>2, <2>2 DEF IsRun
  <2> QED BY <1>3, <2>1, <2>2
<1>6. TypeOK'
  BY <1>4, <1>5 DEF TypeOK
<1>7. InOrder'
  BY <1>4, <1>5 DEF InOrder, IsRun
<1>8. Framed' <= Framed /\ Framed' \in Nat /\ (connected' => Framed' = Framed)
  <2>1. Framed = n + Len(q) /\ Framed' = n + Len(pending') /\ Len(pending') \in Nat
    BY <1>1, <1>2, <1>4, <1>5 DEF Framed
  <2> HIDE DEF n
  <2> QED BY <1>1, <1>2, <1>5, <2>1
<1>9. StreamOK' /\ HandshakeOK' /\ PumpOK'
  BY <1>1, <1>4, StreamKept DEF HandshakeOK, PumpOK, IoFree
<1>10. BufferOK' /\ CipherOK'
  BY <1>1, <1>4, <1>8, StreamTypes, StreamKept DEF BufferOK, CipherOK
<1> QED BY <1>6, <1>7, <1>9, <1>10

LEMMA DispatchInv ==
    ASSUME IInv, Dispatch PROVE IInv'
<1> USE DEF IInv, server, pumpVars
<1>1. PICK n \in 0 .. Len(pending) :
        /\ local' = SubSeq(pending, 1, n)
        /\ pending' = SubSeq(pending, n + 1, Len(pending))
  <2> DEFINE n == IF Len(pending) < CallbackBudget THEN Len(pending)
                                                   ELSE CallbackBudget
  <2>1. n \in 0 .. Len(pending)
    BY ConstantsAssumption DEF TypeOK
  <2> QED BY <2>1 DEF Dispatch, Rest
<1>2. /\ main = "idle" /\ main' = "callbacks"
      /\ UNCHANGED <<server, io, out, pumpVars, stop, dispatched>>
  BY DEF Dispatch
<1>3. local = <<>>
  BY <1>2 DEF PumpOK
<1>4. /\ Len(dispatched) \in Nat /\ Len(local) = 0 /\ Len(pending) \in Nat
      /\ pending \in Seq(Nat) /\ IsRun(pending, Len(dispatched))
  BY <1>3 DEF InOrder, TypeOK
<1>5. /\ local' \in Seq(Nat) /\ Len(local') = n
      /\ pending' \in Seq(Nat) /\ Len(pending') = Len(pending) - n
      /\ IsRun(local', Len(dispatched)) /\ IsRun(pending', Len(dispatched) + n)
  BY <1>1, <1>4, RunSplit
<1>6. Len(local') + Len(pending') = Len(local) + Len(pending)
  BY <1>4, <1>5
<1>7. TypeOK'
  BY <1>2, <1>5 DEF TypeOK, io
<1>8. Framed' = Framed
  BY <1>2, <1>4, <1>5, <1>6 DEF Framed, TypeOK
<1>9. InOrder'
  BY <1>2, <1>4, <1>5, <1>6 DEF InOrder, TypeOK
<1>10. StreamOK' /\ BufferOK' /\ CipherOK'
  BY <1>2, <1>8, StreamKept DEF BufferOK, CipherOK, io
<1>11. HandshakeOK' /\ PumpOK'
  BY <1>2 DEF HandshakeOK, PumpOK, IoFree, io
<1> QED BY <1>7, <1>9, <1>10, <1>11

\* Handing one packet to its handler.
LEMMA NextCallbackRun ==
    ASSUME IInv, NextCallback, UNCHANGED <<pending, parsed>>
    PROVE  /\ Head(local) = Len(dispatched) + 1
           /\ local' \in Seq(Nat) /\ dispatched' \in Seq(Nat)
           /\ Len(dispatched') = Len(dispatched) + 1
           /\ InOrder' /\ Framed' = Framed
<1> USE DEF IInv, NextCallback
<1>1. /\ Len(dispatched) \in Nat /\ local \in Seq(Nat) /\ local # <<>>
      /\ dispatched \in Seq(Nat)
  BY DEF TypeOK
<1>2. /\ Head(local) = Len(dispatched) + 1
      /\ Tail(local) \in Seq(Nat) /\ Len(Tail(local)) = Len(local) - 1
      /\ IsRun(Tail(local), Len(dispatched) + 1)
  BY <1>1, RunHead DEF InOrder
<1>3. /\ dispatched' = Append(dispatched, 0 + Len(dispatched) + 1)
      /\ local' = Tail(local)
  BY <1>1, <1>2
<1>4. IsRun(dispatched', 0)
  BY <1>1, <1>3, RunAppend DEF InOrder
<1>5. dispatched' \in Seq(Nat) /\ Len(dispatched') = Len(dispatched) + 1
  BY <1>1, <1>3
<1>6. Len(dispatched') + Len(local') = Len(dispatched) + Len(local)
  BY <1>1, <1>2, <1>3, <1>5
<1>7. InOrder'
  BY <1>2, <1>3, <1>4, <1>5, <1>6 DEF InOrder
<1> QED BY <1>2, <1>3, <1>5, <1>6, <1>7 DEF Framed

LEMMA OtherCallbackInv ==
    ASSUME IInv, OtherCallback PROVE IInv'
<1> USE DEF IInv, OtherCallback, server, pumpVars
<1>1. /\ local' \in Seq(Nat) /\ dispatched' \in Seq(Nat)
      /\ Len(dispatched') = Len(dispatched) + 1
      /\ InOrder' /\ Framed' = Framed
  BY NextCallbackRun
<1>2. TypeOK'
  BY <1>1 DEF TypeOK, io
<1>3. StreamOK' /\ BufferOK' /\ CipherOK'
  BY <1>1, StreamKept DEF BufferOK, CipherOK, io
<1>4. HandshakeOK' /\ PumpOK'
  BY <1>1 DEF HandshakeOK, PumpOK, IoFree, NextCallback, io, TypeOK
<1> QED BY <1>1, <1>2, <1>3, <1>4

LEMMA AuthChallengeInv ==
    ASSUME IInv, PromptReply = FALSE, AuthChallenge PROVE IInv'
<1> USE DEF IInv, AuthChallenge, pumpVars
<1>1. /\ Len(dispatched) = 0 /\ local' \in Seq(Nat) /\ dispatched' \in Seq(Nat)
      /\ Len(dispatched') = 1
      /\ InOrder' /\ Framed' = Framed
  <2>1. Len(dispatched) \in Nat
    BY DEF TypeOK
  <2> QED BY <2>1, NextCallbackRun
<1>2. out' \in Seq(OutType)
  BY SendFrameType DEF AuthSessionLen
<1>3. TypeOK'
  BY <1>1, <1>2 DEF TypeOK, io
<1>4. StreamOK' /\ BufferOK' /\ CipherOK'
  BY <1>1, StreamKept DEF BufferOK, CipherOK, io
<1>5. HandshakeOK' /\ PumpOK'
  BY <1>1 DEF HandshakeOK, PumpOK, IoFree, NextCallback, io
<1> QED BY <1>1, <1>3, <1>4, <1>5

LEMMA InitEncryptionInv ==
    ASSUME IInv, InitEncryption PROVE IInv'
<1> USE DEF IInv, InitEncryption, pumpVars
<1>1. ~encOn /\ hdrDec = 0 /\ Len(dispatched) >= 1
  BY DEF HandshakeOK, CipherOK
<1>2. Len(frames) <= 1
  BY <1>1, StreamTypes DEF HandshakeOK
<1>3. TypeOK'
  <2>1. authed' \in BOOLEAN /\ encOn' \in BOOLEAN
    BY Zenon
  <2> QED BY <2>1 DEF TypeOK
<1>4. InOrder' /\ StreamOK' /\ BufferOK' /\ PumpOK'
  BY StreamKept DEF InOrder, BufferOK, Framed, PumpOK, IoFree
<1>5. CipherOK'
  BY <1>1, <1>2, StreamTypes, StreamKept DEF CipherOK, KsAfter, Framed, BufferOK
<1>6. HandshakeOK'
  <2>1. (Len(frames) >= 2)' => authed'
    BY <1>1, <1>2, StreamTypes DEF HandshakeOK
  <2> QED BY <1>1, <2>1 DEF HandshakeOK
<1> QED BY <1>3, <1>4, <1>5, <1>6

LEMMA DisconnectEndInv ==
    ASSUME IInv, DisconnectEnd PROVE IInv'
<1> USE DEF IInv, DisconnectEnd, server, pumpVars
<1>1. TypeOK'
  <2>1. connected' \in BOOLEAN /\ encOn' \in BOOLEAN
    BY Zenon
  <2> QED BY <2>1 DEF TypeOK
<1>2. InOrder'
  BY DEF InOrder, IsRun, PumpOK, IoFree, Joined
<1>3. StreamOK' /\ BufferOK'
  BY StreamTypes, StreamKept, SMTT(30) DEF BufferOK, Framed, TypeOK
<1>4. CipherOK' /\ HandshakeOK' /\ PumpOK'
  BY DEF CipherOK, HandshakeOK, PumpOK, IoFree, Joined
<1> QED BY <1>1, <1>2, <1>3, <1>4

LEMMA StepInv ==
    ASSUME PromptReply = FALSE, IInv, [Next]_vars PROVE IInv'
<1> USE DEF IInv
<1>1. CASE Server
  BY <1>1, ServerSendInv, ServerCloseInv DEF Server
<1>2. CASE Pump
  BY <1>2, PumpStopInv, PumpRecvInv, PumpFailInv, PumpCheckInv,
     ParsePacketInv, ParseIncompleteInv, ParseCorruptInv, ParseGarbledInv,
     ParseStopInv, PumpQueueInv DEF Pump, Parse
<1>3. CASE Main
  BY <1>3, ConnectInv, DispatchInv, AuthChallengeInv, InitEncryptionInv,
     OtherCallbackInv, CallbacksDoneInv, SendInv, DisconnectBeginInv,
     DisconnectEndInv DEF Main
<1>4. CASE UNCHANGED vars
  <2>1. TypeOK' /\ PumpOK'
    BY <1>4 DEF TypeOK, PumpOK, IoFree, vars, server, io, pumpVars, mainVars
  <2> QED BY <1>4, <2>1, MoveOnInv DEF vars, server, pumpVars, mainVars
<1> QED BY <1>1, <1>2, <1>3, <1>4 DEF Next

\* The inductive invariant holds of every behaviour in which the answer to
\* AUTH_SESSION finds the cipher on.
THEOREM Invariance ==
    ASSUME PromptReply = FALSE PROVE Spec => []IInv
<1>1. Init => IInv
  BY InitInv
<1>2. IInv /\ [Next]_vars => IInv'
  BY StepInv
<1> QED BY <1>1, <1>2, PTL DEF Spec

\* Types, which the keystream positions and the queues need.
THEOREM TypeCorrectness ==
    ASSUME PromptReply = FALSE PROVE Spec => []TypeOK
<1>1. IInv => TypeOK
  BY DEF IInv
<1> QED BY <1>1, Invariance, PTL

\* The session is handed the server's packets in order, none skipped and none
\* twice, whatever the two threads are in the middle of.
THEOREM DeliveryInOrder ==
    ASSUME PromptReply = FALSE PROVE Spec => []InOrder
BY Invariance, PTL DEF IInv

\* Every header comes out of the cipher as the server wrote it.
THEOREM HeadersAlwaysReadable ==
    ASSUME PromptReply = FALSE PROVE Spec => []HeadersReadable
<1>1. IInv => HeadersReadable
  BY FrontExists, FrontReadable, StreamTypes DEF HeadersReadable, IInv
<1> QED BY <1>1, Invariance, PTL

\* disconnect() leaves no thread behind that could still queue a packet.
THEOREM DisconnectIsFinal ==
    ASSUME PromptReply = FALSE PROVE Spec => []QuiescentAfterDisconnect
<1>1. IInv => QuiescentAfterDisconnect
  BY DEF QuiescentAfterDisconnect, IInv, PumpOK, IoFree
<1> QED BY <1>1, Invariance, PTL

\* The two threads together implement the ordered stream of packets that the
\* session relies on.
THEOREM ImplementsStream ==
    ASSUME PromptReply = FALSE PROVE Spec => StreamSpec
<1>1. Init => Stream!Init
  BY DEF Init, Stream!Init
<1>2. IInv /\ [Next]_vars => [Stream!Next]_(Stream!streamVars)
  <2> SUFFICES ASSUME IInv, Next
               PROVE  Stream!Next \/ UNCHANGED <<Len(frames), dispatched>>
    BY DEF Stream!streamVars, vars, server, mainVars
  <2> USE DEF IInv, Stream!Next, Stream!Deliver, Stream!Write
  <2>1. CASE \E hdr \in {4, 5}, body \in Bodies, good \in BOOLEAN :
               ServerSend(hdr, body, good)
    BY <2>1 DEF ServerSend, TypeOK, mainVars
  <2>2. CASE OtherCallback \/ AuthChallenge
    <3>1. /\ UNCHANGED frames /\ UNCHANGED <<pending, parsed>>
          /\ NextCallback
      BY <2>2 DEF OtherCallback, AuthChallenge, server, pumpVars
    <3>2. dispatched' = Append(dispatched, Len(dispatched) + 1)
      BY <3>1, NextCallbackRun DEF NextCallback
    <3>3. Len(dispatched) < Len(frames)
      BY <3>1 DEF NextCallback, BufferOK, Framed, TypeOK
    <3> QED BY <3>1, <3>2, <3>3
  <2>3. CASE ServerClose
    BY <2>3 DEF ServerClose, mainVars
  <2>4. CASE Pump
    BY <2>4 DEF Pump, Parse, PumpStop, PumpRecv, PumpFail, PumpCheck,
       ParsePacket, ParseIncomplete, ParseCorrupt, ParseGarbled, ParseStop,
       PumpQueue, server, mainVars
  <2>5. CASE Connect \/ Dispatch \/ InitEncryption \/ CallbacksDone
             \/ (\E len \in Payloads : Send(len))
             \/ DisconnectBegin \/ DisconnectEnd
    BY <2>5 DEF Connect, Dispatch, InitEncryption, CallbacksDone, Send,
       DisconnectBegin, DisconnectEnd, server, mainVars
  <2> QED BY <2>1, <2>2, <2>3, <2>4, <2>5 DEF Next, Server, Main
<1> QED BY <1>1, <1>2, Invariance, PTL DEF Spec, StreamSpec, Stream!Spec

-----------------------------------------------------------------------------
(***************************************************************************)
(* The frames the client writes.                                           *)
(***************************************************************************)

\* AUTH_SESSION goes out before anything else, if the connection is still up
\* when its handler runs.
FirstIsPlain ==
    /\ out # <<>> => dispatched # <<>>
    /\ connected /\ (encOn \/ main = "authSent") => out # <<>>

OutInv == OutgoingDecodes /\ FirstIsPlain

\* One more frame, with the next position of the keystream.
LEMMA OutGrows ==
    ASSUME TypeOK, OutgoingDecodes, NEW len \in Nat, len + 4 < Word,
           encOn <=> out # <<>>, SendFrame(len)
    PROVE  OutgoingDecodes'
<1>1. CASE UNCHANGED out
  BY <1>1 DEF OutgoingDecodes
<1> DEFINE f == [size |-> (len + 4) % Word, len |-> len,
                 ks |-> IF encOn THEN OutPos ELSE Plain]
<1>2. CASE out' = Append(out, f)
  <2>1. out \in Seq(OutType) /\ Len(out) \in Nat
    BY DEF TypeOK
  <2>2. f.size = f.len + 4
    BY DEF Word
  <2>3. f.ks = IF Len(out) + 1 = 1 THEN Plain ELSE 6 * (Len(out) + 1 - 2)
    <3>1. CASE out = <<>>
      BY <3>1
    <3>2. CASE out # <<>>
      <4>1. Last(out) = out[Len(out)] /\ Len(out) \in DOMAIN out
        BY <2>1, <3>2 DEF Last
      <4>2. Last(out).ks = IF Len(out) = 1 THEN Plain ELSE 6 * (Len(out) - 2)
        BY <4>1 DEF OutgoingDecodes
      <4>3. OutPos = 6 * (Len(out) - 1)
        <5>1. CASE Len(out) = 1
          BY <3>2, <4>2, <5>1 DEF OutPos
        <5>2. CASE Len(out) # 1
          <6>1. Last(out).ks = 6 * (Len(out) - 2) /\ Last(out).ks # Plain
            BY <2>1, <3>2, <4>2, <5>2 DEF Plain
          <6> QED BY <2>1, <3>2, <6>1 DEF OutPos
        <5> QED BY <5>1, <5>2
      <4> QED BY <2>1, <3>2, <4>3
    <3> QED BY <3>1, <3>2
  <2>4. /\ DOMAIN out' = 1 .. Len(out) + 1 /\ DOMAIN out = 1 .. Len(out)
        /\ out'[Len(out) + 1] = f
        /\ \A i \in 1 .. Len(out) : out'[i] = out[i]
    <3> HIDE DEF f
    <3> QED BY <1>2, <2>1
  <2> HIDE DEF f
  <2>5. ASSUME NEW i \in DOMAIN out'
        PROVE  /\ out'[i].ks = IF i = 1 THEN Plain ELSE 6 * (i - 2)
               /\ out'[i].size = out'[i].len + 4
    <3>1. CASE i = Len(out) + 1
      BY <2>2, <2>3, <2>4, <3>1
    <3>2. CASE i \in DOMAIN out
      BY <2>4, <3>2 DEF OutgoingDecodes
    <3> QED BY <2>1, <2>4, <3>1, <3>2
  <2> QED BY <2>5 DEF OutgoingDecodes
<1> QED BY <1>1, <1>2 DEF SendFrame

LEMMA GrownIsNotEmpty ==
    ASSUME NEW S, NEW s \in Seq(S), NEW x PROVE Append(s, x) # <<>>
<1>1. Len(Append(s, x)) = Len(s) + 1 /\ Len(s) \in Nat
  OBVIOUS
<1> QED BY <1>1

\* A step that sends nothing, connects nothing and starts no cipher.
LEMMA OutStays ==
    ASSUME OutInv, UNCHANGED out, dispatched' = dispatched \/ dispatched' # <<>>,
           connected' => connected,
           encOn' => encOn \/ main = "authSent",
           main' = "authSent" => main = "authSent"
    PROVE  OutInv'
BY DEF OutInv, OutgoingDecodes, FirstIsPlain

\* Every frame the client writes can be decoded by the server, as long as no
\* payload is so long that the four bytes of the opcode wrap its size field.
THEOREM FramesDecode ==
    ASSUME PromptReply = FALSE, \A len \in Payloads : len + 4 < Word
    PROVE  Spec => []OutgoingDecodes
<1>1. Init => OutInv
  BY DEF Init, OutInv, OutgoingDecodes, FirstIsPlain
<1>2. ASSUME IInv, OutInv, Next PROVE OutInv'
  <2>1. CASE Connect
    <3>1. ~encOn
      BY <1>2, <2>1, StreamTypes DEF Connect, IInv, TypeOK, PumpOK, HandshakeOK, BufferOK, Framed
    <3> QED BY <1>2, <2>1, <3>1 DEF Connect, OutInv, OutgoingDecodes, FirstIsPlain
  <2>2. CASE AuthChallenge
    <3>1. dispatched = <<>> /\ ~encOn
      <4>1. Head(local) = Len(dispatched) + 1
        BY <1>2, <2>2, RunHead DEF AuthChallenge, NextCallback, IInv, TypeOK, InOrder
      <4>2. dispatched = <<>>
        BY <1>2, <2>2, <4>1 DEF AuthChallenge, IInv, TypeOK
      <4> QED BY <1>2, <4>2 DEF IInv, HandshakeOK
    <3>2. out = <<>>
      BY <1>2, <3>1 DEF OutInv, FirstIsPlain
    <3>3. OutgoingDecodes'
      BY <1>2, <2>2, <3>1, <3>2, OutGrows
         DEF AuthChallenge, AuthSessionLen, Word, IInv, OutInv
    <3>4. dispatched' # <<>>
      BY <1>2, <2>2, GrownIsNotEmpty DEF AuthChallenge, NextCallback, IInv, TypeOK
    <3>5. connected' => out' # <<>>
      <4>1. out \in Seq(OutType) /\ connected' = connected
        BY <1>2, <2>2 DEF AuthChallenge, io, IInv, TypeOK
      <4> QED BY <2>2, <4>1, GrownIsNotEmpty DEF AuthChallenge, SendFrame, AuthSessionLen, Word
    <3> QED BY <3>3, <3>4, <3>5 DEF OutInv, FirstIsPlain
  <2>3. ASSUME NEW len \in Payloads, Send(len) PROVE OutInv'
    <3>1. CASE connected
      <4>1. encOn /\ out # <<>>
        BY <1>2, <2>3, <3>1 DEF Send, OutInv, FirstIsPlain
      <4>2. len \in Nat /\ len + 4 < Word
        BY ConstantsAssumption
      <4>3. OutgoingDecodes'
        BY <1>2, <2>3, <4>1, <4>2, OutGrows DEF Send, IInv, OutInv
      <4>4. out' # <<>>
        BY <1>2, <2>3, <4>1 DEF Send, SendFrame, IInv, TypeOK
      <4> QED BY <1>2, <2>3, <4>1, <4>3, <4>4 DEF Send, OutInv, FirstIsPlain, mainVars
    <3>2. CASE ~connected
      BY <1>2, <2>3, <3>2, OutStays DEF Send, SendFrame, io, mainVars
    <3> QED BY <3>1, <3>2
  <2>4. CASE Server
    <3>1. UNCHANGED <<out, dispatched, connected, encOn, main>>
      BY <2>4 DEF Server, ServerSend, ServerClose, io, mainVars
    <3> QED BY <1>2, <3>1, OutStays
  <2>5. CASE Pump
    <3>1. UNCHANGED <<out, dispatched, encOn, main>>
      <4>1. CASE Parse
        BY <4>1 DEF Parse, ParsePacket, ParseIncomplete, ParseCorrupt, ParseGarbled,
                    ParseStop, io, mainVars
      <4>2. CASE ~Parse
        BY <2>5, <4>2 DEF Pump, PumpStop, PumpRecv, PumpFail, PumpCheck, PumpQueue, io, mainVars
      <4> QED BY <4>1, <4>2
    <3>2. connected' => connected
      <4>1. CASE Parse
        BY <4>1 DEF Parse, ParsePacket, ParseIncomplete, ParseCorrupt, ParseGarbled,
                    ParseStop, CloseOnDesync, io
      <4>2. CASE PumpQueue
        BY <1>2, <4>2 DEF PumpQueue, IInv, PumpOK, IoFree
      <4>3. CASE ~Parse /\ ~PumpQueue
        BY <2>5, <4>3 DEF Pump, PumpStop, PumpRecv, PumpFail, PumpCheck, io
      <4> QED BY <4>1, <4>2, <4>3
    <3> QED BY <1>2, <3>1, <3>2, OutStays
  <2>6. CASE OtherCallback
    <3>1. dispatched' # <<>>
      BY <1>2, <2>6, GrownIsNotEmpty DEF OtherCallback, NextCallback, IInv, TypeOK
    <3> QED BY <1>2, <2>6, <3>1, OutStays DEF OtherCallback, io
  <2>7. CASE Dispatch \/ InitEncryption \/ CallbacksDone \/ DisconnectBegin \/ DisconnectEnd
    BY <1>2, <2>7, OutStays
       DEF Dispatch, InitEncryption, CallbacksDone, DisconnectBegin, DisconnectEnd, io
  <2> QED BY <1>2, <2>1, <2>2, <2>3, <2>4, <2>5, <2>6, <2>7 DEF Next, Main
<1>3. ASSUME OutInv, UNCHANGED vars PROVE OutInv'
  BY <1>3, OutStays DEF vars, io, mainVars
<1>4. OutInv => OutgoingDecodes
  BY DEF OutInv
<1> QED BY <1>1, <1>2, <1>3, <1>4, Invariance, PTL DEF Spec

-----------------------------------------------------------------------------
(***************************************************************************)
(* The close by the server.                                                *)
(***************************************************************************)

\* Between two calls of the parse loop no whole packet is left in the buffer,
\* unless the last one stopped at its budget.
Drained ==
    pump \in {"loop", "check", "queue"} /\ connected /\ ~deferred =>
        \A k \in 1 .. Len(frames) :
            End(k - 1) = off /\ frames[k].good => frames[k].end > recv

\* What the server writes comes behind what has been received.
LEMMA DrainedStays ==
    ASSUME IInv, Drained, UNCHANGED <<frames, off, recv, deferred>>,
           pump' \in {"loop", "check", "queue"} /\ connected' =>
               pump \in {"loop", "check", "queue"} /\ connected
    PROVE  Drained'
BY DEF Drained, End

LEMMA FramesGrow ==
    ASSUME IInv, Drained, NEW hdr \in {4, 5}, NEW body \in Bodies, NEW good \in BOOLEAN,
           ServerSend(hdr, body, good)
    PROVE  Drained'
<1> DEFINE f == [hdr |-> hdr, good |-> good, end |-> Written + hdr + body,
                 ks |-> IF frames = <<>> THEN Plain ELSE NextKs]
<1>1. /\ frames' = Append(frames, f)
      /\ UNCHANGED <<off, recv, connected, pump, deferred>>
  BY DEF ServerSend, io, pumpVars
<1>2. frames \in Seq(FrameType) /\ Len(frames) \in Nat
  BY DEF IInv, TypeOK
<1>3. f.end > recv
  BY ConstantsAssumption, StreamTypes, SMTT(60) DEF IInv, TypeOK, BufferOK
<1> HIDE DEF f
<1>4. /\ Len(frames') = Len(frames) + 1 /\ frames'[Len(frames) + 1] = f
      /\ \A k \in 1 .. Len(frames) : frames'[k] = frames[k]
  BY <1>1, <1>2
<1>5. ASSUME NEW k \in 1 .. Len(frames'), pump' \in {"loop", "check", "queue"}, connected',
             ~deferred', End(k - 1)' = off', frames'[k].good
      PROVE  frames'[k].end > recv'
  <2>1. CASE k = Len(frames) + 1
    BY <1>1, <1>3, <1>4, <2>1
  <2>2. CASE k \in 1 .. Len(frames)
    <3>1. End(k - 1)' = End(k - 1)
      BY <1>2, <1>4, <2>2 DEF End
    <3> QED BY <1>1, <1>4, <1>5, <2>2, <3>1 DEF Drained
  <2> QED BY <1>2, <1>4, <2>1, <2>2
<1> QED BY <1>5, Zenon DEF Drained

LEMMA FramesOK == IInv => TypeOK /\ StreamOK /\ Len(frames) \in Nat
BY DEF IInv, TypeOK

LEMMA Between ==
    ASSUME NEW x \in Nat, NEW y \in Nat, NEW z \in Nat, NEW g \in {4, 5}, NEW h \in {4, 5},
           x + g <= y, y + h <= z
    PROVE  x < z
OBVIOUS

LEMMA OwnEnd ==
    ASSUME StreamOK, Len(frames) \in Nat, NEW k \in 1 .. Len(frames)
    PROVE  End(k - 1) + frames[k].hdr <= frames[k].end
<1>1. k - 1 \in 0 .. k - 1
  OBVIOUS
<1> QED BY <1>1 DEF StreamOK

\* The frames that start at off are one.
LEMMA OneFront ==
    ASSUME IInv, NEW j \in 1 .. Len(frames), NEW k \in 1 .. Len(frames),
           End(j - 1) = End(k - 1)
    PROVE  j = k
<1>1. ASSUME NEW a \in 1 .. Len(frames), NEW b \in 1 .. Len(frames), a < b
      PROVE  End(a - 1) < End(b - 1)
  <2>1. /\ End(a - 1) + frames[a].hdr <= frames[a].end
        /\ a # b - 1 => End(a) + frames[b - 1].hdr <= frames[b - 1].end
    <3>1. a # b - 1 => b - 1 \in 1 .. Len(frames) /\ a \in 0 .. b - 2
      BY <1>1, FramesOK
    <3>2. End(a - 1) + frames[a].hdr <= frames[a].end
      BY FramesOK, OwnEnd
    <3>3. a # b - 1 => End(a) + frames[b - 1].hdr <= frames[b - 1].end
      <4>1. \A m \in 1 .. Len(frames) : \A i \in 0 .. m - 1 :
                End(i) + frames[m].hdr <= frames[m].end
        BY FramesOK DEF StreamOK
      <4>2. b - 2 = (b - 1) - 1
        BY <1>1, FramesOK
      <4> QED BY <3>1, <4>1, <4>2
    <3> QED BY <3>2, <3>3
  <2>2. End(a) = frames[a].end /\ End(b - 1) = frames[b - 1].end
    BY <1>1 DEF End
  <2>3. /\ frames[a].hdr \in {4, 5} /\ frames[b - 1].hdr \in {4, 5}
        /\ frames[a].end \in Nat /\ frames[b - 1].end \in Nat /\ End(a - 1) \in Nat
    <3>1. b - 1 \in 1 .. Len(frames) /\ a - 1 \in 0 .. Len(frames)
      BY <1>1, FramesOK
    <3>2. End(a - 1) \in Nat
      BY <3>1, FramesOK, StreamTypes
    <3> QED BY <3>1, <3>2, FramesOK, FrameTypes
  <2>4. CASE a = b - 1
    BY <2>1, <2>2, <2>3, <2>4, SMTT(60)
  <2>5. CASE a # b - 1
    <3>1. End(a) + frames[b - 1].hdr <= frames[b - 1].end
      BY <2>1, <2>5
    <3>2. frames[a].end + frames[b - 1].hdr <= frames[b - 1].end
      BY <2>2, <3>1
    <3>3. End(a - 1) < frames[b - 1].end
      BY <2>1, <2>3, <3>2, Between
    <3> QED BY <2>2, <3>3
  <2> QED BY <2>4, <2>5
<1>2. j \in Nat /\ k \in Nat /\ End(j - 1) \in Nat /\ End(k - 1) \in Nat
  BY StreamTypes DEF IInv
<1> QED BY <1>1, <1>2

\* A server that closes after its last packet is heard to the end, whatever
\* the parse budget and however many packets there are, but for the packets
\* the last parse loop put off when it had spent its budget.
THEOREM CloseAfterPackets ==
    ASSUME PromptReply = FALSE
    PROVE  Spec => []PeerCloseAfterLastPacket
<1>1. Init => Drained
  BY DEF Init, Drained
<1>2. ASSUME IInv, Drained, Next PROVE Drained'
  <2>1. CASE Server
    <3>1. CASE ServerClose
      BY <1>2, <3>1, DrainedStays DEF ServerClose, io, pumpVars
    <3> QED BY <1>2, <2>1, <3>1, FramesGrow DEF Server
  <2>2. CASE Parse
    <3>1. ASSUME NEW k \in 1 .. Len(frames), ParsePacket(k) PROVE Drained'
      BY <3>1 DEF ParsePacket, MayParse, Drained
    <3>2. ASSUME NEW k \in 1 .. Len(frames), ParseIncomplete(k) PROVE Drained'
      <4>1. UNCHANGED <<frames, off, recv, connected>> /\ End(k - 1) = off
        BY <3>2 DEF ParseIncomplete, Reads, server
      <4>2. frames[k].good => frames[k].end > recv
        <5>1. CASE ~HeaderIn(k)
          <6>1. End(k - 1) + frames[k].hdr <= frames[k].end
            BY <1>2, FramesOK, OwnEnd
          <6>2. /\ recv \in Nat /\ off \in Nat
                /\ frames[k].hdr \in {4, 5} /\ frames[k].end \in Nat
            BY <1>2, FramesOK, FrameTypes DEF TypeOK
          <6>3. off + frames[k].hdr <= frames[k].end
            BY <4>1, <6>1
          <6>4. ~(recv - off >= frames[k].hdr)
            BY <5>1 DEF HeaderIn
          <6> QED BY <6>2, <6>3, <6>4
        <5> QED BY <3>2, <5>1 DEF ParseIncomplete
      <4>3. ASSUME NEW j \in 1 .. Len(frames), End(j - 1) = off PROVE j = k
        BY <1>2, <4>1, <4>3, OneFront
      <4> QED BY <4>1, <4>2, <4>3 DEF Drained, End
    <3>3. ASSUME NEW k \in 1 .. Len(frames), ParseCorrupt(k) PROVE Drained'
      BY <3>3 DEF ParseCorrupt, CloseOnDesync, Drained
    <3>4. ~ParseGarbled
      BY <1>2, FrontExists, FrontReadable, StreamTypes DEF IInv, ParseGarbled
    <3>5. CASE ParseStop
      <4>1. UNCHANGED <<frames, off, recv, connected>> /\ ~MayParse /\ pump = "parse"
            /\ deferred' = BudgetReached
        BY <3>5 DEF ParseStop, io, server
      <4>2. ~deferred' => recv - off < 4
        <5>1. recv \in Nat /\ off \in Nat /\ Len(parsed) \in Nat
          BY <1>2 DEF IInv, TypeOK
        <5>2. ~deferred' => ~BudgetReached
          BY <4>1, Zenon
        <5> QED BY <4>1, <5>1, <5>2, ConstantsAssumption DEF MayParse, BudgetReached
      <4>3. ASSUME NEW k \in 1 .. Len(frames), End(k - 1) = off, ~deferred'
            PROVE  frames[k].end > recv
        <5>1. End(k - 1) + frames[k].hdr <= frames[k].end
          BY <1>2, FramesOK, OwnEnd
        <5>2. /\ recv \in Nat /\ off \in Nat
              /\ frames[k].hdr \in {4, 5} /\ frames[k].end \in Nat
          BY <1>2, FramesOK, FrameTypes DEF TypeOK
        <5> QED BY <4>2, <4>3, <5>1, <5>2
      <4> QED BY <4>1, <4>3 DEF Drained, End
    <3> QED BY <2>2, <3>1, <3>2, <3>3, <3>4, <3>5 DEF Parse
  <2>3. CASE Connect
    <3>1. frames = <<>>
      BY <1>2, <2>3 DEF Connect, IInv, PumpOK
    <3> QED BY <1>2, <2>3, <3>1 DEF Connect, Drained, server
  <2>4. CASE Pump /\ ~Parse
    <3>1. CASE \E n \in recv .. Written, closed \in BOOLEAN : PumpRecv(n, closed)
      BY <1>2, <3>1, DrainedStays
         DEF PumpRecv, AfterRecv, server, Drained, IInv, TypeOK
    <3>2. CASE PumpQueue
      BY <1>2, <3>2, DrainedStays DEF PumpQueue, server, IInv, PumpOK, IoFree
    <3>3. CASE PumpStop \/ PumpCheck \/ \E n \in recv .. Written : PumpFail(n)
      BY <1>2, <3>3 DEF PumpStop, PumpCheck, PumpFail, server, io, Drained, End
    <3> QED BY <2>4, <3>1, <3>2, <3>3 DEF Pump
  <2>5. CASE Main /\ ~Connect
    <3>1. /\ UNCHANGED <<frames, off, pump, deferred>> /\ (connected' => connected)
          /\ recv' = recv \/ ~connected'
      BY <2>5 DEF Main, Dispatch, AuthChallenge, InitEncryption, OtherCallback, CallbacksDone,
                  Send, DisconnectBegin, DisconnectEnd, server, io, pumpVars
    <3> QED BY <1>2, <3>1, DrainedStays DEF Drained
  <2> QED BY <1>2, <2>1, <2>2, <2>3, <2>4, <2>5 DEF Next
<1>3. ASSUME Drained, UNCHANGED vars PROVE Drained'
  BY <1>3 DEF vars, server, io, pumpVars, Drained, End
<1>4. IInv /\ Drained => PeerCloseAfterLastPacket
  <2> SUFFICES ASSUME IInv, Drained, pump = "queue", ~deferred, NEW k \in 1 .. Len(frames),
                      Reads(k), frames[k].good, frames[k].end <= recv
               PROVE  FALSE
    BY DEF PeerCloseAfterLastPacket
  <2>1. connected
    BY DEF IInv, PumpOK, IoFree
  <2>2. frames[k].end > recv
    BY <2>1 DEF Drained, Reads
  <2> QED BY <2>2, FrameTypes DEF IInv, TypeOK
<1> QED BY <1>1, <1>2, <1>3, <1>4, Invariance, PTL DEF Spec

=============================================================================
