---------------------------- MODULE WorldSocket ----------------------------
(***************************************************************************)
(* The world server connection of extension/wowee (WorldSocket): a pump    *)
(* thread drains the socket, decrypts headers in place and frames packets  *)
(* under ioMutex_; the main thread takes the framed packets under          *)
(* callbackMutex_, runs the session's handler for each, sends packets and  *)
(* turns header encryption on.                                             *)
(*                                                                         *)
(* Bytes are counted, not stored.  The server's stream is the sequence of  *)
(* frames it wrote; the client's receive buffer is the interval            *)
(* off..recv of that stream (receiveReadOffset_ to the end of              *)
(* receiveBuffer), and keystreams are counted in header bytes.             *)
(*                                                                         *)
(* A definition marked "Mistake:" is a slip the next one must not make: no *)
(* action uses it, and the runs show that a property would catch it.       *)
(***************************************************************************)
EXTENDS Integers, Sequences, SequencesExt

CONSTANTS
    MaxFrames,        \* bound: frames the server writes on one connection
    MaxSends,         \* bound: packets the client sends on one connection
    Bodies,           \* payload lengths the server uses
    Payloads,         \* payload lengths the client sends
    BigHeaders,       \* the build has five-byte server headers (after TBC)
    CorruptHeaders,   \* the server may announce a size out of range
    ParseBudget,      \* parsedPacketsBudgetPerUpdate(), 64 by default
    CallbackBudget,   \* packetCallbacksBudgetPerUpdate(), 48 by default
    BufferMax,        \* kMaxReceiveBufferBytes, 8 MB
    QueueMax,         \* kMaxQueuedPacketCallbacks, 4096
    PromptReply       \* the answer to AUTH_SESSION may arrive before the
                      \* cipher is on

ASSUME ConstantsAssumption ==
    /\ MaxFrames \in Nat /\ MaxSends \in Nat
    /\ Bodies \subseteq Nat /\ Payloads \subseteq Nat
    /\ BigHeaders \in BOOLEAN /\ CorruptHeaders \in BOOLEAN
    /\ ParseBudget \in Nat \ {0} /\ CallbackBudget \in Nat \ {0}
    /\ BufferMax \in Nat /\ QueueMax \in Nat
    /\ PromptReply \in BOOLEAN

VARIABLES
    frames,       \* what the server wrote, in order
    fin,          \* the server closed or reset the connection
    authed,       \* the server has AUTH_SESSION and encrypts from now on
    connected, recv, off, hdrDec, decPos, encOn,   \* guarded by ioMutex_
    out,          \* the frames the client wrote, and its encrypt position
    pump, sawClose, parsed,                        \* the pump thread
    deferred,     \* the last parse loop stopped at its budget
    pending,      \* pendingPacketCallbacks_, guarded by callbackMutex_
    stop,         \* asyncPumpStop_
    main, local, dispatched                        \* the main thread

server == <<frames, fin, authed>>
io     == <<connected, recv, off, hdrDec, decPos, encOn>>
pumpVars == <<pump, sawClose, parsed, deferred>>
mainVars == <<stop, main, local, dispatched>>
vars == <<server, io, out, pumpVars, pending, mainVars>>

Word  == 2^16    \* the size field of a client header has sixteen bits
Plain == -1      \* the keystream position of a header that is not encrypted
Junk  == 0       \* a packet cut out of the stream at the wrong place

FrameIds == Nat \ {0}

(***************************************************************************)
(* The byte stream of the server.                                          *)
(***************************************************************************)
End(k)  == IF k = 0 THEN 0 ELSE frames[k].end
Written == End(Len(frames))

\* The keystream position of the next encrypted server header.
NextKs ==
    IF Len(frames) <= 1 THEN 0 ELSE Last(frames).ks + Last(frames).hdr

\* ioMutex_ is free: the pump holds it from recv() until it has queued.
IoFree == pump \notin {"parse", "queue"}

FrameType ==
    [hdr : {4, 5}, ks : Nat \cup {Plain}, good : BOOLEAN, end : Nat]

OutType == [size : 0 .. Word - 1, len : Nat, ks : Nat \cup {Plain}]

TypeOK ==
    /\ frames \in Seq(FrameType) /\ fin \in BOOLEAN /\ authed \in BOOLEAN
    /\ connected \in BOOLEAN /\ encOn \in BOOLEAN
    /\ recv \in Nat /\ off \in Nat /\ decPos \in Nat
    /\ hdrDec \in {0, 4, 5}
    /\ out \in Seq(OutType)
    /\ pump \in {"off", "loop", "parse", "queue", "check"}
    /\ sawClose \in BOOLEAN /\ parsed \in Seq(Nat) /\ deferred \in BOOLEAN
    /\ pending \in Seq(Nat)
    /\ stop \in BOOLEAN
    /\ main \in {"new", "idle", "callbacks", "authSent", "joining", "gone"}
    /\ local \in Seq(Nat) /\ dispatched \in Seq(Nat)

Init ==
    /\ frames = <<>> /\ fin = FALSE /\ authed = FALSE
    /\ connected = FALSE /\ encOn = FALSE
    /\ recv = 0 /\ off = 0 /\ hdrDec = 0 /\ decPos = 0
    /\ out = <<>>
    /\ pump = "off" /\ sawClose = FALSE /\ parsed = <<>> /\ deferred = FALSE
    /\ pending = <<>>
    /\ stop = FALSE
    /\ main = "new" /\ local = <<>> /\ dispatched = <<>>

(***************************************************************************)
(* The server.  Its first packet, SMSG_AUTH_CHALLENGE, is plain; it writes *)
(* nothing more until it has AUTH_SESSION, and encrypts every header from  *)
(* there.                                                                  *)
(***************************************************************************)
ServerSend(hdr, body, good) ==
    /\ main # "new" /\ ~fin
    /\ Len(frames) < MaxFrames
    /\ frames # <<>> => authed
    /\ hdr = 5 => BigHeaders /\ frames # <<>>
    /\ ~good => CorruptHeaders /\ frames # <<>>
    /\ frames' = Append(frames,
           [hdr |-> hdr, good |-> good, end |-> Written + hdr + body,
            ks |-> IF frames = <<>> THEN Plain ELSE NextKs])
    /\ UNCHANGED <<fin, authed, io, out, pumpVars, pending, mainVars>>

ServerClose ==
    /\ main # "new" /\ ~fin
    /\ fin' = TRUE
    /\ UNCHANGED <<frames, authed, io, out, pumpVars, pending, mainVars>>

(***************************************************************************)
(* connect(): a refused or timed out connect returns FALSE and leaves the  *)
(* socket as it was; a successful one starts the pump thread.              *)
(***************************************************************************)
Connect ==
    /\ main = "new"
    /\ connected' = TRUE
    /\ main' = "idle" /\ pump' = "loop" /\ stop' = FALSE
    /\ UNCHANGED <<server, recv, off, hdrDec, decPos, encOn, out, sawClose,
                   parsed, deferred, pending, local, dispatched>>

(***************************************************************************)
(* asyncPumpLoop() and pumpNetworkIO().                                    *)
(***************************************************************************)
PumpStop ==
    /\ pump = "loop" /\ stop
    /\ pump' = "off"
    /\ UNCHANGED <<server, io, out, sawClose, parsed, deferred, pending,
                   mainVars>>

\* What follows recv(): the close by the peer waits until the bytes that came
\* before it are parsed.
\* Mistake: the close overtakes the data.
AfterRecvCloseFirst(n, closed) ==
    IF closed THEN "queue" ELSE IF n > recv THEN "parse" ELSE "check"

AfterRecv(n, closed) ==
    IF n > recv THEN "parse" ELSE IF closed THEN "queue" ELSE "check"

\* recv() until it would block, the peer has closed or the recv budget is
\* spent: any number of the bytes under way have arrived.  A reset counts as a
\* close, and what was under way is lost with it.  Nothing is parsed when
\* nothing arrived.
PumpRecv(n, closed) ==
    /\ pump = "loop" /\ ~stop
    /\ connected
    /\ n \in recv .. Written
    /\ n - off <= BufferMax
    /\ closed => fin
    /\ recv' = n /\ sawClose' = closed
    /\ pump' = AfterRecv(n, closed)
    /\ UNCHANGED <<server, connected, off, hdrDec, decPos, encOn, out, parsed,
                   deferred, pending, mainVars>>

\* A recv() error other than a close by the peer, or a receive buffer that
\* would pass its limit: the socket is closed at once.
PumpFail(n) ==
    /\ pump = "loop" /\ ~stop
    /\ connected
    /\ n \in recv .. Written
    /\ recv' = n /\ connected' = FALSE
    /\ pump' = "check"
    /\ UNCHANGED <<server, off, hdrDec, decPos, encOn, out, sawClose, parsed,
                   deferred, pending, mainVars>>

\* pumpNetworkIO() also returns early on a closed socket, but the loop leaves
\* at the check that follows every call, before it could find one.
PumpCheck ==
    /\ pump = "check"
    /\ pump' = IF connected THEN "loop" ELSE "off"
    /\ UNCHANGED <<server, io, out, sawClose, parsed, deferred, pending,
                   mainVars>>

(***************************************************************************)
(* tryParsePackets(): one step per turn of its loop.  Reads(k) says that   *)
(* the header at off is frame k's and that it comes out of the cipher as   *)
(* the server wrote it; a header is decrypted once, as its bytes arrive.   *)
(***************************************************************************)
MayParse ==
    pump = "parse" /\ recv - off >= 4 /\ Len(parsed) < ParseBudget

Reads(k) ==
    /\ k \in 1 .. Len(frames) /\ End(k - 1) = off
    /\ frames[k].ks = IF encOn THEN decPos - hdrDec ELSE Plain

\* Mistake: the header bytes decrypted in an earlier call are run again.
DecryptAgain(n) == IF encOn THEN decPos + n ELSE decPos
DecryptTo(n)    == IF encOn THEN decPos - hdrDec + n ELSE decPos

\* Mistake: the bytes of the earlier call are counted twice.
HeaderBytesSummed(n) == IF encOn THEN hdrDec + n ELSE hdrDec
HeaderBytes(n)       == IF encOn THEN n ELSE hdrDec

HeaderIn(k) == recv - off >= frames[k].hdr

ParsePacket(k) ==
    /\ MayParse
    /\ Reads(k) /\ frames[k].good /\ frames[k].end <= recv
    /\ parsed' = Append(parsed, k)
    /\ off' = frames[k].end
    /\ decPos' = DecryptTo(frames[k].hdr) /\ hdrDec' = 0
    /\ UNCHANGED <<server, connected, recv, encOn, out, pump, sawClose,
                   deferred, pending, mainVars>>

\* The header stays decrypted in the buffer until the rest has arrived.
ParseIncomplete(k) ==
    /\ MayParse
    /\ Reads(k)
    /\ \/ ~HeaderIn(k)
       \/ frames[k].good /\ frames[k].end > recv
    /\ LET n == IF HeaderIn(k) THEN frames[k].hdr ELSE 4
       IN  /\ decPos' = DecryptTo(n)
           /\ hdrDec' = HeaderBytes(n)
    /\ pump' = "queue" /\ deferred' = FALSE
    /\ UNCHANGED <<server, connected, recv, off, encOn, out, sawClose,
                   parsed, pending, mainVars>>

\* The early return on a size out of range, or when a packet cannot be
\* allocated, closes the socket and drops the packets framed in the same call.
CloseOnDesync ==
    /\ connected' = FALSE /\ parsed' = <<>> /\ sawClose' = FALSE
    /\ pump' = "check"

ParseCorrupt(k) ==
    /\ MayParse
    /\ Reads(k) /\ HeaderIn(k) /\ ~frames[k].good
    /\ CloseOnDesync
    /\ UNCHANGED <<server, recv, off, hdrDec, decPos, encOn, out, deferred,
                   pending, mainVars>>

\* A header that is read with the wrong keystream, or from the middle of a
\* frame, announces an arbitrary size.
ParseGarbled ==
    /\ MayParse
    /\ \A k \in 1 .. Len(frames) : ~Reads(k)
    /\ \/ /\ CloseOnDesync
          /\ UNCHANGED <<recv, off, hdrDec, decPos, deferred>>
       \/ /\ \E n \in off + 4 .. recv : off' = n
          /\ parsed' = Append(parsed, Junk)
          /\ decPos' = DecryptTo(4) /\ hdrDec' = 0
          /\ UNCHANGED <<connected, recv, pump, sawClose, deferred>>
       \/ /\ pump' = "queue" /\ deferred' = FALSE
          /\ decPos' = DecryptTo(4) /\ hdrDec' = HeaderBytes(4)
          /\ UNCHANGED <<connected, recv, off, parsed, sawClose>>
    /\ UNCHANGED <<server, encOn, out, pending, mainVars>>

\* The budget is spent and a header is left: it waits until more bytes arrive.
BudgetReached == Len(parsed) >= ParseBudget /\ recv - off >= 4

ParseStop ==
    /\ pump = "parse" /\ ~MayParse
    /\ pump' = "queue" /\ deferred' = BudgetReached
    /\ UNCHANGED <<server, io, out, sawClose, parsed, pending, mainVars>>

Queued == pending \o parsed

\* Mistake: packets are dropped and the connection goes on without them.
StaysUpOverLimit(over) == ~sawClose

\* The connection survives the queueing step.
StaysUp(over) == ~over /\ ~sawClose

\* Under callbackMutex_: the framed packets join the queue, or the queue is
\* over its limit and is dropped with the connection.  A close by the peer
\* takes effect only now, behind the data that came before it.
PumpQueue ==
    /\ pump = "queue"
    /\ LET over == parsed # <<>> /\ Len(Queued) > QueueMax
       IN  /\ pending' = IF over THEN <<>> ELSE Queued
           /\ connected' = StaysUp(over)
    /\ parsed' = <<>> /\ sawClose' = FALSE
    /\ pump' = "check"
    /\ UNCHANGED <<server, recv, off, hdrDec, decPos, encOn, out, deferred,
                   mainVars>>

(***************************************************************************)
(* The main thread: update() takes at most CallbackBudget packets and runs *)
(* the session's handler for each with no lock held.                       *)
(***************************************************************************)
\* Mistake: what is over the budget is lost.
RestDropped(n) == <<>>

Rest(n) == SubSeq(pending, n + 1, Len(pending))

Dispatch ==
    /\ main = "idle" /\ pending # <<>>
    /\ LET n == IF Len(pending) < CallbackBudget THEN Len(pending)
                                                 ELSE CallbackBudget
       IN  /\ local' = SubSeq(pending, 1, n)
           /\ pending' = Rest(n)
    /\ main' = "callbacks"
    /\ UNCHANGED <<server, io, out, pumpVars, stop, dispatched>>

\* Mistake: a packet may be handed over again.
CallbackTwice ==
    /\ main = "callbacks" /\ local # <<>>
    /\ dispatched' = Append(dispatched, Head(local))
    /\ local' \in {local, Tail(local)}

NextCallback ==
    /\ main = "callbacks" /\ local # <<>>
    /\ dispatched' = Append(dispatched, Head(local))
    /\ local' = Tail(local)

\* Mistake: the plain header of AUTH_SESSION counted as encrypted.
OutPosFromPlain ==
    IF out = <<>> THEN 0 ELSE Last(out).ks + 6

\* The position of the encrypt keystream: six header bytes a packet.
OutPos ==
    IF out = <<>> \/ Last(out).ks = Plain THEN 0 ELSE Last(out).ks + 6

\* send(): a no-op on a closed socket or past 0xFFFF bytes of payload;
\* otherwise the size field is a 16-bit sum.  When ::send() fails part way the
\* loop gives up and leaves the socket open: the rest of the frame is lost on
\* a connection that is lost too.
SendFrame(len) ==
    IF connected /\ len < Word
    THEN out' = Append(out, [size |-> (len + 4) % Word, len |-> len,
                             ks |-> IF encOn THEN OutPos ELSE Plain])
    ELSE UNCHANGED out

\* Any length far below the limit: AUTH_SESSION carries the account name and
\* a digest.
AuthSessionLen == 64

\* The handler of SMSG_AUTH_CHALLENGE sends AUTH_SESSION and then turns the
\* cipher on; each takes ioMutex_ by itself.
AuthChallenge ==
    /\ NextCallback
    /\ Head(local) = 1
    /\ IoFree
    /\ SendFrame(AuthSessionLen)
    /\ authed' = IF PromptReply THEN connected ELSE authed
    /\ main' = "authSent"
    /\ UNCHANGED <<frames, fin, io, pumpVars, pending, stop>>

InitEncryption ==
    /\ main = "authSent"
    /\ IoFree
    /\ encOn' = TRUE /\ decPos' = 0
    /\ authed' = (out # <<>>)
    /\ main' = "callbacks"
    /\ UNCHANGED <<frames, fin, connected, recv, off, hdrDec, out, pumpVars,
                   pending, stop, local, dispatched>>

OtherCallback ==
    /\ NextCallback
    /\ Head(local) # 1
    /\ UNCHANGED <<server, io, out, pumpVars, pending, stop, main>>

CallbacksDone ==
    /\ main = "callbacks" /\ local = <<>>
    /\ main' = "idle"
    /\ UNCHANGED <<server, io, out, pumpVars, pending, stop, local,
                   dispatched>>

\* The session sends from its handlers and from the calls of the scripts, and
\* nothing before AUTH_SESSION.
Send(len) ==
    /\ main \in {"idle", "callbacks"} /\ encOn
    /\ Len(out) < MaxSends
    /\ IoFree
    /\ SendFrame(len)
    /\ UNCHANGED <<server, io, pumpVars, pending, mainVars>>

\* disconnect(): stop and join the pump, then clear under each lock.
DisconnectBegin ==
    /\ main = "idle"
    /\ stop' = TRUE /\ main' = "joining"
    /\ UNCHANGED <<server, io, out, pumpVars, pending, local, dispatched>>

\* Mistake: the pump is told to stop and not waited for.
NotJoined == TRUE

Joined == pump = "off"

DisconnectEnd ==
    /\ main = "joining" /\ Joined
    /\ connected' = FALSE /\ encOn' = FALSE
    /\ recv' = off /\ hdrDec' = 0
    /\ pending' = <<>>
    /\ main' = "gone"
    /\ UNCHANGED <<server, off, decPos, out, pumpVars, stop, local,
                   dispatched>>

Server ==
    \/ \E hdr \in {4, 5}, body \in Bodies, good \in BOOLEAN :
           ServerSend(hdr, body, good)
    \/ ServerClose

Parse ==
    \/ \E k \in 1 .. Len(frames) :
           ParsePacket(k) \/ ParseIncomplete(k) \/ ParseCorrupt(k)
    \/ ParseGarbled
    \/ ParseStop

Pump ==
    \/ PumpStop
    \/ \E n \in recv .. Written, closed \in BOOLEAN : PumpRecv(n, closed)
    \/ \E n \in recv .. Written : PumpFail(n)
    \/ PumpCheck
    \/ Parse
    \/ PumpQueue

Main ==
    \/ Connect
    \/ Dispatch
    \/ AuthChallenge
    \/ InitEncryption
    \/ OtherCallback
    \/ CallbacksDone
    \/ \E len \in Payloads : Send(len)
    \/ DisconnectBegin
    \/ DisconnectEnd

Next == Server \/ Pump \/ Main

Spec == Init /\ [][Next]_vars

(***************************************************************************)
(* The pump loops for as long as it is not stopped and the main thread     *)
(* calls update() once a frame; TCP delivers what was written in the end.  *)
(* Nothing obliges the server to write, nor the session to disconnect.     *)
(***************************************************************************)
PumpRecvAll == PumpRecv(Written, fin)

Fairness ==
    /\ WF_vars(PumpStop) /\ WF_vars(PumpCheck) /\ WF_vars(Parse)
    /\ WF_vars(PumpQueue)
    /\ SF_vars(PumpRecvAll)
    /\ WF_vars(Dispatch) /\ WF_vars(OtherCallback) /\ WF_vars(CallbacksDone)
    /\ SF_vars(AuthChallenge) /\ SF_vars(InitEncryption)
    /\ WF_vars(DisconnectEnd)

FairSpec == Spec /\ Fairness

(***************************************************************************)
(* Properties.                                                             *)
(***************************************************************************)

\* s carries the packets that follow the first n, with no gap and no repeat.
IsRun(s, n) == \A i \in 1 .. Len(s) : s[i] = n + i

\* The session is handed the server's packets in the order they were written,
\* none skipped and none twice, whatever the pump and the main thread are in
\* the middle of (dispatchQueuedPackets, tryParsePackets).
InOrder ==
    /\ IsRun(dispatched, 0)
    /\ IsRun(local, Len(dispatched))
    /\ IsRun(pending, Len(dispatched) + Len(local))
    /\ IsRun(parsed, Len(dispatched) + Len(local) + Len(pending))

\* Every header the pump frames comes out of the cipher as the server wrote
\* it: each header byte is decrypted exactly once, with the keystream byte
\* that encrypted it, however the stream was cut into recv() calls.
HeadersReadable ==
    MayParse => \E k \in 1 .. Len(frames) : Reads(k)

\* disconnect() leaves nothing behind: the pump thread has ended, so no packet
\* can join the queue after it was cleared.
QuiescentAfterDisconnect ==
    main = "gone" => pump = "off" /\ parsed = <<>> /\ pending = <<>>

\* The server can decode what the client wrote: AUTH_SESSION is the only plain
\* header, the encrypted headers take consecutive keystream positions, and each
\* announces the bytes that follow it.
OutgoingDecodes ==
    \A i \in DOMAIN out :
        /\ out[i].ks = IF i = 1 THEN Plain ELSE 6 * (i - 2)
        /\ out[i].size = out[i].len + 4

\* When the close by the peer takes effect, every packet that arrived whole
\* before it has been framed (pumpNetworkIO drains the socket and parses
\* before it acts on the close), unless the parse loop left it for later at
\* its budget: those packets go with the connection.
PeerCloseAfterLastPacket ==
    pump = "queue" /\ sawClose /\ ~deferred =>
        ~\E k \in 1 .. Len(frames) :
            Reads(k) /\ frames[k].good /\ frames[k].end <= recv

\* Every packet the server wrote reaches its handler, unless the connection
\* ends first: the pump and the main thread never wait for each other.  What
\* the parse loop leaves at its budget is taken up when more bytes arrive, and
\* waits for good when none do.
EveryPacketDispatched ==
    \A k \in 1 .. MaxFrames :
        Len(frames) >= k ~>
            \/ Len(dispatched) >= k
            \/ ~connected
            \/ main \in {"joining", "gone"}
            \/ []deferred

(***************************************************************************)
(* What the session relies on: an ordered stream of packets.               *)
(***************************************************************************)
Stream == INSTANCE PacketStream WITH sent <- Len(frames), got <- dispatched
StreamSpec == Stream!Spec

=============================================================================
