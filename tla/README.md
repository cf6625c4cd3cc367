# Models and proofs of the WoWdot client

WoWdot is a Godot client for classic World of Warcraft servers: a C++
extension speaks the network protocol and reads the game's files, and GDScript
builds the world and the interface on top of it.  This directory models the
parts of it where threads, the network and callbacks meet, and what its parsers
ask of the packets they are given.  Each module is translated from the code;
`PROJECT.json` maps every definition to its lines.

    tlasany M.tla                            parse
    tlc -config X.cfg MCM                    model-check (Session and LogonFraming
                                             are checked themselves)
    tlapm MProofs.tla                        check the proofs

## The system

| Part | Code | State | Operations |
| --- | --- | --- | --- |
| World socket | `extension/wowee/src/network/world_socket.cpp` | receive buffer, cipher positions, callback queue, two mutexes, pump thread | connect, pump, frame, dispatch, send, start the cipher, disconnect |
| Session | `extension/src/wow_session.cpp` | login state, current and retired sockets, session key, object store, pending queries | login, realm list, select realm, poll, one handler per opcode |
| Login connection | `auth_handler.cpp`, `tcp_socket.cpp` | logon state, receive buffer, SRP | challenge, proof, realm list, failures; receive, guess a packet's size, hand it over, close |
| Terrain streaming | `extension/src/wow_streamer.cpp`, `shared/game/world/wow_map.gd` | generation, reference counts, results; tiles, loading set, placement nodes | request, work, poll, release, reset; frame, unload, change of map |
| Main scene, screens | `shared/game/main.gd`, `world.gd`, `clients/*/ui/glue.gd` | the world node, the screen shown | reactions to the session's signals |
| Objects | `wow_session.cpp` (the store, names, chat), `entities.gd` | objects, names, pending questions, waiting lines; nodes and plates by guid | update packet, destroy, far teleport; ask, answer; say; show, respawn, erase |
| Transports and movement | `transports.gd`, `remote_motion.gd` | paths, riders by guid | board, extrapolate |
| Gameplay scripts | `shared/game/world/*.gd` | one small store per feature | decode a packet, keep fields, emit signals |
| Packet parsers | `extension/wowee/src/game`, `auth_packets.cpp`, the session's own handlers | a cursor over a packet | read, ask what remains, accept or refuse |
| File loaders, cryptography | `extension/wowee/src/pipeline`, `auth` | none | pure functions |

How they meet: the session owns one login connection or one world socket and
calls `update()` on it from `poll()`, once a frame.  The world socket's pump
thread and the main thread share the receive side under `ioMutex_` and the
callback queue under `callbackMutex_`; the session's handlers run on the main
thread with no lock held, and may send, start the cipher or replace the socket
while they run.  Scripts react to the session's signals in the same call.  The
map asks the streamer for tiles; worker threads build them and share the
reference counts of placements, under the streamer's mutex.

What is hard, and where it is listed: `PROJECT.json` names each hazard at its
line.  In short: bytes arrive in any pieces and headers are decrypted in place;
the cipher is started by one thread while another reads; queues and budgets
overflow; a close races data; placements are shared by tiles that workers build
in any order; a change of map overtakes what is being built; sockets are
replaced from inside their own callbacks; the login server's packets carry no
length; names come after the nodes and the lines that need them; counts in a
packet are larger than the packet.

## Modules

`WorldSocket`
: the connection to the world server.  Bytes are counted, not stored: the
  server's stream is `frames`, with the byte at which each ends and the
  keystream position its header was encrypted at; the receive buffer is the
  interval `off .. recv` of it.  `pump` is where the pump thread stands in
  `asyncPumpLoop()`: it holds `ioMutex_` while it is "parse" or "queue", and one
  step is one turn of the parse loop or one critical section.  `deferred` is the
  condition the code logs as "parse budget reached": the last parse loop put
  packets off.  `fin` is a close or a reset, which may lose bytes.  `main` is where
  the main thread stands in `update()` or `disconnect()`.  A header read with
  the wrong keystream announces an arbitrary size (`ParseGarbled`).  The handler
  of `SMSG_AUTH_CHALLENGE` is two steps, one for each hold of `ioMutex_`.

`PacketStream`
: what a session wants of a connection: the server's packets, in order, each
  once.  `WorldSocket` implements it (`StreamSpec`), mapping the packets written
  and those handed to a handler; so does `LogonFraming` until an answer is cut.

`WowStreamer`
: the streamer and the map node.  A job is a request from the moment it is
  queued until `poll()` returns it: what is left of its tile's placements, the
  ids it has counted (`tile_refs`) and the buildings it carries.  `Claim` is one
  turn of `work()`'s loop, `Frame` is `_process()` up to the unloading, which
  goes tile by tile because `release()` takes the mutex for each.  `SetMap`,
  `Unload` and `Reset` are the setter of `map_name`.  A doodad is a placement
  that is counted and never built; an id names one placement on a tile.

`Session`
: `WowSession`, the `AuthHandler` it owns, the servers' side of both protocols,
  and the scripts that react (`Glue`, `Main`).  All of it runs on the main
  thread, so what interleaves are the legs of `poll()` with what a callback sets
  off: a step is a callback and everything it calls, down to the script that
  answers the signal with `disconnect()` or `select_realm()`.  `phase` is the leg
  of `poll()` and `run` the connection whose callbacks it runs; `auth`, `world`,
  `oldAuth` and `oldWorld` are the four pointers, and a connection is a number,
  so a destroyed one stays recognisable (`dead`).  A blocking `connect()` is a
  step of its own (`busy`).  `STATE_FAILED` never survives a step: the Glue
  disconnects in the signal.  `twice` says whether the login server may refuse
  again after its answer.  The character screens are one, `"select"`.

`LogonFraming`
: `TCPSocket` below the login.  Bytes are counted as in `WorldSocket`: the server
  has written `packets`, each with the byte at which it ends; `off .. recv` is
  the receive buffer.  `ExpectedPacketSize` is the function of that name with its
  guesses: a challenge as soon as its fields say how long it is, the answer to a
  proof by what happens to be buffered.  `phase` is where `update()` stands.
  `cut` remembers that an answer was taken before its end had come: an accepted
  proof of 28 or 32 bytes whose first 26 came alone.  What the rest of it is then
  read as is not modelled, as it depends on the values of the bytes: a step of
  the properties ends there.  `Session` has the handlers of these packets, one by
  one; this module says that they are run one by one.

`Objects`
: `WowSession`'s store of objects, and `Entities`.  An update packet is handled
  block by block with everything a block's signal sets off, from `UpdateBegin` to
  `UpdateEnd`; `destroyed` is what the session announces only at the end, which
  is how a packet that destroys and creates a guid loses its node (`torn`).  The
  questions for names are what a plate or a line asks (`player_queries`,
  `creature_queries`, `creature_entry_queries`) and, on the server's side, `asked`
  and `deaf`: what is on the way, and what no answer will come to.
  `CreatureQueryResponse` names all units of its template.  `Respawn` of a node
  that looks different is a step of the packet that changes it.

`PacketLayout`, `PacketReader`
: the language of the parsers, and a machine that runs them on a packet.  A layout is what a
  parser asks (`Need`, `OrBreak`, `FullGuid` ...), reads (`Read`, `Guid`, `Text`,
  `Count`) and decides (`Opt`, `OneOf`, `IfLeft`, `Times`, `Attempt`), in the
  order of its code.  A value is kept only if it counts entries (`vals`) or is a
  flag that announces a part (`bits`, so that a writer and a reader agree on it);
  any other choice is open.  `todo` is what is left of the layout, with the loops
  under way in it, `marks` where the parsers began that another one is tried after.  The reader does not fix the packet's length: it
  decides how much is left when a question asks, so one behaviour stands for all
  lengths the parser cannot tell apart, and the length has no bound.

`SharedLayouts`, `ClassicLayouts`, `TbcLayouts`, `TurtleLayouts`,
`EntityLayouts`, `WorldLayouts`, `SocialLayouts`, `EconomyLayouts`,
`SessionLayouts`, `CoreLayouts`, `LogonLayouts`
: 182 parsers, by source file, among them the movement block that the client
  itself writes (`SessionLayouts`).

`PacketDiscipline`
: what the text of a layout says of its parser, without a packet: which lists ask
  for every entry (`AskedLists`), and outlines, which note at every item how many
  bytes are left for certain, whether a number may have been read past the end,
  whether the cursor may be lost, and what is being tried (`Outlines`,
  `Disciplined`); and whether a reader goes with a writer item by item (`Pairs`,
  `Mirrored`).

`MCWorldSocket`, `MCWowStreamer`, `MCObjects`, `MCPacketReader`
: the instances TLC checks.  `MCPacketReader` also says what is expected of which
  parser, and computes the outlines of each and the pairs of the client's own
  packets (`TheoremsApply`).

`WorldSocketProofs`, `WowStreamerProofs`, `SessionProofs`,
`LogonFramingProofs`, `ObjectsProofs`, `PacketReaderProofs`, `PacketWholeProofs`,
`PacketOwnProofs`
: the inductive invariants and the theorems.

A definition whose comment begins with "Mistake:" is not used by any action: it
is the slip the definition after it must not make, and `PROJECT.json` names the
property that fails when it takes that definition's place.

## Runs

| Run | Shows | Bounds |
| --- | --- | --- |
| `WorldSocketSafety` | headers are decrypted once and right, frames out decode, the session sees a stream | 3 server packets with headers of 4 and 5 bytes and bodies of 0 and 2, so every cut of a header and of a body occurs; corrupt sizes; 3 packets out; a parse budget of 2, so that a corrupt size comes behind a good packet of the same call; a callback budget and a queue of 1, buffer of 12, so each limit is met |
| `WorldSocketLive` | order of all queues; a close comes after the data, but for what the parse loop had put off; every packet is dispatched, unless it was put off for good | 5 packets, parse budget 2, callback budget 1 and queue of 2: both budgets and the queue overflow, also the parse budget with no byte following and with a close |
| `WorldSocketPromptReply` | nothing runs or is queued after `disconnect()` | 3 packets, a server that answers early, so that garbled streams are covered too |
| `WorldSocketGarbled` | violated: the answer to AUTH_SESSION may be read before the cipher is on | as above |
| `Session` | no callback runs on a destroyed connection, none leaks, the key shown is the last, the screens agree, failures stay; logins and losses come to an end | 6 connections: a login with its retry and a world, then another or a change of realm; every packet in every state its server can send it |
| `SessionTwoRefusals` | violated: a refusal that is reported is retried all the same | 3 connections |
| `WowStreamer` | counts are exact, buildings are built once, stand as long as listed, tiles are of the map; every tile around a player who stays comes or turns out not to load | 2 tiles that share a building and a tree, and a place beyond both; radius 0, so that walking loads and unloads each; an id used by both maps; a tile that does not load; 2 maps, 2 generations |
| `WowStreamerGround` | violated: a tile is "ready" before its building stands | as above |
| `WowStreamerOldMap` | violated: a building of the old map stays in the new one | as above |
| `LogonFraming` | each answer is handed over once, whole and in order, in whatever pieces it comes, and none twice or late even after a cut; the parsers find what they read; the last answer comes before the close; every answer is handled | 3 packets: a challenge with and without security data, proofs of 26, 28 and 32 bytes, refusals of 2 and 4, two realm lists; cut at every byte on either side of a number that `getExpectedPacketSize()` compares with |
| `Objects` | nodes are the objects, plates show what is known, who lacks a name has been asked for, lines stay in turn; names and lines arrive | the player, another and two units of one template; 2 lines of chat; one guid a packet out of range; respawns, far teleports, logouts and losses at any time |
| `Packets` | what is accepted was read from the packet, no entry is made up and each parse ends but for those named below, what the client writes it reads | 182 parsers; every length; counts of 0, 1, 2 and the largest; guids of 1 and 3 bytes, texts of 1 and 4; 2 entries of a list one by one |

Three packets are enough for the socket's safety: the first is the plain
challenge, the second starts the keystream and the third must continue it,
whatever was half-read between them; the proofs cover every other number.  Two
tiles that list one building are what the counts are about; the place beyond lets
the player leave both.  Two units of one template are what an answer to one and
a node of the other need; two lines are the least that can be out of turn.  The
two first entries of a list and the end of the packet within or behind them are
all a parser can tell apart, as it carries nothing from one entry to the next but
the cursor and the count.

`CHECK_DEADLOCK FALSE` is set everywhere: a connection that is closed, a map
that is freed and a packet that is parsed do stop.

### What the parsers are expected to do

`Strict` are the 74 parsers that ask for every number before they read it: they
never accept a packet with a number that was not sent (`AcceptedIsWhole`).  A
`Packet` read past its end yields zeros, so the others may accept a packet that
was cut short and fill in zeros; for them the run shows what is left: a list gets
no entry of which nothing was sent (`EntriesAreSent`), and no count keeps them
busy (`ParseEnds`).  A text or a key that a length of its own makes longer than
what was sent is not a list.

Nine do make entries up (`MCTrusting`).  `ClassicGuildRoster` sizes a vector by
four unchecked bytes, and is the one that `ParseEnds` leaves out (no client asks
for the roster by it).  `TbcGuildRoster` and `WotlkGuildRoster` size theirs before
they ask, up to 20 ranks and 1000 members, and `WotlkGuildBankList` up to 8 tabs:
those of which no byte was sent stay in the list, blank.  `TbcMailList` reads up
to 255 attachments of a mail without asking; `WotlkUpdate` up to 4096 guids out of
range; `WotlkGuildEvent` up to 3 texts; `LogonRealmList` and
`LogonRealmListVanilla` as many realms as are announced, and rest on the
connection that hands them no list before it is whole.

### What the violated runs say

* `WorldSocketGarbled`: `send(AUTH_SESSION)` and `initEncryption()` take
  `ioMutex_` one after the other.  A server that answers at once has its first
  encrypted header read as plain text if the pump runs in between.  It takes a
  round trip shorter than the gap, so it is rare; nothing rules it out.
* `SessionTwoRefusals`: a protocol failure leaves `retry_auth` for `poll()` to
  see.  If a refusal comes in the same read, the handler fails again, the Glue
  disconnects and shows the reason; then `poll()` starts the retry over it,
  since neither `disconnect()` nor the second failure takes the flag back.
* `WowStreamerGround`: the tile under the player is attached while the building
  it shares with a neighbour is in the neighbour's result, not attached yet.
* `WowStreamerOldMap`: a worker that has counted a building keeps its count
  above zero while `_reset()` unloads the tiles; the counts are then cleared and
  nobody frees the node, nor clears `_placement_nodes`.

### What the socket's parse budget costs

A call of the pump frames at most `ParseBudget` packets and parses only when bytes
have come.  What it puts off waits for the next bytes, however long; and if the
server closes first, it goes with the connection.  `WorldSocketLive` reaches both.
`PeerCloseAfterLastPacket` and `EveryPacketDispatched` say that this is all: with
`deferred` false no whole packet is behind a close, and a packet that is never
dispatched on a connection that stays up was put off (`[]deferred`).

## Fairness

`WorldSocket`: the pump thread and `update()` keep running (weak fairness of
their steps), the kernel delivers what was written (`PumpRecvAll`), and a thread
that wants `ioMutex_` gets it in the end (strong fairness of the steps that wait
for it, since the other thread takes it again and again).  Nothing obliges the
server to write or to close, nor the client to send or disconnect.

`Session`: the engine calls `poll()` every frame and each leg of it returns; a
`connect()` succeeds or times out.  A login server that is asked answers, or
closes, in the end (strong fairness, since its answer is read in one leg of
`poll()` only).  That is the code's own assumption: `AuthHandler` has no timer,
so a server that stays silent keeps the status dialog up until the player
cancels.  Nothing obliges the world server or the player.

`WowStreamer`: the engine calls `_process()` every frame and the pool runs every
task, each request by itself.  Nothing obliges the player to move.

`LogonFraming`: `update()` is called every frame, and what was written arrives.

`Objects`: a packet is handled to its end.  The world server answers what it is
asked; its answer is read between two packets only, hence strong fairness for
each question.  It need not answer a question it was asked on a connection that
was lost since, nor one it refuses (`deaf`), and nothing asks again.

`PacketReader`: a parser runs to its end, as nothing interrupts it.

## Proofs

`WorldSocketProofs` proves, for every number of packets, all body and payload
lengths, all budgets and limits, and assuming that the server does not answer
before the cipher is on (`PromptReply = FALSE`):

* `DeliveryInOrder`, `ImplementsStream`: what was dispatched, the batch, the
  queue and the pump's list are one run 1, 2, 3 ... of the server's packets.
* `HeadersAlwaysReadable`: the header at `off` is frame `Framed + 1`'s, and the
  decrypt position less the bytes of it already decrypted is the position it was
  encrypted at.
* `DisconnectIsFinal`, `TypeCorrectness`.
* `FramesDecode`, for payloads of which the size with the opcode fits the size
  field.  The invariant adds that AUTH_SESSION goes out before the cipher is on,
  if anything does.
* `CloseAfterPackets`: for any parse budget, a close by the server takes effect
  behind every packet that came whole before it, unless the last parse loop stopped
  at its budget.  The invariant (`Drained`) says so of every state between two parse
  loops: a loop that ends for another reason has met a packet that is not whole, and
  what comes later lies behind it in the buffer.

The inductive invariant adds to the properties what they rest on: `off` is the
end of the last framed packet unless the connection is down or gone, frames
follow each other in bytes and in keystream, and the phases of the handshake
(one plain packet, nothing more before AUTH_SESSION).

`WowStreamerProofs` proves, for all maps, tiles, placements, radii and numbers
of generations: `CountsAreExact`, `BuildingsOnce`, `NodesAreListed`,
`CompleteWhenIdle`, `ShownTilesAreOfTheMap` and `TypeCorrectness`.  Neither "built once" nor "complete when idle" is
inductive.  The invariant adds that a coordinate has one current request or one
tile, never both (so the number of holders changes by one with each claim and
each release), and that a counted building stands or is in a current result
(`Accounted`), which is what makes it stand once nothing is loading.

`SessionProofs` proves, for any number of connections: `CallbacksAlive`,
`NoneLeaks`, `KeyIsCurrent`, `FailuresStay` and `ScreensFollowState`.  The invariant says for each leg
of `poll()` that the connection being updated is current or, once it was
replaced, parked (`Legs`); that whatever is alive is one of the four pointers'
(`Owners`); that a world connection and a realm list come after the key of the
last login (`Keys`); and that a retry is asked for by a handler that is current
still, unless the server has refused twice (`Retrying`), which is where
`RefusalIsFinal` breaks.  `Requests` bounds what the world server owes: the
status dialog keeps the player from asking twice.  `ScreensFollowState` adds what
the state says of the four pointers (`StateOfConnections`), of what the world
server was told last (`StateOfTalk`) and of the screens under any dialog
(`StateOfScreens`): with those a request under way and a loading screen exclude
each other.

`LogonFramingProofs` proves, for any number of packets of the sizes the servers
use and any cuts: `PacketsWhole`, `ReadsWhatIsThere`, `CloseComesLast`,
`TypeCorrectness` and `ImplementsStream`.  The guess of a packet's size is right
because the server writes one answer to a request (`OneAtATime`): the bytes behind
the last packet handed over are of one packet (`InStep`), so what is buffered at
the moment of the guess is a piece of it, from its first byte.  That no packet is
handed over twice or behind a later one holds after a cut as well: the buffer has
passed the start of each that was handed over, and never goes back (`Passed`).
`ImplementsStream` maps the connection to `PacketStream`, and allows any step from
a cut on.

`ObjectsProofs` proves, for any players, units and templates: `NodesAreObjects`,
`PlatesShowNames`, `NamelessAreAsked`, `LinesStayInTurn` and `TypeCorrectness`.
`NodesAreObjects` holds between packets; the invariant says what holds within
one (`SceneOK`, `ViewOK`): `destroyed` and `torn` are what the store and the nodes differ
by.  `PlatesShowNames` needs that each nameless node is recorded under the
question that will name it (`NodesRecorded`), that the record of a template is of
its own units (`QueriesOK`), and that nobody waits for a name that is known
(`QueriesNameless`).  A line goes behind all earlier ones of its sender because
it waits exactly while one does.

`PacketReaderProofs`, `PacketWholeProofs` and `PacketOwnProofs` prove what is true
of the reader under every parser that can be written as a layout, for any sizes of
guids and texts and any number of entries.  Nothing in them speaks of the 182; what they need of a
layout is a hypothesis about its text, and `TheoremsApply` is an assumption of
`MCPacketReader` that TLC evaluates before the run: most parsers meet it.

* `ReaderTyped`, `ReaderTypeOK`: what is left to do stays within the items of the
  layouts, their parts, and the loops these become (`Closed`).
* `EntriesSent`: a parser whose lists ask for every entry (`AskedLists`) gets no
  entry of which no byte was sent.  This is not inductive: the turn of a loop may
  well begin past the end.  The invariant says that no loop is in that state but
  at the very moment when its turn is about to ask for a byte (`Dry`), and then
  every way on drops the loop or ends its turns.  170 of the 173 `Bounded` parsers
  have such lists.  `TurtleMonsterMove` and `VanillaMonsterMove` check the count of
  points once, before the loop, and `ClassicSpellGo` that of misses, and then asks
  in two ways; the head of the loop does not show it.
* `AcceptedWhole`: a parser with an outline that ends well (`Disciplined`) never
  accepts a packet with a number that was not sent.  The invariant (`Whole`) keeps
  a note for every item that is left to do, of which each follows from the one
  before (`Sound`); the first is true of the cursor (`Known`), and every parser
  that is tried has such notes for what is done when it fails (`Retriable`).  The
  reader puts parts, loops and retries together, and the notes of the outlines are
  put together the same way.  68 of the 74 `Strict` parsers have an outline.  The
  others rest on more than a note holds: `TurtleMonsterMove`, `VanillaMonsterMove`
  and `SessionCompressedMoves` on bytes asked for by a count, `LoginCharEnum` on the
  fact that a character whose items were cut off leaves too little for another,
  the two of the client's own movement block on what was written.

* `OwnReadWhole`: a packet that a writer wrote is read to its last byte by a reader
  that goes with it item by item (`Pairs`), whatever flags are set and however long
  the guids are.  The invariant (`Together`) is a way: the layouts that the reader
  will go through, with the byte at which each begins (`Path`).  Writing makes the
  way longer, reading follows it.  It rests on the writer deciding by a flag only
  after all flags are written, and on no guid being written twice.  Both movement
  blocks of the client are such pairs.

Only model-checked: liveness (`EveryPacketDispatched`, `Settles`, `LoginEnds`,
`LossReported`, `AnswersHandled`, `NamesArrive`, `LinesHeard`, `ParseEnds`), which
the prover does not reach, and `AcceptedIsWhole` and `EntriesAreSent` of the parsers
named above.  That a layout has an outline, or a writer its reader, is computed by
recursion over its text: TLC does it for each of the 182.

## Not modelled

The arithmetic of the ciphers and of SRP6 is out of TLC's reach, file formats are
functions of a file, and models and the interface are presentation.  Of the
packets: the values of their fields, but for those a parser decides by, and the
builders of what the client sends, which are sequences of writes, except for the
movement block.  Of the profiles in the parsers only two are used by the session
("classic" and "wotlk"); the layouts stand for all.

Of the socket: logging and tracing, the synchronous pump (an environment variable
turns it on), the buffers of the kernel.  Of the map: the editor's focus marker,
maps that are one building, liquid surfaces.  Of the session: the caches of
items, quests and texts, which are asked for like names, auras, and packets that
only become signals; a world server is taken to send each packet in the state its
protocol has it.  Of the objects: fields, movement, weapons, mounts and markers
of quests, and objects without a model.  Transports, remote movement and the
scripts of the features keep continuous positions or a few fields each.

Known, and shown by no run: payloads of 65532 to 65535 bytes wrap the size field
of a client header (the guard compares the payload, the field holds four more);
packets past the parse budget of 64 are dropped when the server closes behind
them, and wait when it neither closes nor writes again (`pumpNetworkIO()` calls
`tryParsePackets()` once).  `FramesDecode` and `CloseAfterPackets` assume them
away by name.

A world server that closes before `AUTH_RESPONSE` is never reported
(`STATE_CONNECTING_WORLD`): `LossReported` leaves that state out, and
`ScreensAgree` says that the player can still cancel.  A player over a tile that
does not exist or does not load is never let go (`is_ground_ready()` stays
false); no property covers it.

## Plan

1. `WorldSocket`, `PacketStream`, `WowStreamer`, `Session` and their proofs: done.
2. `LogonFraming` and its proofs: done.
3. `Objects` and its proofs: done.
4. `PacketReader` and the layouts: done for the parsers; `PacketReaderProofs`,
   `PacketWholeProofs` and `PacketOwnProofs`: done.
5. Next to prove: that what `Session` shows of a login is a small diagram of states
   (offline, logging in, entering, in the world) which each step follows.
6. Next to model: the builders of client packets against the parsers of an emulator, the
   caches of items and quests, transports with their riders, liquid surfaces.
