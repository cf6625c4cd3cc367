--------------------------- MODULE SessionLayouts ---------------------------
(***************************************************************************)
(* The packets that WowSession reads itself (extension/src/                *)
(* wow_session.cpp), in the two expansions it speaks.  Most are read       *)
(* without asking; the lists are the part that counts, and each asks for   *)
(* an entry before it reads it.                                            *)
(***************************************************************************)
EXTENDS PacketLayout

\* handle_combat_packet(): the cases that are read here.
SpellId(wotlk) == Read(IF wotlk THEN 4 ELSE 2)
SupercededSpell(wotlk) == <<SpellId(wotlk), SpellId(wotlk)>>

ActionButtons(wotlk) == Only(wotlk, <<Maybe(1)>>) \o <<While(4, <<Read(4)>>)>>

CastFailed(wotlk) == IF wotlk THEN <<Read(6)>> ELSE <<Read(5), Opt(<<Maybe(1)>>)>>

\* The whole guid is tried only where it makes up the rest of the packet.
SpellFailure(wotlk) ==
    (IF wotlk THEN <<Guid, Read(1)>>
     ELSE <<IfLeft(13, <<OneOf(<< <<Read(8)>>, <<Guid>> >>)>>, <<Guid>>)>>) \o
    <<Read(4)>>

\* SMSG_SPELL_FAILED_OTHER, SMSG_SPELL_DELAYED and MSG_CHANNEL_START.
CasterAnd(wotlk, n) == (IF wotlk THEN <<Guid>> ELSE <<Read(8)>>) \o <<Read(n)>>
ChannelStart(wotlk) == Only(wotlk, <<Guid>>) \o <<Read(8)>>

SpellCooldown(wotlk) ==
    <<Read(8)>> \o Only(wotlk, <<Read(1)>>) \o <<While(8, <<Read(8)>>)>>

AttackStop == <<Guid, Guid>>

\* handle_quest_query(): the fixed words, rewards and choices, the texts, the
\* objectives and, in 3.3.5, the items to gather.
QuestQuery(wotlk) ==
    <<Read(IF wotlk THEN 16 ELSE 12), Read(IF wotlk THEN 12 ELSE 8), Read(20),
      Read(IF wotlk THEN 16 ELSE 12), Read(IF wotlk THEN 12 ELSE 0),
      Read(IF wotlk THEN 28 ELSE 8), Read(80), Read(IF wotlk THEN 76 ELSE 16),
      Text, Text, Text, Text>> \o Only(wotlk, <<Text>>) \o
    <<Read(64), Read(IF wotlk THEN 48 ELSE 0), Text, Text, Text, Text>>

\* Mistake: an entry is not asked for.
QuestItemsUnasked == <<Count("items", 4), Times("items", NoCap, <<Read(12)>>)>>

\* read_quest_items()
QuestItems == <<Count("items", 4), Times("items", NoCap, <<OrBreak(12), Read(12)>>)>>

\* A quest in a gossip menu or a greeting.
QuestLine(wotlk) == <<OrBreak(12), Read(IF wotlk THEN 17 ELSE 12), Text>>

\* handle_npc_packet(), case by case.
QuestStatus(wotlk) == <<Read(IF wotlk THEN 9 ELSE 12)>>

\* Mistake: the count is trusted.
QuestStatusesUnasked == <<Count("count", 4), Times("count", NoCap, <<Read(9)>>)>>

QuestStatuses ==
    <<Count("count", 4), Times("count", NoCap, <<OrBreak(9), Read(9)>>)>>

Gossip(wotlk) ==
    <<Read(IF wotlk THEN 16 ELSE 12), Count("options", 4),
      Times("options", NoCap,
            <<OrBreak(6), Read(IF wotlk THEN 10 ELSE 6), Text>> \o
            Only(wotlk, <<Text>>)),
      Count("quests", 4), Times("quests", NoCap, QuestLine(wotlk))>>

NpcText == <<Read(4), Repeat(8, <<OrBreak(4), Read(4), Text, Text, Read(28)>>)>>

QuestList(wotlk) ==
    <<Read(8), Text, Read(8), Count("quests", 1),
      Times("quests", NoCap, QuestLine(wotlk))>>

QuestDetails(wotlk) ==
    <<Read(IF wotlk THEN 20 ELSE 12), Text, Text, Text,
      Read(IF wotlk THEN 10 ELSE 4)>> \o QuestItems \o QuestItems \o
    <<Read(IF wotlk THEN 20 ELSE 8)>>

QuestRequestItems(wotlk) ==
    <<Read(12), Text, Text, Read(IF wotlk THEN 24 ELSE 16)>> \o QuestItems \o
    <<Read(IF wotlk THEN 4 ELSE 8)>>

QuestOfferReward(wotlk) ==
    <<Read(12), Text, Text, Read(IF wotlk THEN 9 ELSE 4), Count("emotes", 4),
      Times("emotes", NoCap, <<OrBreak(4), Read(4), OrBreak(4), Read(4)>>)>> \o
    QuestItems \o QuestItems \o <<Read(IF wotlk THEN 24 ELSE 12)>>

QuestComplete(wotlk) == <<Read(IF wotlk THEN 12 ELSE 16)>>

Inventory(wotlk) ==
    <<Read(8), Count("items", 1),
      Times("items", NoCap, <<OrBreak(28), Read(IF wotlk THEN 32 ELSE 28)>>)>>

Trainer ==
    <<Read(12), Count("spells", 4), Times("spells", NoCap, <<OrBreak(38), Read(38)>>),
      Text>>

TaxiNodes == <<Read(16), While(4, <<Read(4)>>)>>

-----------------------------------------------------------------------------
\* handle_chat(): the type decides which names and guids come first: a line
\* of a creature, of a player, of a talking creature, in a channel, or other.
VanillaChat ==
    OneOf(<< <<Read(4), Text, Read(8)>>, <<Read(16)>>,
             <<Read(12), Text, Read(8)>>, <<Text, Read(12)>>, <<Read(8)>> >>)

\* The receiver, and its name where it is a creature.
NamedReceiver == <<Read(8), Opt(<<Read(4), Text>>)>>

WideChat ==
    OneOf(<< <<Read(4), Text>> \o NamedReceiver, <<Text, Read(8)>>,
             NamedReceiver, <<Read(8)>> >>)

Chat(wotlk) ==
    <<Read(5)>> \o
    (IF wotlk THEN <<Read(12), WideChat>> ELSE <<VanillaChat>>) \o
    <<Read(4), Text, Opt(<<Read(5)>>)>>

\* handle_world_packet(), the cases that are more than a few words.
Code            == <<Opt(<<Need(1), Read(1)>>)>>
TransferPending == <<Read(4), Maybe(4)>>
TransferAborted(wotlk) == Only(wotlk, <<Maybe(4)>>) \o <<Maybe(1)>>
NewWorld        == <<Read(20)>>
PowerUpdate     == <<Guid, Read(5)>>
Motd     == <<Count("lines", 4), Times("lines", NoCap, <<OrBreak(1), Text>>)>>
Factions == <<Count("count", 4), Times("count", NoCap, <<OrBreak(5), Read(5)>>)>>

FactionStandings(wotlk) ==
    Only(wotlk, <<Read(5)>>) \o
    <<Count("count", 4), Times("count", NoCap, <<OrBreak(8), Read(8)>>)>>

TeleportAck(wotlk) == <<Guid, Read(IF wotlk THEN 30 ELSE 28)>>

LevelUp(wotlk) ==
    <<Read(IF wotlk THEN 36 ELSE 28), Repeat(5, <<OrBreak(4), Read(4)>>)>>

SplineSpeed == <<Guid, Enough(4), Read(4)>>

\* handle_compressed_moves(), after inflate(): one byte of size, which counts
\* the two of the opcode, and the rest, handled as if it had come by itself.
CompressedMoves ==
    <<While(3, <<Count("rest", 1), Opt(<<Break>>), Read(2),
                 NeedEachOrBreak("rest", 1, 0), Bytes("rest", 1)>>)>>

-----------------------------------------------------------------------------
\* write_movement_info(), by the profile's MovementLayout.  The flags are
\* those that announce a part.
MoveBits == {"transport", "falling", "swimming", "flying"}
PitchBits(wotlk) == {"swimming"} \cup (IF wotlk THEN {"flying"} ELSE {})

\* Mistake: the seat on a transport is left out.
SeatLeftOut(wotlk) ==
    <<PutBits(4, MoveBits), Put(IF wotlk THEN 22 ELSE 20),
      HasAny({"transport"},
             IF wotlk THEN <<PutGuid("rider"), Put(20)>> ELSE <<Put(24)>>),
      HasAny(PitchBits(wotlk), <<Put(4)>>), Put(4),
      HasAny({"falling"}, <<Put(16)>>)>>

MovementInfo(wotlk) ==
    <<PutBits(4, MoveBits), Put(IF wotlk THEN 22 ELSE 20),
      HasAny({"transport"},
             IF wotlk THEN <<PutGuid("rider"), Put(21)>> ELSE <<Put(24)>>),
      HasAny(PitchBits(wotlk), <<Put(4)>>), Put(4),
      HasAny({"falling"}, <<Put(16)>>)>>

\* handle_movement_relay().  announced is what reads the flags.
RelayedMovement(wotlk, announced, rider, interpolated, tail) ==
    <<announced, Read(IF wotlk THEN 22 ELSE 20),
      HasAny({"transport"},
             IF wotlk THEN <<rider, Read(21)>> \o interpolated ELSE <<Read(24)>>),
      HasAny(PitchBits(wotlk), <<Read(4)>>), Maybe(4),
      HasAny({"falling"}, <<Maybe(16)>>)>> \o tail

\* What a server sends of its own: a spline's height, an interpolated
\* transport, a speed of an object that is known.
MovementRelay(wotlk) ==
    <<Guid>> \o
    RelayedMovement(wotlk, Flags(4, MoveBits), Guid, <<Opt(<<Read(4)>>)>>,
                    <<Opt(<<Maybe(4)>>), Opt(<<Maybe(4)>>)>>)

\* send_movement() as another client gets it: the server leads with the guid
\* of the mover, which in 3.3.5 the client has written already.
OwnMovement(wotlk) ==
    <<PutGuid("mover")>> \o MovementInfo(wotlk) \o <<Sent, GuidOf("mover")>> \o
    RelayedMovement(wotlk, Flags(4, MoveBits), GuidOf("rider"), <<>>, <<>>)

=============================================================================
