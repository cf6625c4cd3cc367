--------------------------- MODULE ClassicLayouts ---------------------------
(***************************************************************************)
(* The parsers of the 1.12 protocol and of the Turtle realms' variant of   *)
(* it (extension/wowee/src/game/packet_parsers_classic.cpp).               *)
(***************************************************************************)
EXTENDS SharedLayouts

\* ClassicPacketParsers::parseMovementBlock(), and the Turtle one, where four
\* bytes of time follow the position on a transport.
Mover(transport) ==
    MovementBlock(1, Unit(52, 24, Ask(transport), 24, UpdateSpline), <<>>) \o Marks
ClassicMovementBlock == Mover(16)
TurtleMovementBlock  == Mover(20)

-----------------------------------------------------------------------------
\* skipClassicSpellCastTargets(); the string must have its terminator.
Targets ==
    <<Need(2), Read(2), Opt(<<FullGuid>>), Opt(<<FullGuid>>), Opt(<<FullGuid>>),
      Opt(<<FullGuid>>), Opt(<<FullGuid>>), Opt(Ask(12)),
      Opt(Ask(12)), Opt(Ask(1)),
      Opt(<<Need(1), Text>>)>>

SpellStart ==
    <<Need(2), FullGuid, FullGuid, Need(10), Read(10), Attempt(Targets)>>

\* The hit list with guids of eight bytes or packed, then the miss list, which
\* targets may come before.  The other order that the code tries, targets
\* before the hit list, starts again at the hit list and fails the same way.
MissEntry ==
    <<IfLeft(8, <<Read(8)>>, <<Call(<<FullGuid>>)>>),
      IfLeft(1, <<Read(1)>>, <<Fail>>),
      Opt(<<IfLeft(1, <<Read(1)>>, <<Fail>>)>>)>>

MissList ==
    <<Need(1), Count("misses", 1), NeedEach("misses", 2, 0)>>

\* The targets may come behind the misses, then the ammunition of a shot.
SpellGoTail == <<Attempt(Targets), Opt(<<Maybe(8)>>)>>

SpellGo ==
    <<Need(2), FullGuid, FullGuid, Need(6), Read(6),
      Need(1), Count("hits", 1), NeedEach("hits", 1, 1),
      OrElse(<<Times("hits", NoCap, Ask(8))>>,
             <<Times("hits", NoCap, <<FullGuid>>)>>),
      OrElse(MissList, Targets \o MissList),
      Times("misses", NoCap, MissEntry)>> \o SpellGoTail

AttackerState ==
    <<Need(5), Read(4), FullGuid, FullGuid, Need(5), Read(4), Count("hits", 1),
      Times("hits", 64, <<OrBreak(20), Read(20)>>), Need(8), Read(8), Maybe(4)>>

DamageLog == <<Need(2), FullGuid, Need(1), FullGuid, Need(21), Read(27)>>
\* Mistake: the byte behind the amounts is not asked for.
HealLogShort == <<Need(2), FullGuid, Need(1), FullGuid, Need(12), Read(13)>>
HealLog   == <<Need(2), FullGuid, Need(1), FullGuid, Need(13), Read(13)>>

AuraSlot ==
    <<Read(1), OrBreak(4), Read(4), Opt(<<OrBreak(3), Read(3), Opt(<<Maybe(8)>>)>>)>>
Auras(all) ==
    <<Need(1), Guid, While(1, AuraSlot \o Only(~all, <<Break>>))>>

-----------------------------------------------------------------------------
Name ==
    <<Need(8), Read(8), Text, IfLeft(1, <<Text>>, <<Named>>),
      IfLeft(12, <<Read(12)>>, <<>>), Named>>

CastFailed == <<Read(5), CastResultArgs>>
CastResult == <<Need(5), Read(5), CastResultArgs>>

CharEnum ==
    <<Need(1), Count("count", 1),
      Times("count", 32, <<OrBreak(159), Read(8), Text, Read(50), Read(100)>>)>>

\* A name or a message of a length that must be reasonable to be read.
Sized(f) == <<Count(f, 4), If(f, 0 .. 2, <<Bytes(f, 1)>>, <<Lost>>)>>

Chat ==
    <<Need(10), Read(5),
      OneOf(<< Sized("name") \o <<Read(8)>>,
               <<Read(16)>>,
               <<Read(8)>>,
               <<Read(8)>> \o Sized("name") \o <<Read(8)>>,
               <<Text, Read(12)>> >>)>> \o
    Sized("message") \o <<Maybe(1)>>

GuildRoster ==
    <<Need(4), Count("members", 4), Text, Text, Read(40),
      Times("members", NoCap,
            <<Read(9), Text, Read(10), Opt(<<Read(4)>>), Text, Text>>)>>

GuildQuery == <<Need(8), Read(4), Text, Repeat(10, <<Text>>), Read(20)>>

GameObject ==
    <<Need(4), Read(4), Missing, Need(8), Read(8), Text, Text, Text, Text, Text>> \o
    GameObjectData

Creature ==
    <<Need(4), Read(4), Missing, Text, Text, Text, Text, Text, Enough(16), Read(16)>>

Gossip ==
    <<Need(16), Read(12), Count("options", 4),
      Times("options", 256, <<OrBreak(7), Read(6), Text>>)>> \o
    GossipQuests(13, 12)

MailList ==
    <<Need(1), Count("count", 1),
      Times("count", NoCap,
            <<OrBreak(5), Read(5), OneOf(<< <<Read(8)>>, <<Read(4)>> >>), Text,
              Read(12), Read(29), Read(20)>>)>>

Item ==
    <<Need(4), Read(4), Missing, Need(8), Read(8), Text, Text, Text, Text, Read(8),
      Need(16), Read(16), Need(52), Read(56)>> \o
    <<Repeat(10, <<OrBreak(8), Read(8)>>)>> \o ItemTail(5) \o <<Maybe(12)>>

-----------------------------------------------------------------------------
\* TbcPacketParsers::parseUpdateObject() with this movement block.
Update == UpdateObjectOf(Block(<<Read(8)>> \o ClassicMovementBlock,
                               Creates(ClassicMovementBlock)))

=============================================================================
