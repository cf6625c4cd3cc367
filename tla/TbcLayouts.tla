----------------------------- MODULE TbcLayouts -----------------------------
(***************************************************************************)
(* The parsers of the 2.4.3 protocol                                       *)
(* (extension/wowee/src/game/packet_parsers_tbc.cpp).                      *)
(***************************************************************************)
EXTENDS SharedLayouts

\* TbcPacketParsers::parseMovementBlock()
TbcMovementBlock ==
    MovementBlock(1, Unit(61, 25, Ask(20), 32, UpdateSpline), <<>>) \o Marks

Update ==
    UpdateObjectOf(Block(Moves(<<Read(8)>>, TbcMovementBlock), Creates(TbcMovementBlock)))

MonsterMove ==
    <<Guid, RuledOut>> \o Ask(12) \o Ask(4) \o Ask(1) \o <<Opt(<<Accept>>), Facing>> \o
    Ask(4) \o MonsterMoveSplineBody

-----------------------------------------------------------------------------
CharEnum ==
    <<Need(1), Count("count", 1),
      Times("count", 32, <<OrBreak(239), Read(8), Text, Read(50), Read(180)>>)>>

Gossip ==
    <<Need(16), Read(20), Count("options", 4),
      Times("options", 256, <<OrBreak(12), Read(10), Text, Text>>)>> \o
    GossipQuests(13, 12)

\* parseQuestDetailsPreWotlk().  Too many rewards are a sign that the fields
\* are not where they should be, and none are read.
Rewards ==
    <<IfLeft(4, <<Count("items", 4),
                  If("items", 0 .. 2,
                     <<Times("items", NoCap, <<OrBreak(12), Read(12)>>)>>, <<Lost>>)>>,
             <<>>)>>

QuestDetailsPreWotlk(suggestedPlayers) ==
    <<Need(16), Read(12), Text, Text, Text, IfLeft(4, <<>>, <<Named>>), Read(4)>> \o
    Only(suggestedPlayers, <<Maybe(4)>>) \o Rewards \o Rewards \o <<Maybe(4)>>

AuraUpdate == <<Refuse>>

\* A guid and a name; or a guid, whether it was found, and a name.
NameAndKind == <<Text, RuledOut>> \o Ask(12)
Name ==
    <<Need(8), OrElse(<<Read(8)>> \o NameAndKind,
                      <<Read(8), Need(1), Read(1),
                        OneOf(<< <<Need(1), Accept>>, NameAndKind, <<Refuse>> >>)>>)>>

\* Always ten stats, of which the unused ones are zero.
ItemStats == <<Repeat(10, <<OrBreak(8), Read(8)>>)>> \o ItemTail(5)

Item ==
    Ask(4) \o <<Missing>> \o Ask(12) \o <<Text, Text, Text, Text, Read(8)>> \o Ask(16) \o
    Ask(56) \o ItemStats

\* An entry says how long it is, and one that does not fit ends the list; but
\* its attachments are read as far as they count, past its end and past the
\* packet's, then what is left skipped.
MailList ==
    <<Need(1), Count("count", 1),
      Times("count", NoCap,
            <<OrBreak(2), Read(2), OrBreak(5), Opt(<<Break>>), Read(5), Opt(<<Break>>),
              OneOf(<< <<Read(8)>>, <<Read(4)>> >>), Read(32), Text,
              Count("attached", 1), Times("attached", NoCap, <<Read(102)>>),
              Opt(<<Maybe(1)>>)>>)>>

-----------------------------------------------------------------------------
\* skipTbcSpellCastTargets(); the string must have its terminator.
Targets ==
    Ask(4) \o <<Opt(<<FullGuid>>), Opt(<<FullGuid>>), Opt(Ask(12)), Opt(Ask(12)),
                Opt(<<Need(1), Text>>)>>

SpellStart == <<FullGuid, FullGuid>> \o Ask(11) \o <<Attempt(Targets)>>

SpellGo ==
    <<FullGuid, FullGuid>> \o Ask(10) \o
    <<Need(1), Count("hits", 1), Times("hits", NoCap, Ask(8)),
      Need(1), Count("misses", 1), Times("misses", NoCap, Ask(9) \o <<Opt(Ask(1))>>),
      Attempt(Targets)>>

CastResult == Ask(5) \o <<Maybe(1), CastResultArgs>>

\* The hits are as many as there is room for, and the words behind them follow.
AttackerState ==
    <<Need(5), Read(4), FullGuid, FullGuid, Need(5), Read(4), Count("hits", 1),
      Times("hits", 64, <<OrBreak(20), Read(20)>>)>> \o Ask(16)

DamageLog == <<Need(2), FullGuid, Need(1), FullGuid, Need(21), Read(27)>>
HealLog   == <<Need(2), FullGuid, Need(1), FullGuid>> \o Ask(12) \o <<Maybe(1)>>

GameObject ==
    Ask(4) \o <<Missing>> \o Ask(8) \o <<Text, Text, Text, Text, Text, Text>> \o
    GameObjectData

-----------------------------------------------------------------------------
\* resize() makes every rank and every member there is said to be; each is then
\* filled in as long as its first bytes remain.
Rank == <<Read(4), Maybe(4), Repeat(6, <<OrBreak(8), Read(8)>>)>>
Member ==
    <<Read(9), MaybeText,
      IfLeft(1, <<Read(4), Maybe(2), Maybe(4)>>, <<>>), Opt(<<Maybe(4)>>),
      MaybeText, MaybeText>>

GuildRoster ==
    <<Need(4), Count("members", 4), Text, Text, Enough(4), Count("ranks", 4),
      Times("ranks", 20, <<IfLeft(4, Rank, <<>>)>>),
      Times("members", 1000, <<IfLeft(9, Member, <<>>)>>)>>

GuildQuery ==
    Ask(4) \o <<Enough(1), Text, Repeat(10, <<MaybeText>>), Maybe(20)>>

=============================================================================
