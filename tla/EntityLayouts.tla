---------------------------- MODULE EntityLayouts ----------------------------
(***************************************************************************)
(* What a 3.3.5 server says of players, creatures, things and fights       *)
(* (extension/wowee/src/game/world_packets_entity.cpp), as the parsers     *)
(* that the session shares read it, and what this client asks it for.      *)
(***************************************************************************)
EXTENDS SharedLayouts

RandomRoll == Ask(20)

NameQueryResponse ==
    <<Need(2), Guid, Need(1), Read(1), Opt(<<Accept>>), IfLeft(2, <<>>, <<Refuse>>),
      Text, Text, IfLeft(3, <<>>, <<Named>>), Read(3)>>

CreatureQueryResponse ==
    <<Need(4), Read(4), Missing, Text, Text, Text, Text, Text, Text,
      Enough(16), Read(16), Enough(24), Read(24)>>

GameObjectQueryResponse ==
    <<Need(4), Read(4), Missing>> \o Ask(8) \o
    <<Text, Text, Text, Text, Text, Text, Text>> \o GameObjectData

PageTextQueryResponse == Ask(4) \o <<Text, Maybe(4), Named>>

\* The texts are not asked for, only the numbers between them.  Behind the
\* first of those, what is missing is left out.
ItemStats ==
    <<Enough(4), Count("stats", 4), Times("stats", 10, <<OrBreak(8), Read(8)>>),
      Enough(8), Read(8)>>
ItemUse ==
    <<Enough(64), Read(24), Read(40), Repeat(5, <<OrBreak(24), Read(24)>>),
      Maybe(4), MaybeText, Maybe(16), Maybe(76)>>
ItemQueryResponse ==
    Ask(4) \o <<Missing, Need(24), Read(12), Text, Text, Text, Text, Read(8)>> \o
    Ask(20) \o <<Need(52), Read(56)>> \o ItemStats \o ItemUse

-----------------------------------------------------------------------------
\* MonsterMoveParser: the path of a creature, in 3.3.5 and as it was before.
MonsterMoveOf(head, body) ==
    <<Guid, RuledOut>> \o head \o Ask(12) \o Ask(4) \o Ask(1) \o
    <<Opt(<<Accept>>), Facing>> \o Ask(4) \o body

MonsterMove        == MonsterMoveOf(Ask(1), MonsterMoveSplineBody)
MonsterMoveVanilla == MonsterMoveOf(<<>>, MonsterMoveSplineVanilla)

-----------------------------------------------------------------------------
AttackStart == Ask(16)
AttackStop  == <<Guid, Guid, IfLeft(1, <<Read(4)>>, <<>>)>>

\* The hits are as many as there is room for; what follows them is optional.
AttackerStateUpdate ==
    <<Need(17), Read(4), FullGuid, FullGuid, Need(9), Read(8), Count("hits", 1),
      If("hits", {0}, <<Refuse>>, <<Need(20)>>),
      Times("hits", 64, <<OrBreak(20), Read(20)>>),
      Enough(8), Read(4), Maybe(4), Maybe(4), Opt(<<Maybe(4)>>), Opt(<<Maybe(4)>>),
      Opt(<<Maybe(4)>>)>>

SpellDamageLog ==
    <<Need(33), FullGuid, FullGuid>> \o Ask(25) \o Ask(10)

SpellHealLog == <<Need(21), FullGuid, FullGuid>> \o Ask(17)

XpGain == Ask(13) \o <<Opt(<<Maybe(5)>>), Named>>

InitialSpells(vanilla) ==
    LET spell == IF vanilla THEN 4 ELSE 6
        cooldown == IF vanilla THEN 14 ELSE 16
    IN  <<Need(3), Read(1), Count("spells", 2),
          Times("spells", 1024, <<OrBreak(spell), Read(spell)>>),
          Enough(2), Count("cooldowns", 2),
          Times("cooldowns", 1024, <<OrBreak(cooldown), Read(cooldown)>>)>>

CastFailed == Ask(6) \o <<CastResultArgs>>

\* A target is read if it is there; where it is missing the rest still is read.
Target(place) == Attempt(<<FullGuid>> \o place)
SpellStart ==
    <<Need(15), FullGuid, FullGuid>> \o Ask(13) \o Ask(4) \o
    <<Opt(<<Target(<<>>)>>), Opt(<<Target(<<>>)>>), Opt(<<Target(Ask(12))>>),
      Opt(<<Target(Ask(12))>>), Opt(<<MaybeText>>)>>

=============================================================================
