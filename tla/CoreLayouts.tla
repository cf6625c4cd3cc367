----------------------------- MODULE CoreLayouts -----------------------------
(***************************************************************************)
(* The parsers of the login, the character list and the updates of 3.3.5   *)
(* (extension/wowee/src/game/world_packets.cpp).                           *)
(***************************************************************************)
EXTENDS SharedLayouts

\* The seed, behind one more word in the long form.
AuthChallenge == <<Need(4), IfLeft(40, <<Read(8)>>, <<Read(4)>>)>>
AuthResponse  == Ask(1)
CharCreateResponse == Ask(1)
LoginVerifyWorld   == Ask(20)
Pong               == Ask(4)

\* Race, class and gender, each only behind the one before; then whatever
\* else is there of what the first guard has already asked for.
WhoItIs == <<IfLeft(1, <<Read(1), IfLeft(1, <<Read(1), Maybe(1)>>, <<>>)>>, <<>>)>>
CharEnum ==
    <<Need(1), Count("count", 1),
      Times("count", NoCap,
            <<OrBreak(270), Read(8), OrBreak(1), Text>> \o WhoItIs \o
            <<IfLeft(4, <<Read(4), Maybe(1)>>, <<>>), Maybe(1),
              IfLeft(12, <<Read(20)>>, <<>>),
              Maybe(4), Maybe(4), IfLeft(4, <<Read(4), Maybe(1)>>, <<>>), Maybe(12),
              Repeat(23, <<OrBreak(9), Read(9)>>)>>)>>

\* Up to eight words, and a mask before them if the length is a whole number
\* of words.
AccountDataTimes ==
    <<Need(5), Read(5), Opt(<<Maybe(4)>>), Repeat(8, <<OrBreak(4), Read(4)>>)>>

Motd == <<Need(4), Count("lines", 4), Times("lines", 64, <<OrBreak(1), Text>>)>>

-----------------------------------------------------------------------------
\* UpdateObjectParser::parseMovementBlock(): a unit, an object at a place of
\* its transport, or one that stands.
UnitWotlk == Unit(66, 26, Ask(21) \o <<Opt(Ask(4))>>, 36, WotlkUpdateSpline)
Carried   == <<Need(1), Guid>> \o Ask(32)
MarksWotlk == Marks \o <<Opt(Ask(8)), Opt(Ask(8))>>
MovementBlockWotlk == MovementBlock(2, UnitWotlk, <<Carried>>) \o MarksWotlk

\* parseUpdateBlock()
UpdateBlock ==
    <<Need(1), Read(1), RuledOut>> \o
    <<Block(<<Need(1), Guid>> \o MovementBlockWotlk,
            <<Need(1)>> \o Creates(MovementBlockWotlk))>>

\* parse(): the blocks before the first that fails, behind the guids that are
\* gone.
Blocks(less) == <<TimesLess("blocks", less, <<OrElse(UpdateBlock, <<Break>>)>>)>>
Gone ==
    <<Read(1), If("blocks", {0}, <<Refuse>>, <<>>), Count("gone", 4),
      AtMost("gone"), Times("gone", NoCap, <<Guid>>)>>
Update ==
    <<Count("blocks", 4), AtMost("blocks"),
      IfLeft(1, <<OneOf(<<Gone \o Blocks(1), Blocks(0)>>)>>, Blocks(0))>>

DestroyObject == <<Need(8), Read(8), Maybe(1)>>

=============================================================================
