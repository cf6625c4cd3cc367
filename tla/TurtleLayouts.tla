--------------------------- MODULE TurtleLayouts ---------------------------
(***************************************************************************)
(* The Turtle realms send updates and moves in the shapes of several       *)
(* expansions; TurtlePacketParsers (extension/wowee/src/game/              *)
(* packet_parsers_classic.cpp) tries one after the other.                  *)
(***************************************************************************)
EXTENDS SharedLayouts

Classic == INSTANCE ClassicLayouts
Tbc     == INSTANCE TbcLayouts
Wotlk   == INSTANCE EntityLayouts

\* parseMovementVariant(): the movement block of three expansions, each from
\* the byte behind the type.
Moving(movement) == <<OneOf(<<<<Read(8)>> \o movement, Creates(movement)>>)>>
Variants ==
    <<OrElse(Moving(Classic!TurtleMovementBlock),
      <<OrElse(Moving(Classic!ClassicMovementBlock), Moving(Tbc!TbcMovementBlock))>>)>>
TurtleBlock == OneOf(<< <<Guid>> \o UpdateFields(FALSE), Variants, <<>> >>)

\* A first block that fails leaves an update without blocks; a first type that
\* no update has refuses the layout.
FirstBlock == <<Need(1), Read(1), RuledOut, OrElse(<<TurtleBlock>>, <<Accept>>)>>
LaterBlock == <<OrBreak(1), Read(1), OrElse(<<RuledOut, TurtleBlock>>, <<Break>>)>>
TurtleUpdate == UpdateObject(FirstBlock, LaterBlock)
Update == <<OrElse(TurtleUpdate, <<OrElse(Classic!Update, Tbc!Update)>>)>>

\* looksLikeWotlkMonsterMove()
OrFail(n) == [op |-> "guard", n |-> n, else |-> "fail"]
LooksLikeWotlk == <<Opt(<<Fail>>), Guid, OrFail(1), Read(1), OrFail(17), Read(17)>>
MonsterMove ==
    <<OrElse(Wotlk!MonsterMoveVanilla,
      <<OrElse(Tbc!MonsterMove, <<Peek(LooksLikeWotlk, Wotlk!MonsterMove)>>)>>)>>

=============================================================================
