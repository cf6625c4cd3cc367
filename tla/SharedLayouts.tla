---------------------------- MODULE SharedLayouts ----------------------------
(***************************************************************************)
(* The paths of moving objects (extension/wowee/src/game/spline_packet.cpp)*)
(* and the parts that the parsers of several expansions share.             *)
(***************************************************************************)
EXTENDS PacketLayout

\* parseMonsterMoveSplineBody().  All waypoints as they are, the last one the
\* destination; or the destination first and the others packed.  What is cut
\* off is left out of the path.
MonsterMoveSplineBody ==
    <<Opt(Ask(5)), Need(4), Read(4), Opt(Ask(8)), Need(4), Count("points", 4),
      If("points", {0}, <<Accept>>, <<AtMost("points")>>),
      OneOf(<< <<Times("points", NoCap, <<Enough(12), Read(12)>>)>>,
               <<Enough(12), Read(12),
                 TimesLess("points", 1, <<OrBreak(4), Read(4)>>)>> >>)>>

\* parseMonsterMoveSplineBodyVanilla(): the same, all of it or nothing.
MonsterMoveSplineVanilla ==
    <<Opt(Ask(5)), Need(4), Read(4), Opt(Ask(8)), Need(4), Count("points", 4),
      If("points", {0}, <<Accept>>, <<AtMost("points")>>),
      OneOf(<< <<NeedEach("points", 12, 0), Bytes("points", 12)>>,
               <<NeedEach("points", 4, 8), Read(12),
                 TimesLess("points", 1, <<Read(4)>>)>> >>)>>

\* What a moving unit looks at when it arrives: a point, a target, an angle.
Facing == OneOf(<<Ask(12), Ask(8), Ask(4), <<>> >>)

\* parseClassicMoveUpdateSpline(), and the spline of the TBC movement block.
UpdateSpline ==
    <<Need(4), Read(4), Facing, Need(16), Read(12), Count("points", 4),
      AtMost("points"), NeedEach("points", 12, 12), Bytes("points", 12), Read(12)>>

\* parseWotlkMoveUpdateSpline(): the points, in one of two encodings, then a
\* mode and an end point that may be implausible.
Points(packed) ==
    <<Need(4), Count("points", 4), AtMost("points"),
      IF packed
      THEN If("points", {0}, <<Need(13)>>, <<NeedEach("points", 4, 21), Read(8)>>)
      ELSE NeedEach("points", 12, 13),
      Bytes("points", IF packed THEN 4 ELSE 12), Read(13), Opt(<<Refuse>>)>>

\* One encoding, then the other.  A count that is too large is not gone back
\* over: the second attempt begins behind it.
EitherEncoding(packed) ==
    <<OneOf(<< <<OrElse(Points(packed), Points(~packed))>>,
               Ask(4) \o Points(~packed) >>)>>

\* The words before the points, as the servers write them: from the most to
\* none.  A header that the flags rule out is refused.
RuledOut == Opt(<<Refuse>>)
WotlkUpdateSpline ==
    <<Need(4), Read(4), Facing, Need(12), Read(12),
      OrElse(Ask(8) \o <<Opt(Ask(5))>> \o Ask(8) \o EitherEncoding(FALSE),
      <<OrElse(<<RuledOut>> \o Ask(12) \o EitherEncoding(FALSE),
      <<OrElse(<<RuledOut>> \o Ask(8) \o Ask(5) \o <<Opt(Ask(8))>> \o EitherEncoding(TRUE),
      <<OrElse(Ask(8) \o <<Opt(Ask(8))>> \o EitherEncoding(TRUE),
      <<OrElse(Ask(8) \o EitherEncoding(FALSE),
      <<OrElse(Points(FALSE), Points(TRUE))>>)>>)>>)>>)>>)>>

-----------------------------------------------------------------------------
\* A unit in an update: head is its flags, time and position, out of the
\* least that must be there; then its transport, pitch, fall, jump, height,
\* speeds and path.
Unit(least, head, transport, speeds, spline) ==
    <<Need(least), Read(head), Opt(<<Need(1), Guid>> \o transport), Opt(Ask(4)),
      Need(4), Read(4), Opt(Ask(16)), Opt(Ask(4)), Need(speeds), Read(speeds),
      Opt(spline)>>

\* A unit or a thing that stands, and the words that follow either: the halves
\* of a guid, the target, the time of a transport.
MovementBlock(flags, unit, standing) ==
    Ask(flags) \o <<OneOf(<<unit, Ask(16), <<>> >> \o standing)>>
Marks == <<Opt(Ask(4)), Opt(Ask(4)), Opt(<<Need(1), Guid>>), Opt(Ask(4))>>

\* parseUpdateFields(): a mask of words and the value of every bit in it.
UpdateFields(create) ==
    <<Need(1), Count("masks", 1), If("masks", {0}, <<Accept>>, <<>>)>> \o
    Only(create, <<AtMost("masks")>>) \o
    <<Times("masks", NoCap, Ask(4)), Count("set", 0), Times("set", NoCap, Ask(4))>>

-----------------------------------------------------------------------------
\* An entry that does not exist has the high bit of its number set.
Missing == Opt(<<Accept>>)
\* return !name.empty()
Named == OneOf(<< <<Accept>>, <<Refuse>> >>)

\* readCastResultArgs() reads ids that name a station or a tool.
CastResultArgs == OneOf(<< <<Maybe(4)>>, <<Maybe(4), Maybe(4)>>, <<>> >>)

\* The 24 words of a game object, all of them or as many as there are.
GameObjectData == <<IfLeft(96, <<Read(96)>>, <<Repeat(24, <<OrBreak(4), Read(4)>>)>>)>>

\* The quests of a gossip menu: least bytes each, of which some are text.
GossipQuests(least, bytes) ==
    <<IfLeft(4, <<>>, <<Named>>), Count("quests", 4),
      Times("quests", 256, <<OrBreak(least), Read(bytes), Text>>)>>

\* What follows the stats of an item: damages, armor, resistances, ammunition,
\* spells, binding, text and page; each as far as it is there.
ItemTail(damages) ==
    <<Repeat(damages, <<OrBreak(12), Read(12)>>), Enough(4), Read(4), Maybe(28),
      Maybe(8), Repeat(5, <<OrBreak(24), Read(24)>>), Maybe(4), MaybeText, Maybe(16)>>

-----------------------------------------------------------------------------
\* The blocks of an update: new values, a move, a new object, or nothing.
Moves(mover, movement) == mover \o movement
Creates(movement) == <<Guid, Need(1), Read(1)>> \o movement \o UpdateFields(TRUE)
Block(moves, creates) ==
    OneOf(<< <<Guid>> \o UpdateFields(FALSE), moves, creates, <<>> >>)

\* The guids that are gone take the place of the first block.
OutOfRange ==
    <<Read(1), If("blocks", {0}, <<Refuse>>, <<>>), Need(4), Count("gone", 4),
      AtMost("gone"), Times("gone", NoCap, <<Need(1), Guid>>)>>

\* The first block and the later ones, of less than the packet counts.
UpdateBlocks(less, first, later) ==
    <<If("blocks", 0 .. less, <<Accept>>, <<>>)>> \o first \o
    <<TimesLess("blocks", less + 1, later)>>

\* parseWithLayout(): with the byte that says whether there is a transport,
\* then without it.
WithLayout(hasTransport, first, later) ==
    <<Need(4), Count("blocks", 4), AtMost("blocks")>> \o Only(hasTransport, Ask(1)) \o
    <<IfLeft(1, <<OneOf(<<OutOfRange \o UpdateBlocks(1, first, later),
                          UpdateBlocks(0, first, later)>>)>>,
             UpdateBlocks(0, first, later))>>

UpdateObject(first, later) ==
    <<OrElse(WithLayout(TRUE, first, later), WithLayout(FALSE, first, later))>>

\* A parser that keeps what it has read when a later block fails, but not
\* when the first does.
UpdateObjectOf(block) ==
    UpdateObject(<<Need(1), Read(1), RuledOut, Call(<<block>>)>>,
                 <<Need(1), Read(1), OrElse(<<RuledOut, block>>, <<Break>>)>>)

=============================================================================
