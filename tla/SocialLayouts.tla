---------------------------- MODULE SocialLayouts ----------------------------
(***************************************************************************)
(* Chat, emotes, channels, friends and guilds                              *)
(* (extension/wowee/src/game/world_packets_social.cpp).                    *)
(***************************************************************************)
EXTENDS SharedLayouts

\* A text after its length, which must fit into the packet; a length that is
\* too large for the buffer is passed over.
Sized(f) ==
    <<Count(f, 4), NeedEach(f, 1, 0),
      If(f, 0 .. 2, <<Bytes(f, 1)>>, <<OneOf(<< <<Bytes(f, 1)>>, <<Lost>> >>)>>)>>

\* The receiver of a creature's words, and its name unless it is a player or a
\* pet: the name is skipped without asking for it.
Receiver == <<Read(8), Opt(<<Count("receiver", 4), Bytes("receiver", 1)>>)>>

\* The message, the tag, and the achievement it tells of.
Message == Sized("message") \o <<Read(1), Opt(<<Maybe(4)>>)>>

\* MessageChatParser: what is between the sender and the message is decided
\* by the type.
MessageChat ==
    <<Need(15), Read(17),
      OneOf(<< Sized("sender") \o Receiver, <<Text, Read(8)>>, <<Read(8)>>, <<>> >>)>> \o
    Message

TextEmote == <<Need(20), Read(20), OneOf(<< <<Text>>, <<Refuse>>, <<>> >>)>>

ChannelNotify == <<Need(2), Read(1), Text, Maybe(8)>>

QueryTimeResponse == Ask(8)
PlayedTime        == Ask(8) \o <<Maybe(1)>>
FriendStatus      == Ask(9) \o <<Opt(<<IfLeft(1, <<Text, Maybe(1)>>, <<>>)>>)>>
LogoutResponse    == Ask(5)

-----------------------------------------------------------------------------
PetitionShowlist ==
    <<Need(12), Read(8), Count("count", 4),
      If("count", {0}, <<>>, <<Read(12), Maybe(8)>>)>>
TurnInPetitionResults == Ask(4)

GuildQueryResponse ==
    <<Need(8), Read(4), Enough(1), Text, Repeat(10, <<MaybeText>>), Enough(20), Read(20),
      Maybe(4)>>

GuildInfo == <<Need(4), Text, Read(20)>>

\* Ranks, each with the rights of six bank tabs; and members, where everything
\* but the guid may be cut off.  resize() makes every one there is said to be;
\* each is then filled in as long as its first bytes remain.
Rank == <<Read(4), Maybe(4), Repeat(6, <<OrBreak(8), Read(8)>>)>>
Member ==
    <<Read(9), MaybeText,
      IfLeft(1, <<Read(4), Maybe(3), Maybe(4)>>, <<>>), Opt(<<Maybe(4)>>),
      MaybeText, MaybeText>>
GuildRoster ==
    <<Need(4), Count("members", 4), Text, Text, Enough(4), Count("ranks", 4),
      Times("ranks", 20, <<IfLeft(4, Rank, <<>>)>>),
      Times("members", 1000, <<IfLeft(9, Member, <<>>)>>)>>

GuildEvent ==
    <<Need(2), Read(1), Count("strings", 1), Times("strings", 3, <<Text>>), Maybe(8)>>
GuildInviteResponse == <<Need(2), Text, Text>>
GuildCommandResult  == <<Need(8), Read(4), Text, Read(4)>>

=============================================================================
