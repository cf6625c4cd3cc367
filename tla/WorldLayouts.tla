---------------------------- MODULE WorldLayouts ----------------------------
(***************************************************************************)
(* Spells, auras, groups, loot, quests, vendors and trainers               *)
(* (extension/wowee/src/game/world_packets_world.cpp).                     *)
(***************************************************************************)
EXTENDS SharedLayouts

\* A target is read if it is there; where it is missing the rest still is read.
Target(place) == Attempt(<<FullGuid>> \o place)
Targets ==
    <<Opt(<<Target(<<>>)>>), Opt(<<Target(<<>>)>>), Opt(<<Target(Ask(12))>>),
      Opt(<<Target(Ask(12))>>), Opt(<<MaybeText>>)>>

\* The hits are read whole or not at all; misses that are cut off end the
\* packet, and the spell goes without them.
Miss == <<Enough(9), Read(9), Opt(<<Enough(1), Read(1)>>)>>
Runes == <<Read(2), Repeat(6, <<OrBreak(1), Opt(<<Read(1)>>)>>)>>
SpellGoTail ==
    <<IfLeft(4, <<Read(4)>> \o Targets, <<>>), Opt(<<Maybe(4)>>),
      Opt(<<IfLeft(2, Runes, <<>>)>>)>>
SpellGo ==
    <<Need(16), FullGuid, FullGuid, Need(14), Read(13), Count("hits", 1),
      Times("hits", NoCap, Ask(8)), Need(1), Count("misses", 1),
      Times("misses", NoCap, Miss)>> \o SpellGoTail

\* An aura's flags say what else it has; of one that is cut off after its
\* spell the flags are none.
AuraSlot ==
    <<OrBreak(5), Read(5),
      Opt(<<IfLeft(3, <<Read(3)>>, <<Lost>>), Opt(<<IfLeft(1, <<Guid>>, <<>>)>>),
            Opt(<<Maybe(8)>>), Opt(<<Repeat(3, <<Opt(<<OrBreak(4), Read(4)>>)>>)>>)>>)>>
AuraUpdate(all) == <<Need(1), Guid, While(1, AuraSlot \o Only(~all, <<Break>>))>>

SpellCooldown == Ask(9) \o <<While(8, <<Read(8)>>)>>

-----------------------------------------------------------------------------
GroupInviteResponse(canAccept) ==
    <<Need(1)>> \o Only(canAccept, <<Read(1)>>) \o <<Text, Named>>

\* roles is the 3.3.5 form, battleGroup the 2.4.3 one.
GroupMember(roles) ==
    <<OrBreak(1), Text, OrBreak(8), Read(8), OrBreak(3), Read(3)>> \o
    Only(roles, <<OrBreak(1), Read(1)>>)
GroupList(roles, battleGroup) ==
    LET head == IF battleGroup THEN 4 ELSE 3 IN
    <<Need(head), Read(head)>> \o
    Only(roles, Ask(1) \o <<Opt(Ask(5) \o <<IfLeft(13, <<Read(1)>>, <<>>)>>)>>) \o
    Ask(8) \o Only(roles, Ask(4)) \o <<Need(4), Count("members", 4),
      If("members", {0}, <<Enough(8), Read(8), Accept>>, <<>>),
      Times("members", 40, GroupMember(roles)), Enough(8), Read(8),
      IfLeft(10, <<Read(10), Maybe(1), Maybe(1)>> \o Only(roles, <<Maybe(1)>>), <<>>)>>

PartyCommandResult == <<Need(8), Read(4), Text, Enough(4), Read(4)>>
GroupDeclineResponse == <<Need(1), Text>>

LootItems(f) == <<Count(f, 1), Times(f, NoCap, Ask(22))>>
LootResponse(wotlk) ==
    Ask(9) \o <<Need(5), Read(4)>> \o LootItems("items") \o
    Only(wotlk, <<IfLeft(1, LootItems("questItems"), <<>>)>>)

-----------------------------------------------------------------------------
\* The guid of another player may come before the quest, and is told from it
\* by what the bytes then mean.
Rewards ==
    <<IfLeft(4, <<Count("items", 4),
                  If("items", 0 .. 2,
                     <<Times("items", NoCap, <<OrBreak(12), Read(12)>>)>>, <<Lost>>)>>,
             <<>>)>>
QuestDetails ==
    <<Need(20), Read(8),
      OrElse(<<Read(12), Text, RuledOut>>, <<Read(4), Text>>),
      Text, Text, Enough(10), Read(10)>> \o Rewards \o Rewards \o <<Maybe(4), Maybe(4)>>

GossipMessage ==
    <<Need(20), Read(16), Count("options", 4),
      Times("options", 64, <<OrBreak(12), Read(10), Text, Text>>),
      Enough(4), Count("quests", 4),
      Times("quests", 64, <<OrBreak(18), Read(17), Text>>)>>

BindPointUpdate == Ask(20)

\* parseTail(), tried behind every prefix of so many bytes; the attempt that
\* scores best is kept, and if none succeeds the quest has no items.
Prefix(n) == Ask(n)
RequestTail(n) ==
    Prefix(n) \o <<Need(8), Read(4), Count("items", 4), AtMost("items"),
                   Times("items", NoCap, Ask(12))>> \o Ask(4)
QuestRequestItems(prefixes) ==
    <<Need(20), Read(12), Text, Text, Enough(9),
      OneOf([i \in DOMAIN prefixes |-> <<OrElse(RequestTail(prefixes[i]), <<Accept>>)>>])>>

RewardTail(n, fixed) ==
    LET Slots(f, slots) ==
            IF fixed THEN <<If(f, 0 .. 2, <<>>, <<Refuse>>), Repeat(slots, Ask(12))>>
            ELSE <<AtMost(f), Times(f, NoCap, Ask(12))>>
    IN  Prefix(n) \o <<Need(4), Count("emotes", 4), AtMost("emotes"),
                       Times("emotes", NoCap, Ask(8)), Need(4), Count("choices", 4)>> \o
        Slots("choices", 6) \o <<Need(4), Count("rewards", 4)>> \o
        Slots("rewards", 4) \o <<Maybe(4), Maybe(4)>>
QuestOfferReward(prefixes) ==
    <<Need(20), Read(12), Text, Text, Enough(8),
      OneOf([i \in DOMAIN prefixes |->
                <<OneOf(<< <<OrElse(RewardTail(prefixes[i], FALSE), <<Accept>>)>>,
                           <<OrElse(RewardTail(prefixes[i], TRUE), <<Accept>>)>> >>)>>])>>

\* The 3.3.5 form has one layout, and ends where a list is too long or cut.
EnoughOf(f, n) ==
    <<Enough(4), Count(f, 4), If(f, 0 .. 2, <<>>, <<Accept>>),
      Times(f, NoCap, <<Enough(n), Read(n)>>)>>
QuestOfferRewardWotlk ==
    <<Need(20), Read(12), Text, Text, Enough(9), Read(9)>> \o EnoughOf("emotes", 8) \o
    EnoughOf("choices", 12) \o EnoughOf("rewards", 12) \o <<Maybe(4), Maybe(4)>>

\* QuestQueryRewardsParser: fields at fixed places, up to the last of them.
QuestQueryRewards(wotlk) == Ask(8 + 4 * (IF wotlk THEN 44 ELSE 33))

-----------------------------------------------------------------------------
\* The items have the extended cost if there is room for it.
ListInventory ==
    <<Need(9), Read(8), Count("items", 1), If("items", {0}, <<Accept>>, <<>>),
      OneOf(<< <<NeedEach("items", 32, 0), Times("items", NoCap, Ask(32))>>,
               <<NeedEach("items", 28, 0), Times("items", NoCap, Ask(28))>> >>)>>

TrainerList(classic) ==
    LET entry == IF classic THEN 34 ELSE 38 IN
    <<Need(16), Read(12), Count("spells", 4), AtMost("spells"),
      Times("spells", NoCap, <<OrBreak(entry), Read(entry)>>), MaybeText>>

TalentsInfo ==
    <<Need(8), Read(6), Count("talents", 2), AtMost("talents"),
      Times("talents", NoCap, Ask(5)), Enough(1), Count("glyphs", 1),
      Times("glyphs", 12, Ask(2))>>

=============================================================================
