--------------------------- MODULE MCPacketReader ---------------------------
(***************************************************************************)
(* Every layout under the reader, and what is expected of which.           *)
(***************************************************************************)
EXTENDS PacketReader, PacketDiscipline, TLC

Classic  == INSTANCE ClassicLayouts
Tbc      == INSTANCE TbcLayouts
Turtle   == INSTANCE TurtleLayouts
Entity   == INSTANCE EntityLayouts
World    == INSTANCE WorldLayouts
Social   == INSTANCE SocialLayouts
Economy  == INSTANCE EconomyLayouts
Session  == INSTANCE SessionLayouts
Core     == INSTANCE CoreLayouts
Logon    == INSTANCE LogonLayouts

\* A few of the 25 prefixes that the quest parsers try: each is tried alone.
MCPrefixes == <<0, 4>>

\* The parsers of 1.12, and of the Turtle realms.
MCClassic ==
    [ ClassicSpellStart |-> Classic!SpellStart,
      ClassicSpellGo |-> Classic!SpellGo,
      ClassicAttackerState |-> Classic!AttackerState,
      ClassicDamageLog |-> Classic!DamageLog,
      ClassicHealLog |-> Classic!HealLog,
      ClassicAuras |-> Classic!Auras(TRUE),
      ClassicAuraSlot |-> Classic!Auras(FALSE),
      ClassicName |-> Classic!Name,
      ClassicCastFailed |-> Classic!CastFailed,
      ClassicCastResult |-> Classic!CastResult,
      ClassicCharEnum |-> Classic!CharEnum,
      ClassicChat |-> Classic!Chat,
      ClassicGuildRoster |-> Classic!GuildRoster,
      ClassicGuildQuery |-> Classic!GuildQuery,
      ClassicGameObject |-> Classic!GameObject,
      ClassicCreature |-> Classic!Creature,
      ClassicGossip |-> Classic!Gossip,
      ClassicMailList |-> Classic!MailList,
      ClassicItem |-> Classic!Item,
      ClassicUpdate |-> Classic!Update,
      TurtleUpdate |-> Turtle!Update,
      TurtleMonsterMove |-> Turtle!MonsterMove ]

\* Those of 2.4.3, which the 1.12 ones share.
MCTbc ==
    [ TbcUpdate |-> Tbc!Update,
      TbcMonsterMove |-> Tbc!MonsterMove,
      TbcCharEnum |-> Tbc!CharEnum,
      TbcGossip |-> Tbc!Gossip,
      TbcQuestDetails |-> Tbc!QuestDetailsPreWotlk(TRUE),
      TbcQuestDetailsVanilla |-> Tbc!QuestDetailsPreWotlk(FALSE),
      TbcAuraUpdate |-> Tbc!AuraUpdate,
      TbcName |-> Tbc!Name,
      TbcNameAndKind |-> Tbc!NameAndKind,
      TbcItem |-> Tbc!Item,
      TbcMailList |-> Tbc!MailList,
      TbcSpellStart |-> Tbc!SpellStart,
      TbcSpellGo |-> Tbc!SpellGo,
      TbcCastResult |-> Tbc!CastResult,
      TbcAttackerState |-> Tbc!AttackerState,
      TbcDamageLog |-> Tbc!DamageLog,
      TbcHealLog |-> Tbc!HealLog,
      TbcGameObject |-> Tbc!GameObject,
      TbcGuildRoster |-> Tbc!GuildRoster,
      TbcGuildQuery |-> Tbc!GuildQuery ]

\* Those of 3.3.5, and the earlier shapes that stand beside them.
MCWotlk ==
    [ WotlkRandomRoll |-> Entity!RandomRoll,
      WotlkNameQueryResponse |-> Entity!NameQueryResponse,
      WotlkCreatureQueryResponse |-> Entity!CreatureQueryResponse,
      WotlkGameObjectQueryResponse |-> Entity!GameObjectQueryResponse,
      WotlkPageTextQueryResponse |-> Entity!PageTextQueryResponse,
      WotlkItemQueryResponse |-> Entity!ItemQueryResponse,
      WotlkMonsterMove |-> Entity!MonsterMove,
      WotlkAttackStart |-> Entity!AttackStart,
      WotlkAttackStop |-> Entity!AttackStop,
      WotlkAttackerStateUpdate |-> Entity!AttackerStateUpdate,
      WotlkSpellDamageLog |-> Entity!SpellDamageLog,
      WotlkSpellHealLog |-> Entity!SpellHealLog,
      WotlkXpGain |-> Entity!XpGain,
      WotlkInitialSpells |-> Entity!InitialSpells(FALSE),
      WotlkInitialSpellsVanilla |-> Entity!InitialSpells(TRUE),
      WotlkCastFailed |-> Entity!CastFailed,
      WotlkSpellStart |-> Entity!SpellStart,
      VanillaMonsterMove |-> Entity!MonsterMoveVanilla,
      LoginAuthChallenge |-> Core!AuthChallenge,
      LoginAuthResponse |-> Core!AuthResponse,
      LoginCharCreateResponse |-> Core!CharCreateResponse,
      LoginCharEnum |-> Core!CharEnum,
      LoginLoginVerifyWorld |-> Core!LoginVerifyWorld,
      LoginAccountDataTimes |-> Core!AccountDataTimes,
      LoginMotd |-> Core!Motd,
      LoginPong |-> Core!Pong,
      WotlkUpdate |-> Core!Update,
      WotlkDestroyObject |-> Core!DestroyObject,
      LogonChallengeResponse |-> Logon!LogonChallengeResponse,
      LogonProofResponse |-> Logon!LogonProofResponse,
      LogonRealmList |-> Logon!RealmListResponse(FALSE),
      LogonRealmListVanilla |-> Logon!RealmListResponse(TRUE) ]

\* Groups, loot, quests, trade and guilds.
MCWorld ==
    [ WotlkSpellGo |-> World!SpellGo,
      WotlkAuraUpdate |-> World!AuraUpdate(FALSE),
      WotlkAuraUpdateAll |-> World!AuraUpdate(TRUE),
      WotlkSpellCooldown |-> World!SpellCooldown,
      WotlkGroupInvite |-> World!GroupInviteResponse(TRUE),
      WotlkGroupList |-> World!GroupList(TRUE, TRUE),
      WotlkPartyCommandResult |-> World!PartyCommandResult,
      WotlkGroupDecline |-> World!GroupDeclineResponse,
      WotlkLootResponse |-> World!LootResponse(TRUE),
      WotlkQuestDetails |-> World!QuestDetails,
      WotlkGossipMessage |-> World!GossipMessage,
      WotlkBindPointUpdate |-> World!BindPointUpdate,
      WotlkQuestRequestItems |-> World!QuestRequestItems(MCPrefixes),
      WotlkQuestOfferReward |-> World!QuestOfferRewardWotlk,
      WotlkQuestQueryRewards |-> World!QuestQueryRewards(TRUE),
      WotlkListInventory |-> World!ListInventory,
      WotlkTrainerList |-> World!TrainerList(FALSE),
      WotlkTalentsInfo |-> World!TalentsInfo,
      VanillaGroupInvite |-> World!GroupInviteResponse(FALSE),
      VanillaGroupList |-> World!GroupList(FALSE, FALSE),
      VanillaLootResponse |-> World!LootResponse(FALSE),
      VanillaQuestOfferReward |-> World!QuestOfferReward(MCPrefixes),
      VanillaQuestQueryRewards |-> World!QuestQueryRewards(FALSE),
      VanillaTrainerList |-> World!TrainerList(TRUE),
      TbcGroupList |-> World!GroupList(FALSE, TRUE),
      WotlkMessageChat |-> Social!MessageChat,
      WotlkTextEmote |-> Social!TextEmote,
      WotlkChannelNotify |-> Social!ChannelNotify,
      WotlkQueryTimeResponse |-> Social!QueryTimeResponse,
      WotlkPlayedTime |-> Social!PlayedTime,
      WotlkFriendStatus |-> Social!FriendStatus,
      WotlkLogoutResponse |-> Social!LogoutResponse,
      WotlkPetitionShowlist |-> Social!PetitionShowlist,
      WotlkTurnInPetitionResults |-> Social!TurnInPetitionResults,
      WotlkGuildQueryResponse |-> Social!GuildQueryResponse,
      WotlkGuildInfo |-> Social!GuildInfo,
      WotlkGuildRoster |-> Social!GuildRoster,
      WotlkGuildEvent |-> Social!GuildEvent,
      WotlkGuildInviteResponse |-> Social!GuildInviteResponse,
      WotlkGuildCommandResult |-> Social!GuildCommandResult,
      WotlkShowTaxiNodes |-> Economy!ShowTaxiNodes,
      WotlkActivateTaxiReply |-> Economy!ActivateTaxiReply,
      WotlkMailList |-> Economy!MailList,
      WotlkGuildBankList |-> Economy!GuildBankList,
      WotlkAuctionHello |-> Economy!AuctionHello,
      WotlkAuctionListResult |-> Economy!AuctionListResult(7),
      WotlkAuctionCommandResult |-> Economy!AuctionCommandResult,
      TbcAuctionListResult |-> Economy!AuctionListResult(6),
      VanillaAuctionListResult |-> Economy!AuctionListResult(1) ]

\* Those of the session itself, in both expansions.
MCSession ==
    [ Session112SupercededSpell |-> Session!SupercededSpell(FALSE),
      Session112ActionButtons |-> Session!ActionButtons(FALSE),
      Session112CastFailed |-> Session!CastFailed(FALSE),
      Session112SpellFailure |-> Session!SpellFailure(FALSE),
      Session112ChannelStart |-> Session!ChannelStart(FALSE),
      Session112SpellCooldown |-> Session!SpellCooldown(FALSE),
      Session112QuestQuery |-> Session!QuestQuery(FALSE),
      Session112QuestStatus |-> Session!QuestStatus(FALSE),
      Session112Gossip |-> Session!Gossip(FALSE),
      Session112QuestList |-> Session!QuestList(FALSE),
      Session112QuestDetails |-> Session!QuestDetails(FALSE),
      Session112QuestRequestItems |-> Session!QuestRequestItems(FALSE),
      Session112QuestOfferReward |-> Session!QuestOfferReward(FALSE),
      Session112QuestComplete |-> Session!QuestComplete(FALSE),
      Session112Inventory |-> Session!Inventory(FALSE),
      Session112Chat |-> Session!Chat(FALSE),
      Session112TransferAborted |-> Session!TransferAborted(FALSE),
      Session112FactionStandings |-> Session!FactionStandings(FALSE),
      Session112TeleportAck |-> Session!TeleportAck(FALSE),
      Session112LevelUp |-> Session!LevelUp(FALSE),
      Session112MovementRelay |-> Session!MovementRelay(FALSE),
      Session112OwnMovement |-> Session!OwnMovement(FALSE),
      Session112SpellDelayed |-> Session!CasterAnd(FALSE, 5),
      Session335SupercededSpell |-> Session!SupercededSpell(TRUE),
      Session335ActionButtons |-> Session!ActionButtons(TRUE),
      Session335CastFailed |-> Session!CastFailed(TRUE),
      Session335SpellFailure |-> Session!SpellFailure(TRUE),
      Session335ChannelStart |-> Session!ChannelStart(TRUE),
      Session335SpellCooldown |-> Session!SpellCooldown(TRUE),
      Session335QuestQuery |-> Session!QuestQuery(TRUE),
      Session335QuestStatus |-> Session!QuestStatus(TRUE),
      Session335Gossip |-> Session!Gossip(TRUE),
      Session335QuestList |-> Session!QuestList(TRUE),
      Session335QuestDetails |-> Session!QuestDetails(TRUE),
      Session335QuestRequestItems |-> Session!QuestRequestItems(TRUE),
      Session335QuestOfferReward |-> Session!QuestOfferReward(TRUE),
      Session335QuestComplete |-> Session!QuestComplete(TRUE),
      Session335Inventory |-> Session!Inventory(TRUE),
      Session335Chat |-> Session!Chat(TRUE),
      Session335TransferAborted |-> Session!TransferAborted(TRUE),
      Session335FactionStandings |-> Session!FactionStandings(TRUE),
      Session335TeleportAck |-> Session!TeleportAck(TRUE),
      Session335LevelUp |-> Session!LevelUp(TRUE),
      Session335MovementRelay |-> Session!MovementRelay(TRUE),
      Session335OwnMovement |-> Session!OwnMovement(TRUE),
      Session335SpellDelayed |-> Session!CasterAnd(TRUE, 5),
      SessionAttackStop |-> Session!AttackStop,
      SessionQuestStatuses |-> Session!QuestStatuses,
      SessionNpcText |-> Session!NpcText,
      SessionTrainer |-> Session!Trainer,
      SessionTaxiNodes |-> Session!TaxiNodes,
      SessionCode |-> Session!Code,
      SessionTransferPending |-> Session!TransferPending,
      SessionNewWorld |-> Session!NewWorld,
      SessionPowerUpdate |-> Session!PowerUpdate,
      SessionMotd |-> Session!Motd,
      SessionFactions |-> Session!Factions,
      SessionSplineSpeed |-> Session!SplineSpeed,
      SessionCompressedMoves |-> Session!CompressedMoves ]

MCLayouts == MCClassic @@ MCTbc @@ MCWotlk @@ MCWorld @@ MCSession

\* The items of a layout and of all its parts.
Parts(it) ==
    CASE it.op \in {"ifleft", "if", "try"}      -> {it.a, it.b}
      [] it.op \in {"times", "loop", "while"}   -> {it.body}
      [] it.op = "has"                          -> {it.a}
      [] it.op = "oneof"                        -> {it.cases[i] : i \in DOMAIN it.cases}
      [] OTHER                                  -> {}
RECURSIVE ItemsOf(_)
ItemsOf(layout) ==
    LET own == {layout[i] : i \in DOMAIN layout}
    IN  own \cup UNION {ItemsOf(part) : part \in UNION {Parts(it) : it \in own}}
MCItems == UNION {ItemsOf(MCLayouts[l]) : l \in DOMAIN MCLayouts}

\* Parsers that ask for every number they read.  The others take what is
\* missing for zeros somewhere: behind the last guard, in an optional part, or
\* everywhere, like most of the session's own.
MCStrict ==
    { "ClassicSpellStart", "ClassicHealLog", "ClassicName",
      "ClassicCastResult", "ClassicGameObject", "ClassicCreature",
      "TbcMonsterMove", "TbcAuraUpdate", "TbcName", "TbcNameAndKind",
      "TbcSpellStart", "TbcSpellGo", "TbcCastResult", "TbcHealLog",
      "TbcGameObject", "TbcGuildQuery", "TurtleMonsterMove",
      "WotlkRandomRoll", "WotlkNameQueryResponse",
      "WotlkCreatureQueryResponse", "WotlkGameObjectQueryResponse",
      "WotlkPageTextQueryResponse", "WotlkMonsterMove", "WotlkAttackStart",
      "WotlkSpellDamageLog", "WotlkSpellHealLog", "WotlkXpGain",
      "WotlkCastFailed", "VanillaMonsterMove", "WotlkSpellCooldown",
      "WotlkGroupInvite", "WotlkPartyCommandResult", "WotlkGroupDecline",
      "WotlkLootResponse", "WotlkBindPointUpdate", "WotlkQuestRequestItems",
      "WotlkQuestOfferReward", "WotlkQuestQueryRewards",
      "WotlkListInventory", "WotlkTalentsInfo", "VanillaGroupInvite",
      "VanillaLootResponse", "VanillaQuestOfferReward",
      "VanillaQuestQueryRewards", "WotlkTextEmote", "WotlkChannelNotify",
      "WotlkQueryTimeResponse", "WotlkPlayedTime", "WotlkFriendStatus",
      "WotlkLogoutResponse", "WotlkTurnInPetitionResults",
      "WotlkGuildQueryResponse", "WotlkGuildInviteResponse",
      "WotlkShowTaxiNodes", "WotlkActivateTaxiReply", "WotlkAuctionHello",
      "WotlkAuctionCommandResult", "LoginAuthChallenge",
      "LoginAuthResponse", "LoginCharCreateResponse", "LoginCharEnum",
      "LoginLoginVerifyWorld", "LoginAccountDataTimes", "LoginMotd",
      "LoginPong", "WotlkDestroyObject", "Session112ActionButtons",
      "Session112TransferAborted", "Session112OwnMovement",
      "Session335ActionButtons", "Session335TransferAborted",
      "Session335OwnMovement", "SessionCode", "SessionCompressedMoves" }

\* All but those that read a list without asking, or make its entries before
\* they ask.
MCTrusting ==
    {"ClassicGuildRoster", "TbcGuildRoster", "WotlkGuildRoster", "TbcMailList",
     "WotlkGuildBankList", "WotlkGuildEvent", "WotlkUpdate", "LogonRealmList",
     "LogonRealmListVanilla"}
MCBounded == DOMAIN MCLayouts \ MCTrusting

\* The members of a guild are as many as four bytes say, in 1.12 alone; the other
\* counts that are trusted have a cap, or are of one or two bytes.
MCLimited == DOMAIN MCLayouts \ {"ClassicGuildRoster"}

MCOwn == {"Session112OwnMovement", "Session335OwnMovement"}

-----------------------------------------------------------------------------
\* The outlines of a layout, from its first note on.  What two ways agree in:
Join(m, n) == [m EXCEPT !.left = Smaller(m.left, n.left), !.late = Late(m) \/ Late(n),
                        !.lost = m.lost \/ n.lost]
\* Nothing comes behind an item that leaves.
Never(m) == [m EXCEPT !.left = 1000, !.late = FALSE, !.lost = FALSE]

RECURSIVE Breaks(_)
Breaks(layout) ==
    \E i \in DOMAIN layout :
        LET it == layout[i] IN
        \/ it.op \in {"guard", "needeach", "fullguid", "leave"} /\ it.else = "break"
        \/ it.op \in {"ifleft", "if", "has", "oneof"} /\ \E part \in Parts(it) : Breaks(part)

RECURSIVE Notes(_, _), Lasting(_, _, _)
Last(layout, m) == Notes(layout, m)[Len(layout) + 1]
Behind(it, m) ==
    LET loop(n, cut) ==
            LET left  == Breaks(it.body)
                b     == Lasting(n, it.body, InLoop(m, left))
                after == [InLoop(b, m.inLoop) EXCEPT !.lost = b.lost \/ cut \/ left]
            IN  IF left THEN Spent(after, Late(after)) ELSE after
    IN  CASE it.op \in {"read", "field", "bits"} -> Took(m, it.n)
          [] it.op = "guid"     -> Took(m, 9)
          [] it.op = "text"     -> Spent(m, Late(m))
          [] it.op = "bytes"    -> Spent(m, TRUE)
          [] it.op = "guard"    -> Has(m, it.n)
          [] it.op = "needeach" -> Has(m, it.k)
          [] it.op = "fullguid" -> Spent(m, FALSE)
          [] it.op = "leave"    -> Never(m)
          [] it.op = "ifleft"   -> Join(Last(it.a, Has(m, it.n)), Last(it.b, m))
          [] it.op = "if"       -> Join(Last(it.a, m), Last(it.b, m))
          [] it.op = "has"      -> Join(Last(it.a, m), m)
          [] it.op = "oneof"    ->
                 FoldSet(LAMBDA c, n : Join(Last(c, m), n), Never(m), Parts(it))
          [] it.op = "times"    -> loop(0, it.cap # NoCap)
          [] it.op = "loop"     -> loop(0, it.more)
          [] it.op = "while"    -> loop(it.n, FALSE)
          [] it.op = "try"      ->
                 Join(Last(it.b, Spent(m, FALSE)), Last(it.a, Tried(m, it.back)))
          [] it.op = "lost"     -> [m EXCEPT !.lost = TRUE]
          [] OTHER              -> m
Notes(layout, m) ==
    IF layout = <<>> THEN <<m>>
    ELSE <<m>> \o Notes(Tail(layout), Behind(Head(layout), m))
\* What every turn of a loop keeps.
Lasting(n, body, m) ==
    LET b == Join(m, Last(body, Has(m, n))) IN IF b = m THEN m ELSE Lasting(n, body, b)

RECURSIVE Outline(_, _)
PartsOutlined(it, m) ==
    LET loop(n) == LET b == Lasting(n, it.body, InLoop(m, Breaks(it.body)))
                   IN  {[layout |-> <<>>, notes |-> <<b>>]} \cup Outline(it.body, Has(b, n))
    IN  CASE it.op = "ifleft" -> Outline(it.a, Has(m, it.n)) \cup Outline(it.b, m)
          [] it.op \in {"if", "has", "oneof"} -> UNION {Outline(part, m) : part \in Parts(it)}
          [] it.op = "times"  -> loop(0)
          [] it.op = "loop"   -> loop(0)
          [] it.op = "while"  -> loop(it.n)
          [] it.op = "try"    -> Outline(it.a, Tried(m, it.back)) \cup Outline(it.b, Spent(m, FALSE))
          [] OTHER            -> {}
Outline(layout, m) ==
    LET g == Notes(layout, m)
    IN  {[layout |-> layout, notes |-> g]}
        \cup UNION {PartsOutlined(layout[i], g[i]) : i \in DOMAIN layout}

\* The pairs that a writer and its reader go through.
RECURSIVE Paired(_)
Paired(p) ==
    LET it == p.left[1]
        on(named) == [p EXCEPT !.left = Tail(@), !.read = Tail(@), !.named = named]
        past == [on(p.named) EXCEPT !.chosen = TRUE]
        part == [past EXCEPT !.left = it.a \o @, !.read = p.read[1].a \o @]
    IN  {p} \cup
        CASE p.left = <<>> \/ p.read = <<>> -> {}
          [] it.op = "sent"    -> {}
          [] it.op = "putguid" -> Paired(on(p.named \cup {it.f}))
          [] it.op = "has"     -> Paired(past) \cup Paired(part)
          [] OTHER             -> Paired(on(p.named))
\* What comes behind the end of the packet reads it.
ReaderOf(layout) ==
    LET at == CHOOSE i \in DOMAIN layout : layout[i].op = "sent"
    IN  SubSeq(layout, at + 1, Len(layout))
PairsOf(layout) ==
    Paired([left |-> layout, reader |-> ReaderOf(layout), read |-> ReaderOf(layout),
            named |-> {}, chosen |-> FALSE])

\* The parsers that the theorems speak of: those whose lists ask for every entry,
\* those that are known to have read no number past the end, and those that read
\* what their client wrote.  They are nine in ten of the parsers that are checked
\* for the same.
MCAsked == {l \in Bounded : AskedLists(ItemsOf(Layouts[l]))}
MCDisciplined ==
    {l \in Strict : LET O == Outline(Layouts[l], Start)
                    IN  Outlines(O, Items) /\ Disciplined(O, Layouts[l])}
MCMirrored ==
    {l \in Own : LET M == PairsOf(Layouts[l]) IN Pairs(M, Items) /\ Mirrored(M, Layouts[l])}
ASSUME TheoremsApply ==
    /\ 10 * Cardinality(MCAsked) >= 9 * Cardinality(Bounded)
    /\ 10 * Cardinality(MCDisciplined) >= 9 * Cardinality(Strict)
    /\ MCMirrored # {}

=============================================================================
