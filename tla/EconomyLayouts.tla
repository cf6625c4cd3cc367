--------------------------- MODULE EconomyLayouts ---------------------------
(***************************************************************************)
(* Flight masters, mail, guild banks and auctions                          *)
(* (extension/wowee/src/game/world_packets_economy.cpp).                   *)
(***************************************************************************)
EXTENDS SharedLayouts

\* As many words of the mask as there are, up to its size.
TaxiMaskSize == 12
ShowTaxiNodes == <<Need(20), Read(16), Repeat(TaxiMaskSize, <<OrBreak(4), Read(4)>>)>>

ActivateTaxiReply == <<IfLeft(4, <<Read(4)>>, Ask(1))>>

\* PacketParsers::parseMailList().  A player's guid is longer than the least
\* that an entry is checked for; the attachments are asked for one by one.
MailList ==
    <<Need(5), Read(4), Count("shown", 1),
      Times("shown", NoCap,
            <<OrBreak(42), Read(7), OneOf(<< <<Read(8)>>, <<Read(4)>> >>), Read(28),
              Text, Text, Count("attached", 1),
              If("attached", {0}, <<>>,
                 <<OrElse(<<Times("attached", NoCap, Ask(118))>>, <<Break>>)>>)>>)>>

-----------------------------------------------------------------------------
\* resize() makes every tab there is said to be.
GuildBankTab == <<IfLeft(1, <<Text, MaybeText>>, <<>>)>>

\* The enchantments of an item that are cut off are left out, and what comes
\* after them is read all the same.
GuildBankSlot ==
    <<OrBreak(5), Read(5),
      Opt(<<OrBreak(4), Read(4), Repeat(10, <<Opt(<<OrBreak(12), Read(12)>>)>>),
            OrBreak(12), Read(12), Opt(<<OrBreak(4), Read(4)>>)>>)>>
GuildBankList ==
    <<Need(14), Read(14),
      Opt(<<IfLeft(1, <<Count("tabs", 1), Times("tabs", 8, GuildBankTab)>>, <<>>)>>),
      Enough(1), Count("slots", 1), Times("slots", NoCap, GuildBankSlot)>>

AuctionHello == Ask(12) \o <<Maybe(1)>>

\* An item has one enchantment in 1.12, of one word, and several of three later.
AuctionListResult(enchantments) ==
    LET entry == IF enchantments = 1 THEN 64 ELSE 64 + 12 * enchantments IN
    <<Need(4), Count("count", 4),
      Times("count", 256, <<OrBreak(entry), Read(entry)>>), Maybe(4), Maybe(4)>>

AuctionCommandResult == Ask(12) \o <<Opt(<<Maybe(4)>>)>>

=============================================================================
