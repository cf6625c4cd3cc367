---------------------------- MODULE PacketReader ----------------------------
(***************************************************************************)
(* network::Packet read by a parser (extension/wowee/src/network/          *)
(* packet.cpp, include/network/packet.hpp): a cursor over bytes that never *)
(* fails.  A read past the end yields zeros, so whatever a parser does not *)
(* ask for first it may make up, and a loop that counts without asking     *)
(* goes on for as long as the count says.                                  *)
(*                                                                         *)
(* The length of the packet is decided as late as possible: sure is what   *)
(* certainly remains, and end says that no more does.  So one behaviour    *)
(* stands for all lengths that the parser cannot tell apart, and lengths   *)
(* need no bound.  A parser that is tried after another one has failed     *)
(* forgets what that one learned of the length: it meets more packets than *)
(* in the program, never fewer.  Of a loop over many entries the first     *)
(* MaxEntries are read one by one; then the packet ends, or holds all the  *)
(* others too.                                                             *)
(***************************************************************************)
EXTENDS PacketLayout, FiniteSetsExt

CONSTANTS
    Layouts,      \* the parsers: a layout for each name
    Items,        \* what these layouts and their parts are made of
    Strict,       \* those that ask for every number before they read it
    Bounded,      \* those that ask for every entry of a list
    Limited,      \* those that ask, or limit how many entries they make up
    Own,          \* those of a packet this client wrote, written first
    GuidSizes,    \* bytes a packed guid takes, its mask among them
    TextSizes,    \* bytes a string takes, its terminator among them
    MaxEntries    \* bound: entries of a loop read one by one

ASSUME LayoutsAssumption ==
    /\ (Strict \cup Bounded \cup Limited \cup Own) \subseteq DOMAIN Layouts
    /\ Items \subseteq Kinds(Items)
    /\ \A l \in DOMAIN Layouts : Layouts[l] \in Seq(Items)
    /\ GuidSizes \subseteq 1 .. 9 /\ 1 \in GuidSizes
    /\ TextSizes \subseteq Nat \ {0}
    /\ MaxEntries \in Nat \ {0}

VARIABLES
    name,         \* the parser
    todo,         \* what is left of its layout
    sure, end,    \* the bytes that remain, and whether these are all
    vals,         \* the counts still to be used
    bits,         \* the flags that announce a part
    skew,         \* the cursor is not where a field begins
    wrong,        \* a field was read that is not what the sender wrote
    marks,        \* where the parsers began that may be retried
    outcome       \* "reading", "accepted", "refused"

vars == <<name, todo, sure, end, vals, bits, skew, wrong, marks, outcome>>

Larger(a, b)  == IF a > b THEN a ELSE b
Smaller(a, b) == IF a < b THEN a ELSE b

Item == Head(todo)
Rest == Tail(todo)
At(ops) == outcome = "reading" /\ todo # <<>> /\ Item.op \in ops
Top  == marks[Len(marks)]
Below == SubSeq(marks, 1, Len(marks) - 1)

Going == UNCHANGED <<name, outcome>>
Kept  == UNCHANGED <<skew, wrong, marks>>

\* A count that has been used is gone.
Val(f)     == IF f \in DOMAIN vals THEN vals[f] ELSE 0
With(f, v) == [g \in DOMAIN vals \cup {f} |-> IF g = f THEN v ELSE vals[g]]
Without(f) == [g \in DOMAIN vals \ {f} |-> vals[g]]

\* Where the loop under way ends, and where the parser under way returns to.
Turns   == {i \in DOMAIN todo : todo[i].op \in {"loop", "while"} /\ todo[i].t > 0}
Returns == {i \in DOMAIN todo : todo[i].op = "done"}
After(S) == IF S = {} THEN <<>> ELSE SubSeq(todo, Min(S) + 1, Len(todo))

\* Mistake: the cursor is not kept from passing the end.
TakeBeyond(n, asFar) ==
    /\ sure' = sure - n
    /\ wrong' = (wrong \/ skew)
    /\ UNCHANGED <<end, skew, marks>>

\* The cursor moves over n bytes, or over as many as there are; asFar is
\* whether what is there will do.
TakeAs(n, asFar) ==
    \E got \in IF sure >= n THEN {n} ELSE IF end THEN {sure} ELSE {sure, n} :
        /\ sure' = Larger(sure - n, 0)
        /\ end' = (end \/ got < n)
        /\ wrong' = (wrong \/ skew \/ (~asFar /\ got < n))
        /\ UNCHANGED <<skew, marks>>
Take(n) == TakeAs(n, FALSE)

\* return false, with left bytes to go, certainly all if over: to the caller,
\* or to the parser that is tried now, from where this one began or stopped.
Refused(left, over) ==
    IF marks = <<>>
    THEN /\ outcome' = "refused"
         /\ todo' = <<>> /\ sure' = 0 /\ vals' = <<>> /\ bits' = {}
         /\ end' = TRUE
         /\ UNCHANGED <<skew, wrong, marks>>
    ELSE /\ todo' = Top.other
         /\ sure' = IF Top.back THEN 0 ELSE left
         /\ end' = (over /\ ~Top.back)
         /\ vals' = Top.vals /\ skew' = Top.skew
         /\ wrong' = IF Top.back THEN Top.wrong ELSE wrong
         /\ marks' = Below
         /\ UNCHANGED <<bits, outcome>>

\* How a parser leaves what it is doing, with left bytes to go.  A loop that
\* is left early leaves the cursor where its last entry began.
Leaves(else, left, over) ==
    \/ else = "refuse" /\ Refused(left, over)
    \/ /\ else = "fail"
       /\ outcome' = "refused"
       /\ todo' = <<>> /\ sure' = 0 /\ vals' = <<>> /\ bits' = {}
       /\ marks' = <<>>
       /\ end' = TRUE
       /\ UNCHANGED <<skew, wrong>>
    \/ /\ else = "accept"
       /\ todo' = IF marks = <<>> THEN <<>>
                  ELSE <<[op |-> "done"]>> \o After(Returns)
       /\ sure' = left /\ end' = over
       /\ Kept /\ UNCHANGED <<vals, bits, outcome>>
    \/ /\ else = "break"
       /\ todo' = After(Turns)
       /\ sure' = left /\ end' = over
       /\ skew' = TRUE
       /\ UNCHANGED <<vals, bits, wrong, marks, outcome>>

\* hasRemaining(n) is true; or it is false, and so many bytes are all there is.
HasLeft(n) ==
    /\ n <= sure \/ ~end
    /\ sure' = Larger(sure, n)
    /\ UNCHANGED end
Lacks(n) == {left \in sure .. n - 1 : end => left = sure}
\* One that refuses the packet need not say what is left.
Lacking(n, else) ==
    IF else = "refuse" /\ (marks = <<>> \/ Top.back)
    THEN Lacks(n) \cap {sure} ELSE Lacks(n)

-----------------------------------------------------------------------------
\* readUInt8() and the like, of fields the parser does not decide by.
ReadBytes ==
    /\ At({"read"})
    /\ Take(Item.n)
    /\ todo' = Rest
    /\ Going /\ UNCHANGED <<vals, bits>>

\* A field is zero past the end, what was sent where that is known, and
\* anything else otherwise.
Zeros == end /\ sure = 0

ReadField ==
    /\ At({"field"})
    /\ \E v \in IF Zeros THEN {0} ELSE IF name \in Own THEN {Val(Item.f)}
               ELSE Item.v :
           vals' = With(Item.f, v)
    /\ Take(Item.n)
    /\ todo' = Rest
    /\ Going /\ UNCHANGED bits

ReadFlags ==
    /\ At({"bits"})
    /\ bits' \in IF Zeros THEN {{}} ELSE IF name \in Own THEN {bits}
                ELSE SUBSET Item.v
    /\ Take(Item.n)
    /\ todo' = Rest
    /\ Going /\ UNCHANGED vals

\* readPackedGuid(): the mask says how many bytes follow it.
ReadGuid ==
    /\ At({"guid", "guidof"})
    /\ \E n \in IF Zeros THEN {1}
                ELSE IF Item.op = "guidof" THEN {Val(Item.f)} ELSE GuidSizes :
           Take(n)
    /\ todo' = Rest
    /\ Going /\ UNCHANGED <<vals, bits>>

\* readString(): up to the terminator or to the end of the packet.
ReadText ==
    /\ At({"text"})
    /\ \E n \in IF Zeros THEN {1} ELSE TextSizes : TakeAs(n, TRUE)
    /\ todo' = Rest
    /\ Going /\ UNCHANGED <<vals, bits>>

\* Entries read or skipped at once.  The largest counts stand for any count
\* from Plenty on.
Plenty == 8
ReadMany ==
    /\ At({"bytes"})
    /\ Take(Smaller(Val(Item.f), Plenty) * Item.n)
    /\ todo' = Rest
    /\ vals' = Without(Item.f)
    /\ Going /\ UNCHANGED bits

\* hasRemaining(), or the same asked for a count of entries.
Asked == IF Item.op = "guard" THEN Item.n
         ELSE Smaller(Val(Item.f), Plenty) * Item.n + Item.k
Guard ==
    /\ At({"guard", "needeach"})
    /\ \/ /\ HasLeft(Asked)
          /\ todo' = Rest
          /\ Kept /\ UNCHANGED <<vals, bits, outcome>>
       \/ \E left \in Lacking(Asked, Item.else) : Leaves(Item.else, left, TRUE)
    /\ UNCHANGED name

\* hasFullPackedGuid(), then readPackedGuid().
GuardGuid ==
    /\ At({"fullguid"})
    /\ \E n \in GuidSizes :
           \/ /\ n <= sure \/ ~end
              /\ sure' = Larger(sure, n) - n
              /\ wrong' = (wrong \/ skew)
              /\ todo' = Rest
              /\ UNCHANGED <<end, vals, bits, skew, marks, outcome>>
           \/ \E left \in Lacking(n, Item.else) : Leaves(Item.else, left, TRUE)
    /\ UNCHANGED name

Leave ==
    /\ At({"leave"})
    /\ Leaves(Item.else, sure, end)
    /\ UNCHANGED name

\* if (hasRemaining(n)) a else b
BranchOnLeft ==
    /\ At({"ifleft"})
    /\ \/ HasLeft(Item.n) /\ todo' = Item.a \o Rest
       \/ /\ \E left \in Lacks(Item.n) : sure' = left
          /\ end' = TRUE
          /\ todo' = Item.b \o Rest
    /\ Going /\ Kept /\ UNCHANGED <<vals, bits>>

\* if, switch: by a count, by flags both sides know, or by a value left out.
Branch ==
    /\ At({"if", "has", "oneof"})
    /\ \E part \in
           CASE Item.op = "if"  -> {IF Val(Item.f) \in Item.v THEN Item.a ELSE Item.b}
             [] Item.op = "has" -> {IF bits \cap Item.v # {} THEN Item.a ELSE <<>>}
             [] OTHER           -> {Item.cases[i] : i \in DOMAIN Item.cases} :
           todo' = part \o Rest
    /\ Going /\ Kept /\ UNCHANGED <<sure, end, vals, bits>>

-----------------------------------------------------------------------------
\* for (i = 0; i < count && i < cap; ++i)
LoopBegin ==
    /\ At({"times"})
    /\ LET n == Larger(Val(Item.f) - Item.less, 0) IN
       todo' = <<Turn(Smaller(n, Item.cap), 0, Item.cap # NoCap /\ n > Item.cap, TRUE,
                      Item.body)>> \o Rest
    /\ vals' = Without(Item.f)
    /\ Going /\ Kept /\ UNCHANGED <<sure, end, bits>>

\* Past the end the turns are alike, and all but one are passed over; but
\* not those of a count that nothing bounds.
LoopTurn ==
    /\ At({"loop"}) /\ Item.k > 0
    /\ Item.t < MaxEntries \/ end
    /\ LET left == IF Item.k = NoCap THEN NoCap
                   ELSE IF Zeros THEN 0 ELSE Item.k - 1
           t == Smaller(Item.t + 1, MaxEntries)
           next == [Item EXCEPT !.k = left, !.t = t, !.dry = Item.sent /\ Zeros]
       IN  todo' = Item.body \o <<next>> \o Rest
    /\ Going /\ Kept /\ UNCHANGED <<sure, end, vals, bits>>

\* The packet ends here, or holds every entry that is left to read.
LoopMany ==
    /\ At({"loop"}) /\ Item.k > 0
    /\ Item.t = MaxEntries /\ ~end
    /\ \/ end' = TRUE /\ UNCHANGED todo
       \/ /\ Item.k # NoCap
          /\ todo' = <<[Item EXCEPT !.k = 0]>> \o Rest
          /\ UNCHANGED end
    /\ Going /\ Kept /\ UNCHANGED <<sure, vals, bits>>

LoopEnd ==
    /\ At({"loop"}) /\ Item.k = 0
    /\ todo' = Rest
    /\ skew' = (skew \/ Item.more)
    /\ Going /\ UNCHANGED <<sure, end, vals, bits, wrong, marks>>

\* while (hasRemaining(n))
WhileTurn ==
    /\ At({"while"})
    /\ \/ /\ Item.t < MaxEntries \/ end
          /\ HasLeft(Item.n)
          /\ todo' = Item.body \o
                 <<[Item EXCEPT !.t = Smaller(@ + 1, MaxEntries)]>> \o Rest
       \/ /\ \E left \in Lacks(Item.n) : sure' = left
          /\ end' = TRUE
          /\ todo' = Rest
    /\ Going /\ Kept /\ UNCHANGED <<vals, bits>>

-----------------------------------------------------------------------------
\* A parser that another one is tried after, from the same byte, or whose
\* failure does not matter.
Try ==
    /\ At({"try"})
    /\ marks' = Append(marks, [other |-> Item.b \o Rest,
                               back |-> Item.back, vals |-> vals,
                               skew |-> skew, wrong |-> wrong])
    /\ todo' = Item.a \o <<[op |-> "done"]>> \o Rest
    /\ Going /\ UNCHANGED <<sure, end, vals, bits, skew, wrong>>

Done ==
    /\ At({"done"})
    /\ todo' = Rest
    /\ marks' = Below
    /\ Going /\ UNCHANGED <<sure, end, vals, bits, skew, wrong>>

Lose ==
    /\ At({"lost"})
    /\ todo' = Rest /\ skew' = TRUE
    /\ Going /\ UNCHANGED <<sure, end, vals, bits, wrong, marks>>

\* return true
Finish ==
    /\ outcome = "reading" /\ todo = <<>>
    /\ outcome' = "accepted"
    /\ UNCHANGED <<name, todo, sure, end, vals, bits, skew, wrong, marks>>

-----------------------------------------------------------------------------
\* writeUInt8() and the like, and the end of the packet.
Write ==
    /\ At({"put", "putbits", "putguid"})
    /\ \/ /\ Item.op = "put"
          /\ sure' = sure + Item.n
          /\ UNCHANGED <<vals, bits>>
       \/ /\ Item.op = "putbits"
          /\ sure' = sure + Item.n
          /\ bits' \in SUBSET Item.v /\ UNCHANGED vals
       \/ /\ Item.op = "putguid"
          /\ \E n \in GuidSizes : sure' = sure + n /\ vals' = With(Item.f, n)
          /\ UNCHANGED bits
    /\ todo' = Rest
    /\ Going /\ Kept /\ UNCHANGED end

Send ==
    /\ At({"sent"})
    /\ end' = TRUE
    /\ todo' = Rest
    /\ Going /\ Kept /\ UNCHANGED <<sure, vals, bits>>

-----------------------------------------------------------------------------
Init ==
    /\ name \in DOMAIN Layouts
    /\ todo = Layouts[name]
    /\ sure = 0 /\ end = FALSE
    /\ vals = <<>> /\ bits = {}
    /\ skew = FALSE /\ wrong = FALSE
    /\ marks = <<>>
    /\ outcome = "reading"

Next ==
    \/ ReadBytes \/ ReadField \/ ReadFlags \/ ReadGuid \/ ReadText \/ ReadMany
    \/ Guard \/ GuardGuid \/ Leave \/ BranchOnLeft \/ Branch
    \/ LoopBegin \/ LoopTurn \/ LoopMany \/ LoopEnd \/ WhileTurn
    \/ Try \/ Done \/ Lose \/ Finish
    \/ Write \/ Send

\* A parser runs to its end: nothing on the main thread interrupts it.
Spec == Init /\ [][Next]_vars /\ WF_vars(Next)

-----------------------------------------------------------------------------
\* What may be left to do: items of I, loops under way, and the
\* ends of parsers that another one is tried after.
Pending(I) ==
    I \cup Loops(I, Nat, BOOLEAN) \cup Whiles(I, Nat) \cup {[op |-> "done"]}

Left == Pending(Items)

Counts(v) == \A f \in DOMAIN v : v[f] \in Nat

TypeOK ==
    /\ name \in DOMAIN Layouts
    /\ todo \in Seq(Left)
    /\ sure \in Nat /\ end \in BOOLEAN
    /\ Counts(vals)
    /\ skew \in BOOLEAN /\ wrong \in BOOLEAN
    /\ \A i \in DOMAIN marks :
           /\ marks[i].other \in Seq(Left) /\ Counts(marks[i].vals)
           /\ marks[i].back \in BOOLEAN /\ marks[i].skew \in BOOLEAN
           /\ marks[i].wrong \in BOOLEAN
    /\ outcome \in {"reading", "accepted", "refused"}

\* A parser that asks before it reads never accepts a packet with a number
\* that the sender did not write: not when the packet is cut at any byte,
\* whichever optional parts its flags announce, and not when a count is
\* larger than the parser's own limit.  A string may be cut short.
AcceptedIsWhole ==
    outcome = "accepted" /\ name \in Strict => ~wrong

\* A list never gets an entry of which no byte was sent, whatever its count
\* says: the next turn is not reached by one that began past the end.  The
\* bytes of a text or of a key are no entries.
EntriesAreSent ==
    At({"loop"}) /\ name \in Bounded => ~Item.dry

\* What this client writes, it reads: every field that its flags announce,
\* and to the last byte.
OwnPacketsReadWhole ==
    name \in Own /\ outcome # "reading" =>
        outcome = "accepted" /\ ~wrong /\ sure = 0

\* No count of four bytes in a packet keeps a parser busy after the bytes have
\* run out.
ParseEnds == <>(outcome # "reading" \/ name \notin Limited)

=============================================================================
