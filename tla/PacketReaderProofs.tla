------------------------- MODULE PacketReaderProofs -------------------------
(***************************************************************************)
(* What is true of network::Packet under every parser that can be written  *)
(* as a layout: the types, and that a list whose entries are asked for     *)
(* gets no entry of which no byte was sent.                                *)
(*                                                                         *)
(* Nothing here depends on which layouts there are.  A set P of items is   *)
(* closed if the parts of its items, and the loops these become when they  *)
(* are under way, are in it as well; what is left to do stays in P then.   *)
(***************************************************************************)
EXTENDS PacketReader, PacketDiscipline, SequenceTheorems, WellFoundedInduction, TLAPS

\* Counts by the names of their fields.
Vals == UNION {[D -> Nat] : D \in SUBSET STRING}
Mark(P) == [other : Seq(P), back : BOOLEAN, vals : Vals, skew : BOOLEAN,
            wrong : BOOLEAN]

\* All but what is left to do.
Framed(P) ==
    /\ name \in DOMAIN Layouts
    /\ sure \in Nat /\ end \in BOOLEAN
    /\ vals \in Vals
    /\ skew \in BOOLEAN /\ wrong \in BOOLEAN
    /\ marks \in Seq(Mark(P))
    /\ outcome \in {"reading", "accepted", "refused"}

Typed(P) == Framed(P) /\ todo \in Seq(P)

\* The fields of an item, with its parts in P.
Fits(P, it) ==
    /\ it.op \in {"read", "put", "field", "guard", "needeach", "ifleft",
                  "while", "bytes", "bits", "putbits"} => it.n \in Nat
    /\ it.op = "needeach" => it.k \in Nat
    /\ it.op = "field" => it.v \subseteq Nat /\ it.f \in STRING
    /\ it.op \in {"putguid", "guidof"} => it.f \in STRING
    /\ it.op \in {"ifleft", "if", "try"} => it.a \in Seq(P) /\ it.b \in Seq(P)
    /\ it.op = "has" => it.a \in Seq(P)
    /\ it.op = "oneof" => it.cases \in Seq(Seq(P))
    /\ it.op = "try" => it.back \in BOOLEAN
    /\ it.op = "times" =>
           /\ it.less \in Nat /\ it.cap \in Nat
           /\ \A k \in Nat, more \in BOOLEAN : Turn(k, 0, more, TRUE, it.body) \in P
    /\ it.op = "loop" =>
           it.k \in Nat /\ it.t \in Nat /\ [it EXCEPT !.k = 0] \in P
    /\ it.op = "while" =>
           /\ it.t \in Nat /\ it.body \in Seq(P)
           /\ \A t \in Nat : [it EXCEPT !.t = t] \in P
Closed(P) == [op |-> "done"] \in P /\ \A it \in P : Fits(P, it)

\* What each item of a layout looks like.
LEMMA Shapes ==
    ASSUME NEW I, NEW it \in Kinds(I)
    PROVE  /\ it.op \in {"read", "put", "field", "guard", "needeach", "ifleft",
                         "while", "bytes", "bits", "putbits"} => it.n \in Nat
           /\ it.op = "needeach" => it.k \in Nat
           /\ it.op = "field" => it.v \subseteq Nat /\ it.f \in STRING
           /\ it.op \in {"putguid", "guidof"} => it.f \in STRING
           /\ it.op \in {"ifleft", "if", "try"} => it.a \in Seq(I) /\ it.b \in Seq(I)
           /\ it.op = "has" => it.a \in Seq(I)
           /\ it.op = "oneof" => it.cases \in Seq(Seq(I))
           /\ it.op \in {"times", "loop", "while"} => it.body \in Seq(I)
           /\ it.op = "times" => it.less \in Nat /\ it.cap \in Nat
           /\ it.op = "try" => it.back \in BOOLEAN
           /\ it.op = "loop" => it \in Loops(I, {0}, {FALSE})
           /\ it.op = "while" => it \in Whiles(I, {0})
           /\ it.op # "done"
  BY DEF Kinds, Loops, Whiles

\* A fresh loop is one of those that may be under way.
LEMMA FreshLoops ==
    ASSUME NEW I
    PROVE  /\ Loops(I, {0}, {FALSE}) \subseteq Loops(I, Nat, BOOLEAN)
           /\ Whiles(I, {0}) \subseteq Whiles(I, Nat)
  <1>1. ASSUME NEW x \in Loops(I, {0}, {FALSE}) PROVE x \in Loops(I, Nat, BOOLEAN)
    <2>1. /\ x = [op |-> x.op, k |-> x.k, t |-> x.t, more |-> x.more, sent |-> x.sent,
                  dry |-> x.dry, body |-> x.body]
          /\ x.op \in {"loop"} /\ x.k \in Nat /\ x.t \in {0} /\ x.more \in BOOLEAN
          /\ x.sent \in BOOLEAN /\ x.dry \in {FALSE} /\ x.body \in Seq(I)
      BY <1>1 DEF Loops
    <2>2. x.t \in Nat
      <3>1. x.t = 0
        BY <2>1, Zenon
      <3>. QED  BY <3>1
    <2>3. x.dry \in BOOLEAN
      BY <2>1, Zenon
    <2>. QED  BY <2>1, <2>2, <2>3, Zenon DEF Loops
  <1>2. Whiles(I, {0}) \subseteq Whiles(I, Nat)
    BY DEF Whiles
  <1>. QED  BY <1>1, <1>2

\* The items of layouts, with loops under way from a set L that has those which
\* the items become.
LEMMA PendingClosed ==
    ASSUME NEW I, I \subseteq Kinds(I), NEW L \in SUBSET Loops(I, Nat, BOOLEAN),
           NEW P, P = I \cup L \cup Whiles(I, Nat) \cup {[op |-> "done"]},
           \A x \in L : [x EXCEPT !.k = 0] \in L,
           \A x \in I : x.op = "loop" => x \in L,
           \A x \in I : x.op = "times" =>
               \A k \in Nat, more \in BOOLEAN : Turn(k, 0, more, TRUE, x.body) \in L
    PROVE  Closed(P)
  <1>. SUFFICES ASSUME NEW it \in P
                PROVE  Fits(P, it)
    BY DEF Closed
  <1>2. Seq(I) \subseteq Seq(P) /\ Seq(Seq(I)) \subseteq Seq(Seq(P)) /\ L \subseteq P
    OBVIOUS
  <1>4. ASSUME NEW x \in Whiles(I, Nat), NEW t \in Nat
        PROVE  [x EXCEPT !.t = t] \in P
    BY <1>4 DEF Whiles
  <1>6. CASE it \in I
    <2>1. it \in Kinds(I)
      BY <1>6
    <2>2. it.op = "loop" => it \in L /\ it.k \in Nat /\ it.t \in Nat
      BY <1>6 DEF Loops
    <2>3. it.op = "while" => it \in Whiles(I, Nat)
      BY <2>1, Shapes, FreshLoops
    <2>5. it.op = "while" => it.t \in Nat
      BY <2>3 DEF Whiles
    <2>6. it.op = "times" =>
              \A k \in Nat, more \in BOOLEAN : Turn(k, 0, more, TRUE, it.body) \in P
      BY <1>2, <1>6
    <2>7. it.op = "loop" => [it EXCEPT !.k = 0] \in P
      BY <1>2, <2>2
    <2>. QED  BY <1>2, <1>4, <2>1, <2>2, <2>3, <2>5, <2>6, <2>7, Shapes DEF Fits
  <1>7. CASE it \in L
    <2>1. it.op = "loop" /\ it.k \in Nat /\ it.t \in Nat
      BY <1>7 DEF Loops
    <2>. QED  BY <1>2, <1>7, <2>1 DEF Fits
  <1>8. CASE it \in Whiles(I, Nat)
    <2>1. it.op = "while" /\ it.n \in Nat /\ it.t \in Nat /\ it.body \in Seq(I)
      BY <1>8 DEF Whiles
    <2>. QED  BY <1>2, <1>4, <1>8, <2>1 DEF Fits
  <1>9. CASE it = [op |-> "done"]
    BY <1>9 DEF Fits
  <1>. QED  BY <1>6, <1>7, <1>8, <1>9

LEMMA AllClosed == Closed(Pending(Items))
  <1>. DEFINE L == Loops(Items, Nat, BOOLEAN)
  <1>1. Items \subseteq Kinds(Items)
    BY LayoutsAssumption
  <1>2. ASSUME NEW x \in L PROVE [x EXCEPT !.k = 0] \in L
    BY <1>2 DEF Loops
  <1>3. ASSUME NEW x \in Items, x.op = "loop" PROVE x \in L
    BY <1>1, <1>3, Shapes, FreshLoops
  <1>4. ASSUME NEW x \in Items, x.op = "times", NEW k \in Nat, NEW more \in BOOLEAN
        PROVE  Turn(k, 0, more, TRUE, x.body) \in L
    <2>1. x.body \in Seq(Items)
      BY <1>1, <1>4, Shapes
    <2>. QED  BY <2>1 DEF Turn, Loops
  <1>. HIDE DEF L
  <1>5. Pending(Items) = Items \cup L \cup Whiles(Items, Nat) \cup {[op |-> "done"]}
    BY DEF Pending, L
  <1>6. L \in SUBSET Loops(Items, Nat, BOOLEAN)
    BY DEF L
  <1>. QED  BY <1>1, <1>2, <1>3, <1>4, <1>5, <1>6, PendingClosed

-----------------------------------------------------------------------------
\* Sequences, and the least of a set of positions.
LEMMA Afters ==
    ASSUME NEW P, NEW s \in Seq(P), NEW i \in DOMAIN s
    PROVE  SubSeq(s, i + 1, Len(s)) \in Seq(P)
  OBVIOUS

LEMMA Narrowed ==
    ASSUME NEW S, NEW T, NEW u \in Seq(S), \A j \in 1 .. Len(u) : u[j] \in T
    PROVE  u \in Seq(T)
  OBVIOUS

LEMMA Behind ==
    ASSUME NEW S, NEW a \in Seq(S), NEW b \in Seq(S), NEW x \in S
    PROVE  SubSeq(a \o <<x>> \o b, Len(a) + 2, Len(a \o <<x>> \o b)) = b
  <1>. DEFINE s == a \o <<x>> \o b
              u == SubSeq(s, Len(a) + 2, Len(s))
  <1>1. s \in Seq(S) /\ Len(s) = Len(a) + 1 + Len(b)
        /\ \A j \in 1 .. Len(b) : s[j + Len(a) + 1] = b[j]
    OBVIOUS
  <1>. HIDE DEF s
  <1>2. u \in Seq(S) /\ Len(u) = Len(b)
        /\ \A j \in 1 .. Len(b) : u[j] = s[j + Len(a) + 1]
    BY <1>1
  <1>. HIDE DEF u
  <1>3. u = b
    <2>1. \A j \in 1 .. Len(u) : u[j] = b[j]
      BY <1>1, <1>2
    <2>. QED  BY <1>2, <2>1, SeqEqual
  <1>. QED  BY <1>3 DEF u, s

LEMMA Smallest ==
    ASSUME NEW S \in SUBSET Nat, NEW m \in S
    PROVE  Min(S) \in S /\ \A y \in S : Min(S) <= y
  <1>1. PICK x \in S : \A y \in S : ~(<<y, x>> \in OpToRel(<, Nat))
    BY NatLessThanWellFounded, WFMin
  <1>2. ASSUME NEW y \in S PROVE x <= y
    <2>1. ASSUME y < x PROVE <<y, x>> \in OpToRel(<, Nat)
      <3>. DEFINE p == <<y, x>>
      <3>1. p \in Nat \X Nat /\ p[1] < p[2]
        BY <2>1
      <3>. QED  BY <3>1, Zenon DEF OpToRel
    <2>2. ~(y < x)
      BY <1>1, <2>1, Zenon
    <2>. QED  BY <2>2
  <1>. QED  BY <1>2 DEF Min

LEMMA NoVals == <<>> \in Vals
  <1>1. <<>> \in [{} -> Nat]
    OBVIOUS
  <1>. QED  BY <1>1 DEF Vals

LEMMA ValsKept ==
    ASSUME vals \in Vals
    PROVE  /\ \A f : Val(f) \in Nat /\ Without(f) \in Vals
           /\ \A f \in STRING, v \in Nat : With(f, v) \in Vals
  <1>1. PICK D \in SUBSET STRING : vals \in [D -> Nat]
    BY DEF Vals
  <1>2. ASSUME NEW f PROVE Val(f) \in Nat
    BY <1>1 DEF Val
  <1>3. ASSUME NEW f PROVE Without(f) \in Vals
    <2>1. Without(f) \in [D \ {f} -> Nat]
      BY <1>1 DEF Without
    <2>. QED  BY <2>1 DEF Vals
  <1>4. ASSUME NEW f \in STRING, NEW v \in Nat PROVE With(f, v) \in Vals
    <2>1. With(f, v) \in [D \cup {f} -> Nat]
      BY <1>1 DEF With
    <2>2. D \cup {f} \in SUBSET STRING
      OBVIOUS
    <2>. QED  BY <2>1, <2>2 DEF Vals
  <1>. QED  BY <1>2, <1>3, <1>4

-----------------------------------------------------------------------------
\* Types.
LEMMA HeadAndTail ==
    ASSUME NEW P, Closed(P), Typed(P), todo # <<>>
    PROVE  /\ Item \in P /\ Fits(P, Item) /\ Rest \in Seq(P)
           /\ \A s \in Seq(P) : s \o Rest \in Seq(P)
  BY DEF Typed, Framed, Closed, Item, Rest

LEMMA TypedAfter ==
    ASSUME NEW P, Closed(P), Typed(P), NEW S \in SUBSET DOMAIN todo
    PROVE  After(S) \in Seq(P)
  <1>1. CASE S = {}
    BY <1>1 DEF After
  <1>2. CASE S # {}
    <2>1. PICK m \in S : TRUE
      BY <1>2
    <2>2. S \in SUBSET Nat
      BY DEF Typed, Framed
    <2>3. Min(S) \in DOMAIN todo
      BY <2>1, <2>2, Smallest
    <2>. QED  BY <1>2, <2>3, Afters DEF After, Typed, Framed
  <1>. QED  BY <1>1, <1>2

LEMMA TypedTake ==
    ASSUME NEW P, Closed(P), Typed(P), NEW n \in Nat, NEW asFar \in BOOLEAN, TakeAs(n, asFar)
    PROVE  /\ sure' \in Nat /\ end' \in BOOLEAN /\ wrong' \in BOOLEAN
           /\ skew' \in BOOLEAN /\ marks' \in Seq(Mark(P))
  <1>1. sure' \in Nat
    BY DEF Typed, Framed, TakeAs, Larger
  <1>2. end' \in BOOLEAN /\ wrong' \in BOOLEAN
    BY Zenon DEF Typed, Framed, TakeAs
  <1>3. skew' \in BOOLEAN /\ marks' \in Seq(Mark(P))
    BY Zenon DEF Typed, Framed, TakeAs
  <1>. QED  BY <1>1, <1>2, <1>3

LEMMA TypedMarks ==
    ASSUME NEW P, Framed(P)
    PROVE  /\ Below \in Seq(Mark(P))
           /\ marks # <<>> => Top \in Mark(P)
  BY DEF Typed, Framed, Below, Top

\* A parser that leaves goes on with what another one, a loop or a caller does.
LEMMA TypedRefused ==
    ASSUME NEW P, Framed(P), NEW left \in Nat, NEW over \in BOOLEAN,
           Refused(left, over), UNCHANGED name
    PROVE  Typed(P)'
  <1>1. CASE marks = <<>>
    <2>1. /\ outcome' = "refused" /\ todo' = <<>> /\ sure' = 0 /\ vals' = <<>> /\ end' = TRUE
          /\ UNCHANGED <<skew, wrong, marks>>
      BY <1>1 DEF Refused
    <2>. QED  BY <2>1, NoVals DEF Typed, Framed
  <1>2. CASE marks # <<>>
    <2>1. Top \in Mark(P) /\ Below \in Seq(Mark(P))
      BY <1>2, TypedMarks
    <2>2. /\ todo' = Top.other /\ marks' = Below /\ vals' = Top.vals /\ skew' = Top.skew
          /\ UNCHANGED outcome
      BY <1>2 DEF Refused
    <2>3. /\ todo' \in Seq(P) /\ marks' \in Seq(Mark(P)) /\ vals' \in Vals
          /\ skew' \in BOOLEAN
      BY <2>1, <2>2 DEF Mark
    <2>4. sure' \in Nat
      BY <1>2 DEF Refused
    <2>5. end' \in BOOLEAN /\ wrong' \in BOOLEAN
      <3>1. /\ end' = (over /\ ~Top.back)
            /\ wrong' = IF Top.back THEN Top.wrong ELSE wrong
        BY <1>2 DEF Refused
      <3>2. Top.wrong \in BOOLEAN /\ wrong \in BOOLEAN
        BY <2>1, Zenon DEF Mark, Typed, Framed
      <3>. QED  BY <3>1, <3>2, Zenon
    <2>. QED  BY <2>2, <2>3, <2>4, <2>5 DEF Typed, Framed
  <1>. QED  BY <1>1, <1>2

LEMMA TypedLeaves ==
    ASSUME NEW P, Closed(P), Typed(P), NEW else, NEW left \in Nat, NEW over \in BOOLEAN,
           Leaves(else, left, over), UNCHANGED name
    PROVE  Typed(P)'
  <1>1. CASE Refused(left, over)
    BY <1>1, TypedRefused DEF Typed
  <1>2. CASE /\ outcome' = "refused"
             /\ todo' = <<>> /\ sure' = 0 /\ vals' = <<>> /\ bits' = {}
             /\ marks' = <<>>
             /\ end' = TRUE
             /\ UNCHANGED <<skew, wrong>>
    BY <1>2, NoVals DEF Typed, Framed
  <1>3. CASE /\ todo' = IF marks = <<>> THEN <<>>
                        ELSE <<[op |-> "done"]>> \o After(Returns)
             /\ sure' = left /\ end' = over
             /\ Kept /\ UNCHANGED <<vals, bits, outcome>>
    <2>1. [op |-> "done"] \in P
      BY DEF Closed
    <2>2. After(Returns) \in Seq(P)
      BY TypedAfter DEF Returns
    <2>3. todo' \in Seq(P)
      BY <1>3, <2>1, <2>2
    <2>. QED  BY <1>3, <2>3 DEF Typed, Framed, Kept
  <1>4. CASE /\ todo' = After(Turns)
             /\ sure' = left /\ end' = over
             /\ skew' = TRUE
             /\ UNCHANGED <<vals, bits, wrong, marks, outcome>>
    <2>1. After(Turns) \in Seq(P)
      BY TypedAfter DEF Turns
    <2>. QED  BY <1>4, <2>1 DEF Typed, Framed
  <1>. QED  BY <1>1, <1>2, <1>3, <1>4 DEF Leaves

LEMMA TypedInit ==
    ASSUME NEW P, Init, Layouts[name] \in Seq(P)
    PROVE  Typed(P)
  <1>1. vals \in Vals /\ marks \in Seq(Mark(P))
    BY NoVals DEF Init
  <1>. QED  BY <1>1 DEF Init, Typed, Framed

LEMMA Widths ==
    ASSUME NEW c \in Nat, NEW n \in Nat
    PROVE  Smaller(c, Plenty) * n \in Nat
  BY DEF Smaller, Plenty

LEMMA LacksAreCounts ==
    ASSUME NEW P, Closed(P), Typed(P), NEW n \in Nat
    PROVE  Lacks(n) \subseteq Nat /\ \A else : Lacking(n, else) \subseteq Lacks(n)
  BY DEF Lacks, Lacking, Typed, Framed

\* Every step but the turn of a loop, whose loop a smaller set need not have.
LEMMA TypedStep ==
    ASSUME NEW P, Closed(P), Typed(P), [Next]_vars, ~LoopTurn
    PROVE  Typed(P)'
  <1>a. [op |-> "done"] \in P
    BY DEF Closed
  <1>b. \A s \in Seq(P), x \in P : <<x>> \o s \in Seq(P)
    OBVIOUS
  <1>c. GuidSizes \subseteq Nat /\ TextSizes \subseteq Nat /\ MaxEntries \in Nat
    BY LayoutsAssumption
  <1>1. CASE ReadBytes
    <2>1. Item.n \in Nat /\ Rest \in Seq(P)
      BY <1>1, HeadAndTail DEF Fits, ReadBytes, At
    <2>. QED  BY <1>1, <2>1, TypedTake DEF ReadBytes, Take, Going, Typed, Framed
  <1>2. CASE ReadField
    <2>1. Item.n \in Nat /\ Item.v \subseteq Nat /\ Item.f \in STRING /\ Rest \in Seq(P)
      BY <1>2, HeadAndTail DEF Fits, ReadField, At
    <2>2. Val(Item.f) \in Nat
      BY ValsKept DEF Typed, Framed
    <2>3. vals' \in Vals
      BY <1>2, <2>1, <2>2, ValsKept DEF ReadField, Typed, Framed
    <2>. QED  BY <1>2, <2>1, <2>3, TypedTake DEF ReadField, Take, Going, Typed, Framed
  <1>3. CASE ReadFlags
    <2>1. Item.n \in Nat /\ Rest \in Seq(P)
      BY <1>3, HeadAndTail DEF Fits, ReadFlags, At
    <2>. QED  BY <1>3, <2>1, TypedTake DEF ReadFlags, Take, Going, Typed, Framed
  <1>4. CASE ReadGuid
    <2>1. PICK n \in IF Zeros THEN {1}
                     ELSE IF Item.op = "guidof" THEN {Val(Item.f)} ELSE GuidSizes : Take(n)
      BY <1>4 DEF ReadGuid
    <2>2. n \in Nat
      BY <2>1, <1>c, ValsKept DEF Typed, Framed
    <2>3. Rest \in Seq(P)
      BY <1>4, HeadAndTail DEF ReadGuid, At
    <2>. QED  BY <1>4, <2>1, <2>2, <2>3, TypedTake DEF ReadGuid, Take, Going, Typed, Framed
  <1>5. CASE ReadText
    <2>1. PICK n \in IF Zeros THEN {1} ELSE TextSizes : TakeAs(n, TRUE)
      BY <1>5 DEF ReadText
    <2>2. n \in Nat
      BY <2>1, <1>c
    <2>3. Rest \in Seq(P)
      BY <1>5, HeadAndTail DEF ReadText, At
    <2>. QED  BY <1>5, <2>1, <2>2, <2>3, TypedTake DEF ReadText, Going, Typed, Framed
  <1>6. CASE ReadMany
    <2>1. Item.n \in Nat /\ Rest \in Seq(P)
      BY <1>6, HeadAndTail DEF Fits, ReadMany, At
    <2>2. Smaller(Val(Item.f), Plenty) * Item.n \in Nat /\ Without(Item.f) \in Vals
      BY <2>1, ValsKept, Widths DEF Typed, Framed
    <2>. QED  BY <1>6, <2>1, <2>2, TypedTake DEF ReadMany, Take, Going, Typed, Framed
  <1>7. CASE Guard
    <2>1. Rest \in Seq(P)
      BY <1>7, HeadAndTail DEF Guard, At
    <2>2. Asked \in Nat
      <3>1. Item.n \in Nat /\ (Item.op = "needeach" => Item.k \in Nat)
        BY <1>7, HeadAndTail DEF Fits, Guard, At
      <3>2. Smaller(Val(Item.f), Plenty) * Item.n \in Nat
        BY <3>1, ValsKept, Widths DEF Typed, Framed
      <3>3. CASE Item.op = "guard"
        BY <3>1, <3>3 DEF Asked
      <3>4. CASE Item.op = "needeach"
        BY <3>1, <3>2, <3>4 DEF Asked
      <3>. QED  BY <1>7, <3>3, <3>4 DEF Guard, At
    <2>3. CASE /\ HasLeft(Asked)
               /\ todo' = Rest
               /\ Kept /\ UNCHANGED <<vals, bits, outcome>>
      <3>1. sure' \in Nat
        BY <2>2, <2>3 DEF HasLeft, Larger, Typed, Framed
      <3>. QED  BY <1>7, <2>1, <2>3, <3>1 DEF Guard, Kept, HasLeft, Typed, Framed
    <2>4. CASE \E left \in Lacking(Asked, Item.else) : Leaves(Item.else, left, TRUE)
      <3>1. PICK left \in Lacking(Asked, Item.else) : Leaves(Item.else, left, TRUE)
        BY <2>4
      <3>2. left \in Nat
        BY <2>2, LacksAreCounts
      <3>. QED  BY <1>7, <3>1, <3>2, TypedLeaves DEF Guard
    <2>. QED  BY <1>7, <2>3, <2>4 DEF Guard
  <1>8. CASE GuardGuid
    <2>1. Rest \in Seq(P)
      BY <1>8, HeadAndTail DEF GuardGuid, At
    <2>2. PICK n \in GuidSizes :
             \/ /\ n <= sure \/ ~end
                /\ sure' = Larger(sure, n) - n
                /\ wrong' = (wrong \/ skew)
                /\ todo' = Rest
                /\ UNCHANGED <<end, vals, bits, skew, marks, outcome>>
             \/ \E left \in Lacking(n, Item.else) : Leaves(Item.else, left, TRUE)
      BY <1>8 DEF GuardGuid
    <2>3. n \in Nat
      BY <1>c
    <2>4. CASE /\ n <= sure \/ ~end
               /\ sure' = Larger(sure, n) - n
               /\ wrong' = (wrong \/ skew)
               /\ todo' = Rest
               /\ UNCHANGED <<end, vals, bits, skew, marks, outcome>>
      <3>1. sure' \in Nat
        BY <2>3, <2>4 DEF Larger, Typed, Framed
      <3>2. wrong' \in BOOLEAN
        BY <2>4, Zenon
      <3>. QED  BY <1>8, <2>1, <2>4, <3>1, <3>2 DEF GuardGuid, Typed, Framed
    <2>5. CASE \E left \in Lacking(n, Item.else) : Leaves(Item.else, left, TRUE)
      <3>1. PICK left \in Lacking(n, Item.else) : Leaves(Item.else, left, TRUE)
        BY <2>5
      <3>2. left \in Nat
        BY <2>3, LacksAreCounts
      <3>. QED  BY <1>8, <3>1, <3>2, TypedLeaves DEF GuardGuid
    <2>. QED  BY <2>2, <2>4, <2>5
  <1>9. CASE Leave
    BY <1>9, TypedLeaves DEF Leave, Typed, Framed
  <1>10. CASE BranchOnLeft
    <2>1. /\ Item.n \in Nat
          /\ Item.a \o Rest \in Seq(P) /\ Item.b \o Rest \in Seq(P)
      BY <1>10, HeadAndTail DEF Fits, BranchOnLeft, At
    <2>2. sure' \in Nat /\ end' \in BOOLEAN
      BY <1>10, <2>1, LacksAreCounts DEF BranchOnLeft, HasLeft, Larger, Typed, Framed
    <2>. QED  BY <1>10, <2>1, <2>2 DEF BranchOnLeft, Going, Kept, Typed, Framed
  <1>11. CASE Branch
    <2>1. PICK part \in
             CASE Item.op = "if"  -> {IF Val(Item.f) \in Item.v THEN Item.a ELSE Item.b}
               [] Item.op = "has" -> {IF bits \cap Item.v # {} THEN Item.a ELSE <<>>}
               [] OTHER           -> {Item.cases[i] : i \in DOMAIN Item.cases} :
             todo' = part \o Rest
      BY <1>11 DEF Branch
    <2>2. Item.op \in {"if", "has", "oneof"} /\ Fits(P, Item)
      BY <1>11, HeadAndTail DEF Branch, At
    <2>3. part \in Seq(P)
      <3>1. CASE Item.op = "if"
        BY <2>1, <2>2, <3>1 DEF Fits
      <3>2. CASE Item.op = "has"
        <4>1. Item.a \in Seq(P) /\ <<>> \in Seq(P)
          BY <2>2, <3>2 DEF Fits
        <4>2. part \in {IF bits \cap Item.v # {} THEN Item.a ELSE <<>>}
          BY <2>1, <3>2
        <4>. QED  BY <4>1, <4>2
      <3>3. CASE Item.op = "oneof"
        BY <2>1, <2>2, <3>3 DEF Fits
      <3>. QED  BY <2>2, <3>1, <3>2, <3>3
    <2>4. todo' \in Seq(P)
      BY <1>11, <2>1, <2>3, HeadAndTail DEF Branch, At
    <2>. QED  BY <1>11, <2>4 DEF Branch, Going, Kept, Typed, Framed
  <1>12. CASE LoopBegin
    <2>. DEFINE n == Larger(Val(Item.f) - Item.less, 0)
                more == Item.cap # NoCap /\ n > Item.cap
                loop == Turn(Smaller(n, Item.cap), 0, more, TRUE, Item.body)
    <2>1. Item.op = "times" /\ Fits(P, Item) /\ Rest \in Seq(P)
      BY <1>12, HeadAndTail DEF LoopBegin, At
    <2>2. Val(Item.f) \in Nat /\ Without(Item.f) \in Vals
      BY ValsKept DEF Typed, Framed
    <2>3. Item.less \in Nat /\ Item.cap \in Nat
      BY <2>1 DEF Fits
    <2>4. Smaller(n, Item.cap) \in Nat
      BY <2>2, <2>3 DEF Larger, Smaller
    <2>4a. more \in BOOLEAN
      BY Zenon
    <2>5. todo' = <<loop>> \o Rest /\ vals' = Without(Item.f)
      BY <1>12 DEF LoopBegin
    <2>. HIDE DEF n, more
    <2>6. loop \in P
      BY <2>1, <2>4, <2>4a DEF Fits
    <2>. HIDE DEF loop
    <2>7. todo' \in Seq(P) /\ vals' \in Vals
      BY <2>1, <2>2, <2>5, <2>6, <1>b
    <2>. QED  BY <1>12, <2>7 DEF LoopBegin, Going, Kept, Typed, Framed
  <1>14. CASE LoopMany
    <2>1. Item.op = "loop" /\ Fits(P, Item) /\ Rest \in Seq(P)
      BY <1>14, HeadAndTail DEF LoopMany, At
    <2>2. [Item EXCEPT !.k = 0] \in P
      BY <2>1 DEF Fits
    <2>3. todo' \in Seq(P)
      BY <1>14, <2>1, <2>2, <1>b DEF LoopMany, Typed, Framed
    <2>4. end' \in BOOLEAN
      BY <1>14, Zenon DEF LoopMany, Typed, Framed
    <2>. QED  BY <1>14, <2>3, <2>4 DEF LoopMany, Going, Kept, Typed, Framed
  <1>15. CASE LoopEnd
    <2>1. Rest \in Seq(P)
      BY <1>15, HeadAndTail DEF LoopEnd, At
    <2>2. skew' \in BOOLEAN
      BY <1>15, Zenon DEF LoopEnd
    <2>. QED  BY <1>15, <2>1, <2>2 DEF LoopEnd, Going, Typed, Framed
  <1>16. CASE WhileTurn
    <2>1. Item.op = "while" /\ Fits(P, Item) /\ Rest \in Seq(P)
      BY <1>16, HeadAndTail DEF WhileTurn, At
    <2>10. Item.n \in Nat /\ Item.t \in Nat /\ Item.body \in Seq(P)
      BY <2>1 DEF Fits
    <2>. DEFINE next == [Item EXCEPT !.t = Smaller(@ + 1, MaxEntries)]
    <2>2. next \in P
      <3>1. Smaller(Item.t + 1, MaxEntries) \in Nat
        BY <2>10, <1>c DEF Smaller
      <3>. QED  BY <2>1, <3>1 DEF Fits
    <2>. HIDE DEF next
    <2>3. Item.body \o <<next>> \o Rest \in Seq(P)
      BY <2>1, <2>10, <2>2
    <2>4. todo' \in Seq(P) /\ sure' \in Nat /\ end' \in BOOLEAN
      <3>1. CASE HasLeft(Item.n) /\ todo' = Item.body \o <<next>> \o Rest
        BY <2>1, <2>10, <2>3, <3>1 DEF HasLeft, Larger, Typed, Framed
      <3>2. CASE /\ \E left \in Lacks(Item.n) : sure' = left
                 /\ end' = TRUE
                 /\ todo' = Rest
        BY <2>1, <2>10, <3>2, LacksAreCounts
      <3>. QED  BY <1>16, <3>1, <3>2 DEF WhileTurn, next
    <2>. QED  BY <1>16, <2>4 DEF WhileTurn, Going, Kept, Typed, Framed
  <1>17. CASE Try
    <2>1. /\ Item.back \in BOOLEAN /\ Item.a \in Seq(P) /\ Item.b \in Seq(P)
          /\ Rest \in Seq(P) /\ Item.b \o Rest \in Seq(P)
      BY <1>17, HeadAndTail DEF Fits, Try, At
    <2>2. [other |-> Item.b \o Rest, back |-> Item.back, vals |-> vals,
           skew |-> skew, wrong |-> wrong] \in Mark(P)
      BY <2>1 DEF Mark, Typed, Framed
    <2>3. marks' \in Seq(Mark(P))
      BY <1>17, <2>2 DEF Try, Typed, Framed
    <2>4. todo' \in Seq(P)
      BY <1>17, <2>1, <1>a DEF Try
    <2>. QED  BY <1>17, <2>3, <2>4 DEF Try, Going, Typed, Framed
  <1>18. CASE Done
    BY <1>18, HeadAndTail, TypedMarks DEF Done, At, Going, Typed, Framed
  <1>19. CASE Lose
    BY <1>19, HeadAndTail DEF Lose, At, Going, Typed, Framed
  <1>20. CASE Finish
    BY <1>20 DEF Finish, Typed, Framed
  <1>21. CASE Write
    <2>1. /\ Item.op \in {"put", "putbits"} => Item.n \in Nat
          /\ Item.op = "putguid" => Item.f \in STRING
          /\ Rest \in Seq(P)
      BY <1>21, HeadAndTail DEF Fits, Write, At
    <2>2. sure' \in Nat
      <3>1. \/ Item.op \in {"put", "putbits"} /\ sure' = sure + Item.n
            \/ \E n \in GuidSizes : sure' = sure + n
        BY <1>21 DEF Write
      <3>. QED  BY <2>1, <1>c, <3>1 DEF Typed, Framed
    <2>3. vals' \in Vals
      BY <1>21, <2>1, <1>c, ValsKept DEF Write, Typed, Framed
    <2>. QED  BY <1>21, <2>1, <2>2, <2>3 DEF Write, Going, Kept, Typed, Framed
  <1>22. CASE Send
    BY <1>22, HeadAndTail DEF Send, At, Going, Kept, Typed, Framed
  <1>23. CASE UNCHANGED vars
    BY <1>23 DEF Typed, Framed, vars
  <1>. QED  BY <1>1, <1>2, <1>3, <1>4, <1>5, <1>6, <1>7, <1>8, <1>9, <1>10, <1>11,
               <1>12, <1>14, <1>15, <1>16, <1>17, <1>18, <1>19, <1>20,
               <1>21, <1>22, <1>23 DEF Next

\* A turn is followed by the next one of the same loop.
LEMMA NextTurn ==
    ASSUME Typed(Pending(Items)), LoopTurn
    PROVE  /\ Item \in Loops(Items, Nat, BOOLEAN)
           /\ \E next \in Loops(Items, Nat, BOOLEAN) :
                 /\ todo' = Item.body \o <<next>> \o Rest
                 /\ next.t > 0 /\ next.more = Item.more /\ next.body = Item.body
  <1>. DEFINE left == IF Item.k = NoCap THEN NoCap
                      ELSE IF Zeros THEN 0 ELSE Item.k - 1
              t == Smaller(Item.t + 1, MaxEntries)
              next == [Item EXCEPT !.k = left, !.t = t, !.dry = Item.sent /\ Zeros]
  <1>1. Item \in Pending(Items) /\ Item.op = "loop"
    BY AllClosed, HeadAndTail DEF LoopTurn, At
  <1>2. Item \in Loops(Items, Nat, BOOLEAN)
    <2>1. CASE Item \in Items
      BY <1>1, <2>1, LayoutsAssumption, Shapes, FreshLoops
    <2>2. CASE Item \in Whiles(Items, Nat)
      BY <1>1, <2>2 DEF Whiles
    <2>3. CASE Item = [op |-> "done"]
      BY <1>1, <2>3
    <2>. QED  BY <1>1, <2>1, <2>2, <2>3 DEF Pending
  <1>3. Item.k \in Nat /\ Item.t \in Nat /\ Item.body \in Seq(Items)
    BY <1>2 DEF Loops
  <1>4. left \in Nat /\ t \in Nat /\ t > 0
    BY <1>3, LayoutsAssumption DEF LoopTurn, Smaller, NoCap
  <1>5. (Item.sent /\ Zeros) \in BOOLEAN
    BY Zenon
  <1>6. todo' = Item.body \o <<next>> \o Rest
    BY DEF LoopTurn
  <1>. HIDE DEF left, t
  <1>7. /\ next \in Loops(Items, Nat, BOOLEAN)
        /\ next.t = t /\ next.more = Item.more /\ next.body = Item.body
    BY <1>2, <1>4, <1>5 DEF Loops
  <1>. HIDE DEF next
  <1>. QED  BY <1>2, <1>4, <1>6, <1>7

LEMMA TypedTurn ==
    ASSUME Typed(Pending(Items)), LoopTurn
    PROVE  Typed(Pending(Items))'
  <1>1. Rest \in Seq(Pending(Items)) /\ Item.body \in Seq(Items)
    BY AllClosed, HeadAndTail, NextTurn DEF LoopTurn, At, Loops
  <1>2. PICK next \in Pending(Items) : todo' = Item.body \o <<next>> \o Rest
    BY NextTurn DEF Pending
  <1>3. Item.body \in Seq(Pending(Items))
    BY <1>1 DEF Pending
  <1>4. todo' \in Seq(Pending(Items))
    BY <1>1, <1>2, <1>3
  <1>. QED  BY <1>4 DEF LoopTurn, Going, Kept, Typed, Framed

\* Whatever a packet says and wherever it ends, the reader goes on with items of
\* its layouts, counts are natural numbers, and what a parser returns to when it
\* fails is one of those too (Packet, packet.cpp:54).
THEOREM ReaderTyped == Spec => []Typed(Pending(Items))
  <1>1. Init => Typed(Pending(Items))
    <2>. SUFFICES ASSUME Init PROVE Typed(Pending(Items))
      OBVIOUS
    <2>1. Layouts[name] \in Seq(Items) /\ Items \subseteq Pending(Items)
      BY LayoutsAssumption DEF Init, Pending
    <2>2. Layouts[name] \in Seq(Pending(Items))
      BY <2>1
    <2>. QED  BY <2>2, TypedInit
  <1>2. Typed(Pending(Items)) /\ [Next]_vars => Typed(Pending(Items))'
    BY TypedStep, TypedTurn, AllClosed
  <1>. QED  BY <1>1, <1>2, PTL DEF Spec

\* The type invariant, for any set of layouts and sizes.
THEOREM ReaderTypeOK == Spec => []TypeOK
  <1>1. Typed(Pending(Items)) => TypeOK
    <2>. SUFFICES ASSUME Typed(Pending(Items)) PROVE TypeOK
      OBVIOUS
    <2>1. ASSUME NEW v \in Vals PROVE Counts(v)
      <3>1. PICK D \in SUBSET STRING : v \in [D -> Nat]
        BY DEF Vals
      <3>. QED  BY <3>1 DEF Counts
    <2>2. ASSUME NEW i \in DOMAIN marks
          PROVE  /\ marks[i].other \in Seq(Pending(Items)) /\ Counts(marks[i].vals)
                 /\ marks[i].back \in BOOLEAN /\ marks[i].skew \in BOOLEAN
                 /\ marks[i].wrong \in BOOLEAN
      <3>1. marks[i] \in Mark(Pending(Items))
        BY DEF Typed, Framed
      <3>. QED  BY <2>1, <3>1 DEF Mark
    <2>. QED  BY <2>1, <2>2 DEF Typed, Framed, TypeOK, Left
  <1>. QED  BY <1>1, ReaderTyped, PTL

-----------------------------------------------------------------------------
\* Loops whose turn under way began with a byte at least, or that need none: a
\* turn that asks first never leaves any other behind.
Wet(I)  == {x \in Loops(I, Nat, {FALSE}) : x.sent => Asks(x.body)}
Calm(I) == I \cup Wet(I) \cup Whiles(I, Nat) \cup {[op |-> "done"]}

\* At the one exception, the i-th item left to do is the loop: its turn has just
\* begun, past the end, and asks for a byte before anything else.
Dry(I, i) ==
    /\ outcome = "reading" /\ Zeros
    /\ todo \in Seq(Pending(I)) /\ i \in 2 .. Len(todo)
    /\ Asks(todo)
    /\ \A j \in 1 .. i - 1 : todo[j] \in I
    /\ todo[i].op = "loop" /\ todo[i].t > 0
    /\ SubSeq(todo, i + 1, Len(todo)) \in Seq(Calm(I))

\* Nowhere is a loop with a dry turn, but for that moment.
EntriesInv(I) ==
    Framed(Calm(I)) /\ (todo \in Seq(Calm(I)) \/ \E i \in Nat : Dry(I, i))

LEMMA WetLoops ==
    ASSUME NEW I, AskedLists(I)
    PROVE  /\ Wet(I) \subseteq Loops(I, Nat, BOOLEAN)
           /\ \A x \in I : x.op = "loop" => x \in Wet(I)
           /\ \A x \in Wet(I), k \in Nat, t \in Nat :
                  [x EXCEPT !.k = k, !.t = t, !.dry = FALSE] \in Wet(I)
  <1>1. ASSUME NEW x \in Loops(I, Nat, {FALSE}) PROVE x \in Loops(I, Nat, BOOLEAN)
    <2>1. /\ x = [op |-> x.op, k |-> x.k, t |-> x.t, more |-> x.more, sent |-> x.sent,
                  dry |-> x.dry, body |-> x.body]
          /\ x.op \in {"loop"} /\ x.k \in Nat /\ x.t \in Nat /\ x.more \in BOOLEAN
          /\ x.sent \in BOOLEAN /\ x.dry \in {FALSE} /\ x.body \in Seq(I)
      BY <1>1 DEF Loops
    <2>2. x.dry \in BOOLEAN
      BY <2>1, Zenon
    <2>. QED  BY <2>1, <2>2, Zenon DEF Loops
  <1>2. ASSUME NEW x \in Loops(I, {0}, {FALSE}) PROVE x \in Loops(I, Nat, {FALSE})
    <2>1. /\ x = [op |-> x.op, k |-> x.k, t |-> x.t, more |-> x.more, sent |-> x.sent,
                  dry |-> x.dry, body |-> x.body]
          /\ x.op \in {"loop"} /\ x.k \in Nat /\ x.t \in {0} /\ x.more \in BOOLEAN
          /\ x.sent \in BOOLEAN /\ x.dry \in {FALSE} /\ x.body \in Seq(I)
      BY <1>2 DEF Loops
    <2>2. x.t \in Nat
      <3>1. x.t = 0
        BY <2>1, Zenon
      <3>. QED  BY <3>1
    <2>. QED  BY <2>1, <2>2, Zenon DEF Loops
  <1>3. ASSUME NEW x \in I, x.op = "loop" PROVE x \in Wet(I)
    <2>1. x \in Loops(I, {0}, {FALSE})
      BY <1>3, Shapes DEF AskedLists
    <2>2. x.sent => Asks(x.body)
      BY <1>3 DEF AskedLists
    <2>. QED  BY <1>2, <2>1, <2>2 DEF Wet
  <1>4. ASSUME NEW x \in Wet(I), NEW k \in Nat, NEW t \in Nat
        PROVE  [x EXCEPT !.k = k, !.t = t, !.dry = FALSE] \in Wet(I)
    <2>. DEFINE y == [x EXCEPT !.k = k, !.t = t, !.dry = FALSE]
    <2>1. x \in Loops(I, Nat, {FALSE}) /\ (x.sent => Asks(x.body))
      BY DEF Wet
    <2>2. y \in Loops(I, Nat, {FALSE}) /\ y.sent = x.sent /\ y.body = x.body
      BY <2>1 DEF Loops
    <2>. QED  BY <2>1, <2>2, Zenon DEF Wet
  <1>. QED  BY <1>1, <1>3, <1>4 DEF Wet

LEMMA CalmClosed ==
    ASSUME NEW I, AskedLists(I)
    PROVE  Closed(Calm(I))
  <1>1. I \subseteq Kinds(I)
    BY DEF AskedLists
  <1>2. ASSUME NEW x \in Wet(I) PROVE [x EXCEPT !.k = 0] \in Wet(I)
    <2>1. x \in Loops(I, Nat, {FALSE})
      BY DEF Wet
    <2>2. [x EXCEPT !.k = 0] = [x EXCEPT !.k = 0, !.t = x.t, !.dry = FALSE] /\ x.t \in Nat
      BY <2>1 DEF Loops
    <2>. QED  BY <2>2, WetLoops
  <1>3. ASSUME NEW x \in I, x.op = "times", NEW k \in Nat, NEW more \in BOOLEAN
        PROVE  Turn(k, 0, more, TRUE, x.body) \in Wet(I)
    <2>1. x.body \in Seq(I) /\ Asks(x.body)
      BY <1>1, <1>3, Shapes DEF AskedLists
    <2>. DEFINE y == Turn(k, 0, more, TRUE, x.body)
    <2>2. y \in Loops(I, Nat, {FALSE}) /\ y.body = x.body
      BY <2>1 DEF Turn, Loops
    <2>. QED  BY <2>1, <2>2, Zenon DEF Wet
  <1>. QED  BY <1>1, <1>2, <1>3, WetLoops, PendingClosed DEF Calm

\* A loop that has not begun is not under way, and nothing in a layout ends a
\* parser.
LEMMA FreshItems ==
    ASSUME NEW I, I \subseteq Kinds(I), NEW x \in I
    PROVE  /\ x.op # "done"
           /\ x.op \in {"loop", "while"} => x.t = 0
  <1>1. x.op # "done" /\ (x.op = "loop" => x \in Loops(I, {0}, {FALSE}))
        /\ (x.op = "while" => x \in Whiles(I, {0}))
    BY Shapes
  <1>. QED  BY <1>1 DEF Loops, Whiles

\* What stands behind the dry loop has nothing of it.
LEMMA CalmBehind ==
    ASSUME NEW I, NEW i, Dry(I, i), NEW m \in i .. Len(todo)
    PROVE  SubSeq(todo, m + 1, Len(todo)) \in Seq(Calm(I))
  <1>. DEFINE s == SubSeq(todo, i + 1, Len(todo))
              u == SubSeq(todo, m + 1, Len(todo))
  <1>1. /\ todo \in Seq(Pending(I)) /\ i \in 2 .. Len(todo) /\ Len(todo) \in Nat
        /\ s \in Seq(Calm(I))
    BY DEF Dry
  <1>2. \A j \in 1 .. Len(todo) - i : s[j] = todo[j + i] /\ s[j] \in Calm(I)
    BY <1>1
  <1>3. u \in Seq(Pending(I)) /\ Len(u) = Len(todo) - m
        /\ \A j \in 1 .. Len(u) : u[j] = todo[j + m]
    BY <1>1
  <1>. HIDE DEF s, u
  <1>4. ASSUME NEW j \in 1 .. Len(u) PROVE u[j] \in Calm(I)
    <2>1. j + m - i \in 1 .. Len(todo) - i
      <3>1. j \in 1 .. Len(todo) - m /\ m \in i .. Len(todo) /\ i \in Nat /\ Len(todo) \in Nat
        BY <1>1, <1>3
      <3>. QED  BY <3>1
    <2>2. s[j + m - i] = todo[j + m]
      BY <1>1, <1>2, <1>3, <2>1
    <2>. QED  BY <1>2, <1>3, <2>1, <2>2
  <1>5. u \in Seq(Calm(I))
    BY <1>3, <1>4, Narrowed
  <1>. QED  BY <1>5 DEF u

\* There the parser leaves, and leaves the loop with all it was doing.
LEMMA DryLeaves ==
    ASSUME NEW I, AskedLists(I), Framed(Calm(I)), NEW i, Dry(I, i),
           NEW else, NEW left \in Nat, Leaves(else, left, TRUE), UNCHANGED name
    PROVE  Typed(Calm(I))'
  <1>. DEFINE P == Calm(I)
  <1>a. /\ todo \in Seq(Pending(I)) /\ i \in 2 .. Len(todo)
        /\ \A j \in 1 .. i - 1 : todo[j] \in I
        /\ todo[i].op = "loop" /\ todo[i].t > 0
        /\ I \subseteq Kinds(I)
    BY DEF Dry, AskedLists
  <1>1. CASE Refused(left, TRUE)
    BY <1>1, TypedRefused
  <1>2. CASE /\ outcome' = "refused"
             /\ todo' = <<>> /\ sure' = 0 /\ vals' = <<>> /\ bits' = {}
             /\ marks' = <<>>
             /\ end' = TRUE
             /\ UNCHANGED <<skew, wrong>>
    BY <1>2, NoVals DEF Typed, Framed
  <1>3. CASE /\ todo' = IF marks = <<>> THEN <<>>
                        ELSE <<[op |-> "done"]>> \o After(Returns)
             /\ sure' = left /\ end' = TRUE
             /\ Kept /\ UNCHANGED <<vals, bits, outcome>>
    <2>1. After(Returns) \in Seq(P)
      <3>1. CASE Returns = {}
        BY <3>1 DEF After
      <3>2. CASE Returns # {}
        <4>1. Returns \in SUBSET Nat
          BY <1>a DEF Returns
        <4>2. Min(Returns) \in Returns
          BY <3>2, <4>1, Smallest
        <4>3. ASSUME NEW j \in Returns PROVE j \in i .. Len(todo)
          <5>1. j \in 1 .. Len(todo) /\ todo[j].op = "done"
            BY <1>a DEF Returns
          <5>2. ~(j \in 1 .. i - 1)
            BY <1>a, <5>1, FreshItems
          <5>. QED  BY <1>a, <5>1, <5>2
        <4>. QED  BY <3>2, <4>2, <4>3, CalmBehind DEF After
      <3>. QED  BY <3>1, <3>2
    <2>2. [op |-> "done"] \in P
      BY DEF Calm
    <2>. HIDE DEF P
    <2>3. todo' \in Seq(P)
      BY <1>3, <2>1, <2>2
    <2>. QED  BY <1>3, <2>3 DEF Typed, Framed, Kept, P
  <1>4. CASE /\ todo' = After(Turns)
             /\ sure' = left /\ end' = TRUE
             /\ skew' = TRUE
             /\ UNCHANGED <<vals, bits, wrong, marks, outcome>>
    <2>1. i \in Turns /\ Turns \in SUBSET Nat
      BY <1>a DEF Turns
    <2>2. Min(Turns) \in Turns
      BY <2>1, Smallest
    <2>3. ASSUME NEW j \in Turns PROVE j \in i .. Len(todo)
      <3>1. j \in 1 .. Len(todo) /\ todo[j].op \in {"loop", "while"} /\ todo[j].t > 0
        BY <1>a DEF Turns
      <3>2. ~(j \in 1 .. i - 1)
        BY <1>a, <3>1, FreshItems
      <3>. QED  BY <1>a, <3>1, <3>2
    <2>4. After(Turns) \in Seq(P)
      BY <2>1, <2>2, <2>3, CalmBehind DEF After
    <2>. QED  BY <1>4, <2>4 DEF Typed, Framed
  <1>. QED  BY <1>1, <1>2, <1>3, <1>4 DEF Leaves

\* Nothing is left to ask for: the turn that began past the end is given up.
LEMMA DryStep ==
    ASSUME NEW I, AskedLists(I), Framed(Calm(I)), NEW i, Dry(I, i), Next
    PROVE  Typed(Calm(I))'
  <1>1. /\ todo # <<>> /\ Zeros
        /\ \/ Item.op = "guard" /\ Item.n > 0
           \/ Item.op = "fullguid"
    BY DEF Dry, Asks, Item
  <1>2. sure = 0 /\ end
    BY <1>1 DEF Zeros
  <1>3. Item \in I /\ I \subseteq Kinds(I)
    BY DEF Dry, AskedLists, Item
  <1>4. CASE Guard
    <2>1. Item.op = "guard" /\ Asked = Item.n /\ Item.n \in Nat
      BY <1>1, <1>3, <1>4, Shapes DEF Guard, At, Asked
    <2>2. ~HasLeft(Asked)
      <3>1. Asked > 0
        BY <1>1, <2>1
      <3>2. ~(Asked <= sure \/ ~end)
        BY <1>2, <2>1, <3>1
      <3>. QED  BY <3>2, Zenon DEF HasLeft
    <2>3. PICK left \in Lacking(Asked, Item.else) : Leaves(Item.else, left, TRUE)
      BY <1>4, <2>2 DEF Guard
    <2>4. left \in Nat
      BY <1>2, <2>1 DEF Lacking, Lacks
    <2>. QED  BY <1>4, <2>3, <2>4, DryLeaves DEF Guard
  <1>5. CASE GuardGuid
    <2>1. PICK n \in GuidSizes :
             \/ n <= sure \/ ~end
             \/ \E left \in Lacking(n, Item.else) : Leaves(Item.else, left, TRUE)
      BY <1>5 DEF GuardGuid
    <2>2. n \in 1 .. 9
      BY LayoutsAssumption
    <2>3. PICK left \in Lacking(n, Item.else) : Leaves(Item.else, left, TRUE)
      <3>1. ~(n <= sure \/ ~end)
        BY <1>2, <2>2
      <3>. QED  BY <2>1, <3>1
    <2>4. left \in Nat
      BY <1>2, <2>2 DEF Lacking, Lacks
    <2>. QED  BY <1>5, <2>3, <2>4, DryLeaves DEF GuardGuid
  <1>6. Item.op \in {"guard", "fullguid"} /\ todo # <<>>
    BY <1>1
  <1>. QED
    BY <1>4, <1>5, <1>6
    DEF Next, At, ReadBytes, ReadField, ReadFlags, ReadGuid, ReadText, ReadMany, Leave,
        BranchOnLeft, Branch, LoopBegin, LoopTurn, LoopMany, LoopEnd, WhileTurn, Try,
        Done, Lose, Finish, Write, Send

\* A turn begins: past the end, only if the entry is asked for.
\* A turn begins: it is dry when the packet has ended.
LEMMA EntriesTurn ==
    ASSUME NEW I, AskedLists(I), Typed(Calm(I)), LoopTurn
    PROVE  EntriesInv(I)'
  <1>. DEFINE P == Calm(I)
              left == IF Item.k = NoCap THEN NoCap
                      ELSE IF Zeros THEN 0 ELSE Item.k - 1
              t == Smaller(Item.t + 1, MaxEntries)
              next == [Item EXCEPT !.k = left, !.t = t, !.dry = Item.sent /\ Zeros]
  <1>a. I \subseteq Kinds(I)
    BY DEF AskedLists
  <1>1. Item \in P /\ Item.op = "loop" /\ Rest \in Seq(P)
    BY CalmClosed, HeadAndTail DEF LoopTurn, At
  <1>2. Item \in Wet(I)
    <2>1. CASE Item \in I
      BY <1>1, <2>1, WetLoops
    <2>2. CASE Item \in Whiles(I, Nat)
      BY <1>1, <2>2 DEF Whiles
    <2>3. CASE Item = [op |-> "done"]
      BY <1>1, <2>3
    <2>. QED  BY <1>1, <2>1, <2>2, <2>3 DEF Calm
  <1>3. /\ Item \in Loops(I, Nat, {FALSE}) /\ Item \in Loops(I, Nat, BOOLEAN)
        /\ Item.sent => Asks(Item.body)
    BY <1>2, WetLoops DEF Wet
  <1>4. Item.k \in Nat /\ Item.t \in Nat /\ Item.body \in Seq(I)
    BY <1>3 DEF Loops
  <1>5. left \in Nat /\ t \in Nat /\ t > 0
    BY <1>4, LayoutsAssumption DEF LoopTurn, Smaller, NoCap
  <1>6. todo' = Item.body \o <<next>> \o Rest
    BY DEF LoopTurn
  <1>. HIDE DEF left, t
  <1>7. Framed(P)'
    BY DEF LoopTurn, Going, Kept, Typed, Framed
  <1>8. CASE ~(Item.sent /\ Zeros)
    <2>1. next = [Item EXCEPT !.k = left, !.t = t, !.dry = FALSE]
      BY <1>8, Zenon
    <2>2. next \in Wet(I)
      <3>1. \A x \in Wet(I), k \in Nat, turn \in Nat :
                [x EXCEPT !.k = k, !.t = turn, !.dry = FALSE] \in Wet(I)
        BY WetLoops, Zenon
      <3>2. [Item EXCEPT !.k = left, !.t = t, !.dry = FALSE] \in Wet(I)
        BY <1>2, <1>5, <3>1, Zenon
      <3>. QED  BY <2>1, <3>2, Zenon
    <2>. HIDE DEF next
    <2>3. todo' \in Seq(P)
      BY <1>1, <1>4, <1>6, <2>2 DEF Calm
    <2>. QED  BY <1>7, <2>3 DEF EntriesInv
  <1>9. CASE Item.sent /\ Zeros
    <2>0. PICK i \in Nat : i = Len(Item.body) + 1
      BY <1>4
    <2>1. next \in Loops(I, Nat, BOOLEAN) /\ next.op = "loop" /\ next.t = t
      BY <1>3, <1>5 DEF Loops
    <2>. HIDE DEF next
    <2>2. Asks(Item.body) /\ Item.body \in Seq(I) /\ i = Len(Item.body) + 1 /\ i >= 2
      BY <2>0, <1>3, <1>4, <1>9 DEF Asks
    <2>3. Calm(I) \subseteq Pending(I)
      BY WetLoops DEF Calm, Pending
    <2>4. Rest \in Seq(Pending(I)) /\ next \in Pending(I) /\ Item.body \in Seq(Pending(I))
      BY <1>1, <1>4, <2>1, <2>3 DEF Pending
    <2>5. todo' \in Seq(Pending(I)) /\ Len(todo') = i + Len(Rest)
      BY <1>6, <2>2, <2>4
    <2>6. \A j \in 1 .. i - 1 : todo'[j] = Item.body[j]
      BY <1>6, <2>2, <2>4
    <2>7. todo'[i] = next
      BY <1>6, <2>2, <2>4
    <2>8. SubSeq(todo', i + 1, Len(todo')) = Rest
      <3>1. i + 1 = Len(Item.body) + 2
        BY <2>2
      <3>2. SubSeq(todo', Len(Item.body) + 2, Len(todo')) = Rest
        <4>1. SubSeq(Item.body \o <<next>> \o Rest, Len(Item.body) + 2,
                     Len(Item.body \o <<next>> \o Rest)) = Rest
          <5>. DEFINE B(S, a, x, b) ==
                   SubSeq(a \o <<x>> \o b, Len(a) + 2, Len(a \o <<x>> \o b)) = b
          <5>1. \A S : \A a \in Seq(S), x \in S, b \in Seq(S) : B(S, a, x, b)
            BY Behind
          <5>. HIDE DEF B
          <5>2. B(Pending(I), Item.body, next, Rest)
            BY <2>4, <5>1
          <5>. QED  BY <5>2 DEF B
        <4>. QED  BY <1>6, <4>1, Zenon
      <3>. QED  BY <3>1, <3>2
    <2>9. todo' # <<>> /\ todo'[1] = Item.body[1] /\ todo'[1] \in I
      BY <2>2, <2>5, <2>6
    <2>10. Asks(todo')
      BY <2>2, <2>9 DEF Asks
    <2>11. outcome' = "reading" /\ Zeros'
      BY <1>9 DEF LoopTurn, At, Going, Zeros
    <2>12. i \in 2 .. Len(todo')
      BY <1>1, <2>2, <2>5
    <2>13. Dry(I, i)'
      <3>1. \A j \in 1 .. i - 1 : todo'[j] \in I
        BY <2>2, <2>6
      <3>. QED  BY <1>1, <1>5, <2>1, <2>5, <2>7, <2>8, <2>10, <2>11, <2>12, <3>1 DEF Dry
    <2>. QED  BY <1>7, <2>2, <2>13 DEF EntriesInv
  <1>. QED  BY <1>8, <1>9

LEMMA EntriesStep ==
    ASSUME NEW I, AskedLists(I), EntriesInv(I), [Next]_vars
    PROVE  EntriesInv(I)'
  <1>1. CASE todo \in Seq(Calm(I)) /\ LoopTurn
    BY <1>1, EntriesTurn DEF EntriesInv, Typed
  <1>2. CASE todo \in Seq(Calm(I)) /\ ~LoopTurn
    <2>1. Typed(Calm(I))'
      BY <1>2, CalmClosed, TypedStep DEF EntriesInv, Typed
    <2>. QED  BY <2>1 DEF EntriesInv, Typed
  <1>3. CASE (\E i \in Nat : Dry(I, i)) /\ Next
    <2>1. Typed(Calm(I))'
      BY <1>3, DryStep DEF EntriesInv
    <2>. QED  BY <2>1 DEF EntriesInv, Typed
  <1>4. CASE UNCHANGED vars
    <2>1. Framed(Calm(I))' = Framed(Calm(I))
      BY <1>4 DEF vars, Framed
    <2>2. ASSUME NEW i \in Nat PROVE Dry(I, i)' = Dry(I, i)
      BY <1>4 DEF vars, Dry, Zeros
    <2>. QED  BY <1>4, <2>1, <2>2 DEF EntriesInv, vars
  <1>. QED  BY <1>1, <1>2, <1>3, <1>4 DEF EntriesInv

\* A parser whose lists ask for every entry before they read it gets no entry of
\* which no byte was sent, for any count, any limit on it and any length of the
\* packet (world_packets.cpp, packet_parsers_classic.cpp and the like: hasRemaining()
\* at the head of each loop).
THEOREM EntriesSent ==
    ASSUME NEW I, AskedLists(I)
    PROVE  Spec => [](Layouts[name] \in Seq(I) => EntriesAreSent)
  <1>1. Init => (Layouts[name] \in Seq(I) => EntriesInv(I))
    <2>. SUFFICES ASSUME Init, Layouts[name] \in Seq(I) PROVE EntriesInv(I)
      OBVIOUS
    <2>1. Layouts[name] \in Seq(Calm(I))
      BY DEF Calm
    <2>. QED  BY <2>1, TypedInit DEF EntriesInv, Typed
  <1>2. (Layouts[name] \in Seq(I) => EntriesInv(I)) /\ [Next]_vars
        => (Layouts[name] \in Seq(I) => EntriesInv(I))'
    <2>. SUFFICES ASSUME [Next]_vars PROVE name' = name
      BY EntriesStep
    <2>. QED
      BY DEF Next, vars, Going, ReadBytes, ReadField, ReadFlags, ReadGuid, ReadText, ReadMany,
             Guard, GuardGuid, Leave, BranchOnLeft, Branch, LoopBegin, LoopTurn, LoopMany,
             LoopEnd, WhileTurn, Try, Done, Lose, Finish, Write, Send
  <1>3. EntriesInv(I) => EntriesAreSent
    <2>. SUFFICES ASSUME EntriesInv(I), At({"loop"}) PROVE ~Item.dry
      BY DEF EntriesAreSent
    <2>1. CASE todo \in Seq(Calm(I))
      <3>1. Item \in Calm(I) /\ Item.op = "loop"
        BY <2>1, CalmClosed, HeadAndTail DEF EntriesInv, Typed, At
      <3>2. Item \in Loops(I, Nat, {FALSE})
        <4>1. CASE Item \in I
          BY <3>1, <4>1, WetLoops DEF Wet
        <4>2. CASE Item \in Whiles(I, Nat)
          BY <3>1, <4>2 DEF Whiles
        <4>3. CASE Item = [op |-> "done"]
          BY <3>1, <4>3
        <4>. QED  BY <3>1, <4>1, <4>2, <4>3 DEF Calm, Wet
      <3>. QED  BY <3>2 DEF Loops
    <2>2. CASE \E i \in Nat : Dry(I, i)
      BY <2>2 DEF Dry, Asks, At, Item
    <2>. QED  BY <2>1, <2>2 DEF EntriesInv
  <1>. QED  BY <1>1, <1>2, <1>3, PTL DEF Spec

=============================================================================
