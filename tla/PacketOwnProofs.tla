--------------------------- MODULE PacketOwnProofs ---------------------------
(***************************************************************************)
(* That a packet which a client writes is read whole, to the last byte, by *)
(* a reader that goes with the writer item by item (PacketDiscipline).     *)
(*                                                                         *)
(* The invariant is a way: the layouts that the reader will go through,    *)
(* one after another, and where in the packet it will stand at each.       *)
(* While the packet is written the way grows with it, and leads to what is *)
(* left of the reader where the writer stands; then the reader follows it. *)
(***************************************************************************)
EXTENDS PacketReaderProofs

\* A step of the reader, from byte at with s left to do to byte to with u left,
\* of a packet of all bytes, with flags b and guids v.
Reads(s, u, at, to, all, b, v) ==
    /\ s # <<>>
    /\ \/ /\ s[1].op \in {"read", "bits"} /\ s[1].n \in Nat
          /\ s[1].op = "bits" => s[1].n > 0
          /\ to = at + s[1].n /\ u = Tail(s)
       \/ /\ s[1].op = "guidof" /\ s[1].f \in DOMAIN v /\ v[s[1].f] \in Nat \ {0}
          /\ to = at + v[s[1].f] /\ u = Tail(s)
       \/ /\ s[1].op = "ifleft" /\ s[1].n \in Nat /\ at + s[1].n <= all
          /\ to = at /\ u = s[1].a \o Tail(s)
       \/ /\ s[1].op = "has" /\ to = at
          /\ u = (IF b \cap s[1].v # {} THEN s[1].a ELSE <<>>) \o Tail(s)

\* The way over n layouts T, which begin at bytes P.
Path(T, P, n, all, b, v) ==
    /\ n \in Nat \ {0}
    /\ \A k \in 1 .. n : P[k] \in Nat
    /\ \A k \in 1 .. n : \A j \in 1 .. k : P[j] <= P[k]
    /\ \A k \in 1 .. n - 1 : Reads(T[k], T[k + 1], P[k], P[k + 1], all, b, v)

Writing(M, p, T, P, n) ==
    /\ p \in M /\ todo = p.left /\ ~end
    /\ Path(T, P, n, sure, bits, vals)
    /\ T[1] = p.reader /\ T[n] = p.read
    /\ P[1] = 0 /\ P[n] = sure
    /\ DOMAIN vals = p.named
    /\ ~p.chosen => \A k \in 1 .. n - 1 : T[k][1].op # "has"

Reading(T, P, n, k) ==
    /\ end /\ k \in 1 .. n
    /\ Path(T, P, n, P[n], bits, vals)
    /\ T[n] = <<>> /\ todo = T[k]
    /\ sure = P[n] - P[k]

Together(M) ==
    /\ name \in Own
    /\ ~skew /\ ~wrong /\ marks = <<>>
    /\ \/ /\ outcome = "reading"
          /\ \/ \E p, T, P, n : Writing(M, p, T, P, n)
             \/ \E T, P, n, k : Reading(T, P, n, k)
       \/ outcome = "accepted" /\ sure = 0

-----------------------------------------------------------------------------
LEMMA ReadsOn ==
    ASSUME NEW s, NEW u, NEW at \in Nat, NEW to, NEW all, NEW b, NEW v,
           Reads(s, u, at, to, all, b, v)
    PROVE  to \in Nat /\ at <= to
  <1>1. CASE s[1].op \in {"read", "bits"} /\ s[1].n \in Nat /\ to = at + s[1].n
    BY <1>1
  <1>2. CASE v[s[1].f] \in Nat \ {0} /\ to = at + v[s[1].f]
    BY <1>2
  <1>3. CASE to = at
    BY <1>3
  <1>. QED  BY <1>1, <1>2, <1>3, Zenon DEF Reads

LEMMA ReadsStays ==
    ASSUME NEW s, NEW u, NEW at \in Nat, NEW to, NEW all \in Nat, NEW b, NEW v,
           Reads(s, u, at, to, all, b, v),
           NEW more \in Nat, all <= more, NEW c, NEW w, b = c \/ s[1].op # "has",
           \A f \in DOMAIN v : f \in DOMAIN w /\ w[f] = v[f]
    PROVE  Reads(s, u, at, to, more, c, w)
  <1>1. CASE s[1].op = "ifleft"
    <2>1. s[1].n \in Nat /\ at + s[1].n <= all
      BY <1>1, Zenon DEF Reads
    <2>2. at + s[1].n <= more
      BY <2>1
    <2>. QED  BY <1>1, <2>2, Zenon DEF Reads
  <1>2. CASE s[1].op = "has"
    BY <1>2, Zenon DEF Reads
  <1>3. CASE s[1].op = "guidof"
    BY <1>3, Zenon DEF Reads
  <1>4. CASE s[1].op \in {"read", "bits"}
    BY <1>4, Zenon DEF Reads
  <1>. QED  BY <1>1, <1>2, <1>3, <1>4, Zenon DEF Reads

\* A longer packet, flags nobody has decided by and another guid leave a way as
\* it is.
LEMMA PathStays ==
    ASSUME NEW T, NEW P, NEW n, NEW all \in Nat, NEW b, NEW v, Path(T, P, n, all, b, v),
           NEW more \in Nat, all <= more, NEW c, NEW w,
           b = c \/ \A k \in 1 .. n - 1 : T[k][1].op # "has",
           \A f \in DOMAIN v : f \in DOMAIN w /\ w[f] = v[f]
    PROVE  Path(T, P, n, more, c, w)
  <1>1. ASSUME NEW k \in 1 .. n - 1
        PROVE  Reads(T[k], T[k + 1], P[k], P[k + 1], more, c, w)
    <2>1. Reads(T[k], T[k + 1], P[k], P[k + 1], all, b, v)
      BY DEF Path
    <2>2. P[k] \in Nat
      BY DEF Path
    <2>3. b = c \/ T[k][1].op # "has"
      BY Zenon
    <2>. QED  BY <2>1, <2>2, <2>3, ReadsStays
  <1>. QED  BY <1>1 DEF Path

\* A way that goes on as this one does, and one step further.
Onward(T, P, n, u, to, all, b, v) ==
    \E Q, R : /\ Path(Q, R, n + 1, all, b, v)
              /\ Q[1] = T[1] /\ Q[n + 1] = u
              /\ R[1] = P[1] /\ R[n + 1] = to
              /\ \A k \in 1 .. n : Q[k] = T[k]

LEMMA PathGrows ==
    ASSUME NEW T, NEW P, NEW n, NEW all \in Nat, NEW b, NEW v, Path(T, P, n, all, b, v),
           NEW u, NEW to \in Nat, Reads(T[n], u, P[n], to, all, b, v)
    PROVE  Onward(T, P, n, u, to, all, b, v)
  <1>1. n \in Nat \ {0} /\ P[n] \in Nat
    BY DEF Path
  <1>2. P[n] <= to
    BY <1>1, ReadsOn
  <1>. DEFINE Q == [k \in 1 .. n + 1 |-> IF k = n + 1 THEN u ELSE T[k]]
              R == [k \in 1 .. n + 1 |-> IF k = n + 1 THEN to ELSE P[k]]
  <1>3. /\ Q[n + 1] = u /\ R[n + 1] = to
        /\ \A k \in 1 .. n : Q[k] = T[k] /\ R[k] = P[k]
    BY <1>1
  <1>. HIDE DEF Q, R
  <1>4. \A k \in 1 .. n + 1 : R[k] \in Nat
    BY <1>1, <1>3 DEF Path
  <1>5. ASSUME NEW k \in 1 .. n + 1, NEW j \in 1 .. k PROVE R[j] <= R[k]
    <2>1. CASE k \in 1 .. n
      BY <1>1, <1>3, <2>1 DEF Path
    <2>2. CASE k = n + 1 /\ j = n + 1
      BY <1>4, <2>2
    <2>3. CASE k = n + 1 /\ j \in 1 .. n
      <3>1. P[j] <= P[n] /\ P[j] \in Nat
        BY <1>1, <2>3 DEF Path
      <3>. QED  BY <1>1, <1>2, <1>3, <2>3, <3>1
    <2>. QED  BY <1>1, <2>1, <2>2, <2>3
  <1>6. ASSUME NEW k \in 1 .. n
        PROVE  Reads(Q[k], Q[k + 1], R[k], R[k + 1], all, b, v)
    <2>1. CASE k = n
      BY <1>1, <1>3, <2>1
    <2>2. CASE k \in 1 .. n - 1
      <3>1. Reads(T[k], T[k + 1], P[k], P[k + 1], all, b, v)
        BY <2>2 DEF Path
      <3>2. k + 1 \in 1 .. n /\ k \in 1 .. n
        BY <1>1, <2>2
      <3>. QED  BY <1>3, <3>1, <3>2
    <2>. QED  BY <1>1, <2>1, <2>2
  <1>7. Path(Q, R, n + 1, all, b, v)
    BY <1>1, <1>4, <1>5, <1>6 DEF Path
  <1>8. 1 \in 1 .. n
    BY <1>1
  <1>. QED  BY <1>3, <1>7, <1>8 DEF Onward

\* What may happen at an item of a writer, and of its reader.
LEMMA Writers ==
    ASSUME Next, todo # <<>>, Item.op \in {"put", "putbits", "putguid", "has", "sent"}
    PROVE  Write \/ Send \/ Branch
  BY DEF Next, At, ReadBytes, ReadField, ReadFlags, ReadGuid, ReadText, ReadMany, Guard,
         GuardGuid, Leave, BranchOnLeft, Branch, LoopBegin, LoopTurn, LoopMany, LoopEnd,
         WhileTurn, Try, Done, Lose, Finish

LEMMA Readers ==
    ASSUME Next, todo # <<>>, Item.op \in {"read", "bits", "guidof", "ifleft", "has"}
    PROVE  ReadBytes \/ ReadFlags \/ ReadGuid \/ BranchOnLeft \/ Branch
  BY DEF Next, At, ReadBytes, ReadField, ReadFlags, ReadGuid, ReadText, ReadMany, Guard,
         GuardGuid, Leave, BranchOnLeft, Branch, LoopBegin, LoopTurn, LoopMany, LoopEnd,
         WhileTurn, Try, Done, Lose, Finish, Write, Send

-----------------------------------------------------------------------------
\* What is written next lies on the way, which goes on behind it.
LEMMA WrittenOn ==
    ASSUME NEW M, NEW p, NEW T, NEW P, NEW n, Writing(M, p, T, P, n),
           sure \in Nat, sure' \in Nat, sure <= sure', ~end',
           NEW q \in M, q.reader = p.reader, todo' = q.left, DOMAIN vals' = q.named,
           bits' = bits \/ ~p.chosen,
           \A f \in DOMAIN vals : f \in DOMAIN vals' /\ vals'[f] = vals[f],
           ~q.chosen => ~p.chosen /\ p.read[1].op # "has",
           Reads(p.read, q.read, sure, sure', sure', bits', vals')
    PROVE  \E Q, R : Writing(M, q, Q, R, n + 1)'
  <1>1. /\ Path(T, P, n, sure, bits, vals)
        /\ T[1] = p.reader /\ T[n] = p.read
        /\ P[1] = 0 /\ P[n] = sure
        /\ ~p.chosen => \A k \in 1 .. n - 1 : T[k][1].op # "has"
    BY DEF Writing
  <1>2. bits = bits' \/ \A k \in 1 .. n - 1 : T[k][1].op # "has"
    BY <1>1
  <1>3. Path(T, P, n, sure', bits', vals')
    BY <1>1, <1>2, PathStays
  <1>4. PICK Q, R : /\ Path(Q, R, n + 1, sure', bits', vals')
                    /\ Q[1] = T[1] /\ Q[n + 1] = q.read
                    /\ R[1] = P[1] /\ R[n + 1] = sure'
                    /\ \A k \in 1 .. n : Q[k] = T[k]
    <2>1. Reads(T[n], q.read, P[n], sure', sure', bits', vals')
      BY <1>1
    <2>2. Onward(T, P, n, q.read, sure', sure', bits', vals')
      BY <1>3, <2>1, PathGrows
    <2>. QED  BY <2>2 DEF Onward
  <1>5. n \in Nat \ {0}
    BY <1>1 DEF Path
  <1>6. ASSUME ~q.chosen, NEW k \in 1 .. n PROVE Q[k][1].op # "has"
    <2>1. CASE k = n
      BY <1>1, <1>4, <1>5, <1>6, <2>1
    <2>2. CASE k \in 1 .. n - 1
      BY <1>1, <1>4, <1>6, <2>2
    <2>. QED  BY <1>5, <2>1, <2>2
  <1>7. (n + 1) - 1 = n
    BY <1>5
  <1>. QED  BY <1>1, <1>4, <1>6, <1>7 DEF Writing

LEMMA Gone ==
    ASSUME NEW M, NEW p, NEW left, NEW read, NEW named, NEW chosen,
           Goes(M, p, left, read, named, chosen)
    PROVE  \E q \in M : /\ q.left = left /\ q.read = read /\ q.reader = p.reader
                        /\ q.named = named /\ q.chosen = chosen
  <1>. DEFINE q == [left |-> left, reader |-> p.reader, read |-> read, named |-> named,
                    chosen |-> chosen]
  <1>1. /\ q.left = left /\ q.read = read /\ q.reader = p.reader
        /\ q.named = named /\ q.chosen = chosen
    OBVIOUS
  <1>2. q \in M
    BY DEF Goes
  <1>. HIDE DEF q
  <1>. QED  BY <1>1, <1>2

LEMMA WritesOn ==
    ASSUME NEW M, Pairs(M, Items), Typed(Pending(Items)), Typed(Pending(Items))',
           Together(M), outcome = "reading",
           NEW p, NEW T, NEW P, NEW n, Writing(M, p, T, P, n), Next
    PROVE  Together(M)'
  <1>1. /\ p \in M /\ todo = p.left /\ ~end
        /\ Path(T, P, n, sure, bits, vals)
        /\ T[1] = p.reader /\ T[n] = p.read
        /\ P[1] = 0 /\ P[n] = sure
        /\ DOMAIN vals = p.named
    BY DEF Writing
  <1>2. /\ p.left \in Seq(Items) /\ p.read \in Seq(Items) /\ p.left # <<>>
        /\ \/ p.left[1].op = "sent" /\ p.read = <<>> /\ Tail(p.left) = p.reader
           \/ p.read # <<>> /\ Matches(M, p, p.left[1], p.read[1])
    BY <1>1 DEF Pairs
  <1>3. Item = p.left[1] /\ Rest = Tail(p.left) /\ todo # <<>>
    BY <1>1, <1>2 DEF Item, Rest
  <1>4. /\ sure \in Nat /\ sure' \in Nat /\ Fits(Pending(Items), Item)
        /\ Rest \in Seq(Pending(Items))
        /\ Tail(p.read) \in Seq(Items) \/ p.read = <<>>
    BY <1>2, <1>3, AllClosed, HeadAndTail DEF Typed, Framed
  <1>5. Item.op \in {"put", "putbits", "putguid", "has", "sent"}
    BY <1>2, <1>3 DEF Matches
  <1>6. /\ Write \/ Send \/ Branch
        /\ name \in Own /\ ~skew /\ ~wrong /\ marks = <<>>
    BY <1>3, <1>5, Writers DEF Together
  <1>7. /\ name' \in Own /\ ~skew' /\ ~wrong' /\ marks' = <<>> /\ outcome' = "reading"
    BY <1>6 DEF Write, Send, Branch, Going, Kept
  <1>8. SUFFICES (\E q, Q, R, m : Writing(M, q, Q, R, m)') \/ \E Q, R, m, k : Reading(Q, R, m, k)'
    BY <1>7 DEF Together
  <1>9. CASE Item.op = "sent"
    <2>1. Send
      BY <1>6, <1>9 DEF Write, Branch, At
    <2>2. /\ end' /\ todo' = Tail(p.left) /\ sure' = sure /\ bits' = bits /\ vals' = vals
      BY <1>3, <2>1 DEF Send
    <2>3. p.read = <<>> /\ Tail(p.left) = p.reader
      BY <1>2, <1>3, <1>9 DEF Matches
    <2>4. 1 \in 1 .. n
      BY <1>1 DEF Path
    <2>5. Reading(T, P, n, 1)'
      BY <1>1, <1>4, <2>2, <2>3, <2>4 DEF Reading
    <2>. QED  BY <2>5
  <1>10. CASE Item.op = "put"
    <2>1. Write
      BY <1>6, <1>10 DEF Send, Branch, At
    <2>2. /\ ~end' /\ todo' = Tail(p.left) /\ sure' = sure + Item.n /\ bits' = bits
          /\ vals' = vals /\ Item.n \in Nat
      BY <1>1, <1>3, <1>4, <1>10, <2>1 DEF Write, Fits
    <2>3. p.read # <<>> /\ Matches(M, p, Item, p.read[1])
      BY <1>2, <1>3, <1>10
    <2>4. PICK q \in M : /\ q.left = Tail(p.left) /\ q.read = Tail(p.read)
                         /\ q.reader = p.reader /\ q.named = p.named /\ q.chosen = p.chosen
      BY <1>10, <2>3, Gone DEF Matches
    <2>5. CASE p.read[1].op = "read" /\ p.read[1].n = Item.n
      <3>1. Reads(p.read, Tail(p.read), sure, sure', sure', bits', vals')
        BY <2>2, <2>3, <2>5 DEF Reads
      <3>2. sure <= sure'
        BY <1>4, <2>2
      <3>3. \E Q, R : Writing(M, q, Q, R, n + 1)'
        BY <1>1, <1>4, <2>2, <2>4, <2>5, <3>1, <3>2, WrittenOn
      <3>. QED  BY <3>3
    <2>6. CASE p.read[1] = Maybe(Item.n)
      <3>. DEFINE part == <<Read(Item.n)>> \o Tail(p.read)
      <3>1. /\ p.read[1].op = "ifleft" /\ p.read[1].n = Item.n
            /\ p.read[1].a = <<Read(Item.n)>>
        BY <2>6 DEF Maybe, IfLeft
      <3>2. Reads(p.read, part, sure, sure, sure', bits', vals')
        BY <1>4, <2>2, <2>3, <3>1 DEF Reads
      <3>3. Reads(part, Tail(p.read), sure, sure', sure', bits', vals')
        <4>1. part # <<>> /\ part[1] = Read(Item.n) /\ Tail(part) = Tail(p.read)
          BY <1>4, <2>3
        <4>2. Read(Item.n).op = "read" /\ Read(Item.n).n = Item.n
          BY DEF Read
        <4>. HIDE DEF part
        <4>. QED  BY <2>2, <4>1, <4>2 DEF Reads
      <3>. HIDE DEF part
      <3>4. Path(T, P, n, sure', bits', vals')
        BY <1>1, <1>4, <2>2, PathStays
      <3>5. PICK Q1, R1 : /\ Path(Q1, R1, n + 1, sure', bits', vals')
                          /\ Q1[1] = T[1] /\ Q1[n + 1] = part
                          /\ R1[1] = P[1] /\ R1[n + 1] = sure
                          /\ \A k \in 1 .. n : Q1[k] = T[k]
        <4>1. Reads(T[n], part, P[n], sure, sure', bits', vals')
          BY <1>1, <3>2
        <4>2. Onward(T, P, n, part, sure, sure', bits', vals')
          BY <1>4, <3>4, <4>1, PathGrows
        <4>. QED  BY <4>2 DEF Onward
      <3>6. PICK Q, R : /\ Path(Q, R, (n + 1) + 1, sure', bits', vals')
                        /\ Q[1] = Q1[1] /\ Q[(n + 1) + 1] = Tail(p.read)
                        /\ R[1] = R1[1] /\ R[(n + 1) + 1] = sure'
                        /\ \A k \in 1 .. n + 1 : Q[k] = Q1[k]
        <4>1. Reads(Q1[n + 1], Tail(p.read), R1[n + 1], sure', sure', bits', vals')
          BY <3>3, <3>5
        <4>2. Onward(Q1, R1, n + 1, Tail(p.read), sure', sure', bits', vals')
          BY <1>4, <3>5, <4>1, PathGrows
        <4>. QED  BY <4>2 DEF Onward
      <3>7. ASSUME ~q.chosen, NEW k \in 1 .. n + 1 PROVE Q[k][1].op # "has"
        <4>0. n \in Nat \ {0}
          BY <1>1 DEF Path
        <4>1. CASE k = n + 1
          <5>1. Q[k] = part
            BY <3>5, <3>6, <4>1
          <5>2. part[1] = Read(Item.n)
            BY <1>4, <2>3 DEF part
          <5>. QED  BY <5>1, <5>2 DEF Read
        <4>2. CASE k = n
          BY <1>1, <3>1, <3>5, <3>6, <4>0, <4>2
        <4>3. CASE k \in 1 .. n - 1
          BY <2>4, <3>5, <3>6, <3>7, <4>0, <4>3 DEF Writing
        <4>. QED  BY <4>0, <4>1, <4>2, <4>3
      <3>8. Writing(M, q, Q, R, (n + 1) + 1)'
        <4>1. ((n + 1) + 1) - 1 = n + 1
          BY <1>1 DEF Path
        <4>. QED  BY <1>1, <2>2, <2>4, <3>5, <3>6, <3>7, <4>1 DEF Writing
      <3>. QED  BY <3>8
    <2>. QED  BY <1>10, <2>3, <2>5, <2>6 DEF Matches
  <1>11. CASE Item.op = "putbits"
    <2>1. Write
      BY <1>6, <1>11 DEF Send, Branch, At
    <2>2. /\ ~end' /\ todo' = Tail(p.left) /\ sure' = sure + Item.n
          /\ vals' = vals /\ Item.n \in Nat
      BY <1>1, <1>3, <1>4, <1>11, <2>1 DEF Write, Fits
    <2>3. p.read # <<>> /\ Matches(M, p, Item, p.read[1])
      BY <1>2, <1>3, <1>11
    <2>4. /\ Goes(M, p, Tail(p.left), Tail(p.read), p.named, p.chosen)
          /\ p.read[1].op = "bits" /\ p.read[1].n = Item.n /\ Item.n > 0 /\ ~p.chosen
      BY <1>11, <2>3 DEF Matches
    <2>5. Reads(p.read, Tail(p.read), sure, sure', sure', bits', vals')
      BY <2>2, <2>3, <2>4 DEF Reads
    <2>6. PICK q \in M : /\ q.left = Tail(p.left) /\ q.read = Tail(p.read)
                         /\ q.reader = p.reader /\ q.named = p.named /\ q.chosen = p.chosen
      BY <2>4, Gone
    <2>7. sure <= sure'
      BY <1>4, <2>2
    <2>8. \E Q, R : Writing(M, q, Q, R, n + 1)'
      BY <1>1, <1>4, <2>2, <2>4, <2>5, <2>6, <2>7, WrittenOn
    <2>. QED  BY <2>8
  <1>12. CASE Item.op = "putguid"
    <2>1. Write
      BY <1>6, <1>12 DEF Send, Branch, At
    <2>2. PICK c \in GuidSizes : sure' = sure + c /\ vals' = With(Item.f, c)
      BY <1>12, <2>1 DEF Write
    <2>3. ~end' /\ todo' = Tail(p.left) /\ bits' = bits /\ c \in Nat \ {0}
      BY <1>1, <1>3, <1>12, <2>1, LayoutsAssumption DEF Write
    <2>4. p.read # <<>> /\ Matches(M, p, Item, p.read[1])
      BY <1>2, <1>3, <1>12
    <2>. DEFINE named == p.named \cup {Item.f}
    <2>5. /\ Goes(M, p, Tail(p.left), Tail(p.read), named, p.chosen)
          /\ p.read[1].op = "guidof" /\ p.read[1].f = Item.f /\ Item.f \notin p.named
      BY <1>12, <2>4 DEF Matches
    <2>6. /\ DOMAIN vals' = named /\ vals'[Item.f] = c /\ Item.f \in DOMAIN vals'
          /\ \A f \in DOMAIN vals : f \in DOMAIN vals' /\ vals'[f] = vals[f]
      BY <1>1, <2>2, <2>5 DEF With
    <2>7. Reads(p.read, Tail(p.read), sure, sure', sure', bits', vals')
      BY <2>2, <2>3, <2>4, <2>5, <2>6 DEF Reads
    <2>8. PICK q \in M : /\ q.left = Tail(p.left) /\ q.read = Tail(p.read)
                         /\ q.reader = p.reader /\ q.named = named /\ q.chosen = p.chosen
      BY <2>5, Gone
    <2>9. sure <= sure'
      BY <1>4, <2>2, <2>3
    <2>10. \E Q, R : Writing(M, q, Q, R, n + 1)'
      BY <1>1, <1>4, <2>2, <2>3, <2>5, <2>6, <2>7, <2>8, <2>9, WrittenOn
    <2>. QED  BY <2>10
  <1>13. CASE Item.op = "has"
    <2>1. Branch
      BY <1>6, <1>13 DEF Write, Send, At
    <2>. DEFINE part == IF bits \cap Item.v # {} THEN Item.a ELSE <<>>
                then == IF bits \cap Item.v # {} THEN p.read[1].a ELSE <<>>
                yes  == TRUE
                left == part \o Tail(p.left)
                read == then \o Tail(p.read)
    <2>2. /\ ~end' /\ todo' = left /\ sure' = sure
          /\ bits' = bits /\ vals' = vals
      BY <1>1, <1>3, <1>13, <2>1 DEF Branch
    <2>3. p.read # <<>> /\ Matches(M, p, Item, p.read[1])
      BY <1>2, <1>3, <1>13
    <2>4. /\ p.read[1].op = "has" /\ p.read[1].v = Item.v
          /\ Goes(M, p, Item.a \o Tail(p.left), p.read[1].a \o Tail(p.read), p.named, TRUE)
          /\ Goes(M, p, Tail(p.left), Tail(p.read), p.named, TRUE)
      BY <1>13, <2>3 DEF Matches
    <2>5. Goes(M, p, left, read, p.named, yes)
      <3>1. <<>> \o Tail(p.left) = Tail(p.left) /\ <<>> \o Tail(p.read) = Tail(p.read)
        BY <1>2, <2>3
      <3>. QED  BY <2>4, <3>1, Zenon
    <2>6. Reads(p.read, read, sure, sure', sure', bits', vals')
      BY <2>2, <2>3, <2>4 DEF Reads
    <2>. HIDE DEF left, read, yes
    <2>7. PICK q \in M : /\ q.left = left /\ q.read = read
                         /\ q.reader = p.reader /\ q.named = p.named /\ q.chosen = yes
      BY <2>5, Gone
    <2>8. sure <= sure'
      BY <1>4, <2>2
    <2>9. \E Q, R : Writing(M, q, Q, R, n + 1)'
      BY <1>1, <1>4, <2>2, <2>6, <2>7, <2>8, WrittenOn DEF yes
    <2>. QED  BY <2>9
  <1>. QED  BY <1>5, <1>9, <1>10, <1>11, <1>12, <1>13

-----------------------------------------------------------------------------
\* The reader follows the way.
LEMMA ReadOn ==
    ASSUME NEW T, NEW P, NEW n, NEW k, Reading(T, P, n, k), todo # <<>>,
           sure \in Nat, end', bits' = bits, vals' = vals,
           todo' = T[k + 1], sure' = sure - (P[k + 1] - P[k])
    PROVE  Reading(T, P, n, k + 1)'
  <1>1. /\ k \in 1 .. n /\ n \in Nat \ {0}
        /\ T[n] = <<>> /\ todo = T[k] /\ sure = P[n] - P[k]
        /\ Path(T, P, n, P[n], bits, vals)
        /\ \A j \in 1 .. n : P[j] \in Nat
    BY DEF Reading, Path
  <1>2. k + 1 \in 1 .. n
    BY <1>1
  <1>3. sure' = P[n] - P[k + 1]
    BY <1>1, <1>2
  <1>. QED  BY <1>1, <1>2, <1>3 DEF Reading

LEMMA ReadsOnward ==
    ASSUME NEW M, Typed(Pending(Items)), Typed(Pending(Items))',
           Together(M), outcome = "reading",
           NEW T, NEW P, NEW n, NEW k, Reading(T, P, n, k), Next
    PROVE  Together(M)'
  <1>1. /\ end /\ k \in 1 .. n /\ n \in Nat \ {0}
        /\ Path(T, P, n, P[n], bits, vals)
        /\ T[n] = <<>> /\ todo = T[k] /\ sure = P[n] - P[k]
        /\ P[n] \in Nat /\ P[k] \in Nat
    BY DEF Reading, Path
  <1>2. sure \in Nat /\ sure' \in Nat /\ name \in Own /\ ~skew /\ ~wrong /\ marks = <<>>
    BY DEF Together, Typed, Framed
  <1>3. CASE todo = <<>>
    <2>1. Finish
      BY <1>3 DEF Next, At, ReadBytes, ReadField, ReadFlags, ReadGuid, ReadText, ReadMany,
             Guard, GuardGuid, Leave, BranchOnLeft, Branch, LoopBegin, LoopTurn, LoopMany,
             LoopEnd, WhileTurn, Try, Done, Lose, Write, Send
    <2>2. k = n
      <3>1. k \in 1 .. n - 1 => T[k] # <<>>
        BY <1>1 DEF Path, Reads
      <3>. QED  BY <1>1, <1>3, <3>1
    <2>3. sure = 0
      BY <1>1, <2>2
    <2>. QED  BY <1>2, <2>1, <2>3 DEF Finish, Together
  <1>4. CASE todo # <<>>
    <2>1. k \in 1 .. n - 1 /\ k + 1 \in 1 .. n
      BY <1>1, <1>4
    <2>2. Reads(todo, T[k + 1], P[k], P[k + 1], P[n], bits, vals)
      BY <1>1, <2>1 DEF Path
    <2>3. /\ P[k + 1] \in Nat /\ P[k] <= P[k + 1] /\ P[k + 1] <= P[n]
      BY <1>1, <2>1 DEF Path
    <2>4. Item = todo[1] /\ Rest = Tail(todo)
      BY <1>4 DEF Item, Rest, Typed
    <2>5. Item.op \in {"read", "bits", "guidof", "ifleft", "has"}
      BY <2>2, <2>4 DEF Reads
    <2>6. ReadBytes \/ ReadFlags \/ ReadGuid \/ BranchOnLeft \/ Branch
      BY <1>4, <2>5, Readers
    <2>. SUFFICES /\ ~skew' /\ ~wrong' /\ marks' = <<>> /\ end'
                  /\ bits' = bits /\ vals' = vals
                  /\ todo' = T[k + 1] /\ sure' = sure - (P[k + 1] - P[k])
      <3>1. name' = name /\ outcome' = outcome
        BY <2>6 DEF ReadBytes, ReadFlags, ReadGuid, BranchOnLeft, Branch, Going
      <3>2. Reading(T, P, n, k + 1)'
        BY <1>2, <1>4, ReadOn
      <3>. QED  BY <1>2, <3>1, <3>2 DEF Together
    <2>7. ASSUME NEW c \in Nat, c <= sure, Take(c)
          PROVE  /\ sure' = sure - c /\ end' /\ ~skew' /\ ~wrong' /\ marks' = <<>>
      <3>1. PICK got \in (IF sure >= c THEN {c} ELSE IF end THEN {sure} ELSE {sure, c}) :
                /\ sure' = Larger(sure - c, 0)
                /\ end' = (end \/ got < c)
                /\ wrong' = (wrong \/ skew \/ (~FALSE /\ got < c))
                /\ skew' = skew /\ marks' = marks
        BY <2>7 DEF Take, TakeAs
      <3>2. got = c /\ sure - c >= 0 /\ ~(c < c)
        BY <1>2, <2>7, <3>1
      <3>3. sure' = sure - c
        BY <1>2, <3>1, <3>2 DEF Larger
      <3>. QED  BY <1>1, <1>2, <3>1, <3>2, <3>3
    <2>8. CASE Item.op \in {"read", "bits"}
      <3>1. /\ Item.n \in Nat /\ (Item.op = "bits" => Item.n > 0)
            /\ P[k + 1] = P[k] + Item.n /\ T[k + 1] = Rest
        BY <2>2, <2>4, <2>8 DEF Reads
      <3>2. Item.n <= sure /\ P[k + 1] - P[k] = Item.n
        BY <1>1, <2>3, <3>1
      <3>3. ReadBytes \/ ReadFlags
        BY <2>6, <2>8 DEF ReadGuid, BranchOnLeft, Branch, At
      <3>4. Take(Item.n) /\ todo' = Rest /\ vals' = vals
        BY <3>3 DEF ReadBytes, ReadFlags
      <3>5. bits' = bits
        <4>1. CASE ReadBytes
          BY <4>1 DEF ReadBytes
        <4>2. CASE ReadFlags
          <5>1. Item.n > 0
            BY <3>1, <4>2 DEF ReadFlags, At
          <5>2. ~Zeros
            BY <1>2, <3>1, <3>2, <5>1 DEF Zeros
          <5>. QED  BY <1>2, <4>2, <5>2 DEF ReadFlags
        <4>. QED  BY <3>3, <4>1, <4>2
      <3>. QED  BY <2>7, <3>1, <3>2, <3>4, <3>5
    <2>9. CASE Item.op = "guidof"
      <3>. DEFINE c == vals[Item.f]
      <3>1. /\ Item.f \in DOMAIN vals /\ c \in Nat \ {0}
            /\ P[k + 1] = P[k] + c /\ T[k + 1] = Rest
        BY <2>2, <2>4, <2>9 DEF Reads
      <3>2. c <= sure /\ P[k + 1] - P[k] = c
        BY <1>1, <2>3, <3>1
      <3>3. ReadGuid
        BY <2>6, <2>9 DEF ReadBytes, ReadFlags, BranchOnLeft, Branch, At
      <3>4. ~Zeros /\ Val(Item.f) = c
        BY <1>2, <3>1, <3>2 DEF Zeros, Val
      <3>5. Take(c) /\ todo' = Rest /\ vals' = vals /\ bits' = bits
        BY <2>9, <3>3, <3>4 DEF ReadGuid
      <3>. QED  BY <2>7, <3>1, <3>2, <3>5
    <2>10. CASE Item.op = "ifleft"
      <3>1. /\ Item.n \in Nat /\ P[k] + Item.n <= P[n]
            /\ P[k + 1] = P[k] /\ T[k + 1] = Item.a \o Rest
        BY <2>2, <2>4, <2>10 DEF Reads
      <3>2. Item.n <= sure
        BY <1>1, <3>1
      <3>3. BranchOnLeft
        BY <2>6, <2>10 DEF ReadBytes, ReadFlags, ReadGuid, Branch, At
      <3>4. Lacks(Item.n) = {}
        BY <1>1, <1>2, <3>1, <3>2 DEF Lacks
      <3>5. HasLeft(Item.n) /\ todo' = Item.a \o Rest
        BY <3>3, <3>4 DEF BranchOnLeft
      <3>6. sure' = sure /\ end'
        BY <1>1, <1>2, <3>1, <3>2, <3>5 DEF HasLeft, Larger
      <3>. QED  BY <1>1, <1>2, <3>1, <3>3, <3>5, <3>6 DEF BranchOnLeft, Kept
    <2>11. CASE Item.op = "has"
      <3>1. /\ P[k + 1] = P[k]
            /\ T[k + 1] = (IF bits \cap Item.v # {} THEN Item.a ELSE <<>>) \o Rest
        BY <2>2, <2>4, <2>11 DEF Reads
      <3>2. Branch
        BY <2>6, <2>11 DEF ReadBytes, ReadFlags, ReadGuid, BranchOnLeft, At
      <3>3. todo' = (IF bits \cap Item.v # {} THEN Item.a ELSE <<>>) \o Rest
        BY <2>11, <3>2 DEF Branch
      <3>. QED  BY <1>1, <1>2, <3>1, <3>2, <3>3 DEF Branch, Kept
    <2>. QED  BY <2>5, <2>8, <2>9, <2>10, <2>11
  <1>. QED  BY <1>3, <1>4

LEMMA TogetherStep ==
    ASSUME NEW M, Pairs(M, Items), Typed(Pending(Items)), Typed(Pending(Items))',
           Together(M), [Next]_vars
    PROVE  Together(M)'
  <1>1. CASE UNCHANGED vars
    <2>1. ASSUME NEW p, NEW T, NEW P, NEW n, Writing(M, p, T, P, n)
          PROVE  Writing(M, p, T, P, n)'
      BY <1>1, <2>1 DEF vars, Writing
    <2>2. ASSUME NEW T, NEW P, NEW n, NEW k, Reading(T, P, n, k)
          PROVE  Reading(T, P, n, k)'
      BY <1>1, <2>2 DEF vars, Reading
    <2>. QED  BY <1>1, <2>1, <2>2 DEF vars, Together
  <1>2. CASE Next /\ outcome = "reading"
    BY <1>2, WritesOn, ReadsOnward DEF Together
  <1>3. CASE Next /\ outcome = "accepted"
    BY <1>3 DEF Next, At, ReadBytes, ReadField, ReadFlags, ReadGuid, ReadText, ReadMany,
           Guard, GuardGuid, Leave, BranchOnLeft, Branch, LoopBegin, LoopTurn, LoopMany,
           LoopEnd, WhileTurn, Try, Done, Lose, Finish, Write, Send
  <1>. QED  BY <1>1, <1>2, <1>3 DEF Together

LEMMA TogetherInit ==
    ASSUME NEW M, Pairs(M, Items), Init, name \in Own, Mirrored(M, Layouts[name])
    PROVE  Together(M)
  <1>1. PICK p \in M : /\ p.left = Layouts[name] /\ p.read = p.reader
                       /\ p.named = {} /\ ~p.chosen
    BY DEF Mirrored
  <1>. DEFINE T == [k \in {1} |-> p.read]
              P == [k \in {1} |-> 0]
  <1>2. T[1] = p.read /\ P[1] = 0
    OBVIOUS
  <1>. HIDE DEF T, P
  <1>3. Path(T, P, 1, sure, bits, vals)
    BY <1>2 DEF Path
  <1>4. DOMAIN vals = {}
    BY DEF Init
  <1>5. Writing(M, p, T, P, 1)
    BY <1>1, <1>2, <1>3, <1>4 DEF Init, Writing
  <1>. QED  BY <1>5 DEF Init, Together

\* What this client writes, it reads: every field that its flags announce, and to
\* the last byte, whatever flags are set and however long the guids are, if writer
\* and reader go together item by item (write_movement_info() and
\* handle_movement_relay(), wow_session.cpp).
THEOREM OwnReadWhole ==
    ASSUME NEW M, Pairs(M, Items)
    PROVE  Spec => [](Mirrored(M, Layouts[name]) => OwnPacketsReadWhole)
  <1>. DEFINE Inv == name \in Own /\ Mirrored(M, Layouts[name]) => Together(M)
  <1>1. Init => Inv
    BY TogetherInit
  <1>2. Inv /\ Typed(Pending(Items)) /\ Typed(Pending(Items))' /\ [Next]_vars => Inv'
    <2>. SUFFICES ASSUME Inv, Typed(Pending(Items)), Typed(Pending(Items))', [Next]_vars,
                         name' \in Own, Mirrored(M, Layouts[name'])
                  PROVE  Together(M)'
      BY DEF Inv
    <2>1. name' = name
      BY DEF Next, vars, ReadBytes, ReadField, ReadFlags, ReadGuid, ReadText, ReadMany, Guard,
             GuardGuid, Leave, BranchOnLeft, Branch, LoopBegin, LoopTurn, LoopMany, LoopEnd,
             WhileTurn, Try, Done, Lose, Finish, Write, Send, Going
    <2>2. Together(M)
      BY <2>1
    <2>. QED  BY <2>2, TogetherStep
  <1>3. Inv => (Mirrored(M, Layouts[name]) => OwnPacketsReadWhole)
    BY DEF Together, OwnPacketsReadWhole
  <1>. HIDE DEF Inv
  <1>. QED  BY <1>1, <1>2, <1>3, ReaderTyped, PTL DEF Spec

=============================================================================
