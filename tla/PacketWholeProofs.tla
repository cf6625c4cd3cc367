------------------------- MODULE PacketWholeProofs -------------------------
(***************************************************************************)
(* That a parser which asks before it reads never accepts a packet with a  *)
(* number the sender did not write, for every layout whose text shows that *)
(* it asks (PacketDiscipline).                                             *)
(*                                                                         *)
(* The notes of a layout are put together as the reader puts layouts       *)
(* together: what is left to do always has a note for every item, from     *)
(* which the next one follows (Sound), and the first of them is true of    *)
(* the cursor (Known).  A parser that is tried has such notes for what is  *)
(* done when it fails (Retriable).                                         *)
(***************************************************************************)
EXTENDS PacketReaderProofs

\* A loop under way.
Live(it) == it.op \in {"loop", "while"} /\ it.t > 0

\* The loop that is left at item i is under way, and what is known behind it is
\* true wherever its last entry began.
Stops(s, g, i) ==
    \E j \in i .. Len(s) :
        /\ Live(s[j]) /\ \A h \in i .. j - 1 : ~Live(s[h])
        /\ Broken(g[j + 1]) /\ g[j + 1].tries = g[i].tries

\* Notes g for the items of s, and for the end of the parser.
Sound(O, s, g) ==
    /\ g \in Seq(Note) /\ Len(g) = Len(s) + 1
    /\ \A i \in 1 .. Len(s) : Covers(O, s[i], g[i], g[i + 1])
    /\ \A i \in 1 .. Len(s) : g[i].inLoop => Stops(s, g, i)
    /\ ~Late(g[Len(s) + 1]) /\ ~g[Len(s) + 1].inLoop

-----------------------------------------------------------------------------
\* Notes.
LEMMA EntailsTransitive ==
    ASSUME NEW m, m.left \in Nat, NEW n \in Note, NEW p \in Note, Entails(m, n), Entails(n, p)
    PROVE  Entails(m, p)
  BY DEF Note, Entails, Late

LEMMA EntailsItself == ASSUME NEW m \in Note PROVE Entails(m, m)
  BY DEF Note, Entails, Late

LEMMA NoteFields ==
    ASSUME NEW m \in Note
    PROVE  /\ m.left \in Nat /\ m.inLoop \in BOOLEAN /\ m.late \in BOOLEAN
           /\ m.lost \in BOOLEAN /\ m.tries \in Seq(BOOLEAN)
           /\ Late(m) \in BOOLEAN
           /\ m = [left |-> m.left, late |-> m.late, lost |-> m.lost, inLoop |-> m.inLoop,
                   tries |-> m.tries]
  <1>1. m.left \in Nat /\ m.inLoop \in BOOLEAN /\ m.late \in BOOLEAN
        /\ m.lost \in BOOLEAN /\ m.tries \in Seq(BOOLEAN)
        /\ m = [left |-> m.left, late |-> m.late, lost |-> m.lost, inLoop |-> m.inLoop,
                tries |-> m.tries]
    BY DEF Note
  <1>2. Late(m) \in BOOLEAN
    BY Zenon DEF Late
  <1>. QED  BY <1>1, <1>2

LEMMA NoteMade ==
    ASSUME NEW a \in Nat, NEW b \in BOOLEAN, NEW c \in BOOLEAN, NEW d \in BOOLEAN,
           NEW e \in Seq(BOOLEAN)
    PROVE  [left |-> a, late |-> b, lost |-> c, inLoop |-> d, tries |-> e] \in Note
  BY DEF Note

LEMMA NoteTried == ASSUME NEW m \in Note, NEW c \in BOOLEAN PROVE Tried(m, c) \in Note
  <1>1. m.tries \in Seq(BOOLEAN)
    BY NoteFields
  <1>2. Append(m.tries, c) \in Seq(BOOLEAN)
    BY <1>1, AppendProperties, Zenon
  <1>. DEFINE t == Append(m.tries, c)
  <1>. HIDE DEF t
  <1>3. [m EXCEPT !.inLoop = FALSE, !.tries = t] \in Note
    BY <1>2 DEF Note, t
  <1>. QED  BY <1>3 DEF Tried, t
LEMMA NoteHas == ASSUME NEW m \in Note, NEW n \in Nat PROVE Has(m, n).left \in Nat
  BY DEF Note, Has
LEMMA NoteTook == ASSUME NEW m \in Note, NEW n \in Nat PROVE Took(m, n).left \in Nat
  BY DEF Note, Took
LEMMA NoteLoop == ASSUME NEW m \in Note, NEW c \in BOOLEAN PROVE InLoop(m, c).left \in Nat
  BY DEF Note, InLoop
LEMMA NoteSpent == ASSUME NEW m \in Note, NEW c \in BOOLEAN PROVE Spent(m, c).left \in Nat
  BY DEF Note, Spent
LEMMA NoteLost == ASSUME NEW m \in Note PROVE [m EXCEPT !.lost = TRUE].left \in Nat
  BY DEF Note
LEMMA StartNote == Start \in Note
  BY DEF Start, Note

\* What an item's rule concludes may be weakened.
LEMMA WayWeaker ==
    ASSUME NEW O, NEW I, Outlines(O, I), NEW l, NEW m, NEW n \in Note, NEW p \in Note,
           Way(O, l, m, n), Entails(n, p)
    PROVE  Way(O, l, m, p)
  <1>1. PICK o \in O : o.layout = l /\ Entails(m, o.notes[1]) /\ Entails(End(o), n)
    BY DEF Way
  <1>2. End(o) \in Note
    BY DEF Outlines, End
  <1>3. Entails(End(o), p)
    BY <1>1, <1>2, NoteFields, EntailsTransitive
  <1>. QED  BY <1>1, <1>3 DEF Way

LEMMA TurningWeaker ==
    ASSUME NEW O, NEW I, Outlines(O, I), NEW k \in Nat, NEW body,
           NEW m \in Note, NEW n \in Note, NEW p \in Note, Entails(n, p),
           Turning(O, k, body, m, n)
    PROVE  Turning(O, k, body, m, p)
  <1>1. n.inLoop = p.inLoop /\ n.inLoop \in BOOLEAN
    BY NoteFields DEF Entails
  <1>2. Entails(InLoop(m, p.inLoop), p)
    BY <1>1, EntailsTransitive, NoteLoop DEF Turning
  <1>3. Broken(n) => Broken(p)
    BY DEF Broken, Entails, Note
  <1>. QED  BY <1>2, <1>3 DEF Turning

LEMMA EnteredWeaker ==
    ASSUME NEW O, NEW I, Outlines(O, I), NEW k \in Nat, NEW body,
           NEW m \in Note, NEW n \in Note, NEW p \in Note, Entails(n, p),
           Entered(O, k, body, m, n)
    PROVE  Entered(O, k, body, m, p)
  <1>1. PICK o \in O : /\ Entails(InLoop(m, End(o).inLoop), End(o))
                       /\ Turning(O, k, body, End(o), n)
    BY DEF Entered
  <1>2. End(o) \in Note
    BY DEF Outlines, End
  <1>3. Turning(O, k, body, End(o), p)
    BY <1>1, <1>2, TurningWeaker
  <1>4. m.inLoop = p.inLoop
    BY DEF Entered, Entails
  <1>. QED  BY <1>1, <1>3, <1>4 DEF Entered

LEMMA CoversWeaker ==
    ASSUME NEW O, NEW I, Outlines(O, I), NEW P, NEW it, Fits(P, it),
           NEW m \in Note, NEW n \in Note, NEW p \in Note,
           Covers(O, it, m, n), Entails(n, p)
    PROVE  Covers(O, it, m, p)
  <1>a. /\ n.lost => p.lost
        /\ n.tries = p.tries
        /\ n.inLoop = p.inLoop
    BY DEF Entails
  <1>1. ASSUME NEW x, x.left \in Nat, Entails(x, n) PROVE Entails(x, p)
    BY <1>1, EntailsTransitive
  <1>2. ASSUME NEW l, NEW x, Way(O, l, x, n) PROVE Way(O, l, x, p)
    BY <1>2, WayWeaker
  <1>3. CASE it.op \in {"read", "field", "bits"} /\ ~m.lost /\ Entails(Took(m, it.n), n)
    BY <1>1, <1>3, NoteTook DEF Fits, Covers
  <1>4. CASE it.op = "guid" /\ ~m.lost /\ Entails(Took(m, 9), n)
    BY <1>1, <1>4, NoteTook DEF Covers
  <1>5. CASE it.op = "text" /\ ~m.lost /\ Entails(Spent(m, Late(m)), n)
    BY <1>1, <1>5, NoteSpent, NoteFields DEF Covers
  <1>6. CASE it.op = "bytes" /\ ~m.lost /\ Entails(Spent(m, TRUE), n)
    BY <1>1, <1>6, NoteSpent DEF Covers
  <1>7. CASE it.op = "guard" /\ MayLeave(m, it.else) /\ Entails(Has(m, it.n), n)
    BY <1>1, <1>7, NoteHas DEF Fits, Covers
  <1>8. CASE it.op = "needeach" /\ MayLeave(m, it.else) /\ Entails(Has(m, it.k), n)
    BY <1>1, <1>8, NoteHas DEF Fits, Covers
  <1>9. CASE /\ it.op = "fullguid" /\ ~m.lost /\ MayLeave(m, it.else)
             /\ Entails(Spent(m, FALSE), n)
    BY <1>1, <1>9, NoteSpent DEF Covers
  <1>10. CASE it.op = "leave" /\ MayLeave(m, it.else)
    BY <1>10 DEF Covers
  <1>11. CASE it.op = "ifleft" /\ Way(O, it.a, Has(m, it.n), n) /\ Way(O, it.b, m, n)
    BY <1>2, <1>11 DEF Covers
  <1>12. CASE it.op = "if" /\ Way(O, it.a, m, n) /\ Way(O, it.b, m, n)
    BY <1>2, <1>12 DEF Covers
  <1>13. CASE it.op = "has" /\ Way(O, it.a, m, n) /\ Entails(m, n)
    BY <1>1, <1>2, <1>13, NoteFields DEF Covers
  <1>14. CASE it.op = "oneof" /\ \A i \in DOMAIN it.cases : Way(O, it.cases[i], m, n)
    BY <1>2, <1>14 DEF Covers
  <1>15. CASE it.op = "times" /\ (it.cap # NoCap => n.lost) /\ Entered(O, 0, it.body, m, n)
    BY <1>a, <1>15, EnteredWeaker DEF Covers
  <1>16. CASE /\ it.op = "loop" /\ it.t = 0 /\ (it.more => n.lost)
              /\ Entered(O, 0, it.body, m, n)
    BY <1>a, <1>16, EnteredWeaker DEF Covers
  <1>17. CASE /\ it.op = "loop" /\ it.t > 0 /\ (it.more => n.lost)
              /\ Turning(O, 0, it.body, m, n)
    BY <1>a, <1>17, TurningWeaker DEF Covers
  <1>18. CASE it.op = "while" /\ it.t = 0 /\ Entered(O, it.n, it.body, m, n)
    BY <1>18, EnteredWeaker DEF Covers, Fits
  <1>19. CASE it.op = "while" /\ it.t > 0 /\ Turning(O, it.n, it.body, m, n)
    BY <1>19, TurningWeaker DEF Covers, Fits
  <1>20. CASE /\ it.op = "try" /\ ~Late(m)
              /\ Way(O, it.a, Tried(m, it.back), Tried(n, it.back))
              /\ Way(O, it.b, Spent(m, FALSE), n)
    <2>1. it.back \in BOOLEAN
      BY <1>20 DEF Fits
    <2>2. Tried(n, it.back) \in Note /\ Tried(p, it.back) \in Note
      BY <2>1, NoteTried
    <2>3. Entails(Tried(n, it.back), Tried(p, it.back))
      BY <2>1 DEF Entails, Tried, Late, Note
    <2>4. Way(O, it.a, Tried(m, it.back), Tried(p, it.back))
      BY <1>20, <2>2, <2>3, WayWeaker
    <2>. QED  BY <1>2, <1>20, <2>4 DEF Covers
  <1>21. CASE /\ it.op = "done" /\ \E back \in BOOLEAN : m.tries = Append(n.tries, back)
              /\ Entails([m EXCEPT !.inLoop = n.inLoop, !.tries = n.tries], n)
    <2>1. [m EXCEPT !.inLoop = n.inLoop, !.tries = n.tries].left \in Nat
      BY DEF Note
    <2>2. Entails([m EXCEPT !.inLoop = n.inLoop, !.tries = n.tries], p)
      BY <1>1, <1>21, <2>1
    <2>. QED  BY <1>a, <1>21, <2>2 DEF Covers
  <1>22. CASE it.op = "lost" /\ Entails([m EXCEPT !.lost = TRUE], n)
    BY <1>1, <1>22, NoteLost DEF Covers
  <1>. QED
    BY <1>3, <1>4, <1>5, <1>6, <1>7, <1>8, <1>9, <1>10, <1>11, <1>12, <1>13, <1>14, <1>15,
       <1>16, <1>17, <1>18, <1>19, <1>20, <1>21, <1>22 DEF Covers

-----------------------------------------------------------------------------
\* Notes for what is left to do: behind an item, before one more, and before the
\* parts of one.
LEMMA SoundBehind ==
    ASSUME NEW O, NEW P, NEW s \in Seq(P), NEW g, Sound(O, s, g), NEW j \in 0 .. Len(s)
    PROVE  LET r == SubSeq(s, j + 1, Len(s))
               h == SubSeq(g, j + 1, Len(s) + 1)
           IN  Sound(O, r, h) /\ h[1] = g[j + 1]
  <1>. DEFINE r == SubSeq(s, j + 1, Len(s))
              h == SubSeq(g, j + 1, Len(s) + 1)
  <1>1. /\ g \in Seq(Note) /\ Len(g) = Len(s) + 1 /\ Len(s) \in Nat /\ j \in Nat
        /\ j <= Len(s)
    BY DEF Sound
  <1>2. Len(r) = Len(s) - j /\ \A i \in 1 .. Len(s) - j : r[i] = s[i + j]
    BY <1>1
  <1>3. /\ h \in Seq(Note) /\ Len(h) = Len(s) - j + 1
        /\ \A i \in 1 .. Len(s) - j + 1 : h[i] = g[i + j]
    BY <1>1
  <1>. HIDE DEF r, h
  <1>4. ASSUME NEW i \in 1 .. Len(s) - j
        PROVE  Covers(O, r[i], h[i], h[i + 1])
    <2>1. i + j \in 1 .. Len(s) /\ i + 1 \in 1 .. Len(s) - j + 1
          /\ (i + 1) + j = (i + j) + 1 /\ i \in 1 .. Len(s) - j + 1
      BY <1>1
    <2>2. Covers(O, s[i + j], g[i + j], g[(i + j) + 1])
      BY <2>1 DEF Sound
    <2>. QED  BY <1>2, <1>3, <2>1, <2>2
  <1>5. ASSUME NEW i \in 1 .. Len(s) - j, h[i].inLoop
        PROVE  Stops(r, h, i)
    <2>1. i + j \in 1 .. Len(s) /\ h[i] = g[i + j]
      BY <1>1, <1>3
    <2>2. Stops(s, g, i + j)
      BY <1>5, <2>1 DEF Sound
    <2>3. PICK q \in i + j .. Len(s) :
             /\ Live(s[q]) /\ \A x \in i + j .. q - 1 : ~Live(s[x])
             /\ Broken(g[q + 1]) /\ g[q + 1].tries = g[i + j].tries
      BY <2>2 DEF Stops
    <2>4. PICK z \in i .. Len(s) - j : z = q - j
      BY <1>1
    <2>5. r[z] = s[q] /\ h[z + 1] = g[q + 1]
      BY <1>1, <1>2, <1>3, <2>4
    <2>6. ASSUME NEW x \in i .. z - 1 PROVE ~Live(r[x])
      <3>1. x + j \in i + j .. q - 1 /\ x \in 1 .. Len(s) - j
        BY <1>1, <2>4
      <3>. QED  BY <1>2, <2>3, <3>1
    <2>. QED  BY <1>2, <2>1, <2>3, <2>4, <2>5, <2>6 DEF Stops
  <1>6. h[Len(r) + 1] = g[Len(s) + 1]
    BY <1>1, <1>2, <1>3
  <1>7. h[1] = g[j + 1]
    <2>1. 1 \in 1 .. Len(s) - j + 1 /\ 1 + j = j + 1
      BY <1>1
    <2>. QED  BY <1>3, <2>1
  <1>8. Sound(O, r, h)
    BY <1>2, <1>3, <1>4, <1>5, <1>6 DEF Sound
  <1>. QED  BY <1>7, <1>8 DEF r, h

LEMMA SoundTail ==
    ASSUME NEW O, NEW P, NEW s \in Seq(P), s # <<>>, NEW g, Sound(O, s, g)
    PROVE  Sound(O, Tail(s), Tail(g)) /\ Tail(g)[1] = g[2]
  <1>1. 1 \in 0 .. Len(s) /\ g \in Seq(Note) /\ Len(g) = Len(s) + 1
    BY DEF Sound
  <1>2. Tail(s) = SubSeq(s, 1 + 1, Len(s)) /\ Tail(g) = SubSeq(g, 1 + 1, Len(s) + 1)
    BY <1>1
  <1>3. /\ Sound(O, SubSeq(s, 1 + 1, Len(s)), SubSeq(g, 1 + 1, Len(s) + 1))
        /\ SubSeq(g, 1 + 1, Len(s) + 1)[1] = g[1 + 1]
    BY <1>1, SoundBehind
  <1>4. g[1 + 1] = g[2]
    OBVIOUS
  <1>. QED  BY <1>2, <1>3, <1>4, Zenon

LEMMA SoundCons ==
    ASSUME NEW O, NEW P, NEW r \in Seq(P), NEW h, Sound(O, r, h),
           NEW x \in P, NEW m \in Note, Covers(O, x, m, h[1]),
           m.inLoop => /\ h[1].tries = m.tries
                       /\ IF Live(x) THEN Broken(h[1]) ELSE h[1].inLoop
    PROVE  Sound(O, <<x>> \o r, <<m>> \o h)
  <1>. DEFINE s == <<x>> \o r
              g == <<m>> \o h
  <1>1. h \in Seq(Note) /\ Len(h) = Len(r) + 1 /\ Len(r) \in Nat
    BY DEF Sound
  <1>2. /\ Len(s) = Len(r) + 1 /\ s[1] = x
        /\ \A i \in 1 .. Len(r) : s[i + 1] = r[i]
    OBVIOUS
  <1>3. /\ g \in Seq(Note) /\ Len(g) = Len(r) + 2 /\ g[1] = m
        /\ \A i \in 1 .. Len(r) + 1 : g[i + 1] = h[i]
    BY <1>1
  <1>. HIDE DEF s, g
  <1>4. ASSUME NEW i \in 1 .. Len(s)
        PROVE  Covers(O, s[i], g[i], g[i + 1])
    <2>1. CASE i = 1
      BY <1>1, <1>2, <1>3, <2>1
    <2>2. CASE i > 1
      <3>1. PICK k \in 1 .. Len(r) : i = k + 1
        <4>1. i - 1 \in 1 .. Len(r) /\ i = (i - 1) + 1
          BY <1>1, <1>2, <2>2
        <4>. QED  BY <4>1
      <3>2. Covers(O, r[k], h[k], h[k + 1])
        BY DEF Sound
      <3>3. k \in 1 .. Len(r) + 1 /\ k + 1 \in 1 .. Len(r) + 1
        BY <1>1
      <3>4. s[i] = r[k]
        BY <1>2, <3>1, Zenon
      <3>5. g[i] = h[k] /\ g[i + 1] = h[k + 1]
        BY <1>3, <3>1, <3>3, Zenon
      <3>. QED  BY <3>2, <3>4, <3>5, Zenon
    <2>. QED  BY <1>1, <1>2, <2>1, <2>2
  <1>5. ASSUME NEW k \in 1 .. Len(r), NEW i \in {1, k + 1}, Stops(r, h, k),
               i = 1 => k = 1 /\ ~Live(x) /\ h[1].tries = m.tries
        PROVE  Stops(s, g, i)
    <2>1. PICK q \in k .. Len(r) :
             /\ Live(r[q]) /\ \A y \in k .. q - 1 : ~Live(r[y])
             /\ Broken(h[q + 1]) /\ h[q + 1].tries = h[k].tries
      BY <1>5 DEF Stops
    <2>2. s[q + 1] = r[q] /\ g[(q + 1) + 1] = h[q + 1] /\ q + 1 \in i .. Len(s)
      <3>1. q \in 1 .. Len(r) /\ q + 1 \in 1 .. Len(r) + 1 /\ q + 1 \in i .. Len(r) + 1
        BY <1>1, <1>5
      <3>. QED  BY <1>2, <1>3, <3>1
    <2>3. ASSUME NEW y \in i .. (q + 1) - 1 PROVE ~Live(s[y])
      <3>1. CASE y = 1
        BY <1>2, <1>5, <3>1
      <3>2. CASE y > 1
        <4>1. PICK z \in k .. q - 1 : y = z + 1
          BY <1>5, <3>2
        <4>2. s[y] = r[z] /\ ~Live(r[z])
          BY <1>1, <1>2, <2>1, <4>1
        <4>. QED  BY <4>2
      <3>. QED  BY <3>1, <3>2
    <2>4. g[i].tries = h[k].tries
      <3>1. CASE i = 1
        BY <1>3, <1>5, <3>1
      <3>2. CASE i = k + 1
        BY <1>1, <1>3, <3>2
      <3>. QED  BY <3>1, <3>2
    <2>. QED  BY <2>1, <2>2, <2>3, <2>4 DEF Stops
  <1>6. ASSUME NEW i \in 1 .. Len(s), g[i].inLoop
        PROVE  Stops(s, g, i)
    <2>1. CASE i = 1 /\ Live(x)
      <3>1. Live(s[1]) /\ Broken(g[2]) /\ g[2].tries = g[1].tries
        BY <1>1, <1>2, <1>3, <1>6, <2>1
      <3>. QED  BY <1>1, <1>2, <2>1, <3>1 DEF Stops
    <2>2. CASE i = 1 /\ ~Live(x)
      <3>1. h[1].inLoop /\ h[1].tries = m.tries
        BY <1>3, <1>6, <2>2
      <3>2. 1 \in 1 .. Len(r)
        BY <1>1, <3>1 DEF Sound
      <3>3. Stops(r, h, 1)
        BY <3>1, <3>2 DEF Sound
      <3>. QED  BY <1>5, <2>2, <3>1, <3>2, <3>3
    <2>3. CASE i > 1
      <3>1. PICK k \in 1 .. Len(r) : i = k + 1
        BY <1>1, <1>2, <2>3
      <3>2. h[k].inLoop
        BY <1>1, <1>3, <1>6, <3>1
      <3>3. Stops(r, h, k)
        BY <3>2 DEF Sound
      <3>. QED  BY <1>5, <2>3, <3>1, <3>3
    <2>. QED  BY <1>1, <1>2, <2>1, <2>2, <2>3
  <1>7. g[Len(s) + 1] = h[Len(r) + 1]
    BY <1>1, <1>2, <1>3
  <1>8. Sound(O, s, g)
    BY <1>1, <1>2, <1>3, <1>4, <1>6, <1>7 DEF Sound
  <1>. QED  BY <1>8 DEF s, g

LEMMA SoundPrefix ==
    ASSUME NEW O, NEW I, Outlines(O, I), NEW Q, Closed(Q), I \subseteq Kinds(I), I \subseteq Q,
           NEW P, NEW r \in Seq(P), NEW h, Sound(O, r, h),
           NEW o \in O, Entails(End(o), h[1])
    PROVE  \E g : Sound(O, o.layout \o r, g) /\ Entails(o.notes[1], g[1])
  <1>. DEFINE l == o.layout
              n == Len(o.layout)
              s == l \o r
              g == [i \in 1 .. n + (Len(r) + 1) |-> IF i <= n THEN o.notes[i] ELSE h[i - n]]
  <1>1. /\ h \in Seq(Note) /\ Len(h) = Len(r) + 1 /\ Len(r) \in Nat
    BY DEF Sound
  <1>2. /\ l \in Seq(I) /\ n \in Nat /\ o.notes \in Seq(Note) /\ Len(o.notes) = n + 1
        /\ \A i \in 1 .. n : Covers(O, l[i], o.notes[i], o.notes[i + 1])
        /\ \A i \in 1 .. n + 1 : /\ o.notes[i].inLoop = o.notes[1].inLoop
                                 /\ o.notes[i].tries = o.notes[1].tries
        /\ End(o) = o.notes[n + 1]
    BY DEF Outlines, End
  <1>3. /\ Len(s) = n + Len(r)
        /\ \A i \in 1 .. n : s[i] = l[i]
        /\ \A i \in 1 .. Len(r) : s[i + n] = r[i]
    BY <1>2
  <1>. HIDE DEF s, n, l
  <1>4. /\ g \in Seq(Note) /\ Len(g) = n + Len(r) + 1
        /\ \A i \in 1 .. n : g[i] = o.notes[i]
        /\ \A i \in 1 .. Len(r) + 1 : g[i + n] = h[i]
    <2>1. ASSUME NEW i \in 1 .. n + (Len(r) + 1)
          PROVE  (IF i <= n THEN o.notes[i] ELSE h[i - n]) \in Note
      BY <1>1, <1>2
    <2>2. g \in [1 .. n + (Len(r) + 1) -> Note] /\ n + (Len(r) + 1) \in Nat
      BY <1>1, <1>2, <2>1
    <2>3. g \in Seq(Note) /\ Len(g) = n + (Len(r) + 1)
      BY <2>2
    <2>4. ASSUME NEW i \in 1 .. n PROVE g[i] = o.notes[i]
      BY <1>1, <1>2
    <2>5. ASSUME NEW i \in 1 .. Len(r) + 1 PROVE g[i + n] = h[i]
      <3>1. i + n \in 1 .. n + (Len(r) + 1) /\ ~(i + n <= n) /\ (i + n) - n = i
        BY <1>1, <1>2
      <3>. QED  BY <3>1
    <2>. HIDE DEF g
    <2>. QED  BY <1>1, <1>2, <2>3, <2>4, <2>5
  <1>. HIDE DEF g
  <1>5. \A i \in 1 .. n : Fits(Q, l[i]) /\ ~Live(l[i])
    <2>. SUFFICES ASSUME NEW i \in 1 .. n PROVE Fits(Q, l[i]) /\ ~Live(l[i])
      OBVIOUS
    <2>1. l[i] \in I
      BY <1>2 DEF n, l
    <2>2. Fits(Q, l[i])
      BY <2>1 DEF Closed
    <2>. QED  BY <2>1, <2>2, FreshItems DEF Live
  <1>6. ASSUME NEW i \in 1 .. n PROVE Covers(O, s[i], g[i], g[i + 1])
    <2>1. CASE i < n
      BY <1>2, <1>3, <1>4, <2>1
    <2>2. CASE i = n
      <3>1. g[i + 1] = h[1] /\ o.notes[i + 1] = End(o)
        BY <1>1, <1>2, <1>4, <2>2
      <3>2. Covers(O, l[i], o.notes[i], End(o))
        BY <1>2, <3>1
      <3>3. /\ o.notes[i] \in Note /\ End(o) \in Note /\ h[1] \in Note
        BY <1>1, <1>2
      <3>4. Covers(O, l[i], o.notes[i], h[1])
        BY <1>5, <3>2, <3>3, CoversWeaker
      <3>. QED  BY <1>3, <1>4, <3>1, <3>4
    <2>. QED  BY <1>2, <2>1, <2>2
  <1>7. ASSUME NEW i \in n + 1 .. Len(s) PROVE Covers(O, s[i], g[i], g[i + 1])
    <2>1. PICK k \in 1 .. Len(r) : i = k + n
      BY <1>1, <1>2, <1>3
    <2>2. Covers(O, r[k], h[k], h[k + 1])
      BY DEF Sound
    <2>3. g[i + 1] = h[k + 1]
      <3>1. i + 1 = (k + 1) + n /\ k + 1 \in 1 .. Len(r) + 1
        BY <1>1, <1>2, <2>1
      <3>. QED  BY <1>4, <3>1
    <2>. QED  BY <1>1, <1>3, <1>4, <2>1, <2>2, <2>3
  <1>8. ASSUME NEW i \in 1 .. n + Len(r), NEW k \in 1 .. Len(r), Stops(r, h, k),
               i = k + n \/ (k = 1 /\ i <= n), g[i].tries = h[k].tries
        PROVE  Stops(s, g, i)
    <2>1. PICK q \in k .. Len(r) :
             /\ Live(r[q]) /\ \A y \in k .. q - 1 : ~Live(r[y])
             /\ Broken(h[q + 1]) /\ h[q + 1].tries = h[k].tries
      BY <1>8 DEF Stops
    <2>2. q \in 1 .. Len(r) /\ q + 1 \in 1 .. Len(r) + 1
      BY <1>1
    <2>3. s[q + n] = r[q] /\ g[(q + n) + 1] = h[q + 1] /\ q + n \in i .. Len(s)
      <3>1. (q + n) + 1 = (q + 1) + n
        BY <1>2, <2>2
      <3>2. q + n \in i .. n + Len(r)
        BY <1>1, <1>2, <1>8, <2>2
      <3>. QED  BY <1>3, <1>4, <2>2, <3>1, <3>2
    <2>4. ASSUME NEW y \in i .. (q + n) - 1 PROVE ~Live(s[y])
      <3>1. CASE y <= n
        BY <1>2, <1>3, <1>5, <3>1
      <3>2. CASE y > n
        <4>1. PICK z \in k .. q - 1 : y = z + n
          <5>1. y - n \in k .. q - 1 /\ y = (y - n) + n
            BY <1>2, <1>8, <2>2, <3>2
          <5>. QED  BY <5>1
        <4>2. z \in 1 .. Len(r)
          BY <1>1, <2>2
        <4>3. s[y] = r[z]
          BY <1>3, <4>1, <4>2
        <4>4. ~Live(r[z])
          BY <2>1, Zenon
        <4>. QED  BY <4>3, <4>4, Zenon
      <3>. QED  BY <1>2, <3>1, <3>2
    <2>. QED  BY <1>8, <2>1, <2>3, <2>4 DEF Stops
  <1>9. ASSUME NEW i \in 1 .. n + Len(r), g[i].inLoop PROVE Stops(s, g, i)
    <2>1. CASE i <= n
      <3>1. /\ o.notes[i].inLoop /\ o.notes[i].tries = End(o).tries
            /\ o.notes[i].inLoop = End(o).inLoop
        <4>1. i \in 1 .. n /\ i \in 1 .. n + 1 /\ n + 1 \in 1 .. n + 1
          BY <1>2, <2>1
        <4>. QED  BY <1>2, <1>4, <1>9, <4>1
      <3>2. h[1].inLoop /\ h[1].tries = o.notes[i].tries
        BY <3>1 DEF Entails
      <3>3. 1 \in 1 .. Len(r)
        BY <1>1, <3>2 DEF Sound
      <3>4. Stops(r, h, 1) /\ g[i].tries = h[1].tries
        BY <1>2, <1>4, <2>1, <3>2, <3>3 DEF Sound
      <3>. QED  BY <1>8, <2>1, <3>3, <3>4
    <2>2. CASE i > n
      <3>1. PICK k \in 1 .. Len(r) : i = k + n
        <4>1. i - n \in 1 .. Len(r) /\ i = (i - n) + n
          BY <1>1, <1>2, <2>2
        <4>. QED  BY <4>1
      <3>2. g[i] = h[k]
        BY <1>1, <1>4, <3>1
      <3>3. Stops(r, h, k)
        BY <1>9, <3>2 DEF Sound
      <3>. QED  BY <1>8, <3>1, <3>2, <3>3
    <2>. QED  BY <1>2, <2>1, <2>2
  <1>10. g[Len(s) + 1] = h[Len(r) + 1]
    <2>1. Len(s) + 1 = (Len(r) + 1) + n /\ Len(r) + 1 \in 1 .. Len(r) + 1
      BY <1>1, <1>2, <1>3
    <2>. QED  BY <1>4, <2>1
  <1>11. Sound(O, s, g)
    <2>1. \A i \in 1 .. Len(s) : Covers(O, s[i], g[i], g[i + 1])
      BY <1>1, <1>2, <1>3, <1>6, <1>7
    <2>. QED  BY <1>1, <1>2, <1>3, <1>4, <1>9, <1>10, <2>1 DEF Sound
  <1>12. Entails(o.notes[1], g[1])
    <2>1. CASE n = 0
      BY <1>1, <1>2, <1>4, <2>1
    <2>2. CASE n > 0
      BY <1>2, <1>4, <2>2, EntailsItself
    <2>. QED  BY <1>2, <2>1, <2>2
  <1>. QED  BY <1>11, <1>12 DEF s, l

-----------------------------------------------------------------------------
\* What note m says of a state.
KnownOf(m, left, over, lost, mistaken) ==
    /\ left >= m.left
    /\ lost => m.lost
    /\ mistaken => m.late /\ over /\ left = 0
Known(m) == KnownOf(m, sure, end, skew, wrong)

\* The parsers that note m says are tried are those of the first i marks.
Backs(ms, tries, i) == Len(tries) = i /\ \A j \in 1 .. i : tries[j] = ms[j].back

\* After the parser of mark i another one can be tried.
Retriable(O, ms, i) ==
    /\ ~ms[i].wrong
    /\ \E g : /\ Sound(O, ms[i].other, g)
              /\ g[1].left = 0 /\ (ms[i].skew => g[1].lost)
              /\ Backs(ms, g[1].tries, i - 1)

\* The inductive invariant.
Whole(O) ==
    /\ outcome = "reading" =>
           /\ \E g : /\ Sound(O, todo, g) /\ Known(g[1])
                     /\ Backs(marks, g[1].tries, Len(marks))
           /\ \A i \in 1 .. Len(marks) : Retriable(O, marks, i)
    /\ outcome = "accepted" => ~wrong

LEMMA KnownWeaker ==
    ASSUME NEW m, m.left \in Nat, NEW n \in Note, Entails(m, n),
           NEW left \in Nat, NEW over \in BOOLEAN, NEW lost \in BOOLEAN,
           NEW mistaken \in BOOLEAN, KnownOf(m, left, over, lost, mistaken)
    PROVE  KnownOf(n, left, over, lost, mistaken)
  <1>1. left >= n.left
    BY DEF Note, Entails, KnownOf
  <1>2. lost => n.lost
    BY Zenon DEF Entails, KnownOf
  <1>3. mistaken => n.late /\ over /\ left = 0
    <2>. SUFFICES ASSUME mistaken PROVE n.late /\ over /\ left = 0
      OBVIOUS
    <2>1. m.late /\ over /\ left = 0 /\ left >= m.left
      BY DEF KnownOf
    <2>2. m.left = 0
      BY <2>1
    <2>. QED  BY <2>1, <2>2, Zenon DEF Entails, Late
  <1>. QED  BY <1>1, <1>2, <1>3 DEF KnownOf

\* A note that is not late says that nothing wrong was read.
LEMMA KnownNotLate ==
    ASSUME NEW m \in Note, Known(m), sure \in Nat, ~Late(m)
    PROVE  ~wrong
  BY DEF Note, Known, KnownOf, Late

LEMMA HasKnown ==
    ASSUME NEW m \in Note, Known(m), sure \in Nat, NEW n \in Nat, HasLeft(n),
           UNCHANGED <<skew, wrong>>
    PROVE  KnownOf(Has(m, n), sure', end', skew', wrong')
  <1>1. Has(m, n).left = (IF n > m.left THEN n ELSE m.left) /\ Has(m, n).lost = m.lost
    BY DEF Note, Has
  <1>2. Has(m, n).late = (Late(m) /\ n = 0)
    BY DEF Note, Has
  <1>3. sure' >= Has(m, n).left
    BY <1>1 DEF HasLeft, Larger, Known, KnownOf, Note
  <1>4. ASSUME wrong' PROVE Late(m) /\ n = 0 /\ end' /\ sure' = 0
    BY <1>4 DEF HasLeft, Larger, Known, KnownOf, Note, Late
  <1>. QED  BY <1>1, <1>2, <1>3, <1>4 DEF KnownOf, Known

LEMMA LacksKnown ==
    ASSUME NEW m \in Note, Known(m), sure \in Nat, NEW n \in Nat, NEW left \in Lacks(n)
    PROVE  /\ left \in Nat
           /\ wrong => left = 0
           /\ KnownOf(m, left, TRUE, skew, wrong)
  BY DEF Lacks, Known, KnownOf, Note

\* A read: nothing wrong comes of it but what is missing or where the cursor is
\* lost.
LEMMA Taken ==
    ASSUME sure \in Nat, end \in BOOLEAN, wrong \in BOOLEAN, skew \in BOOLEAN,
           NEW n \in Nat, NEW asFar \in BOOLEAN, TakeAs(n, asFar)
    PROVE  /\ sure' \in Nat /\ sure' = Larger(sure - n, 0) /\ skew' = skew
           /\ end => end'
           /\ wrong' => wrong \/ skew \/ (~asFar /\ ~(n <= sure) /\ end' /\ sure' = 0)
  <1>1. PICK got \in IF sure >= n THEN {n} ELSE IF end THEN {sure} ELSE {sure, n} :
            /\ sure' = Larger(sure - n, 0)
            /\ end' = (end \/ got < n)
            /\ wrong' = (wrong \/ skew \/ (~asFar /\ got < n))
            /\ skew' = skew
    BY DEF TakeAs
  <1>2. sure' \in Nat
    BY <1>1 DEF Larger
  <1>3. end => end'
    BY <1>1, Zenon
  <1>4. ASSUME got < n PROVE ~(n <= sure) /\ sure' = 0
    <2>1. ~(n <= sure)
      BY <1>1, <1>4
    <2>. QED  BY <1>1, <2>1 DEF Larger
  <1>5. wrong' => wrong \/ skew \/ (~asFar /\ ~(n <= sure) /\ end' /\ sure' = 0)
    BY <1>1, <1>4, Zenon
  <1>. QED  BY <1>1, <1>2, <1>3, <1>5

\* A number of at most w bytes.
LEMMA TookKnown ==
    ASSUME NEW m \in Note, Known(m), ~m.lost, sure \in Nat, end \in BOOLEAN,
           wrong \in BOOLEAN, skew \in BOOLEAN, NEW w \in Nat, NEW n \in 0 .. w, Take(n)
    PROVE  KnownOf(Took(m, w), sure', end', skew', wrong')
  <1>a. n \in Nat
    OBVIOUS
  <1>1. n \in Nat /\ TakeAs(n, FALSE)
    BY <1>a, Zenon DEF Take
  <1>2. /\ sure' \in Nat /\ sure' = Larger(sure - n, 0) /\ skew' = skew
        /\ end => end'
        /\ wrong' => wrong \/ skew \/ (~(n <= sure) /\ end' /\ sure' = 0)
    BY <1>1, Taken
  <1>3. m.left \in Nat /\ sure >= m.left /\ (skew => m.lost)
    BY NoteFields DEF Known, KnownOf
  <1>4. ~skew /\ ~skew'
    BY <1>2, <1>3
  <1>5. ASSUME wrong PROVE Late(m) /\ end' /\ sure' = 0
    <2>1. m.late /\ end /\ sure = 0
      BY <1>5, Zenon DEF Known, KnownOf
    <2>2. m.left = 0 /\ sure' = 0
      BY <1>2, <1>3, <2>1 DEF Larger
    <2>. QED  BY <1>2, <2>1, <2>2, Zenon DEF Late
  <1>6. CASE w <= m.left
    <2>1. /\ Took(m, w).left = m.left - w /\ Took(m, w).lost = m.lost
          /\ Took(m, w).late = Late(m)
      BY <1>6 DEF Note, Took
    <2>2. n <= sure /\ sure' = sure - n
      BY <1>2, <1>3, <1>6 DEF Larger
    <2>3. sure' >= Took(m, w).left
      BY <1>3, <2>1, <2>2
    <2>4. wrong' => Late(m) /\ end' /\ sure' = 0
      BY <1>2, <1>4, <1>5, <2>2
    <2>5. wrong' => Took(m, w).late /\ end' /\ sure' = 0
      BY <2>1, <2>4
    <2>. QED  BY <1>4, <2>3, <2>5 DEF KnownOf
  <1>7. CASE ~(w <= m.left)
    <2>1. Took(m, w).left = 0 /\ Took(m, w).late
      BY <1>7 DEF Note, Took
    <2>2. wrong' => end' /\ sure' = 0
      BY <1>2, <1>4, <1>5
    <2>3. sure' >= Took(m, w).left
      BY <1>2, <2>1
    <2>. QED  BY <1>4, <2>1, <2>2, <2>3 DEF KnownOf
  <1>. QED  BY <1>6, <1>7

\* Any number of bytes, of which some may be missing: when that does not matter,
\* nothing wrong is read.
LEMMA SpentKnown ==
    ASSUME NEW m \in Note, Known(m), ~m.lost, sure \in Nat, end \in BOOLEAN,
           wrong \in BOOLEAN, skew \in BOOLEAN, NEW n \in Nat,
           NEW asFar \in BOOLEAN, TakeAs(n, asFar)
    PROVE  /\ KnownOf(Spent(m, TRUE), sure', end', skew', wrong')
           /\ asFar => KnownOf(Spent(m, Late(m)), sure', end', skew', wrong')
  <1>1. /\ sure' \in Nat /\ sure' = Larger(sure - n, 0) /\ skew' = skew
        /\ end => end'
        /\ wrong' => wrong \/ skew \/ (~asFar /\ ~(n <= sure) /\ end' /\ sure' = 0)
    BY Taken
  <1>2. m.left \in Nat /\ sure >= m.left /\ (skew => m.lost)
    BY NoteFields DEF Known, KnownOf
  <1>3. ~skew /\ ~skew'
    BY <1>1, <1>2
  <1>4. ASSUME NEW c \in BOOLEAN
        PROVE  Spent(m, c).left = 0 /\ Spent(m, c).late = c
    BY DEF Note, Spent
  <1>5. ASSUME wrong PROVE Late(m) /\ end' /\ sure' = 0
    <2>1. m.late /\ end /\ sure = 0
      BY <1>5, Zenon DEF Known, KnownOf
    <2>2. m.left = 0 /\ sure' = 0
      BY <1>1, <1>2, <2>1 DEF Larger
    <2>. QED  BY <1>1, <2>1, <2>2, Zenon DEF Late
  <1>6. KnownOf(Spent(m, TRUE), sure', end', skew', wrong')
    <2>1. wrong' => end' /\ sure' = 0
      BY <1>1, <1>3, <1>5
    <2>2. Spent(m, TRUE).left = 0 /\ Spent(m, TRUE).late
      BY <1>4
    <2>3. Spent(m, TRUE).left = 0
      BY <1>4
    <2>4. sure' >= Spent(m, TRUE).left
      <3>1. sure' >= 0
        BY <1>1
      <3>. QED  BY <2>3, <3>1, Zenon
    <2>. QED  BY <1>3, <2>1, <2>2, <2>4 DEF KnownOf
  <1>7. ASSUME asFar PROVE KnownOf(Spent(m, Late(m)), sure', end', skew', wrong')
    <2>1. wrong' => Late(m) /\ end' /\ sure' = 0
      BY <1>1, <1>3, <1>5, <1>7
    <2>2. Spent(m, Late(m)).left = 0 /\ Spent(m, Late(m)).late = Late(m)
      BY <1>4, NoteFields
    <2>3. sure' >= Spent(m, Late(m)).left
      BY <1>1, <2>2
    <2>4. wrong' => Spent(m, Late(m)).late /\ end' /\ sure' = 0
      BY <2>1, <2>2
    <2>. QED  BY <1>3, <2>3, <2>4 DEF KnownOf
  <1>. QED  BY <1>6, <1>7

-----------------------------------------------------------------------------

\* Notes for what is left to do, true now.
Followed(O, g) ==
    /\ Sound(O, todo, g) /\ Known(g[1])
    /\ Backs(marks, g[1].tries, Len(marks))

\* Notes for what is left to do next keep the invariant, with the same parsers
\* tried.
LEMMA Onward ==
    ASSUME NEW O, Whole(O), outcome = "reading", outcome' = outcome, marks' = marks,
           NEW g, Followed(O, g), NEW h, Sound(O, todo', h),
           KnownOf(h[1], sure', end', skew', wrong'), h[1].tries = g[1].tries
    PROVE  Whole(O)'
  <1>1. Known(h[1])'
    BY DEF Known
  <1>2. Backs(marks, h[1].tries, Len(marks))'
    BY Zenon DEF Followed
  <1>3. \A i \in 1 .. Len(marks') : Retriable(O, marks', i)
    BY Zenon DEF Whole
  <1>4. outcome' = "reading" /\ outcome' # "accepted"
    OBVIOUS
  <1>. QED  BY <1>1, <1>2, <1>3, <1>4, Zenon DEF Whole

LEMMA AtItem ==
    ASSUME NEW O, Typed(Pending(Items)), todo # <<>>, NEW g, Followed(O, g)
    PROVE  /\ g[1] \in Note /\ g[2] \in Note
           /\ Covers(O, Item, g[1], g[2]) /\ Fits(Pending(Items), Item)
           /\ Item \in Pending(Items) /\ Rest \in Seq(Pending(Items))
           /\ Sound(O, Rest, Tail(g)) /\ Tail(g)[1] = g[2]
           /\ g[1].inLoop => Stops(todo, g, 1)
           /\ Known(g[1]) /\ g[1].left \in Nat /\ g[1].tries \in Seq(BOOLEAN)
  <1>1. todo \in Seq(Pending(Items)) /\ Sound(O, todo, g) /\ Known(g[1])
    BY DEF Typed, Followed
  <1>2. /\ g \in Seq(Note) /\ Len(g) = Len(todo) + 1 /\ 1 \in 1 .. Len(todo)
        /\ Item = todo[1]
    BY <1>1 DEF Sound, Item
  <1>3. g[1] \in Note /\ g[2] \in Note
    BY <1>2
  <1>4. Covers(O, Item, g[1], g[1 + 1]) /\ (g[1].inLoop => Stops(todo, g, 1))
    BY <1>1, <1>2 DEF Sound
  <1>5. Sound(O, Rest, Tail(g)) /\ Tail(g)[1] = g[2]
    BY <1>1, SoundTail DEF Rest
  <1>6. Item \in Pending(Items) /\ Fits(Pending(Items), Item) /\ Rest \in Seq(Pending(Items))
    BY AllClosed, HeadAndTail
  <1>7. g[1].left \in Nat /\ g[1].tries \in Seq(BOOLEAN)
    BY <1>3, NoteFields
  <1>8. g[1 + 1] = g[2]
    OBVIOUS
  <1>9. Covers(O, Item, g[1], g[2])
    BY <1>4, <1>8, Zenon
  <1>. QED  BY <1>1, <1>3, <1>4, <1>5, <1>6, <1>7, <1>9, Zenon

\* The next item; a part of this one before it.
LEMMA StepOn ==
    ASSUME NEW O, Typed(Pending(Items)), Typed(Pending(Items))', Whole(O),
           outcome = "reading", todo # <<>>, outcome' = outcome, marks' = marks,
           NEW g, Followed(O, g), todo' = Rest,
           NEW x, x.left \in Nat, x.tries = g[1].tries, Entails(x, g[2]),
           KnownOf(x, sure', end', skew', wrong')
    PROVE  Whole(O)'
  <1>1. g[2] \in Note /\ Sound(O, Rest, Tail(g)) /\ Tail(g)[1] = g[2]
    BY AtItem
  <1>2. /\ sure' \in Nat /\ end' \in BOOLEAN /\ skew' \in BOOLEAN /\ wrong' \in BOOLEAN
    BY DEF Typed, Framed
  <1>3. KnownOf(g[2], sure', end', skew', wrong')
    BY <1>1, <1>2, KnownWeaker
  <1>4. g[2].tries = g[1].tries
    BY Zenon DEF Entails
  <1>. QED  BY <1>1, <1>3, <1>4, Onward

LEMMA StepWay ==
    ASSUME NEW O, Outlines(O, Items), Typed(Pending(Items)), Typed(Pending(Items))', Whole(O),
           outcome = "reading", todo # <<>>, outcome' = outcome, marks' = marks,
           NEW g, Followed(O, g), NEW l, todo' = l \o Rest,
           NEW x, x.left \in Nat, x.tries = g[1].tries, Way(O, l, x, g[2]),
           KnownOf(x, sure', end', skew', wrong')
    PROVE  Whole(O)'
  <1>1. /\ g[2] \in Note /\ Sound(O, Rest, Tail(g)) /\ Tail(g)[1] = g[2]
        /\ Rest \in Seq(Pending(Items))
    BY AtItem
  <1>2. /\ sure' \in Nat /\ end' \in BOOLEAN /\ skew' \in BOOLEAN /\ wrong' \in BOOLEAN
    BY DEF Typed, Framed
  <1>3. PICK o \in O : o.layout = l /\ Entails(x, o.notes[1]) /\ Entails(End(o), g[2])
    BY DEF Way
  <1>4. Closed(Pending(Items)) /\ Items \subseteq Kinds(Items) /\ Items \subseteq Pending(Items)
    BY AllClosed, LayoutsAssumption DEF Pending
  <1>5. Entails(End(o), Tail(g)[1])
    BY <1>1, <1>3
  <1>6. PICK h : Sound(O, o.layout \o Rest, h) /\ Entails(o.notes[1], h[1])
    BY <1>1, <1>4, <1>5, SoundPrefix
  <1>7. o.notes[1] \in Note /\ h[1] \in Note
    <2>1. o.notes \in Seq(Note) /\ Len(o.notes) = Len(o.layout) + 1 /\ o.layout \in Seq(Items)
      BY DEF Outlines
    <2>2. h \in Seq(Note) /\ Len(h) = Len(o.layout \o Rest) + 1
      BY <1>6 DEF Sound
    <2>3. o.layout \o Rest \in Seq(Items \cup Pending(Items))
      BY <1>1, <2>1
    <2>. QED  BY <2>1, <2>2, <2>3
  <1>8. Entails(x, h[1])
    BY <1>3, <1>6, <1>7, EntailsTransitive
  <1>9. KnownOf(h[1], sure', end', skew', wrong')
    BY <1>2, <1>7, <1>8, KnownWeaker
  <1>10. h[1].tries = g[1].tries
    BY <1>8, Zenon DEF Entails
  <1>11. Sound(O, todo', h)
    BY <1>3, <1>6
  <1>. QED  BY <1>9, <1>10, <1>11, Onward

\* The next turn of a loop: note b at its beginning and at its end.
LEMMA StepTurn ==
    ASSUME NEW O, Outlines(O, Items), Typed(Pending(Items)), Typed(Pending(Items))', Whole(O),
           outcome = "reading", todo # <<>>, outcome' = outcome, marks' = marks,
           NEW g, Followed(O, g), NEW b \in Note, NEW n \in Nat, NEW body \in Seq(Pending(Items)),
           NEW x \in Pending(Items), Live(x), Covers(O, x, b, g[2]),
           Turning(O, n, body, b, g[2]), todo' = body \o <<x>> \o Rest,
           b.tries = g[1].tries, KnownOf(Has(b, n), sure', end', skew', wrong')
    PROVE  Whole(O)'
  <1>1. /\ g[2] \in Note /\ Sound(O, Rest, Tail(g)) /\ Tail(g)[1] = g[2]
        /\ Rest \in Seq(Pending(Items))
    BY AtItem
  <1>2. /\ sure' \in Nat /\ end' \in BOOLEAN /\ skew' \in BOOLEAN /\ wrong' \in BOOLEAN
    BY DEF Typed, Framed
  <1>3. Way(O, body, Has(b, n), b) /\ (b.inLoop => Broken(g[2]))
    BY DEF Turning
  <1>4. g[2].tries = b.tries
    <2>1. Entails(InLoop(b, g[2].inLoop), g[2])
      BY DEF Turning
    <2>2. InLoop(b, g[2].inLoop).tries = b.tries
      BY DEF InLoop, Note
    <2>. QED  BY <2>1, <2>2, Zenon DEF Entails
  <1>. DEFINE r == <<x>> \o Rest
              h == <<b>> \o Tail(g)
  <1>5. Sound(O, r, h)
    BY <1>1, <1>3, <1>4, SoundCons
  <1>6. r \in Seq(Pending(Items)) /\ body \o <<x>> \o Rest = body \o r
    BY <1>1
  <1>7. h[1] = b
    <2>1. Tail(g) \in Seq(Note)
      BY <1>1 DEF Sound
    <2>. QED  BY <2>1
  <1>. HIDE DEF r, h
  <1>8. PICK o \in O : o.layout = body /\ Entails(Has(b, n), o.notes[1]) /\ Entails(End(o), b)
    BY <1>3 DEF Way
  <1>9. Closed(Pending(Items)) /\ Items \subseteq Kinds(Items) /\ Items \subseteq Pending(Items)
    BY AllClosed, LayoutsAssumption DEF Pending
  <1>10. PICK k : Sound(O, o.layout \o r, k) /\ Entails(o.notes[1], k[1])
    BY <1>5, <1>6, <1>7, <1>8, <1>9, SoundPrefix
  <1>11. o.notes[1] \in Note /\ k[1] \in Note
    <2>1. o.notes \in Seq(Note) /\ Len(o.notes) = Len(o.layout) + 1 /\ o.layout \in Seq(Items)
      BY DEF Outlines
    <2>2. k \in Seq(Note) /\ Len(k) = Len(o.layout \o r) + 1
      BY <1>10 DEF Sound
    <2>3. o.layout \o r \in Seq(Items \cup Pending(Items))
      BY <1>6, <2>1
    <2>. QED  BY <2>1, <2>2, <2>3
  <1>12. Entails(Has(b, n), k[1])
    BY <1>8, <1>10, <1>11, NoteHas, EntailsTransitive
  <1>13. KnownOf(k[1], sure', end', skew', wrong')
    BY <1>2, <1>11, <1>12, NoteHas, KnownWeaker
  <1>14. k[1].tries = g[1].tries
    <2>1. Has(b, n).tries = b.tries
      BY DEF Has, Note
    <2>. QED  BY <1>12, <2>1, Zenon DEF Entails
  <1>15. Sound(O, todo', k)
    BY <1>6, <1>8, <1>10
  <1>. QED  BY <1>13, <1>14, <1>15, Onward

-----------------------------------------------------------------------------
\* Whether another parser can be tried after one depends on it and on those
\* that were begun before.
LEMMA RetriableStill ==
    ASSUME NEW O, NEW ms, NEW ns, NEW i \in Nat, Retriable(O, ms, i),
           \A j \in 1 .. i : ns[j] = ms[j], i > 0
    PROVE  Retriable(O, ns, i)
  <1>1. ns[i] = ms[i]
    OBVIOUS
  <1>2. PICK g : /\ Sound(O, ms[i].other, g)
                 /\ g[1].left = 0 /\ (ms[i].skew => g[1].lost)
                 /\ Backs(ms, g[1].tries, i - 1)
    BY DEF Retriable
  <1>3. Backs(ns, g[1].tries, i - 1)
    BY <1>2 DEF Backs
  <1>. QED  BY <1>1, <1>2, <1>3 DEF Retriable

LEMMA Front ==
    ASSUME NEW S, NEW s \in Seq(S), Len(s) > 0
    PROVE  /\ Len(SubSeq(s, 1, Len(s) - 1)) = Len(s) - 1
           /\ \A j \in 1 .. Len(s) - 1 : SubSeq(s, 1, Len(s) - 1)[j] = s[j]
  <1>. DEFINE n == Len(s) - 1
  <1>1. n \in Nat /\ n <= Len(s) /\ Len(s) \in Nat
    OBVIOUS
  <1>. HIDE DEF n
  <1>2. Len(SubSeq(s, 1, n)) = n /\ \A j \in 1 .. n : SubSeq(s, 1, n)[j] = s[j]
    BY <1>1
  <1>. QED  BY <1>2 DEF n

\* The parser tried last is no longer.
LEMMA WholeAfter ==
    ASSUME NEW O, Whole(O), Typed(Pending(Items)), marks # <<>>, outcome = "reading",
           outcome' = outcome, marks' = Below,
           NEW g, Sound(O, todo', g), KnownOf(g[1], sure', end', skew', wrong'),
           Backs(marks, g[1].tries, Len(marks) - 1)
    PROVE  Whole(O)'
  <1>1. marks \in Seq(Mark(Pending(Items))) /\ Len(marks) \in Nat /\ Len(marks) > 0
    BY DEF Typed, Framed
  <1>2. /\ Len(marks') = Len(marks) - 1
        /\ \A j \in 1 .. Len(marks) - 1 : marks'[j] = marks[j]
    <2>1. /\ Len(Below) = Len(marks) - 1
          /\ \A j \in 1 .. Len(marks) - 1 : Below[j] = marks[j]
      BY <1>1, Front DEF Below
    <2>. QED  BY <2>1
  <1>3. Backs(marks', g[1].tries, Len(marks'))
    BY <1>2 DEF Backs
  <1>4. ASSUME NEW i \in 1 .. Len(marks') PROVE Retriable(O, marks', i)
    <2>1. i \in Nat /\ i > 0 /\ i \in 1 .. Len(marks)
          /\ \A j \in 1 .. i : marks'[j] = marks[j]
      BY <1>1, <1>2
    <2>2. Retriable(O, marks, i)
      BY <2>1 DEF Whole
    <2>. QED  BY <2>1, <2>2, RetriableStill
  <1>. QED  BY <1>3, <1>4 DEF Whole, Known

-----------------------------------------------------------------------------
\* The four ways to leave.
LEMMA WholeRefused ==
    ASSUME NEW O, Outlines(O, Items), Typed(Pending(Items)), Whole(O),
           outcome = "reading", todo # <<>>, NEW g, Followed(O, g),
           MayLeave(g[1], "refuse"), NEW left \in Nat, NEW over \in BOOLEAN,
           KnownOf(g[1], left, over, skew, wrong), Refused(left, over)
    PROVE  Whole(O)'
  <1>1. CASE marks = <<>>
    BY <1>1 DEF Refused, Whole
  <1>2. CASE marks # <<>>
    <2>1. /\ todo' = Top.other
          /\ sure' = IF Top.back THEN 0 ELSE left
          /\ skew' = Top.skew
          /\ wrong' = IF Top.back THEN Top.wrong ELSE wrong
          /\ marks' = Below /\ outcome' = outcome
      BY <1>2 DEF Refused
    <2>2. /\ Len(marks) \in 1 .. Len(marks) /\ Top = marks[Len(marks)]
          /\ Len(marks) \in Nat
      BY <1>2 DEF Typed, Framed, Top
    <2>3. Retriable(O, marks, Len(marks))
      BY <2>2 DEF Whole
    <2>4. PICK h : /\ Sound(O, Top.other, h)
                   /\ h[1].left = 0 /\ (Top.skew => h[1].lost)
                   /\ Backs(marks, h[1].tries, Len(marks) - 1)
      BY <2>2, <2>3 DEF Retriable
    <2>5. ~wrong'
      <3>1. ~Top.wrong
        BY <2>2, <2>3 DEF Retriable
      <3>2. ASSUME ~Top.back PROVE ~wrong
        <4>1. g[1].tries \in Seq(BOOLEAN) /\ Len(g[1].tries) = Len(marks)
              /\ g[1].tries[Len(marks)] = Top.back
          BY <2>2, AtItem DEF Followed, Backs
        <4>2. g[1].tries # <<>>
          BY <2>2, <4>1
        <4>3. ~Late(g[1])
          <5>1. ~g[1].tries[Len(g[1].tries)]
            BY <3>2, <4>1, Zenon
          <5>. QED  BY <4>2, <5>1, Zenon DEF MayLeave
        <4>4. g[1].left \in Nat
          BY AtItem
        <4>5. wrong => g[1].late /\ left = 0 /\ left >= g[1].left
          BY Zenon DEF KnownOf
        <4>6. wrong => g[1].left = 0
          BY <4>4, <4>5
        <4>. QED  BY <4>3, <4>5, <4>6, Zenon DEF Late
      <3>. QED  BY <2>1, <3>1, <3>2, Zenon
    <2>6. sure' \in Nat
      BY <2>1
    <2>7. KnownOf(h[1], sure', end', skew', wrong')
      <3>1. sure' >= h[1].left
        BY <2>4, <2>6
      <3>2. skew' => h[1].lost
        BY <2>1, <2>4, Zenon
      <3>. QED  BY <2>5, <3>1, <3>2, Zenon DEF KnownOf
    <2>8. Sound(O, todo', h)
      BY <2>1, <2>4, Zenon
    <2>. QED  BY <1>2, <2>1, <2>4, <2>7, <2>8, WholeAfter
  <1>. QED  BY <1>1, <1>2

LEMMA NotWrong ==
    ASSUME NEW m \in Note, ~Late(m), NEW left \in Nat, NEW over,
           KnownOf(m, left, over, skew, wrong)
    PROVE  ~wrong
  <1>1. m.left \in Nat
    BY NoteFields
  <1>2. wrong => m.late /\ left = 0 /\ left >= m.left
    BY Zenon DEF KnownOf
  <1>3. wrong => m.left = 0
    BY <1>1, <1>2
  <1>. QED  BY <1>2, <1>3, Zenon DEF Late

LEMMA WholeAccepts ==
    ASSUME NEW O, Typed(Pending(Items)), Whole(O),
           outcome = "reading", todo # <<>>, NEW g, Followed(O, g),
           ~Late(g[1]), g[1].tries = <<>>, NEW left \in Nat, NEW over \in BOOLEAN,
           KnownOf(g[1], left, over, skew, wrong), Leaves("accept", left, over)
    PROVE  Whole(O)'
  <1>1. marks = <<>>
    <2>1. marks \in Seq(Mark(Pending(Items))) /\ Len(marks) = 0
      BY DEF Followed, Backs, Typed, Framed
    <2>. QED  BY <2>1
  <1>2. /\ todo' = <<>> /\ sure' = left /\ skew' = skew /\ wrong' = wrong /\ marks' = marks
        /\ outcome' = outcome
    BY <1>1 DEF Leaves, Kept
  <1>3. ~wrong
    BY AtItem, NotWrong
  <1>. DEFINE e == [left |-> 0, late |-> FALSE, lost |-> TRUE, inLoop |-> FALSE, tries |-> <<>>]
  <1>4. e \in Note /\ e.left = 0 /\ ~e.late /\ e.lost /\ ~e.inLoop /\ e.tries = <<>>
    BY DEF Note
  <1>. HIDE DEF e
  <1>5. Sound(O, <<>>, <<e>>) /\ <<e>>[1] = e
    BY <1>4 DEF Sound, Late
  <1>6. KnownOf(e, sure', end', skew', wrong')
    <2>1. sure' >= e.left
      BY <1>2, <1>4
    <2>. QED  BY <1>2, <1>3, <1>4, <2>1, Zenon DEF KnownOf
  <1>. DEFINE h == <<e>>
  <1>7. Sound(O, todo', h) /\ h[1] = e
    BY <1>2, <1>5
  <1>. HIDE DEF h
  <1>8. h[1].tries = g[1].tries /\ KnownOf(h[1], sure', end', skew', wrong')
    BY <1>4, <1>6, <1>7
  <1>. QED  BY <1>2, <1>7, <1>8, Onward

LEMMA WholeBreaks ==
    ASSUME NEW O, Typed(Pending(Items)), Whole(O),
           outcome = "reading", todo # <<>>, NEW g, Followed(O, g),
           ~Late(g[1]), g[1].inLoop, NEW left \in Nat, NEW over \in BOOLEAN,
           KnownOf(g[1], left, over, skew, wrong), Leaves("break", left, over)
    PROVE  Whole(O)'
  <1>1. /\ todo' = After(Turns) /\ sure' = left /\ skew' = TRUE
        /\ wrong' = wrong /\ marks' = marks /\ outcome' = outcome
    BY DEF Leaves
  <1>2. ~wrong
    BY AtItem, NotWrong
  <1>3. todo \in Seq(Pending(Items)) /\ Sound(O, todo, g)
    BY DEF Typed, Followed
  <1>4. PICK j \in 1 .. Len(todo) :
            /\ Live(todo[j]) /\ \A i \in 1 .. j - 1 : ~Live(todo[i])
            /\ Broken(g[j + 1]) /\ g[j + 1].tries = g[1].tries
    BY AtItem DEF Stops
  <1>5. Turns = {i \in DOMAIN todo : Live(todo[i])}
    BY DEF Turns, Live
  <1>6. Min(Turns) = j /\ Turns # {}
    <2>1. j \in Turns /\ Turns \in SUBSET Nat /\ DOMAIN todo = 1 .. Len(todo)
      BY <1>3, <1>4, <1>5
    <2>2. Min(Turns) \in Turns /\ Min(Turns) <= j
      BY <2>1, Smallest
    <2>3. ~(Min(Turns) \in 1 .. j - 1)
      BY <1>4, <1>5, <2>2
    <2>4. Min(Turns) \in 1 .. Len(todo)
      BY <1>5, <2>1, <2>2
    <2>. QED  BY <2>1, <2>2, <2>3, <2>4
  <1>7. todo' = SubSeq(todo, j + 1, Len(todo))
    BY <1>1, <1>6 DEF After
  <1>. DEFINE h == SubSeq(g, j + 1, Len(todo) + 1)
  <1>8. Sound(O, todo', h) /\ h[1] = g[j + 1]
    <2>1. j \in 0 .. Len(todo)
      BY <1>3, <1>4
    <2>2. /\ Sound(O, SubSeq(todo, j + 1, Len(todo)), SubSeq(g, j + 1, Len(todo) + 1))
          /\ SubSeq(g, j + 1, Len(todo) + 1)[1] = g[j + 1]
      BY <1>3, <2>1, SoundBehind
    <2>. QED  BY <1>7, <2>2
  <1>. HIDE DEF h
  <1>9. KnownOf(h[1], sure', end', skew', wrong')
    <2>1. h[1].lost /\ h[1].left = 0
      BY <1>4, <1>8 DEF Broken
    <2>2. sure' >= h[1].left
      BY <1>1, <2>1
    <2>. QED  BY <1>1, <1>2, <2>1, <2>2, Zenon DEF KnownOf
  <1>10. h[1].tries = g[1].tries
    BY <1>4, <1>8
  <1>. QED  BY <1>1, <1>8, <1>9, <1>10, Onward

LEMMA WholeLeaves ==
    ASSUME NEW O, Outlines(O, Items), Typed(Pending(Items)), Whole(O),
           outcome = "reading", todo # <<>>, NEW g, Followed(O, g), NEW else,
           MayLeave(g[1], else), NEW left \in Nat, NEW over \in BOOLEAN,
           KnownOf(g[1], left, over, skew, wrong), Leaves(else, left, over)
    PROVE  Whole(O)'
  <1>1. CASE else = "refuse"
    <2>1. Refused(left, over)
      BY <1>1 DEF Leaves
    <2>. QED  BY <1>1, <2>1, WholeRefused
  <1>2. CASE else = "fail"
    BY <1>2 DEF Leaves, Whole
  <1>3. CASE else = "accept"
    BY <1>3, WholeAccepts DEF MayLeave
  <1>4. CASE else = "break"
    BY <1>4, WholeBreaks DEF MayLeave
  <1>. QED  BY <1>1, <1>2, <1>3, <1>4 DEF Leaves

-----------------------------------------------------------------------------
\* The actions.
LEMMA WholeTry ==
    ASSUME NEW O, Outlines(O, Items), Typed(Pending(Items)), Typed(Pending(Items))',
           Whole(O), Try
    PROVE  Whole(O)'
  <1>1. /\ outcome = "reading" /\ todo # <<>> /\ Item.op = "try" /\ outcome' = outcome
        /\ UNCHANGED <<sure, end, skew, wrong>>
    BY DEF Try, At, Going
  <1>2. PICK g : Followed(O, g)
    BY <1>1 DEF Whole, Followed
  <1>. DEFINE m == g[1]
              n == g[2]
              back == Item.back
              rest == <<[op |-> "done"]>> \o Rest
  <1>3. /\ m \in Note /\ n \in Note /\ back \in BOOLEAN
        /\ Sound(O, Rest, Tail(g)) /\ Tail(g)[1] = n
        /\ Rest \in Seq(Pending(Items)) /\ Item.a \in Seq(Pending(Items))
        /\ Item.b \in Seq(Pending(Items)) /\ [op |-> "done"] \in Pending(Items)
    BY <1>1, <1>2, AtItem DEF Fits, Pending
  <1>4. /\ ~Late(m)
        /\ Way(O, Item.a, Tried(m, back), Tried(n, back))
        /\ Way(O, Item.b, Spent(m, FALSE), n)
    BY <1>1, <1>2, AtItem DEF Covers
  <1>5. Closed(Pending(Items)) /\ Items \subseteq Kinds(Items) /\ Items \subseteq Pending(Items)
    BY AllClosed, LayoutsAssumption DEF Pending
  <1>6. /\ marks \in Seq(Mark(Pending(Items))) /\ Len(marks) \in Nat
        /\ sure \in Nat /\ end \in BOOLEAN /\ skew \in BOOLEAN /\ wrong \in BOOLEAN
    BY DEF Typed, Framed
  <1>7. /\ m.tries \in Seq(BOOLEAN) /\ m.left \in Nat /\ n.tries \in Seq(BOOLEAN)
    BY <1>3, NoteFields
  <1>8. PICK mark : /\ marks' = Append(marks, mark)
                    /\ mark.other = Item.b \o Rest /\ mark.back = back
                    /\ mark.skew = skew /\ mark.wrong = wrong
    <2>. DEFINE k == [other |-> Item.b \o Rest, back |-> Item.back, vals |-> vals,
                      skew |-> skew, wrong |-> wrong]
    <2>1. marks' = Append(marks, k)
      BY DEF Try
    <2>2. k.other = Item.b \o Rest /\ k.back = Item.back /\ k.skew = skew /\ k.wrong = wrong
      OBVIOUS
    <2>. HIDE DEF k
    <2>. QED  BY <2>1, <2>2, Zenon
  <1>9. /\ Len(marks') = Len(marks) + 1 /\ marks'[Len(marks) + 1] = mark
        /\ \A j \in 1 .. Len(marks) : marks'[j] = marks[j]
    <2>1. /\ Len(Append(marks, mark)) = Len(marks) + 1
          /\ Append(marks, mark)[Len(marks) + 1] = mark
          /\ \A j \in 1 .. Len(marks) : Append(marks, mark)[j] = marks[j]
      BY <1>6
    <2>. QED  BY <1>8, <2>1
  <1>10. todo' = Item.a \o rest
    <2>1. todo' = Item.a \o <<[op |-> "done"]>> \o Rest
      BY DEF Try
    <2>2. Item.a \o <<[op |-> "done"]>> \o Rest = Item.a \o rest
      <3>1. \A a \in Seq(Pending(Items)), b \in Seq(Pending(Items)), x \in Pending(Items) :
                a \o <<x>> \o b = a \o (<<x>> \o b)
        <4>. SUFFICES ASSUME NEW S, NEW a \in Seq(S), NEW b \in Seq(S), NEW x \in S
                      PROVE  a \o <<x>> \o b = a \o (<<x>> \o b)
          OBVIOUS
        <4>. QED  OBVIOUS
      <3>2. Item.a \o <<[op |-> "done"]>> \o Rest = Item.a \o (<<[op |-> "done"]>> \o Rest)
        BY <1>3, <3>1, Zenon
      <3>. QED  BY <3>2, Zenon DEF rest
    <2>. QED  BY <2>1, <2>2, Zenon
  <1>. HIDE DEF m, n, back, rest
  <1>11. Backs(marks', m.tries, Len(marks)) /\ Known(m)
    BY <1>2, <1>9 DEF Followed, Backs, m
  <1>12. PICK o \in O : /\ o.layout = Item.a /\ Entails(Tried(m, back), o.notes[1])
                        /\ Entails(End(o), Tried(n, back))
    BY <1>4 DEF Way
  <1>13. PICK q \in O : /\ q.layout = Item.b /\ Entails(Spent(m, FALSE), q.notes[1])
                        /\ Entails(End(q), n)
    BY <1>4 DEF Way
  <1>14. Tried(m, back) \in Note /\ Tried(n, back) \in Note
    BY <1>3, NoteTried
  <1>15. /\ Tried(m, back).left = m.left /\ Tried(m, back).late = m.late
         /\ Tried(m, back).lost = m.lost /\ Tried(m, back).tries = Append(m.tries, back)
         /\ Tried(n, back).tries = Append(n.tries, back) /\ ~Tried(n, back).inLoop
    BY <1>3 DEF Tried, Note
  <1>16. Covers(O, [op |-> "done"], Tried(n, back), n)
    <2>1. [Tried(n, back) EXCEPT !.inLoop = n.inLoop, !.tries = n.tries] = n
      BY <1>3 DEF Tried, Note
    <2>. QED  BY <1>3, <1>15, <2>1, EntailsItself DEF Covers
  <1>17. Sound(O, rest, <<Tried(n, back)>> \o Tail(g)) /\ rest \in Seq(Pending(Items))
         /\ (<<Tried(n, back)>> \o Tail(g))[1] = Tried(n, back)
    <2>1. Tail(g) \in Seq(Note)
      BY <1>3 DEF Sound
    <2>2. Sound(O, <<[op |-> "done"]>> \o Rest, <<Tried(n, back)>> \o Tail(g))
      BY <1>3, <1>14, <1>15, <1>16, SoundCons
    <2>3. (<<Tried(n, back)>> \o Tail(g))[1] = Tried(n, back)
      BY <1>14, <2>1
    <2>4. rest \in Seq(Pending(Items))
      BY <1>3 DEF rest
    <2>. QED  BY <2>2, <2>3, <2>4 DEF rest
  <1>18. PICK h : Sound(O, todo', h) /\ Entails(o.notes[1], h[1])
    <2>. DEFINE k == <<Tried(n, back)>> \o Tail(g)
    <2>1. Sound(O, rest, k) /\ Entails(End(o), k[1])
      BY <1>12, <1>17
    <2>. HIDE DEF k
    <2>2. \E h : Sound(O, o.layout \o rest, h) /\ Entails(o.notes[1], h[1])
      BY <1>5, <1>17, <2>1, SoundPrefix
    <2>. QED  BY <1>10, <1>12, <2>2
  <1>19. PICK f : Sound(O, Item.b \o Rest, f) /\ Entails(q.notes[1], f[1])
    <2>1. Entails(End(q), Tail(g)[1])
      BY <1>3, <1>13 DEF n
    <2>2. \E f : Sound(O, q.layout \o Rest, f) /\ Entails(q.notes[1], f[1])
      BY <1>3, <1>5, <2>1, SoundPrefix
    <2>. QED  BY <1>13, <2>2
  <1>20. o.notes[1] \in Note /\ q.notes[1] \in Note /\ h[1] \in Note /\ f[1] \in Note
    <2>1. \A u \in O : u.notes \in Seq(Note) /\ Len(u.notes) = Len(u.layout) + 1
                       /\ u.layout \in Seq(Items)
      BY DEF Outlines
    <2>2. todo' \in Seq(Pending(Items)) /\ Item.b \o Rest \in Seq(Pending(Items))
      BY <1>3 DEF Typed
    <2>3. /\ h \in Seq(Note) /\ Len(h) = Len(todo') + 1
          /\ f \in Seq(Note) /\ Len(f) = Len(Item.b \o Rest) + 1
      BY <1>18, <1>19 DEF Sound
    <2>4. o.notes[1] \in Note /\ q.notes[1] \in Note
      <3>1. \A u \in O : u.notes[1] \in Note
        BY <2>1
      <3>. QED  BY <3>1
    <2>5. h[1] \in Note
      BY <2>2, <2>3
    <2>6. f[1] \in Note
      <3>. DEFINE l == Item.b \o Rest
      <3>1. l \in Seq(Pending(Items)) /\ f \in Seq(Note) /\ Len(f) = Len(l) + 1
        BY <2>2, <2>3
      <3>. HIDE DEF l
      <3>. QED  BY <3>1
    <2>. QED  BY <2>4, <2>5, <2>6
  <1>21. Entails(Tried(m, back), h[1])
    BY <1>7, <1>12, <1>15, <1>18, <1>20, EntailsTransitive
  <1>22. /\ Spent(m, FALSE).left = 0 /\ Spent(m, FALSE).lost = m.lost
         /\ Spent(m, FALSE).tries = m.tries
    BY <1>3 DEF Spent, Note, m
  <1>23. Entails(Spent(m, FALSE), f[1])
    <2>. DEFINE x == Spent(m, FALSE)
    <2>1. x.left = 0 /\ Entails(x, q.notes[1]) /\ Entails(q.notes[1], f[1])
      BY <1>13, <1>19, <1>22, Zenon
    <2>. HIDE DEF x
    <2>2. Entails(x, f[1])
      BY <1>20, <2>1, EntailsTransitive
    <2>. QED  BY <2>2 DEF x
  <1>24. KnownOf(h[1], sure', end', skew', wrong')
    <2>1. KnownOf(Tried(m, back), sure, end, skew, wrong)
      BY <1>11, <1>15, Zenon DEF Known, KnownOf
    <2>2. KnownOf(h[1], sure, end, skew, wrong)
      BY <1>6, <1>7, <1>15, <1>20, <1>21, <2>1, KnownWeaker
    <2>. QED  BY <1>1, <2>2
  <1>25. Backs(marks', h[1].tries, Len(marks'))
    <2>1. h[1].tries = Append(m.tries, back)
      BY <1>15, <1>21, Zenon DEF Entails
    <2>2. /\ Len(m.tries) = Len(marks)
          /\ \A j \in 1 .. Len(marks) : m.tries[j] = marks'[j].back
      BY <1>11 DEF Backs
    <2>. DEFINE t == Append(m.tries, back)
    <2>3. /\ Len(t) = Len(marks) + 1 /\ t[Len(marks) + 1] = back
          /\ \A j \in 1 .. Len(marks) : t[j] = m.tries[j]
      BY <1>3, <1>6, <1>7, <2>2
    <2>. HIDE DEF t
    <2>4. ASSUME NEW j \in 1 .. Len(marks) + 1 PROVE t[j] = marks'[j].back
      <3>1. CASE j = Len(marks) + 1
        BY <1>8, <1>9, <2>3, <3>1
      <3>2. CASE j # Len(marks) + 1
        <4>1. j \in 1 .. Len(marks)
          BY <1>6, <3>2
        <4>. QED  BY <2>2, <2>3, <4>1
      <3>. QED  BY <3>1, <3>2
    <2>. QED  BY <1>9, <2>1, <2>3, <2>4 DEF Backs, t
  <1>26. ASSUME NEW i \in 1 .. Len(marks') PROVE Retriable(O, marks', i)
    <2>1. CASE i = Len(marks) + 1
      <3>1. ~wrong
        <4>1. KnownOf(m, sure, end, skew, wrong)
          BY <1>11, Zenon DEF Known
        <4>. QED  BY <1>3, <1>4, <1>6, <4>1, NotWrong DEF m
      <3>2. f[1].left = 0
        <4>1. f[1].left \in Nat
          BY <1>20, NoteFields
        <4>2. f[1].left <= Spent(m, FALSE).left
          BY <1>23, Zenon DEF Entails
        <4>3. f[1].left <= 0
          BY <1>22, <4>2, Zenon
        <4>. QED  BY <4>1, <4>3
      <3>3. skew => f[1].lost
        BY <1>11, <1>22, <1>23, Zenon DEF Entails, Known, KnownOf
      <3>4. f[1].tries = m.tries
        BY <1>22, <1>23, Zenon DEF Entails
      <3>5. i - 1 = Len(marks) /\ marks'[i] = mark
        BY <1>6, <1>9, <2>1
      <3>6. Backs(marks', f[1].tries, i - 1)
        BY <1>11, <3>4, <3>5
      <3>7. /\ Sound(O, marks'[i].other, f) /\ ~marks'[i].wrong
            /\ (marks'[i].skew => f[1].lost)
        BY <1>8, <1>19, <3>1, <3>3, <3>5, Zenon
      <3>. QED  BY <3>2, <3>6, <3>7, Zenon DEF Retriable
    <2>2. CASE i # Len(marks) + 1
      <3>1. i \in 1 .. Len(marks) /\ i \in Nat /\ i > 0
            /\ \A j \in 1 .. i : marks'[j] = marks[j]
        BY <1>6, <1>9, <2>2
      <3>2. Retriable(O, marks, i)
        BY <1>1, <3>1 DEF Whole
      <3>. QED  BY <3>1, <3>2, RetriableStill
    <2>. QED  BY <2>1, <2>2
  <1>. QED  BY <1>1, <1>18, <1>24, <1>25, <1>26 DEF Whole, Known

LEMMA WholeDone ==
    ASSUME NEW O, Typed(Pending(Items)), Typed(Pending(Items))', Whole(O), Done
    PROVE  Whole(O)'
  <1>1. /\ outcome = "reading" /\ todo # <<>> /\ Item.op = "done" /\ outcome' = outcome
        /\ UNCHANGED <<sure, end, skew, wrong>> /\ todo' = Rest /\ marks' = Below
    BY DEF Done, At, Going
  <1>2. PICK g : Followed(O, g)
    BY <1>1 DEF Whole, Followed
  <1>3. /\ g[1] \in Note /\ g[2] \in Note /\ g[1].left \in Nat
        /\ g[1].tries \in Seq(BOOLEAN)
        /\ Sound(O, Rest, Tail(g)) /\ Tail(g)[1] = g[2] /\ Known(g[1])
        /\ Covers(O, Item, g[1], g[2])
    BY <1>1, <1>2, AtItem
  <1>. DEFINE m == [g[1] EXCEPT !.inLoop = g[2].inLoop, !.tries = g[2].tries]
  <1>4. /\ \E back \in BOOLEAN : g[1].tries = Append(g[2].tries, back)
        /\ Entails(m, g[2])
    BY <1>1, <1>3 DEF Covers
  <1>5. /\ m.left = g[1].left /\ m.late = g[1].late /\ m.lost = g[1].lost
    BY <1>3 DEF Note
  <1>. HIDE DEF m
  <1>6. KnownOf(g[2], sure', end', skew', wrong')
    <2>1. /\ sure \in Nat /\ end \in BOOLEAN /\ skew \in BOOLEAN /\ wrong \in BOOLEAN
      BY DEF Typed, Framed
    <2>2. KnownOf(m, sure, end, skew, wrong)
      BY <1>3, <1>5, Zenon DEF Known, KnownOf
    <2>3. KnownOf(g[2], sure, end, skew, wrong)
      BY <1>3, <1>4, <1>5, <2>1, <2>2, KnownWeaker
    <2>. QED  BY <1>1, <2>3
  <1>7. g[2].tries \in Seq(BOOLEAN)
    BY <1>3, NoteFields
  <1>8. /\ Len(g[1].tries) = Len(g[2].tries) + 1 /\ Len(g[2].tries) \in Nat
        /\ \A j \in 1 .. Len(g[2].tries) : g[1].tries[j] = g[2].tries[j]
    BY <1>4, <1>7
  <1>9. /\ marks # <<>> /\ Backs(marks, g[2].tries, Len(marks) - 1)
    <2>1. /\ Len(g[1].tries) = Len(marks)
          /\ \A j \in 1 .. Len(marks) : g[1].tries[j] = marks[j].back
      BY <1>2 DEF Followed, Backs
    <2>2. Len(marks) \in Nat /\ Len(marks) - 1 = Len(g[2].tries) /\ marks # <<>>
      BY <1>8, <2>1 DEF Typed, Framed
    <2>. QED  BY <1>8, <2>1, <2>2 DEF Backs
  <1>. DEFINE h == Tail(g)
  <1>10. Sound(O, todo', h) /\ h[1] = g[2]
    BY <1>1, <1>3
  <1>. HIDE DEF h
  <1>. QED  BY <1>1, <1>6, <1>9, <1>10, WholeAfter

-----------------------------------------------------------------------------
\* The reads.
LEMMA WholeReads ==
    ASSUME NEW O, Typed(Pending(Items)), Typed(Pending(Items))', Whole(O),
           ReadBytes \/ ReadField \/ ReadFlags \/ ReadGuid \/ ReadText \/ ReadMany
    PROVE  Whole(O)'
  <1>1. /\ outcome = "reading" /\ todo # <<>> /\ outcome' = outcome /\ todo' = Rest
    BY DEF ReadBytes, ReadField, ReadFlags, ReadGuid, ReadText, ReadMany, At, Going
  <1>2. PICK g : Followed(O, g)
    BY <1>1 DEF Whole, Followed
  <1>3. /\ g[1] \in Note /\ g[2] \in Note /\ Covers(O, Item, g[1], g[2])
        /\ Fits(Pending(Items), Item) /\ Known(g[1])
    BY <1>1, <1>2, AtItem
  <1>4. /\ sure \in Nat /\ end \in BOOLEAN /\ skew \in BOOLEAN /\ wrong \in BOOLEAN
    BY DEF Typed, Framed
  <1>5. \A f : Val(f) \in Nat
    BY ValsKept DEF Typed, Framed
  <1>6. GuidSizes \subseteq 1 .. 9 /\ TextSizes \subseteq Nat
    BY LayoutsAssumption
  <1>7. ASSUME NEW w \in Nat, NEW n \in 0 .. w, Take(n), ~g[1].lost,
               Entails(Took(g[1], w), g[2])
        PROVE  Whole(O)'
    <2>1. KnownOf(Took(g[1], w), sure', end', skew', wrong')
      BY <1>3, <1>4, <1>7, TookKnown
    <2>2. Took(g[1], w).left \in Nat
      BY <1>3, NoteTook
    <2>3. Took(g[1], w).tries = g[1].tries
      BY <1>3 DEF Took, Note
    <2>4. marks' = marks
      BY <1>7 DEF Take, TakeAs
    <2>. QED  BY <1>1, <1>2, <1>7, <2>1, <2>2, <2>3, <2>4, StepOn
  <1>8. ASSUME NEW n \in Nat, NEW asFar \in BOOLEAN, TakeAs(n, asFar), ~g[1].lost,
               NEW c \in BOOLEAN, c = TRUE \/ (asFar /\ c = Late(g[1])),
               Entails(Spent(g[1], c), g[2])
        PROVE  Whole(O)'
    <2>1. KnownOf(Spent(g[1], c), sure', end', skew', wrong')
      <3>1. /\ KnownOf(Spent(g[1], TRUE), sure', end', skew', wrong')
            /\ asFar => KnownOf(Spent(g[1], Late(g[1])), sure', end', skew', wrong')
        BY <1>3, <1>4, <1>8, SpentKnown
      <3>. QED  BY <1>8, <3>1, Zenon
    <2>2. Spent(g[1], c).left \in Nat
      BY <1>3, NoteSpent
    <2>3. Spent(g[1], c).tries = g[1].tries
      BY <1>3 DEF Spent, Note
    <2>4. marks' = marks
      BY <1>8 DEF TakeAs
    <2>. QED  BY <1>1, <1>2, <1>8, <2>1, <2>2, <2>3, <2>4, StepOn
  <1>9. CASE ReadBytes \/ ReadField \/ ReadFlags
    <2>1. Item.op \in {"read", "field", "bits"} /\ Take(Item.n)
      BY <1>9 DEF ReadBytes, ReadField, ReadFlags, At
    <2>2. Item.n \in Nat
      BY <1>3, <2>1 DEF Fits
    <2>3. ~g[1].lost /\ Entails(Took(g[1], Item.n), g[2])
      BY <1>3, <2>1 DEF Covers
    <2>4. Item.n \in 0 .. Item.n
      BY <2>2
    <2>. QED  BY <1>7, <2>1, <2>2, <2>3, <2>4
  <1>10. CASE ReadGuid
    <2>1. Item.op \in {"guid", "guidof"}
      BY <1>10 DEF ReadGuid, At
    <2>2. Item.op = "guid" /\ ~g[1].lost /\ Entails(Took(g[1], 9), g[2])
      BY <1>3, <2>1 DEF Covers
    <2>3. PICK n \in IF Zeros THEN {1}
                     ELSE IF Item.op = "guidof" THEN {Val(Item.f)} ELSE GuidSizes : Take(n)
      BY <1>10 DEF ReadGuid
    <2>4. n \in 0 .. 9
      BY <1>6, <2>2, <2>3
    <2>. QED  BY <1>7, <2>2, <2>3, <2>4
  <1>11. CASE ReadText
    <2>1. Item.op = "text"
      BY <1>11 DEF ReadText, At
    <2>2. ~g[1].lost /\ Entails(Spent(g[1], Late(g[1])), g[2])
      BY <1>3, <2>1 DEF Covers
    <2>3. PICK n \in IF Zeros THEN {1} ELSE TextSizes : TakeAs(n, TRUE)
      BY <1>11 DEF ReadText
    <2>4. n \in Nat
      BY <1>6, <2>3
    <2>5. Late(g[1]) \in BOOLEAN
      BY <1>3, NoteFields
    <2>. QED  BY <1>8, <2>2, <2>3, <2>4, <2>5
  <1>12. CASE ReadMany
    <2>1. Item.op = "bytes" /\ TakeAs(Smaller(Val(Item.f), Plenty) * Item.n, FALSE)
      BY <1>12 DEF ReadMany, At, Take
    <2>2. ~g[1].lost /\ Entails(Spent(g[1], TRUE), g[2])
      BY <1>3, <2>1 DEF Covers
    <2>3. Item.n \in Nat
      BY <1>3, <2>1 DEF Fits
    <2>4. Smaller(Val(Item.f), Plenty) * Item.n \in Nat
      BY <1>5, <2>3, Widths
    <2>. QED  BY <1>8, <2>1, <2>2, <2>4
  <1>. QED  BY <1>9, <1>10, <1>11, <1>12

\* More bytes than were asked for are no less.
LEMMA HasFewer ==
    ASSUME NEW m \in Note, NEW a \in Nat, NEW k \in Nat, k <= a,
           NEW left \in Nat, NEW over, NEW lost, NEW mistaken,
           KnownOf(Has(m, a), left, over, lost, mistaken)
    PROVE  KnownOf(Has(m, k), left, over, lost, mistaken)
  <1>1. \A n \in Nat : /\ Has(m, n).left = (IF n > m.left THEN n ELSE m.left)
                       /\ Has(m, n).lost = m.lost
    BY DEF Note, Has
  <1>2. \A n \in Nat : Has(m, n).late = (Late(m) /\ n = 0)
    BY DEF Note, Has
  <1>3. left >= Has(m, k).left
    <2>1. left >= Has(m, a).left /\ m.left \in Nat
      BY NoteFields DEF KnownOf
    <2>. QED  BY <1>1, <2>1
  <1>4. Has(m, a).late => Has(m, k).late
    <2>1. a = 0 => k = 0
      OBVIOUS
    <2>. QED  BY <1>2, <2>1
  <1>5. Has(m, a).lost = Has(m, k).lost
    BY <1>1
  <1>. QED  BY <1>3, <1>4, <1>5, Zenon DEF KnownOf

LEMMA WholeGuards ==
    ASSUME NEW O, Outlines(O, Items), Typed(Pending(Items)), Typed(Pending(Items))', Whole(O),
           Guard \/ GuardGuid \/ Leave
    PROVE  Whole(O)'
  <1>1. /\ outcome = "reading" /\ todo # <<>>
    BY DEF Guard, GuardGuid, Leave, At
  <1>2. PICK g : Followed(O, g)
    BY <1>1 DEF Whole, Followed
  <1>3. /\ g[1] \in Note /\ g[2] \in Note /\ Covers(O, Item, g[1], g[2])
        /\ Fits(Pending(Items), Item) /\ Known(g[1]) /\ g[1].left \in Nat
    BY <1>1, <1>2, AtItem
  <1>4. /\ sure \in Nat /\ end \in BOOLEAN /\ skew \in BOOLEAN /\ wrong \in BOOLEAN
    BY DEF Typed, Framed
  <1>5. ASSUME MayLeave(g[1], Item.else), NEW n \in Nat, NEW left \in Lacking(n, Item.else),
               Leaves(Item.else, left, TRUE)
        PROVE  Whole(O)'
    <2>1. left \in Lacks(n)
      BY <1>5, AllClosed, LacksAreCounts
    <2>2. left \in Nat /\ KnownOf(g[1], left, TRUE, skew, wrong)
      BY <1>3, <1>4, <2>1, LacksKnown
    <2>. QED  BY <1>1, <1>2, <1>5, <2>2, WholeLeaves
  <1>6. CASE Guard
    <2>1. Item.op \in {"guard", "needeach"}
      BY <1>6 DEF Guard, At
    <2>2. PICK k \in Nat : /\ Asked \in Nat /\ k <= Asked
                           /\ MayLeave(g[1], Item.else) /\ Entails(Has(g[1], k), g[2])
      <3>1. CASE Item.op = "guard"
        BY <1>3, <3>1 DEF Covers, Fits, Asked
      <3>2. CASE Item.op = "needeach"
        <4>1. Item.n \in Nat /\ Item.k \in Nat
          BY <1>3, <3>2 DEF Fits
        <4>2. Smaller(Val(Item.f), Plenty) * Item.n \in Nat
          BY <4>1, ValsKept, Widths DEF Typed, Framed
        <4>3. Asked \in Nat /\ Item.k <= Asked
          <5>. DEFINE c == Smaller(Val(Item.f), Plenty) * Item.n
          <5>1. Asked = c + Item.k
            BY <3>2 DEF Asked
          <5>. HIDE DEF c
          <5>2. c \in Nat
            BY <4>2 DEF c
          <5>. QED  BY <4>1, <5>1, <5>2
        <4>4. MayLeave(g[1], Item.else) /\ Entails(Has(g[1], Item.k), g[2])
          BY <1>3, <3>2 DEF Covers
        <4>. QED  BY <4>1, <4>3, <4>4
      <3>. QED  BY <2>1, <3>1, <3>2
    <2>3. CASE /\ HasLeft(Asked)
               /\ todo' = Rest
               /\ Kept /\ UNCHANGED <<vals, bits, outcome>>
      <3>1. UNCHANGED <<skew, wrong>> /\ marks' = marks /\ outcome' = outcome
        BY <2>3 DEF Kept
      <3>2. KnownOf(Has(g[1], Asked), sure', end', skew', wrong')
        BY <1>3, <1>4, <2>2, <2>3, <3>1, HasKnown
      <3>3. sure' \in Nat
        BY DEF Typed, Framed
      <3>4. KnownOf(Has(g[1], k), sure', end', skew', wrong')
        BY <1>3, <2>2, <3>2, <3>3, HasFewer
      <3>5. Has(g[1], k).left \in Nat /\ Has(g[1], k).tries = g[1].tries
        BY <1>3 DEF Has, Note
      <3>. QED  BY <1>1, <1>2, <2>2, <2>3, <3>1, <3>4, <3>5, StepOn
    <2>4. CASE \E left \in Lacking(Asked, Item.else) : Leaves(Item.else, left, TRUE)
      BY <1>5, <2>2, <2>4
    <2>. QED  BY <1>6, <2>3, <2>4 DEF Guard
  <1>7. CASE GuardGuid
    <2>1. ~g[1].lost /\ MayLeave(g[1], Item.else) /\ Entails(Spent(g[1], FALSE), g[2])
      BY <1>3, <1>7 DEF GuardGuid, At, Covers
    <2>2. PICK n \in GuidSizes :
             \/ /\ n <= sure \/ ~end
                /\ sure' = Larger(sure, n) - n
                /\ wrong' = (wrong \/ skew)
                /\ todo' = Rest
                /\ UNCHANGED <<end, vals, bits, skew, marks, outcome>>
             \/ \E left \in Lacking(n, Item.else) : Leaves(Item.else, left, TRUE)
      BY <1>7 DEF GuardGuid
    <2>3. n \in Nat /\ n > 0
      BY LayoutsAssumption
    <2>4. CASE /\ n <= sure \/ ~end
               /\ sure' = Larger(sure, n) - n
               /\ wrong' = (wrong \/ skew)
               /\ todo' = Rest
               /\ UNCHANGED <<end, vals, bits, skew, marks, outcome>>
      <3>. DEFINE x == Spent(g[1], FALSE)
      <3>1. x.left = 0 /\ x.tries = g[1].tries /\ x.lost = g[1].lost
        BY <1>3 DEF Spent, Note
      <3>2. ~skew
        BY <1>3, <2>1, Zenon DEF Known, KnownOf
      <3>3. ~wrong
        <4>1. wrong => end /\ sure = 0
          BY <1>3, Zenon DEF Known, KnownOf
        <4>2. end => n <= sure
          BY <2>4
        <4>3. ~(sure = 0 /\ n <= sure)
          BY <2>3
        <4>. QED  BY <4>1, <4>2, <4>3, Zenon
      <3>4. ~wrong' /\ ~skew'
        BY <2>4, <3>2, <3>3, Zenon
      <3>5. sure' \in Nat
        BY DEF Typed, Framed
      <3>. HIDE DEF x
      <3>6. KnownOf(x, sure', end', skew', wrong')
        <4>1. sure' >= x.left
          BY <3>1, <3>5
        <4>. QED  BY <3>4, <4>1, Zenon DEF KnownOf
      <3>7. Entails(x, g[2]) /\ x.left \in Nat
        <4>1. x.left \in Nat
          BY <3>1
        <4>. QED  BY <2>1, <4>1, Zenon DEF x
      <3>. QED  BY <1>1, <1>2, <2>4, <3>1, <3>6, <3>7, StepOn
    <2>5. CASE \E left \in Lacking(n, Item.else) : Leaves(Item.else, left, TRUE)
      BY <1>5, <2>1, <2>3, <2>5
    <2>. QED  BY <2>2, <2>4, <2>5
  <1>8. CASE Leave
    <2>1. MayLeave(g[1], Item.else) /\ Leaves(Item.else, sure, end)
      BY <1>3, <1>8 DEF Leave, At, Covers
    <2>2. KnownOf(g[1], sure, end, skew, wrong)
      BY <1>3, Zenon DEF Known
    <2>. QED  BY <1>1, <1>2, <1>4, <2>1, <2>2, WholeLeaves
  <1>. QED  BY <1>6, <1>7, <1>8

LEMMA WholeBranches ==
    ASSUME NEW O, Outlines(O, Items), Typed(Pending(Items)), Typed(Pending(Items))', Whole(O),
           BranchOnLeft \/ Branch \/ Lose
    PROVE  Whole(O)'
  <1>1. /\ outcome = "reading" /\ todo # <<>> /\ outcome' = outcome
        /\ UNCHANGED <<wrong, marks>>
    BY DEF BranchOnLeft, Branch, Lose, At, Going, Kept
  <1>2. PICK g : Followed(O, g)
    BY <1>1 DEF Whole, Followed
  <1>3. /\ g[1] \in Note /\ g[2] \in Note /\ Covers(O, Item, g[1], g[2])
        /\ Fits(Pending(Items), Item) /\ Known(g[1]) /\ g[1].left \in Nat
        /\ Rest \in Seq(Pending(Items))
    BY <1>1, <1>2, AtItem
  <1>4. /\ sure \in Nat /\ end \in BOOLEAN /\ skew \in BOOLEAN /\ wrong \in BOOLEAN
    BY DEF Typed, Framed
  <1>5. CASE BranchOnLeft
    <2>1. /\ Way(O, Item.a, Has(g[1], Item.n), g[2]) /\ Way(O, Item.b, g[1], g[2])
          /\ Item.n \in Nat /\ UNCHANGED <<skew, wrong>>
      BY <1>3, <1>5 DEF BranchOnLeft, At, Covers, Fits, Kept
    <2>2. CASE HasLeft(Item.n) /\ todo' = Item.a \o Rest
      <3>1. KnownOf(Has(g[1], Item.n), sure', end', skew', wrong')
        BY <1>3, <1>4, <2>1, <2>2, HasKnown
      <3>2. Has(g[1], Item.n).left \in Nat /\ Has(g[1], Item.n).tries = g[1].tries
        BY <1>3, <2>1 DEF Has, Note
      <3>. QED  BY <1>1, <1>2, <2>1, <2>2, <3>1, <3>2, StepWay
    <2>3. CASE /\ \E left \in Lacks(Item.n) : sure' = left
               /\ end' = TRUE
               /\ todo' = Item.b \o Rest
      <3>1. KnownOf(g[1], sure', TRUE, skew, wrong)
        BY <1>3, <1>4, <2>1, <2>3, LacksKnown
      <3>2. KnownOf(g[1], sure', end', skew', wrong')
        BY <2>1, <2>3, <3>1
      <3>. QED  BY <1>1, <1>2, <1>3, <2>1, <2>3, <3>2, StepWay
    <2>. QED  BY <1>5, <2>2, <2>3 DEF BranchOnLeft
  <1>6. CASE Branch
    <2>1. KnownOf(g[1], sure', end', skew', wrong')
      <3>1. UNCHANGED <<sure, end, skew, wrong>>
        BY <1>6 DEF Branch, Kept
      <3>. QED  BY <1>3, <3>1 DEF Known
    <2>2. PICK part \in
             CASE Item.op = "if"  -> {IF Val(Item.f) \in Item.v THEN Item.a ELSE Item.b}
               [] Item.op = "has" -> {IF bits \cap Item.v # {} THEN Item.a ELSE <<>>}
               [] OTHER           -> {Item.cases[i] : i \in DOMAIN Item.cases} :
             todo' = part \o Rest
      BY <1>6 DEF Branch
    <2>3. Item.op \in {"if", "has", "oneof"}
      BY <1>6 DEF Branch, At
    <2>4. Way(O, part, g[1], g[2]) \/ (part = <<>> /\ Entails(g[1], g[2]))
      <3>1. CASE Item.op = "if"
        BY <1>3, <2>2, <3>1 DEF Covers
      <3>2. CASE Item.op = "has"
        <4>1. Way(O, Item.a, g[1], g[2]) /\ Entails(g[1], g[2])
          BY <1>3, <3>2 DEF Covers
        <4>2. part \in {IF bits \cap Item.v # {} THEN Item.a ELSE <<>>}
          BY <2>2, <3>2
        <4>3. part = Item.a \/ part = <<>>
          BY <4>2
        <4>. QED  BY <4>1, <4>3
      <3>3. CASE Item.op = "oneof"
        <4>1. \A i \in DOMAIN Item.cases : Way(O, Item.cases[i], g[1], g[2])
          BY <1>3, <3>3 DEF Covers
        <4>2. PICK i \in DOMAIN Item.cases : part = Item.cases[i]
          BY <2>2, <3>3
        <4>. QED  BY <4>1, <4>2
      <3>. QED  BY <2>3, <3>1, <3>2, <3>3
    <2>5. CASE Way(O, part, g[1], g[2])
      BY <1>1, <1>2, <1>3, <2>1, <2>2, <2>5, StepWay
    <2>6. CASE part = <<>> /\ Entails(g[1], g[2])
      <3>1. todo' = Rest
        BY <1>3, <2>2, <2>6
      <3>. QED  BY <1>1, <1>2, <1>3, <2>1, <2>6, <3>1, StepOn
    <2>. QED  BY <2>4, <2>5, <2>6
  <1>7. CASE Lose
    <2>. DEFINE x == [g[1] EXCEPT !.lost = TRUE]
    <2>1. Item.op = "lost" /\ todo' = Rest /\ skew' = TRUE /\ UNCHANGED <<sure, end, wrong>>
      BY <1>7 DEF Lose, At, Going
    <2>2. Entails(x, g[2])
      BY <1>3, <2>1 DEF Covers
    <2>3. /\ x.left = g[1].left /\ x.late = g[1].late /\ x.lost /\ x.tries = g[1].tries
      BY <1>3 DEF Note
    <2>. HIDE DEF x
    <2>4. KnownOf(x, sure, end, TRUE, wrong)
      BY <1>3, <2>3, Zenon DEF Known, KnownOf
    <2>5. KnownOf(x, sure', end', skew', wrong')
      BY <2>1, <2>4
    <2>6. x.left \in Nat
      BY <1>3, <2>3
    <2>. QED  BY <1>1, <1>2, <2>1, <2>2, <2>3, <2>5, <2>6, StepOn
  <1>. QED  BY <1>5, <1>6, <1>7

-----------------------------------------------------------------------------
\* Loops.  What is known when a loop begins is known of the note of its turns,
\* and what is known there is known behind the loop.
LEMMA LoopNotes ==
    ASSUME NEW m \in Note, NEW c \in BOOLEAN
    PROVE  /\ InLoop(m, c).left = m.left /\ InLoop(m, c).late = m.late
           /\ InLoop(m, c).lost = m.lost /\ InLoop(m, c).tries = m.tries
  BY DEF Note, InLoop

LEMMA KnownPast ==
    ASSUME NEW m \in Note, NEW n \in Note, Entails(InLoop(m, n.inLoop), n),
           NEW left \in Nat, NEW over \in BOOLEAN, NEW lost \in BOOLEAN,
           NEW mistaken \in BOOLEAN, KnownOf(m, left, over, lost, mistaken)
    PROVE  KnownOf(n, left, over, lost, mistaken) /\ n.tries = m.tries
  <1>. DEFINE x == InLoop(m, n.inLoop)
  <1>1. /\ x.left = m.left /\ x.late = m.late /\ x.lost = m.lost /\ x.tries = m.tries
        /\ m.left \in Nat
    BY LoopNotes, NoteFields
  <1>. HIDE DEF x
  <1>2. Entails(x, n)
    BY DEF x
  <1>3. KnownOf(x, left, over, lost, mistaken)
    BY <1>1, Zenon DEF KnownOf
  <1>4. x.left \in Nat
    BY <1>1
  <1>5. KnownOf(n, left, over, lost, mistaken)
    BY <1>2, <1>3, <1>4, KnownWeaker
  <1>6. n.tries = m.tries
    BY <1>1, <1>2, Zenon DEF Entails
  <1>. QED  BY <1>5, <1>6

LEMMA TurnsKnown ==
    ASSUME NEW O, Outlines(O, Items), NEW k \in Nat, NEW body,
           NEW m \in Note, NEW n \in Note, Entered(O, k, body, m, n),
           NEW left \in Nat, NEW over \in BOOLEAN, NEW lost \in BOOLEAN,
           NEW mistaken \in BOOLEAN, KnownOf(m, left, over, lost, mistaken)
    PROVE  \E b \in Note : /\ Turning(O, k, body, b, n) /\ b.tries = m.tries
                           /\ KnownOf(b, left, over, lost, mistaken)
  <1>1. PICK o \in O : /\ Entails(InLoop(m, End(o).inLoop), End(o))
                       /\ Turning(O, k, body, End(o), n)
    BY DEF Entered
  <1>2. End(o) \in Note
    BY DEF Outlines, End
  <1>. QED  BY <1>1, <1>2, KnownPast

\* An item in the place of this one.
LEMMA StepAgain ==
    ASSUME NEW O, Typed(Pending(Items)), Whole(O),
           outcome = "reading", todo # <<>>, outcome' = outcome, marks' = marks,
           NEW g, Followed(O, g), NEW x \in Pending(Items), todo' = <<x>> \o Rest,
           Covers(O, x, g[1], g[2]), g[2].tries = g[1].tries,
           g[1].inLoop => IF Live(x) THEN Broken(g[2]) ELSE g[2].inLoop,
           KnownOf(g[1], sure', end', skew', wrong')
    PROVE  Whole(O)'
  <1>1. /\ g[1] \in Note /\ Rest \in Seq(Pending(Items))
        /\ Sound(O, Rest, Tail(g)) /\ Tail(g)[1] = g[2]
    BY AtItem
  <1>. DEFINE h == <<g[1]>> \o Tail(g)
  <1>2. Sound(O, <<x>> \o Rest, h)
    BY <1>1, SoundCons
  <1>3. h[1] = g[1]
    <2>1. Tail(g) \in Seq(Note)
      BY <1>1 DEF Sound
    <2>. QED  BY <1>1, <2>1
  <1>. HIDE DEF h
  <1>. QED  BY <1>2, <1>3, Onward

LEMMA OneLoop ==
    ASSUME NEW x \in Pending(Items)
    PROVE  /\ x.op = "loop" => x \in Loops(Items, Nat, BOOLEAN)
           /\ x.op = "while" => x \in Whiles(Items, Nat)
  <1>1. CASE x \in Items
    BY <1>1, LayoutsAssumption, Shapes, FreshLoops
  <1>2. CASE x \in Loops(Items, Nat, BOOLEAN)
    BY <1>2 DEF Loops
  <1>3. CASE x \in Whiles(Items, Nat)
    BY <1>3 DEF Whiles
  <1>4. CASE x = [op |-> "done"]
    BY <1>4
  <1>. QED  BY <1>1, <1>2, <1>3, <1>4 DEF Pending

LEMMA NameKept == [Next]_vars => name' = name
  BY DEF Next, vars, ReadBytes, ReadField, ReadFlags, ReadGuid, ReadText, ReadMany, Guard,
         GuardGuid, Leave, BranchOnLeft, Branch, LoopBegin, LoopTurn, LoopMany, LoopEnd,
         WhileTurn, Try, Done, Lose, Finish, Write, Send, Going

\* A loop under way, or one that has not begun.
Looping(O, k, body, m, n) == Entered(O, k, body, m, n) \/ Turning(O, k, body, m, n)

LEMMA TurnKnown ==
    ASSUME NEW O, Outlines(O, Items), NEW k \in Nat, NEW body,
           NEW m \in Note, NEW n \in Note, Looping(O, k, body, m, n),
           NEW left \in Nat, NEW over \in BOOLEAN, NEW lost \in BOOLEAN,
           NEW mistaken \in BOOLEAN, KnownOf(m, left, over, lost, mistaken)
    PROVE  \E b \in Note : /\ Turning(O, k, body, b, n) /\ b.tries = m.tries
                           /\ KnownOf(b, left, over, lost, mistaken)
  BY TurnsKnown DEF Looping

LEMMA LoopKnown ==
    ASSUME NEW O, Outlines(O, Items), NEW k \in Nat, NEW body,
           NEW m \in Note, NEW n \in Note, Looping(O, k, body, m, n),
           NEW left \in Nat, NEW over \in BOOLEAN, NEW lost \in BOOLEAN,
           NEW mistaken \in BOOLEAN, KnownOf(m, left, over, lost, mistaken)
    PROVE  KnownOf(n, left, over, lost, mistaken) /\ n.tries = m.tries
  <1>1. PICK b \in Note : /\ Turning(O, k, body, b, n) /\ b.tries = m.tries
                          /\ KnownOf(b, left, over, lost, mistaken)
    BY TurnKnown
  <1>2. Entails(InLoop(b, n.inLoop), n)
    BY <1>1 DEF Turning
  <1>3. KnownOf(n, left, over, lost, mistaken) /\ n.tries = b.tries
    BY <1>1, <1>2, KnownPast
  <1>. QED  BY <1>1, <1>3

LEMMA WholeLoops ==
    ASSUME NEW O, Outlines(O, Items), Typed(Pending(Items)), Typed(Pending(Items))', Whole(O),
           LoopBegin \/ LoopTurn \/ LoopMany \/ LoopEnd \/ WhileTurn
    PROVE  Whole(O)'
  <1>1. /\ outcome = "reading" /\ todo # <<>> /\ outcome' = outcome
        /\ UNCHANGED <<wrong, marks>>
    BY DEF LoopBegin, LoopTurn, LoopMany, LoopEnd, WhileTurn, At, Going, Kept
  <1>2. PICK g : Followed(O, g)
    BY <1>1 DEF Whole, Followed
  <1>. DEFINE m == g[1]
              n == g[2]
  <1>3. /\ m \in Note /\ n \in Note /\ Covers(O, Item, m, n)
        /\ Fits(Pending(Items), Item) /\ m.left \in Nat /\ Item \in Pending(Items)
        /\ Rest \in Seq(Pending(Items))
    BY <1>1, <1>2, AtItem
  <1>4. /\ sure \in Nat /\ end \in BOOLEAN /\ skew \in BOOLEAN /\ wrong \in BOOLEAN
        /\ KnownOf(m, sure, end, skew, wrong)
    BY <1>1, <1>2, AtItem DEF Typed, Framed, Known
  <1>5. /\ sure' \in Nat /\ end' \in BOOLEAN /\ skew' \in BOOLEAN
    BY DEF Typed, Framed
  <1>6. MaxEntries \in Nat \ {0}
    BY LayoutsAssumption
  <1>. HIDE DEF m, n
  <1>a. ASSUME NEW body, Looping(O, 0, body, m, n)
         PROVE  n.tries = m.tries
    <2>1. 0 \in Nat
      OBVIOUS
    <2>2. KnownOf(n, sure, end, skew, wrong) /\ n.tries = m.tries
      BY <1>3, <1>4, <1>a, <2>1, LoopKnown
    <2>. QED  BY <2>2
  <1>7. CASE LoopBegin
    <2>. DEFINE c == Larger(Val(Item.f) - Item.less, 0)
                more == Item.cap # NoCap /\ c > Item.cap
                loop == Turn(Smaller(c, Item.cap), 0, more, TRUE, Item.body)
    <2>1. /\ Item.op = "times" /\ todo' = <<loop>> \o Rest
          /\ UNCHANGED <<sure, end, skew, wrong>>
      BY <1>7 DEF LoopBegin, At, Kept
    <2>2. (Item.cap # NoCap => n.lost) /\ Entered(O, 0, Item.body, m, n)
      BY <1>3, <2>1 DEF Covers
    <2>3. loop.op = "loop" /\ loop.t = 0 /\ loop.more = more /\ loop.body = Item.body
      BY DEF Turn
    <2>4. loop \in Pending(Items)
      <3>1. Item.less \in Nat /\ Item.cap \in Nat /\ Val(Item.f) \in Nat
        BY <1>3, <2>1, ValsKept DEF Fits, Typed, Framed
      <3>2. Smaller(c, Item.cap) \in Nat
        BY <3>1 DEF Larger, Smaller
      <3>3. more \in BOOLEAN
        BY Zenon
      <3>. HIDE DEF c, more
      <3>. QED  BY <1>3, <2>1, <3>2, <3>3 DEF Fits
    <2>5. more => n.lost
      BY <2>2, Zenon
    <2>. HIDE DEF loop, more
    <2>6. Covers(O, loop, m, n) /\ ~Live(loop)
      BY <2>2, <2>3, <2>5 DEF Covers, Live
    <2>7. n.tries = m.tries
      BY <1>a, <2>2 DEF Looping
    <2>8. m.inLoop => n.inLoop
      BY <2>2 DEF Entered
    <2>9. KnownOf(m, sure', end', skew', wrong')
      BY <1>4, <2>1
    <2>. QED  BY <1>1, <1>2, <2>1, <2>4, <2>6, <2>7, <2>8, <2>9, StepAgain DEF m, n
  <1>8. ASSUME NEW k \in Nat, NEW x \in Pending(Items), Live(x), NEW body,
               body \in Seq(Pending(Items)),
               \A b \in Note : Turning(O, k, body, b, n) => Covers(O, x, b, n),
               Looping(O, k, body, m, n),
               HasLeft(k), UNCHANGED skew, todo' = body \o <<x>> \o Rest
        PROVE  Whole(O)'
    <2>1. PICK b \in Note : /\ Turning(O, k, body, b, n) /\ b.tries = m.tries
                            /\ KnownOf(b, sure, end, skew, wrong)
      <3>1. Looping(O, k, body, m, n)
        BY <1>8
      <3>. QED  BY <1>3, <1>4, <3>1, TurnKnown
    <2>2. KnownOf(Has(b, k), sure', end', skew', wrong')
      BY <1>1, <1>4, <1>8, <2>1, HasKnown DEF Known
    <2>3. Covers(O, x, b, n)
      BY <1>8, <2>1
    <2>. QED  BY <1>1, <1>2, <1>8, <2>1, <2>2, <2>3, StepTurn DEF m, n
  <1>9. Item.op = "loop" =>
            /\ Item.more => n.lost
            /\ Item.t = 0 => Entered(O, 0, Item.body, m, n)
            /\ Item.t > 0 => Turning(O, 0, Item.body, m, n)
            /\ Item.t \in Nat
    BY <1>3 DEF Covers, Fits
  <1>10. CASE LoopTurn
    <2>1. PICK next \in Loops(Items, Nat, BOOLEAN) :
                 /\ todo' = Item.body \o <<next>> \o Rest
                 /\ next.t > 0 /\ next.more = Item.more /\ next.body = Item.body
      BY <1>10, NextTurn
    <2>2. /\ Item.op = "loop" /\ UNCHANGED <<sure, end, skew>>
      BY <1>10 DEF LoopTurn, At, Kept
    <2>3. Item.body \in Seq(Pending(Items)) /\ next \in Pending(Items) /\ next.op = "loop"
      <3>1. Item \in Loops(Items, Nat, BOOLEAN)
        BY <1>10, NextTurn
      <3>2. Item.body \in Seq(Items) /\ next.op = "loop"
        BY <3>1 DEF Loops
      <3>. QED  BY <3>2 DEF Pending
    <2>4. Live(next)
      BY <2>1, <2>3 DEF Live
    <2>5. ASSUME NEW b \in Note, Turning(O, 0, Item.body, b, n) PROVE Covers(O, next, b, n)
      BY <1>9, <2>1, <2>2, <2>3, <2>5 DEF Covers
    <2>6. Looping(O, 0, Item.body, m, n)
      BY <1>9, <2>2 DEF Looping
    <2>7. HasLeft(0)
      BY <1>4, <2>2 DEF HasLeft, Larger
    <2>8. 0 \in Nat
      OBVIOUS
    <2>. QED  BY <1>8, <2>1, <2>2, <2>3, <2>4, <2>5, <2>6, <2>7, <2>8
  <1>11. CASE LoopMany
    <2>1. /\ Item.op = "loop" /\ Item.t = MaxEntries /\ UNCHANGED <<sure, skew>>
      BY <1>11 DEF LoopMany, At, Kept
    <2>2. Turning(O, 0, Item.body, m, n)
      BY <1>6, <1>9, <2>1
    <2>3. CASE end' = TRUE /\ UNCHANGED todo
      <3>1. KnownOf(m, sure', end', skew', wrong')
        BY <1>1, <1>4, <2>1, <2>3, Zenon DEF KnownOf
      <3>2. Sound(O, todo', g)
        BY <1>2, <2>3 DEF Followed
      <3>. QED  BY <1>1, <1>2, <3>1, <3>2, Onward DEF m
    <2>4. CASE todo' = <<[Item EXCEPT !.k = 0]>> \o Rest /\ UNCHANGED end
      <3>. DEFINE x == [Item EXCEPT !.k = 0]
      <3>1. x \in Pending(Items)
        BY <1>3, <2>1 DEF Fits
      <3>2. x.op = Item.op /\ x.t = Item.t /\ x.more = Item.more /\ x.body = Item.body
        <4>1. Item \in Loops(Items, Nat, BOOLEAN)
          BY <1>3, <2>1, OneLoop
        <4>. QED  BY <4>1 DEF Loops
      <3>. HIDE DEF x
      <3>3. Covers(O, x, m, n) /\ Live(x)
        BY <1>6, <1>9, <2>1, <2>2, <3>2 DEF Covers, Live
      <3>4. n.tries = m.tries
        BY <1>a, <2>2 DEF Looping
      <3>5. m.inLoop => Broken(n)
        BY <2>2 DEF Turning
      <3>6. KnownOf(m, sure', end', skew', wrong')
        BY <1>1, <1>4, <2>1, <2>4
      <3>7. todo' = <<x>> \o Rest
        BY <2>4 DEF x
      <3>. QED  BY <1>1, <1>2, <3>1, <3>3, <3>4, <3>5, <3>6, <3>7, StepAgain DEF m, n
    <2>. QED  BY <1>11, <2>3, <2>4 DEF LoopMany
  <1>12. ASSUME NEW k \in Nat, NEW body,
                Looping(O, k, body, m, n),
                KnownOf(m, sure', end', skew, wrong), todo' = Rest,
                skew' => skew \/ n.lost
         PROVE  Whole(O)'
    <2>1. KnownOf(n, sure', end', skew, wrong) /\ n.tries = m.tries
      BY <1>3, <1>4, <1>5, <1>12, LoopKnown
    <2>2. KnownOf(n, sure', end', skew', wrong')
      BY <1>1, <1>12, <2>1, Zenon DEF KnownOf
    <2>3. n.left \in Nat /\ Entails(n, n)
      BY <1>3, NoteFields, EntailsItself
    <2>. QED  BY <1>1, <1>2, <1>12, <2>1, <2>2, <2>3, StepOn DEF m, n
  <1>13. CASE LoopEnd
    <2>1. /\ Item.op = "loop" /\ UNCHANGED <<sure, end>> /\ todo' = Rest
          /\ skew' = (skew \/ Item.more)
      BY <1>13 DEF LoopEnd, At
    <2>2. Looping(O, 0, Item.body, m, n)
      BY <1>9, <2>1 DEF Looping
    <2>3. skew' => skew \/ n.lost
      BY <1>4, <1>5, <1>9, <2>1, Zenon
    <2>4. KnownOf(m, sure', end', skew, wrong) /\ 0 \in Nat
      BY <1>4, <2>1
    <2>. QED  BY <1>12, <2>1, <2>2, <2>3, <2>4
  <1>14. CASE WhileTurn
    <2>1. /\ Item.op = "while" /\ UNCHANGED skew
          /\ \/ /\ HasLeft(Item.n)
                /\ todo' = Item.body \o <<[Item EXCEPT !.t = Smaller(@ + 1, MaxEntries)]>> \o Rest
             \/ /\ \E left \in Lacks(Item.n) : sure' = left
                /\ end' = TRUE
                /\ todo' = Rest
      BY <1>14 DEF WhileTurn, At, Kept
    <2>2. /\ Item.n \in Nat /\ Item.t \in Nat /\ Item.body \in Seq(Pending(Items))
      BY <1>3, <2>1 DEF Fits
    <2>3. Looping(O, Item.n, Item.body, m, n)
      BY <1>3, <2>1 DEF Covers, Looping
    <2>. DEFINE x == [Item EXCEPT !.t = Smaller(Item.t + 1, MaxEntries)]
    <2>4. CASE HasLeft(Item.n) /\ todo' = Item.body \o <<x>> \o Rest
      <3>1. Smaller(Item.t + 1, MaxEntries) \in Nat \ {0}
        BY <1>6, <2>2 DEF Smaller
      <3>2. x \in Pending(Items)
        BY <1>3, <2>1, <3>1 DEF Fits
      <3>3. x.op = "while" /\ x.t = Smaller(Item.t + 1, MaxEntries)
            /\ x.n = Item.n /\ x.body = Item.body
        <4>1. Item \in Whiles(Items, Nat)
          BY <1>3, <2>1, OneLoop
        <4>. QED  BY <2>1, <4>1 DEF Whiles
      <3>. HIDE DEF x
      <3>4. Live(x)
        BY <3>1, <3>3 DEF Live
      <3>5. ASSUME NEW b \in Note, Turning(O, Item.n, Item.body, b, n)
            PROVE  Covers(O, x, b, n)
        BY <3>1, <3>3, <3>5 DEF Covers
      <3>. QED  BY <1>8, <2>1, <2>2, <2>3, <2>4, <3>2, <3>4, <3>5
    <2>5. CASE /\ \E left \in Lacks(Item.n) : sure' = left
               /\ end' = TRUE
               /\ todo' = Rest
      <3>1. KnownOf(m, sure', TRUE, skew, wrong)
        BY <1>3, <1>4, <2>2, <2>5, LacksKnown DEF Known
      <3>2. KnownOf(m, sure', end', skew, wrong)
        BY <2>5, <3>1
      <3>. QED  BY <1>12, <2>1, <2>2, <2>3, <2>5, <3>2
    <2>. QED  BY <2>1, <2>4, <2>5
  <1>. QED  BY <1>7, <1>10, <1>11, <1>13, <1>14

-----------------------------------------------------------------------------
LEMMA WholeStep ==
    ASSUME NEW O, Outlines(O, Items), Typed(Pending(Items)), Typed(Pending(Items))', Whole(O),
           [Next]_vars
    PROVE  Whole(O)'
  <1>1. CASE Finish
    <2>1. outcome = "reading" /\ todo = <<>> /\ outcome' = "accepted" /\ wrong' = wrong
      BY <1>1 DEF Finish
    <2>2. PICK g : Followed(O, g)
      BY <2>1 DEF Whole, Followed
    <2>3. g \in Seq(Note) /\ Len(g) = 1 /\ ~Late(g[1]) /\ Known(g[1])
      BY <2>1, <2>2 DEF Followed, Sound
    <2>4. g[1] \in Note /\ sure \in Nat
      <3>1. g[1] \in Note
        BY <2>3
      <3>. QED  BY <3>1 DEF Typed, Framed
    <2>5. ~wrong
      BY <2>3, <2>4, NotWrong DEF Known
    <2>. QED  BY <2>1, <2>5 DEF Whole
  <1>2. CASE Write \/ Send
    <2>1. outcome = "reading" /\ todo # <<>>
          /\ Item.op \in {"put", "putbits", "putguid", "sent"}
      BY <1>2 DEF Write, Send, At
    <2>2. PICK g : Followed(O, g)
      BY <2>1 DEF Whole, Followed
    <2>3. Covers(O, Item, g[1], g[2])
      BY <2>1, <2>2, AtItem
    <2>. QED  BY <2>1, <2>3 DEF Covers
  <1>3. CASE UNCHANGED vars
    BY <1>3 DEF vars, Whole, Known
  <1>. QED  BY <1>1, <1>2, <1>3, WholeReads, WholeGuards, WholeBranches, WholeLoops,
               WholeTry, WholeDone DEF Next

LEMMA WholeInit ==
    ASSUME NEW O, Outlines(O, Items), Init, Disciplined(O, Layouts[name])
    PROVE  Whole(O)
  <1>1. /\ todo = Layouts[name] /\ sure = 0 /\ skew = FALSE /\ wrong = FALSE
        /\ marks = <<>> /\ outcome = "reading"
    BY DEF Init
  <1>2. PICK o \in O : o.layout = todo /\ Entails(Start, o.notes[1]) /\ ~Late(End(o))
    BY <1>1 DEF Disciplined
  <1>. DEFINE g == o.notes
  <1>3. /\ todo \in Seq(Items) /\ g \in Seq(Note) /\ Len(g) = Len(todo) + 1
        /\ \A i \in 1 .. Len(todo) : Covers(O, todo[i], g[i], g[i + 1])
        /\ \A i \in 1 .. Len(todo) + 1 : g[i].inLoop = g[1].inLoop /\ g[i].tries = g[1].tries
        /\ End(o) = g[Len(todo) + 1]
    BY <1>2 DEF Outlines, End
  <1>. HIDE DEF g
  <1>4. Start.left = 0 /\ ~Start.inLoop /\ Start.tries = <<>> /\ ~Start.late
    BY DEF Start
  <1>5. Entails(Start, g[1])
    BY <1>2 DEF g
  <1>6. g[1].left <= 0 /\ ~g[1].inLoop /\ g[1].tries = <<>> /\ g[1].left \in Nat
    <2>1. g[1] \in Note
      BY <1>3
    <2>2. g[1].left \in Nat
      BY <2>1, NoteFields
    <2>. QED  BY <1>4, <1>5, <2>2, Zenon DEF Entails
  <1>7. Sound(O, todo, g)
    <2>1. \A i \in 1 .. Len(todo) + 1 : ~g[i].inLoop
      BY <1>3, <1>6, Zenon
    <2>2. Len(todo) \in Nat
      BY <1>3
    <2>3. /\ \A i \in 1 .. Len(todo) : ~g[i].inLoop
          /\ ~g[Len(todo) + 1].inLoop
      BY <2>1, <2>2
    <2>. QED  BY <1>2, <1>3, <2>3 DEF Sound
  <1>8. Known(g[1])
    BY <1>1, <1>6 DEF Known, KnownOf
  <1>9. Backs(marks, g[1].tries, Len(marks))
    BY <1>1, <1>6 DEF Backs
  <1>. QED  BY <1>1, <1>7, <1>8, <1>9 DEF Whole

\* A parser that its text shows to be disciplined never accepts a packet with a
\* number the sender did not write: for any length of the packet, any counts and
\* flags in it, any nesting of parts, loops and parsers tried one after another
\* (readUInt8() and the like return zero past the end, packet.cpp:54).
THEOREM AcceptedWhole ==
    ASSUME NEW O, Outlines(O, Items)
    PROVE  Spec => [](Disciplined(O, Layouts[name]) => AcceptedIsWhole)
  <1>. DEFINE Inv == Disciplined(O, Layouts[name]) => Whole(O)
  <1>1. Init => Inv
    BY WholeInit
  <1>2. Inv /\ Typed(Pending(Items)) /\ Typed(Pending(Items))' /\ [Next]_vars => Inv'
    <2>. SUFFICES ASSUME Inv, Typed(Pending(Items)), Typed(Pending(Items))', [Next]_vars,
                         Disciplined(O, Layouts[name'])
                  PROVE  Whole(O)'
      BY DEF Inv
    <2>1. name' = name
      BY NameKept
    <2>2. Whole(O)
      BY <2>1
    <2>. QED  BY <2>2, WholeStep
  <1>3. Inv => (Disciplined(O, Layouts[name]) => AcceptedIsWhole)
    BY DEF Whole, AcceptedIsWhole
  <1>. HIDE DEF Inv
  <1>. QED  BY <1>1, <1>2, <1>3, ReaderTyped, PTL DEF Spec

=============================================================================
