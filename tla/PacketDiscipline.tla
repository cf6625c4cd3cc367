-------------------------- MODULE PacketDiscipline --------------------------
(***************************************************************************)
(* What the text of a layout says about its parser, before any packet is   *)
(* read: which lists ask for every entry; at every item, what is known of  *)
(* the bytes that remain, of the cursor and of what was read; and whether  *)
(* a reader goes with a writer item by item.                               *)
(***************************************************************************)
EXTENDS PacketLayout

\* The first thing done is to ask for a byte or more.
Asks(layout) ==
    /\ layout # <<>>
    /\ \/ layout[1].op = "guard" /\ layout[1].n > 0
       \/ layout[1].op = "fullguid"

\* Items that have all their parts among them, and lists that ask for every
\* entry before they read it.
AskedLists(I) ==
    /\ I \subseteq Kinds(I)
    /\ \A it \in I : it.op = "times" \/ (it.op = "loop" /\ it.sent) => Asks(it.body)

-----------------------------------------------------------------------------
\* What is known at an item: so many bytes are left; a number may have been
\* read past the end, and then nothing is left; the cursor may be lost; a loop
\* is under way that may be left here; and these parsers are being tried, after
\* which another goes back, or goes on from where they stopped.
Note == [left : Nat, late : BOOLEAN, lost : BOOLEAN, inLoop : BOOLEAN,
         tries : Seq(BOOLEAN)]
Start == [left |-> 0, late |-> FALSE, lost |-> FALSE, inLoop |-> FALSE,
          tries |-> <<>>]

Late(m) == m.late /\ m.left = 0

\* Whoever knows m knows n.
Entails(m, n) ==
    /\ n.left <= m.left
    /\ m.lost => n.lost
    /\ Late(m) => n.late
    /\ n.inLoop = m.inLoop /\ n.tries = m.tries

\* After n bytes were asked for; after n were read; after any number were read
\* that was asked for or does not matter, and of which some may be missing.
Has(m, n) ==
    [m EXCEPT !.left = IF n > m.left THEN n ELSE m.left, !.late = Late(m) /\ n = 0]
Took(m, n) ==
    IF n <= m.left THEN [m EXCEPT !.left = m.left - n, !.late = Late(m)]
    ELSE [m EXCEPT !.left = 0, !.late = TRUE]
Spent(m, late) == [m EXCEPT !.left = 0, !.late = late]
InLoop(m, c)   == [m EXCEPT !.inLoop = c]
Tried(m, back) == [m EXCEPT !.inLoop = FALSE, !.tries = Append(m.tries, back)]

\* Where a parser may return true it has read no number past the end, nor where
\* it returns false to one that goes on from there; a loop is left early as
\* carefully, and what follows knows nothing of the cursor.
MayLeave(m, else) ==
    /\ else = "refuse" => m.tries = <<>> \/ m.tries[Len(m.tries)] \/ ~Late(m)
    /\ else = "accept" => ~Late(m) /\ m.tries = <<>>
    /\ else = "break" => ~Late(m) /\ m.inLoop
Broken(n) == n.lost /\ n.left = 0

\* An outline is a layout with a note for every item, and one for its end.
End(o) == o.notes[Len(o.layout) + 1]
Way(O, layout, m, n) ==
    \E o \in O : o.layout = layout /\ Entails(m, o.notes[1]) /\ Entails(End(o), n)

\* Every turn of a loop, asked n bytes for, begins and ends with note m; note
\* after is what is known behind it.
Turning(O, n, body, m, after) ==
    /\ Way(O, body, Has(m, n), m)
    /\ Entails(InLoop(m, after.inLoop), after)
    /\ m.inLoop => Broken(after)
\* The loop begins: its turns know less, and may be left if they say so.
Entered(O, n, body, m, after) ==
    /\ m.inLoop = after.inLoop
    /\ \E o \in O : /\ Entails(InLoop(m, End(o).inLoop), End(o))
                    /\ Turning(O, n, body, End(o), after)

\* Note m before the item and what the item does give note n behind it.
Covers(O, it, m, n) ==
    \/ it.op \in {"read", "field", "bits"} /\ ~m.lost /\ Entails(Took(m, it.n), n)
    \/ it.op = "guid" /\ ~m.lost /\ Entails(Took(m, 9), n)
    \/ it.op = "text" /\ ~m.lost /\ Entails(Spent(m, Late(m)), n)
    \/ it.op = "bytes" /\ ~m.lost /\ Entails(Spent(m, TRUE), n)
    \/ it.op = "guard" /\ MayLeave(m, it.else) /\ Entails(Has(m, it.n), n)
    \/ it.op = "needeach" /\ MayLeave(m, it.else) /\ Entails(Has(m, it.k), n)
    \/ it.op = "fullguid" /\ ~m.lost /\ MayLeave(m, it.else) /\ Entails(Spent(m, FALSE), n)
    \/ it.op = "leave" /\ MayLeave(m, it.else)
    \/ it.op = "ifleft" /\ Way(O, it.a, Has(m, it.n), n) /\ Way(O, it.b, m, n)
    \/ it.op = "if" /\ Way(O, it.a, m, n) /\ Way(O, it.b, m, n)
    \/ it.op = "has" /\ Way(O, it.a, m, n) /\ Entails(m, n)
    \/ it.op = "oneof" /\ \A i \in DOMAIN it.cases : Way(O, it.cases[i], m, n)
    \/ it.op = "times" /\ (it.cap # NoCap => n.lost) /\ Entered(O, 0, it.body, m, n)
    \/ it.op = "loop" /\ it.t = 0 /\ (it.more => n.lost) /\ Entered(O, 0, it.body, m, n)
    \/ it.op = "loop" /\ it.t > 0 /\ (it.more => n.lost) /\ Turning(O, 0, it.body, m, n)
    \/ it.op = "while" /\ it.t = 0 /\ Entered(O, it.n, it.body, m, n)
    \/ it.op = "while" /\ it.t > 0 /\ Turning(O, it.n, it.body, m, n)
    \/ /\ it.op = "try" /\ ~Late(m)
       /\ Way(O, it.a, Tried(m, it.back), Tried(n, it.back))
       /\ Way(O, it.b, Spent(m, FALSE), n)
    \/ /\ it.op = "done" /\ \E back \in BOOLEAN : m.tries = Append(n.tries, back)
       /\ Entails([m EXCEPT !.inLoop = n.inLoop, !.tries = n.tries], n)
    \/ it.op = "lost" /\ Entails([m EXCEPT !.lost = TRUE], n)

\* The notes of every outline follow from one another, through outlines of the
\* parts.
Outlines(O, I) ==
    \A o \in O :
        /\ o.layout \in Seq(I) /\ o.notes \in Seq(Note)
        /\ Len(o.notes) = Len(o.layout) + 1
        /\ \A i \in DOMAIN o.layout : Covers(O, o.layout[i], o.notes[i], o.notes[i + 1])
        /\ \A i \in DOMAIN o.notes : /\ o.notes[i].inLoop = o.notes[1].inLoop
                                     /\ o.notes[i].tries = o.notes[1].tries

\* A parser that knows at its end that it read no number past the end of the
\* packet.
Disciplined(O, layout) ==
    \E o \in O : o.layout = layout /\ Entails(Start, o.notes[1]) /\ ~Late(End(o))

-----------------------------------------------------------------------------
\* A writer and the reader of what it writes: what is left of the packet to
\* write, sent and read; the reader; what is left of that where the writer
\* stands; the guids written so far; and whether a flag was decided by.
Goes(M, p, left, read, named, chosen) ==
    [left |-> left, reader |-> p.reader, read |-> read, named |-> named,
     chosen |-> chosen] \in M

\* Item it of the writer gives what item r of the reader reads, and both go on
\* together.  Flags are written before one decides, and no guid twice.
Matches(M, p, it, r) ==
    LET goes(named) == Goes(M, p, Tail(p.left), Tail(p.read), named, p.chosen)
    IN  \/ it.op = "put" /\ r.op = "read" /\ r.n = it.n /\ goes(p.named)
        \/ it.op = "put" /\ r = Maybe(it.n) /\ goes(p.named)
        \/ /\ it.op = "putbits" /\ r.op = "bits" /\ r.n = it.n
           /\ it.n > 0 /\ ~p.chosen /\ goes(p.named)
        \/ /\ it.op = "putguid" /\ r.op = "guidof" /\ r.f = it.f
           /\ it.f \notin p.named /\ goes(p.named \cup {it.f})
        \/ /\ it.op = "has" /\ r.op = "has" /\ r.v = it.v
           /\ Goes(M, p, it.a \o Tail(p.left), r.a \o Tail(p.read), p.named, TRUE)
           /\ Goes(M, p, Tail(p.left), Tail(p.read), p.named, TRUE)

Pairs(M, I) ==
    \A p \in M :
        /\ p.left \in Seq(I) /\ p.read \in Seq(I) /\ p.left # <<>>
        /\ \/ p.left[1].op = "sent" /\ p.read = <<>> /\ Tail(p.left) = p.reader
           \/ p.read # <<>> /\ Matches(M, p, p.left[1], p.read[1])

\* A layout that writes a packet and then reads it the same way.
Mirrored(M, layout) ==
    \E p \in M : /\ p.left = layout /\ p.read = p.reader
                 /\ p.named = {} /\ ~p.chosen

=============================================================================
