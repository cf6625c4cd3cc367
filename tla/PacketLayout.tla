---------------------------- MODULE PacketLayout ----------------------------
(***************************************************************************)
(* How a parser is written down: a layout is the sequence of what the      *)
(* parser asks and reads, in its order.  Widths are bytes.  The value of a *)
(* field is kept only when it counts the entries of a loop, or when a      *)
(* sender and a reader must agree on it; a part that a flag, a type or a   *)
(* compared value decides about is an alternative.                         *)
(***************************************************************************)
EXTENDS Integers, Sequences

Read(n)         == [op |-> "read", n |-> n]     \* fields nobody looks at here
Guid            == [op |-> "guid"]              \* readPackedGuid()
Text            == [op |-> "text"]              \* readString()
\* A field that counts something: none, one, two, or more than any packet
\* holds.  And one of a few other values.
Most(n)         == IF n = 1 THEN 255 ELSE IF n = 2 THEN 65535 ELSE 2147483647
Field(f, n, V)  == [op |-> "field", n |-> n, f |-> f, v |-> V]
Count(f, n)     == Field(f, n, {0, 1, 2, Most(n)})

\* hasRemaining(n): if not, return false, return true, or leave the loop.
Need(n)         == [op |-> "guard", n |-> n, else |-> "refuse"]
Enough(n)       == [op |-> "guard", n |-> n, else |-> "accept"]
OrBreak(n)      == [op |-> "guard", n |-> n, else |-> "break"]
\* The same for f entries of n bytes and k bytes more.
NeedEach(f, n, k)        == [op |-> "needeach", f |-> f, n |-> n, k |-> k, else |-> "refuse"]
NeedEachOrBreak(f, n, k) == [op |-> "needeach", f |-> f, n |-> n, k |-> k, else |-> "break"]
\* hasFullPackedGuid() and the guid it asks about.
FullGuid        == [op |-> "fullguid", else |-> "refuse"]
FullGuidOrBreak == [op |-> "fullguid", else |-> "break"]
\* return false, return true, break, whatever remains.
Refuse          == [op |-> "leave", else |-> "refuse"]
Accept          == [op |-> "leave", else |-> "accept"]
Break           == [op |-> "leave", else |-> "break"]
\* Return false from the parser that tries others, not from one it tries.
Fail            == [op |-> "leave", else |-> "fail"]

\* if hasRemaining(n); if the count f is one of V; the cases of a switch; the
\* part that a flag announces.
IfLeft(n, a, b) == [op |-> "ifleft", n |-> n, a |-> a, b |-> b]
If(f, V, a, b)  == [op |-> "if", f |-> f, v |-> V, a |-> a, b |-> b]
AtMost(f)       == If(f, 0 .. 2, <<>>, <<Refuse>>)   \* of any reasonable limit
OneOf(cases)    == [op |-> "oneof", cases |-> cases]
Opt(a)          == OneOf(<<a, <<>>>>)
\* if (hasRemaining(n)) read n bytes
Maybe(n)        == IfLeft(n, <<Read(n)>>, <<>>)
MaybeText       == IfLeft(1, <<Text>>, <<>>)
\* if (!hasRemaining(n)) return false; read n bytes.
Ask(n)          == <<Need(n), Read(n)>>

\* for (i = 0; i < f && i < cap; ++i) body, and for (i = 0; i < k; ++i) body.
NoCap               == 2147483647
Times(f, cap, body) ==
    [op |-> "times", f |-> f, less |-> 0, cap |-> cap, body |-> body]
TimesLess(f, k, body) ==                         \* f - k times
    [op |-> "times", f |-> f, less |-> k, cap |-> NoCap, body |-> body]
Turn(k, t, more, sent, body) ==
    [op |-> "loop", k |-> k, t |-> t, more |-> more, sent |-> sent,
     dry |-> FALSE, body |-> body]
Repeat(k, body)     == Turn(k, 0, FALSE, FALSE, body)
\* while (hasRemaining(n)) body
While(n, body)      == [op |-> "while", n |-> n, t |-> 0, body |-> body]
\* f entries of n bytes, copied or skipped at once.
Bytes(f, n)         == [op |-> "bytes", f |-> f, n |-> n]
\* A count that is too large is taken for another field, and ignored.
Lost                == [op |-> "lost"]

\* Parse a; if it returns false, go back to where it began and parse b, or
\* go on from where it stopped.  A parser that returns true early returns to
\* the one that called it.
OrElse(a, b)    == [op |-> "try", a |-> a, b |-> b, back |-> TRUE]
Attempt(a)      == [op |-> "try", a |-> a, b |-> <<Lost>>, back |-> FALSE]
Call(a)         == OrElse(a, <<Refuse>>)
\* Read a and go back to where it began.
Peek(a, b)      == OrElse(a \o <<Refuse>>, b)

\* What a sender does: bytes, flags, a packed guid, and the end of the packet;
\* and the reader's part: the same flags, the same guid.
Put(n)           == [op |-> "put", n |-> n]
PutBits(n, S)    == [op |-> "putbits", n |-> n, v |-> S]
PutGuid(f)       == [op |-> "putguid", f |-> f]
Sent             == [op |-> "sent"]
Flags(n, S)      == [op |-> "bits", n |-> n, v |-> S]
GuidOf(f)        == [op |-> "guidof", f |-> f]
HasAny(S, a)     == [op |-> "has", v |-> S, a |-> a]

\* Items of all these kinds whose parts are sequences of items of I, with loops
\* that have not begun.
Loops(I, turns, dry) ==
    [op : {"loop"}, k : Nat, t : turns, more : BOOLEAN, sent : BOOLEAN,
     dry : dry, body : Seq(I)]
Whiles(I, turns) == [op : {"while"}, n : Nat, t : turns, body : Seq(I)]
Leaving == {"refuse", "accept", "break", "fail"}
Kinds(I) ==
         [op : {"read", "put"}, n : Nat]
    \cup [op : {"guid", "text", "lost", "sent"}]
    \cup [op : {"field"}, n : Nat, f : STRING, v : SUBSET Nat]
    \cup [op : {"guard"}, n : Nat, else : Leaving]
    \cup [op : {"needeach"}, f : STRING, n : Nat, k : Nat, else : Leaving]
    \cup [op : {"fullguid", "leave"}, else : Leaving]
    \cup [op : {"ifleft"}, n : Nat, a : Seq(I), b : Seq(I)]
    \cup [op : {"if"}, f : STRING, v : SUBSET Nat, a : Seq(I), b : Seq(I)]
    \cup [op : {"oneof"}, cases : Seq(Seq(I))]
    \cup [op : {"times"}, f : STRING, less : Nat, cap : Nat, body : Seq(I)]
    \cup Loops(I, {0}, {FALSE}) \cup Whiles(I, {0})
    \cup [op : {"bytes"}, f : STRING, n : Nat]
    \cup [op : {"try"}, a : Seq(I), b : Seq(I), back : BOOLEAN]
    \cup [op : {"bits", "putbits"}, n : Nat, v : SUBSET STRING]
    \cup [op : {"putguid", "guidof"}, f : STRING]
    \cup [op : {"has"}, v : SUBSET STRING, a : Seq(I)]

\* Parts of a layout that one expansion has.
Only(c, s) == IF c THEN s ELSE <<>>

=============================================================================
