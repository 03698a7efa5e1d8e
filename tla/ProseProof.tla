------------------------------ MODULE ProseProof ----------------------------
(***************************************************************************)
(* Rst, for any document and any included files: the text of a document is *)
(* on the page, whole, in its order and where its blocks put it.           *)
(*                                                                         *)
(* The lines of a call are a stretch of the document, each with its number *)
(* (IsBlock, Chain), and what is before the place where the innermost of   *)
(* the document's calls is at is on the page, or below what was dropped    *)
(* (Ordered, Kept).  If the document is evenly indented, each of its calls *)
(* is of the block of one line, and what else opened a block before it is  *)
(* over (Opened, Settled), so what a call gives is under the lines that    *)
(* opened the calls it is in, and under no others (Padded, Layout).        *)
(***************************************************************************)
EXTENDS DocsProof

-----------------------------------------------------------------------------
(* The calls that read the document or a block of it, and the others.       *)

Base(f) == IF f.source = "doc" THEN 0 ELSE f.lines[1].id[2] - 1
Shift(d, f) == IF f.source = "doc" THEN 0 ELSE d[Base(f) + 1].indent
End(f) == Base(f) + Len(f.lines) + 1

IsFrame(d, f) ==
    /\ IsBlock(d, f.lines, Base(f), Shift(d, f))
    /\ f.source = "doc" => Len(f.lines) = Len(d)
    /\ f.source = "block" =>
           Len(f.lines) > 0 /\ (Text!Even(d) => ~Text!Blank(d[Base(f) + 1]))

(* The first t calls are the document's, each of a block of the one before. *)
Chain(d, fs, t) ==
    /\ t \in 1..Len(fs) /\ fs[1].source = "doc"
    /\ \A f \in 2..t : fs[f].source = "block"
    /\ \A f \in 1..t : IsFrame(d, fs[f])
    /\ \A f \in 1..t - 1 : Base(fs[f]) + fs[f].i = End(fs[f + 1])
    /\ \A f, g \in 1..t : f < g => Base(fs[f]) <= Base(fs[g]) /\ End(fs[g]) <= End(fs[f])
(* Those after them are of a file, and of blocks in it. *)
Stranger(f) == f.source # "doc" /\ Foreign(f.lines)
Outside(fs, t) ==
    \A f \in t + 1..Len(fs) : Stranger(fs[f]) /\ (f = t + 1 => fs[f].source # "block")

At(fs, t) == Base(fs[t]) + fs[t].i

Alike(g, f) ==
    /\ g.lines = f.lines /\ g.source = f.source /\ g.indent = f.indent
    /\ g.start = f.start /\ g.width = f.width
SameCalls(fs, ns, n) ==
    /\ n \in Nat /\ n <= Len(fs) /\ n <= Len(ns)
    /\ \A f \in 1..n : Alike(ns[f], fs[f]) /\ (f < n => ns[f].i = fs[f].i)

LEMMA AlikeIs ==
    ASSUME NEW g, NEW f, Alike(g, f)
    PROVE  /\ Base(g) = Base(f) /\ End(g) = End(f) /\ g.source = f.source /\ g.lines = f.lines
           /\ \A d : Shift(d, g) = Shift(d, f) /\ (IsFrame(d, f) => IsFrame(d, g))
           /\ Stranger(f) => Stranger(g)
<1>1. g.lines = f.lines /\ g.source = f.source
  BY DEF Alike
<1>2. Base(g) = Base(f)
  BY <1>1 DEF Base
<1>3. End(g) = End(f)
  BY <1>1, <1>2 DEF End
<1>4. \A d : Shift(d, g) = Shift(d, f)
  BY <1>1, <1>2 DEF Shift
<1>5. \A d : IsFrame(d, f) => IsFrame(d, g)
  BY <1>1, <1>2, <1>4 DEF IsFrame
<1>6. Stranger(f) => Stranger(g)
  BY <1>1 DEF Stranger
<1>. QED
  BY <1>1, <1>2, <1>3, <1>4, <1>5, <1>6

LEMMA ChainStays ==
    ASSUME NEW d, NEW fs, NEW ns, NEW t, NEW u, Len(ns) \in Nat, Len(fs) \in Nat,
           Chain(d, fs, t), u \in 1..t, SameCalls(fs, ns, u)
    PROVE  Chain(d, ns, u)
<1>1. /\ t \in 1..Len(fs) /\ fs[1].source = "doc"
      /\ \A f \in 2..t : fs[f].source = "block"
      /\ \A f \in 1..t : IsFrame(d, fs[f])
      /\ \A f \in 1..t - 1 : Base(fs[f]) + fs[f].i = End(fs[f + 1])
      /\ \A f, g \in 1..t : f < g => Base(fs[f]) <= Base(fs[g]) /\ End(fs[g]) <= End(fs[f])
  BY DEF Chain
<1>2. /\ t \in Nat \ {0} /\ u \in Nat \ {0} /\ u <= t /\ u <= Len(ns)
      /\ \A f \in 1..u : f \in 1..t /\ Alike(ns[f], fs[f])
      /\ \A f \in 1..u : f < u => ns[f].i = fs[f].i
  BY <1>1 DEF SameCalls
<1>3. \A f \in 1..u : /\ Base(ns[f]) = Base(fs[f]) /\ End(ns[f]) = End(fs[f])
                      /\ ns[f].source = fs[f].source /\ IsFrame(d, ns[f])
  <2>. SUFFICES ASSUME NEW f \in 1..u
                PROVE  /\ Base(ns[f]) = Base(fs[f]) /\ End(ns[f]) = End(fs[f])
                       /\ ns[f].source = fs[f].source /\ IsFrame(d, ns[f])
    OBVIOUS
  <2>1. PICK x, y : x = fs[f] /\ y = ns[f]
    OBVIOUS
  <2>2. Alike(y, x) /\ IsFrame(d, x)
    BY <1>1, <1>2, <2>1
  <2>3. Base(y) = Base(x) /\ End(y) = End(x) /\ y.source = x.source /\ IsFrame(d, y)
    BY <2>2, AlikeIs
  <2>. QED
    BY <2>1, <2>3
<1>4. u \in 1..Len(ns) /\ ns[1].source = "doc" /\ \A f \in 2..u : ns[f].source = "block"
  BY <1>1, <1>2, <1>3
<1>5. ASSUME NEW f \in 1..u - 1
      PROVE  Base(ns[f]) + ns[f].i = End(ns[f + 1])
  <2>1. PICK g : g = f + 1
    OBVIOUS
  <2>2. f \in 1..t - 1 /\ f \in 1..u /\ f < u /\ g \in 1..u
    BY <1>2, <2>1
  <2>3. ns[f].i = fs[f].i /\ Base(ns[f]) = Base(fs[f]) /\ End(ns[g]) = End(fs[g])
    BY <1>2, <1>3, <2>2
  <2>4. Base(fs[f]) + fs[f].i = End(fs[g])
    BY <1>1, <2>1, <2>2
  <2>. QED
    BY <2>1, <2>3, <2>4
<1>6. \A f, g \in 1..u : f < g => Base(ns[f]) <= Base(ns[g]) /\ End(ns[g]) <= End(ns[f])
  BY <1>1, <1>2, <1>3
<1>. QED
  BY <1>3, <1>4, <1>5, <1>6 DEF Chain

LEMMA OutsideStays ==
    ASSUME NEW fs, NEW ns, NEW t \in Nat, NEW n, Len(ns) \in Nat, Len(fs) \in Nat,
           Outside(fs, t), t <= n, SameCalls(fs, ns, n),
           \A f \in n + 1..Len(ns) : Stranger(ns[f]) /\ (f = t + 1 => ns[f].source # "block")
    PROVE  Outside(ns, t)
<1>. SUFFICES ASSUME NEW f \in t + 1..Len(ns)
              PROVE  Stranger(ns[f]) /\ (f = t + 1 => ns[f].source # "block")
  BY DEF Outside
<1>1. n \in Nat /\ n <= Len(fs) /\ \A g \in 1..n : Alike(ns[g], fs[g])
  BY DEF SameCalls
<1>2. CASE f <= n
  <2>1. f \in 1..n /\ f \in t + 1..Len(fs)
    BY <1>1, <1>2
  <2>2. PICK x, y : x = fs[f] /\ y = ns[f]
    OBVIOUS
  <2>3. Alike(y, x) /\ Stranger(x) /\ (f = t + 1 => x.source # "block")
    BY <1>1, <2>1, <2>2 DEF Outside
  <2>4. Stranger(y) /\ y.source = x.source
    BY <2>3, AlikeIs
  <2>. QED
    BY <2>2, <2>3, <2>4
<1>3. CASE f > n
  <2>1. f \in n + 1..Len(ns)
    BY <1>1, <1>3
  <2>. QED
    BY <2>1
<1>. QED
  BY <1>1, <1>2, <1>3

(* The call at hand goes on, calls another, or returns. *)
Advance(fs, next) == [fs EXCEPT ![Len(fs)].i = next]

LEMMA CallsMoved ==
    ASSUME NEW fs \in Seq(Text!Call), fs # <<>>, NEW next \in Nat,
           NEW ns, ns = [fs EXCEPT ![Len(fs)].i = next]
    PROVE  /\ ns \in Seq(Text!Call) /\ Len(ns) = Len(fs) /\ Len(fs) \in Nat \ {0}
           /\ SameCalls(fs, ns, Len(fs)) /\ ns[Len(fs)].i = next
<1>. DEFINE n == Len(fs)
            g == [fs[n] EXCEPT !.i = next]
<1>1. n \in Nat \ {0} /\ DOMAIN fs = 1..n /\ \A k \in 1..n : fs[k] \in Text!Call
  BY LenProperties, ElementOfSeq
<1>2. n \in 1..n
  BY <1>1
<1>3. /\ g \in Text!Call /\ g.lines = fs[n].lines /\ g.source = fs[n].source
      /\ g.indent = fs[n].indent /\ g.start = fs[n].start /\ g.width = fs[n].width
      /\ g.i = next
  <2>1. \A f \in Text!Call : LET h == [f EXCEPT !.i = next]
            IN /\ h \in Text!Call /\ h.lines = f.lines /\ h.source = f.source
               /\ h.indent = f.indent /\ h.start = f.start /\ h.width = f.width
               /\ h.i = next
    BY DEF Text!Call
  <2>. QED
    BY <1>1, <1>2, <2>1
<1>. HIDE DEF g
<1>4. ns = [fs EXCEPT ![n] = g]
  BY DEF g
<1>. HIDE DEF n
<1>5. ns \in [1..n -> Text!Call] /\ ns[n] = g /\ \A k \in 1..n : k < n => ns[k] = fs[k]
  BY <1>1, <1>2, <1>3, <1>4
<1>6. ns \in Seq(Text!Call) /\ Len(ns) = n
  BY <1>1, <1>5
<1>7. \A k \in 1..n : Alike(ns[k], fs[k]) /\ (k < n => ns[k].i = fs[k].i)
  <2>. SUFFICES ASSUME NEW k \in 1..n
                PROVE  Alike(ns[k], fs[k]) /\ (k < n => ns[k].i = fs[k].i)
    OBVIOUS
  <2>1. CASE k = n
    BY <1>3, <1>5, <2>1, <1>1 DEF Alike
  <2>2. CASE k < n
    BY <1>5, <2>2 DEF Alike
  <2>. QED
    BY <1>1, <2>1, <2>2
<1>8. SameCalls(fs, ns, n)
  BY <1>1, <1>6, <1>7 DEF SameCalls, n
<1>. QED
  BY <1>1, <1>3, <1>5, <1>6, <1>8 DEF n

Pushed(fs, next, g, ns) == ns = Append(Advance(fs, next), g)
Deeper(fs, next, g, ns) ==
    /\ Len(ns) = Len(fs) + 1 /\ Len(fs) \in Nat \ {0}
    /\ SameCalls(fs, ns, Len(fs)) /\ ns[Len(fs)].i = next /\ ns[Len(fs) + 1] = g

LEMMA CallsPushed ==
    ASSUME NEW fs \in Seq(Text!Call), fs # <<>>, NEW next \in Nat, NEW g,
           NEW ns, Pushed(fs, next, g, ns)
    PROVE  Deeper(fs, next, g, ns)
<1>1. PICK ms : ms = Advance(fs, next)
  OBVIOUS
<1>2. /\ ms \in Seq(Text!Call) /\ Len(ms) = Len(fs) /\ Len(fs) \in Nat \ {0}
      /\ SameCalls(fs, ms, Len(fs)) /\ ms[Len(fs)].i = next
  BY <1>1, CallsMoved DEF Advance
<1>3. PICK n : n = Len(fs)
  OBVIOUS
<1>4. Len(ns) = n + 1 /\ ns[n + 1] = g /\ \A k \in 1..n : ns[k] = ms[k]
  <2>1. PICK S : S = Text!Call \cup {g}
    OBVIOUS
  <2>2. ms \in Seq(S) /\ g \in S /\ Len(ms) = n /\ n \in Nat
    <3>1. Text!Call \subseteq S
      BY <2>1
    <3>2. ms \in Seq(S)
      BY <1>2, <3>1, SeqMonotonic
    <3>. QED
      BY <1>2, <1>3, <2>1, <3>2
  <2>3. PICK all : all = Append(ms, g)
    OBVIOUS
  <2>4. /\ Len(all) = Len(ms) + 1 /\ all[Len(ms) + 1] = g
        /\ \A k \in 1..Len(ms) : all[k] = ms[k]
    BY <2>2, <2>3, AppendProperties
  <2>. QED
    BY <1>1, <2>2, <2>3, <2>4 DEF Pushed
<1>5. SameCalls(fs, ns, n)
  <2>1. n \in Nat /\ n <= Len(fs) /\ n <= Len(ns)
    BY <1>2, <1>3, <1>4
  <2>2. \A f \in 1..n : Alike(ms[f], fs[f]) /\ (f < n => ms[f].i = fs[f].i)
    BY <1>2, <1>3 DEF SameCalls
  <2>. QED
    BY <1>4, <2>1, <2>2 DEF SameCalls
<1>6. n \in 1..n
  BY <1>2, <1>3
<1>. QED
  BY <1>2, <1>3, <1>4, <1>5, <1>6 DEF Deeper

LEMMA CallsPopped ==
    ASSUME NEW fs \in Seq(Text!Call), fs # <<>>,
           NEW ns, ns = SubSeq(fs, 1, Len(fs) - 1)
    PROVE  /\ ns \in Seq(Text!Call) /\ Len(ns) = Len(fs) - 1 /\ Len(fs) \in Nat \ {0}
           /\ SameCalls(fs, ns, Len(ns)) /\ \A f \in 1..Len(ns) : ns[f] = fs[f]
<1>1. Len(fs) \in Nat \ {0} /\ \A k \in 1..Len(fs) : fs[k] \in Text!Call
  BY LenProperties, ElementOfSeq
<1>2. PICK n : n = Len(fs) - 1
  OBVIOUS
<1>3. n \in Nat /\ n <= Len(fs) /\ 1 \in Int
  BY <1>1, <1>2
<1>4. \A k \in 1..n : fs[k] \in Text!Call
  BY <1>1, <1>3
<1>5. ns \in Seq(Text!Call) /\ Len(ns) = n /\ \A f \in 1..n : ns[f] = fs[f]
  BY <1>1, <1>2, <1>3, <1>4
<1>6. \A f \in 1..n : Alike(ns[f], fs[f]) /\ ns[f].i = fs[f].i
  BY <1>5 DEF Alike
<1>7. SameCalls(fs, ns, n)
  BY <1>1, <1>3, <1>5, <1>6 DEF SameCalls
<1>. QED
  BY <1>1, <1>2, <1>5, <1>7

(* A call of an even document. *)
EvenCall(d, f, ls, b, s) ==
    /\ Text!Even(d)
    /\ d \in Seq(Text!Line) /\ f.lines \in Seq(Text!Line) /\ IsFrame(d, f)
    /\ ls = f.lines /\ b = Base(f) /\ s = Shift(d, f)

LEMMA EvenLines ==
    ASSUME NEW d, NEW f, NEW ls, NEW b, NEW s, EvenCall(d, f, ls, b, s)
    PROVE  /\ b \in Nat /\ s \in Nat /\ Len(ls) \in Nat /\ Len(d) \in Nat /\ b + Len(ls) <= Len(d)
           /\ \A n \in 1..Len(ls) :
                  /\ b + n \in 1..Len(d) /\ b + n \in Nat /\ d[b + n].indent \in Nat /\ ls[n].indent \in Nat
                  /\ ls[n] \in Text!Line /\ ls[n].kind = d[b + n].kind /\ ls[n].cut = 0
                  /\ (Text!Blank(ls[n]) <=> Text!Blank(d[b + n]))
                  /\ ~Text!Blank(ls[n]) => d[b + n].indent = ls[n].indent + s
<1>d. /\ d \in Seq(Text!Line) /\ f.lines \in Seq(Text!Line) /\ IsFrame(d, f) /\ Text!Even(d)
      /\ ls = f.lines /\ b = Base(f) /\ s = Shift(d, f)
  BY DEF EvenCall
<1>. USE <1>d
<1>1. IsBlock(d, ls, b, s) /\ ls \in Seq(Text!Line)
  BY DEF IsFrame
<1>2. /\ b \in Nat /\ s \in Nat /\ Len(ls) \in Nat /\ Len(d) \in Nat /\ b + Len(ls) <= Len(d)
      /\ \A n \in 1..Len(ls) :
             /\ b + n \in 1..Len(d) /\ IsLine(d, ls[n], b + n, s)
             /\ d[b + n].indent \in Nat /\ ls[n].indent \in Nat /\ ls[n] \in Text!Line
             /\ ls[n].kind \in Text!Kinds /\ ls[n].cut \in Nat
  BY <1>1, BlockFacts
<1>3. ASSUME NEW n \in 1..Len(ls)
      PROVE  /\ b + n \in Nat /\ ls[n].kind = d[b + n].kind /\ ls[n].cut = 0
             /\ (Text!Blank(ls[n]) <=> Text!Blank(d[b + n]))
             /\ ~Text!Blank(ls[n]) => d[b + n].indent = ls[n].indent + s
  <2>1. PICK l, m : l = ls[n] /\ m = b + n
    OBVIOUS
  <2>2. IsLine(d, l, m, s) /\ d[m].indent \in Nat /\ l.indent \in Nat /\ m \in Nat
    BY <1>2, <1>3, <2>1
  <2>3. IsWhole(l, d[m], s)
    BY <2>2 DEF IsLine
  <2>4. CASE Text!Blank(l)
    <3>1. l.cut = 0 /\ Text!Blank(d[m])
      BY <2>3, <2>4 DEF IsWhole
    <3>2. l.kind = d[m].kind
      BY <2>4, <3>1 DEF Text!Blank
    <3>. QED
      BY <2>1, <2>2, <2>4, <3>1, <3>2
  <2>5. CASE ~Text!Blank(l)
    <3>1. /\ l.indent = d[m].indent - s /\ l.kind = d[m].kind /\ l.cut = 0
          /\ ~Text!Blank(d[m])
      BY <2>3, <2>5 DEF IsWhole
    <3>2. d[m].indent = l.indent + s
      <4>1. PICK x, y : x = d[m].indent /\ y = l.indent
        OBVIOUS
      <4>2. x \in Nat /\ s \in Nat /\ y = x - s
        BY <1>2, <2>2, <3>1, <4>1
      <4>. QED
        BY <4>1, <4>2
    <3>. QED
      BY <2>1, <2>2, <2>5, <3>1, <3>2
  <2>. QED
    BY <2>4, <2>5
<1>. QED
  BY <1>2, <1>3

(* A call of an even document, and a block below one of its lines. *)
EvenBlock(d, f, ls, b, s, p, first, end) ==
    /\ EvenCall(d, f, ls, b, s)
    /\ p \in 1..Len(ls) /\ BlockBelow(ls, p, first, end)

LEMMA EvenBlockIs ==
    ASSUME NEW d, NEW f, NEW ls, NEW b, NEW s, NEW p, NEW first, NEW end,
           EvenBlock(d, f, ls, b, s, p, first, end)
    PROVE  /\ b \in Nat /\ s \in Nat /\ Len(ls) \in Nat /\ Len(d) \in Nat /\ b + Len(ls) <= Len(d)
           /\ p \in Nat \ {0} /\ first \in Nat /\ end \in Nat /\ p < first /\ first < end
           /\ end <= Len(ls) + 1
           /\ DOMAIN d = 1..Len(d)
           /\ \A n \in p..end - 1 :
                  /\ n \in 1..Len(ls) /\ n \in Nat
                  /\ b + n \in 1..Len(d) /\ b + n \in Nat /\ d[b + n].indent \in Nat /\ ls[n].indent \in Nat
                  /\ ls[n] \in Text!Line /\ ls[n].kind = d[b + n].kind /\ ls[n].cut = 0
                  /\ (Text!Blank(ls[n]) <=> Text!Blank(d[b + n]))
                  /\ ~Text!Blank(ls[n]) => d[b + n].indent = ls[n].indent + s
           /\ ~Text!Blank(ls[p]) /\ ~Text!Blank(ls[first]) /\ ls[first].indent > ls[p].indent
           /\ \A n \in p + 1..first - 1 : ls[n].kind \in {"blank", "option"}
           /\ \A n \in first..end - 1 : Text!Blank(ls[n]) \/ ls[n].indent > ls[p].indent
           /\ OptionsFirst(ls, p, first) /\ Text!Even(d)
<1>1. /\ Text!Even(d) /\ EvenCall(d, f, ls, b, s) /\ d \in Seq(Text!Line)
      /\ p \in 1..Len(ls) /\ BlockBelow(ls, p, first, end)
  BY DEF EvenBlock, EvenCall
<1>2. /\ b \in Nat /\ s \in Nat /\ Len(ls) \in Nat /\ Len(d) \in Nat /\ b + Len(ls) <= Len(d)
      /\ \A n \in 1..Len(ls) :
             /\ b + n \in 1..Len(d) /\ b + n \in Nat /\ d[b + n].indent \in Nat /\ ls[n].indent \in Nat
             /\ ls[n] \in Text!Line /\ ls[n].kind = d[b + n].kind /\ ls[n].cut = 0
             /\ (Text!Blank(ls[n]) <=> Text!Blank(d[b + n]))
             /\ ~Text!Blank(ls[n]) => d[b + n].indent = ls[n].indent + s
  <2>1. EvenCall(d, f, ls, b, s)
    BY <1>1
  <2>. QED
    BY <2>1, EvenLines
<1>3. /\ first \in p + 1..Len(ls) /\ end \in first + 1..Len(ls) + 1
      /\ ls[p].kind \notin {"blank", "option"}
      /\ ~Text!Blank(ls[first]) /\ ls[first].indent > ls[p].indent
      /\ \A n \in p + 1..first - 1 : ls[n].kind \in {"blank", "option"}
      /\ \A n \in first..end - 1 : Text!Blank(ls[n]) \/ ls[n].indent > ls[p].indent
      /\ OptionsFirst(ls, p, first)
  BY <1>1 DEF BlockBelow
<1>4. /\ p \in Nat \ {0} /\ first \in Nat /\ end \in Nat /\ p < first /\ first < end
      /\ end <= Len(ls) + 1 /\ \A n \in p..end - 1 : n \in 1..Len(ls) /\ n \in Nat
  <2>1. PICK c : c = Len(ls)
    OBVIOUS
  <2>2. c \in Nat /\ p \in 1..c /\ first \in p + 1..c /\ end \in first + 1..c + 1
    BY <1>1, <1>2, <1>3, <2>1
  <2>. QED
    BY <2>1, <2>2
<1>5. DOMAIN d = 1..Len(d)
  BY <1>1
<1>6. ~Text!Blank(ls[p])
  BY <1>3 DEF Text!Blank
<1>. QED
  BY <1>1, <1>2, <1>3, <1>4, <1>5, <1>6

(* No line of it is indented less than its first. *)
LEMMA EvenBelow ==
    ASSUME NEW d, NEW f, NEW ls, NEW b, NEW s, NEW p, NEW first, NEW end,
           EvenBlock(d, f, ls, b, s, p, first, end),
           NEW n \in first..end - 1
    PROVE  Text!Blank(ls[n]) \/ ls[n].indent >= ls[first].indent
<1>. SUFFICES ASSUME ~Text!Blank(ls[n]), ~(ls[n].indent >= ls[first].indent)
              PROVE  FALSE
  OBVIOUS
<1>1. /\ b \in Nat /\ s \in Nat /\ Len(d) \in Nat /\ DOMAIN d = 1..Len(d)
      /\ p \in Nat \ {0} /\ first \in Nat /\ end \in Nat /\ p < first /\ first < end
      /\ \A x \in p..end - 1 :
             /\ x \in Nat /\ b + x \in 1..Len(d) /\ d[b + x].indent \in Nat /\ ls[x].indent \in Nat
             /\ ls[x].kind = d[b + x].kind /\ (Text!Blank(ls[x]) <=> Text!Blank(d[b + x]))
             /\ ~Text!Blank(ls[x]) => d[b + x].indent = ls[x].indent + s
      /\ ~Text!Blank(ls[p]) /\ ~Text!Blank(ls[first]) /\ ls[first].indent > ls[p].indent
      /\ \A x \in p + 1..first - 1 : ls[x].kind \in {"blank", "option"}
      /\ \A x \in first..end - 1 : Text!Blank(ls[x]) \/ ls[x].indent > ls[p].indent
      /\ Text!Even(d)
  BY EvenBlockIs
<1>2. PICK h, j, k : h = b + p /\ j = b + first /\ k = b + n
  OBVIOUS
<1>3. PICK x, y, z : x = ls[p].indent /\ y = ls[first].indent /\ z = ls[n].indent
  OBVIOUS
<1>4. n \in p..end - 1 /\ first \in p..end - 1 /\ p \in p..end - 1 /\ n \in Nat /\ first <= n
  BY <1>1
<1>5. x \in Nat /\ y \in Nat /\ z \in Nat /\ x < z /\ z < y
  BY <1>1, <1>3, <1>4
<1>6. d[h].indent = x + s /\ d[j].indent = y + s /\ d[k].indent = z + s /\ ~Text!Blank(d[h])
  BY <1>1, <1>2, <1>3, <1>4
<1>7. first < n
  <2>1. first # n
    BY <1>3, <1>5
  <2>. QED
    BY <1>1, <1>4, <2>1
<1>8. h \in Nat /\ j \in Nat /\ k \in Nat /\ h < j /\ j < k /\ j \in 1..Len(d) /\ k \in 1..Len(d) /\ h \in 1..Len(d)
  BY <1>1, <1>2, <1>4, <1>7
<1>9. 0 < z + s /\ z + s < y + s /\ x + s < z + s /\ ~(x + s >= z + s) /\ y + s # z + s
  BY <1>1, <1>5
<1>10. PICK e \in 1..j :
           /\ d[e].indent = d[k].indent /\ d[e].kind \notin {"blank", "option"}
           /\ \A m \in e..k : Text!Blank(d[m]) \/ d[m].indent >= d[k].indent
  BY <1>1, <1>6, <1>8, <1>9 DEF Text!Even
<1>11. e > h
  <2>1. CASE e <= h
    <3>1. h \in e..k
      BY <1>8, <2>1
    <3>. QED
      BY <1>6, <1>9, <1>10, <3>1
  <2>. QED
    BY <1>8, <2>1
<1>12. e < j
  <2>1. e # j
    BY <1>6, <1>9, <1>10
  <2>. QED
    BY <1>8, <2>1
<1>13. PICK m : m = e - b
  OBVIOUS
<1>14. m \in p + 1..first - 1 /\ m \in p..end - 1 /\ e = b + m
  BY <1>1, <1>2, <1>8, <1>11, <1>12, <1>13
<1>15. ls[m].kind \in {"blank", "option"} /\ ls[m].kind = d[e].kind
  BY <1>1, <1>14
<1>. QED
  BY <1>10, <1>15

(* The block below a line is a block of the document. *)
Cut(ls, first, end) == [n \in 1..end - first |-> Text!Dedent(ls[first + n - 1], ls[first].indent)]

IsCut(d, lines, q, c, s, by) ==
    /\ c \in Nat \ {0} /\ lines \in Seq(Text!Line) /\ Len(lines) = c
    /\ \A n \in 1..c : IsLine(d, lines[n], q + n, s + by)

(* No line of the block is shorter than its first one's indentation. *)
LongEnough(d, ls, first, end, by) ==
    Text!Even(d) => \A n \in first..end - 1 : Text!Blank(ls[n]) \/ ls[n].indent >= by

LEMMA CutLines ==
    ASSUME NEW d \in Seq(Text!Line), NEW ls \in Seq(Text!Line), NEW b, NEW s, IsBlock(d, ls, b, s),
           NEW first \in 1..Len(ls), NEW end \in first + 1..Len(ls) + 1,
           NEW lines, lines = Cut(ls, first, end), NEW c, c = end - first,
           NEW q, q = b + (first - 1), NEW by, by = ls[first].indent,
           LongEnough(d, ls, first, end, by)
    PROVE  IsCut(d, lines, q, c, s, by)
<1>1. /\ b \in Nat /\ s \in Nat /\ Len(ls) \in Nat
      /\ \A n \in 1..Len(ls) :
             /\ IsLine(d, ls[n], b + n, s)
             /\ d[b + n].indent \in Nat /\ ls[n].indent \in Nat /\ ls[n] \in Text!Line
  BY BlockFacts
<1>2. Len(ls) \in Nat /\ by \in Nat
  BY <1>1
<1>3. first \in Nat \ {0} /\ c \in Nat \ {0} /\ end <= Len(ls) + 1 /\ end \in Nat /\ by \in Nat
  <2>1. \A size \in Nat : \A k \in 1..size : \A m \in k + 1..size + 1 :
            k \in Nat \ {0} /\ m - k \in Nat \ {0} /\ m <= size + 1 /\ m \in Nat
    OBVIOUS
  <2>2. first \in Nat \ {0} /\ end - first \in Nat \ {0} /\ end <= Len(ls) + 1 /\ end \in Nat
    BY <1>2, <2>1
  <2>. QED
    BY <1>2, <2>2
<1>4. lines = [n \in 1..c |-> Text!Dedent(ls[first + n - 1], by)]
  BY DEF Cut
<1>5. ASSUME NEW n \in 1..c
      PROVE  /\ first - 1 + n \in 1..Len(ls) /\ lines[n] = Text!Dedent(ls[first - 1 + n], by)
             /\ lines[n] \in Text!Line /\ IsLine(d, lines[n], q + n, s + by)
  <2>1. PICK x, m : x = first - 1 + n /\ m = b + x
    OBVIOUS
  <2>a. b \in Nat /\ n \in Nat /\ 1 <= n /\ n <= end - first
    BY <1>1, <1>3
  <2>2. x \in 1..Len(ls) /\ first + n - 1 = x /\ q + n = m
    BY <1>2, <1>3, <2>1, <2>a
  <2>c. x \in first..end - 1
    BY <1>3, <2>1, <2>a
  <2>3. PICK l : l = ls[x]
    OBVIOUS
  <2>4. l \in Text!Line /\ IsLine(d, l, m, s) /\ d[m].indent \in Nat
    BY <1>1, <2>1, <2>2, <2>3
  <2>5. lines[n] = Text!Dedent(l, by)
    BY <1>4, <2>2, <2>3
  <2>b. Text!Even(d) => Text!Blank(l) \/ l.indent >= by
    BY <2>3, <2>c DEF LongEnough
  <2>6. IsLine(d, Text!Dedent(l, by), m, s + by)
    BY <1>1, <1>3, <2>4, <2>b, DedentIs
  <2>7. Text!Dedent(l, by) \in Text!Line
    BY <1>3, <2>4, DedentIn
  <2>. QED
    BY <2>1, <2>2, <2>3, <2>5, <2>6, <2>7
<1>6. DOMAIN lines = 1..c
  BY <1>4
<1>7. lines \in Seq(Text!Line) /\ Len(lines) = c
  <2>1. lines \in [1..c -> Text!Line]
    BY <1>4, <1>5, <1>6
  <2>2. \A size \in Nat : \A fn \in [1..size -> Text!Line] : fn \in Seq(Text!Line) /\ Len(fn) = size
    OBVIOUS
  <2>3. c \in Nat
    BY <1>3
  <2>. QED
    BY <2>1, <2>2, <2>3
<1>. QED
  BY <1>3, <1>5, <1>7 DEF IsCut

LEMMA CutEnds ==
    ASSUME NEW d \in Seq(Text!Line), Text!Even(d), NEW ls \in Seq(Text!Line), NEW b, NEW s, IsBlock(d, ls, b, s),
           NEW p \in 1..Len(ls), NEW end \in 1..Len(ls) + 1, NEW by \in Nat, ls[p].indent < by,
           Stops(ls, end, ls[p].indent),
           NEW e \in b + end..Len(d), ~Text!Blank(d[e]),
           \A n \in b + end..e - 1 : Text!Blank(d[n])
    PROVE  d[e].indent < s + by
<1>1. /\ b \in Nat /\ s \in Nat /\ Len(ls) \in Nat /\ Len(d) \in Nat /\ b + Len(ls) <= Len(d)
      /\ \A n \in 1..Len(ls) :
             /\ b + n \in 1..Len(d) /\ IsLine(d, ls[n], b + n, s)
             /\ d[b + n].indent \in Nat /\ ls[n].indent \in Nat /\ ls[n] \in Text!Line
  BY BlockFacts
<1>2. end \in Nat \ {0} /\ e \in Nat /\ b + end <= e
  <2>1. PICK n, w : n = Len(ls) /\ w = Len(d)
    OBVIOUS
  <2>2. /\ n \in Nat /\ w \in Nat /\ b \in Nat /\ end \in 1..n + 1 /\ e \in b + end..w
    BY <1>1, <2>1
  <2>. QED
    BY <2>2
<1>3. CASE e <= b + Len(ls)
  <2>1. PICK x : x = e - b
    OBVIOUS
  <2>2. x \in end..Len(ls) /\ x \in 1..Len(ls) /\ b + x = e
    BY <1>1, <1>2, <1>3, <2>1
  <2>3. IsLine(d, ls[x], e, s) /\ d[e].indent \in Nat /\ ls[x].indent \in Nat
        /\ ls[x] \in Text!Line /\ s \in Nat
    BY <1>1, <2>2
  <2>4. ~Text!Blank(ls[x])
    BY <2>3, LineTells
  <2>5. ASSUME NEW m \in end..x - 1
        PROVE  Text!Blank(ls[m])
    <3>a. b \in Nat /\ Len(ls) \in Nat /\ end \in Nat \ {0} /\ x <= Len(ls) /\ x \in Nat /\ b + x = e
        /\ e \in Nat
      BY <1>1, <1>2, <2>2
    <3>b. m \in Int /\ end <= m /\ m <= x - 1
      BY <3>a
    <3>1. m \in 1..Len(ls) /\ b + m \in b + end..e - 1
      BY <3>a, <3>b
    <3>2. IsLine(d, ls[m], b + m, s) /\ Text!Blank(d[b + m])
          /\ ls[m] \in Text!Line /\ s \in Nat /\ d[b + m].indent \in Nat
      BY <1>1, <3>1
    <3>. QED
      BY <3>2, LineTells
  <2>6. ls[x].indent <= ls[p].indent
    BY <2>2, <2>4, <2>5 DEF Stops
  <2>7. d[e].indent = ls[x].indent + s
    BY <2>3, <2>4, LineTells
  <2>8. PICK a, c, h : a = d[e].indent /\ c = ls[x].indent /\ h = ls[p].indent
    OBVIOUS
  <2>9. a \in Nat /\ c \in Nat /\ h \in Nat /\ s \in Nat /\ h < by /\ c <= h
    BY <1>1, <2>3, <2>6, <2>8
  <2>10. a = c + s
    BY <2>7, <2>8
  <2>11. a < s + by
    BY <2>9, <2>10
  <2>. QED
    BY <2>8, <2>11
<1>4. CASE e > b + Len(ls)
  <2>1. e \in b + Len(ls) + 1..Len(d)
    BY <1>1, <1>2, <1>4
  <2>2. \A n \in b + Len(ls) + 1..e - 1 : n \in b + end..e - 1
    BY <1>1, <1>2
  <2>3. d[e].indent < s
    BY <2>1, <2>2 DEF IsBlock, Outdented
  <2>4. d[e].indent \in Nat
    BY <1>1, <1>2, LineFacts
  <2>. QED
    BY <1>1, <2>3, <2>4
<1>. QED
  BY <1>1, <1>2, <1>3, <1>4

InBlock(d, f, ls, p, first, end, g) ==
    /\ d \in Seq(Text!Line) /\ ls = f.lines /\ ls \in Seq(Text!Line) /\ IsFrame(d, f)
    /\ p \in 1..Len(ls) /\ BlockBelow(ls, p, first, end)
    /\ g.source = "block" /\ g.lines = Cut(ls, first, end)
IsBelow(d, f, ls, p, first, end, g) ==
    /\ IsFrame(d, g) /\ Base(g) = Base(f) + (first - 1) /\ End(g) = Base(f) + end
    /\ Text!Even(d) => Shift(d, g) = Shift(d, f) + ls[first].indent
    /\ Base(f) \in Nat /\ first \in Nat /\ end \in Nat /\ first \in p + 1..end /\ p + 1 <= first
    /\ first \in 1..Len(ls) /\ end \in first + 1..Len(ls) + 1

LEMMA InnerIs ==
    ASSUME NEW d, NEW f, NEW ls, NEW p, NEW first, NEW end, NEW g,
           InBlock(d, f, ls, p, first, end, g)
    PROVE  IsBelow(d, f, ls, p, first, end, g)
<1>d. /\ d \in Seq(Text!Line) /\ ls = f.lines /\ ls \in Seq(Text!Line) /\ IsFrame(d, f)
      /\ p \in 1..Len(ls) /\ BlockBelow(ls, p, first, end)
      /\ g.source = "block" /\ g.lines = Cut(ls, first, end)
  BY DEF InBlock
<1>. USE <1>d
<1>1. PICK b, s : b = Base(f) /\ s = Shift(d, f)
  OBVIOUS
<1>2. IsBlock(d, ls, b, s)
  BY <1>1 DEF IsFrame
<1>3. /\ b \in Nat /\ s \in Nat /\ Len(ls) \in Nat /\ Len(d) \in Nat /\ b + Len(ls) <= Len(d)
      /\ \A n \in 1..Len(ls) :
             /\ b + n \in 1..Len(d) /\ IsLine(d, ls[n], b + n, s)
             /\ d[b + n].indent \in Nat /\ ls[n].indent \in Nat /\ ls[n] \in Text!Line
  BY <1>2, BlockFacts
<1>4. /\ first \in p + 1..Len(ls) /\ end \in first + 1..Len(ls) + 1
      /\ ~Text!Blank(ls[first]) /\ ls[first].indent > ls[p].indent
      /\ Stops(ls, end, ls[p].indent)
  BY DEF BlockBelow
<1>5. PICK q, c, by : q = b + (first - 1) /\ c = end - first /\ by = ls[first].indent
  OBVIOUS
<1>6. /\ p \in Nat \ {0} /\ first \in Nat \ {0} /\ end \in Nat /\ first \in 1..Len(ls)
      /\ end \in 1..Len(ls) + 1 /\ end <= Len(ls) + 1 /\ p + 1 <= first /\ first + 1 <= end
  BY <1>3, <1>4
<1>7. PICK lines : lines = g.lines
  OBVIOUS
<1>e. ASSUME Text!Even(d), NEW n \in first..end - 1
      PROVE  Text!Blank(ls[n]) \/ ls[n].indent >= ls[first].indent
  <2>1. EvenCall(d, f, ls, b, s)
    BY <1>1, <1>e DEF EvenCall
  <2>2. EvenBlock(d, f, ls, b, s, p, first, end)
    BY <2>1 DEF EvenBlock
  <2>. QED
    BY <1>e, <2>2, EvenBelow
<1>8. /\ c \in Nat \ {0} /\ lines \in Seq(Text!Line) /\ Len(lines) = c
      /\ \A n \in 1..c : IsLine(d, lines[n], q + n, s + by)
  <2>1. lines = Cut(ls, first, end) /\ end \in first + 1..Len(ls) + 1
    BY <1>4, <1>7
  <2>2. c = end - first /\ q = b + (first - 1) /\ by = ls[first].indent
    BY <1>5
  <2>3. LongEnough(d, ls, first, end, by)
    BY <1>e, <2>2 DEF LongEnough
  <2>4. IsCut(d, lines, q, c, s, by)
    BY <1>2, <1>6, <2>1, <2>2, <2>3, CutLines
  <2>. QED
    BY <2>4 DEF IsCut
<1>9. Base(g) = q
  <2>1. 1 \in 1..c
    BY <1>8
  <2>2. PICK m, id : m = q + 1 /\ id = lines[1].id
    OBVIOUS
  <2>3. id = <<"doc", m>>
    BY <1>8, <2>1, <2>2 DEF IsLine
  <2>4. Base(g) = id[2] - 1
    BY <1>7, <2>2 DEF Base
  <2>5. id[2] = m
    BY <2>3
  <2>6. q \in Int
    BY <1>3, <1>5, <1>6
  <2>. QED
    BY <2>2, <2>4, <2>5, <2>6
<1>10. q \in Nat /\ q + 1 = b + first /\ q + c = b + end - 1 /\ q + c + 1 = b + end
  BY <1>3, <1>5, <1>6
<1>11. End(g) = b + end
  BY <1>7, <1>8, <1>9, <1>10 DEF End
<1>12. by \in Nat /\ ls[p].indent \in Nat /\ ls[p].indent < by
  BY <1>3, <1>4, <1>5, <1>6
<1>13. ASSUME Text!Even(d)
       PROVE  d[b + first].indent = s + by /\ ~Text!Blank(d[b + first])
  <2>1. PICK l, m : l = ls[first] /\ m = b + first
    OBVIOUS
  <2>2. IsLine(d, l, m, s) /\ d[m].indent \in Nat /\ l \in Text!Line /\ s \in Nat
    BY <1>3, <1>6, <2>1
  <2>3. ~Text!Blank(l) /\ l.indent = by
    BY <1>4, <1>5, <2>1
  <2>4. d[m].indent = l.indent + s /\ ~Text!Blank(d[m])
    BY <1>13, <2>2, <2>3, LineTells
  <2>5. l.indent + s = s + by
    BY <1>12, <2>2, <2>3
  <2>. QED
    BY <2>1, <2>4, <2>5
<1>14. /\ Shift(d, g) = d[b + first].indent /\ Shift(d, g) \in Nat
       /\ Text!Even(d) => Shift(d, g) = s + by
  <2>1. Shift(d, g) = d[b + first].indent
    BY <1>9, <1>10 DEF Shift
  <2>2. d[b + first].indent \in Nat
    BY <1>3, <1>6
  <2>. QED
    BY <1>13, <2>1, <2>2
<1>15. IsBlock(d, lines, q, Shift(d, g))
  <2>1. q + Len(lines) <= Len(d)
    <3>1. PICK n, w : n = Len(ls) /\ w = Len(d)
      OBVIOUS
    <3>2. n \in Nat /\ w \in Nat /\ b \in Nat /\ end \in Nat /\ b + n <= w /\ end <= n + 1
      BY <1>3, <1>6, <3>1
    <3>3. b + end - 1 <= w
      BY <3>2
    <3>. QED
      BY <1>8, <1>10, <3>1, <3>3
  <2>2. ASSUME Text!Even(d), NEW e \in q + c + 1..Len(d), ~Text!Blank(d[e]),
               \A n \in q + c + 1..e - 1 : Text!Blank(d[n])
        PROVE  d[e].indent < s + by
    BY <1>2, <1>4, <1>6, <1>10, <1>12, <2>2, CutEnds
  <2>3. Text!Even(d) => Outdented(d, q + Len(lines) + 1, Shift(d, g))
    <3>1. Text!Even(d) => Outdented(d, q + c + 1, s + by)
      BY <2>2 DEF Outdented
    <3>. QED
      BY <1>8, <1>14, <3>1
  <2>4. \A n \in 1..c : IsLine(d, lines[n], q + n, Shift(d, g))
    <3>1. CASE Text!Even(d)
      BY <1>8, <1>14, <3>1
    <3>2. CASE ~Text!Even(d)
      BY <1>8, <3>2 DEF IsLine
    <3>. QED
      BY <3>1, <3>2
  <2>. QED
    BY <1>8, <1>10, <1>14, <2>1, <2>3, <2>4 DEF IsBlock
<1>16. IsFrame(d, g)
  <2>1. Len(g.lines) > 0 /\ (Text!Even(d) => ~Text!Blank(d[Base(g) + 1]))
    BY <1>7, <1>8, <1>9, <1>10, <1>13
  <2>. QED
    BY <1>7, <1>9, <1>15, <2>1 DEF IsFrame
<1>17. /\ Base(g) = Base(f) + (first - 1) /\ End(g) = Base(f) + end
       /\ Text!Even(d) => Shift(d, g) = Shift(d, f) + ls[first].indent
  BY <1>1, <1>5, <1>9, <1>11, <1>14
<1>18. first \in p + 1..end
  BY <1>6
<1>19. Base(f) \in Nat
  BY <1>1, <1>3
<1>. QED
  BY <1>4, <1>6, <1>16, <1>17, <1>18, <1>19 DEF IsBelow

(* A block is read: one more of the document's. *)
IsInner(g, f, first, end) ==
    g.source = "block" /\ g.lines = Cut(f.lines, first, end) /\ g.i = 1

Nesting(d, fs, t, f, first, end, ns, g) ==
    /\ d \in Seq(Text!Line) /\ t \in Nat /\ Len(fs) = t /\ Chain(d, fs, t)
    /\ \A a \in 1..t : fs[a].lines \in Seq(Text!Line)
    /\ f = fs[t] /\ f.lines \in Seq(Text!Line) /\ f.i \in 1..Len(f.lines)
    /\ BlockBelow(f.lines, f.i, first, end) /\ IsInner(g, f, first, end)
    /\ Len(ns) = t + 1 /\ SameCalls(fs, ns, t) /\ ns[t].i = end /\ g = ns[t + 1]

LEMMA ChainNests ==
    ASSUME NEW d, NEW fs, NEW t, NEW f, NEW first, NEW end, NEW ns, NEW g,
           Nesting(d, fs, t, f, first, end, ns, g), NEW u, u = t + 1
    PROVE  Chain(d, ns, u) /\ At(ns, u) = Base(f) + first
<1>d. /\ d \in Seq(Text!Line) /\ t \in Nat /\ Len(fs) = t /\ Chain(d, fs, t)
      /\ \A a \in 1..t : fs[a].lines \in Seq(Text!Line)
      /\ f = fs[t] /\ f.lines \in Seq(Text!Line) /\ f.i \in 1..Len(f.lines)
      /\ BlockBelow(f.lines, f.i, first, end) /\ IsInner(g, f, first, end)
      /\ Len(ns) = u /\ SameCalls(fs, ns, t) /\ ns[t].i = end /\ g = ns[u]
  BY DEF Nesting
<1>. USE <1>d
<1>1. /\ t \in 1..t /\ IsFrame(d, f)
      /\ \A a, b \in 1..t : a < b => Base(fs[a]) <= Base(fs[b]) /\ End(fs[b]) <= End(fs[a])
  BY DEF Chain
<1>2. Chain(d, ns, t)
  <2>1. Len(ns) \in Nat /\ Len(fs) \in Nat
    OBVIOUS
  <2>. QED
    BY <1>1, <2>1, ChainStays
<1>3. /\ IsFrame(d, g) /\ Base(g) = Base(f) + (first - 1) /\ End(g) = Base(f) + end
      /\ Base(f) \in Nat /\ first \in Nat \ {0} /\ end \in Nat /\ end <= Len(f.lines) + 1
      /\ Len(f.lines) \in Nat
  <2>1. PICK ls, p : ls = f.lines /\ p = f.i
    OBVIOUS
  <2>2. /\ IsFrame(d, g) /\ Base(g) = Base(f) + (first - 1) /\ End(g) = Base(f) + end
        /\ Base(f) \in Nat /\ first \in Nat /\ end \in Nat
        /\ first \in 1..Len(ls) /\ end \in first + 1..Len(ls) + 1
    <3>1. g.source = "block" /\ g.lines = Cut(ls, first, end)
      BY <2>1 DEF IsInner
    <3>2. ls \in Seq(Text!Line) /\ p \in 1..Len(ls) /\ BlockBelow(ls, p, first, end)
      BY <2>1
    <3>3. IsFrame(d, f) /\ d \in Seq(Text!Line) /\ ls = f.lines
      BY <1>1, <2>1
    <3>4. InBlock(d, f, ls, p, first, end, g)
      BY <3>1, <3>2, <3>3 DEF InBlock
    <3>5. IsBelow(d, f, ls, p, first, end, g)
      BY <3>4, InnerIs
    <3>. QED
      BY <3>5 DEF IsBelow
  <2>3. Len(ls) \in Nat
    BY <2>1, LineFacts
  <2>. QED
    BY <2>1, <2>2, <2>3
<1>4. /\ ns[1].source = "doc" /\ \A a \in 2..t : ns[a].source = "block"
      /\ \A a \in 1..t : IsFrame(d, ns[a])
      /\ \A a \in 1..t - 1 : Base(ns[a]) + ns[a].i = End(ns[a + 1])
      /\ \A a, b \in 1..t : a < b => Base(ns[a]) <= Base(ns[b]) /\ End(ns[b]) <= End(ns[a])
  BY <1>2 DEF Chain
<1>5. Base(ns[t]) = Base(f) /\ End(ns[t]) = Base(f) + Len(f.lines) + 1
  <2>1. Alike(ns[t], f)
    BY <1>1 DEF SameCalls
  <2>2. Base(ns[t]) = Base(f) /\ End(ns[t]) = End(f)
    BY <2>1, AlikeIs
  <2>. QED
    BY <2>2 DEF End
<1>a. PICK tb, te, fb, fl, gb, ge, v :
          /\ tb = Base(ns[t]) /\ te = End(ns[t]) /\ fb = Base(f) /\ fl = Len(f.lines)
          /\ gb = Base(g) /\ ge = End(g) /\ v = first - 1
  OBVIOUS
<1>b. /\ tb = fb /\ te = fb + fl + 1 /\ gb = fb + v /\ ge = fb + end /\ fb \in Nat /\ fl \in Nat
      /\ end \in Nat /\ end <= fl + 1
  BY <1>3, <1>5, <1>a
<1>v. v \in Nat
  BY <1>3, <1>a
<1>c. tb <= gb /\ ge <= te /\ tb \in Nat /\ gb \in Int /\ ge \in Int /\ te \in Int
  <2>1. tb \in Nat /\ gb \in Int /\ ge \in Int /\ te \in Int
    BY <1>b, <1>v
  <2>2. \A x, y, z \in Nat : x <= x + y /\ (z <= y + 1 => x + z <= x + y + 1)
    OBVIOUS
  <2>3. fb <= fb + v /\ fb + end <= fb + fl + 1
    BY <1>b, <1>v, <2>2
  <2>4. tb <= gb
    BY <1>b, <2>3
  <2>5. ge <= te
    BY <1>b, <2>3
  <2>. QED
    BY <2>1, <2>4, <2>5
<1>6. Base(ns[t]) <= Base(g) /\ End(g) <= End(ns[t])
  BY <1>a, <1>c
<1>7. Base(ns[t]) \in Nat /\ Base(g) \in Int /\ End(g) \in Int /\ End(ns[t]) \in Int
  BY <1>a, <1>c
<1>8. \A a \in 1..t : Base(ns[a]) \in Nat /\ End(ns[a]) \in Int
  <2>. TAKE a \in 1..t
  <2>1. PICK x : x = ns[a]
    OBVIOUS
  <2>2. IsBlock(d, x.lines, Base(x), Shift(d, x))
    BY <1>4, <2>1 DEF IsFrame
  <2>3. Base(x) \in Nat
    BY <2>2 DEF IsBlock
  <2>4. Alike(x, fs[a])
    BY <2>1 DEF SameCalls
  <2>5. CASE a = t
    BY <1>7, <2>1, <2>3, <2>5
  <2>6. CASE a # t
    <3>1. a < t /\ a \in 1..t - 1
      BY <2>6
    <3>2. PICK y : y = a + 1
      OBVIOUS
    <3>3. Base(x) + x.i = End(ns[y]) /\ y \in 1..t
      BY <1>4, <2>1, <3>1, <3>2
    <3>4. End(x) = Base(x) + Len(x.lines) + 1
      BY DEF End
    <3>5. Len(x.lines) \in Nat
      <4>1. x.lines = fs[a].lines
        BY <2>4 DEF Alike
      <4>. QED
        BY <4>1, LineFacts
    <3>. QED
      BY <2>1, <2>3, <3>4, <3>5
  <2>. QED
    BY <2>5, <2>6
<1>9. \A a \in 1..u : a = u \/ a \in 1..t
  OBVIOUS
<1>10. \A a \in 1..u - 1 : Base(ns[a]) + ns[a].i = End(ns[a + 1])
  <2>. TAKE a \in 1..u - 1
  <2>1. CASE a = t
    BY <1>3, <1>5, <2>1
  <2>2. CASE a # t
    <3>1. a \in 1..t - 1
      BY <2>2
    <3>. QED
      BY <1>4, <3>1
  <2>. QED
    BY <2>1, <2>2
<1>11. ASSUME NEW a \in 1..u, NEW b \in 1..u, a < b
       PROVE  Base(ns[a]) <= Base(ns[b]) /\ End(ns[b]) <= End(ns[a])
  <2>1. CASE b # u
    <3>1. a \in 1..t /\ b \in 1..t
      BY <1>9, <1>11, <2>1
    <3>. QED
      BY <1>4, <1>11, <3>1
  <2>2. CASE b = u
    <3>1. a \in 1..t
      BY <1>11, <2>2
    <3>2. Base(ns[a]) <= Base(ns[t]) /\ End(ns[t]) <= End(ns[a])
      <4>1. CASE a = t
        BY <1>7, <4>1
      <4>2. CASE a < t
        BY <1>1, <1>4, <3>1, <4>2
      <4>. QED
        BY <3>1, <4>1, <4>2
    <3>3. PICK x, y, z : x = ns[a] /\ y = ns[t] /\ z = ns[b]
      OBVIOUS
    <3>4. z = g
      BY <2>2, <3>3
    <3>5. Base(x) \in Nat /\ End(x) \in Int
      BY <1>8, <3>1, <3>3
    <3>. QED
      BY <1>6, <1>7, <3>2, <3>3, <3>4, <3>5
  <2>. QED
    BY <2>1, <2>2
<1>12. \A a \in 2..u : ns[a].source = "block"
  BY <1>4, <1>9 DEF IsInner
<1>13. \A a \in 1..u : IsFrame(d, ns[a])
  BY <1>3, <1>4, <1>9
<1>14. At(ns, u) = Base(f) + first
  BY <1>3 DEF At, IsInner
<1>. QED
  BY <1>4, <1>10, <1>11, <1>12, <1>13, <1>14 DEF Chain

-----------------------------------------------------------------------------
(* What the calls give to the page.                                         *)

(* Nothing of the document. *)
NoText(ids) == \A n \in DOMAIN ids : ~OfText(ids[n])
Blind(pieces) == \A k \in 1..Len(pieces) : NoText(pieces[k].ids)

LEMMA NoTextIs ==
    ASSUME NEW ids, NoText(ids)
    PROVE  /\ Rising(ids) /\ \A m : ~Has(ids, m)
           /\ \A a, b : Within(ids, a, b) /\ \A x : Before(ids, x) /\ Before(x, ids)
<1>1. Rising(ids) /\ \A a, b : Within(ids, a, b) /\ \A x : Before(ids, x) /\ Before(x, ids)
  BY DEF NoText, Rising, Within, Before
<1>2. \A m : ~Has(ids, m)
  BY DEF NoText, Has, OfText
<1>. QED
  BY <1>1, <1>2

LEMMA ForeignReads ==
    ASSUME NEW ls \in Seq(Text!Line), NEW lines \in Seq(Text!Line), NEW p \in Nat \ {0}, NEW r,
           Reads(ls, lines, p, r), Foreign(lines), NoText(LineIds(ls))
    PROVE  Blind(r.pieces) /\ NoText(LineIds(r.para))
<1>1. /\ r.next \in p..Len(lines) + 1 /\ r.head \in {0, 1} /\ r.own \in BOOLEAN
      /\ r.own => p < r.next
      /\ r.pieces \in Seq(Text!Emitted)
      /\ r.head = 1 => r.para = <<>> /\ IsParagraph(r.pieces[1], All(ls, lines, p, r))
      /\ r.head = 0 => r.para = All(ls, lines, p, r)
      /\ \A k \in Rest(r) : r.at[k] \in p..r.next - 1 /\ OfLine(r.pieces[k], lines[r.at[k]])
  BY DEF Reads
<1>2. Len(lines) \in Nat /\ \A n \in 1..Len(lines) : lines[n] \in Text!Line /\ ~OfText(lines[n].id)
  BY LineFacts DEF Foreign
<1>3. r.next \in Nat /\ r.next <= Len(lines) + 1
  BY <1>1, <1>2
<1>4. PICK all : all = All(ls, lines, p, r)
  OBVIOUS
<1>5. NoText(LineIds(all))
  <2>1. CASE ~r.own
    BY <1>4, <2>1 DEF All
  <2>2. CASE r.own
    <3>1. p \in 1..Len(lines)
      BY <1>1, <1>2, <1>3, <2>2
    <3>2. PICK l \in Text!Line : l = lines[p] /\ ~OfText(l.id)
      BY <1>2, <3>1
    <3>3. all = Append(ls, l)
      BY <1>4, <2>2, <3>2 DEF All
    <3>4. /\ Len(ls) \in Nat /\ DOMAIN LineIds(ls) = 1..Len(ls)
          /\ DOMAIN LineIds(all) = 1..Len(ls) + 1
          /\ \A n \in 1..Len(ls) : LineIds(all)[n] = LineIds(ls)[n]
          /\ LineIds(all)[Len(ls) + 1] = l.id
      BY <3>3, LineIdsAre
    <3>5. \A n \in 1..Len(ls) + 1 : n = Len(ls) + 1 \/ n \in 1..Len(ls)
      BY <3>4
    <3>. QED
      BY <3>2, <3>4, <3>5 DEF NoText
  <2>. QED
    BY <1>1, <2>1, <2>2
<1>6. NoText(LineIds(<<>>))
  BY EmptyIds DEF NoText
<1>7. NoText(LineIds(r.para))
  BY <1>1, <1>4, <1>5, <1>6
<1>8. ASSUME NEW k \in 1..Len(r.pieces)
      PROVE  NoText(r.pieces[k].ids)
  <2>1. CASE k \in Rest(r)
    <3>1. PICK n : n = r.at[k]
      OBVIOUS
    <3>2. n \in 1..Len(lines)
      BY <1>1, <1>2, <1>3, <2>1, <3>1
    <3>3. PICK piece, l : piece = r.pieces[k] /\ l = lines[n]
      OBVIOUS
    <3>4. OfLine(piece, l) /\ ~OfText(l.id)
      BY <1>1, <1>2, <2>1, <3>1, <3>2, <3>3
    <3>5. piece.ids = <<>> \/ piece.ids = <<l.id>>
      BY <3>4 DEF OfLine
    <3>6. DOMAIN <<>> = {} /\ DOMAIN <<l.id>> = {1} /\ <<l.id>>[1] = l.id
      OBVIOUS
    <3>7. NoText(piece.ids)
      BY <3>4, <3>5, <3>6 DEF NoText
    <3>. QED
      BY <3>3, <3>7
  <2>2. CASE k \notin Rest(r)
    <3>1. r.head = 1 /\ k = 1
      BY <1>1, <2>2 DEF Rest
    <3>2. r.pieces[1].ids = LineIds(all)
      BY <1>1, <1>4, <3>1 DEF IsParagraph
    <3>. QED
      BY <1>5, <3>1, <3>2
  <2>. QED
    BY <2>1, <2>2
<1>. QED
  BY <1>7, <1>8 DEF Blind

(* With nothing of the document, the page is as good as it was. *)
ShownSame(page, ls, new, left) == \A m : Shown(new, left, m) <=> Shown(page, ls, m)

LEMMA KeptSame ==
    ASSUME NEW d, NEW p, NEW page, NEW ls, NEW new, NEW left,
           ShownSame(page, ls, new, left), Kept(d, page, ls, p)
    PROVE  Kept(d, new, left, p)
<1>1. \A m : Shown(new, left, m) <=> Shown(page, ls, m)
  BY DEF ShownSame
<1>2. \A h : Drops(d, new, left, h) <=> Drops(d, page, ls, h)
  BY <1>1 DEF Drops
<1>. QED
  BY <1>1, <1>2 DEF Kept

LEMMA BlindAdded ==
    ASSUME NEW page \in Seq(Text!Emitted), NEW more \in Seq(Text!Emitted), NEW ls, NEW left, NEW p,
           Blind(more), NoText(LineIds(ls)), NoText(LineIds(left)), Ordered(page, ls, p),
           NEW new, new = page \o more
    PROVE  Ordered(new, left, p) /\ ShownSame(page, ls, new, left)
<1>1. /\ Len(page) \in Nat /\ DOMAIN page = 1..Len(page) /\ DOMAIN new = 1..Len(page) + Len(more)
      /\ Len(more) \in Nat
      /\ \A k \in 1..Len(page) : new[k] = page[k]
      /\ \A k \in 1..Len(page) + Len(more) : k > Len(page) =>
             k - Len(page) \in 1..Len(more) /\ new[k] = more[k - Len(page)]
  BY Concatenated
<1>2. \A k \in DOMAIN new : (k \in DOMAIN page /\ new[k] = page[k]) \/ NoText(new[k].ids)
  <2>. SUFFICES ASSUME NEW k \in DOMAIN new, k > Len(page)
                PROVE  NoText(new[k].ids)
    BY <1>1
  <2>1. PICK x : x = k - Len(page)
    OBVIOUS
  <2>2. x \in 1..Len(more) /\ new[k] = more[x]
    BY <1>1, <2>1
  <2>. QED
    BY <2>2 DEF Blind
<1>3. \A k \in DOMAIN page : k \in DOMAIN new /\ new[k] = page[k]
  BY <1>1
<1>4. \A k \in DOMAIN new : Before(new[k].ids, LineIds(left))
  BY NoTextIs
<1>5. \A k \in DOMAIN new : Rising(new[k].ids) /\ Within(new[k].ids, 1, p - 1)
  BY <1>2, NoTextIs DEF Ordered
<1>6. ASSUME NEW k \in DOMAIN new, NEW j \in 1..k - 1
      PROVE  Before(new[j].ids, new[k].ids)
  <2>1. j \in DOMAIN new
    BY <1>1
  <2>2. CASE NoText(new[j].ids) \/ NoText(new[k].ids)
    BY <2>2, NoTextIs
  <2>3. CASE ~NoText(new[j].ids) /\ ~NoText(new[k].ids)
    <3>1. k \in DOMAIN page /\ new[k] = page[k] /\ new[j] = page[j]
      BY <1>2, <2>1, <2>3
    <3>. QED
      BY <3>1 DEF Ordered
  <2>. QED
    BY <2>2, <2>3
<1>7. Rising(LineIds(left)) /\ Within(LineIds(left), 1, p - 1)
  BY NoTextIs
<1>8. Ordered(new, left, p)
  BY <1>4, <1>5, <1>6, <1>7 DEF Ordered
<1>9. ASSUME NEW m
      PROVE  Shown(new, left, m) <=> Shown(page, ls, m)
  <2>1. ~Has(LineIds(ls), m) /\ ~Has(LineIds(left), m)
    BY NoTextIs
  <2>2. \A k \in DOMAIN new : NoText(new[k].ids) => ~Has(new[k].ids, m)
    BY NoTextIs
  <2>3. ASSUME NEW k \in DOMAIN new, new[k].form # "omitted", Has(new[k].ids, m)
        PROVE  \E j \in DOMAIN page : page[j].form # "omitted" /\ Has(page[j].ids, m)
    <3>1. k \in DOMAIN page /\ new[k] = page[k]
      BY <1>2, <2>2, <2>3
    <3>. QED
      BY <2>3, <3>1
  <2>4. ASSUME NEW k \in DOMAIN page, page[k].form # "omitted", Has(page[k].ids, m)
        PROVE  \E j \in DOMAIN new : new[j].form # "omitted" /\ Has(new[j].ids, m)
    BY <1>3, <2>4
  <2>. QED
    BY <2>1, <2>3, <2>4 DEF Shown
<1>. QED
  BY <1>8, <1>9 DEF ShownSame

(* What a block gave is indented: otherwise it stays as it is. *)
Reindented(page, new, start, by) ==
    /\ page \in Seq(Text!Emitted) /\ new \in Seq(Text!Emitted) /\ DOMAIN new = DOMAIN page
    /\ \A k \in DOMAIN page :
           /\ new[k].form = page[k].form /\ new[k].ids = page[k].ids /\ new[k].cut = page[k].cut
           /\ new[k].width = page[k].width
           /\ new[k].pad = IF k > start THEN <<by>> \o page[k].pad ELSE page[k].pad

LEMMA ReindentedSame ==
    ASSUME NEW page, NEW new, NEW start, NEW by, Reindented(page, new, start, by),
           NEW ls, NEW p, Ordered(page, ls, p)
    PROVE  Ordered(new, ls, p) /\ ShownSame(page, ls, new, ls) /\ Len(new) = Len(page)
<1>1. /\ DOMAIN new = DOMAIN page
      /\ \A k \in DOMAIN page : new[k].form = page[k].form /\ new[k].ids = page[k].ids
      /\ DOMAIN new = 1..Len(new) /\ DOMAIN page = 1..Len(page)
      /\ Len(new) \in Nat /\ Len(page) \in Nat
  BY LenProperties DEF Reindented
<1>2. \A k \in DOMAIN page : \A j \in 1..k - 1 : j \in DOMAIN page
  BY <1>1
<1>3. Ordered(new, ls, p)
  BY <1>1, <1>2 DEF Ordered
<1>4. ShownSame(page, ls, new, ls)
  BY <1>1 DEF ShownSame, Shown
<1>5. Len(new) = Len(page)
  <2>1. PICK m, n : m = Len(new) /\ n = Len(page)
    OBVIOUS
  <2>2. m \in Nat /\ n \in Nat /\ \A k : k \in 1..m <=> k \in 1..n
    BY <1>1, <2>1
  <2>3. (m \in 1..m <=> m \in 1..n) /\ (n \in 1..m <=> n \in 1..n)
    BY <2>2
  <2>4. m = n
    BY <2>2, <2>3
  <2>. QED
    BY <2>1, <2>4
<1>. QED
  BY <1>3, <1>4, <1>5

-----------------------------------------------------------------------------
(* What holds of the page while the document is read.                       *)

Setup(d, fs, page, ls) ==
    /\ d \in Seq(Text!Line) /\ fs \in Seq(Text!Call) /\ fs # <<>>
    /\ page \in Seq(Text!Emitted) /\ ls \in Seq(Text!Line)
    /\ \A f \in 1..Len(fs) : fs[f].i \in 1..Len(fs[f].lines) + 1 /\ fs[f].start \in 0..Len(page)

Elsewhere(fs, t, page, ls) ==
    t < Len(fs) =>
        /\ NoText(LineIds(ls))
        /\ \A f \in t + 1..Len(fs), k \in 1..Len(page) :
               fs[f].source = "block" /\ fs[f].start < k => NoText(page[k].ids)

PageAt(d, fs, page, ls, t) ==
    /\ Chain(d, fs, t) /\ Outside(fs, t)
    /\ Ordered(page, ls, At(fs, t)) /\ Kept(d, page, ls, At(fs, t))
    /\ Elsewhere(fs, t, page, ls)

InCall(fs, ls, r, open) ==
    Steps(ls, fs[Len(fs)].lines, fs[Len(fs)].i, fs[Len(fs)].width, r, open)

LEMMA SetupIs ==
    ASSUME NEW d, NEW fs, NEW page, NEW ls, Setup(d, fs, page, ls)
    PROVE  /\ d \in Seq(Text!Line) /\ fs \in Seq(Text!Call) /\ fs # <<>>
           /\ page \in Seq(Text!Emitted) /\ ls \in Seq(Text!Line)
           /\ Len(fs) \in Nat \ {0} /\ Len(page) \in Nat /\ Len(fs) \in 1..Len(fs)
           /\ \A f \in 1..Len(fs) :
                  /\ fs[f].lines \in Seq(Text!Line) /\ Len(fs[f].lines) \in Nat
                  /\ fs[f].i \in 1..Len(fs[f].lines) + 1 /\ fs[f].i \in Nat \ {0}
                  /\ fs[f].start \in Nat /\ fs[f].start <= Len(page)
                  /\ fs[f].indent \in Nat
<1>1. /\ d \in Seq(Text!Line) /\ fs \in Seq(Text!Call) /\ fs # <<>>
      /\ page \in Seq(Text!Emitted) /\ ls \in Seq(Text!Line)
      /\ \A f \in 1..Len(fs) : fs[f].i \in 1..Len(fs[f].lines) + 1 /\ fs[f].start \in 0..Len(page)
  BY DEF Setup
<1>2. Len(fs) \in Nat \ {0} /\ Len(page) \in Nat
  BY <1>1
<1>3. Len(fs) \in 1..Len(fs)
  BY <1>2
<1>4. ASSUME NEW f \in 1..Len(fs)
      PROVE  /\ fs[f].lines \in Seq(Text!Line) /\ Len(fs[f].lines) \in Nat /\ fs[f].indent \in Nat
             /\ fs[f].i \in Nat \ {0} /\ fs[f].start \in Nat /\ fs[f].start <= Len(page)
  <2>1. fs[f] \in Text!Call
    BY <1>1, ElementOfSeq
  <2>2. fs[f].lines \in Seq(Text!Line) /\ fs[f].indent \in Nat /\ fs[f].start \in Nat
    BY <2>1 DEF Text!Call
  <2>3. Len(fs[f].lines) \in Nat
    BY <2>2, LenProperties
  <2>4. fs[f].i \in 1..Len(fs[f].lines) + 1 /\ fs[f].start \in 0..Len(page)
    BY <1>1
  <2>. QED
    BY <1>2, <2>2, <2>3, <2>4
<1>. QED
  BY <1>1, <1>2, <1>3, <1>4

(* The document's own call takes a step. *)
LEMMA OwnPage ==
    ASSUME NEW d, NEW fs, NEW page, NEW ls, Setup(d, fs, page, ls),
           NEW t, t = Len(fs), PageAt(d, fs, page, ls, t),
           NEW r, NEW open, InCall(fs, ls, r, open),
           NEW f, f = fs[t]
    PROVE  /\ OwnStep(d, f.lines, Base(f), Shift(d, f), ls, f.i, r)
           /\ Ordered(page \o r.pieces, r.para, Base(f) + r.next)
           /\ Kept(d, page \o r.pieces, r.para, Base(f) + r.next)
           /\ page \o r.pieces \in Seq(Text!Emitted)
<1>1. /\ d \in Seq(Text!Line) /\ page \in Seq(Text!Emitted) /\ ls \in Seq(Text!Line)
      /\ t \in 1..t /\ f.lines \in Seq(Text!Line) /\ f.i \in 1..Len(f.lines) + 1
  BY SetupIs
<1>2. Reads(ls, f.lines, f.i, r) /\ Passes(f.lines, f.i, r)
  BY DEF InCall, Steps
<1>3. IsBlock(d, f.lines, Base(f), Shift(d, f))
  BY <1>1 DEF PageAt, Chain, IsFrame
<1>4. Ordered(page, ls, Base(f) + f.i) /\ Kept(d, page, ls, Base(f) + f.i)
  BY DEF PageAt, At
<1>5. PICK b, s, p, lines : b = Base(f) /\ s = Shift(d, f) /\ p = f.i /\ lines = f.lines
  OBVIOUS
<1>6. OwnStep(d, lines, b, s, ls, p, r)
  BY <1>1, <1>2, <1>3, <1>5 DEF OwnStep
<1>7. Ordered(page, ls, b + p) /\ Kept(d, page, ls, b + p) /\ Passes(lines, p, r)
  BY <1>2, <1>4, <1>5
<1>8. Ordered(page \o r.pieces, r.para, b + r.next) /\ Kept(d, page \o r.pieces, r.para, b + r.next)
  BY <1>1, <1>6, <1>7, OrderMoves, KeptMoves
<1>9. page \o r.pieces \in Seq(Text!Emitted)
  <2>1. r.pieces \in Seq(Text!Emitted)
    BY <1>2 DEF Reads
  <2>. QED
    BY <1>1, <2>1, Concatenated
<1>. QED
  BY <1>5, <1>6, <1>8, <1>9

(* A call for an included file takes one. *)
LEMMA ForeignPage ==
    ASSUME NEW d, NEW fs, NEW page, NEW ls, Setup(d, fs, page, ls),
           NEW t, PageAt(d, fs, page, ls, t), t < Len(fs),
           NEW r, NEW open, InCall(fs, ls, r, open)
    PROVE  /\ Blind(r.pieces) /\ NoText(LineIds(r.para)) /\ r.pieces \in Seq(Text!Emitted)
           /\ Ordered(page \o r.pieces, r.para, At(fs, t))
           /\ Kept(d, page \o r.pieces, r.para, At(fs, t))
           /\ ShownSame(page, ls, page \o r.pieces, r.para)
<1>1. /\ page \in Seq(Text!Emitted) /\ ls \in Seq(Text!Line) /\ Len(fs) \in Nat \ {0}
      /\ \A g \in 1..Len(fs) : fs[g].lines \in Seq(Text!Line) /\ fs[g].i \in Nat \ {0}
  BY SetupIs
<1>2. t \in 1..Len(fs) /\ Outside(fs, t) /\ NoText(LineIds(ls))
      /\ Ordered(page, ls, At(fs, t)) /\ Kept(d, page, ls, At(fs, t))
  BY DEF PageAt, Chain, Elsewhere
<1>3. Len(fs) \in t + 1..Len(fs) /\ Len(fs) \in 1..Len(fs)
  BY <1>1, <1>2
<1>4. PICK f : f = fs[Len(fs)]
  OBVIOUS
<1>5. f.lines \in Seq(Text!Line) /\ f.i \in Nat \ {0} /\ Foreign(f.lines)
  BY <1>1, <1>2, <1>3, <1>4 DEF Outside, Stranger
<1>6. Reads(ls, f.lines, f.i, r)
  BY <1>4 DEF InCall, Steps
<1>7. Blind(r.pieces) /\ NoText(LineIds(r.para))
  BY <1>1, <1>2, <1>5, <1>6, ForeignReads
<1>8. r.pieces \in Seq(Text!Emitted)
  BY <1>6 DEF Reads
<1>9. Ordered(page \o r.pieces, r.para, At(fs, t)) /\ ShownSame(page, ls, page \o r.pieces, r.para)
  BY <1>1, <1>2, <1>7, <1>8, BlindAdded
<1>10. Kept(d, page \o r.pieces, r.para, At(fs, t))
  BY <1>2, <1>9, KeptSame
<1>. QED
  BY <1>7, <1>8, <1>9, <1>10

LEMMA ElsewhereStays ==
    ASSUME NEW fs, NEW ns, NEW t, NEW n, Len(fs) \in Nat, Len(ns) \in Nat, t \in Nat, t <= n, t < Len(fs),
           SameCalls(fs, ns, n), NEW page \in Seq(Text!Emitted), NEW ls, Elsewhere(fs, t, page, ls),
           NEW more \in Seq(Text!Emitted), Blind(more), NEW left, NoText(LineIds(left)),
           NEW new, new = page \o more,
           \A f \in n + 1..Len(ns) : ns[f].source = "block" => \A k \in 1..Len(new) : ~(ns[f].start < k)
    PROVE  Elsewhere(ns, t, new, left)
<1>. SUFFICES ASSUME NEW f \in t + 1..Len(ns), NEW k \in 1..Len(new),
                     ns[f].source = "block", ns[f].start < k
              PROVE  NoText(new[k].ids)
  BY DEF Elsewhere
<1>1. /\ Len(page) \in Nat /\ Len(more) \in Nat /\ Len(new) = Len(page) + Len(more)
      /\ \A j \in 1..Len(page) : new[j] = page[j]
      /\ \A j \in 1..Len(page) + Len(more) : j > Len(page) =>
             j - Len(page) \in 1..Len(more) /\ new[j] = more[j - Len(page)]
  BY Concatenated
<1>2. n \in Nat /\ n <= Len(fs) /\ \A g \in 1..n : Alike(ns[g], fs[g])
  BY DEF SameCalls
<1>3. f \in 1..n /\ f \in t + 1..Len(fs)
  <2>1. ~(f \in n + 1..Len(ns))
    OBVIOUS
  <2>. QED
    BY <1>2, <2>1
<1>4. fs[f].source = "block" /\ fs[f].start < k
  BY <1>2, <1>3 DEF Alike
<1>5. CASE k <= Len(page)
  <2>1. k \in 1..Len(page) /\ new[k] = page[k]
    BY <1>1, <1>5
  <2>. QED
    BY <1>3, <1>4, <2>1 DEF Elsewhere
<1>6. CASE k > Len(page)
  <2>1. PICK x : x = k - Len(page)
    OBVIOUS
  <2>2. x \in 1..Len(more) /\ new[k] = more[x]
    BY <1>1, <1>6, <2>1
  <2>. QED
    BY <2>2 DEF Blind
<1>. QED
  BY <1>1, <1>5, <1>6

LEMMA AtStays ==
    ASSUME NEW fs, NEW ns, NEW n, SameCalls(fs, ns, n), NEW t \in 1..n,
           t < n \/ ns[t].i = fs[t].i
    PROVE  At(ns, t) = At(fs, t)
<1>1. Alike(ns[t], fs[t]) /\ ns[t].i = fs[t].i
  BY DEF SameCalls
<1>2. PICK x, y : x = ns[t] /\ y = fs[t]
  OBVIOUS
<1>3. Base(x) = Base(y) /\ x.i = y.i
  BY <1>1, <1>2, AlikeIs
<1>. QED
  BY <1>2, <1>3 DEF At

(* Nothing changes for the document while a file is read. *)
LEMMA ForeignTurn ==
    ASSUME NEW d, NEW fs, NEW page, NEW ls, Setup(d, fs, page, ls),
           NEW t, PageAt(d, fs, page, ls, t), t < Len(fs),
           NEW r, NEW open, InCall(fs, ls, r, open),
           NEW ns, Len(ns) \in Nat, NEW n, SameCalls(fs, ns, n), t < n,
           \A f \in n + 1..Len(ns) :
               /\ Stranger(ns[f]) /\ f # t + 1
               /\ ns[f].source = "block" => \A k \in 1..Len(page \o r.pieces) : ~(ns[f].start < k)
    PROVE  PageAt(d, ns, page \o r.pieces, r.para, t)
<1>1. /\ Blind(r.pieces) /\ NoText(LineIds(r.para)) /\ r.pieces \in Seq(Text!Emitted)
      /\ Ordered(page \o r.pieces, r.para, At(fs, t))
      /\ Kept(d, page \o r.pieces, r.para, At(fs, t))
  BY ForeignPage
<1>2. Len(fs) \in Nat /\ page \in Seq(Text!Emitted)
  BY SetupIs
<1>3. t \in 1..Len(fs) /\ Chain(d, fs, t) /\ Outside(fs, t) /\ Elsewhere(fs, t, page, ls)
  BY DEF PageAt, Chain
<1>4. n \in Nat /\ n <= Len(ns) /\ t \in Nat \ {0} /\ t \in 1..n /\ t <= n /\ t \in 1..t
      /\ n <= Len(fs)
  BY <1>2, <1>3 DEF SameCalls
<1>5. SameCalls(fs, ns, t)
  BY <1>2, <1>4 DEF SameCalls
<1>6. Chain(d, ns, t)
  BY <1>2, <1>3, <1>4, <1>5, ChainStays
<1>7. Outside(ns, t)
  BY <1>2, <1>3, <1>4, OutsideStays
<1>8. At(ns, t) = At(fs, t)
  BY <1>4, AtStays
<1>9. Elsewhere(ns, t, page \o r.pieces, r.para)
  <2>1. PICK new : new = page \o r.pieces
    OBVIOUS
  <2>2. \A f \in n + 1..Len(ns) : ns[f].source = "block" => \A k \in 1..Len(new) : ~(ns[f].start < k)
    BY <2>1
  <2>3. Elsewhere(ns, t, new, r.para)
    BY <1>1, <1>2, <1>3, <1>4, <2>1, <2>2, ElsewhereStays
  <2>. QED
    BY <2>1, <2>3
<1>. QED
  BY <1>1, <1>6, <1>7, <1>8, <1>9 DEF PageAt

LEMMA PageReindented ==
    ASSUME NEW d, NEW fs, NEW page, NEW ls, NEW t, PageAt(d, fs, page, ls, t),
           NEW new, NEW start, NEW by, Reindented(page, new, start, by)
    PROVE  PageAt(d, fs, new, ls, t)
<1>1. Ordered(page, ls, At(fs, t)) /\ Kept(d, page, ls, At(fs, t)) /\ Elsewhere(fs, t, page, ls)
      /\ Chain(d, fs, t) /\ Outside(fs, t)
  BY DEF PageAt
<1>2. /\ Ordered(new, ls, At(fs, t)) /\ ShownSame(page, ls, new, ls) /\ Len(new) = Len(page)
  BY <1>1, ReindentedSame
<1>3. Kept(d, new, ls, At(fs, t))
  BY <1>1, <1>2, KeptSame
<1>4. \A k \in 1..Len(page) : new[k].ids = page[k].ids
  BY LenProperties DEF Reindented
<1>5. Elsewhere(fs, t, new, ls)
  BY <1>1, <1>2, <1>4 DEF Elsewhere
<1>. QED
  BY <1>1, <1>2, <1>3, <1>5 DEF PageAt

-----------------------------------------------------------------------------
(* The steps of the conversion, one by one.                                 *)

LEMMA CutForeign ==
    ASSUME NEW ls \in Seq(Text!Line), Foreign(ls), NEW first \in 1..Len(ls),
           NEW end \in first + 1..Len(ls) + 1, NEW lines, lines = Cut(ls, first, end)
    PROVE  Foreign(lines)
<1>1. PICK c, by : c = end - first /\ by = ls[first].indent
  OBVIOUS
<1>2. Len(ls) \in Nat /\ by \in Nat
  BY <1>1, LineFacts
<1>3. first \in Nat \ {0} /\ end \in Nat /\ end <= Len(ls) + 1 /\ c \in Nat
  BY <1>1, <1>2
<1>4. lines = [n \in 1..c |-> Text!Dedent(ls[first + n - 1], by)]
  BY <1>1 DEF Cut
<1>5. ASSUME NEW n \in 1..c
      PROVE  lines[n] \in Text!Line /\ ~OfText(lines[n].id)
  <2>1. PICK x : x = first + n - 1
    OBVIOUS
  <2>2. x \in 1..Len(ls)
    BY <1>1, <1>2, <1>3, <2>1
  <2>3. PICK l : l = ls[x]
    OBVIOUS
  <2>4. l \in Text!Line /\ ~OfText(l.id)
    BY <2>2, <2>3, LineFacts DEF Foreign
  <2>5. lines[n] = Text!Dedent(l, by)
    BY <1>4, <2>1, <2>3
  <2>6. Text!Dedent(l, by) \in Text!Line /\ Text!Dedent(l, by).id = l.id
    BY <1>2, <2>4, DedentIn, DedentKeeps
  <2>. QED
    BY <2>4, <2>5, <2>6
<1>6. Len(lines) = c
  <2>1. lines \in [1..c -> Text!Line]
    BY <1>4, <1>5
  <2>2. \A size \in Nat : \A fn \in [1..size -> Text!Line] : fn \in Seq(Text!Line) /\ Len(fn) = size
    OBVIOUS
  <2>. QED
    BY <1>3, <2>1, <2>2
<1>. QED
  BY <1>5, <1>6 DEF Foreign

LEMMA GoesTurn ==
    ASSUME NEW d, NEW fs, NEW page, NEW ls, Setup(d, fs, page, ls),
           NEW t, PageAt(d, fs, page, ls, t), NEW r, NEW open, InCall(fs, ls, r, open),
           NEW ns, ns = [fs EXCEPT ![Len(fs)].i = r.next]
    PROVE  PageAt(d, ns, page \o r.pieces, r.para, t)
<1>1. fs \in Seq(Text!Call) /\ fs # <<>> /\ Len(fs) \in Nat \ {0}
      /\ \A f \in 1..Len(fs) : fs[f].i \in Nat /\ Len(fs[f].lines) \in Nat
  BY SetupIs
<1>2. t \in 1..Len(fs) /\ Chain(d, fs, t) /\ Outside(fs, t)
  BY DEF PageAt, Chain
<1>3. r.next \in Nat
  <2>1. PICK f : f = fs[Len(fs)]
    OBVIOUS
  <2>2. r.next \in f.i..Len(f.lines) + 1
    BY <2>1 DEF InCall, Steps, Reads
  <2>3. f.i \in Nat /\ Len(f.lines) \in Nat
    BY <1>1, <2>1
  <2>. QED
    BY <2>2, <2>3
<1>4. /\ ns \in Seq(Text!Call) /\ Len(ns) = Len(fs) /\ SameCalls(fs, ns, Len(fs))
      /\ ns[Len(fs)].i = r.next
  BY <1>1, <1>3, CallsMoved
<1>5. CASE t < Len(fs)
  <2>1. PICK n : n = Len(fs)
    OBVIOUS
  <2>2. SameCalls(fs, ns, n) /\ Len(ns) \in Nat /\ t < n /\ n + 1..Len(ns) = {}
    BY <1>1, <1>4, <1>5, <2>1
  <2>. QED
    BY <1>5, <2>2, ForeignTurn
<1>6. CASE t = Len(fs)
  <2>1. PICK f : f = fs[t]
    OBVIOUS
  <2>2. /\ Ordered(page \o r.pieces, r.para, Base(f) + r.next)
        /\ Kept(d, page \o r.pieces, r.para, Base(f) + r.next)
    BY <1>6, <2>1, OwnPage
  <2>3. SameCalls(fs, ns, t) /\ t \in 1..t /\ Len(ns) = t
    BY <1>1, <1>4, <1>6
  <2>4. Chain(d, ns, t)
    BY <1>1, <1>2, <1>4, <2>3, ChainStays
  <2>5. Outside(ns, t) /\ Elsewhere(ns, t, page \o r.pieces, r.para)
    <3>1. t + 1..Len(ns) = {} /\ ~(t < Len(ns))
      BY <1>1, <1>6, <2>3
    <3>. QED
      BY <3>1 DEF Outside, Elsewhere
  <2>6. At(ns, t) = Base(f) + r.next
    <3>1. PICK g : g = ns[t]
      OBVIOUS
    <3>2. Alike(g, f) /\ g.i = r.next
      BY <1>4, <1>6, <2>1, <2>3, <3>1 DEF SameCalls
    <3>3. Base(g) = Base(f)
      BY <3>2, AlikeIs
    <3>. QED
      BY <3>1, <3>2, <3>3 DEF At
  <2>. QED
    BY <2>2, <2>4, <2>5, <2>6 DEF PageAt
<1>. QED
  BY <1>1, <1>2, <1>5, <1>6

Enters(d, fs, page, ls, t, r, open, f, end, g, new, ns) ==
    /\ Setup(d, fs, page, ls) /\ PageAt(d, fs, page, ls, t) /\ InCall(fs, ls, r, open)
    /\ r.para = <<>> /\ f = fs[Len(fs)] /\ BlockBelow(f.lines, f.i, r.next, end)
    /\ f.i <= Len(f.lines) /\ IsInner(g, f, r.next, end)
    /\ new = page \o r.pieces /\ g.start = Len(new) /\ Pushed(fs, end, g, ns)

LEMMA NestTurn ==
    ASSUME NEW d, NEW fs, NEW page, NEW ls, NEW t, NEW r, NEW open, NEW f, NEW end, NEW g,
           NEW new, NEW ns, Enters(d, fs, page, ls, t, r, open, f, end, g, new, ns)
    PROVE  /\ t < Len(fs) => PageAt(d, ns, new, <<>>, t)
           /\ t = Len(fs) => PageAt(d, ns, new, <<>>, t + 1)
           /\ Len(ns) = Len(fs) + 1 /\ t \in 1..Len(fs)
<1>d. /\ Setup(d, fs, page, ls) /\ PageAt(d, fs, page, ls, t) /\ InCall(fs, ls, r, open)
      /\ r.para = <<>> /\ f = fs[Len(fs)] /\ BlockBelow(f.lines, f.i, r.next, end)
      /\ f.i <= Len(f.lines) /\ IsInner(g, f, r.next, end)
      /\ new = page \o r.pieces /\ g.start = Len(new) /\ Pushed(fs, end, g, ns)
  BY DEF Enters
<1>. USE <1>d
<1>1. /\ fs \in Seq(Text!Call) /\ fs # <<>> /\ Len(fs) \in Nat \ {0} /\ d \in Seq(Text!Line)
      /\ f.lines \in Seq(Text!Line) /\ Len(f.lines) \in Nat /\ f.i \in 1..Len(f.lines)
      /\ \A a \in 1..Len(fs) : fs[a].lines \in Seq(Text!Line)
  <2>1. /\ fs \in Seq(Text!Call) /\ fs # <<>> /\ Len(fs) \in Nat \ {0} /\ d \in Seq(Text!Line)
        /\ f.lines \in Seq(Text!Line) /\ Len(f.lines) \in Nat /\ f.i \in Nat \ {0}
        /\ \A a \in 1..Len(fs) : fs[a].lines \in Seq(Text!Line)
    BY SetupIs
  <2>. QED
    BY <2>1
<1>2. t \in 1..Len(fs) /\ Chain(d, fs, t) /\ Outside(fs, t)
  BY DEF PageAt, Chain
<1>3. PICK first : first = r.next
  OBVIOUS
<1>4. /\ first \in 1..Len(f.lines) /\ end \in first + 1..Len(f.lines) + 1 /\ end \in Nat
      /\ first \in Nat
  <2>1. first \in f.i + 1..Len(f.lines) /\ end \in first + 1..Len(f.lines) + 1
    BY <1>3 DEF BlockBelow
  <2>. QED
    BY <1>1, <2>1
<1>5. /\ Len(ns) = Len(fs) + 1 /\ SameCalls(fs, ns, Len(fs)) /\ ns[Len(fs)].i = end
      /\ ns[Len(fs) + 1] = g
  BY <1>1, <1>4, CallsPushed DEF Deeper
<1>6. CASE t < Len(fs)
  <2>1. PICK n : n = Len(fs)
    OBVIOUS
  <2>2. SameCalls(fs, ns, n) /\ Len(ns) \in Nat /\ t < n /\ n \in Nat
        /\ \A a \in n + 1..Len(ns) : a # t + 1 /\ ns[a] = g
    BY <1>1, <1>2, <1>5, <1>6, <2>1
  <2>3. Stranger(g)
    <3>1. n \in t + 1..n
      BY <1>1, <1>2, <1>6, <2>1
    <3>2. Foreign(f.lines)
      BY <1>2, <2>1, <3>1 DEF Outside, Stranger
    <3>3. Foreign(g.lines)
      BY <1>1, <1>3, <1>4, <3>2, CutForeign DEF IsInner
    <3>. QED
      BY <3>3 DEF Stranger, IsInner
  <2>4. \A k \in 1..Len(new) : ~(g.start < k)
    <3>1. new \in Seq(Text!Emitted)
      <4>1. r.pieces \in Seq(Text!Emitted) /\ page \in Seq(Text!Emitted)
        BY SetupIs DEF InCall, Steps, Reads
      <4>. QED
        BY <4>1, Concatenated
    <3>2. Len(new) \in Nat
      BY <3>1, LenProperties
    <3>. QED
      BY <3>2
  <2>5. PageAt(d, ns, page \o r.pieces, r.para, t)
    <3>1. \A a \in n + 1..Len(ns) :
              /\ Stranger(ns[a]) /\ a # t + 1
              /\ ns[a].source = "block" => \A k \in 1..Len(page \o r.pieces) : ~(ns[a].start < k)
      BY <2>2, <2>3, <2>4
    <3>. QED
      BY <1>6, <2>2, <3>1, ForeignTurn
  <2>. QED
    BY <1>1, <1>2, <1>5, <1>6, <2>5
<1>7. CASE t = Len(fs)
  <2>1. PICK u : u = t + 1
    OBVIOUS
  <2>2. /\ Ordered(page \o r.pieces, r.para, Base(f) + r.next)
        /\ Kept(d, page \o r.pieces, r.para, Base(f) + r.next)
    BY <1>7, OwnPage
  <2>3. Chain(d, ns, u) /\ At(ns, u) = Base(f) + first
    <3>1. /\ t \in Nat /\ f = fs[t] /\ Len(ns) = u /\ SameCalls(fs, ns, t) /\ ns[t].i = end /\ g = ns[u]
          /\ Len(fs) = t
      BY <1>1, <1>3, <1>5, <1>7, <2>1
    <3>2. IsInner(g, f, first, end) /\ BlockBelow(f.lines, f.i, first, end)
      BY <1>3
    <3>3. /\ f.lines \in Seq(Text!Line) /\ f.i \in 1..Len(f.lines)
          /\ \A a \in 1..t : fs[a].lines \in Seq(Text!Line)
      BY <1>1, <1>7
    <3>4. Chain(d, fs, t) /\ d \in Seq(Text!Line)
      BY <1>1, <1>2
    <3>5. Nesting(d, fs, t, f, first, end, ns, g)
      BY <2>1, <3>1, <3>2, <3>3, <3>4 DEF Nesting
    <3>. QED
      BY <2>1, <3>5, ChainNests
  <2>4. Outside(ns, u) /\ Elsewhere(ns, u, new, <<>>)
    <3>1. u + 1..Len(ns) = {} /\ ~(u < Len(ns))
      BY <1>1, <1>5, <1>7, <2>1
    <3>. QED
      BY <3>1 DEF Outside, Elsewhere
  <2>5. PageAt(d, ns, new, <<>>, u)
    BY <1>3, <2>2, <2>3, <2>4 DEF PageAt
  <2>. QED
    BY <1>1, <1>2, <1>5, <1>7, <2>1, <2>5
<1>. QED
  BY <1>1, <1>2, <1>6, <1>7

LEMMA FileTurn ==
    ASSUME NEW d, NEW fs, NEW page, NEW ls, Setup(d, fs, page, ls),
           NEW t, PageAt(d, fs, page, ls, t), NEW r, NEW open, InCall(fs, ls, r, open),
           r.para = <<>>,
           NEW g, g.source \notin {"doc", "block"}, Foreign(g.lines),
           NEW ns, Pushed(fs, r.next, g, ns)
    PROVE  PageAt(d, ns, page \o r.pieces, <<>>, t) /\ Len(ns) = Len(fs) + 1
<1>1. fs \in Seq(Text!Call) /\ fs # <<>> /\ Len(fs) \in Nat \ {0}
      /\ \A f \in 1..Len(fs) : fs[f].i \in Nat /\ Len(fs[f].lines) \in Nat
  BY SetupIs
<1>2. t \in 1..Len(fs) /\ Chain(d, fs, t) /\ Outside(fs, t)
  BY DEF PageAt, Chain
<1>3. r.next \in Nat
  <2>1. PICK f : f = fs[Len(fs)]
    OBVIOUS
  <2>2. r.next \in f.i..Len(f.lines) + 1
    BY <2>1 DEF InCall, Steps, Reads
  <2>3. f.i \in Nat /\ Len(f.lines) \in Nat
    BY <1>1, <2>1
  <2>. QED
    BY <2>2, <2>3
<1>4. /\ Len(ns) = Len(fs) + 1 /\ SameCalls(fs, ns, Len(fs))
      /\ ns[Len(fs)].i = r.next /\ ns[Len(fs) + 1] = g
  BY <1>1, <1>3, CallsPushed DEF Deeper
<1>5. Stranger(g) /\ g.source # "block"
  BY DEF Stranger
<1>6. CASE t < Len(fs)
  <2>1. PICK n : n = Len(fs)
    OBVIOUS
  <2>2. SameCalls(fs, ns, n) /\ Len(ns) \in Nat /\ t < n
        /\ \A a \in n + 1..Len(ns) : a # t + 1 /\ ns[a] = g
    BY <1>1, <1>2, <1>4, <1>6, <2>1
  <2>3. PageAt(d, ns, page \o r.pieces, r.para, t)
    <3>1. \A a \in n + 1..Len(ns) :
              /\ Stranger(ns[a]) /\ a # t + 1
              /\ ns[a].source = "block" => \A k \in 1..Len(page \o r.pieces) : ~(ns[a].start < k)
      BY <1>5, <2>2
    <3>. QED
      BY <1>6, <2>2, <3>1, ForeignTurn
  <2>. QED
    BY <1>4, <2>3
<1>7. CASE t = Len(fs)
  <2>1. PICK f : f = fs[t]
    OBVIOUS
  <2>2. /\ Ordered(page \o r.pieces, r.para, Base(f) + r.next)
        /\ Kept(d, page \o r.pieces, r.para, Base(f) + r.next)
    BY <1>7, <2>1, OwnPage
  <2>3. SameCalls(fs, ns, t) /\ t \in 1..t /\ Len(ns) = t + 1 /\ ns[t + 1] = g /\ t \in Nat
        /\ Len(ns) \in Nat
    BY <1>1, <1>4, <1>7
  <2>4. Chain(d, ns, t)
    BY <1>1, <1>2, <2>3, ChainStays
  <2>5. Outside(ns, t) /\ Elsewhere(ns, t, page \o r.pieces, <<>>)
    <3>1. \A a \in t + 1..Len(ns) : ns[a] = g
      BY <2>3
    <3>2. NoText(LineIds(<<>>))
      BY EmptyIds DEF NoText
    <3>. QED
      BY <1>5, <3>1, <3>2 DEF Outside, Elsewhere
  <2>6. At(ns, t) = Base(f) + r.next
    <3>1. PICK h : h = ns[t]
      OBVIOUS
    <3>2. Alike(h, f) /\ h.i = r.next
      BY <1>4, <1>7, <2>1, <2>3, <3>1 DEF SameCalls
    <3>3. Base(h) = Base(f)
      BY <3>2, AlikeIs
    <3>. QED
      BY <3>1, <3>2, <3>3 DEF At
  <2>. QED
    BY <1>4, <2>2, <2>4, <2>5, <2>6 DEF PageAt
<1>. QED
  BY <1>1, <1>2, <1>6, <1>7

LEMMA BlockEndTurn ==
    ASSUME NEW d, NEW fs, NEW page, NEW ls, Setup(d, fs, page, ls),
           NEW t, PageAt(d, fs, page, ls, t), NEW r, NEW open, InCall(fs, ls, r, open),
           r.para = <<>>,
           NEW f, f = fs[Len(fs)], f.source = "block", ~(f.i <= Len(f.lines)), r.next = f.i,
           NEW new, NEW start, NEW by, Reindented(page \o r.pieces, new, start, by),
           NEW ns, ns = SubSeq(fs, 1, Len(fs) - 1)
    PROVE  /\ t < Len(fs) => PageAt(d, ns, new, <<>>, t) /\ t < Len(fs) - 1
           /\ t = Len(fs) => PageAt(d, ns, new, <<>>, t - 1) /\ t \in Nat /\ t - 1 \in 1..t
           /\ t \in 1..Len(fs)
<1>1. /\ fs \in Seq(Text!Call) /\ fs # <<>> /\ Len(fs) \in Nat \ {0}
      /\ Len(f.lines) \in Nat /\ f.i \in 1..Len(f.lines) + 1
  BY SetupIs
<1>2. t \in 1..Len(fs) /\ Chain(d, fs, t) /\ Outside(fs, t)
  BY DEF PageAt, Chain
<1>3. PICK m : m = Len(fs) - 1
  OBVIOUS
<1>4. ns \in Seq(Text!Call) /\ Len(ns) = m /\ SameCalls(fs, ns, m) /\ \A a \in 1..m : ns[a] = fs[a]
  BY <1>1, <1>3, CallsPopped
<1>5. m \in Nat /\ Len(fs) = m + 1
  BY <1>1, <1>3
<1>6. /\ t < Len(fs) => PageAt(d, ns, page \o r.pieces, <<>>, t) /\ t < m
      /\ t = Len(fs) => PageAt(d, ns, page \o r.pieces, <<>>, m) /\ t \in Nat /\ m + 1 = t /\ m \in 1..t
  <2>1. CASE t < Len(fs)
    <3>1. t < m
      <4>1. t # m
        BY <1>1, <1>2, <1>5, <2>1 DEF Outside
      <4>. QED
        BY <1>2, <1>5, <2>1, <4>1
    <3>2. m + 1..Len(ns) = {} /\ Len(ns) \in Nat
      BY <1>4, <1>5
    <3>3. PageAt(d, ns, page \o r.pieces, r.para, t)
      BY <1>4, <2>1, <3>1, <3>2, ForeignTurn
    <3>4. t # Len(fs)
      BY <1>1, <1>2, <2>1
    <3>. QED
      BY <3>1, <3>3, <3>4
  <2>2. CASE t = Len(fs)
    <3>1. t # 1 /\ t \in Nat
      <4>1. fs[1].source = "doc"
        BY <1>2 DEF Chain
      <4>. QED
        BY <1>1, <1>2, <2>2, <4>1
    <3>2. m \in 1..t - 1 /\ m \in 1..t /\ m + 1 = t /\ m \in 1..m
      BY <1>2, <1>5, <2>2, <3>1
    <3>3. /\ Ordered(page \o r.pieces, r.para, Base(f) + r.next)
          /\ Kept(d, page \o r.pieces, r.para, Base(f) + r.next)
      BY <2>2, OwnPage
    <3>4. Chain(d, ns, m)
      BY <1>1, <1>2, <1>4, <1>5, <3>2, ChainStays
    <3>5. Outside(ns, m) /\ Elsewhere(ns, m, page \o r.pieces, <<>>)
      <4>1. m + 1..Len(ns) = {} /\ ~(m < Len(ns))
        BY <1>4, <1>5
      <4>. QED
        BY <4>1 DEF Outside, Elsewhere
    <3>6. At(ns, m) = Base(f) + r.next
      <4>1. PICK g : g = fs[m]
        OBVIOUS
      <4>2. Base(g) + g.i = End(f)
        BY <1>2, <2>2, <3>2, <4>1 DEF Chain
      <4>3. At(ns, m) = Base(g) + g.i
        BY <1>4, <3>2, <4>1 DEF At
      <4>4. f.i = Len(f.lines) + 1
        BY <1>1
      <4>5. Base(f) \in Nat
        <5>1. IsFrame(d, f)
          BY <1>2, <2>2 DEF Chain
        <5>. QED
          BY <5>1 DEF IsFrame, IsBlock
      <4>6. End(f) = Base(f) + Len(f.lines) + 1
        BY DEF End
      <4>7. PICK a, b : a = Base(f) /\ b = Len(f.lines)
        OBVIOUS
      <4>8. a + b + 1 = a + (b + 1)
        BY <1>1, <4>5, <4>7
      <4>. QED
        BY <4>2, <4>3, <4>4, <4>6, <4>7, <4>8
    <3>7. PageAt(d, ns, page \o r.pieces, <<>>, m)
      BY <3>3, <3>4, <3>5, <3>6 DEF PageAt
    <3>8. ~(t < Len(fs))
      BY <1>1, <2>2
    <3>. QED
      BY <3>1, <3>2, <3>7, <3>8
  <2>. QED
    BY <1>1, <1>2, <2>1, <2>2
<1>7. \A u : PageAt(d, ns, page \o r.pieces, <<>>, u) => PageAt(d, ns, new, <<>>, u)
  BY PageReindented
<1>8. t = Len(fs) => m = t - 1
  BY <1>3
<1>. QED
  BY <1>2, <1>3, <1>6, <1>7, <1>8

LEMMA FileEndTurn ==
    ASSUME NEW d, NEW fs, NEW page, NEW ls, Setup(d, fs, page, ls),
           NEW t, PageAt(d, fs, page, ls, t),
           NEW f, f = fs[Len(fs)], f.source \notin {"doc", "block"},
           NEW ns, ns = SubSeq(fs, 1, Len(fs) - 1)
    PROVE  PageAt(d, ns, page, ls, t) /\ ns # <<>>
<1>1. fs \in Seq(Text!Call) /\ fs # <<>> /\ Len(fs) \in Nat \ {0}
  BY SetupIs
<1>2. /\ t \in 1..Len(fs) /\ Chain(d, fs, t) /\ Outside(fs, t)
      /\ Ordered(page, ls, At(fs, t)) /\ Kept(d, page, ls, At(fs, t)) /\ Elsewhere(fs, t, page, ls)
  BY DEF PageAt, Chain
<1>3. PICK m : m = Len(fs) - 1
  OBVIOUS
<1>4. ns \in Seq(Text!Call) /\ Len(ns) = m /\ SameCalls(fs, ns, m) /\ \A a \in 1..m : ns[a] = fs[a]
  <2>1. /\ ns \in Seq(Text!Call) /\ Len(ns) = Len(fs) - 1
        /\ SameCalls(fs, ns, Len(ns)) /\ \A a \in 1..Len(ns) : ns[a] = fs[a]
    BY <1>1, CallsPopped
  <2>. QED
    BY <1>3, <2>1
<1>5. m \in Nat /\ Len(fs) = m + 1
  BY <1>1, <1>3
<1>6. t # Len(fs)
  <2>. SUFFICES ASSUME t = Len(fs)
                PROVE  FALSE
    OBVIOUS
  <2>1. fs[1].source = "doc" /\ \A a \in 2..t : fs[a].source = "block"
    BY <1>2 DEF Chain
  <2>2. t = 1 \/ t \in 2..t
    BY <1>2
  <2>. QED
    BY <2>1, <2>2
<1>7. t \in 1..m /\ t <= m /\ t \in Nat /\ t \in 1..t
  BY <1>2, <1>5, <1>6
<1>8. SameCalls(fs, ns, t)
  BY <1>4, <1>5, <1>7 DEF SameCalls
<1>9. Chain(d, ns, t)
  BY <1>1, <1>2, <1>4, <1>5, <1>7, <1>8, ChainStays
<1>10. \A a \in t + 1..Len(ns) : a \in t + 1..Len(fs) /\ ns[a] = fs[a]
  BY <1>4, <1>5, <1>7
<1>11. Outside(ns, t)
  BY <1>2, <1>10 DEF Outside
<1>12. Elsewhere(ns, t, page, ls)
  <2>1. t < Len(fs)
    BY <1>5, <1>7
  <2>. QED
    BY <1>2, <1>10, <2>1 DEF Elsewhere
<1>13. At(ns, t) = At(fs, t)
  BY <1>4, <1>7 DEF At
<1>14. ns # <<>>
  <2>1. \A calls \in Seq(Text!Call) : Len(calls) # 0 => calls # <<>>
    BY EmptySeq
  <2>2. Len(ns) # 0
    BY <1>4, <1>7
  <2>. QED
    BY <1>4, <2>1, <2>2
<1>. QED
  BY <1>2, <1>9, <1>11, <1>12, <1>13, <1>14 DEF PageAt

LEMMA DocEndTurn ==
    ASSUME NEW d, NEW fs, NEW page, NEW ls, Setup(d, fs, page, ls),
           NEW t, PageAt(d, fs, page, ls, t), NEW r, NEW open, InCall(fs, ls, r, open),
           r.para = <<>>,
           NEW f, f = fs[Len(fs)], f.source = "doc", ~(f.i <= Len(f.lines)), r.next = f.i,
           NEW ns, ns = SubSeq(fs, 1, Len(fs) - 1)
    PROVE  /\ ns = <<>> /\ Ordered(page \o r.pieces, <<>>, Len(d) + 1)
           /\ Kept(d, page \o r.pieces, <<>>, Len(d) + 1)
<1>1. /\ fs \in Seq(Text!Call) /\ fs # <<>> /\ Len(fs) \in Nat \ {0}
      /\ Len(f.lines) \in Nat /\ f.i \in 1..Len(f.lines) + 1
  BY SetupIs
<1>2. t \in 1..Len(fs) /\ Chain(d, fs, t) /\ Outside(fs, t)
  BY DEF PageAt, Chain
<1>3. t = Len(fs)
  <2>. SUFFICES ASSUME t # Len(fs)
                PROVE  FALSE
    OBVIOUS
  <2>1. Len(fs) \in t + 1..Len(fs)
    BY <1>1, <1>2
  <2>. QED
    BY <2>1, <1>2 DEF Outside, Stranger
<1>4. t = 1
  <2>1. \A a \in 2..t : fs[a].source = "block"
    BY <1>2 DEF Chain
  <2>2. t = 1 \/ t \in 2..t
    BY <1>2
  <2>. QED
    BY <1>3, <2>1, <2>2
<1>5. ns = <<>>
  <2>1. PICK m : m = Len(fs) - 1
    OBVIOUS
  <2>2. ns \in Seq(Text!Call) /\ Len(ns) = m
    BY <1>1, <2>1, CallsPopped
  <2>3. Len(fs) = 1
    BY <1>3, <1>4
  <2>4. m = 0
    BY <2>1, <2>3
  <2>. QED
    BY <2>2, <2>4, EmptySeq
<1>6. /\ Ordered(page \o r.pieces, r.para, Base(f) + r.next)
      /\ Kept(d, page \o r.pieces, r.para, Base(f) + r.next)
  BY <1>3, OwnPage
<1>7. Base(f) = 0 /\ Len(f.lines) = Len(d)
  <2>1. IsFrame(d, f)
    BY <1>2, <1>3 DEF Chain
  <2>. QED
    BY <2>1 DEF IsFrame, Base
<1>8. Base(f) + r.next = Len(d) + 1
  BY <1>1, <1>7
<1>. QED
  BY <1>5, <1>6, <1>8

-----------------------------------------------------------------------------
(* The conversion.                                                          *)

OnWay(d, fs, page, ls) ==
    IF fs = <<>> THEN Ordered(page, <<>>, Len(d) + 1) /\ Kept(d, page, <<>>, Len(d) + 1)
    ELSE \E t : PageAt(d, fs, page, ls, t)

LEMMA TextIsSetup ==
    ASSUME TextInv, frames # <<>>
    PROVE  Setup(doc, frames, out, para)
<1>1. Text!TypeOK
  BY TextIsTyped
<1>2. para \in Seq(Text!Line)
  BY ParagraphIs
<1>3. DOMAIN frames = 1..Len(frames)
  BY <1>1, TopIsTyped
<1>. QED
  BY <1>1, <1>2, <1>3 DEF Setup, Text!TypeOK

LEMMA NextReads == ASSUME Text!Next PROVE frames # <<>>
<1>1. Text!Next => Text!More \/ Text!AtEnd
  BY DEF Text!Next, Text!Title, Text!Block, Text!Drop, Text!Comment, Text!Code, Text!Introduces,
         Text!BlankLine, Text!Bullet, Text!Definition, Text!Text, Text!Include,
         Text!EndBlock, Text!EndInclude, Text!EndDoc, Text!Plainly
<1>. QED
  BY <1>1 DEF Text!More, Text!AtEnd

LEMMA DoesInCall ==
    ASSUME NEW r, NEW open, Does(r, open)
    PROVE  InCall(frames, para, r, open) /\ out' = out \o r.pieces /\ para' = r.para
  BY DEF Does, InCall, Text!lines, Text!i, Text!Top

LEMMA FlushesInCall ==
    ASSUME NEW r, Flushes(r)
    PROVE  InCall(frames, para, r, FALSE) /\ r.para = <<>> /\ r.next = frames[Len(frames)].i
  BY DEF Flushes, InCall, Text!lines, Text!i, Text!Top

LEMMA IndentedIs ==
    ASSUME NEW page \in Seq(Text!Emitted), TextInv, frames # <<>>,
           NEW new, new = Text!Indented(page)
    PROVE  Reindented(page, new, frames[Len(frames)].start, frames[Len(frames)].indent)
<1>. DEFINE start == frames[Len(frames)].start
            by == frames[Len(frames)].indent
<1>1. by \in Nat
  BY TextIsSetup, SetupIs
<1>2. new = [k \in DOMAIN page |-> IF k > start THEN [page[k] EXCEPT !.pad = <<by>> \o page[k].pad]
                                   ELSE page[k]]
  BY DEF Text!Indented, Text!Top
<1>. HIDE DEF start, by
<1>3. \A p \in Text!Emitted : \A pad \in Seq(Nat) : LET q == [p EXCEPT !.pad = pad]
          IN /\ q \in Text!Emitted /\ q.pad = pad /\ q.form = p.form /\ q.ids = p.ids
             /\ q.cut = p.cut /\ q.width = p.width
  BY DEF Text!Emitted
<1>4. ASSUME NEW k \in DOMAIN page
      PROVE  /\ new[k] \in Text!Emitted
             /\ new[k].form = page[k].form /\ new[k].ids = page[k].ids /\ new[k].cut = page[k].cut
             /\ new[k].width = page[k].width
             /\ new[k].pad = IF k > start THEN <<by>> \o page[k].pad ELSE page[k].pad
  <2>1. PICK p, pad : p = page[k] /\ pad = <<by>> \o p.pad
    OBVIOUS
  <2>2. p \in Text!Emitted
    BY <2>1, ElementOfSeq, LenProperties
  <2>3. p.pad \in Seq(Nat) /\ <<by>> \in Seq(Nat)
    BY <1>1, <2>2 DEF Text!Emitted
  <2>4. pad \in Seq(Nat)
    BY <2>1, <2>3, ConcatProperties
  <2>5. CASE k > start
    <3>1. PICK q : q = [p EXCEPT !.pad = pad]
      OBVIOUS
    <3>2. /\ q \in Text!Emitted /\ q.pad = pad /\ q.form = p.form /\ q.ids = p.ids
          /\ q.cut = p.cut /\ q.width = p.width
      BY <1>3, <2>2, <2>4, <3>1
    <3>3. new[k] = q
      BY <1>2, <2>1, <2>5, <3>1
    <3>. QED
      BY <2>1, <2>5, <3>2, <3>3
  <2>6. CASE ~(k > start)
    <3>1. new[k] = p
      BY <1>2, <2>1, <2>6
    <3>. QED
      BY <2>1, <2>2, <2>6, <3>1
  <2>. QED
    BY <2>5, <2>6
<1>5. DOMAIN new = DOMAIN page
  BY <1>2
<1>6. new \in Seq(Text!Emitted)
  <2>1. PICK n \in Nat : n = Len(page) /\ DOMAIN page = 1..n
    BY LenProperties
  <2>2. DOMAIN new = 1..n /\ \A k \in 1..n : new[k] \in Text!Emitted
    BY <1>4, <1>5, <2>1
  <2>3. new = [k \in 1..n |-> new[k]]
    BY <1>2, <2>1
  <2>4. new \in [1..n -> Text!Emitted]
    BY <2>2, <2>3
  <2>5. \A size \in Nat : \A fn \in [1..size -> Text!Emitted] : fn \in Seq(Text!Emitted)
    OBVIOUS
  <2>. QED
    BY <2>4, <2>5
<1>. QED
  BY <1>4, <1>5, <1>6 DEF Reindented, start, by

LEMMA GoingOn ==
    ASSUME TextInv, frames # <<>>, doc' = doc, NEW t, PageAt(doc, frames, out, para, t), GoesOn
    PROVE  \E u : PageAt(doc', frames', out', para', u)
<1>1. PICK r, open : Does(r, open) /\ Text!Go(r.next) /\ open = FALSE
  BY DEF GoesOn
<1>2. Setup(doc, frames, out, para)
  BY TextIsSetup
<1>3. InCall(frames, para, r, open) /\ out' = out \o r.pieces /\ para' = r.para
  BY <1>1, DoesInCall
<1>4. frames' = [frames EXCEPT ![Len(frames)].i = r.next]
  BY <1>1 DEF Text!Go
<1>5. PICK ns : ns = frames'
  OBVIOUS
<1>6. PageAt(doc, ns, out \o r.pieces, r.para, t)
  BY <1>2, <1>3, <1>4, <1>5, GoesTurn
<1>. QED
  BY <1>3, <1>5, <1>6

LEMMA Entering ==
    ASSUME TextInv, frames # <<>>, doc' = doc, NEW t, PageAt(doc, frames, out, para, t), Nests
    PROVE  (\E u : PageAt(doc', frames', out', para', u)) /\ Len(frames') = Len(frames) + 1
<1>1. PICK r, open, end :
          /\ Does(r, open) /\ para' = <<>> /\ open = TRUE
          /\ BlockBelow(Text!lines, Text!i, r.next, end)
          /\ frames' = Append([frames EXCEPT ![Len(frames)].i = end], Inner(r.next, end))
  BY DEF Nests
<1>2. Setup(doc, frames, out, para)
  BY TextIsSetup
<1>3. InCall(frames, para, r, open) /\ out' = out \o r.pieces /\ para' = r.para
  BY <1>1, DoesInCall
<1>4. PICK f, g, new, ns : /\ f = frames[Len(frames)] /\ g = Inner(r.next, end)
                           /\ new = out' /\ ns = frames'
  OBVIOUS
<1>5. BlockBelow(f.lines, f.i, r.next, end) /\ Text!lines = f.lines
  BY <1>1, <1>4 DEF Text!lines, Text!i, Text!Top
<1>6. IsInner(g, f, r.next, end) /\ g.start = Len(new)
  BY <1>4, <1>5 DEF Inner, IsInner, Cut
<1>7. Pushed(frames, end, g, ns)
  BY <1>1, <1>4 DEF Pushed, Advance
<1>8. f.i <= Len(f.lines)
  <2>1. f.i \in Nat \ {0} /\ Len(f.lines) \in Nat
    BY <1>2, <1>4, SetupIs
  <2>2. r.next \in f.i + 1..Len(f.lines)
    BY <1>5 DEF BlockBelow
  <2>. QED
    BY <2>1, <2>2
<1>9. /\ t < Len(frames) => PageAt(doc, ns, new, <<>>, t)
      /\ t = Len(frames) => PageAt(doc, ns, new, <<>>, t + 1)
      /\ Len(ns) = Len(frames) + 1 /\ t \in 1..Len(frames)
  <2>1. new = out \o r.pieces /\ r.para = <<>>
    BY <1>1, <1>3, <1>4
  <2>2. Enters(doc, frames, out, para, t, r, open, f, end, g, new, ns)
    BY <1>2, <1>3, <1>4, <1>5, <1>6, <1>7, <1>8, <2>1 DEF Enters
  <2>. QED
    BY <2>2, NestTurn
<1>10. t < Len(frames) \/ t = Len(frames)
  BY <1>2, <1>9, SetupIs
<1>. QED
  BY <1>1, <1>4, <1>9, <1>10

LEMMA Incorporating ==
    ASSUME TextInv, frames # <<>>, doc' = doc, NEW t, PageAt(doc, frames, out, para, t), Incorporates
    PROVE  (\E u : PageAt(doc', frames', out', para', u)) /\ Len(frames') = Len(frames) + 1
<1>1. PICK r, f, open :
          /\ Does(r, open) /\ para' = <<>> /\ open = FALSE
          /\ f.source \notin {"doc", "block"} /\ Foreign(f.lines)
          /\ frames' = Append([frames EXCEPT ![Len(frames)].i = r.next], f)
  BY DEF Incorporates
<1>2. Setup(doc, frames, out, para)
  BY TextIsSetup
<1>3. InCall(frames, para, r, open) /\ out' = out \o r.pieces /\ para' = r.para
  BY <1>1, DoesInCall
<1>4. PICK ns : ns = frames'
  OBVIOUS
<1>5. Pushed(frames, r.next, f, ns)
  BY <1>1, <1>4 DEF Pushed, Advance
<1>6. PageAt(doc, ns, out \o r.pieces, <<>>, t) /\ Len(ns) = Len(frames) + 1
  BY <1>1, <1>2, <1>3, <1>5, FileTurn
<1>. QED
  BY <1>1, <1>3, <1>4, <1>6

LEMMA BlockEnding ==
    ASSUME TextInv, frames # <<>>, doc' = doc, NEW t, PageAt(doc, frames, out, para, t), BlockEnds
    PROVE  \E u : PageAt(doc', frames', out', para', u)
<1>1. PICK r : /\ Flushes(r) /\ Text!AtEnd /\ Text!Top.source = "block"
               /\ out' = Text!Indented(out \o r.pieces) /\ para' = <<>> /\ frames' = Text!Popped
  BY DEF BlockEnds
<1>2. Setup(doc, frames, out, para)
  BY TextIsSetup
<1>3. PICK open : open = FALSE
  OBVIOUS
<1>4. InCall(frames, para, r, open) /\ r.para = <<>> /\ r.next = frames[Len(frames)].i
  BY <1>1, <1>3, FlushesInCall
<1>5. PICK f, new, ns, start, by : /\ f = frames[Len(frames)] /\ new = out' /\ ns = frames'
                                   /\ start = f.start /\ by = f.indent
  OBVIOUS
<1>6. f.source = "block" /\ ~(f.i <= Len(f.lines)) /\ r.next = f.i
  <2>1. f.i \in Nat /\ Len(f.lines) \in Nat
    BY <1>2, <1>5, SetupIs
  <2>2. f.i > Len(f.lines) /\ f.source = "block"
    BY <1>1, <1>5 DEF Text!AtEnd, Text!i, Text!lines, Text!Top
  <2>. QED
    BY <1>4, <1>5, <2>1, <2>2
<1>7. Reindented(out \o r.pieces, new, start, by)
  <2>1. out \o r.pieces \in Seq(Text!Emitted)
    <3>1. r.pieces \in Seq(Text!Emitted)
      BY <1>4 DEF InCall, Steps, Reads
    <3>2. out \in Seq(Text!Emitted)
      BY <1>2, SetupIs
    <3>. QED
      BY <3>1, <3>2, Concatenated
  <2>2. PICK page : page = out \o r.pieces
    OBVIOUS
  <2>3. page \in Seq(Text!Emitted) /\ new = Text!Indented(page)
    BY <1>1, <1>5, <2>1, <2>2
  <2>4. Reindented(page, new, frames[Len(frames)].start, frames[Len(frames)].indent)
    BY <2>3, IndentedIs
  <2>. QED
    BY <1>5, <2>2, <2>4
<1>8. ns = SubSeq(frames, 1, Len(frames) - 1)
  BY <1>1, <1>5 DEF Text!Popped
<1>9. \E u : PageAt(doc, ns, new, <<>>, u)
  <2>1. /\ t < Len(frames) => PageAt(doc, ns, new, <<>>, t)
        /\ t = Len(frames) => PageAt(doc, ns, new, <<>>, t - 1)
        /\ t \in 1..Len(frames)
    BY <1>2, <1>4, <1>5, <1>6, <1>7, <1>8, BlockEndTurn
  <2>2. t < Len(frames) \/ t = Len(frames)
    BY <1>2, <2>1, SetupIs
  <2>. QED
    BY <2>1, <2>2
<1>. QED
  BY <1>1, <1>5, <1>9

LEMMA FileEnding ==
    ASSUME TextInv, frames # <<>>, doc' = doc, NEW t, PageAt(doc, frames, out, para, t), FileEnds
    PROVE  (\E u : PageAt(doc', frames', out', para', u)) /\ frames' # <<>>
<1>1. Setup(doc, frames, out, para)
  BY TextIsSetup
<1>2. PICK f, ns : f = frames[Len(frames)] /\ ns = frames'
  OBVIOUS
<1>3. f.source \notin {"doc", "block"}
  BY <1>2 DEF FileEnds, Text!Top
<1>4. ns = SubSeq(frames, 1, Len(frames) - 1) /\ out' = out /\ para' = para
  BY <1>2 DEF FileEnds, Text!Popped
<1>5. PageAt(doc, ns, out, para, t) /\ ns # <<>>
  BY <1>1, <1>2, <1>3, <1>4, FileEndTurn
<1>. QED
  BY <1>2, <1>4, <1>5

LEMMA DocEnding ==
    ASSUME TextInv, frames # <<>>, doc' = doc, NEW t, PageAt(doc, frames, out, para, t), DocEnds
    PROVE  /\ frames' = <<>> /\ Ordered(out', <<>>, Len(doc') + 1)
           /\ Kept(doc', out', <<>>, Len(doc') + 1)
<1>1. PICK r : /\ Flushes(r) /\ Text!AtEnd /\ Text!Top.source = "doc"
               /\ out' = out \o r.pieces /\ para' = <<>> /\ frames' = Text!Popped
  BY DEF DocEnds
<1>2. Setup(doc, frames, out, para)
  BY TextIsSetup
<1>3. PICK open : open = FALSE
  OBVIOUS
<1>4. InCall(frames, para, r, open) /\ r.para = <<>> /\ r.next = frames[Len(frames)].i
  BY <1>1, <1>3, FlushesInCall
<1>5. PICK f, ns : f = frames[Len(frames)] /\ ns = frames'
  OBVIOUS
<1>6. f.source = "doc" /\ ~(f.i <= Len(f.lines)) /\ r.next = f.i
  <2>1. f.i \in Nat /\ Len(f.lines) \in Nat
    BY <1>2, <1>5, SetupIs
  <2>2. f.i > Len(f.lines) /\ f.source = "doc"
    BY <1>1, <1>5 DEF Text!AtEnd, Text!i, Text!lines, Text!Top
  <2>. QED
    BY <1>4, <1>5, <2>1, <2>2
<1>7. ns = SubSeq(frames, 1, Len(frames) - 1)
  BY <1>1, <1>5 DEF Text!Popped
<1>8. /\ ns = <<>> /\ Ordered(out \o r.pieces, <<>>, Len(doc) + 1)
      /\ Kept(doc, out \o r.pieces, <<>>, Len(doc) + 1)
  BY <1>2, <1>4, <1>5, <1>6, <1>7, DocEndTurn
<1>. QED
  BY <1>1, <1>5, <1>8

LEMMA NothingMoved ==
    ASSUME NEW d, NEW fs, NEW page, NEW ls
    PROVE  /\ fs = <<>> => (OnWay(d, fs, page, ls) <=>
                  Ordered(page, <<>>, Len(d) + 1) /\ Kept(d, page, <<>>, Len(d) + 1))
           /\ (\E t : PageAt(d, fs, page, ls, t)) => OnWay(d, fs, page, ls)
           /\ fs # <<>> /\ OnWay(d, fs, page, ls) => \E t : PageAt(d, fs, page, ls, t)
<1>1. ASSUME NEW t, PageAt(d, fs, page, ls, t)
      PROVE  fs # <<>>
  <2>1. t \in 1..Len(fs)
    BY <1>1 DEF PageAt, Chain
  <2>. QED
    BY <2>1, EmptySeq
<1>. QED
  BY <1>1 DEF OnWay

LEMMA WayGoesOn ==
    ASSUME TextInv, OnWay(doc, frames, out, para), Text!Next
    PROVE  OnWay(doc', frames', out', para')
<1>1. frames # <<>>
  BY NextReads
<1>2. PICK t : PageAt(doc, frames, out, para, t)
  BY <1>1, NothingMoved
<1>3. doc' = doc /\ (GoesOn \/ Nests \/ Incorporates \/ BlockEnds \/ DocEnds \/ FileEnds)
  BY EveryStep
<1>4. CASE DocEnds
  BY <1>1, <1>2, <1>3, <1>4, DocEnding, NothingMoved
<1>5. CASE ~DocEnds
  <2>1. \E u : PageAt(doc', frames', out', para', u)
    BY <1>1, <1>2, <1>3, <1>5, GoingOn, Entering, Incorporating, BlockEnding, FileEnding
  <2>. QED
    BY <2>1, NothingMoved
<1>. QED
  BY <1>4, <1>5

LEMMA BlankPage ==
    ASSUME NEW d
    PROVE  Ordered(<<>>, <<>>, 1) /\ Kept(d, <<>>, <<>>, 1)
<1>1. DOMAIN <<>> = {} /\ LineIds(<<>>) = <<>>
  BY EmptyIds
<1>2. Ordered(<<>>, <<>>, 1)
  BY <1>1 DEF Ordered, Rising, Within
<1>3. 1..1 - 1 = {}
  OBVIOUS
<1>4. Kept(d, <<>>, <<>>, 1)
  BY <1>3 DEF Kept
<1>. QED
  BY <1>2, <1>4

LEMMA DocIsFrame ==
    ASSUME NEW d \in Texts, NEW f, f.source = "doc", f.lines = d
    PROVE  IsFrame(d, f)
<1>1. d \in Seq(Text!Line) /\ Len(d) \in Nat /\ DOMAIN d = 1..Len(d)
  BY LinesAssumption, LenProperties
<1>2. ASSUME NEW n \in 1..Len(d)
      PROVE  IsLine(d, d[n], 0 + n, 0)
  <2>1. d[n].id = <<"doc", n>> /\ d[n].cut = 0
    BY <1>1, NumbersAssumption
  <2>2. PICK l : l = d[n]
    OBVIOUS
  <2>3. l \in Text!Line /\ 0 + n = n
    BY <1>1, <2>2, ElementOfSeq
  <2>4. l.indent \in Nat
    BY <2>3 DEF Text!Line
  <2>5. l.indent >= 0 /\ l.indent = l.indent - 0
    BY <2>4
  <2>6. IsWhole(l, l, 0)
    BY <2>1, <2>2, <2>5 DEF IsWhole
  <2>. QED
    BY <2>1, <2>2, <2>3, <2>6 DEF IsLine
<1>3. IsBlock(d, d, 0, 0)
  <2>1. 0 + Len(d) + 1..Len(d) = {} /\ 0 + Len(d) <= Len(d)
    BY <1>1
  <2>2. Outdented(d, 0 + Len(d) + 1, 0)
    BY <2>1 DEF Outdented
  <2>. QED
    BY <1>2, <2>1, <2>2 DEF IsBlock
<1>4. Base(f) = 0 /\ Shift(d, f) = 0
  BY DEF Base, Shift
<1>. QED
  BY <1>3, <1>4 DEF IsFrame

LEMMA WayBegins ==
    ASSUME Text!Init \/ Converted
    PROVE  OnWay(doc, frames, out, para)
<1>1. CASE Text!Init
  <2>1. PICK f : f = Text!Frame(doc, "doc", 0, PageWidth)
    OBVIOUS
  <2>2. doc \in Texts /\ frames = <<f>> /\ out = <<>> /\ para = <<>>
    BY <1>1, <2>1 DEF Text!Init
  <2>3. f.lines = doc /\ f.source = "doc" /\ f.i = 1
    BY <2>1 DEF Text!Frame
  <2>4. PICK fs : fs = frames
    OBVIOUS
  <2>5. Len(fs) = 1 /\ fs[1] = f
    BY <2>2, <2>4
  <2>6. IsFrame(doc, f)
    BY <2>2, <2>3, DocIsFrame
  <2>7. Chain(doc, fs, 1)
    <3>1. 2..1 = {} /\ 1..1 - 1 = {} /\ 1..1 = {1} /\ 1 \in 1..1 /\ ~(1 < 1)
      OBVIOUS
    <3>. QED
      BY <2>3, <2>5, <2>6, <3>1 DEF Chain
  <2>8. At(fs, 1) = 1
    BY <2>3, <2>5 DEF At, Base
  <2>9. Outside(fs, 1) /\ Elsewhere(fs, 1, out, para)
    <3>1. 1 + 1..Len(fs) = {} /\ ~(1 < Len(fs))
      BY <2>5
    <3>. QED
      BY <3>1 DEF Outside, Elsewhere
  <2>10. Ordered(out, para, 1) /\ Kept(doc, out, para, 1)
    BY <2>2, BlankPage
  <2>11. PageAt(doc, fs, out, para, 1)
    BY <2>7, <2>8, <2>9, <2>10 DEF PageAt
  <2>. QED
    BY <2>4, <2>11, NothingMoved
<1>2. CASE Converted
  <2>1. doc = <<>> /\ frames = <<>> /\ out = <<>>
    BY <1>2 DEF Converted
  <2>2. Len(<<>>) + 1 = 1
    OBVIOUS
  <2>3. Ordered(out, <<>>, Len(doc) + 1) /\ Kept(doc, out, <<>>, Len(doc) + 1)
    BY <2>1, <2>2, BlankPage
  <2>. QED
    BY <2>1, <2>3, NothingMoved
<1>. QED
  BY <1>1, <1>2

LEMMA WayKeepsOrder ==
    ASSUME NEW p, Ordered(out, <<>>, p), DOMAIN out = 1..Len(out), Len(out) \in Nat
    PROVE  Text!InOrder
<1>. SUFFICES ASSUME NEW j \in DOMAIN out, NEW k \in DOMAIN out,
                     NEW m \in DOMAIN out[j].ids, NEW n \in DOMAIN out[k].ids,
                     Text!Earlier(j, m, k, n), Text!OfDoc(out[j].ids[m]), Text!OfDoc(out[k].ids[n])
              PROVE  out[j].ids[m][2] < out[k].ids[n][2]
  BY DEF Text!InOrder
<1>1. PICK a, b : a = out[j].ids /\ b = out[k].ids
  OBVIOUS
<1>2. OfText(a[m]) /\ OfText(b[n])
  BY <1>1 DEF OfText, Text!OfDoc
<1>3. CASE j < k
  <2>1. j \in 1..k - 1
    BY <1>3
  <2>2. Before(a, b)
    BY <1>1, <2>1 DEF Ordered
  <2>. QED
    BY <1>1, <1>2, <2>2 DEF Before
<1>4. CASE j = k /\ m < n
  <2>1. Rising(a) /\ a = b
    BY <1>1, <1>4 DEF Ordered
  <2>. QED
    BY <1>1, <1>2, <1>4, <2>1 DEF Rising
<1>. QED
  BY <1>3, <1>4 DEF Text!Earlier

LEMMA ShownIsOnPage ==
    ASSUME NEW m
    PROVE  Shown(out, <<>>, m) <=> Text!OnPage(m)
<1>1. DOMAIN LineIds(<<>>) = {}
  BY EmptyIds
<1>2. ~Has(LineIds(<<>>), m)
  BY <1>1 DEF Has
<1>. QED
  BY <1>2 DEF Shown, Has, Text!OnPage, Text!Shows

LEMMA NothingIsLost ==
    ASSUME TextInv, OnWay(doc, frames, out, para)
    PROVE  Text!NothingLost
<1>. SUFFICES ASSUME frames = <<>>
              PROVE  /\ Text!InOrder
                     /\ Text!Even(doc) => \A k \in DOMAIN doc : Text!Prose(doc[k]) =>
                            (Text!OnPage(k) <=> Text!Over(k) \cap Text!Dropped = {})
  BY DEF Text!NothingLost, Text!Converted
<1>1. Text!TypeOK
  BY TextIsTyped
<1>2. /\ doc \in Seq(Text!Line) /\ out \in Seq(Text!Emitted)
      /\ Len(doc) \in Nat /\ DOMAIN doc = 1..Len(doc) /\ DOMAIN out = 1..Len(out) /\ Len(out) \in Nat
  BY <1>1, LenProperties DEF Text!TypeOK
<1>3. Ordered(out, <<>>, Len(doc) + 1) /\ Kept(doc, out, <<>>, Len(doc) + 1)
  BY NothingMoved
<1>4. Text!InOrder
  BY <1>2, <1>3, WayKeepsOrder
<1>5. ASSUME Text!Even(doc), NEW k \in DOMAIN doc, Text!Prose(doc[k])
      PROVE  Text!OnPage(k) <=> Text!Over(k) \cap Text!Dropped = {}
  <2>1. k \in 1..Len(doc) + 1 - 1 /\ k \in Nat
    BY <1>2
  <2>2. Shown(out, <<>>, k) <=> \A h \in 1..k - 1 : Drops(doc, out, <<>>, h) => ~Under(doc, h, k)
    BY <1>3, <1>5, <2>1 DEF Kept
  <2>3. ASSUME NEW h \in 1..k - 1
        PROVE  Under(doc, h, k) <=> h \in Text!Over(k)
    BY <2>1, <2>3 DEF Under, Text!Over
  <2>4. ASSUME NEW h \in 1..k - 1
        PROVE  Drops(doc, out, <<>>, h) <=> h \in Text!Dropped
    <3>1. h \in DOMAIN doc
      BY <1>2, <2>1
    <3>2. Shown(out, <<>>, h) <=> Text!OnPage(h)
      BY ShownIsOnPage
    <3>. QED
      BY <3>1, <3>2 DEF Drops, Text!Dropped
  <2>5. Text!Over(k) \subseteq 1..k - 1
    BY DEF Text!Over
  <2>6. Shown(out, <<>>, k) <=> Text!OnPage(k)
    BY ShownIsOnPage
  <2>. QED
    BY <2>2, <2>3, <2>4, <2>5, <2>6
<1>. QED
  BY <1>4, <1>5

(* When a document is converted, whatever its indentation, what is on the page
   of it is in its order and not there twice; and if it is evenly indented, a
   line of prose is on the page unless it is under a directive or comment that
   was dropped, whatever blocks it is in and whatever files are read in between
   (rst.go's parseLines, extractBlock, skipIndented and flush).  In an uneven
   block a line of no more characters than are cut is lost. *)
THEOREM NothingIsEverLost == IngestSpec => []Text!NothingLost
<1>. DEFINE Inv == TextInv /\ OnWay(doc, frames, out, para)
<1>1. IngestInit => Inv
  BY TextBegins, WayBegins DEF IngestInit
<1>2. Inv /\ [IngestNext]_<<vars, rstVars>> => Inv'
  <2>. SUFFICES ASSUME TextInv, OnWay(doc, frames, out, para), [IngestNext]_<<vars, rstVars>>
                PROVE  TextInv' /\ OnWay(doc', frames', out', para')
    OBVIOUS
  <2>1. Text!Next \/ UNCHANGED rstVars
    BY DEF IngestNext
  <2>2. TextInv'
    BY <2>1, TextGoesOn
  <2>3. CASE Text!Next
    BY <2>2, <2>3, WayGoesOn
  <2>4. CASE UNCHANGED rstVars
    <3>1. doc' = doc /\ frames' = frames /\ out' = out /\ para' = para
      BY <2>4 DEF rstVars
    <3>. QED
      BY <2>2, <3>1
  <2>. QED
    BY <2>1, <2>3, <2>4
<1>3. Inv => Text!NothingLost
  BY NothingIsLost
<1>. HIDE DEF Inv
<1>. QED
  BY <1>1, <1>2, <1>3, PTL DEF IngestSpec

-----------------------------------------------------------------------------
(* How a piece is indented in the end.                                      *)

SumsTo(pad, m, sum) ==
    /\ sum \in [0..m -> Nat] /\ sum[0] = 0
    /\ \A n \in 1..m : sum[n] = sum[n - 1] + pad[n]

LEMMA SumsExist ==
    ASSUME NEW pad \in Seq(Nat), NEW m \in 0..Len(pad)
    PROVE  \E sum : SumsTo(pad, m, sum)
<1>. DEFINE Bad == {n \in 0..Len(pad) : ~\E sum : SumsTo(pad, n, sum)}
<1>1. Len(pad) \in Nat /\ DOMAIN pad = 1..Len(pad) /\ \A n \in 1..Len(pad) : pad[n] \in Nat
  BY LenProperties, ElementOfSeq
<1>. SUFFICES ASSUME Bad # {}
              PROVE  FALSE
  OBVIOUS
<1>2. PICK n \in Bad : \A k \in Bad : n <= k
  <2>1. Bad \in SUBSET Nat
    BY <1>1
  <2>. QED
    BY <2>1, LeastExists
<1>3. n \in 0..Len(pad) /\ n \in Nat /\ ~\E sum : SumsTo(pad, n, sum)
  BY <1>1
<1>4. n # 0
  <2>1. SumsTo(pad, 0, [k \in 0..0 |-> 0])
    BY DEF SumsTo
  <2>. QED
    BY <1>3, <2>1
<1>5. PICK sum : SumsTo(pad, n - 1, sum)
  <2>1. n - 1 \in 0..Len(pad) /\ ~(n <= n - 1)
    BY <1>1, <1>3, <1>4
  <2>. QED
    BY <1>2, <2>1
<1>6. PICK more : more = [k \in 0..n |-> IF k = n THEN sum[n - 1] + pad[n] ELSE sum[k]]
  OBVIOUS
<1>7. /\ n - 1 \in Nat /\ n - 1 \in 0..n - 1 /\ n \in 1..Len(pad) /\ 0 \in 0..n - 1 /\ 0 \in 0..n
      /\ n \in 0..n /\ n - 1 \in 0..n
      /\ \A k \in 0..n : k = n \/ k \in 0..n - 1
      /\ \A k \in 1..n : k = n \/ (k \in 1..n - 1 /\ k - 1 \in 0..n /\ k - 1 # n /\ k \in 0..n)
  BY <1>1, <1>3, <1>4
<1>8. /\ \A k \in 0..n - 1 : sum[k] \in Nat
      /\ sum[0] = 0 /\ \A k \in 1..n - 1 : sum[k] = sum[k - 1] + pad[k]
  BY <1>5 DEF SumsTo
<1>9. sum[n - 1] + pad[n] \in Nat
  BY <1>1, <1>7, <1>8
<1>10. more \in [0..n -> Nat]
  BY <1>6, <1>7, <1>8, <1>9
<1>11. more[0] = 0
  BY <1>4, <1>6, <1>7, <1>8
<1>12. ASSUME NEW k \in 1..n
       PROVE  more[k] = more[k - 1] + pad[k]
  <2>1. CASE k = n
    <3>1. more[n] = sum[n - 1] + pad[n] /\ more[n - 1] = sum[n - 1]
      BY <1>3, <1>6, <1>7
    <3>. QED
      BY <2>1, <3>1
  <2>2. CASE k # n
    <3>1. k \in 1..n - 1 /\ k - 1 \in 0..n /\ k - 1 # n /\ k \in 0..n
      BY <1>7, <2>2
    <3>2. more[k] = sum[k] /\ more[k - 1] = sum[k - 1]
      BY <1>6, <2>2, <3>1
    <3>. QED
      BY <1>8, <3>1, <3>2
  <2>. QED
    BY <2>1, <2>2
<1>13. SumsTo(pad, n, more)
  BY <1>10, <1>11, <1>12 DEF SumsTo
<1>. QED
  BY <1>3, <1>13

LEMMA SumIs ==
    ASSUME NEW pad \in Seq(Nat)
    PROVE  \E sum : SumsTo(pad, Len(pad), sum) /\ Text!Sum(pad) = sum[Len(pad)]
<1>1. PICK m : m = Len(pad)
  OBVIOUS
<1>2. m \in Nat /\ m \in 0..m
  BY <1>1, LenProperties
<1>. DEFINE Is(sum) == sum = [n \in 0..m |-> IF n = 0 THEN 0 ELSE sum[n - 1] + pad[n]]
<1>3. PICK some : SumsTo(pad, m, some)
  BY <1>1, <1>2, SumsExist
<1>4. Is(some)
  <2>1. some \in [0..m -> Nat] /\ some[0] = 0 /\ \A n \in 1..m : some[n] = some[n - 1] + pad[n]
    BY <1>3 DEF SumsTo
  <2>2. \A n \in 0..m : n = 0 \/ n \in 1..m
    BY <1>2
  <2>3. \A n \in 0..m : some[n] = IF n = 0 THEN 0 ELSE some[n - 1] + pad[n]
    BY <2>1, <2>2
  <2>4. some = [n \in 0..m |-> some[n]]
    BY <2>1
  <2>. QED
    BY <2>3, <2>4
<1>5. PICK sum : sum = CHOOSE f : Is(f)
  OBVIOUS
<1>6. Is(sum)
  BY <1>4, <1>5
<1>7. Text!Sum(pad) = sum[m]
  BY <1>1, <1>5 DEF Text!Sum
<1>8. /\ DOMAIN sum = 0..m /\ sum[0] = 0
      /\ \A n \in 1..m : sum[n] = sum[n - 1] + pad[n]
  <2>1. \A n \in 1..m : n # 0 /\ n \in 0..m
    BY <1>2
  <2>2. 0 \in 0..m
    BY <1>2
  <2>3. PICK fn : fn = [n \in 0..m |-> IF n = 0 THEN 0 ELSE sum[n - 1] + pad[n]]
    OBVIOUS
  <2>4. fn = sum
    BY <1>6, <2>3
  <2>5. DOMAIN fn = 0..m /\ fn[0] = 0 /\ \A n \in 1..m : fn[n] = sum[n - 1] + pad[n]
    BY <2>1, <2>2, <2>3
  <2>. QED
    BY <2>4, <2>5
<1>9. \A n \in 0..m : sum[n] = some[n]
  <2>. DEFINE Bad == {n \in 0..m : sum[n] # some[n]}
  <2>. SUFFICES ASSUME Bad # {}
                PROVE  FALSE
    OBVIOUS
  <2>1. PICK n \in Bad : \A k \in Bad : n <= k
    <3>1. Bad \in SUBSET Nat
      BY <1>2
    <3>. QED
      BY <3>1, LeastExists
  <2>2. n \in 0..m /\ sum[n] # some[n]
    OBVIOUS
  <2>3. n # 0
    BY <1>3, <1>8, <2>2 DEF SumsTo
  <2>4. n \in 1..m /\ n - 1 \in 0..m /\ ~(n <= n - 1)
    BY <1>2, <2>2, <2>3
  <2>5. sum[n - 1] = some[n - 1]
    BY <2>1, <2>4
  <2>. QED
    BY <1>3, <1>8, <2>2, <2>4, <2>5 DEF SumsTo
<1>. QED
  BY <1>1, <1>2, <1>3, <1>7, <1>9

LEMMA SumOfNone == Text!Sum(<<>>) = 0
<1>1. <<>> \in Seq(Nat) /\ Len(<<>>) = 0
  OBVIOUS
<1>2. PICK sum : SumsTo(<<>>, 0, sum) /\ Text!Sum(<<>>) = sum[0]
  BY <1>1, SumIs
<1>. QED
  BY <1>2 DEF SumsTo

LEMMA SumOfMore ==
    ASSUME NEW pad \in Seq(Nat), NEW by \in Nat, NEW wide, wide = <<by>> \o pad
    PROVE  /\ wide \in Seq(Nat) /\ Text!Sum(pad) \in Nat
           /\ Text!Sum(wide) = by + Text!Sum(pad)
<1>1. PICK m : m = Len(pad)
  OBVIOUS
<1>2. m \in Nat /\ m \in 0..m
  BY <1>1, LenProperties
<1>3. <<by>> \in Seq(Nat) /\ Len(<<by>>) = 1 /\ <<by>>[1] = by
  OBVIOUS
<1>4. /\ wide \in Seq(Nat) /\ Len(wide) = m + 1
      /\ wide[1] = by /\ \A n \in 1..m : wide[n + 1] = pad[n]
  <2>1. PICK one : one = <<by>>
    OBVIOUS
  <2>2. one \in Seq(Nat) /\ Len(one) = 1 /\ one[1] = by
    BY <1>3, <2>1
  <2>3. /\ wide \in Seq(Nat) /\ Len(wide) = Len(one) + Len(pad)
        /\ \A n \in 1..Len(one) + Len(pad) :
               wide[n] = IF n <= Len(one) THEN one[n] ELSE pad[n - Len(one)]
    BY <2>1, <2>2, ConcatProperties
  <2>4. Len(wide) = m + 1
    BY <1>1, <1>2, <2>2, <2>3
  <2>5. wide[1] = by
    BY <1>1, <1>2, <2>2, <2>3
  <2>6. ASSUME NEW n \in 1..m
        PROVE  wide[n + 1] = pad[n]
    <3>1. PICK k : k = n + 1
      OBVIOUS
    <3>2. k \in 1..1 + m /\ ~(k <= 1) /\ k - 1 = n
      BY <1>2, <3>1
    <3>3. wide[k] = pad[k - 1]
      BY <1>1, <2>2, <2>3, <3>2
    <3>. QED
      BY <3>1, <3>2, <3>3
  <2>. QED
    BY <2>3, <2>4, <2>5, <2>6
<1>5. PICK sum : SumsTo(pad, m, sum) /\ Text!Sum(pad) = sum[m]
  BY <1>1, SumIs
<1>6. PICK all : SumsTo(wide, m + 1, all) /\ Text!Sum(wide) = all[m + 1]
  BY <1>4, SumIs
<1>7. /\ sum \in [0..m -> Nat] /\ sum[0] = 0 /\ \A n \in 1..m : sum[n] = sum[n - 1] + pad[n]
      /\ all[0] = 0 /\ \A n \in 1..m + 1 : all[n] = all[n - 1] + wide[n]
  BY <1>5, <1>6 DEF SumsTo
<1>8. \A n \in 0..m : all[n + 1] = by + sum[n]
  <2>. DEFINE Bad == {n \in 0..m : all[n + 1] # by + sum[n]}
  <2>. SUFFICES ASSUME Bad # {}
                PROVE  FALSE
    OBVIOUS
  <2>1. PICK n \in Bad : \A k \in Bad : n <= k
    <3>1. Bad \in SUBSET Nat
      BY <1>2
    <3>. QED
      BY <3>1, LeastExists
  <2>2. n \in 0..m /\ all[n + 1] # by + sum[n] /\ n \in Nat
    BY <1>2
  <2>3. n # 0
    <3>1. 1 \in 1..m + 1 /\ 1 - 1 = 0 /\ 0 + 1 = 1
      BY <1>2
    <3>2. all[1] = 0 + by
      BY <1>4, <1>7, <3>1
    <3>3. all[1] = by + 0
      BY <3>2
    <3>. QED
      BY <1>7, <2>2, <3>3
  <2>4. n \in 1..m /\ n - 1 \in 0..m /\ ~(n <= n - 1) /\ n + 1 \in 1..m + 1
        /\ (n + 1) - 1 = n /\ (n - 1) + 1 = n
    BY <1>2, <2>2, <2>3
  <2>5. all[n] = by + sum[n - 1]
    BY <2>1, <2>4
  <2>6. all[n + 1] = all[n] + pad[n]
    BY <1>4, <1>7, <2>4
  <2>7. sum[n] = sum[n - 1] + pad[n] /\ sum[n - 1] \in Nat /\ pad[n] \in Nat
    BY <1>1, <1>7, <2>4, ElementOfSeq
  <2>8. PICK a, b : a = sum[n - 1] /\ b = pad[n]
    OBVIOUS
  <2>9. all[n + 1] = (by + a) + b /\ sum[n] = a + b /\ a \in Nat /\ b \in Nat
    BY <2>5, <2>6, <2>7, <2>8
  <2>10. (by + a) + b = by + (a + b)
    BY <2>9
  <2>. QED
    BY <2>2, <2>9, <2>10
<1>. QED
  BY <1>2, <1>4, <1>5, <1>6, <1>7, <1>8

-----------------------------------------------------------------------------
(* How wide it is wrapped: what a piece and the calls it is in still have to *)
(* indent it by leaves it the room it was wrapped for.                       *)

Fits(sum, width) == sum + width <= PageWidth \/ width <= LeastWidth + 6
Wrapped == {"para", "item", "term"}

(* What the calls indent by together, and that each of them has room. *)
Margins(fs, mg) ==
    /\ mg[0] = 0 /\ \A f \in 0..Len(fs) : mg[f] \in Nat
    /\ \A f \in 1..Len(fs) : mg[f] = mg[f - 1] + fs[f].indent /\ Fits(mg[f], fs[f].width)

(* A piece was emitted in call g, and the calls in it leave it alone. *)
Given(fs, k, g) ==
    /\ g \in 0..Len(fs)
    /\ \A f \in g + 1..Len(fs) : fs[f].source = "block" => ~(fs[f].start < k)
Fitted(fs, mg, piece, k) ==
    \E g : Given(fs, k, g) /\ Fits(Text!Sum(piece.pad) + mg[g], piece.width)
Fitting(fs, page) ==
    \E mg : /\ Margins(fs, mg)
            /\ \A k \in 1..Len(page) : page[k].form \in Wrapped => Fitted(fs, mg, page[k], k)

LEMMA FitsLess ==
    ASSUME NEW a \in Nat, NEW b \in Nat, b <= a, NEW width \in Int, Fits(a, width)
    PROVE  Fits(b, width)
  BY DepthsAssumption DEF Fits

LEMMA MarginsStay ==
    ASSUME NEW fs, NEW ns, NEW n, SameCalls(fs, ns, n), Len(ns) = n, Len(fs) \in Nat,
           NEW mg, Margins(fs, mg)
    PROVE  Margins(ns, mg)
<1>1. /\ n \in Nat /\ n <= Len(fs)
      /\ \A f \in 1..n : ns[f].indent = fs[f].indent /\ ns[f].width = fs[f].width
  BY DEF SameCalls, Alike
<1>2. (\A f \in 0..n : f \in 0..Len(fs)) /\ \A f \in 1..n : f \in 1..Len(fs)
  BY <1>1
<1>. QED
  BY <1>1, <1>2 DEF Margins

Narrows(f, g) ==
    /\ g.indent \in 0..6
    /\ g.width = IF f.width - g.indent > LeastWidth THEN f.width - g.indent ELSE f.width

LEMMA NarrowFits ==
    ASSUME NEW a \in Nat, NEW by \in 0..6, NEW width \in Int, Fits(a, width),
           NEW w, w = IF width - by > LeastWidth THEN width - by ELSE width
    PROVE  Fits(a + by, w)
  BY DepthsAssumption DEF Fits

LEMMA MarginsGrow ==
    ASSUME NEW fs, NEW next, NEW g, NEW ns, Deeper(fs, next, g, ns),
           NEW mg, Margins(fs, mg), Narrows(fs[Len(fs)], g), fs[Len(fs)].width \in Int
    PROVE  \E more : Margins(ns, more) /\ \A f \in 0..Len(fs) : more[f] = mg[f]
<1>1. PICK n : n = Len(fs)
  OBVIOUS
<1>2. /\ n \in Nat \ {0} /\ Len(ns) = n + 1 /\ ns[n + 1] = g
      /\ \A f \in 1..n : ns[f].indent = fs[f].indent /\ ns[f].width = fs[f].width
  BY <1>1 DEF Deeper, SameCalls, Alike
<1>3. PICK more : more = [f \in 0..n + 1 |-> IF f = n + 1 THEN mg[n] + g.indent ELSE mg[f]]
  OBVIOUS
<1>4. /\ \A f \in 0..n : f \in 0..n + 1 /\ f # n + 1
      /\ \A f \in 1..n : f \in 0..n /\ f - 1 \in 0..n
      /\ 0 \in 0..n /\ n \in 0..n /\ n \in 1..n /\ n + 1 \in 0..n + 1 /\ n + 1 - 1 = n
      /\ \A f \in 0..n + 1 : f = n + 1 \/ f \in 0..n
      /\ \A f \in 1..n + 1 : f = n + 1 \/ f \in 1..n
  BY <1>2
<1>5. more[n + 1] = mg[n] + g.indent /\ \A f \in 0..n : more[f] = mg[f]
  BY <1>3, <1>4
<1>6. /\ mg[0] = 0 /\ \A f \in 0..n : mg[f] \in Nat
      /\ \A f \in 1..n : mg[f] = mg[f - 1] + fs[f].indent /\ Fits(mg[f], fs[f].width)
  BY <1>1 DEF Margins
<1>7. Fits(more[n + 1], g.width) /\ more[n + 1] \in Nat
  <2>1. PICK a, by, width, w : a = mg[n] /\ by = g.indent /\ width = fs[n].width /\ w = g.width
    OBVIOUS
  <2>2. a \in Nat /\ by \in 0..6 /\ width \in Int /\ Fits(a, width)
        /\ w = IF width - by > LeastWidth THEN width - by ELSE width
    BY <1>1, <1>4, <1>6, <2>1 DEF Narrows
  <2>3. Fits(a + by, w)
    BY <2>2, NarrowFits
  <2>4. a + by \in Nat
    BY <2>2
  <2>. QED
    BY <1>5, <2>1, <2>3, <2>4
<1>8. \A f \in 1..n + 1 : more[f] = more[f - 1] + ns[f].indent /\ Fits(more[f], ns[f].width)
  <2>. SUFFICES ASSUME NEW f \in 1..n + 1
                PROVE  more[f] = more[f - 1] + ns[f].indent /\ Fits(more[f], ns[f].width)
    OBVIOUS
  <2>1. CASE f = n + 1
    BY <1>2, <1>4, <1>5, <1>7, <2>1
  <2>2. CASE f \in 1..n
    <3>1. more[f] = mg[f] /\ more[f - 1] = mg[f - 1]
      BY <1>4, <1>5, <2>2
    <3>2. mg[f] = mg[f - 1] + fs[f].indent /\ Fits(mg[f], fs[f].width)
      BY <1>6, <2>2
    <3>3. ns[f].indent = fs[f].indent /\ ns[f].width = fs[f].width
      BY <1>2, <2>2
    <3>. QED
      BY <3>1, <3>2, <3>3
  <2>. QED
    BY <1>4, <2>1, <2>2
<1>9. \A f \in 0..n + 1 : more[f] \in Nat
  BY <1>4, <1>5, <1>6, <1>7
<1>10. more[0] = 0
  BY <1>4, <1>5, <1>6
<1>11. Margins(ns, more)
  BY <1>2, <1>8, <1>9, <1>10 DEF Margins
<1>. QED
  BY <1>1, <1>5, <1>11

LEMMA WidthsAre ==
    ASSUME NEW d, NEW fs, NEW page, NEW ls, Setup(d, fs, page, ls)
    PROVE  /\ \A f \in 1..Len(fs) : fs[f].width \in Int
           /\ \A k \in 1..Len(page) : page[k].pad \in Seq(Nat) /\ page[k].width \in Int
<1>1. /\ \A f \in 1..Len(fs) : fs[f] \in Text!Call
      /\ \A k \in 1..Len(page) : page[k] \in Text!Emitted
  BY ElementOfSeq DEF Setup
<1>. QED
  BY <1>1 DEF Text!Call, Text!Emitted

(* What a step gives is not indented yet. *)
LEMMA PiecesAreBare ==
    ASSUME NEW fs, NEW ls, NEW r, NEW open, InCall(fs, ls, r, open),
           NEW k \in 1..Len(r.pieces), r.pieces[k].form \in Wrapped
    PROVE  r.pieces[k].pad = <<>> /\ r.pieces[k].width = fs[Len(fs)].width
<1>1. PICK f : f = fs[Len(fs)]
  OBVIOUS
<1>2. Reads(ls, f.lines, f.i, r) /\ Wide(r, f.width)
  BY <1>1 DEF InCall, Steps
<1>3. r.head \in {0, 1} /\ Len(r.pieces) \in Nat
  BY <1>2, LenProperties DEF Reads
<1>4. CASE k \in Rest(r)
  <2>1. r.pieces[k].form # "para"
    BY <1>2, <1>4 DEF Reads
  <2>2. r.pieces[k].form \in {"item", "term"}
    BY <2>1 DEF Wrapped
  <2>3. r.pieces[k].pad = <<>>
    BY <1>2, <1>4, <2>2 DEF Reads
  <2>. QED
    BY <1>1, <1>2, <2>3 DEF Wide
<1>5. CASE k \notin Rest(r)
  <2>1. k = 1 /\ r.head = 1
    BY <1>3, <1>5 DEF Rest
  <2>2. r.pieces[k].pad = <<>>
    BY <1>2, <2>1 DEF Reads, IsParagraph
  <2>. QED
    BY <1>1, <1>2, <2>2 DEF Wide
<1>. QED
  BY <1>4, <1>5

(* The calls before a step are there after it, and a block that it begins
   leaves alone what is on the page by then. *)
Onward(fs, ns, page, size) ==
    /\ SameCalls(fs, ns, Len(fs)) /\ Len(fs) \in Nat \ {0} /\ Len(ns) \in Nat
    /\ \A f \in 1..Len(ns) : f > Len(fs) /\ ns[f].source = "block" => ns[f].start >= size

LEMMA GivenOnward ==
    ASSUME NEW fs, NEW ns, NEW page, NEW size \in Nat, Onward(fs, ns, page, size),
           NEW k \in Nat, k <= size, NEW g, Given(fs, k, g),
           \A f \in 1..Len(ns) : ns[f].start \in Nat
    PROVE  Given(ns, k, g)
<1>1. PICK n : n = Len(fs)
  OBVIOUS
<1>2. /\ n \in Nat \ {0} /\ n <= Len(ns) /\ Len(ns) \in Nat
      /\ \A f \in 1..n : ns[f].source = fs[f].source /\ ns[f].start = fs[f].start
  BY <1>1 DEF Onward, SameCalls, Alike
<1>3. g \in 0..n /\ \A f \in g + 1..n : fs[f].source = "block" => ~(fs[f].start < k)
  BY <1>1 DEF Given
<1>4. ASSUME NEW f \in g + 1..Len(ns), ns[f].source = "block"
      PROVE  ~(ns[f].start < k)
  <2>1. f \in 1..Len(ns)
    BY <1>2, <1>3
  <2>2. CASE f > n
    <3>1. ns[f].start >= size /\ ns[f].start \in Nat
      BY <1>1, <1>4, <2>1, <2>2 DEF Onward
    <3>2. PICK start : start = ns[f].start
      OBVIOUS
    <3>3. start \in Nat /\ start >= size
      BY <3>1, <3>2
    <3>. QED
      BY <3>2, <3>3
  <2>3. CASE ~(f > n)
    <3>1. f \in 1..n /\ f \in g + 1..n
      BY <1>2, <1>3, <2>3
    <3>. QED
      BY <1>2, <1>3, <1>4, <3>1
  <2>. QED
    BY <2>2, <2>3
<1>5. g \in 0..Len(ns)
  BY <1>2, <1>3
<1>. QED
  BY <1>4, <1>5 DEF Given

WidthStep(d, fs, page, ls, r, open, ns, mg, more) ==
    /\ Setup(d, fs, page, ls) /\ InCall(fs, ls, r, open)
    /\ Onward(fs, ns, page, Len(page) + Len(r.pieces))
    /\ \A f \in 1..Len(ns) : ns[f].start \in Nat
    /\ Margins(fs, mg) /\ Margins(ns, more) /\ \A f \in 0..Len(fs) : more[f] = mg[f]
    /\ \A k \in 1..Len(page) : page[k].form \in Wrapped => Fitted(fs, mg, page[k], k)

LEMMA WidthGoes ==
    ASSUME NEW d, NEW fs, NEW page, NEW ls, NEW r, NEW open, NEW ns, NEW mg, NEW more,
           WidthStep(d, fs, page, ls, r, open, ns, mg, more),
           NEW new, new = page \o r.pieces
    PROVE  Fitting(ns, new)
<1>d. /\ Setup(d, fs, page, ls) /\ InCall(fs, ls, r, open)
      /\ Onward(fs, ns, page, Len(page) + Len(r.pieces))
      /\ \A f \in 1..Len(ns) : ns[f].start \in Nat
      /\ Margins(fs, mg) /\ Margins(ns, more) /\ \A f \in 0..Len(fs) : more[f] = mg[f]
      /\ \A k \in 1..Len(page) : page[k].form \in Wrapped => Fitted(fs, mg, page[k], k)
  BY DEF WidthStep
<1>. USE <1>d
<1>1. /\ page \in Seq(Text!Emitted) /\ r.pieces \in Seq(Text!Emitted)
      /\ Len(fs) \in Nat \ {0}
  BY SetupIs DEF InCall, Steps, Reads
<1>2. PICK a, b, n, size : /\ a = Len(page) /\ b = Len(r.pieces) /\ n = Len(fs) /\ size = a + b
  OBVIOUS
<1>3. /\ a \in Nat /\ b \in Nat /\ n \in Nat \ {0} /\ size \in Nat /\ Len(new) = size
      /\ \A k \in 1..a : new[k] = page[k]
      /\ \A k \in 1..a + b : k > a => k - a \in 1..b /\ new[k] = r.pieces[k - a]
  BY <1>1, <1>2, Concatenated
<1>4. Onward(fs, ns, page, size) /\ n <= Len(ns) /\ Len(ns) \in Nat
  BY <1>2 DEF Onward, SameCalls
<1>5. ASSUME NEW k \in 1..size, new[k].form \in Wrapped
      PROVE  Fitted(ns, more, new[k], k)
  <2>0. k \in Nat /\ k <= size /\ (k \in 1..a \/ k > a)
    BY <1>3
  <2>1. CASE k \in 1..a
    <3>1. new[k] = page[k]
      BY <1>3, <2>1
    <3>2. Fitted(fs, mg, page[k], k)
      BY <1>2, <1>5, <2>1, <3>1
    <3>3. PICK g : Given(fs, k, g) /\ Fits(Text!Sum(page[k].pad) + mg[g], page[k].width)
      BY <3>2 DEF Fitted
    <3>4. Given(ns, k, g)
      BY <1>3, <1>4, <2>0, <3>3, GivenOnward
    <3>5. more[g] = mg[g]
      BY <3>3 DEF Given
    <3>. QED
      BY <3>1, <3>3, <3>4, <3>5 DEF Fitted
  <2>2. CASE k > a
    <3>1. PICK j : j = k - a
      OBVIOUS
    <3>2. j \in 1..b /\ new[k] = r.pieces[j]
      <4>1. k \in 1..a + b
        BY <1>2
      <4>. QED
        BY <1>3, <2>2, <3>1, <4>1
    <3>3. new[k].pad = <<>> /\ new[k].width = fs[n].width
      BY <1>2, <1>5, <3>2, PiecesAreBare
    <3>4. Given(fs, k, n)
      <4>1. n \in 0..n /\ n + 1..n = {}
        BY <1>3
      <4>. QED
        BY <1>2, <4>1 DEF Given
    <3>5. Given(ns, k, n)
      BY <1>3, <1>4, <2>0, <3>4, GivenOnward
    <3>6. n \in 1..n /\ n \in 0..n
      BY <1>3
    <3>7. Fits(mg[n], fs[n].width) /\ more[n] = mg[n] /\ mg[n] \in Nat
      BY <1>2, <3>6 DEF Margins
    <3>8. PICK sum, c : sum = Text!Sum(new[k].pad) /\ c = more[n]
      OBVIOUS
    <3>9. sum = 0 /\ c = mg[n] /\ c \in Nat
      BY <3>3, <3>7, <3>8, SumOfNone
    <3>10. sum + c = mg[n]
      BY <3>9
    <3>. QED
      BY <3>3, <3>5, <3>7, <3>8, <3>10 DEF Fitted
  <2>. QED
    BY <2>0, <2>1, <2>2
<1>. QED
  BY <1>3, <1>5 DEF Fitting

(* A call returns: what it gave is indented if it was a block's. *)
Returning(fs, page, ns, new) ==
    /\ fs \in Seq(Text!Call) /\ fs # <<>> /\ page \in Seq(Text!Emitted)
    /\ ns = SubSeq(fs, 1, Len(fs) - 1) /\ Len(new) = Len(page)
    /\ \A k \in 1..Len(page) :
           /\ new[k].form = page[k].form /\ new[k].width = page[k].width
           /\ new[k].pad = IF fs[Len(fs)].source = "block" /\ k > fs[Len(fs)].start
                           THEN <<fs[Len(fs)].indent>> \o page[k].pad ELSE page[k].pad

LEMMA WidthReturns ==
    ASSUME NEW fs, NEW page, NEW ns, NEW new, Returning(fs, page, ns, new), Fitting(fs, page)
    PROVE  Fitting(ns, new)
<1>1. PICK n, m, f : n = Len(fs) /\ m = Len(fs) - 1 /\ f = fs[Len(fs)]
  OBVIOUS
<1>2. /\ fs \in Seq(Text!Call) /\ fs # <<>> /\ page \in Seq(Text!Emitted)
      /\ Len(new) = Len(page) /\ ns = SubSeq(fs, 1, Len(fs) - 1)
      /\ \A k \in 1..Len(page) :
             /\ new[k].form = page[k].form /\ new[k].width = page[k].width
             /\ new[k].pad = IF f.source = "block" /\ k > f.start
                             THEN <<f.indent>> \o page[k].pad ELSE page[k].pad
  BY <1>1 DEF Returning
<1>3. /\ Len(ns) = m /\ n \in Nat \ {0} /\ SameCalls(fs, ns, m) /\ \A c \in 1..m : ns[c] = fs[c]
  <2>1. /\ Len(ns) = Len(fs) - 1 /\ Len(fs) \in Nat \ {0}
        /\ SameCalls(fs, ns, Len(ns)) /\ \A c \in 1..Len(ns) : ns[c] = fs[c]
    BY <1>2, CallsPopped
  <2>. QED
    BY <1>1, <2>1
<1>4. /\ m \in Nat /\ m = n - 1 /\ n \in 1..n /\ n \in 0..n /\ m \in 0..n
      /\ \A c \in 1..m : c \in 1..n
  BY <1>1, <1>3
<1>5. f.indent \in Nat /\ f.start \in Nat
  <2>1. f \in Text!Call
    BY <1>1, <1>2, <1>4, ElementOfSeq
  <2>. QED
    BY <2>1 DEF Text!Call
<1>6. PICK mg : /\ Margins(fs, mg)
                /\ \A k \in 1..Len(page) : page[k].form \in Wrapped => Fitted(fs, mg, page[k], k)
  BY DEF Fitting
<1>7. Margins(ns, mg)
  BY <1>1, <1>3, <1>6, MarginsStay
<1>8. mg[n] = mg[m] + f.indent /\ \A c \in 0..n : mg[c] \in Nat
  BY <1>1, <1>4, <1>6 DEF Margins
<1>9. ASSUME NEW k \in 1..Len(page), new[k].form \in Wrapped
      PROVE  Fitted(ns, mg, new[k], k)
  <2>1. PICK g : Given(fs, k, g) /\ Fits(Text!Sum(page[k].pad) + mg[g], page[k].width)
    BY <1>2, <1>6, <1>9 DEF Fitted
  <2>2. g \in 0..n /\ \A c \in g + 1..n : fs[c].source = "block" => ~(fs[c].start < k)
    BY <1>1, <2>1 DEF Given
  <2>3. PICK h : h = IF g = n THEN m ELSE g
    OBVIOUS
  <2>4. /\ h \in 0..m /\ h \in 0..n
        /\ \A c \in h + 1..m : c \in g + 1..n /\ c \in 1..m
    <3>1. CASE g = n
      BY <1>4, <2>2, <2>3, <3>1
    <3>2. CASE g # n
      BY <1>4, <2>2, <2>3, <3>2
    <3>. QED
      BY <3>1, <3>2
  <2>5. Given(ns, k, h)
    <3>1. \A c \in h + 1..m : ns[c] = fs[c] /\ (fs[c].source = "block" => ~(fs[c].start < k))
      BY <1>3, <2>2, <2>4
    <3>. QED
      BY <1>3, <2>4, <3>1 DEF Given
  <2>6. PICK pad, width, sum, more, a, b, by :
            /\ pad = page[k].pad /\ width = page[k].width /\ sum = Text!Sum(pad)
            /\ more = Text!Sum(new[k].pad) /\ a = mg[g] /\ b = mg[h] /\ by = f.indent
    OBVIOUS
  <2>7. pad \in Seq(Nat) /\ width \in Int /\ new[k].width = width
    <3>1. page[k] \in Text!Emitted
      BY <1>2, ElementOfSeq
    <3>. QED
      BY <1>2, <2>6, <3>1 DEF Text!Emitted
  <2>8. /\ by \in Nat /\ a \in Nat /\ b \in Nat /\ sum \in Nat /\ Fits(sum + a, width)
        /\ Text!Sum(<<by>> \o pad) = by + sum
    BY <1>5, <1>8, <2>1, <2>2, <2>4, <2>6, <2>7, SumOfMore
  <2>9. Fits(more + b, width)
    <3>1. CASE f.source = "block" /\ k > f.start
      <4>1. ~(f.start < k) \/ g = n
        BY <1>1, <1>4, <2>2, <3>1
      <4>2. g = n
        BY <1>5, <3>1, <4>1
      <4>3. a = b + by
        BY <1>8, <2>3, <2>6, <4>2
      <4>4. new[k].pad = <<by>> \o pad
        BY <1>2, <2>6, <3>1
      <4>5. more = by + sum
        BY <2>6, <2>8, <4>4
      <4>6. more + b = sum + a
        BY <2>8, <4>3, <4>5
      <4>. QED
        BY <2>8, <4>6
    <3>2. CASE ~(f.source = "block" /\ k > f.start)
      <4>1. new[k].pad = pad
        BY <1>2, <2>6, <3>2
      <4>2. more = sum
        BY <2>6, <4>1
      <4>3. b <= a
        <5>1. CASE g = n
          <6>1. a = b + by
            BY <1>8, <2>3, <2>6, <5>1
          <6>. QED
            BY <2>8, <6>1
        <5>2. CASE g # n
          <6>1. a = b
            BY <2>3, <2>6, <5>2
          <6>. QED
            BY <2>8, <6>1
        <5>. QED
          BY <5>1, <5>2
      <4>4. sum + a \in Nat /\ sum + b \in Nat /\ sum + b <= sum + a
        BY <2>8, <4>3
      <4>5. Fits(sum + b, width)
        <5>1. PICK u, v : u = sum + a /\ v = sum + b
          OBVIOUS
        <5>2. u \in Nat /\ v \in Nat /\ v <= u /\ Fits(u, width)
          BY <2>8, <4>4, <5>1
        <5>. QED
          BY <2>7, <5>1, <5>2, FitsLess
      <4>. QED
        BY <4>2, <4>5
    <3>. QED
      BY <3>1, <3>2
  <2>. QED
    BY <2>5, <2>6, <2>7, <2>9 DEF Fitted
<1>. QED
  BY <1>2, <1>7, <1>9 DEF Fitting

LEMMA WidthAtEnd ==
    ASSUME NEW fs, fs = <<>>, NEW page, Fitting(fs, page), NEW k \in 1..Len(page),
           page[k].form \in Wrapped, page[k].pad \in Seq(Nat), page[k].width \in Int
    PROVE  Text!Sum(page[k].pad) + page[k].width <= PageWidth \/ page[k].width <= LeastWidth + 6
<1>1. Len(fs) = 0 /\ 0..0 = {0}
  OBVIOUS
<1>2. PICK mg : /\ Margins(fs, mg)
                /\ \A j \in 1..Len(page) : page[j].form \in Wrapped => Fitted(fs, mg, page[j], j)
  BY DEF Fitting
<1>3. PICK g : Given(fs, k, g) /\ Fits(Text!Sum(page[k].pad) + mg[g], page[k].width)
  BY <1>2 DEF Fitted
<1>4. g = 0
  BY <1>1, <1>3 DEF Given
<1>5. mg[g] = 0
  BY <1>2, <1>4 DEF Margins
<1>6. PICK sum, c : sum = Text!Sum(page[k].pad) /\ c = mg[g]
  OBVIOUS
<1>7. sum \in Nat /\ c = 0
  BY <1>5, <1>6, SumOfMore
<1>8. sum + c = sum
  BY <1>7
<1>. QED
  BY <1>3, <1>6, <1>8 DEF Fits

LEMMA WidthGoing ==
    ASSUME TextInv, frames # <<>>, Fitting(frames, out), NEW r, NEW open, Does(r, open),
           frames' = [frames EXCEPT ![Len(frames)].i = r.next]
    PROVE  Fitting(frames', out')
<1>1. PICK fs, ns, page : fs = frames /\ ns = frames' /\ page = out
  OBVIOUS
<1>2. Setup(doc, fs, page, para)
  BY <1>1, TextIsSetup
<1>3. InCall(fs, para, r, open) /\ out' = page \o r.pieces
  BY <1>1, DoesInCall
<1>4. fs \in Seq(Text!Call) /\ fs # <<>> /\ r.next \in Nat
  <2>1. r.next \in fs[Len(fs)].i..Len(fs[Len(fs)].lines) + 1
    BY <1>3 DEF InCall, Steps, Reads
  <2>2. fs[Len(fs)].i \in Nat \ {0}
    BY <1>2, SetupIs
  <2>. QED
    BY <1>2, <2>1, <2>2, SetupIs
<1>5. /\ ns \in Seq(Text!Call) /\ Len(ns) = Len(fs) /\ Len(fs) \in Nat \ {0}
      /\ SameCalls(fs, ns, Len(fs))
  BY <1>1, <1>4, CallsMoved
<1>6. PICK mg : /\ Margins(fs, mg)
                /\ \A k \in 1..Len(page) : page[k].form \in Wrapped => Fitted(fs, mg, page[k], k)
  BY <1>1 DEF Fitting
<1>7. Margins(ns, mg)
  BY <1>5, <1>6, MarginsStay
<1>8. \A f \in 1..Len(ns) : ns[f].start \in Nat
  <2>1. \A f \in 1..Len(ns) : ns[f] \in Text!Call
    BY <1>5, ElementOfSeq
  <2>. QED
    BY <2>1 DEF Text!Call
<1>9. Onward(fs, ns, page, Len(page) + Len(r.pieces))
  BY <1>5 DEF Onward
<1>10. WidthStep(doc, fs, page, para, r, open, ns, mg, mg)
  BY <1>2, <1>3, <1>6, <1>7, <1>8, <1>9 DEF WidthStep
<1>11. PICK new : new = page \o r.pieces
  OBVIOUS
<1>12. Fitting(ns, new)
  BY <1>10, <1>11, WidthGoes
<1>. QED
  BY <1>1, <1>3, <1>11, <1>12

LEMMA WidthDeepens ==
    ASSUME TextInv, frames # <<>>, Fitting(frames, out), NEW r, NEW open, Does(r, open),
           NEW next \in Nat, NEW g, Pushed(frames, next, g, frames'),
           Narrows(frames[Len(frames)], g), g.source = "block" => g.start = Len(out'),
           frames' \in Seq(Text!Call)
    PROVE  Fitting(frames', out')
<1>1. PICK fs, ns, page : fs = frames /\ ns = frames' /\ page = out
  OBVIOUS
<1>2. Setup(doc, fs, page, para)
  BY <1>1, TextIsSetup
<1>3. InCall(fs, para, r, open) /\ out' = page \o r.pieces
  BY <1>1, DoesInCall
<1>4. fs \in Seq(Text!Call) /\ fs # <<>> /\ Len(fs) \in 1..Len(fs)
  BY <1>2, SetupIs
<1>5. Deeper(fs, next, g, ns)
  BY <1>1, <1>4, CallsPushed
<1>6. PICK mg : /\ Margins(fs, mg)
                /\ \A k \in 1..Len(page) : page[k].form \in Wrapped => Fitted(fs, mg, page[k], k)
  BY <1>1 DEF Fitting
<1>7. PICK more : Margins(ns, more) /\ \A f \in 0..Len(fs) : more[f] = mg[f]
  <2>1. fs[Len(fs)].width \in Int
    BY <1>2, <1>4, WidthsAre
  <2>2. Narrows(fs[Len(fs)], g)
    BY <1>1
  <2>. QED
    BY <1>5, <1>6, <2>1, <2>2, MarginsGrow
<1>8. ns \in Seq(Text!Call)
  BY <1>1
<1>9. \A f \in 1..Len(ns) : ns[f].start \in Nat
  <2>1. \A f \in 1..Len(ns) : ns[f] \in Text!Call
    BY <1>8, ElementOfSeq
  <2>. QED
    BY <2>1 DEF Text!Call
<1>10. Len(out') = Len(page) + Len(r.pieces) /\ Len(page) + Len(r.pieces) \in Nat
  <2>1. page \in Seq(Text!Emitted) /\ r.pieces \in Seq(Text!Emitted)
    BY <1>2, <1>3, SetupIs DEF InCall, Steps, Reads
  <2>2. Len(page \o r.pieces) = Len(page) + Len(r.pieces) /\ Len(page) \in Nat /\ Len(r.pieces) \in Nat
    BY <2>1, Concatenated
  <2>. QED
    BY <1>3, <2>2
<1>11. Onward(fs, ns, page, Len(page) + Len(r.pieces))
  <2>1. PICK n, size : n = Len(fs) /\ size = Len(page) + Len(r.pieces)
    OBVIOUS
  <2>2. /\ Len(ns) = n + 1 /\ n \in Nat \ {0} /\ SameCalls(fs, ns, n) /\ ns[n + 1] = g
    BY <1>5, <2>1 DEF Deeper
  <2>3. \A f \in 1..Len(ns) : f > n => f = n + 1
    BY <2>2
  <2>4. g.source = "block" => g.start = size
    BY <1>10, <2>1
  <2>5. size \in Nat /\ size >= size
    BY <1>10, <2>1
  <2>6. \A f \in 1..Len(ns) : f > n /\ ns[f].source = "block" => ns[f].start >= size
    BY <2>2, <2>3, <2>4, <2>5
  <2>7. Len(ns) \in Nat
    BY <2>2
  <2>. QED
    BY <2>1, <2>2, <2>6, <2>7 DEF Onward
<1>12. WidthStep(doc, fs, page, para, r, open, ns, mg, more)
  BY <1>2, <1>3, <1>6, <1>7, <1>9, <1>11 DEF WidthStep
<1>13. PICK new : new = page \o r.pieces
  OBVIOUS
<1>14. Fitting(ns, new)
  BY <1>12, <1>13, WidthGoes
<1>. QED
  BY <1>1, <1>3, <1>13, <1>14

LEMMA IndentsAreSmall == \A l : Text!BlockIndent(l) \in 0..6
  BY DEF Text!BlockIndent

LEMMA WidthNests ==
    ASSUME TextInv, frames # <<>>, Fitting(frames, out), Nests, frames' \in Seq(Text!Call)
    PROVE  Fitting(frames', out')
<1>1. PICK r, open, end :
          /\ Does(r, open) /\ BlockBelow(Text!lines, Text!i, r.next, end)
          /\ frames' = Append([frames EXCEPT ![Len(frames)].i = end], Inner(r.next, end))
  BY DEF Nests
<1>2. PICK g, f, by : g = Inner(r.next, end) /\ f = frames[Len(frames)] /\ by = Text!BlockIndent(Text!line)
  OBVIOUS
<1>3. Pushed(frames, end, g, frames')
  BY <1>1, <1>2 DEF Pushed, Advance
<1>4. /\ g.indent = by /\ g.start = Len(out') /\ by \in 0..6
      /\ g.width = IF f.width - by > LeastWidth THEN f.width - by ELSE f.width
  BY <1>2, IndentsAreSmall DEF Inner, Text!Top
<1>5. Narrows(f, g)
  BY <1>4 DEF Narrows
<1>6. end \in Nat
  <2>1. r.next \in Text!i + 1..Len(Text!lines) /\ end \in r.next + 1..Len(Text!lines) + 1
    BY <1>1 DEF BlockBelow
  <2>2. Text!i \in Nat
    BY TextIsTyped, TopIsTyped
  <2>. QED
    BY <2>1, <2>2
<1>. QED
  BY <1>1, <1>2, <1>3, <1>4, <1>5, <1>6, WidthDeepens

LEMMA WidthIncludes ==
    ASSUME TextInv, frames # <<>>, Fitting(frames, out), Incorporates, frames' \in Seq(Text!Call)
    PROVE  Fitting(frames', out')
<1>1. PICK r, g, open, next :
          /\ Does(r, open) /\ g.source \notin {"doc", "block"} /\ g.indent = 0
          /\ g.width = Text!Top.width /\ next = r.next
          /\ frames' = Append([frames EXCEPT ![Len(frames)].i = next], g)
  BY DEF Incorporates
<1>2. PICK f : f = frames[Len(frames)]
  OBVIOUS
<1>3. Pushed(frames, next, g, frames')
  BY <1>1 DEF Pushed, Advance
<1>4. f.width \in Int /\ f.i \in Nat
  <2>1. Setup(doc, frames, out, para)
    BY TextIsSetup
  <2>. QED
    BY <1>2, <2>1, SetupIs, WidthsAre
<1>5. g.indent = 0 /\ g.width = f.width /\ f.width - 0 = f.width
  BY <1>1, <1>2, <1>4 DEF Text!Top
<1>6. Narrows(f, g)
  BY <1>5 DEF Narrows
<1>7. next \in Nat
  <2>1. InCall(frames, para, r, open)
    BY <1>1, DoesInCall
  <2>2. next \in f.i..Len(f.lines) + 1
    BY <1>1, <1>2, <2>1 DEF InCall, Steps, Reads
  <2>. QED
    BY <1>4, <2>2
<1>. QED
  BY <1>1, <1>2, <1>3, <1>6, <1>7, WidthDeepens

(* What is left of the paragraph is emitted before a call returns. *)
LEMMA WidthFlushes ==
    ASSUME TextInv, frames # <<>>, Fitting(frames, out), NEW r, Flushes(r)
    PROVE  Fitting(frames, out \o r.pieces) /\ out \o r.pieces \in Seq(Text!Emitted)
<1>1. PICK fs, page, open : fs = frames /\ page = out /\ open = FALSE
  OBVIOUS
<1>2. Setup(doc, fs, page, para)
  BY <1>1, TextIsSetup
<1>3. InCall(fs, para, r, open)
  BY <1>1, FlushesInCall
<1>4. /\ fs \in Seq(Text!Call) /\ Len(fs) \in Nat \ {0}
      /\ \A f \in 1..Len(fs) : fs[f].start \in Nat
  BY <1>2, SetupIs
<1>5. PICK mg : /\ Margins(fs, mg)
                /\ \A k \in 1..Len(page) : page[k].form \in Wrapped => Fitted(fs, mg, page[k], k)
  BY <1>1 DEF Fitting
<1>6. SameCalls(fs, fs, Len(fs))
  BY <1>4 DEF SameCalls, Alike
<1>7. Onward(fs, fs, page, Len(page) + Len(r.pieces))
  <2>1. \A f \in 1..Len(fs) : ~(f > Len(fs))
    BY <1>4
  <2>. QED
    BY <1>4, <1>6, <2>1 DEF Onward
<1>8. WidthStep(doc, fs, page, para, r, open, fs, mg, mg)
  BY <1>2, <1>3, <1>4, <1>5, <1>7 DEF WidthStep
<1>9. PICK new : new = page \o r.pieces
  OBVIOUS
<1>10. Fitting(fs, new)
  BY <1>8, <1>9, WidthGoes
<1>11. page \in Seq(Text!Emitted) /\ r.pieces \in Seq(Text!Emitted)
  BY <1>2, <1>3, SetupIs DEF InCall, Steps, Reads
<1>12. new \in Seq(Text!Emitted)
  BY <1>9, <1>11, Concatenated
<1>. QED
  BY <1>1, <1>9, <1>10, <1>12

LEMMA WidthEnds ==
    ASSUME TextInv, frames # <<>>, Fitting(frames, out), BlockEnds \/ DocEnds \/ FileEnds
    PROVE  Fitting(frames', out')
<1>1. PICK fs, ns, new, f : /\ fs = frames /\ ns = frames' /\ new = out' /\ f = frames[Len(frames)]
  OBVIOUS
<1>2. fs \in Seq(Text!Call) /\ fs # <<>> /\ out \in Seq(Text!Emitted)
  BY <1>1, TextIsSetup, SetupIs
<1>3. CASE BlockEnds
  <2>1. PICK r : /\ Flushes(r) /\ Text!Top.source = "block"
                 /\ out' = Text!Indented(out \o r.pieces) /\ frames' = Text!Popped
    BY <1>3 DEF BlockEnds
  <2>2. PICK page : page = out \o r.pieces
    OBVIOUS
  <2>3. Fitting(fs, page) /\ page \in Seq(Text!Emitted)
    BY <1>1, <2>1, <2>2, WidthFlushes
  <2>4. Reindented(page, new, f.start, f.indent)
    BY <1>1, <2>1, <2>2, <2>3, IndentedIs
  <2>5. Len(new) = Len(page) /\ DOMAIN page = 1..Len(page)
    <3>1. DOMAIN new = DOMAIN page /\ new \in Seq(Text!Emitted)
      BY <2>4 DEF Reindented
    <3>2. PICK m, n : m = Len(new) /\ n = Len(page)
      OBVIOUS
    <3>3. m \in Nat /\ n \in Nat /\ 1..m = 1..n
      BY <2>3, <3>1, <3>2, LenProperties
    <3>4. (m \in 1..m <=> m \in 1..n) /\ (n \in 1..m <=> n \in 1..n)
      BY <3>3
    <3>5. m = n
      BY <3>3, <3>4
    <3>. QED
      BY <2>3, <3>2, <3>5, LenProperties
  <2>6. ns = SubSeq(fs, 1, Len(fs) - 1) /\ f.source = "block" /\ f = fs[Len(fs)]
    BY <1>1, <2>1 DEF Text!Popped, Text!Top
  <2>7. Returning(fs, page, ns, new)
    BY <1>2, <2>3, <2>4, <2>5, <2>6 DEF Returning, Reindented
  <2>. QED
    BY <1>1, <2>3, <2>7, WidthReturns
<1>4. CASE DocEnds
  <2>1. PICK r : /\ Flushes(r) /\ Text!Top.source = "doc"
                 /\ out' = out \o r.pieces /\ frames' = Text!Popped
    BY <1>4 DEF DocEnds
  <2>2. Fitting(fs, new) /\ new \in Seq(Text!Emitted)
    BY <1>1, <2>1, WidthFlushes
  <2>3. ns = SubSeq(fs, 1, Len(fs) - 1) /\ fs[Len(fs)].source = "doc"
    BY <1>1, <2>1 DEF Text!Popped, Text!Top
  <2>4. Returning(fs, new, ns, new)
    BY <1>2, <2>2, <2>3 DEF Returning
  <2>. QED
    BY <1>1, <2>2, <2>4, WidthReturns
<1>5. CASE FileEnds
  <2>1. ns = SubSeq(fs, 1, Len(fs) - 1) /\ fs[Len(fs)].source # "block" /\ new = out
    BY <1>1, <1>5 DEF FileEnds, Text!Popped, Text!Top
  <2>2. Returning(fs, new, ns, new)
    BY <1>2, <2>1 DEF Returning
  <2>. QED
    BY <1>1, <2>1, <2>2, WidthReturns
<1>. QED
  BY <1>3, <1>4, <1>5

LEMMA WidthStays ==
    ASSUME TextInv, Fitting(frames, out), Text!Next, frames' \in Seq(Text!Call)
    PROVE  Fitting(frames', out')
<1>1. frames # <<>>
  BY NextReads
<1>2. GoesOn \/ Nests \/ Incorporates \/ BlockEnds \/ DocEnds \/ FileEnds
  BY EveryStep
<1>3. CASE GoesOn
  <2>1. PICK r, open : Does(r, open) /\ Text!Go(r.next) /\ open = FALSE
    BY <1>3 DEF GoesOn
  <2>2. frames' = [frames EXCEPT ![Len(frames)].i = r.next]
    BY <2>1 DEF Text!Go
  <2>. QED
    BY <1>1, <2>1, <2>2, WidthGoing
<1>. QED
  BY <1>1, <1>2, <1>3, WidthNests, WidthIncludes, WidthEnds

LEMMA WidthBegins ==
    ASSUME Text!Init \/ Converted
    PROVE  Fitting(frames, out)
<1>1. PICK mg : mg = [f \in 0..1 |-> 0]
  OBVIOUS
<1>2. mg[0] = 0 /\ mg[1] = 0 /\ mg[0] \in Nat /\ mg[1] \in Nat
  BY <1>1
<1>3. Len(out) = 0 /\ 1..Len(out) = {}
  BY DEF Text!Init, Converted
<1>4. CASE Text!Init
  <2>1. PICK f : f = Text!Frame(doc, "doc", 0, PageWidth)
    OBVIOUS
  <2>2. frames = <<f>> /\ f.indent = 0 /\ f.width = PageWidth
    BY <1>4, <2>1 DEF Text!Init, Text!Frame
  <2>3. Len(frames) = 1 /\ frames[1] = f /\ 1..1 = {1} /\ 0..1 = {0, 1} /\ 1 - 1 = 0
    BY <2>2
  <2>4. Fits(0, PageWidth)
    BY DepthsAssumption DEF Fits
  <2>5. mg[1] = mg[1 - 1] + f.indent
    BY <1>2, <2>2
  <2>6. Margins(frames, mg)
    BY <1>2, <2>2, <2>3, <2>4, <2>5 DEF Margins
  <2>. QED
    BY <1>3, <2>6 DEF Fitting
<1>5. CASE Converted
  <2>1. Len(frames) = 0 /\ 1..0 = {} /\ 0..0 = {0}
    BY <1>5 DEF Converted
  <2>2. Margins(frames, mg)
    BY <1>2, <2>1 DEF Margins
  <2>. QED
    BY <1>3, <2>2 DEF Fitting
<1>. QED
  BY <1>4, <1>5

LEMMA WidthIsKept ==
    ASSUME TextInv, Fitting(frames, out)
    PROVE  Text!FitsTheWidth
<1>. SUFFICES ASSUME frames = <<>>, NEW k \in DOMAIN out, out[k].form \in Wrapped
              PROVE  \/ Text!Sum(out[k].pad) + out[k].width <= PageWidth
                     \/ out[k].width <= LeastWidth + 6
  BY DEF Text!FitsTheWidth, Text!Converted, Wrapped
<1>1. out \in Seq(Text!Emitted) /\ k \in 1..Len(out)
  BY TextIsTyped, LenProperties DEF Text!TypeOK
<1>2. out[k] \in Text!Emitted
  BY <1>1, ElementOfSeq
<1>3. out[k].pad \in Seq(Nat) /\ out[k].width \in Int
  BY <1>2 DEF Text!Emitted
<1>4. PICK fs, page : fs = frames /\ page = out
  OBVIOUS
<1>5. Text!Sum(page[k].pad) + page[k].width <= PageWidth \/ page[k].width <= LeastWidth + 6
  BY <1>1, <1>3, <1>4, WidthAtEnd
<1>. QED
  BY <1>4, <1>5

(* When a document is converted, what is wrapped fits the page with all that
   its blocks indent it by, unless its block would have been narrower than
   what text is wrapped to at least (rst.go's nested). *)
THEOREM WidthsAlwaysFit == IngestSpec => []Text!FitsTheWidth
<1>. DEFINE Inv == TextInv /\ Fitting(frames, out)
            Calling == frames \in Seq(Text!Call)
<1>1. IngestInit => Inv
  BY TextBegins, WidthBegins DEF IngestInit
<1>2. TextInv => Calling
  BY TextIsTyped DEF Text!TypeOK
<1>3. Inv /\ Calling' /\ [IngestNext]_<<vars, rstVars>> => Inv'
  <2>. SUFFICES ASSUME TextInv, Fitting(frames, out), frames' \in Seq(Text!Call),
                       [IngestNext]_<<vars, rstVars>>
                PROVE  TextInv' /\ Fitting(frames', out')
    OBVIOUS
  <2>1. Text!Next \/ UNCHANGED rstVars
    BY DEF IngestNext
  <2>2. TextInv'
    BY <2>1, TextGoesOn
  <2>3. CASE Text!Next
    BY <2>2, <2>3, WidthStays
  <2>4. CASE UNCHANGED rstVars
    <3>1. frames' = frames /\ out' = out
      BY <2>4 DEF rstVars
    <3>. QED
      BY <2>2, <3>1
  <2>. QED
    BY <2>1, <2>3, <2>4
<1>4. Inv => Text!FitsTheWidth
  BY WidthIsKept
<1>5. IngestSpec => []TextInv
  <2>1. IngestInit => TextInv
    BY TextBegins DEF IngestInit
  <2>2. TextInv /\ [IngestNext]_<<vars, rstVars>> => TextInv'
    BY TextGoesOn DEF IngestNext
  <2>. QED
    BY <2>1, <2>2, PTL DEF IngestSpec
<1>. HIDE DEF Inv, Calling
<1>6. IngestSpec => []Calling
  BY <1>2, <1>5, PTL
<1>. QED
  BY <1>1, <1>3, <1>4, <1>6, PTL DEF IngestSpec

-----------------------------------------------------------------------------
(* Where a line stands, if the document's blocks are evenly indented.       *)

(* Line h opens a block, as far as the page tells. *)
OpensIn(d, page, h) ==
    \/ d[h].kind \in Text!Directive /\ ~ShownAs(page, {"title"}, h)
    \/ ShownAs(page, {"term"}, h)
OpenOver(d, page, h, m) == Under(d, h, m) /\ OpensIn(d, page, h)

(* The blocks that line m is in after line b are those that indent it. *)
PadsOf(d, page, m, pad, b, hs) ==
    /\ \A a, c \in 1..Len(pad) : a < c => hs[a] < hs[c]
    /\ \A a \in 1..Len(pad) : OpenOver(d, page, hs[a], m) /\ pad[a] = Text!BlockIndent(d[hs[a]])
    /\ \A h \in b + 1..m - 1 : OpenOver(d, page, h, m) => \E a \in 1..Len(pad) : hs[a] = h
Padded(d, page, m, pad, b) ==
    b < m /\ \E hs \in [1..Len(pad) -> b + 1..m - 1] : PadsOf(d, page, m, pad, b, hs)

(* Line h of call f opened the block of call g, and what else opened one
   before it there is over. *)
Opened(d, page, f, g, h) ==
    /\ h \in Base(f) + 1..Base(g) /\ ~Text!Blank(d[h]) /\ OpensIn(d, page, h)
    /\ g.indent = Text!BlockIndent(d[h])
    /\ \A n \in h + 1..End(g) - 1 : Text!Blank(d[n]) \/ d[n].indent > d[h].indent
    /\ Passed(d, h, End(g))
    /\ \A x \in Base(f) + 1..Base(g) : x # h /\ OpensIn(d, page, x) => Passed(d, x, Base(g) + 1)
Settled(d, page, b, q) == \A h \in b + 1..q - 1 : OpensIn(d, page, h) => Passed(d, h, q)

(* Piece k is of call g, the calls in it did not give it. *)
GivenIn(fs, t, k, g) ==
    /\ g \in 1..t /\ \A f \in 2..g : fs[f].start < k
    /\ \A f \in g + 1..t : ~(fs[f].start < k)
PaddedIn(d, fs, page, t, k, m) ==
    \E g \in 1..t : GivenIn(fs, t, k, g) /\ Padded(d, page, m, page[k].pad, Base(fs[g]))
AllPadded(d, fs, page, t) ==
    \A k \in DOMAIN page : page[k].form \in {"para", "item"} =>
        \A m \in 1..Len(d) : Has(page[k].ids, m) /\ Text!Prose(d[m]) => PaddedIn(d, fs, page, t, k, m)
LinesPadded(d, page, ls, b) ==
    \A m \in 1..Len(d) : Has(LineIds(ls), m) /\ Text!Prose(d[m]) => Padded(d, page, m, <<>>, b)

(* Only lines of files lose characters. *)
CutElsewhere(piece) == piece.cut => \E n \in DOMAIN piece.ids : ~OfText(piece.ids[n])
Uncut(page) == \A k \in DOMAIN page : CutElsewhere(page[k])
UncutLines(ls) == \A n \in DOMAIN ls : OfText(ls[n].id) => ls[n].cut = 0

Layout(d, fs, page, ls, t) ==
    /\ \A f \in 2..t : \E h \in 1..Len(d) : Opened(d, page, fs[f - 1], fs[f], h)
    /\ AllPadded(d, fs, page, t) /\ LinesPadded(d, page, ls, Base(fs[t]))
    /\ Uncut(page) /\ UncutLines(ls)
Evenly(d, fs, page, ls, t) ==
    /\ PageAt(d, fs, page, ls, t) /\ Layout(d, fs, page, ls, t)
    /\ Settled(d, page, Base(fs[t]), At(fs, t))

(* All of it is below the line that opens it. *)
LEMMA EvenUnder ==
    ASSUME NEW d, NEW f, NEW ls, NEW b, NEW s, NEW p, NEW first, NEW end,
           EvenBlock(d, f, ls, b, s, p, first, end),
           NEW n \in b + p + 1..b + end - 1
    PROVE  Text!Blank(d[n]) \/ d[n].indent > d[b + p].indent
<1>1. /\ b \in Nat /\ s \in Nat /\ Len(d) \in Nat /\ DOMAIN d = 1..Len(d)
      /\ p \in Nat \ {0} /\ first \in Nat /\ end \in Nat /\ p < first /\ first < end
      /\ \A x \in p..end - 1 :
             /\ x \in Nat /\ b + x \in 1..Len(d) /\ d[b + x].indent \in Nat /\ ls[x].indent \in Nat
             /\ ls[x].kind = d[b + x].kind /\ (Text!Blank(ls[x]) <=> Text!Blank(d[b + x]))
             /\ ~Text!Blank(ls[x]) => d[b + x].indent = ls[x].indent + s
      /\ ~Text!Blank(ls[p])
      /\ \A x \in first..end - 1 : Text!Blank(ls[x]) \/ ls[x].indent > ls[p].indent
      /\ OptionsFirst(ls, p, first) /\ Text!Even(d)
  BY EvenBlockIs
<1>2. PICK last \in p..first - 1 :
          /\ \A x \in p + 1..last : ls[x].kind = "option"
          /\ \A x \in last + 1..first - 1 : Text!Blank(ls[x])
          /\ last = p \/ ls[p].kind \in Text!Directive
  BY <1>1 DEF OptionsFirst
<1>3. PICK m, h : m = n - b /\ h = b + p
  OBVIOUS
<1>4. /\ m \in p + 1..end - 1 /\ m \in p..end - 1 /\ m \in Nat /\ n = b + m /\ n \in Nat /\ h \in Nat /\ h < n
      /\ p \in p..end - 1 /\ last \in Nat
  BY <1>1, <1>2, <1>3
<1>5. d[h].indent = ls[p].indent + s /\ ls[p].indent \in Nat
  BY <1>1, <1>3, <1>4
<1>6. CASE m >= first
  <2>1. Text!Blank(ls[m]) \/ ls[m].indent > ls[p].indent
    BY <1>1, <1>4, <1>6
  <2>2. CASE ~Text!Blank(ls[m])
    <3>1. d[n].indent = ls[m].indent + s /\ ls[m].indent \in Nat
      BY <1>1, <1>4, <2>2
    <3>2. PICK x, y, u, v : x = d[n].indent /\ y = d[h].indent /\ u = ls[m].indent /\ v = ls[p].indent
      OBVIOUS
    <3>3. x = u + s /\ y = v + s /\ u \in Nat /\ v \in Nat /\ s \in Nat /\ u > v
      BY <1>1, <1>5, <2>1, <2>2, <3>1, <3>2
    <3>4. x > y
      BY <3>3
    <3>. QED
      BY <1>3, <3>2, <3>4
  <2>3. CASE Text!Blank(ls[m])
    BY <1>1, <1>4, <2>3
  <2>. QED
    BY <2>2, <2>3
<1>7. CASE last < m /\ m < first
  <2>1. Text!Blank(ls[m])
    BY <1>1, <1>2, <1>4, <1>7
  <2>. QED
    BY <1>1, <1>4, <2>1
<1>8. CASE m <= last
  <2>1. last # p
    BY <1>1, <1>4, <1>8
  <2>2. d[h].kind \in Text!Directive
    BY <1>1, <1>2, <1>3, <1>4, <2>1
  <2>3. \A x \in h + 1..n : d[x].kind = "option"
    <3>. SUFFICES ASSUME NEW x \in h + 1..n
                  PROVE  d[x].kind = "option"
      OBVIOUS
    <3>1. PICK y : y = x - b
      OBVIOUS
    <3>2. y \in p + 1..last /\ y \in p..end - 1 /\ x = b + y
      BY <1>1, <1>2, <1>3, <1>4, <1>8, <3>1
    <3>. QED
      BY <1>1, <1>2, <3>2
  <2>4. h \in DOMAIN d /\ n \in DOMAIN d
    BY <1>1, <1>3, <1>4
  <2>5. d[n].indent > d[h].indent
    BY <1>1, <1>4, <2>2, <2>3, <2>4 DEF Text!Even
  <2>. QED
    BY <1>3, <2>5
<1>. QED
  BY <1>1, <1>4, <1>6, <1>7, <1>8

(* Of two pages the lines before q open the same blocks. *)
SameOpens(d, page, new, q) == \A h \in 1..q - 1 : OpensIn(d, new, h) <=> OpensIn(d, page, h)

LEMMA PaddedStays ==
    ASSUME NEW d, NEW page, NEW new, NEW q \in Nat, SameOpens(d, page, new, q),
           NEW m \in Nat, m <= q, NEW pad, NEW b \in Nat, Padded(d, page, m, pad, b)
    PROVE  Padded(d, new, m, pad, b)
<1>1. PICK hs \in [1..Len(pad) -> b + 1..m - 1] : PadsOf(d, page, m, pad, b, hs)
  BY DEF Padded
<1>2. \A h \in b + 1..m - 1 : OpenOver(d, new, h, m) <=> OpenOver(d, page, h, m)
  BY DEF SameOpens, OpenOver
<1>3. PadsOf(d, new, m, pad, b, hs)
  BY <1>1, <1>2 DEF PadsOf
<1>. QED
  BY <1>1, <1>3 DEF Padded

LEMMA PaddedInStays ==
    ASSUME NEW d, NEW page, NEW new, NEW q \in Nat, SameOpens(d, page, new, q),
           NEW m \in Nat, m <= q, NEW fs, NEW t, NEW k, new[k].pad = page[k].pad,
           \A f \in 1..t : Base(fs[f]) \in Nat, PaddedIn(d, fs, page, t, k, m)
    PROVE  PaddedIn(d, fs, new, t, k, m)
<1>1. PICK g \in 1..t : GivenIn(fs, t, k, g) /\ Padded(d, page, m, page[k].pad, Base(fs[g]))
  BY DEF PaddedIn
<1>2. PICK b, pad : b = Base(fs[g]) /\ pad = page[k].pad
  OBVIOUS
<1>3. Padded(d, new, m, pad, b)
  BY <1>1, <1>2, PaddedStays
<1>. QED
  BY <1>1, <1>2, <1>3 DEF PaddedIn

LEMMA OpenedStays ==
    ASSUME NEW d, NEW page, NEW new, NEW q \in Nat, SameOpens(d, page, new, q),
           NEW f, NEW g, Base(f) \in Nat, Base(g) \in Nat, Base(g) < q,
           NEW h, Opened(d, page, f, g, h)
    PROVE  Opened(d, new, f, g, h)
<1>1. \A x \in Base(f) + 1..Base(g) : OpensIn(d, new, x) <=> OpensIn(d, page, x)
  BY DEF SameOpens
<1>. QED
  BY <1>1 DEF Opened

(* The page stays as it is while calls of files are made or return. *)
LEMMA LayoutStays ==
    ASSUME NEW d, NEW fs, NEW ns, NEW n, SameCalls(fs, ns, n), NEW t \in Nat, t <= n,
           NEW page, NEW ls, Layout(d, fs, page, ls, t), t >= 1
    PROVE  Layout(d, ns, page, ls, t)
<1>1. \A f \in 1..t :
          /\ Base(ns[f]) = Base(fs[f]) /\ End(ns[f]) = End(fs[f]) /\ ns[f].lines = fs[f].lines
          /\ Shift(d, ns[f]) = Shift(d, fs[f]) /\ ns[f].indent = fs[f].indent /\ ns[f].start = fs[f].start
  <2>. SUFFICES ASSUME NEW f \in 1..t
                PROVE  /\ Base(ns[f]) = Base(fs[f]) /\ End(ns[f]) = End(fs[f]) /\ ns[f].lines = fs[f].lines
                       /\ Shift(d, ns[f]) = Shift(d, fs[f]) /\ ns[f].indent = fs[f].indent
                       /\ ns[f].start = fs[f].start
    OBVIOUS
  <2>1. Alike(ns[f], fs[f])
    BY DEF SameCalls
  <2>. QED
    BY <2>1, AlikeIs DEF Alike
<1>3. \A f \in 2..t : \E h \in 1..Len(d) : Opened(d, page, ns[f - 1], ns[f], h)
  <2>. SUFFICES ASSUME NEW f \in 2..t PROVE \E h \in 1..Len(d) : Opened(d, page, ns[f - 1], ns[f], h)
    OBVIOUS
  <2>1. PICK h \in 1..Len(d) : Opened(d, page, fs[f - 1], fs[f], h)
    BY DEF Layout
  <2>2. PICK e : e = f - 1
    OBVIOUS
  <2>3. e \in 1..t /\ f \in 1..t
    BY <2>2
  <2>4. Opened(d, page, ns[e], ns[f], h)
    BY <1>1, <2>1, <2>2, <2>3 DEF Opened
  <2>. QED
    BY <2>2, <2>4
<1>4. \A k, m : PaddedIn(d, fs, page, t, k, m) => PaddedIn(d, ns, page, t, k, m)
  <2>. SUFFICES ASSUME NEW k, NEW m, PaddedIn(d, fs, page, t, k, m)
                PROVE  PaddedIn(d, ns, page, t, k, m)
    OBVIOUS
  <2>1. PICK g \in 1..t : GivenIn(fs, t, k, g) /\ Padded(d, page, m, page[k].pad, Base(fs[g]))
    BY DEF PaddedIn
  <2>2. GivenIn(ns, t, k, g)
    <3>1. \A f \in 1..t : (ns[f].start < k) <=> (fs[f].start < k)
      BY <1>1
    <3>2. \A f \in 2..g : f \in 1..t
      OBVIOUS
    <3>3. \A f \in g + 1..t : f \in 1..t
      OBVIOUS
    <3>. QED
      BY <2>1, <3>1, <3>2, <3>3 DEF GivenIn
  <2>. QED
    BY <1>1, <2>1, <2>2 DEF PaddedIn
<1>5. AllPadded(d, ns, page, t)
  BY <1>4 DEF Layout, AllPadded
<1>6. t \in 1..t
  OBVIOUS
<1>. QED
  BY <1>1, <1>3, <1>5, <1>6 DEF Layout

(* Two pages on which the same lines open blocks. *)
OpensAlike(d, page, new) == \A h : OpensIn(d, new, h) <=> OpensIn(d, page, h)

LEMMA AlikePages ==
    ASSUME NEW d, NEW page, NEW new, OpensAlike(d, page, new)
    PROVE  /\ \A m, pad, b : Padded(d, page, m, pad, b) => Padded(d, new, m, pad, b)
           /\ \A f, g, h : Opened(d, page, f, g, h) => Opened(d, new, f, g, h)
           /\ \A b, q : Settled(d, page, b, q) => Settled(d, new, b, q)
<1>1. ASSUME NEW m, NEW pad, NEW b, Padded(d, page, m, pad, b)
      PROVE  Padded(d, new, m, pad, b)
  <2>1. PICK hs \in [1..Len(pad) -> b + 1..m - 1] : PadsOf(d, page, m, pad, b, hs)
    BY <1>1 DEF Padded
  <2>2. \A h : OpenOver(d, new, h, m) <=> OpenOver(d, page, h, m)
    BY DEF OpensAlike, OpenOver
  <2>3. PadsOf(d, new, m, pad, b, hs)
    BY <2>1, <2>2 DEF PadsOf
  <2>. QED
    BY <1>1, <2>1, <2>3 DEF Padded
<1>2. ASSUME NEW f, NEW g, NEW h, Opened(d, page, f, g, h)
      PROVE  Opened(d, new, f, g, h)
  BY <1>2 DEF Opened, OpensAlike
<1>3. ASSUME NEW b, NEW q, Settled(d, page, b, q)
      PROVE  Settled(d, new, b, q)
  BY <1>3 DEF Settled, OpensAlike
<1>. QED
  BY <1>1, <1>2, <1>3

(* A piece that lost characters shows a line. *)
LEMMA CutCarries ==
    ASSUME NEW ls, NEW lines, NEW p, NEW r, Reads(ls, lines, p, r),
           NEW k \in 1..Len(r.pieces), r.pieces[k].cut
    PROVE  \E n : n \in DOMAIN r.pieces[k].ids
<1>1. r.pieces \in Seq(Text!Emitted) /\ r.head \in {0, 1}
  BY DEF Reads
<1>2. CASE k \in Rest(r)
  <2>1. PICK piece, l : piece = r.pieces[k] /\ l = lines[r.at[k]] /\ OfLine(piece, l)
    BY <1>2 DEF Reads
  <2>2. piece.ids = <<l.id>>
    BY <2>1 DEF OfLine
  <2>3. 1 \in DOMAIN <<l.id>>
    BY OneId
  <2>. QED
    BY <2>1, <2>2, <2>3
<1>3. CASE k \notin Rest(r)
  <2>1. r.head = 1 /\ k = 1
    BY <1>1, <1>3 DEF Rest
  <2>2. PICK all : all = All(ls, lines, p, r) /\ IsParagraph(r.pieces[k], all)
    BY <2>1 DEF Reads
  <2>3. PICK n \in DOMAIN all : all[n].cut > 0
    BY <2>2 DEF IsParagraph
  <2>4. n \in DOMAIN LineIds(all) /\ r.pieces[k].ids = LineIds(all)
    BY <2>2, <2>3 DEF IsParagraph, LineIds
  <2>. QED
    BY <2>4
<1>. QED
  BY <1>2, <1>3

(* Pieces that show nothing of the document. *)
LEMMA BlindLayout ==
    ASSUME NEW d, NEW fs, NEW page \in Seq(Text!Emitted), NEW ls, NEW t, Layout(d, fs, page, ls, t),
           NEW more \in Seq(Text!Emitted), Blind(more),
           \A k \in 1..Len(more) : more[k].cut => \E n : n \in DOMAIN more[k].ids,
           NEW left, NoText(LineIds(left)), NEW new, new = page \o more
    PROVE  Layout(d, fs, new, left, t) /\ OpensAlike(d, page, new)
<1>1. /\ Len(page) \in Nat /\ Len(more) \in Nat /\ DOMAIN page = 1..Len(page)
      /\ DOMAIN new = 1..Len(page) + Len(more)
      /\ \A k \in 1..Len(page) : new[k] = page[k]
      /\ \A k \in 1..Len(page) + Len(more) : k > Len(page) =>
             k - Len(page) \in 1..Len(more) /\ new[k] = more[k - Len(page)]
  BY Concatenated
<1>2. \A k \in DOMAIN new :
          \/ k \in DOMAIN page /\ new[k] = page[k]
          \/ /\ NoText(new[k].ids) /\ \A m : ~Has(new[k].ids, m)
             /\ new[k].cut => \E n : n \in DOMAIN new[k].ids
  <2>. SUFFICES ASSUME NEW k \in DOMAIN new, k \notin DOMAIN page
                PROVE  /\ NoText(new[k].ids) /\ \A m : ~Has(new[k].ids, m)
                       /\ new[k].cut => \E n : n \in DOMAIN new[k].ids
    BY <1>1
  <2>1. PICK j \in 1..Len(more) : new[k] = more[j]
    BY <1>1
  <2>2. NoText(more[j].ids) /\ \A m : ~Has(more[j].ids, m)
    BY NoTextIs DEF Blind
  <2>. QED
    BY <2>1, <2>2
<1>3. \A forms, m : ShownAs(new, forms, m) <=> ShownAs(page, forms, m)
  <2>1. ASSUME NEW forms, NEW m, ShownAs(new, forms, m)
        PROVE  ShownAs(page, forms, m)
    BY <1>2, <2>1 DEF ShownAs
  <2>2. ASSUME NEW forms, NEW m, ShownAs(page, forms, m)
        PROVE  ShownAs(new, forms, m)
    <3>1. PICK k \in DOMAIN page : page[k].form \in forms /\ Has(page[k].ids, m)
      BY <2>2 DEF ShownAs
    <3>2. k \in DOMAIN new /\ new[k] = page[k]
      BY <1>1
    <3>. QED
      BY <3>1, <3>2 DEF ShownAs
  <2>. QED
    BY <2>1, <2>2
<1>4. OpensAlike(d, page, new)
  BY <1>3 DEF OpensAlike, OpensIn
<1>5. \A k \in DOMAIN page : \A m : PaddedIn(d, fs, page, t, k, m) => PaddedIn(d, fs, new, t, k, m)
  BY <1>1, <1>4, AlikePages DEF PaddedIn
<1>6. AllPadded(d, fs, new, t)
  <2>. SUFFICES ASSUME NEW k \in DOMAIN new, new[k].form \in {"para", "item"}, NEW m \in 1..Len(d),
                       Has(new[k].ids, m), Text!Prose(d[m])
                PROVE  PaddedIn(d, fs, new, t, k, m)
    BY DEF AllPadded
  <2>1. k \in DOMAIN page /\ new[k] = page[k]
    BY <1>2
  <2>2. PaddedIn(d, fs, page, t, k, m)
    BY <2>1 DEF Layout, AllPadded
  <2>. QED
    BY <1>5, <2>1, <2>2
<1>7. LinesPadded(d, new, left, Base(fs[t]))
  BY NoTextIs DEF LinesPadded
<1>8. Uncut(new)
  <2>. SUFFICES ASSUME NEW k \in DOMAIN new PROVE CutElsewhere(new[k])
    BY DEF Uncut
  <2>1. CASE k \in DOMAIN page /\ new[k] = page[k]
    BY <2>1 DEF Layout, Uncut
  <2>2. CASE NoText(new[k].ids) /\ (new[k].cut => \E n : n \in DOMAIN new[k].ids)
    BY <2>2 DEF CutElsewhere, NoText
  <2>. QED
    BY <1>2, <2>1, <2>2
<1>9. UncutLines(left)
  BY DEF UncutLines, NoText, LineIds
<1>10. \A f \in 2..t : \E h \in 1..Len(d) : Opened(d, page, fs[f - 1], fs[f], h)
  BY DEF Layout
<1>11. \A f \in 2..t : \E h \in 1..Len(d) : Opened(d, new, fs[f - 1], fs[f], h)
  BY <1>4, <1>10, AlikePages
<1>. QED
  BY <1>4, <1>6, <1>7, <1>8, <1>9, <1>10, <1>11 DEF Layout

(* A block indents what it gave. *)
LEMMA ReindentedOpens ==
    ASSUME NEW d, NEW page, NEW new, NEW start, NEW by, Reindented(page, new, start, by)
    PROVE  OpensAlike(d, page, new)
<1>1. \A forms, m : ShownAs(new, forms, m) <=> ShownAs(page, forms, m)
  BY DEF Reindented, ShownAs
<1>. QED
  BY <1>1 DEF OpensAlike, OpensIn

LEMMA ReindentedUncut ==
    ASSUME NEW page, NEW new, NEW start, NEW by, Reindented(page, new, start, by), Uncut(page)
    PROVE  Uncut(new)
BY DEF Reindented, Uncut, CutElsewhere

LEMMA ForeignReindented ==
    ASSUME NEW d, NEW fs, NEW page, NEW ls, NEW t, Layout(d, fs, page, ls, t),
           NEW new, NEW start, NEW by, Reindented(page, new, start, by),
           \A k \in DOMAIN page : k > start => NoText(page[k].ids)
    PROVE  Layout(d, fs, new, ls, t)
<1>1. OpensAlike(d, page, new)
  BY ReindentedOpens
<1>2. AllPadded(d, fs, new, t)
  <2>. SUFFICES ASSUME NEW k \in DOMAIN new, new[k].form \in {"para", "item"}, NEW m \in 1..Len(d),
                       Has(new[k].ids, m), Text!Prose(d[m])
                PROVE  PaddedIn(d, fs, new, t, k, m)
    BY DEF AllPadded
  <2>1. /\ k \in DOMAIN page /\ page[k].form \in {"para", "item"} /\ Has(page[k].ids, m)
        /\ new[k].pad = IF k > start THEN <<by>> \o page[k].pad ELSE page[k].pad
    BY DEF Reindented
  <2>2. ~(k > start)
    BY <2>1, NoTextIs
  <2>3. PaddedIn(d, fs, page, t, k, m)
    BY <2>1 DEF Layout, AllPadded
  <2>. QED
    BY <1>1, <2>1, <2>2, <2>3, AlikePages DEF PaddedIn
<1>3. /\ LinesPadded(d, page, ls, Base(fs[t]))
      /\ \A f \in 2..t : \E h \in 1..Len(d) : Opened(d, page, fs[f - 1], fs[f], h)
      /\ Uncut(page) /\ UncutLines(ls)
  BY DEF Layout
<1>4. \A f \in 2..t : \E h \in 1..Len(d) : Opened(d, new, fs[f - 1], fs[f], h)
  BY <1>1, <1>3, AlikePages
<1>5. LinesPadded(d, new, ls, Base(fs[t]))
  BY <1>1, <1>3, AlikePages DEF LinesPadded, Layout
<1>6. Uncut(new)
  BY <1>3, ReindentedUncut
<1>. QED
  BY <1>2, <1>3, <1>4, <1>5, <1>6 DEF Layout

(* The document's own call takes a step. *)
EvenStep(d, fs, page, ls, t, r, open, f, lines, b, s, p) ==
    /\ Text!Even(d) /\ Setup(d, fs, page, ls) /\ t = Len(fs) /\ Evenly(d, fs, page, ls, t)
    /\ InCall(fs, ls, r, open) /\ f = fs[t]
    /\ lines = f.lines /\ b = Base(f) /\ s = Shift(d, f) /\ p = f.i

LEMMA EvenStepIs ==
    ASSUME NEW d, NEW fs, NEW page, NEW ls, NEW t, NEW r, NEW open, NEW f, NEW lines, NEW b, NEW s, NEW p,
           EvenStep(d, fs, page, ls, t, r, open, f, lines, b, s, p)
    PROVE  /\ OwnStep(d, lines, b, s, ls, p, r) /\ EvenCall(d, f, lines, b, s) /\ Text!Even(d)
           /\ page \in Seq(Text!Emitted) /\ r.pieces \in Seq(Text!Emitted)
           /\ ls \in Seq(Text!Line) /\ d \in Seq(Text!Line) /\ Len(d) \in Nat
           /\ t \in Nat /\ t >= 1 /\ b \in Nat /\ s \in Nat /\ p \in Nat /\ p >= 1 /\ r.next \in Nat
           /\ p <= r.next /\ r.next <= Len(lines) + 1 /\ Len(lines) \in Nat
           /\ Reads(ls, lines, p, r) /\ Closes(lines, p, r, open) /\ Flats(lines, p, r)
           /\ Ordered(page, ls, b + p) /\ Layout(d, fs, page, ls, t) /\ Settled(d, page, b, b + p)
<1>d. /\ Text!Even(d) /\ Setup(d, fs, page, ls) /\ t = Len(fs) /\ Evenly(d, fs, page, ls, t)
      /\ InCall(fs, ls, r, open) /\ f = fs[t]
      /\ lines = f.lines /\ b = Base(f) /\ s = Shift(d, f) /\ p = f.i
  BY DEF EvenStep
<1>. USE <1>d
<1>1. /\ PageAt(d, fs, page, ls, t) /\ Layout(d, fs, page, ls, t)
      /\ Settled(d, page, Base(fs[t]), At(fs, t))
  BY DEF Evenly
<1>2. OwnStep(d, lines, b, s, ls, p, r)
  BY <1>1, OwnPage
<1>3. /\ d \in Seq(Text!Line) /\ page \in Seq(Text!Emitted) /\ ls \in Seq(Text!Line)
      /\ t \in Nat /\ t >= 1 /\ t \in 1..t /\ f.lines \in Seq(Text!Line)
  BY SetupIs
<1>4. At(fs, t) = b + p
  BY DEF At
<1>5. /\ b \in Nat /\ s \in Nat /\ Len(lines) \in Nat /\ p \in Nat /\ p >= 1 /\ r.next \in Nat
      /\ p <= r.next /\ r.next <= Len(lines) + 1 /\ r.pieces \in Seq(Text!Emitted)
  BY <1>2, OwnStepFacts
<1>6. Reads(ls, lines, p, r) /\ Closes(lines, p, r, open) /\ Flats(lines, p, r)
  BY DEF InCall, Steps
<1>7. Ordered(page, ls, b + p) /\ Chain(d, fs, t)
  BY <1>1, <1>4 DEF PageAt
<1>9. IsFrame(d, f)
  BY <1>3, <1>7 DEF Chain
<1>10. EvenCall(d, f, lines, b, s)
  BY <1>3, <1>9 DEF EvenCall
<1>11. Settled(d, page, b, b + p)
  BY <1>1, <1>4
<1>. QED
  BY <1>1, <1>2, <1>3, <1>5, <1>6, <1>7, <1>10, <1>11

(* Which lines open blocks after it. *)
OpensAsRead(d, page, lines, b, p, r) ==
    \A n \in p..r.next - 1 : OpensIn(d, page, b + n) <=> Opening(lines, r, n)

LEMMA OwnOpens ==
    ASSUME NEW d, NEW fs, NEW page, NEW ls, NEW t, NEW r, NEW open, NEW f, NEW lines, NEW b, NEW s, NEW p,
           EvenStep(d, fs, page, ls, t, r, open, f, lines, b, s, p),
           NEW new, new = page \o r.pieces
    PROVE  /\ SameOpens(d, page, new, b + p)
           /\ OpensAsRead(d, new, lines, b, p, r)
<1>1. /\ OwnStep(d, lines, b, s, ls, p, r) /\ EvenCall(d, f, lines, b, s) /\ page \in Seq(Text!Emitted)
      /\ b \in Nat /\ p \in Nat /\ r.next \in Nat /\ p >= 1
      /\ r.next <= Len(lines) + 1 /\ Len(lines) \in Nat /\ Ordered(page, ls, b + p)
  BY EvenStepIs
<1>2. ASSUME NEW forms, "para" \notin forms
      PROVE  \A m : ShownAs(new, forms, m) <=> ShownAs(page, forms, m) \/ ComesAs(p, b, r, forms, m)
  BY <1>1, <1>2, FormsMove
<1>3. "para" \notin {"title"} /\ "para" \notin {"term"}
  OBVIOUS
<1>4. SameOpens(d, page, new, b + p)
  <2>1. \A h \in 1..b + p - 1 : \A forms : ~ComesAs(p, b, r, forms, h)
    <3>. SUFFICES ASSUME NEW h \in 1..b + p - 1, NEW forms, NEW n \in p..r.next - 1, h = b + n
                  PROVE  FALSE
      BY DEF ComesAs, Place
    <3>. QED
      BY <1>1
  <2>. SUFFICES ASSUME NEW h \in 1..b + p - 1
                PROVE  OpensIn(d, new, h) <=> OpensIn(d, page, h)
    BY <1>1 DEF SameOpens
  <2>2. ShownAs(new, {"title"}, h) <=> ShownAs(page, {"title"}, h)
    BY <1>2, <1>3, <2>1
  <2>3. ShownAs(new, {"term"}, h) <=> ShownAs(page, {"term"}, h)
    BY <1>2, <1>3, <2>1
  <2>. QED
    BY <2>2, <2>3 DEF OpensIn
<1>5. ASSUME NEW n \in p..r.next - 1
      PROVE  OpensIn(d, new, b + n) <=> Opening(lines, r, n)
  <2>1. PICK m : m = b + n
    OBVIOUS
  <2>2. \A forms : ~ShownAs(page, forms, m)
    <3>. SUFFICES ASSUME NEW k \in DOMAIN page, Has(page[k].ids, m)
                  PROVE  FALSE
      BY DEF ShownAs
    <3>1. Within(page[k].ids, 1, b + p - 1)
      BY <1>1 DEF Ordered
    <3>2. m \in 1..b + p - 1
      BY <3>1, HasNumber
    <3>. QED
      BY <1>1, <1>5, <2>1, <3>2
  <2>3. \A forms : ComesAs(p, b, r, forms, m) <=> AsForm(r, n, forms)
    <3>1. ASSUME NEW forms, NEW x \in p..r.next - 1, m = b + x
          PROVE  x = n
      BY <1>1, <1>5, <2>1, <3>1
    <3>. QED
      BY <1>5, <2>1, <3>1 DEF ComesAs, Place
  <2>4. lines[n].kind = d[m].kind
    <3>1. n \in 1..Len(lines)
      BY <1>1, <1>5
    <3>2. EvenCall(d, f, lines, b, s)
      BY <1>1
    <3>3. \A x \in 1..Len(lines) : lines[x].kind = d[b + x].kind
      BY <3>2, EvenLines
    <3>. QED
      BY <2>1, <3>1, <3>3
  <2>. QED
    BY <1>2, <1>3, <2>1, <2>2, <2>3, <2>4 DEF OpensIn, Opening
<1>. QED
  BY <1>4, <1>5 DEF OpensAsRead

LEMMA PassedLater ==
    ASSUME NEW d, Len(d) \in Nat, NEW h, NEW q \in Nat, NEW u \in Nat, q <= u, Passed(d, h, q)
    PROVE  Passed(d, h, u)
BY DEF Passed

(* What opened a block is over, but for the block that the step opens. *)
SettledBut(d, page, b, q, e) ==
    \A h \in b + 1..q - 1 : OpensIn(d, page, h) => h = e \/ Passed(d, h, q)

LEMMA OwnSettles ==
    ASSUME NEW d, NEW fs, NEW page, NEW ls, NEW t, NEW r, NEW open, NEW f, NEW lines, NEW b, NEW s, NEW p,
           EvenStep(d, fs, page, ls, t, r, open, f, lines, b, s, p),
           NEW new, new = page \o r.pieces
    PROVE  /\ SettledBut(d, new, b, b + r.next, b + p)
           /\ open = FALSE => Settled(d, new, b, b + r.next)
<1>1. /\ EvenCall(d, f, lines, b, s) /\ Len(d) \in Nat
      /\ b \in Nat /\ s \in Nat /\ p \in Nat /\ r.next \in Nat /\ p <= r.next /\ p >= 1
      /\ r.next <= Len(lines) + 1 /\ Len(lines) \in Nat
      /\ Closes(lines, p, r, open) /\ Settled(d, page, b, b + p)
  BY EvenStepIs
<1>2. SameOpens(d, page, new, b + p) /\ OpensAsRead(d, new, lines, b, p, r)
  BY OwnOpens
<1>0. /\ b \in Nat /\ s \in Nat /\ Len(lines) \in Nat /\ Len(d) \in Nat /\ b + Len(lines) <= Len(d)
      /\ \A n \in 1..Len(lines) :
             /\ b + n \in 1..Len(d) /\ b + n \in Nat /\ d[b + n].indent \in Nat /\ lines[n].indent \in Nat
             /\ lines[n] \in Text!Line /\ lines[n].kind = d[b + n].kind /\ lines[n].cut = 0
             /\ (Text!Blank(lines[n]) <=> Text!Blank(d[b + n]))
             /\ ~Text!Blank(lines[n]) => d[b + n].indent = lines[n].indent + s
  <2>1. EvenCall(d, f, lines, b, s)
    BY <1>1
  <2>. QED
    BY <2>1, EvenLines
<1>3. ASSUME NEW h \in b + 1..b + p - 1, OpensIn(d, new, h)
      PROVE  Passed(d, h, b + r.next)
  <2>1. h \in 1..b + p - 1
    BY <1>1, <1>3
  <2>2. Passed(d, h, b + p)
    BY <1>1, <1>2, <1>3, <2>1 DEF SameOpens, Settled
  <2>3. b + p \in Nat /\ b + r.next \in Nat /\ b + p <= b + r.next
    BY <1>1
  <2>. QED
    BY <1>1, <2>2, <2>3, PassedLater
<1>4. ASSUME NEW n \in p..r.next - 1, Stops(lines, r.next, lines[n].indent)
      PROVE  Passed(d, b + n, b + r.next)
  <2>1. n \in 1..Len(lines) /\ r.next \in n + 1..Len(lines) + 1
    BY <1>1, <1>4
  <2>2. /\ lines[n].indent \in Nat /\ (Text!Blank(lines[n]) <=> Text!Blank(d[b + n]))
        /\ ~Text!Blank(lines[n]) => d[b + n].indent = lines[n].indent + s
    BY <1>0, <2>1
  <2>3. /\ d \in Seq(Text!Line) /\ lines \in Seq(Text!Line) /\ IsBlock(d, lines, b, s)
    BY <1>1 DEF EvenCall, IsFrame
  <2>4. CASE Text!Blank(lines[n])
    BY <2>2, <2>4 DEF Passed, Under
  <2>5. CASE ~Text!Blank(lines[n])
    <3>1. d[b + n].indent >= s
      <4>1. PICK x, y : x = d[b + n].indent /\ y = lines[n].indent
        OBVIOUS
      <4>2. s \in Nat
        BY <1>1
      <4>3. y \in Nat /\ x = y + s
        BY <2>2, <2>5, <4>1
      <4>. QED
        BY <4>1, <4>2, <4>3
    <3>. QED
      BY <1>1, <1>4, <2>1, <2>3, <2>5, <3>1, PassedBy DEF EvenCall
  <2>. QED
    BY <2>4, <2>5
<1>5. \A n \in p..r.next - 1 : OpensIn(d, new, b + n) =>
          /\ n = p \/ Passed(d, b + n, b + r.next)
          /\ open = FALSE => Passed(d, b + n, b + r.next)
  <2>. SUFFICES ASSUME NEW n \in p..r.next - 1, OpensIn(d, new, b + n)
                PROVE  /\ n = p \/ Passed(d, b + n, b + r.next)
                       /\ open = FALSE => Passed(d, b + n, b + r.next)
    OBVIOUS
  <2>1. Opening(lines, r, n)
    BY <1>2 DEF OpensAsRead
  <2>2. /\ Stops(lines, r.next, lines[n].indent) \/ n = p
        /\ open = FALSE => Stops(lines, r.next, lines[n].indent)
    BY <1>1, <2>1 DEF Closes
  <2>. QED
    BY <1>4, <2>2
<1>6. \A h \in b + 1..b + r.next - 1 :
          h \in b + 1..b + p - 1 \/ \E n \in p..r.next - 1 : h = b + n
  <2>. SUFFICES ASSUME NEW h \in b + 1..b + r.next - 1, h \notin b + 1..b + p - 1
                PROVE  \E n \in p..r.next - 1 : h = b + n
    OBVIOUS
  <2>1. PICK n : n = h - b
    OBVIOUS
  <2>2. n \in p..r.next - 1 /\ h = b + n
    BY <1>1, <2>1
  <2>. QED
    BY <2>2
<1>7. SettledBut(d, new, b, b + r.next, b + p)
  <2>. SUFFICES ASSUME NEW h \in b + 1..b + r.next - 1, OpensIn(d, new, h), h # b + p
                PROVE  Passed(d, h, b + r.next)
    BY <1>1 DEF SettledBut
  <2>1. CASE h \in b + 1..b + p - 1
    BY <1>3, <2>1
  <2>2. CASE \E n \in p..r.next - 1 : h = b + n
    BY <1>5, <2>2
  <2>. QED
    BY <1>6, <2>1, <2>2
<1>8. ASSUME open = FALSE PROVE Settled(d, new, b, b + r.next)
  <2>. SUFFICES ASSUME NEW h \in b + 1..b + r.next - 1, OpensIn(d, new, h)
                PROVE  Passed(d, h, b + r.next)
    BY <1>1 DEF Settled
  <2>1. CASE h \in b + 1..b + p - 1
    BY <1>3, <2>1
  <2>2. CASE \E n \in p..r.next - 1 : h = b + n
    BY <1>5, <1>8, <2>2
  <2>. QED
    BY <1>6, <2>1, <2>2
<1>. QED
  BY <1>7, <1>8

LEMMA BareIs ==
    ASSUME NEW d, NEW page, NEW m \in Nat, NEW b \in Nat, b < m,
           \A h \in b + 1..m - 1 : ~OpenOver(d, page, h, m)
    PROVE  Padded(d, page, m, <<>>, b)
<1>1. PICK none : none = <<>>
  OBVIOUS
<1>2. Len(none) = 0 /\ 1..Len(none) = {}
  BY <1>1
<1>3. PICK hs : hs = [x \in 1..Len(none) |-> x]
  OBVIOUS
<1>4. hs \in [1..Len(none) -> b + 1..m - 1]
  BY <1>2, <1>3
<1>5. PadsOf(d, page, m, none, b, hs)
  BY <1>2 DEF PadsOf
<1>6. Padded(d, page, m, none, b)
  BY <1>4, <1>5 DEF Padded
<1>. QED
  BY <1>1, <1>6

(* The line that is read stands in no block of its call. *)
LEMMA OwnLineIsBare ==
    ASSUME NEW d, NEW fs, NEW page, NEW ls, NEW t, NEW r, NEW open, NEW f, NEW lines, NEW b, NEW s, NEW p,
           EvenStep(d, fs, page, ls, t, r, open, f, lines, b, s, p),
           NEW new, new = page \o r.pieces, NEW m \in 1..Len(d), m = b + p, Text!Prose(d[m])
    PROVE  Padded(d, new, m, <<>>, b)
<1>1. b \in Nat /\ p \in Nat /\ p >= 1 /\ Settled(d, page, b, b + p) /\ Len(d) \in Nat
  BY EvenStepIs
<1>2. SameOpens(d, page, new, b + p)
  BY OwnOpens
<1>3. m \in Nat /\ b < m /\ m \in m..Len(d)
  BY <1>1
<1>4. ASSUME NEW h \in b + 1..m - 1, OpenOver(d, new, h, m)
      PROVE  FALSE
  <2>1. h \in 1..b + p - 1 /\ h \in b + 1..b + p - 1
    BY <1>1, <1>4
  <2>2. OpensIn(d, page, h) /\ Under(d, h, m)
    BY <1>2, <1>4, <2>1 DEF SameOpens, OpenOver
  <2>3. Passed(d, h, m)
    BY <1>1, <2>1, <2>2 DEF Settled
  <2>4. Text!Blank(d[m])
    BY <1>3, <2>2, <2>3 DEF Passed
  <2>. QED
    BY <2>4 DEF Text!Blank, Text!Prose
<1>. QED
  BY <1>1, <1>3, <1>4, BareIs

(* The paragraph stands where its lines do. *)
LEMMA OwnParagraph ==
    ASSUME NEW d, NEW fs, NEW page, NEW ls, NEW t, NEW r, NEW open, NEW f, NEW lines, NEW b, NEW s, NEW p,
           EvenStep(d, fs, page, ls, t, r, open, f, lines, b, s, p),
           NEW new, new = page \o r.pieces, NEW all, all = All(ls, lines, p, r)
    PROVE  LinesPadded(d, new, all, b) /\ UncutLines(all)
<1>1. /\ OwnStep(d, lines, b, s, ls, p, r) /\ EvenCall(d, f, lines, b, s)
      /\ ls \in Seq(Text!Line) /\ b \in Nat /\ p \in Nat /\ p >= 1 /\ r.next \in Nat
      /\ r.next <= Len(lines) + 1 /\ Len(lines) \in Nat /\ Len(d) \in Nat
      /\ Reads(ls, lines, p, r) /\ Ordered(page, ls, b + p) /\ Layout(d, fs, page, ls, t)
  BY EvenStepIs
<1>2. SameOpens(d, page, new, b + p)
  BY OwnOpens
<1>3. \A m : Has(LineIds(all), m) <=> Has(LineIds(ls), m) \/ (r.own /\ m = b + p)
  <2>1. OwnStep(d, lines, b, s, ls, p, r) /\ Ordered(page, ls, b + p)
    BY <1>1
  <2>2. /\ all \in Seq(Text!Line) /\ Rising(LineIds(all)) /\ Within(LineIds(all), 1, b + r.next - 1)
        /\ \A m : Has(LineIds(all), m) <=> Has(LineIds(ls), m) \/ (r.own /\ m = b + p)
        /\ \A ids : Within(ids, 1, b + p - 1) /\ Before(ids, LineIds(ls)) => Before(ids, LineIds(all))
        /\ \A k \in Rest(r), n \in DOMAIN LineIds(all) :
               OfText(LineIds(all)[n]) => LineIds(all)[n][2] < b + r.at[k]
    BY <2>1, ParagraphAfter
  <2>. QED
    BY <2>2
<1>4. LinesPadded(d, page, ls, b) /\ UncutLines(ls)
  <2>1. b = Base(fs[t])
    BY DEF EvenStep
  <2>. QED
    BY <1>1, <2>1 DEF Layout
<1>5. LinesPadded(d, new, all, b)
  <2>. SUFFICES ASSUME NEW m \in 1..Len(d), Has(LineIds(all), m), Text!Prose(d[m])
                PROVE  Padded(d, new, m, <<>>, b)
    BY DEF LinesPadded
  <2>1. CASE Has(LineIds(ls), m)
    <3>1. Padded(d, page, m, <<>>, b)
      BY <1>4, <2>1 DEF LinesPadded
    <3>2. Within(LineIds(ls), 1, b + p - 1)
      BY <1>1 DEF Ordered
    <3>3. m \in 1..b + p - 1
      BY <2>1, <3>2, HasNumber
    <3>4. m \in Nat /\ b + p \in Nat /\ m <= b + p
      BY <1>1, <3>3
    <3>. QED
      BY <1>1, <1>2, <3>1, <3>4, PaddedStays
  <2>2. CASE m = b + p
    BY <2>2, OwnLineIsBare
  <2>. QED
    BY <1>3, <2>1, <2>2
<1>6. UncutLines(all)
  <2>1. CASE ~r.own
    BY <1>4, <2>1 DEF All
  <2>2. CASE r.own
    <3>1. p \in 1..Len(lines)
      BY <1>1, <2>2, OwnStepFacts
    <3>2. PICK l : l = lines[p]
      OBVIOUS
    <3>3. l \in Text!Line /\ l.cut = 0
      BY <1>1, <3>1, <3>2, EvenLines
    <3>4. all = Append(ls, l)
      BY <2>2, <3>2 DEF All
    <3>5. /\ Len(ls) \in Nat /\ DOMAIN all = 1..Len(ls) + 1 /\ all[Len(ls) + 1] = l
          /\ \A n \in 1..Len(ls) : all[n] = ls[n]
      BY <1>1, <3>3, <3>4
    <3>6. \A n \in DOMAIN all : n \in 1..Len(ls) \/ n = Len(ls) + 1
      BY <3>5
    <3>7. DOMAIN ls = 1..Len(ls)
      BY <1>1
    <3>. QED
      BY <1>4, <3>3, <3>5, <3>6, <3>7 DEF UncutLines
  <2>. QED
    BY <2>1, <2>2
<1>. QED
  BY <1>5, <1>6

(* The other pieces lost nothing. *)
LEMMA OwnUncut ==
    ASSUME NEW d, NEW fs, NEW page, NEW ls, NEW t, NEW r, NEW open, NEW f, NEW lines, NEW b, NEW s, NEW p,
           EvenStep(d, fs, page, ls, t, r, open, f, lines, b, s, p),
           NEW k \in Rest(r)
    PROVE  ~r.pieces[k].cut
<1>. SUFFICES ASSUME r.pieces[k].cut PROVE FALSE
  OBVIOUS
<1>1. /\ OwnStep(d, lines, b, s, ls, p, r) /\ EvenCall(d, f, lines, b, s) /\ Text!Even(d)
      /\ p \in Nat /\ p >= 1 /\ r.next \in Nat /\ r.next <= Len(lines) + 1 /\ Len(lines) \in Nat
      /\ Flats(lines, p, r)
  BY EvenStepIs
<1>2. PICK n : n = r.at[k]
  OBVIOUS
<1>3. n \in p..r.next - 1
  BY <1>1, <1>2, PieceOfLine
<1>4. r.pieces[k].form # "flat" => lines[n].cut > 0
  BY <1>1, <1>2, PieceOfLine
<1>5. n \in 1..Len(lines)
  BY <1>1, <1>3
<1>6. lines[n].cut = 0 /\ lines[n] \in Text!Line /\ lines[n].indent \in Nat
  BY <1>1, <1>5, EvenLines
<1>7. CASE r.pieces[k].form # "flat"
  BY <1>4, <1>6, <1>7
<1>8. CASE r.pieces[k].form = "flat"
  <2>1. PICK first, end :
            /\ BlockBelow(lines, p, first, end) /\ n \in first..end - 1
            /\ Text!Dedent(lines[n], lines[first].indent).cut > 0
    BY <1>1, <1>2, <1>8 DEF Flats
  <2>2. p \in 1..Len(lines)
    <3>1. first \in p + 1..Len(lines)
      BY <2>1 DEF BlockBelow
    <3>. QED
      BY <1>1, <3>1
  <2>3. EvenBlock(d, f, lines, b, s, p, first, end)
    BY <1>1, <2>1, <2>2 DEF EvenBlock
  <2>4. Text!Blank(lines[n]) \/ lines[n].indent >= lines[first].indent
    BY <2>1, <2>3, EvenBelow
  <2>5. PICK l, by : l = lines[n] /\ by = lines[first].indent
    OBVIOUS
  <2>6. l \in Text!Line /\ l.cut = 0 /\ (Text!Blank(l) \/ l.indent >= by)
    BY <1>6, <2>4, <2>5
  <2>7. Text!Dedent(l, by).cut = 0
    BY <2>6 DEF Text!Dedent, Text!Line
  <2>. QED
    BY <2>1, <2>5, <2>7
<1>. QED
  BY <1>7, <1>8

LEMMA NoLines ==
    ASSUME NEW d, NEW page, NEW b
    PROVE  LinesPadded(d, page, <<>>, b) /\ UncutLines(<<>>)
<1>1. LineIds(<<>>) = <<>> /\ \A m : ~Has(<<>>, m)
  BY EmptyIds
<1>. QED
  BY <1>1 DEF LinesPadded, UncutLines

(* The calls of the document. *)
LEMMA CallsOfDocument ==
    ASSUME NEW d, NEW fs, NEW page, NEW ls, NEW t, Setup(d, fs, page, ls), PageAt(d, fs, page, ls, t)
    PROVE  /\ t \in Nat /\ t >= 1 /\ t <= Len(fs)
           /\ \A g \in 1..t : /\ Base(fs[g]) \in Nat /\ Base(fs[g]) <= Base(fs[t])
                              /\ fs[g].start \in Nat /\ fs[g].start <= Len(page)
<1>1. Chain(d, fs, t)
  BY DEF PageAt
<1>2. /\ t \in 1..Len(fs) /\ \A f \in 1..t : IsFrame(d, fs[f])
      /\ \A f, g \in 1..t : f < g => Base(fs[f]) <= Base(fs[g]) /\ End(fs[g]) <= End(fs[f])
  BY <1>1 DEF Chain
<1>3. Len(fs) \in Nat /\ \A f \in 1..Len(fs) : fs[f].start \in Nat /\ fs[f].start <= Len(page)
  BY SetupIs
<1>4. t \in Nat /\ t >= 1 /\ t <= Len(fs) /\ t \in 1..t
  BY <1>2, <1>3
<1>5. ASSUME NEW g \in 1..t
      PROVE  /\ Base(fs[g]) \in Nat /\ Base(fs[g]) <= Base(fs[t])
             /\ fs[g].start \in Nat /\ fs[g].start <= Len(page)
  <2>1. g \in 1..Len(fs)
    BY <1>3, <1>4
  <2>2. Base(fs[g]) \in Nat
    BY <1>2 DEF IsFrame, IsBlock
  <2>3. Base(fs[g]) <= Base(fs[t])
    <3>1. CASE g = t
      BY <2>2, <3>1
    <3>2. CASE g < t
      BY <1>2, <1>4, <3>2
    <3>. QED
      BY <1>4, <3>1, <3>2
  <2>. QED
    BY <1>3, <2>1, <2>2, <2>3
<1>. QED
  BY <1>4, <1>5

(* What is emitted now is given by the call at hand. *)
LEMMA GivenNow ==
    ASSUME NEW d, NEW fs, NEW page, NEW ls, NEW t, Setup(d, fs, page, ls), PageAt(d, fs, page, ls, t),
           NEW k \in Nat, Len(page) < k
    PROVE  GivenIn(fs, t, k, t)
<1>1. Len(page) \in Nat
  BY SetupIs
<1>2. /\ t \in Nat /\ t >= 1
      /\ \A g \in 1..t : fs[g].start \in Nat /\ fs[g].start <= Len(page)
  BY CallsOfDocument
<1>3. \A g \in 2..t : fs[g].start < k
  BY <1>1, <1>2
<1>4. t \in 1..t /\ t + 1..t = {}
  BY <1>2
<1>. QED
  BY <1>3, <1>4 DEF GivenIn

(* What a step of the document's own call gives stands where its line does. *)
LEMMA OwnPadded ==
    ASSUME NEW d, NEW fs, NEW page, NEW ls, NEW t, NEW r, NEW open, NEW f, NEW lines, NEW b, NEW s, NEW p,
           EvenStep(d, fs, page, ls, t, r, open, f, lines, b, s, p),
           NEW new, new = page \o r.pieces
    PROVE  AllPadded(d, fs, new, t)
<1>1. /\ OwnStep(d, lines, b, s, ls, p, r) /\ page \in Seq(Text!Emitted) /\ b \in Nat /\ p \in Nat
      /\ Reads(ls, lines, p, r) /\ Ordered(page, ls, b + p) /\ Layout(d, fs, page, ls, t)
  BY EvenStepIs
<1>2. SameOpens(d, page, new, b + p)
  BY OwnOpens
<1>3. Setup(d, fs, page, ls) /\ PageAt(d, fs, page, ls, t) /\ b = Base(fs[t])
  BY DEF EvenStep, Evenly
<1>4. t \in Nat /\ t >= 1 /\ \A g \in 1..t : Base(fs[g]) \in Nat
  BY <1>3, CallsOfDocument
<1>5. PICK all : all = All(ls, lines, p, r)
  OBVIOUS
<1>6. SUFFICES ASSUME NEW k \in DOMAIN new, new[k].form \in {"para", "item"}, NEW m \in 1..Len(d),
                      Has(new[k].ids, m), Text!Prose(d[m])
               PROVE  PaddedIn(d, fs, new, t, k, m)
  BY DEF AllPadded
<1>7. /\ Len(page) \in Nat /\ DOMAIN new = 1..Len(page) + Len(r.pieces)
      /\ \/ k \in DOMAIN page /\ new[k] = page[k]
         \/ /\ k = Len(page) + 1 /\ r.head = 1 /\ IsParagraph(new[k], All(ls, lines, p, r))
         \/ /\ k - Len(page) \in Rest(r) /\ k > Len(page)
            /\ new[k] = r.pieces[k - Len(page)]
  BY <1>1, <1>6, PiecesAfter
<1>8. ASSUME k > Len(page), new[k].pad = <<>>, Padded(d, new, m, <<>>, b)
      PROVE  PaddedIn(d, fs, new, t, k, m)
  <2>1. k \in Nat
    BY <1>6, <1>7
  <2>2. GivenIn(fs, t, k, t)
    BY <1>3, <1>7, <1>8, <2>1, GivenNow
  <2>3. t \in 1..t
    BY <1>4
  <2>. QED
    BY <1>3, <1>8, <2>2, <2>3 DEF PaddedIn
<1>9. CASE k \in DOMAIN page /\ new[k] = page[k]
  <2>1. PaddedIn(d, fs, page, t, k, m)
    BY <1>1, <1>6, <1>9 DEF Layout, AllPadded
  <2>2. Within(page[k].ids, 1, b + p - 1)
    BY <1>1, <1>9 DEF Ordered
  <2>3. m \in 1..b + p - 1
    BY <1>6, <1>9, <2>2, HasNumber
  <2>4. m \in Nat /\ b + p \in Nat /\ m <= b + p
    BY <1>1, <2>3
  <2>. QED
    BY <1>2, <1>4, <1>9, <2>1, <2>4, PaddedInStays
<1>10. CASE k = Len(page) + 1 /\ IsParagraph(new[k], all)
  <2>1. LinesPadded(d, new, all, b)
    BY <1>5, OwnParagraph
  <2>2. new[k].ids = LineIds(all) /\ new[k].pad = <<>>
    BY <1>10 DEF IsParagraph
  <2>3. Padded(d, new, m, <<>>, b)
    BY <1>6, <2>1, <2>2 DEF LinesPadded
  <2>. QED
    BY <1>7, <1>8, <1>10, <2>2, <2>3
<1>11. CASE k - Len(page) \in Rest(r) /\ k > Len(page) /\ new[k] = r.pieces[k - Len(page)]
  <2>1. PICK j : j = k - Len(page)
    OBVIOUS
  <2>2. j \in Rest(r) /\ new[k] = r.pieces[j]
    BY <1>11, <2>1
  <2>3. r.pieces[j].form # "para"
    BY <1>1, <2>2 DEF Reads
  <2>4. r.pieces[j].form = "item"
    BY <1>6, <2>2, <2>3
  <2>5. r.at[j] = p /\ r.pieces[j].pad = <<>>
    BY <1>1, <2>2, <2>4 DEF Reads
  <2>6. ShowsItsLine(r, b, j)
    BY <1>1, <2>2, PieceOfLine
  <2>7. m = b + p
    BY <1>6, <2>2, <2>5, <2>6 DEF ShowsItsLine, Place
  <2>8. Padded(d, new, m, <<>>, b)
    BY <1>6, <2>7, OwnLineIsBare
  <2>. QED
    BY <1>8, <1>11, <2>2, <2>5, <2>8
<1>. QED
  BY <1>5, <1>7, <1>9, <1>10, <1>11

LEMMA OwnLayout ==
    ASSUME NEW d, NEW fs, NEW page, NEW ls, NEW t, NEW r, NEW open, NEW f, NEW lines, NEW b, NEW s, NEW p,
           EvenStep(d, fs, page, ls, t, r, open, f, lines, b, s, p),
           NEW new, new = page \o r.pieces
    PROVE  Layout(d, fs, new, r.para, t)
<1>1. /\ page \in Seq(Text!Emitted) /\ b \in Nat /\ p \in Nat /\ p >= 1 /\ t \in Nat
      /\ Reads(ls, lines, p, r) /\ Layout(d, fs, page, ls, t)
  BY EvenStepIs
<1>2. SameOpens(d, page, new, b + p)
  BY OwnOpens
<1>3. Setup(d, fs, page, ls) /\ PageAt(d, fs, page, ls, t) /\ b = Base(fs[t])
  BY DEF EvenStep, Evenly
<1>4. \A g \in 1..t : Base(fs[g]) \in Nat /\ Base(fs[g]) <= b
  BY <1>3, CallsOfDocument
<1>5. PICK all : all = All(ls, lines, p, r)
  OBVIOUS
<1>6. LinesPadded(d, new, all, b) /\ UncutLines(all)
  BY <1>5, OwnParagraph
<1>7. r.para = <<>> \/ r.para = all
  BY <1>1, <1>5 DEF Reads
<1>8. LinesPadded(d, new, r.para, b) /\ UncutLines(r.para)
  BY <1>6, <1>7, NoLines
<1>10. \A g \in 2..t : \E h \in 1..Len(d) : Opened(d, new, fs[g - 1], fs[g], h)
  <2>. SUFFICES ASSUME NEW g \in 2..t
                PROVE  \E h \in 1..Len(d) : Opened(d, new, fs[g - 1], fs[g], h)
    OBVIOUS
  <2>1. PICK h \in 1..Len(d) : Opened(d, page, fs[g - 1], fs[g], h)
    BY <1>1 DEF Layout
  <2>2. PICK e : e = g - 1
    OBVIOUS
  <2>3. e \in 1..t /\ g \in 1..t
    BY <1>1, <2>2
  <2>4. b + p \in Nat /\ Base(fs[e]) \in Nat /\ Base(fs[g]) \in Nat /\ Base(fs[g]) < b + p
    BY <1>1, <1>4, <2>3
  <2>5. Opened(d, new, fs[e], fs[g], h)
    BY <1>2, <2>1, <2>2, <2>4, OpenedStays
  <2>. QED
    BY <2>2, <2>5
<1>11. Uncut(new)
  <2>. SUFFICES ASSUME NEW k \in DOMAIN new, new[k].cut
                PROVE  \E n \in DOMAIN new[k].ids : ~OfText(new[k].ids[n])
    BY DEF Uncut, CutElsewhere
  <2>1. \/ k \in DOMAIN page /\ new[k] = page[k]
        \/ IsParagraph(new[k], All(ls, lines, p, r))
        \/ k - Len(page) \in Rest(r) /\ new[k] = r.pieces[k - Len(page)]
    BY <1>1, PiecesAfter
  <2>2. CASE k \in DOMAIN page /\ new[k] = page[k]
    BY <1>1, <2>2 DEF Layout, Uncut, CutElsewhere
  <2>3. CASE IsParagraph(new[k], all)
    <3>1. PICK n \in DOMAIN all : all[n].cut > 0
      BY <2>3 DEF IsParagraph
    <3>2. new[k].ids = [x \in DOMAIN all |-> all[x].id]
      BY <2>3 DEF IsParagraph, LineIds
    <3>3. ~OfText(all[n].id)
      BY <1>6, <3>1 DEF UncutLines
    <3>. QED
      BY <3>1, <3>2, <3>3
  <2>4. CASE k - Len(page) \in Rest(r) /\ new[k] = r.pieces[k - Len(page)]
    BY <2>4, OwnUncut
  <2>. QED
    BY <1>5, <2>1, <2>2, <2>3, <2>4
<1>12. AllPadded(d, fs, new, t)
  BY OwnPadded
<1>. QED
  BY <1>3, <1>8, <1>10, <1>11, <1>12 DEF Layout

-----------------------------------------------------------------------------
(* The steps of the conversion of an even document.                         *)

(* A file is read. *)
LEMMA ForeignLayout ==
    ASSUME NEW d, NEW fs, NEW page, NEW ls, Setup(d, fs, page, ls),
           NEW t, Evenly(d, fs, page, ls, t), t < Len(fs),
           NEW r, NEW open, InCall(fs, ls, r, open), NEW new, new = page \o r.pieces
    PROVE  /\ Layout(d, fs, new, r.para, t) /\ Settled(d, new, Base(fs[t]), At(fs, t))
           /\ Blind(r.pieces) /\ r.pieces \in Seq(Text!Emitted) /\ page \in Seq(Text!Emitted)
<1>1. /\ PageAt(d, fs, page, ls, t) /\ Layout(d, fs, page, ls, t)
      /\ Settled(d, page, Base(fs[t]), At(fs, t))
  BY DEF Evenly
<1>2. Blind(r.pieces) /\ NoText(LineIds(r.para)) /\ r.pieces \in Seq(Text!Emitted)
  BY <1>1, ForeignPage
<1>3. page \in Seq(Text!Emitted)
  BY SetupIs
<1>4. PICK lines, p : Reads(ls, lines, p, r)
  BY DEF InCall, Steps
<1>5. \A k \in 1..Len(r.pieces) : r.pieces[k].cut => \E n : n \in DOMAIN r.pieces[k].ids
  BY <1>4, CutCarries
<1>6. PICK left : left = r.para
  OBVIOUS
<1>7. Layout(d, fs, new, left, t) /\ OpensAlike(d, page, new)
  BY <1>1, <1>2, <1>3, <1>5, <1>6, BlindLayout
<1>8. Settled(d, new, Base(fs[t]), At(fs, t))
  BY <1>1, <1>7, AlikePages
<1>. QED
  BY <1>2, <1>3, <1>6, <1>7, <1>8

(* Calls are made or return, and the page is as it is. *)
LEMMA EvenlyStays ==
    ASSUME NEW d, NEW fs, NEW ns, NEW n, SameCalls(fs, ns, n), NEW t \in Nat, t >= 1, t <= n,
           NEW page, NEW ls, Layout(d, fs, page, ls, t), NEW q, Settled(d, page, Base(fs[t]), q),
           At(ns, t) = q, PageAt(d, ns, page, ls, t)
    PROVE  Evenly(d, ns, page, ls, t)
<1>1. Layout(d, ns, page, ls, t)
  BY LayoutStays
<1>2. t \in 1..n
  BY DEF SameCalls
<1>3. Alike(ns[t], fs[t])
  BY <1>2 DEF SameCalls
<1>4. Base(ns[t]) = Base(fs[t])
  BY <1>3, AlikeIs
<1>. QED
  BY <1>1, <1>4 DEF Evenly

LEMMA ForeignOnward ==
    ASSUME NEW d, NEW fs, NEW page, NEW ls, Setup(d, fs, page, ls),
           NEW t, Evenly(d, fs, page, ls, t), t < Len(fs),
           NEW r, NEW open, InCall(fs, ls, r, open), NEW new, new = page \o r.pieces,
           NEW ns, NEW n, SameCalls(fs, ns, n), t < n, PageAt(d, ns, new, r.para, t)
    PROVE  Evenly(d, ns, new, r.para, t)
<1>1. Layout(d, fs, new, r.para, t) /\ Settled(d, new, Base(fs[t]), At(fs, t))
  BY ForeignLayout
<1>2. PageAt(d, fs, page, ls, t)
  BY DEF Evenly
<1>3. t \in Nat /\ t >= 1
  BY <1>2, CallsOfDocument
<1>4. n \in Nat /\ t \in 1..n /\ t <= n
  BY <1>3 DEF SameCalls
<1>5. At(ns, t) = At(fs, t)
  BY <1>4, AtStays
<1>6. PICK left, q : left = r.para /\ q = At(fs, t)
  OBVIOUS
<1>7. Evenly(d, ns, new, left, t)
  BY <1>1, <1>3, <1>4, <1>5, <1>6, EvenlyStays
<1>. QED
  BY <1>6, <1>7

(* The document's own call goes on, in its lines or with a file. *)
LEMMA OwnOnward ==
    ASSUME NEW d, Text!Even(d), NEW fs, NEW page, NEW ls, Setup(d, fs, page, ls),
           NEW t, Evenly(d, fs, page, ls, t), t = Len(fs),
           NEW r, NEW open, open = FALSE, InCall(fs, ls, r, open), NEW new, new = page \o r.pieces,
           NEW ns, SameCalls(fs, ns, t), ns[t].i = r.next, PageAt(d, ns, new, r.para, t)
    PROVE  Evenly(d, ns, new, r.para, t)
<1>1. PICK f : f = fs[t]
  OBVIOUS
<1>2. PICK lines, b, s, p : lines = f.lines /\ b = Base(f) /\ s = Shift(d, f) /\ p = f.i
  OBVIOUS
<1>3. EvenStep(d, fs, page, ls, t, r, open, f, lines, b, s, p)
  BY <1>1, <1>2 DEF EvenStep
<1>4. Layout(d, fs, new, r.para, t)
  BY <1>3, OwnLayout
<1>5. Settled(d, new, b, b + r.next)
  BY <1>3, OwnSettles
<1>6. t \in Nat /\ t >= 1 /\ t <= t
  BY <1>3, EvenStepIs
<1>7. At(ns, t) = b + r.next
  <2>1. t \in 1..t
    BY <1>6
  <2>2. Alike(ns[t], fs[t])
    BY <2>1 DEF SameCalls
  <2>3. Base(ns[t]) = b
    BY <1>1, <1>2, <2>2, AlikeIs
  <2>. QED
    BY <2>3 DEF At
<1>8. PICK left, q : left = r.para /\ q = b + r.next
  OBVIOUS
<1>9. Settled(d, new, Base(fs[t]), q)
  BY <1>1, <1>2, <1>5, <1>8
<1>10. Evenly(d, ns, new, left, t)
  BY <1>4, <1>6, <1>7, <1>8, <1>9, EvenlyStays
<1>. QED
  BY <1>8, <1>10

LEMMA EvenOnward ==
    ASSUME NEW d, Text!Even(d), NEW fs, NEW page, NEW ls, Setup(d, fs, page, ls),
           NEW t, Evenly(d, fs, page, ls, t),
           NEW r, NEW open, open = FALSE, InCall(fs, ls, r, open), NEW new, new = page \o r.pieces,
           NEW ns, SameCalls(fs, ns, Len(fs)), ns[Len(fs)].i = r.next, PageAt(d, ns, new, r.para, t)
    PROVE  Evenly(d, ns, new, r.para, t)
<1>1. PageAt(d, fs, page, ls, t)
  BY DEF Evenly
<1>2. t \in Nat /\ t <= Len(fs) /\ Len(fs) \in Nat
  BY <1>1, CallsOfDocument, SetupIs
<1>3. CASE t < Len(fs)
  <2>1. PICK n : n = Len(fs)
    OBVIOUS
  <2>2. SameCalls(fs, ns, n) /\ t < n
    BY <1>3, <2>1
  <2>. QED
    BY <1>3, <2>2, ForeignOnward
<1>4. CASE t = Len(fs)
  <2>1. SameCalls(fs, ns, t) /\ ns[t].i = r.next
    BY <1>4
  <2>. QED
    BY <1>4, <2>1, OwnOnward
<1>. QED
  BY <1>2, <1>3, <1>4

(* A block is read. *)
EnterEven(d, fs, page, ls, t, r, open, f, end, g, new, ns) ==
    /\ Enters(d, fs, page, ls, t, r, open, f, end, g, new, ns)
    /\ Text!Even(d) /\ Evenly(d, fs, page, ls, t)
    /\ Opening(f.lines, r, f.i) /\ g.indent = Text!BlockIndent(f.lines[f.i])

LEMMA NestOpened ==
    ASSUME NEW d, NEW fs, NEW page, NEW ls, NEW t, NEW r, NEW open, NEW f, NEW end, NEW g,
           NEW new, NEW ns, EnterEven(d, fs, page, ls, t, r, open, f, end, g, new, ns), t = Len(fs)
    PROVE  /\ Layout(d, fs, new, <<>>, t)
           /\ \E h \in 1..Len(d) : Opened(d, new, f, g, h)
           /\ Base(g) \in Nat
<1>d. /\ Setup(d, fs, page, ls) /\ InCall(fs, ls, r, open)
      /\ r.para = <<>> /\ f = fs[t] /\ BlockBelow(f.lines, f.i, r.next, end)
      /\ IsInner(g, f, r.next, end) /\ new = page \o r.pieces
      /\ Text!Even(d) /\ Evenly(d, fs, page, ls, t)
      /\ Opening(f.lines, r, f.i) /\ g.indent = Text!BlockIndent(f.lines[f.i])
  BY DEF EnterEven, Enters
<1>1. PICK lines, b, s, p, first :
          lines = f.lines /\ b = Base(f) /\ s = Shift(d, f) /\ p = f.i /\ first = r.next
  OBVIOUS
<1>2. EvenStep(d, fs, page, ls, t, r, open, f, lines, b, s, p)
  BY <1>d, <1>1 DEF EvenStep
<1>3. /\ EvenCall(d, f, lines, b, s) /\ Text!Even(d) /\ d \in Seq(Text!Line) /\ Len(d) \in Nat
      /\ b \in Nat /\ s \in Nat /\ p \in Nat /\ p >= 1 /\ Len(lines) \in Nat
  BY <1>2, EvenStepIs
<1>4. /\ BlockBelow(lines, p, first, end) /\ Stops(lines, end, lines[p].indent)
      /\ first \in p + 1..Len(lines) /\ end \in first + 1..Len(lines) + 1
  BY <1>d, <1>1 DEF BlockBelow
<1>5. /\ p \in 1..Len(lines) /\ end \in p + 1..Len(lines) + 1 /\ first \in Nat /\ end \in Nat
      /\ p < first /\ first < end /\ p \in p..first - 1 /\ p \in p..end - 1
  BY <1>3, <1>4
<1>6. EvenBlock(d, f, lines, b, s, p, first, end)
  BY <1>3, <1>4, <1>5 DEF EvenBlock
<1>7. /\ f.lines \in Seq(Text!Line) /\ IsFrame(d, f) /\ IsBlock(d, lines, b, s) /\ lines \in Seq(Text!Line)
  BY <1>1, <1>3 DEF EvenCall, IsFrame
<1>8. g.source = "block" /\ g.lines = Cut(lines, first, end)
  BY <1>d, <1>1 DEF IsInner
<1>9. IsBelow(d, f, lines, p, first, end, g)
  <2>1. InBlock(d, f, lines, p, first, end, g)
    BY <1>1, <1>3, <1>4, <1>5, <1>7, <1>8 DEF InBlock
  <2>. QED
    BY <2>1, InnerIs
<1>10. Base(g) = b + (first - 1) /\ End(g) = b + end
  BY <1>1, <1>9 DEF IsBelow
<1>12. Layout(d, fs, new, <<>>, t)
  <2>1. Layout(d, fs, new, r.para, t)
    BY <1>d, <1>2, OwnLayout
  <2>. QED
    BY <1>d, <2>1
<1>13. PICK h, k : h = b + p /\ k = lines[p].kind
  OBVIOUS
<1>14. /\ b + p \in 1..Len(d) /\ d[b + p].indent \in Nat /\ lines[p].indent \in Nat
       /\ lines[p].kind = d[b + p].kind
       /\ (Text!Blank(lines[p]) <=> Text!Blank(d[b + p])) /\ ~Text!Blank(lines[p])
       /\ ~Text!Blank(lines[p]) => d[b + p].indent = lines[p].indent + s
  <2>1. /\ ~Text!Blank(lines[p])
        /\ \A n \in p..end - 1 :
               /\ b + n \in 1..Len(d) /\ d[b + n].indent \in Nat /\ lines[n].indent \in Nat
               /\ lines[n].kind = d[b + n].kind
               /\ (Text!Blank(lines[n]) <=> Text!Blank(d[b + n]))
               /\ ~Text!Blank(lines[n]) => d[b + n].indent = lines[n].indent + s
    BY <1>6, EvenBlockIs
  <2>. QED
    BY <1>5, <2>1
<1>15. OpensIn(d, new, h)
  <2>1. OpensAsRead(d, new, lines, b, p, r)
    BY <1>d, <1>2, OwnOpens
  <2>2. Opening(lines, r, p) /\ p \in p..r.next - 1
    BY <1>d, <1>1, <1>5
  <2>. QED
    BY <1>13, <2>1, <2>2 DEF OpensAsRead
<1>16. g.indent = Text!BlockIndent(d[h])
  BY <1>d, <1>1, <1>13, <1>14 DEF Text!BlockIndent
<1>17. \A n \in h + 1..End(g) - 1 : Text!Blank(d[n]) \/ d[n].indent > d[h].indent
  <2>. SUFFICES ASSUME NEW n \in h + 1..End(g) - 1
                PROVE  Text!Blank(d[n]) \/ d[n].indent > d[h].indent
    OBVIOUS
  <2>1. n \in b + p + 1..b + end - 1
    BY <1>3, <1>5, <1>10, <1>13
  <2>2. Text!Blank(d[n]) \/ d[n].indent > d[b + p].indent
    BY <1>6, <2>1, EvenUnder
  <2>. QED
    BY <1>13, <2>2
<1>18. Passed(d, h, End(g))
  <2>1. d[b + p].indent >= s
    BY <1>3, <1>14
  <2>2. Passed(d, b + p, b + end)
    BY <1>3, <1>4, <1>5, <1>7, <1>14, <2>1, PassedBy
  <2>. QED
    BY <1>10, <1>13, <2>2
<1>19. \A x \in b + 1..Base(g) : x # h /\ OpensIn(d, new, x) => Passed(d, x, Base(g) + 1)
  <2>1. SettledBut(d, new, b, b + r.next, b + p)
    BY <1>d, <1>2, OwnSettles
  <2>2. PICK u : u = b + first
    OBVIOUS
  <2>3. SettledBut(d, new, b, u, h) /\ u = Base(g) + 1
    BY <1>1, <1>3, <1>5, <1>10, <1>13, <2>1, <2>2
  <2>. SUFFICES ASSUME NEW x \in b + 1..Base(g), x # h, OpensIn(d, new, x)
                PROVE  Passed(d, x, Base(g) + 1)
    OBVIOUS
  <2>4. x \in b + 1..u - 1
    BY <1>3, <1>5, <1>10, <2>2
  <2>5. Passed(d, x, u)
    BY <2>3, <2>4 DEF SettledBut
  <2>. QED
    BY <2>3, <2>5
<1>20. h \in b + 1..Base(g) /\ h \in 1..Len(d) /\ ~Text!Blank(d[h]) /\ Base(g) \in Nat
  <2>1. PICK c : c = Base(g)
    OBVIOUS
  <2>2. c = b + (first - 1)
    BY <1>10, <2>1
  <2>3. c \in Nat /\ h \in b + 1..c
    BY <1>3, <1>5, <1>13, <2>2
  <2>. QED
    BY <1>13, <1>14, <2>1, <2>3
<1>21. Opened(d, new, f, g, h)
  BY <1>1, <1>15, <1>16, <1>17, <1>18, <1>19, <1>20 DEF Opened
<1>. QED
  BY <1>12, <1>20, <1>21

LEMMA EvenNests ==
    ASSUME NEW d, NEW fs, NEW page, NEW ls, NEW t, NEW r, NEW open, NEW f, NEW end, NEW g,
           NEW new, NEW ns, EnterEven(d, fs, page, ls, t, r, open, f, end, g, new, ns)
    PROVE  \E u : Evenly(d, ns, new, <<>>, u)
<1>d. /\ Setup(d, fs, page, ls) /\ PageAt(d, fs, page, ls, t) /\ InCall(fs, ls, r, open)
      /\ r.para = <<>> /\ f = fs[Len(fs)] /\ f.i <= Len(f.lines)
      /\ IsInner(g, f, r.next, end) /\ new = page \o r.pieces /\ g.start = Len(new)
      /\ Pushed(fs, end, g, ns) /\ BlockBelow(f.lines, f.i, r.next, end)
      /\ Evenly(d, fs, page, ls, t)
      /\ Enters(d, fs, page, ls, t, r, open, f, end, g, new, ns)
  BY DEF EnterEven, Enters
<1>1. /\ t < Len(fs) => PageAt(d, ns, new, <<>>, t)
      /\ t = Len(fs) => PageAt(d, ns, new, <<>>, t + 1)
      /\ Len(ns) = Len(fs) + 1 /\ t \in 1..Len(fs)
  BY <1>d, NestTurn
<1>2. /\ fs \in Seq(Text!Call) /\ fs # <<>> /\ Len(fs) \in Nat \ {0} /\ page \in Seq(Text!Emitted)
      /\ f.lines \in Seq(Text!Line) /\ Len(f.lines) \in Nat /\ f.i \in Nat \ {0}
  BY <1>d, SetupIs
<1>3. end \in Nat
  <2>1. r.next \in f.i + 1..Len(f.lines) /\ end \in r.next + 1..Len(f.lines) + 1
    BY <1>d DEF BlockBelow
  <2>. QED
    BY <1>2, <2>1
<1>4. SameCalls(fs, ns, Len(fs)) /\ ns[Len(fs) + 1] = g
  BY <1>d, <1>2, <1>3, CallsPushed DEF Deeper
<1>5. CASE t < Len(fs)
  <2>1. PICK n : n = Len(fs)
    OBVIOUS
  <2>2. SameCalls(fs, ns, n) /\ t < n /\ PageAt(d, ns, new, r.para, t)
    BY <1>d, <1>1, <1>4, <1>5, <2>1
  <2>3. Evenly(d, ns, new, r.para, t)
    BY <1>d, <1>5, <2>2, ForeignOnward
  <2>. QED
    BY <1>d, <2>3
<1>6. CASE t = Len(fs)
  <2>1. PICK u : u = t + 1
    OBVIOUS
  <2>2. /\ Layout(d, fs, new, <<>>, t)
        /\ \E h \in 1..Len(d) : Opened(d, new, f, g, h)
        /\ Base(g) \in Nat
    BY <1>6, NestOpened
  <2>3. t \in Nat /\ t >= 1 /\ t <= t /\ t \in 1..t /\ u \in Nat
    BY <1>1, <1>2, <2>1
  <2>4. SameCalls(fs, ns, t) /\ ns[u] = g /\ f = fs[t] /\ PageAt(d, ns, new, <<>>, u)
    BY <1>d, <1>1, <1>4, <1>6, <2>1
  <2>5. PICK none : none = <<>>
    OBVIOUS
  <2>6. Layout(d, ns, new, none, t)
    BY <2>2, <2>3, <2>4, <2>5, LayoutStays
  <2>7. /\ \A x \in 2..t : \E h \in 1..Len(d) : Opened(d, new, ns[x - 1], ns[x], h)
        /\ AllPadded(d, ns, new, t) /\ Uncut(new)
    BY <2>6 DEF Layout
  <2>9. \A x \in 2..u : \E h \in 1..Len(d) : Opened(d, new, ns[x - 1], ns[x], h)
    <3>. SUFFICES ASSUME NEW x \in 2..u
                  PROVE  \E h \in 1..Len(d) : Opened(d, new, ns[x - 1], ns[x], h)
      OBVIOUS
    <3>1. CASE x \in 2..t
      BY <2>7, <3>1
    <3>2. CASE x = u
      <4>1. Alike(ns[t], f)
        BY <2>3, <2>4 DEF SameCalls
      <4>2. Base(ns[t]) = Base(f)
        BY <4>1, AlikeIs
      <4>3. PICK h \in 1..Len(d) : Opened(d, new, f, g, h)
        BY <2>2
      <4>4. Opened(d, new, ns[t], g, h)
        BY <4>2, <4>3 DEF Opened
      <4>5. x - 1 = t /\ ns[x] = g
        BY <2>1, <2>3, <2>4, <3>2
      <4>. QED
        BY <4>4, <4>5
    <3>. QED
      BY <2>1, <2>3, <3>1, <3>2
  <2>10. AllPadded(d, ns, new, u)
    <3>. SUFFICES ASSUME NEW k \in DOMAIN new, new[k].form \in {"para", "item"}, NEW m \in 1..Len(d),
                         Has(new[k].ids, m), Text!Prose(d[m])
                  PROVE  PaddedIn(d, ns, new, u, k, m)
      BY DEF AllPadded
    <3>1. PaddedIn(d, ns, new, t, k, m)
      BY <2>7 DEF AllPadded
    <3>2. PICK x \in 1..t : GivenIn(ns, t, k, x) /\ Padded(d, new, m, new[k].pad, Base(ns[x]))
      BY <3>1 DEF PaddedIn
    <3>3. ~(ns[u].start < k)
      <4>1. r.pieces \in Seq(Text!Emitted)
        BY <1>d DEF InCall, Steps, Reads
      <4>2. new \in Seq(Text!Emitted)
        BY <1>d, <1>2, <4>1, Concatenated
      <4>3. k \in 1..Len(new) /\ Len(new) \in Nat
        BY <4>2
      <4>. QED
        BY <1>d, <2>4, <4>3
    <3>4. x \in 1..u /\ \A y \in x + 1..u : y \in x + 1..t \/ y = u
      BY <2>1, <2>3
    <3>5. GivenIn(ns, u, k, x)
      BY <3>2, <3>3, <3>4 DEF GivenIn
    <3>. QED
      BY <3>2, <3>4, <3>5 DEF PaddedIn
  <2>11. LinesPadded(d, new, none, Base(ns[u])) /\ UncutLines(none)
    BY <2>5, NoLines
  <2>12. Layout(d, ns, new, none, u)
    BY <2>7, <2>9, <2>10, <2>11 DEF Layout
  <2>13. Settled(d, new, Base(ns[u]), At(ns, u))
    <3>1. PICK b, q : b = Base(g) /\ q = b + 1
      OBVIOUS
    <3>2. At(ns, u) = q
      BY <1>d, <2>4, <3>1 DEF At, IsInner
    <3>3. b + 1..q - 1 = {}
      BY <2>2, <3>1
    <3>4. Settled(d, new, b, q)
      BY <3>3 DEF Settled
    <3>. QED
      BY <2>4, <3>1, <3>2, <3>4
  <2>14. Evenly(d, ns, new, none, u)
    BY <2>4, <2>5, <2>12, <2>13 DEF Evenly
  <2>. QED
    BY <2>5, <2>14
<1>. QED
  BY <1>1, <1>2, <1>5, <1>6

(* What a call gave stands in the block of the line that opened the call. *)
StandsIn(d, page, op, c, b, q, m, pad) ==
    /\ c \in Nat /\ b \in Nat /\ q \in Nat /\ m \in Nat /\ op \in c + 1..b /\ m \in b + 1..q - 1
    /\ ~Text!Blank(d[op]) /\ OpensIn(d, page, op)
    /\ \A n \in op + 1..q - 1 : Text!Blank(d[n]) \/ d[n].indent > d[op].indent
    /\ \A x \in c + 1..b : x # op /\ OpensIn(d, page, x) => Passed(d, x, b + 1)
    /\ m \in 1..Len(d) /\ ~Text!Blank(d[m]) /\ Len(d) \in Nat
    /\ pad \in Seq(Nat) /\ Padded(d, page, m, pad, b)

LEMMA PadGrows ==
    ASSUME NEW d, NEW page, NEW op, NEW c, NEW b, NEW q, NEW m, NEW pad,
           StandsIn(d, page, op, c, b, q, m, pad), NEW by, by = Text!BlockIndent(d[op]), by \in Nat,
           NEW wide, wide = <<by>> \o pad
    PROVE  Padded(d, page, m, wide, c)
<1>1. /\ c \in Nat /\ b \in Nat /\ q \in Nat /\ m \in Nat /\ op \in c + 1..b /\ m \in b + 1..q - 1
      /\ ~Text!Blank(d[op]) /\ OpensIn(d, page, op)
      /\ \A n \in op + 1..q - 1 : Text!Blank(d[n]) \/ d[n].indent > d[op].indent
      /\ \A x \in c + 1..b : x # op /\ OpensIn(d, page, x) => Passed(d, x, b + 1)
      /\ m \in 1..Len(d) /\ ~Text!Blank(d[m]) /\ Len(d) \in Nat
      /\ pad \in Seq(Nat) /\ Padded(d, page, m, pad, b)
  BY DEF StandsIn
<1>2. PICK hs \in [1..Len(pad) -> b + 1..m - 1] : PadsOf(d, page, m, pad, b, hs)
  BY <1>1 DEF Padded
<1>3. PICK z : z = Len(pad)
  OBVIOUS
<1>4. /\ z \in Nat /\ Len(wide) = z + 1 /\ wide[1] = by
      /\ \A a \in 1..z : wide[a + 1] = pad[a]
  <2>1. z \in Nat /\ <<by>> \in Seq(Nat) /\ Len(<<by>>) = 1
    BY <1>1, <1>3
  <2>2. Len(wide) = 1 + z /\ wide[1] = by
    BY <1>1, <1>3, <2>1
  <2>3. \A a \in 1..z : wide[a + 1] = pad[a]
    BY <1>1, <1>3, <2>1
  <2>4. 1 + z = z + 1
    BY <2>1
  <2>. QED
    BY <2>1, <2>2, <2>3, <2>4
<1>5. PICK gs : gs = [a \in 1..z + 1 |-> IF a = 1 THEN op ELSE hs[a - 1]]
  OBVIOUS
<1>6. /\ gs[1] = op /\ \A a \in 1..z : gs[a + 1] = hs[a] /\ hs[a] \in b + 1..m - 1
  <2>1. 1 \in 1..z + 1 /\ \A a \in 1..z : a + 1 \in 1..z + 1 /\ a + 1 # 1 /\ a + 1 - 1 = a
    BY <1>4
  <2>2. hs \in [1..z -> b + 1..m - 1]
    BY <1>2, <1>3
  <2>3. \A a \in 1..z : hs[a] \in b + 1..m - 1
    BY <2>2
  <2>4. gs[1] = op
    BY <1>5, <2>1
  <2>5. ASSUME NEW a \in 1..z
        PROVE  gs[a + 1] = hs[a]
    <3>1. PICK x : x = a + 1
      OBVIOUS
    <3>2. x \in 1..z + 1 /\ x # 1 /\ x - 1 = a
      BY <2>1, <3>1
    <3>3. gs[x] = hs[x - 1]
      BY <1>5, <3>2
    <3>. QED
      BY <3>1, <3>2, <3>3
  <2>. QED
    BY <2>3, <2>4, <2>5
<1>7. \A a \in 1..z + 1 : a = 1 \/ \E x \in 1..z : a = x + 1
  <2>. SUFFICES ASSUME NEW a \in 1..z + 1, a # 1 PROVE \E x \in 1..z : a = x + 1
    BY <1>4
  <2>1. a - 1 \in 1..z /\ a = a - 1 + 1
    BY <1>4
  <2>. QED
    BY <2>1
<1>8. op \in c + 1..m - 1 /\ \A h \in b + 1..m - 1 : h \in c + 1..m - 1 /\ op < h
  BY <1>1
<1>9. gs \in [1..z + 1 -> c + 1..m - 1]
  <2>1. \A a \in 1..z + 1 : gs[a] \in c + 1..m - 1
    BY <1>6, <1>7, <1>8
  <2>. QED
    BY <1>5, <2>1
<1>10. Under(d, op, m)
  <2>1. op < m /\ \A n \in op + 1..m : n \in op + 1..q - 1
    BY <1>1
  <2>. QED
    BY <1>1, <2>1 DEF Under
<1>11. /\ \A x, y \in 1..z : x < y => hs[x] < hs[y]
       /\ \A x \in 1..z : OpenOver(d, page, hs[x], m) /\ pad[x] = Text!BlockIndent(d[hs[x]])
       /\ \A h \in b + 1..m - 1 : OpenOver(d, page, h, m) => \E x \in 1..z : hs[x] = h
  BY <1>2, <1>3 DEF PadsOf
<1>12. \A x, y \in 1..z + 1 : x < y => gs[x] < gs[y]
  <2>. SUFFICES ASSUME NEW x \in 1..z + 1, NEW y \in 1..z + 1, x < y PROVE gs[x] < gs[y]
    OBVIOUS
  <2>1. PICK v \in 1..z : y = v + 1
    BY <1>4, <1>7
  <2>2. CASE x = 1
    BY <1>6, <1>8, <2>1, <2>2
  <2>3. CASE x # 1
    <3>1. PICK u \in 1..z : x = u + 1
      BY <1>7, <2>3
    <3>2. u < v
      BY <1>4, <2>1, <3>1
    <3>. QED
      BY <1>6, <1>11, <2>1, <3>1, <3>2
  <2>. QED
    BY <2>2, <2>3
<1>13. \A x \in 1..z + 1 : OpenOver(d, page, gs[x], m) /\ wide[x] = Text!BlockIndent(d[gs[x]])
  <2>. SUFFICES ASSUME NEW x \in 1..z + 1
                PROVE  OpenOver(d, page, gs[x], m) /\ wide[x] = Text!BlockIndent(d[gs[x]])
    OBVIOUS
  <2>1. CASE x = 1
    BY <1>1, <1>4, <1>6, <1>10, <2>1 DEF OpenOver
  <2>2. CASE x # 1
    <3>1. PICK u \in 1..z : x = u + 1
      BY <1>7, <2>2
    <3>. QED
      BY <1>4, <1>6, <1>11, <3>1
  <2>. QED
    BY <2>1, <2>2
<1>14. \A h \in c + 1..m - 1 : OpenOver(d, page, h, m) => \E x \in 1..z + 1 : gs[x] = h
  <2>. SUFFICES ASSUME NEW h \in c + 1..m - 1, OpenOver(d, page, h, m)
                PROVE  \E x \in 1..z + 1 : gs[x] = h
    OBVIOUS
  <2>1. CASE h = op
    <3>1. 1 \in 1..z + 1
      BY <1>4
    <3>. QED
      BY <1>6, <2>1, <3>1
  <2>2. CASE h \in b + 1..m - 1
    <3>1. PICK x \in 1..z : hs[x] = h
      BY <1>11, <2>2
    <3>2. x + 1 \in 1..z + 1
      BY <1>4
    <3>. QED
      BY <1>6, <3>1, <3>2
  <2>3. CASE h \in c + 1..b /\ h # op
    <3>1. Passed(d, h, b + 1)
      BY <1>1, <2>3 DEF OpenOver
    <3>2. m \in b + 1..Len(d)
      BY <1>1
    <3>. QED
      BY <1>1, <3>1, <3>2 DEF Passed, OpenOver
  <2>4. h \in b + 1..m - 1 \/ h \in c + 1..b
    BY <1>1
  <2>. QED
    BY <2>1, <2>2, <2>3, <2>4
<1>15. c < m
  BY <1>1
<1>16. PICK y : y = z + 1
  OBVIOUS
<1>17. Len(wide) = y
  BY <1>4, <1>16
<1>18. PadsOf(d, page, m, wide, c, gs)
  BY <1>12, <1>13, <1>14, <1>16, <1>17 DEF PadsOf
<1>19. gs \in [1..Len(wide) -> c + 1..m - 1]
  BY <1>9, <1>16, <1>17
<1>. QED
  BY <1>15, <1>18, <1>19 DEF Padded

(* A block of an even document is over: what it gave is indented. *)
LeavesEven(d, fs, page, ls, t, r, open, f, mid, new, ns) ==
    /\ Text!Even(d) /\ Setup(d, fs, page, ls) /\ Evenly(d, fs, page, ls, t)
    /\ InCall(fs, ls, r, open) /\ open = FALSE /\ r.para = <<>>
    /\ f = fs[Len(fs)] /\ f.source = "block" /\ ~(f.i <= Len(f.lines)) /\ r.next = f.i
    /\ mid = page \o r.pieces /\ Reindented(mid, new, f.start, f.indent)
    /\ ns = SubSeq(fs, 1, Len(fs) - 1)

LEMMA LeavesTurn ==
    ASSUME NEW d, NEW fs, NEW page, NEW ls, NEW t, NEW r, NEW open, NEW f, NEW mid, NEW new, NEW ns,
           LeavesEven(d, fs, page, ls, t, r, open, f, mid, new, ns)
    PROVE  /\ t < Len(fs) => PageAt(d, ns, new, <<>>, t) /\ t < Len(fs) - 1
           /\ t = Len(fs) => PageAt(d, ns, new, <<>>, t - 1) /\ t \in Nat /\ t - 1 \in 1..t
           /\ t \in 1..Len(fs) /\ Len(fs) \in Nat /\ Len(ns) = Len(fs) - 1
           /\ SameCalls(fs, ns, Len(fs) - 1) /\ \A a \in 1..Len(fs) - 1 : ns[a] = fs[a]
<1>d. /\ Setup(d, fs, page, ls) /\ Evenly(d, fs, page, ls, t)
      /\ InCall(fs, ls, r, open) /\ r.para = <<>>
      /\ f = fs[Len(fs)] /\ f.source = "block" /\ ~(f.i <= Len(f.lines)) /\ r.next = f.i
      /\ mid = page \o r.pieces /\ Reindented(mid, new, f.start, f.indent)
      /\ ns = SubSeq(fs, 1, Len(fs) - 1)
  BY DEF LeavesEven
<1>1. PICK start, by : start = f.start /\ by = f.indent
  OBVIOUS
<1>2. PageAt(d, fs, page, ls, t) /\ Reindented(page \o r.pieces, new, start, by)
  BY <1>d, <1>1 DEF Evenly
<1>3. /\ t < Len(fs) => PageAt(d, ns, new, <<>>, t) /\ t < Len(fs) - 1
      /\ t = Len(fs) => PageAt(d, ns, new, <<>>, t - 1) /\ t \in Nat /\ t - 1 \in 1..t
      /\ t \in 1..Len(fs)
  BY <1>d, <1>2, BlockEndTurn
<1>4. fs \in Seq(Text!Call) /\ fs # <<>> /\ Len(fs) \in Nat
  BY <1>d, SetupIs
<1>5. /\ ns \in Seq(Text!Call) /\ Len(ns) = Len(fs) - 1
      /\ SameCalls(fs, ns, Len(ns)) /\ \A a \in 1..Len(ns) : ns[a] = fs[a]
  BY <1>d, <1>4, CallsPopped
<1>. QED
  BY <1>3, <1>4, <1>5

(* A block in a file. *)
LEMMA ForeignLeaves ==
    ASSUME NEW d, NEW fs, NEW page, NEW ls, NEW t, NEW r, NEW open, NEW f, NEW mid, NEW new, NEW ns,
           LeavesEven(d, fs, page, ls, t, r, open, f, mid, new, ns), t < Len(fs)
    PROVE  Evenly(d, ns, new, <<>>, t)
<1>d. /\ Setup(d, fs, page, ls) /\ Evenly(d, fs, page, ls, t)
      /\ InCall(fs, ls, r, open) /\ r.para = <<>>
      /\ f = fs[Len(fs)] /\ f.source = "block"
      /\ mid = page \o r.pieces /\ Reindented(mid, new, f.start, f.indent)
  BY DEF LeavesEven
<1>1. PICK n, start, by, left, q :
          n = Len(fs) - 1 /\ start = f.start /\ by = f.indent /\ left = r.para /\ q = At(fs, t)
  OBVIOUS
<1>2. PageAt(d, ns, new, <<>>, t) /\ t < n /\ t \in 1..Len(fs) /\ Len(fs) \in Nat /\ SameCalls(fs, ns, n)
  BY <1>1, LeavesTurn
<1>3. t \in Nat /\ t >= 1 /\ t <= n /\ n \in Nat /\ t \in 1..n /\ Len(fs) \in t + 1..Len(fs)
  BY <1>1, <1>2
<1>4. /\ Layout(d, fs, mid, left, t) /\ Settled(d, mid, Base(fs[t]), q)
      /\ Blind(r.pieces) /\ r.pieces \in Seq(Text!Emitted) /\ page \in Seq(Text!Emitted)
  BY <1>d, <1>1, ForeignLayout
<1>5. \A k \in DOMAIN mid : k > start => NoText(mid[k].ids)
  <2>1. /\ Len(page) \in Nat /\ Len(r.pieces) \in Nat
        /\ DOMAIN mid = 1..Len(page) + Len(r.pieces)
        /\ \A k \in 1..Len(page) : mid[k] = page[k]
        /\ \A k \in 1..Len(page) + Len(r.pieces) : k > Len(page) =>
               k - Len(page) \in 1..Len(r.pieces) /\ mid[k] = r.pieces[k - Len(page)]
    BY <1>d, <1>4, Concatenated
  <2>2. \A k \in 1..Len(page) : start < k => NoText(page[k].ids)
    BY <1>d, <1>1, <1>3 DEF Evenly, PageAt, Elsewhere
  <2>3. start \in Nat
    <3>1. Len(fs) \in 1..Len(fs)
      BY <1>2, <1>3
    <3>. QED
      BY <1>d, <1>1, <3>1, SetupIs
  <2>. SUFFICES ASSUME NEW k \in DOMAIN mid, k > start PROVE NoText(mid[k].ids)
    OBVIOUS
  <2>4. CASE k \in 1..Len(page)
    <3>1. start < k
      BY <2>3, <2>4
    <3>. QED
      BY <2>1, <2>2, <2>4, <3>1
  <2>5. CASE k \notin 1..Len(page)
    <3>1. k > Len(page)
      BY <2>1, <2>5
    <3>2. PICK j \in 1..Len(r.pieces) : mid[k] = r.pieces[j]
      BY <2>1, <3>1
    <3>. QED
      BY <1>4, <3>2 DEF Blind
  <2>. QED
    BY <2>4, <2>5
<1>6. Reindented(mid, new, start, by)
  BY <1>d, <1>1
<1>7. Layout(d, fs, new, left, t)
  BY <1>4, <1>5, <1>6, ForeignReindented
<1>8. Settled(d, new, Base(fs[t]), q)
  BY <1>4, <1>6, ReindentedOpens, AlikePages
<1>9. At(ns, t) = q
  BY <1>1, <1>2, <1>3, AtStays
<1>10. Evenly(d, ns, new, left, t)
  <2>1. PageAt(d, ns, new, left, t)
    BY <1>d, <1>1, <1>2
  <2>. QED
    BY <1>2, <1>3, <1>7, <1>8, <1>9, <2>1, EvenlyStays
<1>. QED
  BY <1>d, <1>1, <1>10

(* A block in the document. *)
OwnBlock(d, fs, page, ls, t, r, open, f, mid, new, ns, n, e, c, b, q) ==
    /\ LeavesEven(d, fs, page, ls, t, r, open, f, mid, new, ns) /\ t = Len(fs)
    /\ n = t - 1 /\ e = fs[n] /\ c = Base(e) /\ b = Base(f) /\ q = End(f)

LEMMA OwnBlockIs ==
    ASSUME NEW d, NEW fs, NEW page, NEW ls, NEW t, NEW r, NEW open, NEW f, NEW mid, NEW new, NEW ns,
           NEW n, NEW e, NEW c, NEW b, NEW q,
           OwnBlock(d, fs, page, ls, t, r, open, f, mid, new, ns, n, e, c, b, q)
    PROVE  /\ n \in Nat /\ n >= 1 /\ t = n + 1 /\ t \in Nat /\ Len(d) \in Nat /\ f = fs[t]
           /\ c \in Nat /\ b \in Nat /\ q \in Nat /\ b < q
           /\ mid \in Seq(Text!Emitted) /\ Ordered(mid, <<>>, q)
           /\ Layout(d, fs, mid, <<>>, t) /\ Settled(d, mid, b, q)
           /\ OpensAlike(d, mid, new) /\ Reindented(mid, new, f.start, f.indent)
           /\ SameCalls(fs, ns, n) /\ (\A a \in 1..n : ns[a] = fs[a])
           /\ PageAt(d, ns, new, <<>>, n) /\ At(ns, n) = q
           /\ \E op \in 1..Len(d) : Opened(d, mid, e, f, op)
<1>d. /\ LeavesEven(d, fs, page, ls, t, r, open, f, mid, new, ns) /\ t = Len(fs)
      /\ n = t - 1 /\ e = fs[n] /\ c = Base(e) /\ b = Base(f) /\ q = End(f)
  BY DEF OwnBlock
<1>l. /\ Text!Even(d) /\ Setup(d, fs, page, ls) /\ Evenly(d, fs, page, ls, t)
      /\ InCall(fs, ls, r, open) /\ open = FALSE /\ r.para = <<>>
      /\ f = fs[Len(fs)] /\ f.source = "block" /\ ~(f.i <= Len(f.lines)) /\ r.next = f.i
      /\ mid = page \o r.pieces /\ Reindented(mid, new, f.start, f.indent)
  BY <1>d DEF LeavesEven
<1>1. /\ PageAt(d, ns, new, <<>>, t - 1) /\ t \in Nat /\ t - 1 \in 1..t
      /\ SameCalls(fs, ns, Len(fs) - 1) /\ \A a \in 1..Len(fs) - 1 : ns[a] = fs[a]
  BY <1>d, LeavesTurn
<1>2. /\ n \in Nat /\ n >= 1 /\ t = n + 1 /\ t \in Nat /\ f = fs[t]
      /\ SameCalls(fs, ns, n) /\ (\A a \in 1..n : ns[a] = fs[a]) /\ PageAt(d, ns, new, <<>>, n)
  BY <1>d, <1>l, <1>1
<1>3. PICK lines, s, p : lines = f.lines /\ s = Shift(d, f) /\ p = f.i
  OBVIOUS
<1>4. EvenStep(d, fs, page, ls, t, r, open, f, lines, b, s, p)
  BY <1>d, <1>l, <1>2, <1>3 DEF EvenStep
<1>5. /\ OwnStep(d, lines, b, s, ls, p, r) /\ page \in Seq(Text!Emitted) /\ r.pieces \in Seq(Text!Emitted)
      /\ Len(d) \in Nat /\ b \in Nat /\ p \in Nat /\ p >= 1 /\ p <= r.next /\ r.next <= Len(lines) + 1
      /\ Len(lines) \in Nat /\ Ordered(page, ls, b + p)
  BY <1>4, EvenStepIs
<1>6. q = b + r.next /\ q \in Nat /\ b < q
  <2>1. p = Len(lines) + 1 /\ r.next = p
    <3>1. r.next = p /\ ~(p <= Len(lines))
      BY <1>l, <1>3
    <3>2. p \in Nat /\ Len(lines) \in Nat /\ r.next <= Len(lines) + 1
      BY <1>5
    <3>. QED
      BY <3>1, <3>2
  <2>2. q = b + Len(lines) + 1
    BY <1>d, <1>3 DEF End
  <2>. QED
    BY <1>5, <2>1, <2>2
<1>7. Ordered(mid, <<>>, q)
  <2>1. Ordered(page \o r.pieces, r.para, b + r.next)
    BY <1>5, OrderMoves
  <2>. QED
    BY <1>l, <1>6, <2>1
<1>8. Layout(d, fs, mid, <<>>, t) /\ Settled(d, mid, b, q)
  <2>1. Layout(d, fs, mid, r.para, t)
    BY <1>l, <1>4, OwnLayout
  <2>2. Settled(d, mid, b, b + r.next)
    BY <1>l, <1>4, OwnSettles
  <2>. QED
    BY <1>l, <1>6, <2>1, <2>2
<1>9. OpensAlike(d, mid, new)
  <2>1. PICK start, by : start = f.start /\ by = f.indent
    OBVIOUS
  <2>2. Reindented(mid, new, start, by)
    BY <1>l, <2>1
  <2>. QED
    BY <2>2, ReindentedOpens
<1>10. mid \in Seq(Text!Emitted)
  BY <1>l, <1>5, Concatenated
<1>11. \E op \in 1..Len(d) : Opened(d, mid, e, f, op)
  <2>1. t \in 2..t /\ t - 1 = n
    BY <1>2
  <2>2. \E op \in 1..Len(d) : Opened(d, mid, fs[t - 1], fs[t], op)
    BY <1>8, <2>1 DEF Layout
  <2>. QED
    BY <1>d, <1>2, <2>1, <2>2
<1>12. At(ns, n) = q /\ c \in Nat
  <2>1. Chain(d, fs, t)
    BY <1>l DEF Evenly, PageAt
  <2>2. n \in 1..t - 1 /\ n + 1 = t /\ n \in 1..n /\ n \in 1..t
    BY <1>2
  <2>3. Base(fs[n]) + fs[n].i = End(fs[n + 1])
    BY <2>1, <2>2 DEF Chain
  <2>4. ns[n] = fs[n]
    BY <1>2, <2>2
  <2>5. IsFrame(d, e)
    BY <1>d, <2>1, <2>2 DEF Chain
  <2>6. c \in Nat
    BY <1>d, <2>5 DEF IsFrame, IsBlock
  <2>. QED
    BY <1>d, <1>2, <2>2, <2>3, <2>4, <2>6 DEF At
<1>. QED
  BY <1>l, <1>2, <1>5, <1>6, <1>7, <1>8, <1>9, <1>10, <1>11, <1>12

(* What it gave, it indents. *)
Widens(d, mid, new, b, c, wides) ==
    \A k \in DOMAIN mid, m \in 1..Len(d) :
        Has(mid[k].ids, m) /\ Text!Prose(d[m]) /\ Padded(d, mid, m, mid[k].pad, b)
        => Padded(d, new, m, wides[k], c)

LEMMA OwnBlockPads ==
    ASSUME NEW d, NEW fs, NEW page, NEW ls, NEW t, NEW r, NEW open, NEW f, NEW mid, NEW new, NEW ns,
           NEW n, NEW e, NEW c, NEW b, NEW q,
           OwnBlock(d, fs, page, ls, t, r, open, f, mid, new, ns, n, e, c, b, q),
           NEW wides, wides = [k \in DOMAIN mid |-> <<f.indent>> \o mid[k].pad]
    PROVE  Widens(d, mid, new, b, c, wides)
<1>. SUFFICES ASSUME NEW k \in DOMAIN mid, NEW m \in 1..Len(d), Has(mid[k].ids, m), Text!Prose(d[m]),
                     Padded(d, mid, m, mid[k].pad, b)
              PROVE  Padded(d, new, m, wides[k], c)
  BY DEF Widens
<1>0. PICK wide : wide = wides[k] /\ wide = <<f.indent>> \o mid[k].pad
  OBVIOUS
<1>1. /\ Len(d) \in Nat /\ c \in Nat /\ b \in Nat /\ q \in Nat /\ b < q
      /\ mid \in Seq(Text!Emitted) /\ Ordered(mid, <<>>, q) /\ OpensAlike(d, mid, new)
      /\ \E op \in 1..Len(d) : Opened(d, mid, e, f, op)
  BY OwnBlockIs
<1>2. c = Base(e) /\ b = Base(f) /\ q = End(f)
  BY DEF OwnBlock
<1>3. PICK op \in 1..Len(d) : Opened(d, mid, e, f, op)
  BY <1>1
<1>4. /\ op \in c + 1..b /\ ~Text!Blank(d[op]) /\ OpensIn(d, mid, op)
      /\ f.indent = Text!BlockIndent(d[op])
      /\ \A x \in op + 1..q - 1 : Text!Blank(d[x]) \/ d[x].indent > d[op].indent
      /\ \A x \in c + 1..b : x # op /\ OpensIn(d, mid, x) => Passed(d, x, b + 1)
  BY <1>2, <1>3 DEF Opened
<1>5. PICK pad, by : pad = mid[k].pad /\ by = f.indent
  OBVIOUS
<1>6. by \in Nat
  <2>1. by \in 0..6
    BY <1>4, <1>5, IndentsAreSmall
  <2>. QED
    BY <2>1
<1>7. pad \in Seq(Nat)
  <2>1. k \in 1..Len(mid)
    BY <1>1
  <2>2. mid[k] \in Text!Emitted
    BY <1>1, <2>1, ElementOfSeq
  <2>. QED
    BY <1>5, <2>2 DEF Text!Emitted
<1>8. m \in b + 1..q - 1 /\ m \in Nat
  <2>1. b < m
    BY DEF Padded
  <2>2. Within(mid[k].ids, 1, q - 1)
    BY <1>1 DEF Ordered
  <2>3. m \in 1..q - 1
    BY <2>2, HasNumber
  <2>. QED
    BY <1>1, <2>1, <2>3
<1>9. ~Text!Blank(d[m])
  BY DEF Text!Blank, Text!Prose
<1>10. StandsIn(d, mid, op, c, b, q, m, pad)
  BY <1>1, <1>4, <1>5, <1>7, <1>8, <1>9 DEF StandsIn
<1>11. Padded(d, mid, m, wide, c)
  <2>1. by = Text!BlockIndent(d[op]) /\ wide = <<by>> \o pad
    BY <1>0, <1>4, <1>5
  <2>. QED
    BY <1>6, <1>10, <2>1, PadGrows
<1>. QED
  BY <1>0, <1>1, <1>11, AlikePages

LEMMA OwnBlockSettles ==
    ASSUME NEW d, NEW fs, NEW page, NEW ls, NEW t, NEW r, NEW open, NEW f, NEW mid, NEW new, NEW ns,
           NEW n, NEW e, NEW c, NEW b, NEW q,
           OwnBlock(d, fs, page, ls, t, r, open, f, mid, new, ns, n, e, c, b, q)
    PROVE  Settled(d, new, c, q)
<1>1. /\ Len(d) \in Nat /\ c \in Nat /\ b \in Nat /\ q \in Nat /\ b < q
      /\ Settled(d, mid, b, q) /\ OpensAlike(d, mid, new)
      /\ \E op \in 1..Len(d) : Opened(d, mid, e, f, op)
  BY OwnBlockIs
<1>2. c = Base(e) /\ b = Base(f) /\ q = End(f)
  BY DEF OwnBlock
<1>3. PICK op \in 1..Len(d) : Opened(d, mid, e, f, op)
  BY <1>1
<1>4. Passed(d, op, q) /\ \A x \in c + 1..b : x # op /\ OpensIn(d, mid, x) => Passed(d, x, b + 1)
  BY <1>2, <1>3 DEF Opened
<1>5. Settled(d, mid, c, q)
  <2>. SUFFICES ASSUME NEW h \in c + 1..q - 1, OpensIn(d, mid, h) PROVE Passed(d, h, q)
    BY <1>1 DEF Settled
  <2>1. CASE h = op
    BY <1>4, <2>1
  <2>2. CASE h \in b + 1..q - 1
    BY <1>1, <2>2 DEF Settled
  <2>3. CASE h \in c + 1..b /\ h # op
    <3>1. Passed(d, h, b + 1)
      BY <1>4, <2>3
    <3>2. b + 1 \in Nat /\ b + 1 <= q
      BY <1>1
    <3>. QED
      BY <1>1, <3>1, <3>2, PassedLater
  <2>4. h \in b + 1..q - 1 \/ h \in c + 1..b
    BY <1>1
  <2>. QED
    BY <2>1, <2>2, <2>3, <2>4
<1>. QED
  BY <1>1, <1>5, AlikePages

LEMMA OwnLeaves ==
    ASSUME NEW d, NEW fs, NEW page, NEW ls, NEW t, NEW r, NEW open, NEW f, NEW mid, NEW new, NEW ns,
           NEW n, NEW e, NEW c, NEW b, NEW q,
           OwnBlock(d, fs, page, ls, t, r, open, f, mid, new, ns, n, e, c, b, q)
    PROVE  Evenly(d, ns, new, <<>>, n)
<1>1. /\ n \in Nat /\ n >= 1 /\ t = n + 1 /\ t \in Nat /\ f = fs[t]
      /\ mid \in Seq(Text!Emitted) /\ Layout(d, fs, mid, <<>>, t)
      /\ OpensAlike(d, mid, new) /\ Reindented(mid, new, f.start, f.indent)
      /\ SameCalls(fs, ns, n) /\ (\A a \in 1..n : ns[a] = fs[a])
      /\ PageAt(d, ns, new, <<>>, n) /\ At(ns, n) = q
  BY OwnBlockIs
<1>2. e = fs[n] /\ c = Base(e) /\ b = Base(f)
  BY DEF OwnBlock
<1>3. /\ n \in 1..n /\ n \in 1..t /\ t \in 1..t
      /\ \A a \in 1..n : a \in 1..t
      /\ \A a \in 2..n : a \in 2..t /\ a \in 1..n /\ a - 1 \in 1..n
  BY <1>1
<1>4. /\ \A a \in 2..t : \E h \in 1..Len(d) : Opened(d, mid, fs[a - 1], fs[a], h)
      /\ AllPadded(d, fs, mid, t) /\ Uncut(mid)
  BY <1>1 DEF Layout
<1>6. \A a \in 2..n : \E h \in 1..Len(d) : Opened(d, new, ns[a - 1], ns[a], h)
  <2>. SUFFICES ASSUME NEW a \in 2..n
                PROVE  \E h \in 1..Len(d) : Opened(d, new, ns[a - 1], ns[a], h)
    OBVIOUS
  <2>1. PICK h \in 1..Len(d) : Opened(d, mid, fs[a - 1], fs[a], h)
    BY <1>3, <1>4
  <2>2. ns[a - 1] = fs[a - 1] /\ ns[a] = fs[a]
    BY <1>1, <1>3
  <2>3. Opened(d, new, fs[a - 1], fs[a], h)
    BY <1>1, <2>1, AlikePages
  <2>. QED
    BY <2>2, <2>3
<1>7. PICK start, by : start = f.start /\ by = f.indent
  OBVIOUS
<1>8. Reindented(mid, new, start, by)
  BY <1>1, <1>7
<1>0. PICK wides : wides = [k \in DOMAIN mid |-> <<f.indent>> \o mid[k].pad]
  OBVIOUS
<1>p. Widens(d, mid, new, b, c, wides)
  BY <1>0, OwnBlockPads
<1>9. AllPadded(d, ns, new, n)
  <2>. SUFFICES ASSUME NEW k \in DOMAIN new, new[k].form \in {"para", "item"}, NEW m \in 1..Len(d),
                       Has(new[k].ids, m), Text!Prose(d[m])
                PROVE  PaddedIn(d, ns, new, n, k, m)
    BY DEF AllPadded
  <2>1. /\ k \in DOMAIN mid /\ mid[k].form \in {"para", "item"} /\ Has(mid[k].ids, m)
        /\ new[k].pad = IF k > start THEN <<by>> \o mid[k].pad ELSE mid[k].pad
    BY <1>8 DEF Reindented
  <2>2. PaddedIn(d, fs, mid, t, k, m)
    BY <1>4, <2>1 DEF AllPadded
  <2>3. PICK g \in 1..t : GivenIn(fs, t, k, g) /\ Padded(d, mid, m, mid[k].pad, Base(fs[g]))
    BY <2>2 DEF PaddedIn
  <2>4. /\ \A a \in 2..g : fs[a].start < k
        /\ \A a \in g + 1..t : ~(fs[a].start < k)
    BY <2>3 DEF GivenIn
  <2>5. k > start <=> start < k
    OBVIOUS
  <2>6. CASE g = t
    <3>1. t \in 2..g
      BY <1>1, <2>6
    <3>2. start < k
      BY <1>1, <1>7, <2>4, <3>1
    <3>3. new[k].pad = <<by>> \o mid[k].pad
      BY <2>1, <2>5, <3>2
    <3>4. PICK wide : wide = wides[k]
      OBVIOUS
    <3>5. Padded(d, mid, m, mid[k].pad, b)
      BY <1>1, <1>2, <2>3, <2>6
    <3>6. Padded(d, new, m, wide, c)
      <4>1. k \in DOMAIN mid /\ Has(mid[k].ids, m)
        BY <2>1
      <4>. QED
        BY <1>p, <3>4, <3>5, <4>1 DEF Widens
    <3>7. new[k].pad = wide /\ Base(ns[n]) = c
      <4>1. wide = <<by>> \o mid[k].pad
        BY <1>0, <1>7, <2>1, <3>4
      <4>. QED
        BY <1>1, <1>2, <1>3, <3>3, <4>1
    <3>8. GivenIn(ns, n, k, n)
      <4>1. \A a \in 2..n : a \in 2..g /\ ns[a] = fs[a]
        BY <1>1, <1>3, <2>6
      <4>2. n + 1..n = {}
        BY <1>1
      <4>. QED
        BY <1>3, <2>4, <4>1, <4>2 DEF GivenIn
    <3>. QED
      BY <1>3, <3>6, <3>7, <3>8 DEF PaddedIn
  <2>7. CASE g # t
    <3>1. t \in g + 1..t /\ g \in 1..n
      BY <1>1, <2>7
    <3>2. ~(start < k)
      BY <1>1, <1>7, <2>4, <3>1
    <3>3. new[k].pad = mid[k].pad
      BY <2>1, <2>5, <3>2
    <3>4. ns[g] = fs[g]
      BY <1>1, <3>1
    <3>5. Padded(d, new, m, new[k].pad, Base(ns[g]))
      BY <1>1, <2>3, <3>3, <3>4, AlikePages
    <3>6. GivenIn(ns, n, k, g)
      <4>1. /\ \A a \in 2..g : ns[a] = fs[a]
            /\ \A a \in g + 1..n : a \in g + 1..t /\ ns[a] = fs[a]
        <5>1. /\ \A a \in 2..g : a \in 1..n
              /\ \A a \in g + 1..n : a \in g + 1..t /\ a \in 1..n
          BY <1>1, <3>1
        <5>. QED
          BY <1>1, <5>1
      <4>. QED
        BY <2>4, <3>1, <4>1 DEF GivenIn
    <3>. QED
      BY <3>1, <3>5, <3>6 DEF PaddedIn
  <2>. QED
    BY <2>6, <2>7
<1>10. Uncut(new)
  BY <1>4, <1>8, ReindentedUncut
<1>11. Base(ns[n]) = c
  BY <1>1, <1>2, <1>3
<1>12. PICK none : none = <<>>
  OBVIOUS
<1>13. LinesPadded(d, new, none, c) /\ UncutLines(none)
  BY <1>12, NoLines
<1>14. Layout(d, ns, new, none, n)
  BY <1>6, <1>9, <1>10, <1>11, <1>13 DEF Layout
<1>15. Settled(d, new, c, q)
  BY OwnBlockSettles
<1>16. Evenly(d, ns, new, none, n)
  BY <1>1, <1>11, <1>12, <1>14, <1>15 DEF Evenly
<1>. QED
  BY <1>12, <1>16

LEMMA EvenLeaves ==
    ASSUME NEW d, NEW fs, NEW page, NEW ls, NEW t, NEW r, NEW open, NEW f, NEW mid, NEW new, NEW ns,
           LeavesEven(d, fs, page, ls, t, r, open, f, mid, new, ns)
    PROVE  \E u : Evenly(d, ns, new, <<>>, u)
<1>1. t \in 1..Len(fs) /\ Len(fs) \in Nat
  BY LeavesTurn
<1>2. CASE t < Len(fs)
  BY <1>2, ForeignLeaves
<1>3. CASE t = Len(fs)
  <2>1. PICK n, e : n = t - 1 /\ e = fs[n]
    OBVIOUS
  <2>2. PICK c, b, q : c = Base(e) /\ b = Base(f) /\ q = End(f)
    OBVIOUS
  <2>3. OwnBlock(d, fs, page, ls, t, r, open, f, mid, new, ns, n, e, c, b, q)
    BY <1>3, <2>1, <2>2 DEF OwnBlock
  <2>. QED
    BY <2>3, OwnLeaves
<1>. QED
  BY <1>1, <1>2, <1>3

(* A file is over. *)
LEMMA EvenFileEnds ==
    ASSUME NEW d, NEW fs, NEW page, NEW ls, Setup(d, fs, page, ls),
           NEW t, Evenly(d, fs, page, ls, t),
           NEW f, f = fs[Len(fs)], f.source \notin {"doc", "block"},
           NEW ns, ns = SubSeq(fs, 1, Len(fs) - 1)
    PROVE  Evenly(d, ns, page, ls, t)
<1>1. /\ PageAt(d, fs, page, ls, t) /\ Layout(d, fs, page, ls, t)
      /\ Settled(d, page, Base(fs[t]), At(fs, t))
  BY DEF Evenly
<1>2. PageAt(d, ns, page, ls, t)
  BY <1>1, FileEndTurn
<1>3. fs \in Seq(Text!Call) /\ fs # <<>>
  BY SetupIs
<1>4. /\ ns \in Seq(Text!Call) /\ Len(ns) = Len(fs) - 1
      /\ SameCalls(fs, ns, Len(ns)) /\ \A a \in 1..Len(ns) : ns[a] = fs[a]
  BY <1>3, CallsPopped
<1>5. PICK n, q : n = Len(ns) /\ q = At(fs, t)
  OBVIOUS
<1>6. t \in 1..n
  BY <1>2, <1>5 DEF PageAt, Chain
<1>7. n \in Nat
  BY <1>4, <1>5 DEF SameCalls
<1>8. t \in Nat /\ t >= 1 /\ t <= n
  BY <1>6, <1>7
<1>9. At(ns, t) = q
  BY <1>4, <1>5, <1>6 DEF At
<1>10. SameCalls(fs, ns, n) /\ Settled(d, page, Base(fs[t]), q)
  BY <1>1, <1>4, <1>5
<1>. QED
  BY <1>1, <1>2, <1>8, <1>9, <1>10, EvenlyStays

(* The document is over. *)
EndPadded(d, page) ==
    \A k \in DOMAIN page : page[k].form \in {"para", "item"} =>
        \A m \in 1..Len(d) : Has(page[k].ids, m) /\ Text!Prose(d[m]) => Padded(d, page, m, page[k].pad, 0)

LEMMA EvenEnds ==
    ASSUME NEW d, Text!Even(d), NEW fs, NEW page, NEW ls, Setup(d, fs, page, ls),
           NEW t, Evenly(d, fs, page, ls, t),
           NEW r, NEW open, open = FALSE, InCall(fs, ls, r, open), NEW new, new = page \o r.pieces,
           NEW f, f = fs[Len(fs)], f.source = "doc"
    PROVE  EndPadded(d, new) /\ Uncut(new)
<1>1. PageAt(d, fs, page, ls, t)
  BY DEF Evenly
<1>2. Chain(d, fs, t) /\ Outside(fs, t) /\ t \in 1..Len(fs)
  BY <1>1 DEF PageAt, Chain
<1>3. Len(fs) \in Nat \ {0}
  BY SetupIs
<1>4. t = Len(fs)
  <2>. SUFFICES ASSUME t # Len(fs)
                PROVE  FALSE
    OBVIOUS
  <2>1. Len(fs) \in t + 1..Len(fs)
    BY <1>2, <1>3
  <2>. QED
    BY <1>2, <2>1 DEF Outside, Stranger
<1>5. t = 1
  <2>1. \A a \in 2..t : fs[a].source = "block"
    BY <1>2 DEF Chain
  <2>2. t = 1 \/ t \in 2..t
    BY <1>2, <1>3
  <2>. QED
    BY <1>4, <2>1, <2>2
<1>6. PICK lines, b, s, p : lines = f.lines /\ b = Base(f) /\ s = Shift(d, f) /\ p = f.i
  OBVIOUS
<1>7. f = fs[t] /\ b = 0
  BY <1>4, <1>6 DEF Base
<1>8. EvenStep(d, fs, page, ls, t, r, open, f, lines, b, s, p)
  BY <1>4, <1>6, <1>7 DEF EvenStep
<1>9. Layout(d, fs, new, r.para, t)
  BY <1>8, OwnLayout
<1>10. AllPadded(d, fs, new, t) /\ Uncut(new)
  BY <1>9 DEF Layout
<1>11. EndPadded(d, new)
  <2>. SUFFICES ASSUME NEW k \in DOMAIN new, new[k].form \in {"para", "item"}, NEW m \in 1..Len(d),
                       Has(new[k].ids, m), Text!Prose(d[m])
                PROVE  Padded(d, new, m, new[k].pad, 0)
    BY DEF EndPadded
  <2>1. PICK g \in 1..t : Padded(d, new, m, new[k].pad, Base(fs[g]))
    BY <1>10 DEF AllPadded, PaddedIn
  <2>2. g = t
    BY <1>5
  <2>. QED
    BY <1>6, <1>7, <2>1, <2>2
<1>. QED
  BY <1>10, <1>11

-----------------------------------------------------------------------------
(* The conversion of an even document.                                      *)

EvenOnWay(d, fs, page, ls) ==
    IF fs = <<>> THEN EndPadded(d, page) /\ Uncut(page) ELSE \E t : Evenly(d, fs, page, ls, t)

LEMMA EvenOnWayIs ==
    ASSUME NEW d, NEW fs, NEW page, NEW ls
    PROVE  /\ fs = <<>> => (EvenOnWay(d, fs, page, ls) <=> EndPadded(d, page) /\ Uncut(page))
           /\ (\E t : Evenly(d, fs, page, ls, t)) => EvenOnWay(d, fs, page, ls)
           /\ fs # <<>> /\ EvenOnWay(d, fs, page, ls) => \E t : Evenly(d, fs, page, ls, t)
<1>1. ASSUME NEW t, Evenly(d, fs, page, ls, t)
      PROVE  fs # <<>>
  <2>1. t \in 1..Len(fs)
    BY <1>1 DEF Evenly, PageAt, Chain
  <2>. QED
    BY <2>1, EmptySeq
<1>. QED
  BY <1>1 DEF EvenOnWay

LEMMA EvenGoing ==
    ASSUME TextInv, frames # <<>>, doc' = doc, Text!Even(doc), NEW t, Evenly(doc, frames, out, para, t), GoesOn
    PROVE  \E u : Evenly(doc', frames', out', para', u)
<1>1. PICK r, open : Does(r, open) /\ Text!Go(r.next) /\ open = FALSE
  BY DEF GoesOn
<1>2. Setup(doc, frames, out, para)
  BY TextIsSetup
<1>3. InCall(frames, para, r, open) /\ out' = out \o r.pieces /\ para' = r.para
  BY <1>1, DoesInCall
<1>4. PICK fs, ns, page, new, ls, d :
          fs = frames /\ ns = frames' /\ page = out /\ new = out' /\ ls = para /\ d = doc
  OBVIOUS
<1>5. ns = [fs EXCEPT ![Len(fs)].i = r.next]
  BY <1>1, <1>4 DEF Text!Go
<1>6. Setup(d, fs, page, ls) /\ InCall(fs, ls, r, open) /\ new = page \o r.pieces /\ Evenly(d, fs, page, ls, t)
  BY <1>2, <1>3, <1>4
<1>7. PageAt(d, fs, page, ls, t)
  BY <1>6 DEF Evenly
<1>8. PageAt(d, ns, new, r.para, t)
  BY <1>5, <1>6, <1>7, GoesTurn
<1>9. r.next \in Nat /\ fs \in Seq(Text!Call) /\ fs # <<>>
  <2>1. r.next \in fs[Len(fs)].i..Len(fs[Len(fs)].lines) + 1
    BY <1>6 DEF InCall, Steps, Reads
  <2>2. fs[Len(fs)].i \in Nat \ {0} /\ fs \in Seq(Text!Call) /\ fs # <<>>
    BY <1>6, SetupIs
  <2>. QED
    BY <2>1, <2>2
<1>10. SameCalls(fs, ns, Len(fs)) /\ ns[Len(fs)].i = r.next
  BY <1>5, <1>9, CallsMoved
<1>11. Evenly(d, ns, new, r.para, t)
  <2>1. Text!Even(d)
    BY <1>4
  <2>. QED
    BY <1>1, <1>6, <1>8, <1>10, <2>1, EvenOnward
<1>. QED
  BY <1>3, <1>4, <1>11

LEMMA EvenEntering ==
    ASSUME TextInv, frames # <<>>, doc' = doc, Text!Even(doc), NEW t, Evenly(doc, frames, out, para, t), Nests
    PROVE  \E u : Evenly(doc', frames', out', para', u)
<1>1. PICK r, open, end :
          /\ Does(r, open) /\ para' = <<>> /\ open = TRUE /\ Opening(Text!lines, r, Text!i)
          /\ BlockBelow(Text!lines, Text!i, r.next, end)
          /\ frames' = Append([frames EXCEPT ![Len(frames)].i = end], Inner(r.next, end))
  BY DEF Nests
<1>2. Setup(doc, frames, out, para)
  BY TextIsSetup
<1>3. InCall(frames, para, r, open) /\ out' = out \o r.pieces /\ para' = r.para
  BY <1>1, DoesInCall
<1>4. PICK f, g, new, ns : /\ f = frames[Len(frames)] /\ g = Inner(r.next, end)
                           /\ new = out' /\ ns = frames'
  OBVIOUS
<1>5. /\ BlockBelow(f.lines, f.i, r.next, end) /\ Text!lines = f.lines /\ Text!i = f.i
      /\ Text!line = f.lines[f.i]
  BY <1>1, <1>4 DEF Text!line, Text!lines, Text!i, Text!Top
<1>6. /\ IsInner(g, f, r.next, end) /\ g.start = Len(new)
      /\ g.indent = Text!BlockIndent(f.lines[f.i])
  BY <1>4, <1>5 DEF Inner, IsInner, Cut
<1>7. Pushed(frames, end, g, ns)
  BY <1>1, <1>4 DEF Pushed, Advance
<1>8. f.i <= Len(f.lines)
  <2>1. f.i \in Nat \ {0} /\ Len(f.lines) \in Nat
    BY <1>2, <1>4, SetupIs
  <2>2. r.next \in f.i + 1..Len(f.lines)
    BY <1>5 DEF BlockBelow
  <2>. QED
    BY <2>1, <2>2
<1>9. PICK d, fs, page, ls : d = doc /\ fs = frames /\ page = out /\ ls = para
  OBVIOUS
<1>10. PageAt(d, fs, page, ls, t) /\ Evenly(d, fs, page, ls, t)
  BY <1>9 DEF Evenly
<1>11. Opening(f.lines, r, f.i)
  BY <1>1, <1>5
<1>12. EnterEven(d, fs, page, ls, t, r, open, f, end, g, new, ns)
  <2>1. new = page \o r.pieces /\ r.para = <<>>
    BY <1>1, <1>3, <1>4, <1>9
  <2>2. Enters(d, fs, page, ls, t, r, open, f, end, g, new, ns)
    BY <1>2, <1>3, <1>4, <1>5, <1>6, <1>7, <1>8, <1>9, <1>10, <2>1 DEF Enters
  <2>. QED
    BY <1>6, <1>9, <1>10, <1>11, <2>2 DEF EnterEven
<1>13. \E u : Evenly(d, ns, new, <<>>, u)
  BY <1>12, EvenNests
<1>. QED
  BY <1>1, <1>4, <1>9, <1>13

LEMMA EvenIncorporating ==
    ASSUME TextInv, frames # <<>>, doc' = doc, Text!Even(doc), NEW t, Evenly(doc, frames, out, para, t),
           Incorporates
    PROVE  \E u : Evenly(doc', frames', out', para', u)
<1>1. PICK r, f, open :
          /\ Does(r, open) /\ para' = <<>> /\ open = FALSE
          /\ f.source \notin {"doc", "block"} /\ Foreign(f.lines)
          /\ frames' = Append([frames EXCEPT ![Len(frames)].i = r.next], f)
  BY DEF Incorporates
<1>2. Setup(doc, frames, out, para)
  BY TextIsSetup
<1>3. InCall(frames, para, r, open) /\ out' = out \o r.pieces /\ para' = r.para
  BY <1>1, DoesInCall
<1>4. PICK fs, ns, page, new, ls, d :
          fs = frames /\ ns = frames' /\ page = out /\ new = out' /\ ls = para /\ d = doc
  OBVIOUS
<1>5. Pushed(fs, r.next, f, ns)
  BY <1>1, <1>4 DEF Pushed, Advance
<1>6. /\ Setup(d, fs, page, ls) /\ InCall(fs, ls, r, open) /\ new = page \o r.pieces
      /\ Evenly(d, fs, page, ls, t) /\ r.para = <<>>
  BY <1>1, <1>2, <1>3, <1>4
<1>7. PageAt(d, fs, page, ls, t)
  BY <1>6 DEF Evenly
<1>8. PageAt(d, ns, new, r.para, t)
  <2>1. PageAt(d, ns, page \o r.pieces, <<>>, t)
    BY <1>1, <1>5, <1>6, <1>7, FileTurn
  <2>. QED
    BY <1>6, <2>1
<1>9. r.next \in Nat /\ fs \in Seq(Text!Call) /\ fs # <<>>
  <2>1. r.next \in fs[Len(fs)].i..Len(fs[Len(fs)].lines) + 1
    BY <1>6 DEF InCall, Steps, Reads
  <2>2. fs[Len(fs)].i \in Nat \ {0} /\ fs \in Seq(Text!Call) /\ fs # <<>>
    BY <1>6, SetupIs
  <2>. QED
    BY <2>1, <2>2
<1>10. SameCalls(fs, ns, Len(fs)) /\ ns[Len(fs)].i = r.next
  BY <1>5, <1>9, CallsPushed DEF Deeper
<1>11. Evenly(d, ns, new, r.para, t)
  <2>1. Text!Even(d)
    BY <1>4
  <2>. QED
    BY <1>1, <1>6, <1>8, <1>10, <2>1, EvenOnward
<1>. QED
  BY <1>3, <1>4, <1>11

LEMMA EvenBlockEnding ==
    ASSUME TextInv, frames # <<>>, doc' = doc, Text!Even(doc), NEW t, Evenly(doc, frames, out, para, t),
           BlockEnds
    PROVE  \E u : Evenly(doc', frames', out', para', u)
<1>1. PICK r : /\ Flushes(r) /\ Text!AtEnd /\ Text!Top.source = "block"
               /\ out' = Text!Indented(out \o r.pieces) /\ para' = <<>> /\ frames' = Text!Popped
  BY DEF BlockEnds
<1>2. Setup(doc, frames, out, para)
  BY TextIsSetup
<1>3. PICK open : open = FALSE
  OBVIOUS
<1>4. InCall(frames, para, r, open) /\ r.para = <<>> /\ r.next = frames[Len(frames)].i
  BY <1>1, <1>3, FlushesInCall
<1>5. PICK f, new, ns, mid : /\ f = frames[Len(frames)] /\ new = out' /\ ns = frames'
                             /\ mid = out \o r.pieces
  OBVIOUS
<1>6. f.source = "block" /\ ~(f.i <= Len(f.lines)) /\ r.next = f.i
  <2>1. f.i \in Nat /\ Len(f.lines) \in Nat
    BY <1>2, <1>5, SetupIs
  <2>2. f.i > Len(f.lines) /\ f.source = "block"
    BY <1>1, <1>5 DEF Text!AtEnd, Text!i, Text!lines, Text!Top
  <2>. QED
    BY <1>4, <1>5, <2>1, <2>2
<1>7. Reindented(mid, new, f.start, f.indent)
  <2>1. mid \in Seq(Text!Emitted)
    <3>1. r.pieces \in Seq(Text!Emitted)
      BY <1>4 DEF InCall, Steps, Reads
    <3>2. out \in Seq(Text!Emitted)
      BY <1>2, SetupIs
    <3>. QED
      BY <1>5, <3>1, <3>2, Concatenated
  <2>2. new = Text!Indented(mid)
    BY <1>1, <1>5
  <2>3. Reindented(mid, new, frames[Len(frames)].start, frames[Len(frames)].indent)
    BY <2>1, <2>2, IndentedIs
  <2>. QED
    BY <1>5, <2>3
<1>8. PICK d, fs, page, ls : d = doc /\ fs = frames /\ page = out /\ ls = para
  OBVIOUS
<1>9. ns = SubSeq(fs, 1, Len(fs) - 1)
  BY <1>1, <1>5, <1>8 DEF Text!Popped
<1>10. LeavesEven(d, fs, page, ls, t, r, open, f, mid, new, ns)
  BY <1>2, <1>3, <1>4, <1>5, <1>6, <1>7, <1>8, <1>9 DEF LeavesEven
<1>11. \E u : Evenly(d, ns, new, <<>>, u)
  BY <1>10, EvenLeaves
<1>. QED
  BY <1>1, <1>5, <1>8, <1>11

LEMMA EvenFileEnding ==
    ASSUME TextInv, frames # <<>>, doc' = doc, NEW t, Evenly(doc, frames, out, para, t), FileEnds
    PROVE  \E u : Evenly(doc', frames', out', para', u)
<1>1. Setup(doc, frames, out, para)
  BY TextIsSetup
<1>2. PICK f, ns : f = frames[Len(frames)] /\ ns = frames'
  OBVIOUS
<1>3. f.source \notin {"doc", "block"}
  BY <1>2 DEF FileEnds, Text!Top
<1>4. ns = SubSeq(frames, 1, Len(frames) - 1) /\ out' = out /\ para' = para
  BY <1>2 DEF FileEnds, Text!Popped
<1>5. Evenly(doc, ns, out, para, t)
  BY <1>1, <1>2, <1>3, <1>4, EvenFileEnds
<1>. QED
  BY <1>2, <1>4, <1>5

LEMMA EvenDocEnding ==
    ASSUME TextInv, frames # <<>>, doc' = doc, Text!Even(doc), NEW t, Evenly(doc, frames, out, para, t),
           DocEnds
    PROVE  frames' = <<>> /\ EndPadded(doc', out') /\ Uncut(out')
<1>1. PICK r : /\ Flushes(r) /\ Text!AtEnd /\ Text!Top.source = "doc"
               /\ out' = out \o r.pieces /\ para' = <<>> /\ frames' = Text!Popped
  BY DEF DocEnds
<1>2. Setup(doc, frames, out, para)
  BY TextIsSetup
<1>3. PICK open : open = FALSE
  OBVIOUS
<1>4. InCall(frames, para, r, open)
  BY <1>1, <1>3, FlushesInCall
<1>5. PICK f, new : f = frames[Len(frames)] /\ new = out'
  OBVIOUS
<1>6. f.source = "doc" /\ new = out \o r.pieces
  BY <1>1, <1>5 DEF Text!Top
<1>7. PICK fs, page, ls, d : fs = frames /\ page = out /\ ls = para /\ d = doc
  OBVIOUS
<1>8. EndPadded(d, new) /\ Uncut(new)
  <2>1. /\ Text!Even(d) /\ Setup(d, fs, page, ls) /\ Evenly(d, fs, page, ls, t) /\ InCall(fs, ls, r, open)
        /\ new = page \o r.pieces /\ f = fs[Len(fs)]
    BY <1>2, <1>4, <1>5, <1>6, <1>7
  <2>. QED
    BY <1>3, <1>6, <2>1, EvenEnds
<1>9. frames' = <<>>
  <2>1. PageAt(doc, frames, out, para, t)
    BY DEF Evenly
  <2>. QED
    BY <2>1, DocEnding
<1>. QED
  BY <1>5, <1>7, <1>8, <1>9

EvenWay == Text!Even(doc) => EvenOnWay(doc, frames, out, para)

LEMMA EvenGoesOn ==
    ASSUME TextInv, Text!Even(doc), EvenOnWay(doc, frames, out, para), Text!Next
    PROVE  EvenOnWay(doc', frames', out', para')
<1>1. frames # <<>>
  BY NextReads
<1>2. PICK t : Evenly(doc, frames, out, para, t)
  BY <1>1, EvenOnWayIs
<1>3. doc' = doc /\ (GoesOn \/ Nests \/ Incorporates \/ BlockEnds \/ DocEnds \/ FileEnds)
  BY EveryStep
<1>4. CASE DocEnds
  BY <1>1, <1>2, <1>3, <1>4, EvenDocEnding, EvenOnWayIs
<1>5. CASE ~DocEnds
  <2>1. \E u : Evenly(doc', frames', out', para', u)
    BY <1>1, <1>2, <1>3, <1>5, EvenGoing, EvenEntering, EvenIncorporating, EvenBlockEnding, EvenFileEnding
  <2>. QED
    BY <2>1, EvenOnWayIs
<1>. QED
  BY <1>4, <1>5

LEMMA EvenBegins ==
    ASSUME Text!Init \/ Converted
    PROVE  EvenOnWay(doc, frames, out, para)
<1>1. out = <<>> /\ para = <<>> /\ DOMAIN out = {}
  BY EmptyIds DEF Text!Init, Converted
<1>2. EndPadded(doc, out) /\ Uncut(out)
  BY <1>1 DEF EndPadded, Uncut
<1>3. CASE Converted
  <2>1. frames = <<>>
    BY <1>3 DEF Converted
  <2>. QED
    BY <1>2, <2>1, EvenOnWayIs
<1>4. CASE Text!Init
  <2>1. PICK f, fs : f = Text!Frame(doc, "doc", 0, PageWidth) /\ fs = frames
    OBVIOUS
  <2>2. doc \in Texts /\ fs = <<f>>
    BY <1>4, <2>1 DEF Text!Init
  <2>3. f.lines = doc /\ f.source = "doc" /\ f.i = 1
    BY <2>1 DEF Text!Frame
  <2>4. Len(fs) = 1 /\ fs[1] = f /\ fs # <<>>
    BY <2>2
  <2>5. OnWay(doc, fs, out, para)
    BY <1>4, <2>1, WayBegins
  <2>6. PICK t : PageAt(doc, fs, out, para, t)
    BY <2>4, <2>5, NothingMoved
  <2>7. t = 1
    <3>1. t \in 1..1
      BY <2>4, <2>6 DEF PageAt, Chain
    <3>. QED
      BY <3>1
  <2>8. Base(f) = 0 /\ Shift(doc, f) = 0
    BY <2>3 DEF Base, Shift
  <2>10. AllPadded(doc, fs, out, 1) /\ LinesPadded(doc, out, para, Base(fs[1])) /\ UncutLines(para)
    BY <1>1, NoLines DEF AllPadded
  <2>11. 2..1 = {} /\ \A a \in 1..1 : a = 1
    OBVIOUS
  <2>12. Layout(doc, fs, out, para, 1)
    BY <1>2, <2>4, <2>10, <2>11 DEF Layout
  <2>13. Settled(doc, out, Base(fs[1]), At(fs, 1))
    <3>1. At(fs, 1) = 1
      BY <2>3, <2>4, <2>8 DEF At
    <3>2. 0 + 1..1 - 1 = {}
      OBVIOUS
    <3>3. Settled(doc, out, 0, 1)
      BY <3>2 DEF Settled
    <3>. QED
      BY <2>4, <2>8, <3>1, <3>3
  <2>14. Evenly(doc, fs, out, para, 1)
    BY <2>6, <2>7, <2>12, <2>13 DEF Evenly
  <2>. QED
    BY <2>1, <2>14, EvenOnWayIs
<1>. QED
  BY <1>3, <1>4

(* The blocks a line is in, as Rst tells them. *)
LEMMA OpenersAre ==
    ASSUME NEW m \in Nat
    PROVE  /\ \A h \in 1..m - 1 : OpenOver(doc, out, h, m) <=> h \in Text!Openers(m)
           /\ Text!Openers(m) \subseteq 1..m - 1
<1>1. \A h, form : ShownAs(out, {form}, h) <=> Text!As(h, form)
  BY DEF ShownAs, Has, Text!As, Text!Shows
<1>2. \A h : OpensIn(doc, out, h) <=> Text!Opens(h)
  BY <1>1 DEF OpensIn, Text!Opens
<1>3. \A h \in 1..m - 1 : Under(doc, h, m) <=> h \in Text!Over(m)
  BY DEF Under, Text!Over
<1>4. Text!Over(m) \subseteq 1..m - 1
  BY DEF Text!Over
<1>. QED
  BY <1>2, <1>3, <1>4 DEF OpenOver, Text!Openers

LEMMA TextIsIndented ==
    ASSUME TextInv, OnWay(doc, frames, out, para), EvenWay
    PROVE  Text!IndentedByBlocks
<1>. SUFFICES ASSUME frames = <<>>, Text!Even(doc), NEW k \in DOMAIN out, NEW n \in DOMAIN out[k].ids,
                     Text!OfDoc(out[k].ids[n]), out[k].form \in {"para", "item"},
                     Text!Prose(doc[out[k].ids[n][2]])
              PROVE  \E hs \in [DOMAIN out[k].pad -> Text!Openers(out[k].ids[n][2])] :
                         /\ \A a, b \in DOMAIN out[k].pad : a < b => hs[a] < hs[b]
                         /\ \A h \in Text!Openers(out[k].ids[n][2]) : \E a \in DOMAIN out[k].pad : hs[a] = h
                         /\ \A a \in DOMAIN out[k].pad : out[k].pad[a] = Text!BlockIndent(doc[hs[a]])
  BY Zenon DEF Text!IndentedByBlocks, Text!Converted
<1>0. PICK id, pad : id = out[k].ids[n] /\ pad = out[k].pad
  OBVIOUS
<1>1. Text!TypeOK
  BY TextIsTyped
<1>2. doc \in Seq(Text!Line) /\ out \in Seq(Text!Emitted) /\ Len(doc) \in Nat /\ k \in 1..Len(out)
  BY <1>1, LenProperties DEF Text!TypeOK
<1>3. Ordered(out, <<>>, Len(doc) + 1)
  BY NothingMoved
<1>4. EndPadded(doc, out)
  BY EvenOnWayIs DEF EvenWay
<1>5. out[k] \in Text!Emitted
  BY <1>2, ElementOfSeq
<1>6. pad \in Seq(Nat) /\ out[k].ids \in Seq(({"doc"} \cup DOMAIN Included) \X Nat)
  BY <1>0, <1>5 DEF Text!Emitted
<1>7. id \in ({"doc"} \cup DOMAIN Included) \X Nat
  <2>1. n \in 1..Len(out[k].ids)
    BY <1>6, LenProperties
  <2>. QED
    BY <1>0, <1>6, <2>1, ElementOfSeq
<1>8. PICK m : m = id[2]
  OBVIOUS
<1>9. id = <<"doc", m>> /\ m \in Nat
  BY <1>0, <1>7, <1>8 DEF Text!OfDoc
<1>10. Has(out[k].ids, m)
  BY <1>0, <1>9 DEF Has
<1>11. m \in 1..Len(doc)
  <2>1. Within(out[k].ids, 1, Len(doc) + 1 - 1)
    BY <1>3 DEF Ordered
  <2>2. m \in 1..Len(doc) + 1 - 1
    BY <1>10, <2>1, HasNumber
  <2>. QED
    BY <1>2, <2>2
<1>12. Padded(doc, out, m, pad, 0)
  BY <1>0, <1>4, <1>8, <1>10, <1>11 DEF EndPadded
<1>13. PICK hs \in [1..Len(pad) -> 0 + 1..m - 1] : PadsOf(doc, out, m, pad, 0, hs)
  BY <1>12 DEF Padded
<1>14. PICK z : z = Len(pad) /\ z \in Nat /\ DOMAIN pad = 1..z
  BY <1>6, LenProperties
<1>15. 0 + 1..m - 1 = 1..m - 1
  BY <1>9
<1>16. hs \in [1..z -> 1..m - 1]
  BY <1>13, <1>14, <1>15
<1>17. /\ \A a, c \in 1..z : a < c => hs[a] < hs[c]
       /\ \A a \in 1..z : OpenOver(doc, out, hs[a], m) /\ pad[a] = Text!BlockIndent(doc[hs[a]])
       /\ \A h \in 1..m - 1 : OpenOver(doc, out, h, m) => \E a \in 1..z : hs[a] = h
  BY <1>13, <1>14, <1>15 DEF PadsOf
<1>18. /\ \A h \in 1..m - 1 : OpenOver(doc, out, h, m) <=> h \in Text!Openers(m)
       /\ Text!Openers(m) \subseteq 1..m - 1
  BY <1>9, OpenersAre
<1>19. hs \in [1..z -> Text!Openers(m)]
  <2>1. \A a \in 1..z : hs[a] \in Text!Openers(m)
    BY <1>16, <1>17, <1>18
  <2>. QED
    BY <1>16, <2>1
<1>20. \A h \in Text!Openers(m) : \E a \in 1..z : hs[a] = h
  BY <1>17, <1>18
<1>21. PICK domain : domain = 1..z
  OBVIOUS
<1>22. /\ hs \in [domain -> Text!Openers(m)]
       /\ \A a, c \in domain : a < c => hs[a] < hs[c]
       /\ \A h \in Text!Openers(m) : \E a \in domain : hs[a] = h
       /\ \A a \in domain : pad[a] = Text!BlockIndent(doc[hs[a]])
  BY <1>17, <1>19, <1>20, <1>21
<1>23. DOMAIN out[k].pad = domain /\ out[k].ids[n][2] = m /\ out[k].pad = pad
  BY <1>0, <1>8, <1>14, <1>21
<1>. QED
  BY <1>22, <1>23

LEMMA TextIsUncut ==
    ASSUME EvenWay
    PROVE  Text!CutOnlyIfUneven
<1>. SUFFICES ASSUME Text!Even(doc), NEW k \in DOMAIN out,
                     \A n \in DOMAIN out[k].ids : Text!OfDoc(out[k].ids[n])
              PROVE  ~out[k].cut
  BY DEF Text!CutOnlyIfUneven
<1>1. EvenOnWay(doc, frames, out, para)
  BY DEF EvenWay
<1>2. Uncut(out)
  <2>1. CASE frames = <<>>
    BY <1>1, <2>1, EvenOnWayIs
  <2>2. CASE frames # <<>>
    <3>1. PICK t : Evenly(doc, frames, out, para, t)
      BY <1>1, <2>2, EvenOnWayIs
    <3>. QED
      BY <3>1 DEF Evenly, Layout
  <2>. QED
    BY <2>1, <2>2
<1>. QED
  BY <1>2 DEF Uncut, CutElsewhere, OfText, Text!OfDoc

(* When a document is converted whose blocks are evenly indented, a paragraph
   or an item is indented by the notes, tabs, definitions and other blocks
   that its lines are in, each once and from the outermost in, and by nothing
   else; and nothing is cut off a line of it (rst.go's nested, extractBlock
   and flush). *)
THEOREM TextIsAlwaysInItsBlocks ==
    IngestSpec => [](Text!IndentedByBlocks /\ Text!CutOnlyIfUneven)
<1>. DEFINE Inv == TextInv /\ OnWay(doc, frames, out, para) /\ EvenWay
            Placing == Text!IndentedByBlocks /\ Text!CutOnlyIfUneven
<1>1. IngestInit => Inv
  BY TextBegins, WayBegins, EvenBegins DEF IngestInit, EvenWay
<1>2. Inv /\ [IngestNext]_<<vars, rstVars>> => Inv'
  <2>. SUFFICES ASSUME TextInv, OnWay(doc, frames, out, para), EvenWay, [IngestNext]_<<vars, rstVars>>
                PROVE  TextInv' /\ OnWay(doc', frames', out', para')
                       /\ (Text!Even(doc') => EvenOnWay(doc', frames', out', para'))
    BY DEF EvenWay
  <2>1. Text!Next \/ UNCHANGED rstVars
    BY DEF IngestNext
  <2>2. TextInv'
    BY <2>1, TextGoesOn
  <2>3. CASE Text!Next
    <3>1. doc' = doc
      BY <2>3, EveryStep
    <3>2. Text!Even(doc) => EvenOnWay(doc', frames', out', para')
      BY <2>3, EvenGoesOn DEF EvenWay
    <3>. QED
      BY <2>2, <2>3, <3>1, <3>2, WayGoesOn
  <2>4. CASE UNCHANGED rstVars
    <3>1. doc' = doc /\ frames' = frames /\ out' = out /\ para' = para
      BY <2>4 DEF rstVars
    <3>. QED
      BY <2>2, <3>1 DEF EvenWay
  <2>. QED
    BY <2>1, <2>3, <2>4
<1>3. Inv => Placing
  BY TextIsIndented, TextIsUncut
<1>. HIDE DEF Inv, Placing
<1>4. IngestSpec => []Placing
  BY <1>1, <1>2, <1>3, PTL DEF IngestSpec
<1>. QED
  BY <1>4, PTL DEF Placing

(* Together: when a document is converted, the text on the page is the
   document's, whole, in its order, as wide as it may be and where its blocks
   put it (rst.go's parseLines, extractBlock and flush). *)
THEOREM ProseIsAlwaysKept == IngestSpec => []ProseIsKept
<1>1. Text!TypeOK /\ Text!NothingLost /\ Text!FitsTheWidth /\ Text!IndentedByBlocks /\ Text!CutOnlyIfUneven
      => ProseIsKept
  BY DEF ProseIsKept, Text!ProseIsKept
<1>. QED
  BY <1>1, TextIsAlwaysTyped, NothingIsEverLost, WidthsAlwaysFit, TextIsAlwaysInItsBlocks, PTL

=============================================================================
