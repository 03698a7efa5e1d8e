--------------------------------- MODULE Rst ---------------------------------
(***************************************************************************)
(* internal/text/rst.go: the conversion of a reStructuredText document to  *)
(* plain text.  Lines are read one construct at a time; a construct that   *)
(* holds others has its block cut out, dedented and read the same way, and *)
(* what it gave is indented afterwards; an included file is read in place. *)
(* Paragraph, footnotes and section levels are shared by all of them.      *)
(*                                                                         *)
(* A line is its kind, its indentation, what the kind needs (the adornment *)
(* of a "rule", the file of an "include", the link in a "text"), what is   *)
(* left of it when its first characters are cut off, and how many it has   *)
(* lost.                                                                   *)
(* The page is the sequence of pieces that were emitted; blank lines and   *)
(* wrapping are left out.                                                  *)
(***************************************************************************)
EXTENDS Integers, Sequences, SequencesExt, FiniteSets

CONSTANTS Docs,        \* the documents: sequences of lines
          Names,       \* what the arguments of lines are
          Sources,     \* what Options.Include resolves: file to lines
          StartLines,  \* the number in a start-line option, 0 if it is none
          Width,       \* Options.Width
          MinWidth,    \* a block is not made narrower than this: 20
          MaxInclude,  \* Options.MaxIncludeDepth: 6
          MaxNest      \* maxNestDepth: 12

VARIABLES doc,    \* the document
          frames, \* the calls of parseLines that have not returned
          para,   \* the lines of the paragraph at hand
          out,    \* the pieces emitted
          adorn,  \* section adornments in the order of their first use
          seen, links  \* footnote numbers, and the targets in their order

vars == <<doc, frames, para, out, adorn, seen, links>>

Kinds == {"blank", "text", "rule", "bullet", "option", "intro", "note", "tab",
          "only", "toctree", "code", "comment", "include"}

(* id is where the line is from, the document or a file, and its number;
   left[c] what it is without its first c characters, of which it has one more
   than there are places in left. *)
Left == [kind : Kinds \ {"blank"}, indent : Nat, arg : Names]
Line == [kind : Kinds, indent : Nat, arg : Names, left : Seq(Left),
         id : ({"doc"} \cup DOMAIN Sources) \X Nat, cut : Nat]

(* A call of parseLines, and where the lines come from. *)
Frame(lines, source, indent, narrowed) ==
    [lines |-> lines, i |-> 1, source |-> source, indent |-> indent,
     start |-> 0, width |-> narrowed]

Top == frames[Len(frames)]
lines == Top.lines
i == Top.i
line == lines[i]

Blank(l) == l.kind = "blank"
Ancestors == {k \in DOMAIN frames : frames[k].source \notin {"doc", "block"}}
Depth == Cardinality({k \in DOMAIN frames : frames[k].source = "block"})

-----------------------------------------------------------------------------
(* Lines.                                                                  *)

(* The first of some places, or else the end. *)
First(places, end) == IF places = {} THEN end ELSE Min(places)

NextNonBlank(ls, k) == First({n \in k..Len(ls) : ~Blank(ls[n])}, Len(ls) + 1)

(* Whether the line at k ends a block that is indented by more than base. *)
Dedents(ls, k, base) ==
    LET n == NextNonBlank(ls, k) IN n > Len(ls) \/ ls[n].indent <= base

SkipOptions(ls, k) ==
    First({n \in k..Len(ls) : ls[n].kind # "option" \/ ls[n].indent = 0}, Len(ls) + 1)

Above(l, base) == ~Blank(l) /\ l.indent <= base

(* Mutant: a line that is indented as far is skipped too. *)
SkipIndentedToo(ls, k) ==
    First({n \in k + 1..Len(ls) : ~Blank(ls[n]) /\ ls[n].indent < ls[k].indent},
          Len(ls) + 1)

(* Mutant: the line itself counts. *)
SkipIndentedStuck(ls, k) ==
    First({n \in k..Len(ls) : Above(ls[n], ls[k].indent)}, Len(ls) + 1)

(* skipIndented: the first line after k that is not below it. *)
SkipIndented(ls, k) ==
    First({n \in k + 1..Len(ls) : Above(ls[n], ls[k].indent)}, Len(ls) + 1)

(* A line that is not indented so far loses its first characters: it becomes
   what is left of it, or empty if that is all of it.  A shorter one only loses
   its indentation. *)
Shortened(l, by) ==
    LET rest == l.left[by]
    IN [l EXCEPT !.kind = rest.kind, !.indent = rest.indent, !.arg = rest.arg,
                 !.left = SubSeq(@, by + rest.indent + 1, Len(@)), !.cut = @ + by]
Emptied(l, by) == [l EXCEPT !.kind = "blank", !.indent = 0, !.left = <<>>, !.cut = @ + by]
Dedent(l, by) ==
    IF Blank(l) THEN l
    ELSE IF l.indent >= by THEN [l EXCEPT !.indent = @ - by]
    ELSE IF by - l.indent <= Len(l.left) THEN Shortened(l, by - l.indent)
    ELSE IF by - l.indent = Len(l.left) + 1 THEN Emptied(l, by - l.indent)
    ELSE [l EXCEPT !.indent = 0]

(* extractBlock: the block below base that starts at k, dedented, and the
   line behind it. *)
BlockEnd(ls, k, base) ==
    LET first == NextNonBlank(ls, k)
    IN First({n \in first..Len(ls) : Dedents(ls, n, base)}, Len(ls) + 1)

ExtractBlock(ls, k, base) ==
    LET first == NextNonBlank(ls, k)
        end == BlockEnd(ls, k, base)
    IN IF Dedents(ls, k, base) THEN [body |-> <<>>, end |-> first]
       ELSE [body |-> [n \in 1..end - first |-> Dedent(ls[first + n - 1], ls[first].indent)],
             end |-> end]

-----------------------------------------------------------------------------
(* Footnotes and pieces.                                                   *)

Notes == [seen |-> seen, links |-> links]

Linked(ls) == {n \in DOMAIN ls : ls[n].kind \in {"text", "bullet"} /\ ls[n].arg # ""}

(* Mutant: a target is listed again in every piece that links to it. *)
NewLinksAnew(notes, ls) ==
    {n \in Linked(ls) : \A m \in Linked(ls) : ls[m].arg = ls[n].arg => n <= m}

(* footnote: a target that has no number yet gets the next one. *)
NewLinks(notes, ls) ==
    {n \in Linked(ls) : /\ ls[n].arg \notin DOMAIN notes.seen
                        /\ \A m \in Linked(ls) : ls[m].arg = ls[n].arg => n <= m}

Rank(n, S) == Cardinality({m \in S : m <= n})

(* inline: the links of some lines become footnotes. *)
Inline(notes, ls) ==
    LET new == NewLinks(notes, ls)
        NewTarget(k) == ls[CHOOSE n \in new : Rank(n, new) = k].arg
        more == [k \in 1..Cardinality(new) |-> NewTarget(k)]
        place == [t \in Range(more) |-> CHOOSE k \in DOMAIN more : more[k] = t]
    IN [seen |-> [t \in DOMAIN notes.seen \cup Range(more) |->
                     IF t \in Range(more) THEN Len(notes.links) + place[t] ELSE notes.seen[t]],
        links |-> notes.links \o more]

(* The numbers that the links in some lines show, from the notes with them. *)
Marks(notes, ls) ==
    {[target |-> ls[n].arg, n |-> notes.seen[ls[n].arg]] : n \in Linked(ls)}

Piece(form, ls, level, marks) ==
    [form |-> form, ids |-> [n \in DOMAIN ls |-> ls[n].id], level |-> level,
     mark |-> "", marks |-> marks, pad |-> <<>>, width |-> Top.width,
     cut |-> \E n \in DOMAIN ls : ls[n].cut > 0]

(* flush, and then the pieces of the construct at hand. *)
ParaNotes == Inline(Notes, para)
ParaPiece ==
    IF para = <<>> THEN <<>> ELSE <<Piece("para", para, 0, Marks(ParaNotes, para))>>

FlushThen(notes, pieces) ==
    /\ out' = out \o ParaPiece \o pieces
    /\ seen' = notes.seen /\ links' = notes.links
    /\ para' = <<>>
Flush == FlushThen(ParaNotes, <<>>)

(* A piece of its own for some lines, their links footnoted after those of
   the paragraph before. *)
FlushAndEmit(form, ls) ==
    LET notes == Inline(ParaNotes, ls)
    IN FlushThen(notes, <<Piece(form, ls, 0, Marks(notes, ls))>>)

Go(next) == frames' = [frames EXCEPT ![Len(frames)].i = next]

(* Mutant: the pieces before the block are indented with it. *)
NestedAfter(body, indent, next, before) ==
    /\ body # <<>> /\ Depth < MaxNest
    /\ frames' = Append([frames EXCEPT ![Len(frames)].i = next],
           [Frame(body, "block", indent,
                  IF Top.width - indent > MinWidth THEN Top.width - indent ELSE Top.width)
              EXCEPT !.start = Len(out)])

(* Mutant: the block is wrapped as wide as what it stands in. *)
NestedWide(body, indent, next, before) ==
    /\ body # <<>> /\ Depth < MaxNest
    /\ frames' = Append([frames EXCEPT ![Len(frames)].i = next],
           [Frame(body, "block", indent, Top.width) EXCEPT !.start = Len(out) + before])

(* nested: the lines of the block are read, unless that is too deep. *)
Nested(body, indent, next, before) ==
    /\ body # <<>> /\ Depth < MaxNest
    /\ frames' = Append([frames EXCEPT ![Len(frames)].i = next],
           [Frame(body, "block", indent,
                  IF Top.width - indent > MinWidth THEN Top.width - indent ELSE Top.width)
              EXCEPT !.start = Len(out) + before])

Flat(body, indent) ==
    [n \in DOMAIN body |-> [Piece("flat", <<body[n]>>, 0, {}) EXCEPT !.pad = <<indent>>]]

(* A block below line i, after the pieces of the line itself. *)
Below(form, indent) ==
    LET from == IF form = "term" THEN i + 1 ELSE SkipOptions(lines, i + 1)
        block == ExtractBlock(lines, from, line.indent)
        own == IF form = "term" THEN <<line>> ELSE <<>>
        notes == Inline(ParaNotes, own)
        pieces == IF form = "none" THEN <<>> ELSE <<Piece(form, own, 0, Marks(notes, own))>>
        before == Len(ParaPiece) + Len(pieces)
    IN \/ /\ Nested(block.body, indent, block.end, before)
          /\ FlushThen(notes, pieces)
       \/ /\ block.body = <<>> \/ Depth >= MaxNest
          /\ Go(block.end)
          /\ FlushThen(notes, pieces \o Flat(block.body, indent))

-----------------------------------------------------------------------------
(* parseLines: one construct.  The cases are tried in this order.          *)

More == frames # <<>> /\ i <= Len(lines)

IsRule(k) == k <= Len(lines) /\ lines[k].kind = "rule"
Overlined == IsRule(i) /\ IsRule(i + 2) /\ ~Blank(lines[i + 1])
Underlined == ~Blank(line) /\ IsRule(i + 1) /\ line.kind # "bullet"

(* Mutant: what levels there are is not remembered. *)
SectionForgotten(title, mark, next) ==
    LET own == Inline(Notes, <<title>>)
        notes == Inline(own, para)
        flushed == IF para = <<>> THEN <<>> ELSE <<Piece("para", para, 0, Marks(notes, para))>>
    IN /\ out' = out \o flushed \o
              <<[Piece("title", <<title>>, 1, Marks(own, <<title>>)) EXCEPT !.mark = mark]>>
       /\ seen' = notes.seen /\ links' = notes.links
       /\ para' = <<>>
       /\ Go(next)
       /\ UNCHANGED <<doc, adorn>>

(* section: an adornment has the level of its first use. *)
Section(title, mark, next) ==
    LET known == \E k \in DOMAIN adorn : adorn[k] = mark
        level == IF known THEN CHOOSE k \in DOMAIN adorn : adorn[k] = mark
                 ELSE Len(adorn) + 1
        own == Inline(Notes, <<title>>)
        notes == Inline(own, para)
        flushed == IF para = <<>> THEN <<>> ELSE <<Piece("para", para, 0, Marks(notes, para))>>
    IN /\ adorn' = IF known THEN adorn ELSE Append(adorn, mark)
       /\ out' = out \o flushed \o
              <<[Piece("title", <<title>>, level, Marks(own, <<title>>)) EXCEPT !.mark = mark]>>
       /\ seen' = notes.seen /\ links' = notes.links
       /\ para' = <<>>
       /\ Go(next)
       /\ UNCHANGED doc

(* An overline is known by its first character, a space if it is indented. *)
Title ==
    \/ /\ More /\ Overlined
       /\ Section(lines[i + 1], IF line.indent = 0 THEN line.arg ELSE " ", i + 3)
    \/ More /\ ~Overlined /\ Underlined /\ Section(line, lines[i + 1].arg, i + 2)

Plainly(kinds) == More /\ ~Overlined /\ ~Underlined /\ line.kind \in kinds

(* A directive whose body is read: an admonition, a tab, or one that leaves
   no trace of its own. *)
Block ==
    /\ \/ Plainly({"note"}) /\ Below("label", 4)
       \/ Plainly({"tab"}) /\ Below("label", 2)
       \/ Plainly({"only"}) /\ Below("none", 0)
    /\ UNCHANGED <<doc, adorn>>

(* A directive that is dropped with its body. *)
Drop ==
    /\ Plainly({"toctree"})
    /\ Flush /\ Go(SkipIndented(lines, i))
    /\ UNCHANGED <<doc, adorn>>

(* A comment or target; the paragraph before goes on. *)
Comment ==
    /\ Plainly({"comment"})
    /\ Go(SkipIndented(lines, i))
    /\ UNCHANGED <<doc, para, out, adorn, seen, links>>

(* literalBlock from line k on: verbatim, as far as it is indented. *)
LiteralEnd(k) ==
    LET first == NextNonBlank(lines, k)
        base == lines[first].indent
        Ends(n) == IF Blank(lines[n])
                   THEN LET next == NextNonBlank(lines, n)
                        IN next <= Len(lines) /\ lines[next].indent < base
                   ELSE lines[n].indent < base
    IN IF first > Len(lines) \/ base = 0 THEN first
       ELSE First({n \in first..Len(lines) : Ends(n)}, Len(lines) + 1)
Literal(k) ==
    LET before == NextNonBlank(lines, k) - 1
    IN [n \in 1..LiteralEnd(k) - 1 - before |->
           Piece("code", <<lines[before + n]>>, 0, {})]

Code ==
    /\ Plainly({"code"})
    /\ LET k == SkipOptions(lines, i + 1)
       IN FlushThen(ParaNotes, Literal(k)) /\ Go(LiteralEnd(k))
    /\ UNCHANGED <<doc, adorn>>

(* A paragraph that ends in "::". *)
Introduces ==
    /\ Plainly({"intro"})
    /\ LET all == Append(para, line)
           notes == Inline(Notes, all)
       IN /\ out' = out \o <<Piece("para", all, 0, Marks(notes, all))>> \o Literal(i + 1)
          /\ seen' = notes.seen /\ links' = notes.links
          /\ para' = <<>>
          /\ Go(LiteralEnd(i + 1))
    /\ UNCHANGED <<doc, adorn>>

BlankLine ==
    /\ Plainly({"blank"})
    /\ Flush /\ Go(i + 1)
    /\ UNCHANGED <<doc, adorn>>

Bullet ==
    /\ Plainly({"bullet", "option"})
    /\ FlushAndEmit("item", <<line>>) /\ Go(i + 1)
    /\ UNCHANGED <<doc, adorn>>

(* isDefTerm: the next line is indented deeper. *)
IsTerm == i < Len(lines) /\ ~Blank(lines[i + 1]) /\ lines[i + 1].indent > line.indent

Definition ==
    /\ Plainly({"text", "rule"}) /\ IsTerm
    /\ Below("term", 6)
    /\ UNCHANGED <<doc, adorn>>

Text ==
    /\ Plainly({"text", "rule"}) /\ ~IsTerm
    /\ para' = Append(para, line)
    /\ Go(i + 1)
    /\ UNCHANGED <<doc, out, adorn, seen, links>>

-----------------------------------------------------------------------------
(* include.                                                                *)

StartsAfter(ls, n) ==
    \E k \in n + 1..SkipOptions(ls, n + 1) - 1 : ls[k].arg = "start-after"

(* start-line: the last of these options counts. *)
LineOptions(ls, n) ==
    {k \in n + 1..SkipOptions(ls, n + 1) - 1 : ls[k].arg \in DOMAIN StartLines}
StartsAtLine(ls, n) == LineOptions(ls, n) # {}
StartLine(ls, n) ==
    IF StartsAtLine(ls, n) THEN StartLines[ls[Max(LineOptions(ls, n))].arg] ELSE 0

(* sliceInclude: from behind the line that has the text, a comment here, or
   all of it if no line has; and of that from the line with the number on, if
   there is one. *)
Markers(ls) == {n \in DOMAIN ls : ls[n].kind = "comment"}
After(body) ==
    IF StartsAfter(lines, i) /\ Markers(body) # {}
    THEN SubSeq(body, Min(Markers(body)) + 1, Len(body)) ELSE body
Sliced(body) ==
    LET after == After(body)
        from == StartLine(lines, i)
    IN IF from \in 1..Len(after) THEN SubSeq(after, from, Len(after)) ELSE after

(* Whether the directive says where to start. *)
AsksForPart(ls, n) == StartsAfter(ls, n) \/ StartsAtLine(ls, n)

(* Mutant: one include too many. *)
MayIncludeDeeper(file) ==
    /\ Cardinality(Ancestors) <= MaxInclude
    /\ AsksForPart(lines, i) \/ \A k \in Ancestors : frames[k].source # file

(* Mutant: the stack of includes is not looked at. *)
MayIncludeAgain(file) == Cardinality(Ancestors) < MaxInclude

MayInclude(file) ==
    /\ Cardinality(Ancestors) < MaxInclude
    /\ AsksForPart(lines, i) \/ \A k \in Ancestors : frames[k].source # file

Include ==
    /\ Plainly({"include"})
    /\ LET file == line.arg
           end == SkipIndented(lines, i)
           body == IF file \in DOMAIN Sources THEN Sliced(Sources[file]) ELSE <<>>
       IN \/ /\ MayInclude(file) /\ NextNonBlank(body, 1) <= Len(body)
             /\ Flush
             /\ frames' = Append([frames EXCEPT ![Len(frames)].i = end],
                                 [Frame(body, file, 0, Top.width) EXCEPT !.start = Len(out)])
          \/ /\ MayInclude(file) /\ file \notin DOMAIN Sources
             /\ FlushThen(ParaNotes, <<Piece("omitted", <<line>>, 0, {})>>)
             /\ Go(end)
          \/ /\ ~MayInclude(file) \/ (file \in DOMAIN Sources /\ NextNonBlank(body, 1) > Len(body))
             /\ Flush /\ Go(end)
    /\ UNCHANGED <<doc, adorn>>

-----------------------------------------------------------------------------
(* The lines of a call are read.                                           *)

Popped == SubSeq(frames, 1, Len(frames) - 1)
AtEnd == frames # <<>> /\ i > Len(lines)

(* nested: what the block gave is indented. *)
Indented(pieces) ==
    [k \in DOMAIN pieces |->
        IF k > Top.start THEN [pieces[k] EXCEPT !.pad = <<Top.indent>> \o @] ELSE pieces[k]]

EndBlock ==
    /\ AtEnd /\ Top.source = "block"
    /\ out' = Indented(out \o ParaPiece)
    /\ seen' = ParaNotes.seen /\ links' = ParaNotes.links
    /\ para' = <<>>
    /\ frames' = Popped
    /\ UNCHANGED <<doc, adorn>>

EndInclude ==
    /\ AtEnd /\ Top.source \notin {"doc", "block"}
    /\ frames' = Popped
    /\ UNCHANGED <<doc, para, out, adorn, seen, links>>

EndDoc ==
    /\ AtEnd /\ Top.source = "doc"
    /\ Flush
    /\ frames' = Popped
    /\ UNCHANGED <<doc, adorn>>

Init ==
    /\ doc \in Docs
    /\ frames = <<Frame(doc, "doc", 0, Width)>>
    /\ para = <<>> /\ out = <<>> /\ adorn = <<>>
    /\ seen = <<>> /\ links = <<>>

Next ==
    \/ Title \/ Block \/ Drop \/ Comment \/ Code \/ Introduces \/ BlankLine
    \/ Bullet \/ Definition \/ Text \/ Include
    \/ EndBlock \/ EndInclude \/ EndDoc

Spec == Init /\ [][Next]_vars

(* The conversion is a function call. *)
FairSpec == Spec /\ WF_vars(Next)

-----------------------------------------------------------------------------
(* Properties.                                                             *)

Converted == frames = <<>>

Call == [lines : Seq(Line), i : Nat, source : {"doc", "block"} \cup DOMAIN Sources,
         indent : Nat, start : Nat, width : Int]

(* What an adornment is known by: what it is made of, or the space before it. *)
Adornments == Names \cup {" "}

Emitted == [form : {"para", "title", "item", "label", "term", "code", "flat", "omitted"},
            ids : Seq(({"doc"} \cup DOMAIN Sources) \X Nat), level : Nat,
            mark : Adornments, marks : SUBSET [target : Names, n : Nat],
            pad : Seq(Nat), width : Int, cut : BOOLEAN]

TypeOK ==
    /\ doc \in Seq(Line) /\ frames \in Seq(Call) /\ out \in Seq(Emitted)
    /\ Cardinality(Ancestors) <= MaxInclude /\ Depth <= MaxNest
    /\ \A k \in DOMAIN frames :
           /\ frames[k].i \in 1..Len(frames[k].lines) + 1
           /\ frames[k].start \in 0..Len(out)
    /\ para \in Seq({l \in Line : l.kind \in {"text", "rule"}})
    /\ adorn \in Seq(Adornments) /\ links \in Seq(DOMAIN seen)
    /\ seen \in [DOMAIN seen -> DOMAIN links] /\ DOMAIN seen \subseteq Names

(* A footnote's number is the place of its target in the list at the end,
   however deep in blocks and includes it stands, and no target is listed
   twice. *)
FootnotesAgree ==
    /\ \A k \in DOMAIN out : \A mark \in out[k].marks :
           mark.n \in DOMAIN links /\ links[mark.n] = mark.target
    /\ \A m, n \in DOMAIN links : links[m] = links[n] => m = n

(* One adornment is one level throughout, in included files and in blocks
   too, and levels are numbered without gaps.  All overlines that are indented
   count as one adornment, whatever they are made of. *)
LevelsAgree ==
    LET titles == {k \in DOMAIN out : out[k].form = "title"}
    IN \A j, k \in titles :
           /\ (out[j].mark = out[k].mark) <=> (out[j].level = out[k].level)
           /\ out[k].level > 1 => \E h \in titles : h < k /\ out[h].level = out[k].level - 1

(* What the document's indentation says of line k: the lines it is under. *)
Over(k) == {h \in 1..k - 1 : ~Blank(doc[h]) /\ \A n \in h + 1..k :
                Blank(doc[n]) \/ doc[n].indent > doc[h].indent}

(* No line is indented less than one before it in its block, whose lines the
   options of its directive are not; and these are below it. *)
Directive == {"note", "tab", "only"}
Even(ls) ==
    /\ \A j, k \in DOMAIN ls :
           j < k /\ 0 < ls[k].indent /\ ls[k].indent < ls[j].indent =>
               \E h \in 1..j :
                   /\ ls[h].indent = ls[k].indent /\ ls[h].kind \notin {"blank", "option"}
                   /\ \A n \in h..k : Blank(ls[n]) \/ ls[n].indent >= ls[k].indent
    /\ \A h, k \in DOMAIN ls :
           /\ h < k /\ ls[h].kind \in Directive
           /\ \A n \in h + 1..k : ls[n].kind = "option"
           => ls[k].indent > ls[h].indent

(* The lines of the document that a piece shows. *)
OfDoc(id) == id[1] = "doc"
Shows(piece, h) == \E n \in DOMAIN piece.ids : piece.ids[n] = <<"doc", h>>
As(h, form) == \E k \in DOMAIN out : out[k].form = form /\ Shows(out[k], h)
OnPage(h) == \E k \in DOMAIN out : out[k].form # "omitted" /\ Shows(out[k], h)

(* No line of the document is printed twice or moved: what of it is on the
   page is in its order. *)
Earlier(j, m, k, n) == j < k \/ (j = k /\ m < n)
InOrder ==
    \A j, k \in DOMAIN out : \A m \in DOMAIN out[j].ids, n \in DOMAIN out[k].ids :
        Earlier(j, m, k, n) /\ OfDoc(out[j].ids[m]) /\ OfDoc(out[k].ids[n]) =>
            out[j].ids[m][2] < out[k].ids[n][2]

(* No line of prose is lost if the document is evenly indented: on the page
   are those that no directive or comment is over that was dropped.  (In an
   uneven block a line that has only the characters that are cut is lost.)  A
   directive that stands on the page itself is not dropped: in a literal block,
   or in a block nested too deep, it is shown as it is, with what it holds. *)
Prose(l) == l.kind \in {"text", "bullet", "intro"}
Dropped == {h \in DOMAIN doc : doc[h].kind \in {"toctree", "comment", "include"} /\ ~OnPage(h)}
NothingLost ==
    Converted => /\ InOrder
                 /\ Even(doc) => \A k \in DOMAIN doc : Prose(doc[k]) =>
                        (OnPage(k) <=> Over(k) \cap Dropped = {})

(* A line is indented by the blocks it is in and by nothing else: those of
   directives, and the definitions of terms. *)
Opens(h) ==
    \/ doc[h].kind \in Directive /\ ~As(h, "title")
    \/ As(h, "term")
BlockIndent(l) ==
    CASE l.kind = "note" -> 4 [] l.kind = "tab" -> 2 [] l.kind = "only" -> 0
      [] OTHER -> 6
Openers(k) == {h \in Over(k) : Opens(h)}
IndentedByBlocks ==
    Converted /\ Even(doc) => \A k \in DOMAIN out : \A n \in DOMAIN out[k].ids :
        LET id == out[k].ids[n]
            pad == out[k].pad
        IN OfDoc(id) /\ out[k].form \in {"para", "item"} /\ Prose(doc[id[2]]) =>
               \E hs \in [DOMAIN pad -> Openers(id[2])] :
                   /\ \A a, b \in DOMAIN pad : a < b => hs[a] < hs[b]
                   /\ \A h \in Openers(id[2]) : \E a \in DOMAIN pad : hs[a] = h
                   /\ \A a \in DOMAIN pad : pad[a] = BlockIndent(doc[hs[a]])

(* What is wrapped is wrapped so that it fits with its indentation, unless
   its block would be too narrow. *)
Sum(pad) == LET sum[n \in 0..Len(pad)] == IF n = 0 THEN 0 ELSE sum[n - 1] + pad[n]
            IN sum[Len(pad)]
FitsTheWidth ==
    Converted => \A k \in DOMAIN out : out[k].form \in {"para", "item", "term"} =>
        Sum(out[k].pad) + out[k].width <= Width \/ out[k].width <= MinWidth + 6

(* A file is not included in itself, at any distance, unless by a directive
   that says where to start, at a text or a line; and then less of it is, or
   all of it because that text or line is not there or is the first. *)
Incomplete(ls, n, part, whole) ==
    \/ Len(part) < Len(whole)
    \/ /\ StartsAfter(ls, n) => Markers(whole) = {}
       /\ StartLine(ls, n) \notin 2..Len(whole)
IncludesPart(frame, part, whole) ==
    \E n \in DOMAIN frame.lines :
        /\ frame.lines[n].kind = "include" /\ SkipIndented(frame.lines, n) = frame.i
        /\ AsksForPart(frame.lines, n) /\ Incomplete(frame.lines, n, part, whole)
StackHasNoCycle ==
    \A j, k \in Ancestors : j < k /\ frames[j].source = frames[k].source =>
        IncludesPart(frames[k - 1], frames[k].lines, Sources[frames[k].source])

(* A line loses characters only where its block has a line before it that is
   indented more, which reStructuredText calls an error: extractBlock takes
   the first line's indentation from every line that is as long, spaces or
   not. *)
CutOnlyIfUneven ==
    Even(doc) => \A k \in DOMAIN out :
        (\A n \in DOMAIN out[k].ids : OfDoc(out[k].ids[n])) => ~out[k].cut

(* Together: the text on the page is the document's, whole, in its order and
   where its blocks put it. *)
ProseIsKept ==
    NothingLost /\ IndentedByBlocks /\ FitsTheWidth /\ CutOnlyIfUneven

(* Together: what nested and included text shares with the text around it,
   footnotes, levels and the files under way, stays one. *)
NestingIsSafe == FootnotesAgree /\ LevelsAgree /\ StackHasNoCycle

(* Every document is converted: files that include each other, or a part of
   themselves, do not keep the converter from its end. *)
Converts == <>Converted

=============================================================================
