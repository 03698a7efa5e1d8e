------------------------------- MODULE MCDocs -------------------------------
(* The instance of Documents for TLC: four documents, a shared include and one
   outside the listing, and for the conversion every document of three to five
   lines of a few kinds and some longer ones. *)
EXTENDS Documents, TLC

MCRstFiles == 1..4
MCExtras == {7}

(* Up to two entries each for the entry point and the third document and one
   for the others: cycles, repetitions and documents that list themselves,
   that nothing lists or that come up twice. *)
MCToctrees ==
    LET Short(n) == UNION {[1..k -> MCRstFiles] : k \in 0..n}
        Third == Short(1) \cup {<<1, 1>>, <<1, 4>>, <<4, 1>>, <<2, 4>>}
    IN {<<s, t, u, v>> : s \in {<<>>, <<3>>, <<4>>}, t \in Short(2),
                         u \in Third, v \in {<<>>, <<1>>}}

(* Documents 2 and 3 include the same file outside the listing, and document 4
   the listed one. *)
MCIncludes == <<{}, {7}, {7}, {5}>>

(* Label 1 is defined twice. *)
MCDefines == <<{1}, {}, {}, {1, 2}>>
MCUses == <<{}, {1, 2}, {1}, {2}>>

-----------------------------------------------------------------------------
(* Rst.                                                                    *)

L(kind, indent, arg) == [kind |-> kind, indent |-> indent, arg |-> arg]

(* What is left of a line as it loses its first characters: of "ab", "===",
   "* a", ":o:", "a::", ".. c", ".. include:: f" cut short and ".. x::". *)
Cuts(kind, arg) ==
    CASE kind = "blank" -> <<>>
      [] kind = "text" -> <<L("text", 0, arg)>>
      [] kind = "rule" -> <<L("rule", 0, arg), L("text", 0, ""), L("text", 0, "")>>
      [] kind = "bullet" -> <<L("text", 1, arg), L("text", 0, arg)>>
      [] kind = "option" -> <<L("text", 0, ""), L("text", 0, "")>>
      [] kind = "intro" -> <<L("intro", 0, ""), L("text", 0, "")>>
      [] kind = "comment" -> <<L("text", 0, ""), L("text", 1, ""), L("text", 0, "")>>
      [] kind = "include" -> <<L("text", 0, ""), L("text", 1, ""), L("text", 0, "")>>
      [] OTHER -> <<L("intro", 0, ""), L("intro", 1, ""), L("intro", 0, ""),
                    L("intro", 0, ""), L("text", 0, "")>>

Numbered(source, ls) == [k \in DOMAIN ls |-> [kind |-> ls[k].kind, indent |-> ls[k].indent,
    arg |-> ls[k].arg, left |-> Cuts(ls[k].kind, ls[k].arg), id |-> <<source, k>>, cut |-> 0]]

LineKinds == {L("blank", 0, ""), L("text", 0, "a"), L("text", 2, "b"), L("text", 4, "a"),
          L("note", 0, ""), L("tab", 2, ""), L("toctree", 0, ""), L("code", 0, ""),
          L("rule", 0, "=")}

FewKinds == {L("blank", 0, ""), L("text", 0, "a"), L("text", 2, "b"), L("note", 0, ""),
             L("toctree", 0, ""), L("rule", 0, "=")}

Short == {ls \in [1..3 -> LineKinds] \cup [1..4 -> LineKinds] \cup [1..5 -> FewKinds] :
             ls[1].kind # "blank" /\ ls[Len(ls)].kind # "blank"}

(* Titles, lists, deep nesting, and directives and options that are only text;
   lines that are cut short, emptied or too short for it; and overlines that
   are indented. *)
Long == {
    <<L("note", 0, ""), L("text", 6, "a"), L("text", 5, "b"), L("text", 4, "a"),
      L("text", 2, ""), L("tab", 2, ""), L("bullet", 5, "c"), L("blank", 0, ""),
      L("text", 2, "c")>>,
    <<L("only", 0, ""), L("text", 6, "a"), L("only", 2, ""), L("comment", 4, ""),
      L("text", 6, "b"), L("text", 8, "a"), L("text", 0, "")>>,
    <<L("rule", 2, "="), L("text", 2, "a"), L("rule", 2, "="), L("rule", 2, "-"),
      L("text", 2, ""), L("rule", 2, "-"), L("text", 0, ""), L("rule", 0, "="),
      L("rule", 0, "-"), L("text", 0, ""), L("rule", 0, "-")>>,
    <<L("rule", 0, "="), L("text", 0, ""), L("rule", 0, "="), L("text", 0, "a"),
      L("text", 0, "b"), L("rule", 0, "-"), L("note", 0, ""), L("text", 4, "c"),
      L("rule", 4, "-"), L("bullet", 4, "a"), L("text", 0, ""), L("rule", 0, "~")>>,
    <<L("only", 0, ""), L("note", 2, ""), L("tab", 4, ""), L("note", 6, ""),
      L("option", 8, ""), L("blank", 0, ""), L("text", 8, "a"), L("blank", 0, ""),
      L("text", 4, "b"), L("text", 6, "a"), L("text", 0, "")>>,
    <<L("text", 0, ""), L("text", 2, ""), L("text", 4, "a"), L("text", 6, "b"),
      L("comment", 0, ""), L("text", 2, ""), L("text", 0, "b")>>,
    <<L("text", 0, "a"), L("intro", 0, ""), L("blank", 0, ""), L("text", 4, "b"),
      L("blank", 0, ""), L("text", 4, ""), L("bullet", 0, "b"), L("option", 0, "")>>,
    <<L("note", 0, ""), L("note", 2, ""), L("note", 4, ""), L("note", 6, ""),
      L("toctree", 8, ""), L("text", 10, "a"), L("text", 0, "b")>>,
    <<L("text", 0, ""), L("text", 4, ""), L("toctree", 2, ""), L("blank", 0, ""),
      L("text", 4, "b")>>,
    <<L("code", 0, ""), L("blank", 0, ""), L("comment", 2, ""), L("text", 4, "a"),
      L("text", 0, "b")>>,
    <<L("tab", 0, ""), L("option", 2, ""), L("text", 4, "a"), L("intro", 2, ""),
      L("text", 0, "b")>>}

Including == {
    <<L("text", 0, "a"), L("include", 0, f), L("text", 0, "b"), L("note", 0, ""),
      L("include", 4, g), L("blank", 0, ""), L("text", 4, "c"), L("rule", 0, "=")>> :
        f, g \in {"one", "two", "part", "whole", "lines", "none", "bare"}}

MCTexts == {Numbered("doc", ls) : ls \in Short \cup Long \cup Including}

MCWords == {"", "a", "b", "c", "d", "=", "-", "~", "one", "two", "part", "whole",
            "lines", "none", "bare", "start-after", "start-line: 2", "start-line: x"}

MCStartLines == "start-line: 2" :> 2 @@ "start-line: x" :> 0

(* one and two include each other; part includes its own second half, and
   whole itself, as it has no line to start after; lines includes itself from
   its second line on, and then whole as what it asks for is no number. *)
MCSources ==
    "one" :> Numbered("one", <<L("text", 0, "a"), L("rule", 0, "="), L("include", 0, "two"),
                               L("text", 0, "d")>>) @@
    "two" :> Numbered("two", <<L("note", 0, ""), L("include", 2, "one"), L("text", 2, "c"),
                               L("blank", 0, "")>>) @@
    "part" :> Numbered("part", <<L("text", 0, "a"), L("blank", 0, ""), L("comment", 0, ""),
                                 L("text", 0, "b"), L("include", 0, "part"),
                                 L("option", 2, "start-after")>>) @@
    "whole" :> Numbered("whole", <<L("text", 0, "b"), L("include", 0, "whole"),
                                   L("option", 2, "start-after")>>) @@
    "lines" :> Numbered("lines", <<L("text", 0, "c"), L("include", 0, "lines"),
                                   L("option", 2, "start-line: x"), L("option", 2, "start-line: 2"),
                                   L("include", 0, "lines"), L("option", 2, "start-line: x")>>) @@
    "bare" :> Numbered("bare", <<L("blank", 0, "")>>)

=============================================================================
