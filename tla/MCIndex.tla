------------------------------ MODULE MCIndex ------------------------------
(* The inverted index: IndexFile with indexes of up to two documents and two
   terms and numbers of three values, so that differences wrap around, and
   InvertedIndex with an alphabet of an underscore, two letters, white space, a
   hyphen and a full stop, terms of up to five characters and trees of three
   files. *)
EXTENDS Indexing

MCStrings == {"a", "b"}

Lists == UNION {[1..k -> [doc : 0..2, freq : 1..2]] : k \in 0..2}

MCIndexes ==
    {[docs |-> d, terms |-> t, postings |-> p] :
        d \in {<<>>, <<[selector |-> "a", title |-> "b"]>>,
               <<[selector |-> "a", title |-> "b"], [selector |-> "b", title |-> "b"]>>},
        t \in {<<"a", "b">>}, p \in {<<x, y>> : x \in Lists, y \in {<<>>, <<[doc |-> 2, freq |-> 1]>>}}}
    \cup {[docs |-> <<>>, terms |-> <<>>, postings |-> <<>>]}

-----------------------------------------------------------------------------
a == <<6>>
ab == <<6, 7>>
abb == <<6, 7, 7>>
ba == <<7, 6>>
ab_ba == <<6, 7, 5, 7, 6>>
a_bb == <<6, 5, 7, 7>>
ab_ba_a == <<6, 7, 5, 7, 6, 5, 6>>
aab == <<6, 6, 7>>
line == <<1>>
space == <<2>>
hyphen == <<3>>
stop == <<4>>

MCWordly == {5, 6, 7}
MCSpace == {1, 2}
MCQuotes == {4}

Texts == {a \o space \o ba, abb \o hyphen \o ba \o stop \o ba, ab_ba,
          ab \o line \o ab_ba \o stop \o space \o a_bb}
Titles == {<<>>, ab \o line, space \o aab \o hyphen \o ba \o line}

(* The second file is walked before the first one's selector sorts. *)
Seconds ==
    {[kind |-> "text", selector |-> 1, text |-> t \o ab \o space \o ba] : t \in Titles}
    \cup {[kind |-> k, selector |-> 1, text |-> ab \o line \o ba] : k \in {"meta", "big", "other"}}

MCTrees ==
    {<<[kind |-> "text", selector |-> 2, text |-> t \o r1], f,
       [kind |-> "text", selector |-> 3, text |-> ba \o line \o r3]>> :
         t \in Titles, r1 \in Texts, f \in Seconds, r3 \in Texts}

(* The fifth is one term for the scan and two for the index. *)
MCQueries == {<<>>, stop \o ab \o stop, ba \o space \o ab, ab_ba, ab \o hyphen \o ba,
              a \o space \o ba, aab, ba \o space \o ba \o stop, ab_ba_a}

=============================================================================
