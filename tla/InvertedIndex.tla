--------------------------- MODULE InvertedIndex ----------------------------
(***************************************************************************)
(* The search index of the CGI: index.go's Build, Tokenize and Query, and  *)
(* the scan of the standalone server that it replaces (search.go's match). *)
(* One behaviour builds an index from a walk over some files and answers   *)
(* one query with it, term by term.                                        *)
(*                                                                         *)
(* A text is a sequence of characters, numbers in the order of their       *)
(* codes, all of them lower case.  MaxTerm stands for Tokenize's 40.       *)
(***************************************************************************)
EXTENDS Naturals, Sequences, FiniteSets

CONSTANTS Wordly,      \* the characters words are made of, one of them
          Underscore,  \* the character identifiers are split at
          Space,       \* the characters that queries are split at, one of them
          NewLine,     \* the one that ends a line
          Quotes,      \* the punctuation that the scan trims from its terms
          MaxTerm,     \* the longest term that is indexed, at least 2
          Trees,       \* what the walk may find, in its order
          Queries,     \* what a visitor may ask: texts
          Limit        \* -results; 0 is no limit

VARIABLES tree,      \* the files: kind, selector and text
          phase,     \* how far the work has got
          next,      \* the next file of the walk
          docs,      \* the files that are documents; a document's id is its
                     \* place here, counted from 1
          freqs,     \* how often each term occurs in each document
          terms,     \* ix.terms
          postings,  \* ix.postings
          query,     \* the terms of the query
          matched,   \* how many of them have been matched
          scores,    \* the documents that match these, and their scores
          hits,      \* QueryN's answer, best first
          total      \* and how many matched in all

vars == <<tree, phase, next, docs, freqs, terms, postings, query, matched,
          scores, hits, total>>
index == <<terms, postings>>
answer == <<matched, scores, hits, total>>

-----------------------------------------------------------------------------
(* Words.                                                                  *)

IsPrefix(v, w) == Len(v) <= Len(w) /\ \A i \in DOMAIN v : v[i] = w[i]

(* Strings in Go compare byte by byte. *)
Precedes(v, w) ==
    \/ IsPrefix(v, w) /\ v # w
    \/ \E i \in DOMAIN v \cap DOMAIN w :
          /\ v[i] < w[i]
          /\ \A j \in 1..i - 1 : v[j] = w[j]

Within(v, w) == \E i, j \in 0..Len(w) : v = SubSeq(w, i + 1, j)

(* sort: S in the order R, a set of pairs that puts any two elements of S in
   order; each element comes after as many as are before it. *)
Sorted(S, R) ==
    [i \in 1..Cardinality(S) |->
        CHOOSE x \in S : Cardinality({y \in S : <<y, x>> \in R}) = i - 1]

Ascending(S) == {p \in S \X S : p[1] < p[2]}
Alphabetic(S) == {p \in S \X S : Precedes(p[1], p[2])}

(* The longest stretches of characters of C in a text, as pairs of ends. *)
Runs(text, C) ==
    {r \in (DOMAIN text) \X (DOMAIN text) :
        /\ r[1] <= r[2]
        /\ \A i \in r[1]..r[2] : text[i] \in C
        /\ \A i \in {r[1] - 1, r[2] + 1} \cap DOMAIN text : text[i] \notin C}

(* w without the characters of C around it. *)
Trim(w, C) ==
    LET kept == {i \in DOMAIN w : w[i] \notin C}
    IN IF kept = {} THEN <<>>
       ELSE SubSeq(w, CHOOSE i \in kept : \A j \in kept : i <= j,
                      CHOOSE i \in kept : \A j \in kept : j <= i)

(* Mutants: terms of one character, and none of the greatest length. *)
IndexableOne(w) == Len(w) \in 1..MaxTerm
IndexableLess(w) == Len(w) \in 2..MaxTerm - 1

Indexable(w) == Len(w) \in 2..MaxTerm

(* What lies between the underscores of w. *)
Parts(w) ==
    LET Cut == {i \in DOMAIN w : w[i] = Underscore} \cup {0, Len(w) + 1}
        cut == Sorted(Cut, Ascending(Cut))
    IN [k \in 1..Len(cut) - 1 |-> SubSeq(w, cut[k] + 1, cut[k + 1] - 1)]

Token(w, k) == IF k = 0 THEN w ELSE Parts(w)[k]

(* Mutant: an identifier is not split. *)
TokensWhole(w) == {k \in {0} : Indexable(w)}

(* flush: which terms one word adds, 0 for itself and k for its kth part. *)
Tokens(w) ==
    LET last == IF \E i \in DOMAIN w : w[i] = Underscore THEN Len(Parts(w)) ELSE 0
    IN {k \in 0..last : Indexable(w) /\ Indexable(Token(w, k))}

(* The words of a text: where they begin, and the one that begins at i. *)
Starts(text) == {r[1] : r \in Runs(text, Wordly)}
WordAt(text, i) ==
    SubSeq(text, i, CHOOSE j \in DOMAIN text : <<i, j>> \in Runs(text, Wordly))

(* Tokenize: the places of the terms of a text, and the terms in the order
   of their places. *)
Places(text) == UNION {{i} \X Tokens(WordAt(text, i)) : i \in Starts(text)}
Term(text, p) == Token(WordAt(text, p[1]), p[2])
Terms(text) == {Term(text, p) : p \in Places(text)}
Onward(S) ==
    {x \in S \X S : x[1][1] < x[2][1] \/ (x[1][1] = x[2][1] /\ x[1][2] < x[2][2])}

Tokenize(text) ==
    LET at == Sorted(Places(text), Onward(Places(text)))
    IN [n \in DOMAIN at |-> Term(text, at[n])]

Count(text, t) == Cardinality({p \in Places(text) : Term(text, p) = t})

-----------------------------------------------------------------------------
(* Build.                                                                  *)

Untouched ==
    /\ next = 1
    /\ docs = <<>> /\ freqs = <<>>
    /\ terms = <<>> /\ postings = <<>>
    /\ query = <<>> /\ matched = 0 /\ scores = <<>>
    /\ hits = <<>> /\ total = 0

Init == tree \in Trees /\ phase = "walk" /\ Untouched

Text(f) == tree[f].text

(* The first line, if the file has more than one. *)
Title(f) ==
    IF \E i \in DOMAIN Text(f) : Text(f)[i] = NewLine
    THEN LET end == CHOOSE i \in DOMAIN Text(f) :
                       /\ Text(f)[i] = NewLine
                       /\ \A j \in 1..i - 1 : Text(f)[j] # NewLine
         IN Trim(SubSeq(Text(f), 1, end - 1), Space)
    ELSE <<>>

(* Not a .txt file, server metadata, or more than MaxFileSize. *)
Skip ==
    /\ phase = "walk" /\ next \in DOMAIN tree
    /\ tree[next].kind \in {"other", "meta", "big"}
    /\ next' = next + 1
    /\ UNCHANGED <<tree, phase, docs, freqs, index, query, answer>>

(* d.Info or os.ReadFile fails: the file is left out. *)
Unreadable ==
    /\ phase = "walk" /\ next \in DOMAIN tree
    /\ tree[next].kind = "text"
    /\ next' = next + 1
    /\ UNCHANGED <<tree, phase, docs, freqs, index, query, answer>>

Having(t) == {d \in DOMAIN docs : t \in DOMAIN freqs /\ d \in DOMAIN freqs[t]}

(* m[id]++ for every token of the text. *)
Added(text, id) ==
    [t \in DOMAIN freqs \cup Terms(text) |->
        [d \in Having(t) \cup {c \in {id} : t \in Terms(text)} |->
            IF d = id THEN Count(text, t) ELSE freqs[t][d]]]

(* Mutant: a document without a title gets no number. *)
ReadUntitled ==
    /\ phase = "walk" /\ next \in DOMAIN tree
    /\ tree[next].kind = "text"
    /\ docs' = IF Title(next) = <<>> THEN docs ELSE Append(docs, next)
    /\ freqs' = Added(Text(next), Len(docs) + 1)
    /\ next' = next + 1
    /\ UNCHANGED <<tree, phase, index, query, answer>>

Read ==
    /\ phase = "walk" /\ next \in DOMAIN tree
    /\ tree[next].kind = "text"
    /\ docs' = Append(docs, next)
    /\ freqs' = Added(Text(next), Len(docs) + 1)
    /\ next' = next + 1
    /\ UNCHANGED <<tree, phase, index, query, answer>>

(* The postings of t, in this order of its documents. *)
PostingsOf(t, ids) == [k \in DOMAIN ids |-> [doc |-> ids[k], freq |-> freqs[t][ids[k]]]]

Descending(S) == {p \in S \X S : p[1] > p[2]}

(* Mutant: the postings of a term are left in the order of the map. *)
SortUnordered ==
    /\ phase = "walk" /\ next = Len(tree) + 1
    /\ terms' = Sorted(DOMAIN freqs, Alphabetic(DOMAIN freqs))
    /\ postings' = [i \in DOMAIN terms' |->
           LET ids == DOMAIN freqs[terms'[i]]
           IN PostingsOf(terms'[i], Sorted(ids, Descending(ids)))]
    /\ phase' = "ready"
    /\ UNCHANGED <<tree, next, docs, freqs, query, answer>>

Sort ==
    /\ phase = "walk" /\ next = Len(tree) + 1
    /\ terms' = Sorted(DOMAIN freqs, Alphabetic(DOMAIN freqs))
    /\ postings' = [i \in DOMAIN terms' |->
           LET ids == DOMAIN freqs[terms'[i]]
           IN PostingsOf(terms'[i], Sorted(ids, Ascending(ids)))]
    /\ phase' = "ready"
    /\ UNCHANGED <<tree, next, docs, freqs, query, answer>>

-----------------------------------------------------------------------------
(* Query.                                                                  *)

(* The binary search: the first term that is not before t, and all after. *)
From(t) == {i \in DOMAIN terms : \E j \in 1..i : ~ Precedes(terms[j], t)}

(* Mutant: the scan does not look for the end of the range. *)
ScannedOnward(t) == From(t)

(* The range scan goes on as long as t is a prefix. *)
Scanned(t) ==
    LET from == From(t)
    IN {i \in from : \A j \in from : j <= i => IsPrefix(t, terms[j])}

(* matchPrefix: the documents with a term that t is a prefix of, and how
   often they have one: the sum of the frequencies of these terms, as the
   number of pairs of a posting and one of its occurrences. *)
MatchPrefix(t) ==
    LET found == UNION {{i} \X DOMAIN postings[i] : i \in Scanned(t)}
        Found(d) == {x \in found : postings[x[1]][x[2]].doc = d}
        Occurring(x) == {x} \X (1..postings[x[1]][x[2]].freq)
    IN [d \in {c \in DOMAIN docs : Found(c) # {}} |->
           Cardinality(UNION {Occurring(x) : x \in Found(d)})]

Ask(text) ==
    /\ phase = "ready"
    /\ query' = Tokenize(text)
    /\ phase' = IF query' = <<>> THEN "answered" ELSE "match"
    /\ UNCHANGED <<tree, next, docs, freqs, index, answer>>

(* Mutant: a document that lacks a later term is kept. *)
MatchTermAny ==
    /\ phase = "match" /\ matched < Len(query)
    /\ LET found == MatchPrefix(query[matched + 1])
       IN /\ scores' = IF matched = 0 THEN found
                       ELSE [d \in DOMAIN scores |->
                                scores[d] + IF d \in DOMAIN found THEN found[d] ELSE 0]
          /\ phase' = IF scores' = <<>> THEN "answered" ELSE "match"
    /\ matched' = matched + 1
    /\ UNCHANGED <<tree, next, docs, freqs, index, query, hits, total>>

(* One term narrows the documents down; none left ends the query. *)
MatchTerm ==
    /\ phase = "match" /\ matched < Len(query)
    /\ LET found == MatchPrefix(query[matched + 1])
       IN /\ scores' = IF matched = 0 THEN found
                       ELSE [d \in DOMAIN scores \cap DOMAIN found |->
                                scores[d] + found[d]]
          /\ phase' = IF scores' = <<>> THEN "answered" ELSE "match"
    /\ matched' = matched + 1
    /\ UNCHANGED <<tree, next, docs, freqs, index, query, hits, total>>

InTitle(t, d) == Within(t, Title(docs[d]))

Bonus(d) == 25 * Cardinality({i \in DOMAIN query : InTitle(query[i], d)})

Selector(d) == tree[docs[d]].selector

(* The order of the answer, with these scores. *)
Best(S, score) ==
    {p \in S \X S : \/ score[p[1]] > score[p[2]]
                    \/ score[p[1]] = score[p[2]] /\ Selector(p[1]) < Selector(p[2])}

Scored == [d \in DOMAIN scores |-> scores[d] + Bonus(d)]

(* Mutant: the limit is taken before the order is known. *)
RankCutFirst ==
    /\ phase = "match" /\ matched = Len(query)
    /\ total' = Cardinality(DOMAIN scores)
    /\ LET cut == {d \in DOMAIN scores :
                      Limit = 0 \/ Cardinality({c \in DOMAIN scores : c < d}) < Limit}
       IN hits' = Sorted(cut, Best(cut, Scored))
    /\ phase' = "answered"
    /\ UNCHANGED <<tree, next, docs, freqs, index, query, matched, scores>>

(* The rest of Query, and QueryN's limit. *)
Rank ==
    /\ phase = "match" /\ matched = Len(query)
    /\ LET all == Sorted(DOMAIN scores, Best(DOMAIN scores, Scored))
       IN /\ total' = Len(all)
          /\ hits' = IF Limit > 0 /\ Len(all) > Limit
                     THEN SubSeq(all, 1, Limit) ELSE all
    /\ phase' = "answered"
    /\ UNCHANGED <<tree, next, docs, freqs, index, query, matched, scores>>

Next ==
    \/ Skip \/ Unreadable \/ Read \/ Sort
    \/ \E text \in Queries : Ask(text)
    \/ MatchTerm \/ Rank

Spec == Init /\ [][Next]_vars

-----------------------------------------------------------------------------
(* What a reader of the documents would say, without an index.             *)

(* The places in d of the tokens that t begins. *)
At(t, d) == {p \in Places(Text(docs[d])) : IsPrefix(t, Term(Text(docs[d]), p))}
Occurrences(t, d) == Cardinality(At(t, d))

Matches(d) == \A i \in DOMAIN query : Occurrences(query[i], d) > 0

(* All the occurrences of all the terms. *)
Worth(d) ==
    Bonus(d) + Cardinality(UNION {{i} \X At(query[i], d) : i \in DOMAIN query})

(* search.go's terms: the fields between white space, without the
   punctuation around them; other punctuation stays in a term. *)
Fields(text) ==
    {SubSeq(text, r[1], r[2]) : r \in Runs(text, {text[i] : i \in DOMAIN text} \ Space)}
ScanTerms(text) == {t \in {Trim(f, Quotes) : f \in Fields(text)} : Len(t) >= 2}

(* match, over every .txt file: each term somewhere in the text. *)
ScanFinds(f, text) ==
    /\ tree[f].kind \in {"text", "meta"}
    /\ \A t \in ScanTerms(text) : Within(t, Text(f))

TypeOK ==
    /\ tree \in Trees
    /\ phase \in {"walk", "ready", "match", "answered"}
    /\ next \in 1..Len(tree) + 1
    /\ \A d \in DOMAIN docs : docs[d] \in DOMAIN tree
    /\ \A t \in DOMAIN freqs : Indexable(t) /\ DOMAIN freqs[t] \subseteq DOMAIN docs
    /\ DOMAIN postings = DOMAIN terms
    /\ matched \in 0..Len(query)
    /\ DOMAIN scores \subseteq DOMAIN docs
    /\ \A i \in DOMAIN hits : hits[i] \in DOMAIN docs
    /\ total \in Nat

(* The terms ascend strictly and so do the documents of each posting list,
   and the list says how often its term occurs: what the binary search of
   matchPrefix and the deltas of WriteFile rely on (Build's two sorts). *)
IndexOrdered ==
    phase # "walk" =>
        /\ \A i, j \in DOMAIN terms : i < j => Precedes(terms[i], terms[j])
        /\ \A i \in DOMAIN terms : \A k, l \in DOMAIN postings[i] :
               k < l => postings[i][k].doc < postings[i][l].doc
        /\ \A i \in DOMAIN terms : \A k \in DOMAIN postings[i] :
               postings[i][k].freq =
                   Count(Text(docs[postings[i][k].doc]), terms[i])

(* The documents counted are those in which every term of the query begins
   some token, and no others: the range scan over sorted terms and the
   narrowing of scores miss nothing and add nothing (Query, matchPrefix). *)
FindsWhatMatches ==
    phase = "answered" /\ query # <<>> =>
        /\ total = Cardinality({d \in DOMAIN docs : Matches(d)})
        /\ \A i \in DOMAIN hits : Matches(hits[i])

(* The answer is the beginning of the documents in the order of their
   worth, and of their selectors among equals: none that is left out by the
   limit is better than one that is shown (Query's sort, QueryN). *)
BestFirst ==
    phase = "answered" =>
        LET Before(c, d) ==
                \/ Worth(c) > Worth(d)
                \/ Worth(c) = Worth(d) /\ Selector(c) < Selector(d)
        IN /\ Len(hits) = IF Limit > 0 /\ total > Limit THEN Limit ELSE total
           /\ \A i, j \in DOMAIN hits : i < j => Before(hits[i], hits[j])
           /\ query # <<>> => \A d \in DOMAIN docs :
                 Matches(d) /\ (\A i \in DOMAIN hits : hits[i] # d) =>
                     \A i \in DOMAIN hits : Before(hits[i], d)

(* Every term has two to MaxTerm characters; any word of a document that
   has as many finds it, and so does any part of this word that does, as the
   comment of Tokenize has it. *)
OwnWordsFind ==
    phase # "walk" =>
        /\ \A i \in DOMAIN terms : 2 <= Len(terms[i]) /\ Len(terms[i]) <= MaxTerm
        /\ \A d \in DOMAIN docs : \A i \in Starts(Text(docs[d])) :
              LET w == WordAt(Text(docs[d]), i)
                  Finds(t) == 2 <= Len(t) /\ Len(t) <= MaxTerm => d \in DOMAIN MatchPrefix(t)
              IN /\ Finds(w)
                 /\ Len(w) <= MaxTerm => \A k \in DOMAIN Parts(w) : Finds(Parts(w)[k])

(* What the index finds, the scan of the built-in search finds too (the
   package comments of index and of search.Snippet), for a query whose terms
   are words for both: the scan does not split "nrf-sdk", the index does. *)
ScanFindsNoLess ==
    phase = "ready" => \A text \in Queries :
        (\A t \in ScanTerms(text) :
            Len(t) <= MaxTerm /\ \A i \in DOMAIN t : t[i] \in Wordly) =>
        LET asked == Tokenize(text)
        IN \A d \in DOMAIN docs :
              (\A i \in DOMAIN asked : d \in DOMAIN MatchPrefix(asked[i])) =>
                  ScanFinds(docs[d], text)

(* Together: what is searched is in order and has every word, *)
IndexIsComplete == IndexOrdered /\ OwnWordsFind

(* and what is found is what a reader of all documents would find, the best
   of it first, and for plain words nothing that the scan would not. *)
AnswersAreRight == FindsWhatMatches /\ BestFirst /\ ScanFindsNoLess

=============================================================================
