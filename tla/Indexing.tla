------------------------------ MODULE Indexing ------------------------------
(***************************************************************************)
(* The index of the search CGI: how it is built from the files of a tree   *)
(* and queried (InvertedIndex), and how it is written and loaded           *)
(* (IndexFile).  The two share no state: what is in the index when it is   *)
(* written is for IndexFile any index that could have been built.  One     *)
(* behaviour is of either of them, and the other one has ended.            *)
(***************************************************************************)
EXTENDS IndexFile

\* as in InvertedIndex
CONSTANTS Wordly, Underscore, Space, NewLine, Quotes, MaxTerm, Trees, Queries, Limit

Spellings == Seq(Nat)
File == [kind : {"text", "meta", "big", "other"}, selector : Nat, text : Spellings]

(* What ends a word of the scan's query ends one of the index's. *)
ASSUME CharactersAssumption ==
    /\ Underscore \in Wordly /\ NewLine \in Space
    /\ Wordly \subseteq Nat /\ Wordly \cap (Space \cup Quotes) = {}
    /\ MaxTerm \in Nat /\ Limit \in Nat

(* A file is walked once; its path below the root makes its selector. *)
ASSUME TreesAssumption ==
    \A t \in Trees :
        /\ t \in Seq(File)
        /\ \A i, j \in DOMAIN t : t[i].selector = t[j].selector => i = j

ASSUME QueriesAssumption == Queries \subseteq Spellings

ASSUME SomethingAssumption == Indexes # {} /\ Trees # {}

VARIABLES tree, iPhase, next, docs, freqs, iTerms, iPostings, query, matched,
          scores, hits, total
indexVars == <<tree, iPhase, next, docs, freqs, iTerms, iPostings, query,
               matched, scores, hits, total>>

Index == INSTANCE InvertedIndex WITH phase <- iPhase, terms <- iTerms, postings <- iPostings

FileOver == ix = (CHOOSE x \in Indexes : TRUE) /\ phase = "failed" /\ Untouched
IndexOver == tree = (CHOOSE t \in Trees : TRUE) /\ iPhase = "answered" /\ Index!Untouched

IndexInit == (Init /\ IndexOver) \/ (FileOver /\ Index!Init)

IndexNext == (Next /\ UNCHANGED indexVars) \/ (Index!Next /\ UNCHANGED vars)

IndexSpec == IndexInit /\ [][IndexNext]_<<vars, indexVars>>

(* The type invariant of the index, and that it is in the order in which it
   is searched and written and has every word of every document (index.go's
   Build and Tokenize). *)
IndexIsComplete == Index!TypeOK /\ Index!IndexIsComplete

(* A query finds what a reader of all documents would find, the best of it
   first, and for plain words nothing that the scan would not (index.go's
   Query, search.go's match). *)
AnswersAreRight == Index!AnswersAreRight

=============================================================================
