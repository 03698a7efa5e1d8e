------------------------------ MODULE IndexFile ------------------------------
(***************************************************************************)
(* The index on disk: index.go's WriteFile and Load.  The file has no      *)
(* directory and no end mark: numbers and strings follow one another, and  *)
(* what each of them is depends on those before it.  Documents are known   *)
(* by their order, and a posting list holds differences.  The writer goes  *)
(* through a buffer, the disk may fail or lose what was not yet synced,    *)
(* and a later process loads what is there.                                *)
(*                                                                         *)
(* An item of the file is a number or a string with its length; a file cut *)
(* inside an item is one without it.  Word stands for 2^32.                *)
(***************************************************************************)
EXTENDS Naturals, Sequences

CONSTANTS Strings,  \* selectors, titles and terms, up to the length readString takes
          Magic,    \* the header
          Word,     \* numbers of documents are below it
          Indexes   \* what Build may have made

Number == 0..Word - 1
Posting == [doc : Number, freq : Number]

ASSUME WordAssumption == Word \in Nat \ {0}
ASSUME IndexesAssumption ==
    \A x \in Indexes :
        /\ x.docs \in Seq([selector : Strings, title : Strings])
        /\ x.terms \in Seq(Strings)
        /\ x.postings \in [1..Len(x.terms) -> Seq(Posting)]

VARIABLES ix,       \* the index that is written
          phase,    \* what is being done
          at,       \* the place WriteFile has reached
          file,     \* what it has written
          places,   \* history: the place of each item, and the next one
          flushed,  \* items that have left the buffer
          broken,   \* a write has failed; bufio keeps the error
          lost,     \* history: the power has failed after the run
          place,    \* the place Load has reached
          taken,    \* items it has read
          nDocs, nTerms, n,  \* the counts it has read
          selectors, titles, terms, postings  \* what it has put together

writing == <<at, file, places>>
disk == <<flushed, broken, lost>>
counts == <<nDocs, nTerms, n>>
loading == <<place, taken, counts, selectors, titles, terms, postings>>
vars == <<ix, phase, writing, disk, loading>>

Parts == {"magic", "docs", "selector", "title", "terms", "term", "count",
          "delta", "freq", "end"}
Place == [part : Parts, i : Nat, k : Nat, prev : Number]

At(part, i, k, prev) == [part |-> part, i |-> i, k |-> k, prev |-> prev]
Start == At("magic", 0, 0, 0)

-----------------------------------------------------------------------------
(* The loops both functions are made of, over so many documents, terms and
   postings: a loop goes on with its next element or with what follows it.
   uint32 wraps around. *)

DocsFrom(i, docs) == IF i <= docs THEN At("selector", i, 0, 0) ELSE At("terms", 0, 0, 0)
TermsFrom(i, trms) == IF i <= trms THEN At("term", i, 0, 0) ELSE At("end", 0, 0, 0)
PostingsFrom(w, k, prev, trms, pstgs) ==
    IF k <= pstgs THEN At("delta", w.i, k, prev) ELSE TermsFrom(w.i + 1, trms)

Minus(a, b) == IF a >= b THEN a - b ELSE a + Word - b
Plus(a, b) == IF a + b < Word THEN a + b ELSE a + b - Word

-----------------------------------------------------------------------------
(* WriteFile.                                                              *)

Doc(w) == ix.postings[w.i][w.k].doc

Item(w) ==
    CASE w.part = "magic" -> Magic
      [] w.part = "docs" -> Len(ix.docs)
      [] w.part = "selector" -> ix.docs[w.i].selector
      [] w.part = "title" -> ix.docs[w.i].title
      [] w.part = "terms" -> Len(ix.terms)
      [] w.part = "term" -> ix.terms[w.i]
      [] w.part = "count" -> Len(ix.postings[w.i])
      [] w.part = "delta" -> Minus(Doc(w), w.prev)
      [] w.part = "freq" -> ix.postings[w.i][w.k].freq

(* Mutant: prev is not moved on. *)
FollowingUnmoved(w) ==
    CASE w.part = "magic" -> At("docs", 0, 0, 0)
      [] w.part = "docs" -> DocsFrom(1, Len(ix.docs))
      [] w.part = "selector" -> At("title", w.i, 0, 0)
      [] w.part = "title" -> DocsFrom(w.i + 1, Len(ix.docs))
      [] w.part = "terms" -> TermsFrom(1, Len(ix.terms))
      [] w.part = "term" -> At("count", w.i, 0, 0)
      [] w.part = "count" -> PostingsFrom(w, 1, 0, Len(ix.terms), Len(ix.postings[w.i]))
      [] w.part = "delta" -> At("freq", w.i, w.k, w.prev)
      [] w.part = "freq" ->
            PostingsFrom(w, w.k + 1, w.prev, Len(ix.terms), Len(ix.postings[w.i]))

Following(w) ==
    CASE w.part = "magic" -> At("docs", 0, 0, 0)
      [] w.part = "docs" -> DocsFrom(1, Len(ix.docs))
      [] w.part = "selector" -> At("title", w.i, 0, 0)
      [] w.part = "title" -> DocsFrom(w.i + 1, Len(ix.docs))
      [] w.part = "terms" -> TermsFrom(1, Len(ix.terms))
      [] w.part = "term" -> At("count", w.i, 0, 0)
      [] w.part = "count" -> PostingsFrom(w, 1, 0, Len(ix.terms), Len(ix.postings[w.i]))
      [] w.part = "delta" -> At("freq", w.i, w.k, Doc(w))
      [] w.part = "freq" ->
            PostingsFrom(w, w.k + 1, w.prev, Len(ix.terms), Len(ix.postings[w.i]))

Put ==
    /\ phase = "write" /\ at.part # "end"
    /\ file' = Append(file, Item(at))
    /\ at' = Following(at)
    /\ places' = Append(places, at')
    /\ UNCHANGED <<ix, phase, disk, loading>>

(* Mutant: more is counted as written than there is. *)
SpillTooMuch ==
    /\ phase = "write" /\ ~ broken
    /\ flushed' \in flushed + 1..Len(file) + 1
    /\ UNCHANGED <<ix, phase, writing, broken, lost, loading>>

(* The buffer is full: some of it reaches the disk. *)
Spill ==
    /\ phase = "write" /\ ~ broken
    /\ flushed' \in flushed + 1..Len(file)
    /\ UNCHANGED <<ix, phase, writing, broken, lost, loading>>

Break ==
    /\ phase = "write" /\ ~ broken
    /\ broken' = TRUE
    /\ UNCHANGED <<ix, phase, writing, flushed, lost, loading>>

(* Mutant: the error of Flush is not returned. *)
FlushUnheeded ==
    /\ phase = "write" /\ at.part = "end"
    /\ phase' = "publish"
    /\ flushed' = IF broken THEN flushed ELSE Len(file)
    /\ UNCHANGED <<ix, writing, broken, lost, loading>>

(* w.Flush returns the first error there was; the run then publishes
   nothing. *)
Flush ==
    /\ phase = "write" /\ at.part = "end"
    /\ phase' = IF broken THEN "failed" ELSE "publish"
    /\ flushed' = IF broken THEN flushed ELSE Len(file)
    /\ UNCHANGED <<ix, writing, broken, lost, loading>>

(* Nothing is synced: a power failure after the swap may shorten the file. *)
LosePower ==
    /\ phase = "publish"
    /\ flushed' \in 0..flushed
    /\ lost' = TRUE
    /\ UNCHANGED <<ix, phase, writing, broken, loading>>

-----------------------------------------------------------------------------
(* Load.                                                                   *)

Open ==
    /\ phase = "publish"
    /\ phase' = "load"
    /\ UNCHANGED <<ix, writing, disk, loading>>

Take(part) ==
    /\ phase = "load" /\ place.part = part /\ taken < flushed
    /\ taken' = taken + 1
    /\ UNCHANGED <<ix, phase, writing, disk>>
item == file[taken + 1]

TakeMagic ==
    /\ Take("magic") /\ item = Magic
    /\ place' = At("docs", 0, 0, 0)
    /\ UNCHANGED <<counts, selectors, titles, terms, postings>>

TakeDocs ==
    /\ Take("docs")
    /\ nDocs' = item
    /\ selectors' = [i \in 1..item |-> ""] /\ titles' = [i \in 1..item |-> ""]
    /\ place' = DocsFrom(1, item)
    /\ UNCHANGED <<nTerms, n, terms, postings>>

TakeSelector ==
    /\ Take("selector")
    /\ selectors' = [selectors EXCEPT ![place.i] = item]
    /\ place' = At("title", place.i, 0, 0)
    /\ UNCHANGED <<counts, titles, terms, postings>>

TakeTitle ==
    /\ Take("title")
    /\ titles' = [titles EXCEPT ![place.i] = item]
    /\ place' = DocsFrom(place.i + 1, nDocs)
    /\ UNCHANGED <<counts, selectors, terms, postings>>

TakeTerms ==
    /\ Take("terms")
    /\ nTerms' = item
    /\ terms' = [i \in 1..item |-> ""] /\ postings' = [i \in 1..item |-> <<>>]
    /\ place' = TermsFrom(1, item)
    /\ UNCHANGED <<nDocs, n, selectors, titles>>

TakeTerm ==
    /\ Take("term")
    /\ terms' = [terms EXCEPT ![place.i] = item]
    /\ place' = At("count", place.i, 0, 0)
    /\ UNCHANGED <<counts, selectors, titles, postings>>

TakeCount ==
    /\ Take("count")
    /\ n' = item
    /\ place' = PostingsFrom(place, 1, 0, nTerms, item)
    /\ UNCHANGED <<nDocs, nTerms, selectors, titles, terms, postings>>

TakeDelta ==
    /\ Take("delta")
    /\ place' = At("freq", place.i, place.k, Plus(place.prev, item))
    /\ UNCHANGED <<counts, selectors, titles, terms, postings>>

TakeFreq ==
    /\ Take("freq")
    /\ postings' = [postings EXCEPT ![place.i] =
                        Append(@, [doc |-> place.prev, freq |-> item])]
    /\ place' = PostingsFrom(place, place.k + 1, place.prev, nTerms, n)
    /\ UNCHANGED <<counts, selectors, titles, terms>>

(* Mutant: a file that ends between two terms is taken for whole. *)
FinishAtTerm ==
    /\ phase = "load" /\ place.part \in {"term", "end"} /\ taken = flushed
    /\ phase' = "loaded"
    /\ UNCHANGED <<ix, writing, disk, loading>>

Finish ==
    /\ phase = "load" /\ place.part = "end"
    /\ phase' = "loaded"
    /\ UNCHANGED <<ix, writing, disk, loading>>

(* The end of the file, where something is still expected. *)
Refuse ==
    /\ phase = "load" /\ place.part # "end" /\ taken = flushed
    /\ phase' = "refused"
    /\ UNCHANGED <<ix, writing, disk, loading>>

-----------------------------------------------------------------------------
Untouched ==
    /\ at = Start /\ file = <<>> /\ places = <<Start>>
    /\ flushed = 0 /\ broken = FALSE /\ lost = FALSE
    /\ place = Start /\ taken = 0
    /\ nDocs = 0 /\ nTerms = 0 /\ n = 0
    /\ selectors = <<>> /\ titles = <<>> /\ terms = <<>> /\ postings = <<>>

Init == ix \in Indexes /\ phase = "write" /\ Untouched

Write == Put \/ Spill \/ Break \/ Flush \/ LosePower
Read ==
    \/ Open
    \/ TakeMagic \/ TakeDocs \/ TakeSelector \/ TakeTitle
    \/ TakeTerms \/ TakeTerm \/ TakeCount \/ TakeDelta \/ TakeFreq
    \/ Finish \/ Refuse
Next == Write \/ Read

Spec == Init /\ [][Next]_vars

TypeOK ==
    /\ ix \in Indexes
    /\ phase \in {"write", "publish", "failed", "load", "loaded", "refused"}
    /\ at \in Place /\ place \in Place
    /\ places \in Seq(Place) /\ Len(places) = Len(file) + 1
    /\ flushed \in 0..Len(file) /\ taken \in 0..flushed
    /\ broken \in BOOLEAN /\ lost \in BOOLEAN
    /\ nDocs \in Nat /\ nTerms \in Nat /\ n \in Nat

(* What Load puts together is what Build made: documents in their order,
   terms, and the posting lists with the very documents and frequencies,
   although only differences are stored (WriteFile's p.Doc-prev, Load's
   prev + delta). *)
LoadedIsBuilt ==
    phase = "loaded" =>
        /\ nDocs = Len(ix.docs) /\ nTerms = Len(ix.terms)
        /\ \A i \in 1..Len(ix.docs) :
               selectors[i] = ix.docs[i].selector /\ titles[i] = ix.docs[i].title
        /\ \A i \in 1..Len(ix.terms) :
               terms[i] = ix.terms[i] /\ postings[i] = ix.postings[i]

(* A file that lost anything, down to its last number, is refused: Load
   never takes the beginning of an index for an index (its error returns).
   The format has nothing but its counts to tell. *)
CutIsRefused ==
    phase = "loaded" => at.part = "end" /\ flushed = Len(file) /\ taken = flushed

(* An index that a run has published is refused only if the power failed
   after it: Load understands whatever WriteFile wrote, and a write that
   failed on the way never gets published (w.Flush keeps the first error). *)
RefusedOnlyIfLost == phase = "refused" => lost

(* A file is refused if it lost something, and only then. *)
RefusalIsRight == CutIsRefused /\ RefusedOnlyIfLost

=============================================================================
