--------------------------- MODULE IndexingProof ----------------------------
(***************************************************************************)
(* Indexing, for every tree of files, every query, every index that Build  *)
(* may have made and any width of the numbers.                             *)
(*                                                                         *)
(* The file: the loader is always at the very place the writer was at when *)
(* it wrote the next item, and has put together what lies before it.       *)
(*                                                                         *)
(* The search: what has been read is counted, what is sorted is in order   *)
(* and has what was counted, the scan from the first term that is not      *)
(* before the one asked for meets all that it begins, and each term of the *)
(* query leaves the documents that have it.                                *)
(***************************************************************************)
EXTENDS Indexing, SequenceTheorems, FiniteSetTheorems, WellFoundedInduction, TLAPS

-----------------------------------------------------------------------------
(* The file.                                                               *)

Items == Nat \cup Strings \cup {Magic}

(* The places that exist in the file of ix; at a frequency, prev is already
   the document whose frequency it is. *)
InFile(w) ==
    /\ w \in Place
    /\ w.part \in {"magic", "docs", "terms", "end"} => w.i = 0 /\ w.k = 0 /\ w.prev = 0
    /\ w.part \in {"selector", "title"} => w.i \in 1..Len(ix.docs)
    /\ w.part \in {"term", "count", "delta", "freq"} => w.i \in 1..Len(ix.terms)
    /\ w.part \in {"delta", "freq"} =>
           w.k \in 1..Len(ix.postings[w.i]) /\ w.prev \in Number
    /\ w.part = "freq" => w.prev = Doc(w)

(* The file is what the places say, one after the other. *)
Written ==
    /\ ix \in Indexes
    /\ file \in Seq(Items) /\ places \in Seq(Place)
    /\ Len(places) = Len(file) + 1
    /\ places[1] = Start /\ places[Len(places)] = at
    /\ InFile(at)
    /\ \A m \in 1..Len(file) :
          /\ InFile(places[m]) /\ places[m].part # "end"
          /\ file[m] = Item(places[m])
          /\ places[m + 1] = Following(places[m])

(* How much of the file is there, by what is being done. *)
Kept ==
    /\ phase \in {"write", "publish", "failed", "load", "loaded", "refused"}
    /\ broken \in BOOLEAN /\ lost \in BOOLEAN
    /\ flushed \in 0..Len(file)
    /\ phase \in {"publish", "load", "loaded", "refused"} =>
           at.part = "end" /\ (~ lost => flushed = Len(file))

(* The loader follows the writer. *)
Follows ==
    /\ taken \in 0..flushed
    /\ place = places[taken + 1]
    /\ phase \in {"write", "publish", "failed"} => taken = 0
    /\ phase = "loaded" => place.part = "end"

(* What has been put together when the place is w. *)
DocsLoaded(w) ==
    w.part \notin {"magic", "docs"} =>
        /\ nDocs = Len(ix.docs)
        /\ selectors \in [1..Len(ix.docs) -> Strings \cup {""}]
        /\ titles \in [1..Len(ix.docs) -> Strings \cup {""}]
        /\ \A j \in 1..Len(ix.docs) :
              /\ ((w.part = "selector" => j < w.i) /\ (w.part = "title" => j <= w.i))
                 => selectors[j] = ix.docs[j].selector
              /\ (w.part \in {"selector", "title"} => j < w.i)
                 => titles[j] = ix.docs[j].title

TermsLoaded(w) ==
    w.part \in {"term", "count", "delta", "freq", "end"} =>
        /\ nTerms = Len(ix.terms)
        /\ terms \in [1..Len(ix.terms) -> Strings \cup {""}]
        /\ \A j \in 1..Len(ix.terms) :
              ((w.part = "term" => j < w.i)
                  /\ (w.part \in {"count", "delta", "freq"} => j <= w.i))
              => terms[j] = ix.terms[j]

PostingsLoaded(w) ==
    w.part \in {"term", "count", "delta", "freq", "end"} =>
        /\ postings \in [1..Len(ix.terms) -> Seq(Posting)]
        /\ \A j \in 1..Len(ix.terms) :
              /\ (w.part # "end" => j < w.i) => postings[j] = ix.postings[j]
              /\ w.part # "end" /\ j > w.i => postings[j] = <<>>
              /\ w.part \in {"term", "count"} /\ j = w.i => postings[j] = <<>>
        /\ w.part \in {"delta", "freq"} =>
              /\ n = Len(ix.postings[w.i])
              /\ Len(postings[w.i]) = w.k - 1
              /\ \A m \in 1..w.k - 1 : postings[w.i][m] = ix.postings[w.i][m]

Loaded(w) ==
    /\ nDocs \in Nat /\ nTerms \in Nat /\ n \in Nat
    /\ DocsLoaded(w) /\ TermsLoaded(w) /\ PostingsLoaded(w)

IInv == Written /\ Kept /\ Follows /\ Loaded(place)

-----------------------------------------------------------------------------
(* The data.                                                               *)

LEMMA IndexParts ==
    ASSUME ix \in Indexes
    PROVE  /\ Len(ix.docs) \in Nat /\ Len(ix.terms) \in Nat
           /\ \A i \in 1..Len(ix.docs) :
                 ix.docs[i].selector \in Strings /\ ix.docs[i].title \in Strings
           /\ \A i \in 1..Len(ix.terms) :
                 /\ ix.terms[i] \in Strings
                 /\ ix.postings[i] \in Seq(Posting) /\ Len(ix.postings[i]) \in Nat
                 /\ \A k \in 1..Len(ix.postings[i]) :
                       /\ ix.postings[i][k] \in Posting
                       /\ ix.postings[i][k].doc \in Number
                       /\ ix.postings[i][k].freq \in Number
                       /\ ix.postings[i][k] = [doc |-> ix.postings[i][k].doc,
                                               freq |-> ix.postings[i][k].freq]
<1>1. /\ ix.docs \in Seq([selector : Strings, title : Strings])
      /\ ix.terms \in Seq(Strings)
      /\ ix.postings \in [1..Len(ix.terms) -> Seq(Posting)]
  BY IndexesAssumption
<1>2. /\ Len(ix.docs) \in Nat /\ Len(ix.terms) \in Nat
      /\ \A i \in 1..Len(ix.docs) : ix.docs[i] \in [selector : Strings, title : Strings]
      /\ \A i \in 1..Len(ix.terms) : ix.terms[i] \in Strings
  BY <1>1, LenProperties, ElementOfSeq
<1>3. ASSUME NEW i \in 1..Len(ix.terms)
      PROVE  /\ ix.postings[i] \in Seq(Posting) /\ Len(ix.postings[i]) \in Nat
             /\ \A k \in 1..Len(ix.postings[i]) : ix.postings[i][k] \in Posting
  <2>1. ix.postings[i] \in Seq(Posting)
    BY <1>1
  <2>2. QED BY <2>1, LenProperties, ElementOfSeq
<1>4. \A p \in Posting : /\ p.doc \in Number /\ p.freq \in Number
                         /\ p = [doc |-> p.doc, freq |-> p.freq]
  BY DEF Posting
<1>5. QED BY <1>2, <1>3, <1>4

(* Unsigned differences come back, whichever number is the larger. *)
LEMMA DifferencesComeBack ==
    ASSUME NEW a \in Number, NEW b \in Number
    PROVE  Minus(a, b) \in Number /\ Plus(b, Minus(a, b)) = a
BY WordAssumption DEF Number, Minus, Plus

LEMMA NumberIsNat == Number \subseteq Nat /\ 0 \in Number
BY WordAssumption DEF Number

LEMMA ItemType ==
    ASSUME ix \in Indexes, NEW w, InFile(w), w.part # "end"
    PROVE  Item(w) \in Items
<1>1. w.part \in Parts
  BY DEF InFile, Place
<1>2. CASE w.part \in {"magic", "docs", "selector", "title", "terms", "term", "count"}
  BY <1>2, IndexParts DEF InFile, Item, Items
<1>3. CASE w.part = "delta"
  <2>1. Doc(w) \in Number /\ w.prev \in Number
    BY <1>3, IndexParts DEF InFile, Doc
  <2>2. Minus(Doc(w), w.prev) \in Nat
    BY <2>1, DifferencesComeBack, NumberIsNat
  <2>3. Item(w) = Minus(Doc(w), w.prev)
    BY <1>3 DEF Item
  <2>4. QED BY <2>2, <2>3 DEF Items
<1>4. CASE w.part = "freq"
  BY <1>4, IndexParts, NumberIsNat DEF InFile, Item, Items
<1>5. QED BY <1>1, <1>2, <1>3, <1>4 DEF Parts

LEMMA LoopsInFile ==
    ASSUME ix \in Indexes, NEW i \in Nat \ {0}
    PROVE  InFile(DocsFrom(i, Len(ix.docs))) /\ InFile(TermsFrom(i, Len(ix.terms)))
<1> USE IndexParts, NumberIsNat DEF At, Parts, Place
<1>1. InFile(DocsFrom(i, Len(ix.docs)))
  <2>1. CASE i <= Len(ix.docs)
    BY <2>1 DEF InFile, DocsFrom
  <2>2. CASE ~ (i <= Len(ix.docs))
    BY <2>2 DEF InFile, DocsFrom
  <2>3. QED BY <2>1, <2>2
<1>2. InFile(TermsFrom(i, Len(ix.terms)))
  <2>1. CASE i <= Len(ix.terms)
    BY <2>1 DEF InFile, TermsFrom
  <2>2. CASE ~ (i <= Len(ix.terms))
    BY <2>2 DEF InFile, TermsFrom
  <2>3. QED BY <2>1, <2>2
<1>3. QED BY <1>1, <1>2

LEMMA FollowingInFile ==
    ASSUME ix \in Indexes, NEW w, InFile(w), w.part # "end"
    PROVE  InFile(Following(w))
<1>1. w.part \in Parts
  BY DEF InFile, Place
<1>2. CASE w.part \in {"magic", "selector", "term", "delta"}
  <2> USE IndexParts, NumberIsNat DEF InFile, At, Parts, Place
  <2>1. CASE w.part = "magic"
    BY <2>1 DEF Following
  <2>2. CASE w.part = "selector"
    BY <2>2 DEF Following
  <2>3. CASE w.part = "term"
    BY <2>3 DEF Following
  <2>4. CASE w.part = "delta"
    <3> DEFINE v == At("freq", w.i, w.k, Doc(w))
    <3>1. Following(w) = v
      BY <2>4 DEF Following
    <3>2. w.i \in 1..Len(ix.terms) /\ w.k \in 1..Len(ix.postings[w.i])
      BY <2>4
    <3>3. Doc(w) \in Number
      BY <3>2 DEF Doc
    <3>4. /\ v.part = "freq" /\ v.i = w.i /\ v.k = w.k /\ v.prev = Doc(w)
          /\ v \in Place
      BY <3>2, <3>3
    <3> HIDE DEF v
    <3>5. Doc(v) = Doc(w)
      BY <3>4 DEF Doc
    <3>6. QED BY <3>1, <3>2, <3>3, <3>4, <3>5
  <2>5. QED BY <1>2, <2>1, <2>2, <2>3, <2>4
<1>3. CASE w.part = "docs"
  BY <1>3, LoopsInFile DEF Following
<1>4. CASE w.part = "title"
  <2>1. w.i + 1 \in Nat \ {0}
    BY <1>4, IndexParts DEF InFile
  <2>2. QED BY <1>4, <2>1, LoopsInFile DEF Following
<1>5. CASE w.part = "terms"
  BY <1>5, LoopsInFile DEF Following
<1>6. CASE w.part \in {"count", "freq"}
  <2>1. w.i \in 1..Len(ix.terms) /\ w.i + 1 \in Nat \ {0}
    BY <1>6, IndexParts DEF InFile
  <2>2. ASSUME NEW k \in Nat \ {0}, NEW prev \in Number
        PROVE  InFile(PostingsFrom(w, k, prev, Len(ix.terms), Len(ix.postings[w.i])))
    <3>1. CASE k <= Len(ix.postings[w.i])
      BY <2>1, <3>1, IndexParts, NumberIsNat
         DEF InFile, PostingsFrom, At, Parts, Place
    <3>2. CASE ~ (k <= Len(ix.postings[w.i]))
      BY <2>1, <3>2, LoopsInFile DEF PostingsFrom
    <3>3. QED BY <3>1, <3>2
  <2>3. CASE w.part = "count"
    <3>1. 1 \in Nat \ {0}
      OBVIOUS
    <3>2. Following(w) =
            PostingsFrom(w, 1, 0, Len(ix.terms), Len(ix.postings[w.i]))
      BY <2>3 DEF Following
    <3>3. QED BY <2>2, <3>1, <3>2, NumberIsNat
  <2>4. CASE w.part = "freq"
    <3>1. w.k + 1 \in Nat \ {0} /\ w.prev \in Number
      BY <2>1, <2>4, IndexParts DEF InFile
    <3>2. QED BY <2>2, <2>4, <3>1 DEF Following
  <2>5. QED BY <1>6, <2>3, <2>4
<1>7. QED BY <1>1, <1>2, <1>3, <1>4, <1>5, <1>6 DEF Parts

-----------------------------------------------------------------------------
(* Writing.                                                                *)

(* Nothing is written and nothing is read: both before an index is written
   and where none is. *)
LEMMA UntouchedIInv ==
    ix \in Indexes /\ phase \in {"write", "failed"} /\ Untouched => IInv
<1> SUFFICES ASSUME ix \in Indexes, phase \in {"write", "failed"}, Untouched PROVE IInv
  OBVIOUS
<1>1. InFile(Start) /\ Start.part = "magic"
  BY NumberIsNat DEF InFile, Start, At, Place, Parts
<1>2. Start \in Place
  BY <1>1 DEF InFile
<1>3. Written
  <2>1. places \in Seq(Place) /\ Len(places) = 1 /\ places[1] = Start
    BY <1>2 DEF Untouched
  <2>2. file \in Seq(Items) /\ Len(file) = 0
    BY DEF Untouched
  <2>3. QED BY <1>1, <2>1, <2>2 DEF Untouched, Written
<1>4. Kept /\ Follows
  <2>1. Len(file) = 0 /\ 0 + 1 = 1 /\ places[1] = Start
    BY DEF Untouched
  <2>2. Kept
    <3>1. flushed \in 0..Len(file)
      BY <2>1 DEF Untouched
    <3>2. broken \in BOOLEAN /\ lost \in BOOLEAN
      BY DEF Untouched
    <3>3. QED BY <3>1, <3>2 DEF Kept
  <2>3. Follows
    BY <2>1 DEF Untouched, Follows
  <2>4. QED BY <2>2, <2>3
<1>5. Loaded(place)
  BY <1>1 DEF Untouched, Loaded, DocsLoaded, TermsLoaded, PostingsLoaded
<1>6. QED BY <1>3, <1>4, <1>5 DEF IInv

LEMMA PutStep == IInv /\ Put => IInv'
<1> SUFFICES ASSUME IInv, Put PROVE IInv'
  OBVIOUS
<1>1. /\ file' = Append(file, Item(at))
      /\ at' = Following(at)
      /\ places' = Append(places, Following(at))
      /\ UNCHANGED <<ix, phase, disk, loading>>
      /\ phase = "write" /\ at.part # "end"
  BY DEF Put
<1>2. /\ file \in Seq(Items) /\ places \in Seq(Place)
      /\ Len(file) \in Nat /\ Len(places) = Len(file) + 1
      /\ places[1] = Start /\ places[Len(places)] = at
      /\ InFile(at) /\ ix \in Indexes
  BY DEF IInv, Written
<1>3. Item(at) \in Items /\ InFile(Following(at)) /\ Following(at) \in Place
  <2>1. InFile(Following(at))
    BY <1>1, <1>2, FollowingInFile
  <2>2. QED BY <1>1, <1>2, <2>1, ItemType DEF InFile
<1>4. /\ file' \in Seq(Items) /\ Len(file') = Len(file) + 1
      /\ \A m \in 1..Len(file) : file'[m] = file[m]
      /\ file'[Len(file) + 1] = Item(at)
      /\ places' \in Seq(Place) /\ Len(places') = Len(places) + 1
      /\ \A m \in 1..Len(places) : places'[m] = places[m]
      /\ places'[Len(places) + 1] = Following(at)
  BY <1>1, <1>2, <1>3
<1>5. ASSUME NEW w PROVE /\ InFile(w)' <=> InFile(w)
                         /\ Item(w)' = Item(w) /\ Following(w)' = Following(w)
  BY <1>1 DEF InFile, Item, Following, Doc
<1>6. Written'
  <2>1. places'[1] = Start /\ places'[Len(places')] = at'
    BY <1>1, <1>2, <1>4
  <2>2. InFile(at)'
    BY <1>1, <1>3 DEF InFile, Doc
  <2>3. ASSUME NEW m \in 1..Len(file')
        PROVE  /\ InFile(places[m])' /\ places'[m].part # "end"
               /\ file'[m] = Item(places[m])'
               /\ places'[m + 1] = Following(places[m])'
    <3>a. /\ InFile(places[m])' <=> InFile(places'[m])
          /\ Item(places[m])' = Item(places'[m])
          /\ Following(places[m])' = Following(places'[m])
      BY <1>1 DEF InFile, Item, Following, Doc
    <3>1. CASE m \in 1..Len(file)
      <4>1. /\ InFile(places[m]) /\ places[m].part # "end"
            /\ file[m] = Item(places[m])
            /\ places[m + 1] = Following(places[m])
        BY <3>1 DEF IInv, Written
      <4>2. places'[m] = places[m] /\ places'[m + 1] = places[m + 1]
            /\ file'[m] = file[m]
        BY <3>1, <1>2, <1>4
      <4>3. QED BY <3>a, <4>1, <4>2
    <3>2. CASE m = Len(file) + 1
      <4>1. places'[m] = at /\ file'[m] = Item(at) /\ places'[m + 1] = Following(at)
        BY <3>2, <1>2, <1>4
      <4>2. QED BY <3>a, <4>1, <1>1, <1>2
    <3>3. QED BY <3>1, <3>2, <1>2, <1>4
  <2>4. QED BY <1>1, <1>2, <1>4, <2>1, <2>2, <2>3 DEF Written
<1>7. Kept'
  BY <1>1, <1>2, <1>4 DEF IInv, Kept, disk
<1>8. Follows' /\ place' = place
  <2>1. taken \in Nat /\ taken + 1 \in 1..Len(places)
    BY <1>2 DEF IInv, Follows, Kept
  <2>2. QED BY <2>1, <1>1, <1>4 DEF IInv, Follows, disk, loading
<1>9. Loaded(place)'
  BY <1>1 DEF IInv, Loaded, DocsLoaded, TermsLoaded, PostingsLoaded, loading, counts
<1>10. QED BY <1>6, <1>7, <1>8, <1>9 DEF IInv

LEMMA WrittenStays == Written /\ UNCHANGED <<ix, writing>> => Written'
<1> SUFFICES ASSUME Written, UNCHANGED <<ix, writing>> PROVE Written'
  OBVIOUS
<1>1. ix' = ix /\ at' = at /\ file' = file /\ places' = places
  BY DEF writing
<1>2. ASSUME NEW m \in 1..Len(file)
      PROVE  /\ InFile(places[m])' <=> InFile(places[m])
             /\ Item(places[m])' = Item(places[m])
             /\ Following(places[m])' = Following(places[m])
  BY <1>1 DEF InFile, Item, Following, Doc
<1>3. InFile(at)' <=> InFile(at)
  BY <1>1 DEF InFile, Doc
<1>4. QED BY <1>1, <1>2, <1>3 DEF Written

(* The rest of the writing leaves what is written, and what is loaded. *)
LEMMA WriteStep == IInv /\ Write => IInv'
<1> SUFFICES ASSUME IInv, Spill \/ Break \/ Flush \/ LosePower PROVE IInv'
  BY PutStep DEF Write
<1>1. UNCHANGED <<ix, writing, loading>>
  BY DEF Spill, Break, Flush, LosePower
<1>2. Written'
  BY <1>1, WrittenStays DEF IInv, loading
<1>4. Loaded(place)'
  BY <1>1 DEF IInv, Loaded, DocsLoaded, TermsLoaded, PostingsLoaded, loading, counts
<1>3. Len(file) \in Nat
  BY DEF IInv, Written
<1>5. Kept' /\ Follows'
  <2> USE <1>1, <1>3 DEF IInv, Kept, Follows, writing, loading
  <2>1. CASE Spill
    BY <2>1 DEF Spill
  <2>2. CASE Break
    BY <2>2 DEF Break
  <2>3. CASE Flush
    BY <2>3 DEF Flush
  <2>4. CASE LosePower
    BY <2>4 DEF LosePower
  <2>5. QED BY <2>1, <2>2, <2>3, <2>4
<1>6. QED BY <1>2, <1>4, <1>5 DEF IInv

-----------------------------------------------------------------------------
(* Loading.                                                                *)

(* The item that is taken is the one written at the loader's place. *)
LEMMA TakenItem ==
    ASSUME IInv, NEW part, Take(part)
    PROVE  /\ ix \in Indexes /\ InFile(place) /\ place.part = part
           /\ item = Item(place) /\ phase = "load"
           /\ places[taken + 2] = Following(place)
<1>1. /\ taken \in Nat /\ taken < flushed /\ flushed <= Len(file) /\ Len(file) \in Nat
      /\ flushed \in Nat /\ place = places[taken + 1]
  BY DEF IInv, Written, Kept, Follows, Take
<1>2. taken + 1 \in 1..Len(file) /\ taken + 1 + 1 = taken + 2
  BY <1>1
<1>3. QED BY <1>1, <1>2 DEF IInv, Written, Take, item

LEMMA Taking ==
    ASSUME IInv, NEW part, Take(part), place' = Following(place)
    PROVE  Written' /\ Kept' /\ Follows'
<1>1. /\ taken' = taken + 1 /\ taken < flushed
      /\ UNCHANGED <<ix, phase, writing, disk>>
      /\ phase = "load"
  BY DEF Take
<1>2. Written'
  BY <1>1, WrittenStays DEF IInv
<1>3. Kept'
  BY <1>1 DEF IInv, Kept, writing, disk
<1>4. Follows'
  <2>1. taken \in Nat /\ flushed \in Nat /\ taken + 1 + 1 = taken + 2
    BY DEF IInv, Written, Kept, Follows
  <2>2. place' = places[taken + 2]
    BY TakenItem
  <2>3. QED BY <1>1, <2>1, <2>2 DEF Follows, writing, disk
<1>5. QED BY <1>2, <1>3, <1>4

(* The place that follows is reached, and what was put together is not
   touched where it is not added to. *)
LEMMA TakeMagicStep == IInv /\ TakeMagic => IInv'
<1> SUFFICES ASSUME IInv, TakeMagic PROVE IInv'
  OBVIOUS
<1>1. Take("magic") /\ place' = At("docs", 0, 0, 0)
      /\ UNCHANGED <<counts, selectors, titles, terms, postings>>
  BY DEF TakeMagic
<1>2. place.part = "magic"
  BY <1>1, TakenItem
<1>3. place' = Following(place)
  BY <1>1, <1>2 DEF Following
<1>4. Written' /\ Kept' /\ Follows'
  BY <1>1, <1>3, Taking
<1>5. place'.part = "docs"
  BY <1>1 DEF At
<1>6. Loaded(place)'
  BY <1>1, <1>5 DEF IInv, Loaded, DocsLoaded, TermsLoaded, PostingsLoaded, counts
<1>7. QED BY <1>4, <1>6 DEF IInv

LEMMA TakeDocsStep == IInv /\ TakeDocs => IInv'
<1> SUFFICES ASSUME IInv, TakeDocs PROVE IInv'
  OBVIOUS
<1>1. /\ Take("docs") /\ nDocs' = item /\ place' = DocsFrom(1, item)
      /\ selectors' = [i \in 1..item |-> ""] /\ titles' = [i \in 1..item |-> ""]
      /\ UNCHANGED <<nTerms, n, terms, postings>>
  BY DEF TakeDocs
<1>2. place.part = "docs" /\ item = Item(place) /\ ix \in Indexes
  BY <1>1, TakenItem
<1>3. item = Len(ix.docs) /\ item \in Nat /\ ix' = ix
  BY <1>1, <1>2, IndexParts DEF Item, Take
<1>4. place' = Following(place)
  BY <1>1, <1>2, <1>3 DEF Following
<1>5. Written' /\ Kept' /\ Follows'
  BY <1>1, <1>4, Taking
<1>6. \/ place'.part = "selector" /\ place'.i = 1
      \/ place'.part = "terms" /\ Len(ix.docs) = 0
  <2>1. place' = DocsFrom(1, Len(ix.docs)) /\ Len(ix.docs) \in Nat
    BY <1>1, <1>3
  <2>2. CASE 1 <= Len(ix.docs)
    BY <2>1, <2>2 DEF DocsFrom, At
  <2>3. CASE Len(ix.docs) = 0
    BY <2>1, <2>3 DEF DocsFrom, At
  <2>4. QED BY <2>1, <2>2, <2>3
<1>7. DocsLoaded(place)'
  <2>1. /\ nDocs' = Len(ix'.docs) /\ Len(ix'.docs) \in Nat
        /\ selectors' \in [1..Len(ix'.docs) -> Strings \cup {""}]
        /\ titles' \in [1..Len(ix'.docs) -> Strings \cup {""}]
    <3> DEFINE N == Len(ix.docs)
    <3>1. /\ selectors' = [i \in 1..N |-> ""] /\ titles' = [i \in 1..N |-> ""]
          /\ nDocs' = N /\ N \in Nat /\ Len(ix'.docs) = N
      BY <1>1, <1>3
    <3> HIDE DEF N
    <3>2. QED BY <3>1
  <2>2. ASSUME NEW j \in 1..Len(ix'.docs)
        PROVE  place'.part = "selector" /\ ~ (j < place'.i)
    <3>1. Len(ix'.docs) = Len(ix.docs)
      BY <1>3
    <3>a. j \in 1..Len(ix.docs) /\ Len(ix.docs) \in Nat
      BY <3>1, <2>1
    <3>2. Len(ix.docs) # 0 /\ j \in Nat /\ j >= 1
      BY <3>a
    <3>3. place'.part = "selector" /\ place'.i = 1
      BY <3>2, <1>6
    <3>4. QED BY <3>2, <3>3
  <2>3. QED BY <2>1, <2>2 DEF DocsLoaded
<1>8. TermsLoaded(place)' /\ PostingsLoaded(place)'
  BY <1>6 DEF TermsLoaded, PostingsLoaded
<1>9. QED BY <1>1, <1>3, <1>5, <1>7, <1>8 DEF IInv, Loaded

LEMMA TakeSelectorStep == IInv /\ TakeSelector => IInv'
<1> SUFFICES ASSUME IInv, TakeSelector PROVE IInv'
  OBVIOUS
<1>1. /\ Take("selector") /\ place' = At("title", place.i, 0, 0)
      /\ selectors' = [selectors EXCEPT ![place.i] = item]
      /\ UNCHANGED <<counts, titles, terms, postings>>
  BY DEF TakeSelector
<1>2. /\ place.part = "selector" /\ item = Item(place) /\ ix \in Indexes
      /\ place.i \in 1..Len(ix.docs) /\ ix' = ix
  BY <1>1, TakenItem DEF InFile, Take
<1>3. item = ix.docs[place.i].selector /\ item \in Strings
  BY <1>2, IndexParts DEF Item
<1>4. place' = Following(place)
  BY <1>1, <1>2 DEF Following
<1>5. Written' /\ Kept' /\ Follows'
  BY <1>1, <1>4, Taking
<1>6. place'.part = "title" /\ place'.i = place.i
  BY <1>1 DEF At
<1>7. DocsLoaded(place)'
  <2>1. DocsLoaded(place) /\ Len(ix.docs) \in Nat
    BY <1>2, IndexParts DEF IInv, Loaded
  <2>2. /\ nDocs' = nDocs /\ titles' = titles /\ ix' = ix
        /\ nDocs = Len(ix.docs)
        /\ selectors \in [1..Len(ix.docs) -> Strings \cup {""}]
        /\ titles \in [1..Len(ix.docs) -> Strings \cup {""}]
    BY <1>1, <1>2, <2>1 DEF DocsLoaded, counts
  <2>3. selectors' \in [1..Len(ix.docs) -> Strings \cup {""}]
    BY <1>1, <1>3, <2>2
  <2>4. ASSUME NEW j \in 1..Len(ix.docs), j <= place.i
        PROVE  selectors'[j] = ix.docs[j].selector
    <3>1. CASE j = place.i
      BY <3>1, <1>1, <1>2, <1>3, <2>2
    <3>2. CASE j < place.i
      <4>1. selectors[j] = ix.docs[j].selector
        BY <3>2, <1>2, <2>1 DEF DocsLoaded
      <4>2. j # place.i
        BY <3>2, <1>2, <2>1
      <4>3. selectors'[j] = selectors[j]
        BY <4>2, <1>1, <2>2
      <4>4. QED BY <4>1, <4>3
    <3>3. j \in Int /\ place.i \in Int
      BY <1>2, <2>1
    <3>4. j = place.i \/ j < place.i
      BY <3>3, <2>4
    <3>5. QED BY <3>1, <3>2, <3>4
  <2>5. ASSUME NEW j \in 1..Len(ix.docs), j < place.i
        PROVE  titles'[j] = ix.docs[j].title
    BY <1>2, <2>1, <2>2, <2>5 DEF DocsLoaded
  <2>6. QED BY <1>6, <2>2, <2>3, <2>4, <2>5 DEF DocsLoaded
<1>8. TermsLoaded(place)' /\ PostingsLoaded(place)'
  BY <1>6 DEF TermsLoaded, PostingsLoaded
<1>9. QED BY <1>1, <1>5, <1>7, <1>8 DEF IInv, Loaded, counts

LEMMA TakeTitleStep == IInv /\ TakeTitle => IInv'
<1> SUFFICES ASSUME IInv, TakeTitle PROVE IInv'
  OBVIOUS
<1>1. /\ Take("title") /\ place' = DocsFrom(place.i + 1, nDocs)
      /\ titles' = [titles EXCEPT ![place.i] = item]
      /\ UNCHANGED <<counts, selectors, terms, postings>>
  BY DEF TakeTitle
<1>2. /\ place.part = "title" /\ item = Item(place) /\ ix \in Indexes
      /\ place.i \in 1..Len(ix.docs) /\ ix' = ix
  BY <1>1, TakenItem DEF InFile, Take
<1>3. item = ix.docs[place.i].title /\ item \in Strings
  BY <1>2, IndexParts DEF Item
<1>a. DocsLoaded(place) /\ Len(ix.docs) \in Nat /\ nDocs = Len(ix.docs)
  BY <1>2, IndexParts DEF IInv, Loaded, DocsLoaded
<1>4. place' = Following(place)
  BY <1>1, <1>2, <1>a DEF Following
<1>5. Written' /\ Kept' /\ Follows'
  BY <1>1, <1>4, Taking
<1>6. \/ place'.part = "selector" /\ place'.i = place.i + 1
      \/ place'.part = "terms" /\ Len(ix.docs) = place.i
  BY <1>1, <1>2, <1>a DEF DocsFrom, At
<1>7. DocsLoaded(place)'
  <2>2. /\ nDocs' = nDocs /\ selectors' = selectors /\ ix' = ix
        /\ nDocs = Len(ix.docs)
        /\ selectors \in [1..Len(ix.docs) -> Strings \cup {""}]
        /\ titles \in [1..Len(ix.docs) -> Strings \cup {""}]
    BY <1>1, <1>2, <1>a DEF DocsLoaded, counts
  <2>3. titles' \in [1..Len(ix.docs) -> Strings \cup {""}]
    BY <1>1, <1>3, <2>2
  <2>4. ASSUME NEW j \in 1..Len(ix.docs), j <= place.i
        PROVE  /\ selectors'[j] = ix.docs[j].selector
               /\ titles'[j] = ix.docs[j].title
    <3>1. selectors[j] = ix.docs[j].selector
      BY <1>2, <1>a, <2>4 DEF DocsLoaded
    <3>2. CASE j = place.i
      BY <3>1, <3>2, <1>1, <1>2, <1>3, <2>2
    <3>3. CASE j < place.i
      <4>1. titles[j] = ix.docs[j].title
        BY <3>3, <1>2, <1>a DEF DocsLoaded
      <4>2. j # place.i
        BY <3>3, <1>2, <1>a
      <4>3. selectors'[j] = selectors[j] /\ titles'[j] = titles[j]
        BY <4>2, <1>1, <2>2
      <4>4. QED BY <3>1, <4>1, <4>3
    <3>4. j \in Int /\ place.i \in Int
      BY <1>2, <1>a
    <3>5. j = place.i \/ j < place.i
      BY <3>4, <2>4
    <3>6. QED BY <3>2, <3>3, <3>5
  <2>5. ASSUME NEW j \in 1..Len(ix.docs), place'.part = "selector" => j < place'.i
        PROVE  j <= place.i
    BY <1>2, <1>6, <1>a, <2>5
  <2>6. place'.part \in {"selector", "terms"}
    BY <1>6
  <2>7. QED BY <2>2, <2>3, <2>4, <2>5, <2>6 DEF DocsLoaded
<1>8. TermsLoaded(place)' /\ PostingsLoaded(place)'
  BY <1>6 DEF TermsLoaded, PostingsLoaded
<1>9. QED BY <1>1, <1>5, <1>7, <1>8 DEF IInv, Loaded, counts

(* Past the documents, what was loaded of them stays. *)
LEMMA DocsStay ==
    ASSUME DocsLoaded(place), UNCHANGED <<ix, nDocs, selectors, titles>>,
           place.part \in {"terms", "term", "count", "delta", "freq"},
           place'.part \notin {"selector", "title"}
    PROVE  DocsLoaded(place)'
BY DEF DocsLoaded

LEMMA TakeTermsStep == IInv /\ TakeTerms => IInv'
<1> SUFFICES ASSUME IInv, TakeTerms PROVE IInv'
  OBVIOUS
<1>1. /\ Take("terms") /\ nTerms' = item /\ place' = TermsFrom(1, item)
      /\ terms' = [i \in 1..item |-> ""] /\ postings' = [i \in 1..item |-> <<>>]
      /\ UNCHANGED <<nDocs, n, selectors, titles>>
  BY DEF TakeTerms
<1>2. place.part = "terms" /\ item = Item(place) /\ ix \in Indexes
  BY <1>1, TakenItem
<1>3. item = Len(ix.terms) /\ item \in Nat /\ ix' = ix
  BY <1>1, <1>2, IndexParts DEF Item, Take
<1>4. place' = Following(place)
  BY <1>1, <1>2, <1>3 DEF Following
<1>5. Written' /\ Kept' /\ Follows'
  BY <1>1, <1>4, Taking
<1>6. \/ place'.part = "term" /\ place'.i = 1
      \/ place'.part = "end" /\ Len(ix.terms) = 0
  <2>1. place' = TermsFrom(1, Len(ix.terms)) /\ Len(ix.terms) \in Nat
    BY <1>1, <1>3
  <2>2. CASE 1 <= Len(ix.terms)
    BY <2>1, <2>2 DEF TermsFrom, At
  <2>3. CASE Len(ix.terms) = 0
    BY <2>1, <2>3 DEF TermsFrom, At
  <2>4. QED BY <2>1, <2>2, <2>3
<1>7. DocsLoaded(place)'
  BY <1>1, <1>2, <1>3, <1>6, DocsStay DEF IInv, Loaded
<1> DEFINE N == Len(ix.terms)
<1>8. /\ terms' = [i \in 1..N |-> ""] /\ postings' = [i \in 1..N |-> <<>>]
      /\ nTerms' = N /\ N \in Nat /\ Len(ix'.terms) = N /\ ix' = ix
  BY <1>1, <1>3
<1>9. \/ place'.part = "term" /\ place'.i = 1
      \/ place'.part = "end" /\ N = 0
  BY <1>6
<1> HIDE DEF N
<1>10. /\ terms' \in [1..N -> Strings \cup {""}]
       /\ postings' \in [1..N -> Seq(Posting)]
       /\ \A j \in 1..N : postings'[j] = <<>>
  <2>1. <<>> \in Seq(Posting)
    BY EmptySeq
  <2>2. QED BY <1>8, <2>1
<1>11. ASSUME NEW j \in 1..N
       PROVE  place'.part = "term" /\ ~ (j < place'.i) /\ place'.i = 1
  <2>a. N \in Nat
    BY <1>8
  <2>1. N # 0 /\ j \in Nat /\ j >= 1
    BY <2>a
  <2>2. place'.part = "term" /\ place'.i = 1
    BY <2>1, <1>9
  <2>3. QED BY <2>1, <2>2
<1>12. TermsLoaded(place)'
  BY <1>8, <1>10, <1>11 DEF TermsLoaded
<1>13. PostingsLoaded(place)'
  <2>1. place'.part \notin {"delta", "freq"}
    BY <1>9
  <2>2. QED BY <1>8, <1>10, <1>11, <2>1 DEF PostingsLoaded
<1>14. QED BY <1>1, <1>5, <1>7, <1>8, <1>12, <1>13 DEF IInv, Loaded

LEMMA TakeTermStep == IInv /\ TakeTerm => IInv'
<1> SUFFICES ASSUME IInv, TakeTerm PROVE IInv'
  OBVIOUS
<1>1. /\ Take("term") /\ place' = At("count", place.i, 0, 0)
      /\ terms' = [terms EXCEPT ![place.i] = item]
      /\ UNCHANGED <<counts, selectors, titles, postings>>
  BY DEF TakeTerm
<1>2. /\ place.part = "term" /\ item = Item(place) /\ ix \in Indexes
      /\ place.i \in 1..Len(ix.terms) /\ ix' = ix
  BY <1>1, TakenItem DEF InFile, Take
<1>3. item = ix.terms[place.i] /\ item \in Strings /\ Len(ix.terms) \in Nat
  BY <1>2, IndexParts DEF Item
<1>4. place' = Following(place)
  BY <1>1, <1>2 DEF Following
<1>5. Written' /\ Kept' /\ Follows'
  BY <1>1, <1>4, Taking
<1>6. place'.part = "count" /\ place'.i = place.i
  BY <1>1 DEF At
<1>7. DocsLoaded(place)'
  BY <1>1, <1>2, <1>6, DocsStay DEF IInv, Loaded, counts
<1>8. TermsLoaded(place)'
  <2>1. /\ nTerms' = Len(ix'.terms) /\ ix' = ix
        /\ terms \in [1..Len(ix.terms) -> Strings \cup {""}]
        /\ \A j \in 1..Len(ix.terms) : j < place.i => terms[j] = ix.terms[j]
    BY <1>1, <1>2 DEF IInv, Loaded, TermsLoaded, counts
  <2>2. terms' \in [1..Len(ix.terms) -> Strings \cup {""}]
    BY <1>1, <1>3, <2>1
  <2>3. ASSUME NEW j \in 1..Len(ix.terms), j <= place.i
        PROVE  terms'[j] = ix.terms[j]
    <3>1. j \in Int /\ place.i \in Int
      BY <1>2, <1>3
    <3>2. CASE j = place.i
      BY <3>2, <1>1, <1>2, <1>3, <2>1
    <3>3. CASE j < place.i /\ j # place.i
      <4>1. terms'[j] = terms[j]
        BY <3>3, <1>1, <2>1
      <4>2. QED BY <3>3, <4>1, <2>1
    <3>4. QED BY <3>1, <3>2, <3>3, <2>3
  <2>4. QED BY <1>6, <2>1, <2>2, <2>3 DEF TermsLoaded
<1>9. PostingsLoaded(place)'
  BY <1>1, <1>2, <1>6 DEF IInv, Loaded, PostingsLoaded
<1>10. QED BY <1>1, <1>5, <1>7, <1>8, <1>9 DEF IInv, Loaded, counts

(* Where the loop over the postings of a term goes. *)
LEMMA PostingsGoOn ==
    ASSUME NEW w, NEW k \in Nat \ {0}, NEW prev, NEW trms \in Nat, NEW pstgs \in Nat,
           w.i \in 1..trms
    PROVE  LET v == PostingsFrom(w, k, prev, trms, pstgs)
           IN \/ k <= pstgs /\ v.part = "delta" /\ v.i = w.i /\ v.k = k
              \/ ~ (k <= pstgs) /\ v.part = "term" /\ v.i = w.i + 1
              \/ ~ (k <= pstgs) /\ v.part = "end" /\ w.i = trms
<1>1. CASE k <= pstgs
  BY <1>1 DEF PostingsFrom, At
<1>2. CASE ~ (k <= pstgs) /\ w.i + 1 <= trms
  BY <1>2 DEF PostingsFrom, TermsFrom, At
<1>3. CASE ~ (k <= pstgs) /\ ~ (w.i + 1 <= trms)
  <2>1. w.i = trms
    BY <1>3
  <2>2. PostingsFrom(w, k, prev, trms, pstgs).part = "end"
    BY <1>3 DEF PostingsFrom, TermsFrom, At
  <2>3. QED BY <1>3, <2>1, <2>2
<1>4. QED BY <1>1, <1>2, <1>3

(* With k - 1 postings of a term loaded, and all before it, the loop goes on
   to what is to be loaded. *)
LEMMA PostingsMoveOn ==
    ASSUME ix \in Indexes, UNCHANGED <<ix, nTerms, terms>>,
           TermsLoaded(place), place.part \in {"count", "freq"},
           NEW i \in 1..Len(ix.terms), i = place.i, NEW k \in Nat \ {0}, NEW prev,
           place' = PostingsFrom(place, k, prev, Len(ix.terms), Len(ix.postings[i])),
           k - 1 <= Len(ix.postings[i]), n' = Len(ix.postings[i]),
           postings' \in [1..Len(ix.terms) -> Seq(Posting)],
           \A j \in 1..Len(ix.terms) :
              /\ j < i => postings'[j] = ix.postings[j]
              /\ j > i => postings'[j] = <<>>,
           Len(postings'[i]) = k - 1,
           \A m \in 1..k - 1 : postings'[i][m] = ix.postings[i][m]
    PROVE  TermsLoaded(place)' /\ PostingsLoaded(place)'
<1> DEFINE T == Len(ix.terms)
           P == Len(ix.postings[i])
<1>1. T \in Nat /\ P \in Nat /\ i \in 1..T
  BY IndexParts
<1>2. \/ k <= P /\ place'.part = "delta" /\ place'.i = i /\ place'.k = k
      \/ ~ (k <= P) /\ place'.part = "term" /\ place'.i = i + 1
      \/ ~ (k <= P) /\ place'.part = "end" /\ i = T
  <2>1. place' = PostingsFrom(place, k, prev, T, P) /\ place.i \in 1..T
    OBVIOUS
  <2> HIDE DEF T, P
  <2>2. QED BY <1>1, <2>1, PostingsGoOn
<1>3. /\ nTerms' = Len(ix'.terms) /\ ix' = ix /\ Len(ix'.terms) = T
      /\ terms' \in [1..T -> Strings \cup {""}]
      /\ \A j \in 1..T : j <= i => terms'[j] = ix'.terms[j]
  BY DEF TermsLoaded
<1>4. ~ (k <= P) => postings'[i] = ix.postings[i]
  <2>1. SUFFICES ASSUME ~ (k <= P) PROVE postings'[i] = ix.postings[i]
    OBVIOUS
  <2>2. k - 1 = P
    BY <2>1, <1>1
  <2>3. postings'[i] \in Seq(Posting) /\ ix.postings[i] \in Seq(Posting)
    BY IndexParts
  <2>4. Len(postings'[i]) = Len(ix.postings[i])
        /\ \A m \in 1..Len(ix.postings[i]) : postings'[i][m] = ix.postings[i][m]
    BY <2>2
  <2>5. QED BY <2>3, <2>4, SeqEqual
<1>a. /\ postings' \in [1..T -> Seq(Posting)]
      /\ \A j \in 1..T : /\ j < i => postings'[j] = ix'.postings[j]
                         /\ j > i => postings'[j] = <<>>
      /\ n' = Len(ix'.postings[i]) /\ Len(postings'[i]) = k - 1
      /\ \A m \in 1..k - 1 : postings'[i][m] = ix'.postings[i][m]
      /\ ~ (k <= P) => postings'[i] = ix'.postings[i]
  BY <1>3, <1>4
<1> HIDE DEF T, P
<1>5. CASE k <= P /\ place'.part = "delta" /\ place'.i = i /\ place'.k = k
  <2>1. TermsLoaded(place)'
    BY <1>3, <1>5 DEF TermsLoaded
  <2>2. PostingsLoaded(place)'
    <3>1. ASSUME NEW j \in 1..Len(ix'.terms)
          PROVE  /\ j < place'.i => postings'[j] = ix'.postings[j]
                 /\ j > place'.i => postings'[j] = <<>>
      BY <1>3, <1>a, <1>5
    <3>2. /\ n' = Len(ix'.postings[place'.i])
          /\ Len(postings'[place'.i]) = place'.k - 1
          /\ \A m \in 1..place'.k - 1 :
                postings'[place'.i][m] = ix'.postings[place'.i][m]
      BY <1>a, <1>5
    <3>3. postings' \in [1..Len(ix'.terms) -> Seq(Posting)]
      BY <1>3, <1>a
    <3>4. place'.part = "delta"
      BY <1>5
    <3>5. QED BY <3>1, <3>2, <3>3, <3>4 DEF PostingsLoaded
  <2>3. QED BY <2>1, <2>2
<1>6. CASE ~ (k <= P) /\ place'.part = "term" /\ place'.i = i + 1
  <2>1. ASSUME NEW j \in 1..T
        PROVE  /\ j < i + 1 => j <= i
               /\ j < i + 1 => postings'[j] = ix'.postings[j]
               /\ j > i + 1 => postings'[j] = <<>>
               /\ j = i + 1 => postings'[j] = <<>>
    <3>1. j \in Int /\ i \in Int
      BY <1>1
    <3>2. /\ j < i + 1 => j < i \/ j = i
          /\ j > i + 1 => j > i
          /\ j = i + 1 => j > i
      BY <3>1
    <3>3. QED BY <3>1, <3>2, <1>a, <1>6
  <2>2. TermsLoaded(place)'
    BY <1>3, <1>6, <2>1 DEF TermsLoaded
  <2>3. PostingsLoaded(place)'
    <3>1. ASSUME NEW j \in 1..Len(ix'.terms)
          PROVE  /\ (place'.part # "end" => j < place'.i) => postings'[j] = ix'.postings[j]
                 /\ place'.part # "end" /\ j > place'.i => postings'[j] = <<>>
                 /\ place'.part \in {"term", "count"} /\ j = place'.i
                    => postings'[j] = <<>>
      BY <1>3, <1>6, <2>1
    <3>2. place'.part \notin {"delta", "freq"}
      BY <1>6
    <3>3. postings' \in [1..Len(ix'.terms) -> Seq(Posting)]
      BY <1>3, <1>a
    <3>4. QED BY <3>1, <3>2, <3>3 DEF PostingsLoaded
  <2>4. QED BY <2>2, <2>3
<1>7. CASE ~ (k <= P) /\ place'.part = "end" /\ i = T
  <2>1. ASSUME NEW j \in 1..T
        PROVE  j <= i /\ postings'[j] = ix'.postings[j]
    <3>1. j < i \/ j = i
      BY <1>1, <1>7
    <3>2. QED BY <3>1, <1>1, <1>a, <1>7
  <2>2. TermsLoaded(place)'
    BY <1>3, <1>7, <2>1 DEF TermsLoaded
  <2>3. PostingsLoaded(place)'
    <3>1. \A j \in 1..Len(ix'.terms) : postings'[j] = ix'.postings[j]
      BY <1>3, <2>1
    <3>2. postings' \in [1..Len(ix'.terms) -> Seq(Posting)]
      BY <1>3, <1>a
    <3>3. place'.part = "end"
      BY <1>7
    <3>4. QED BY <3>1, <3>2, <3>3 DEF PostingsLoaded
  <2>4. QED BY <2>2, <2>3
<1>8. QED BY <1>2, <1>5, <1>6, <1>7

LEMMA TakeCountStep == IInv /\ TakeCount => IInv'
<1> SUFFICES ASSUME IInv, TakeCount PROVE IInv'
  OBVIOUS
<1>1. /\ Take("count") /\ n' = item
      /\ place' = PostingsFrom(place, 1, 0, nTerms, item)
      /\ UNCHANGED <<nDocs, nTerms, selectors, titles, terms, postings>>
  BY DEF TakeCount
<1>2. /\ place.part = "count" /\ item = Item(place) /\ ix \in Indexes
      /\ place.i \in 1..Len(ix.terms) /\ ix' = ix
  BY <1>1, TakenItem DEF InFile, Take
<1>3. item = Len(ix.postings[place.i]) /\ item \in Nat /\ Len(ix.terms) \in Nat
  BY <1>2, IndexParts DEF Item
<1>a. /\ DocsLoaded(place) /\ TermsLoaded(place) /\ PostingsLoaded(place)
      /\ nTerms = Len(ix.terms) /\ nDocs \in Nat /\ nTerms \in Nat
  BY <1>2 DEF IInv, Loaded, TermsLoaded
<1>4. place' = Following(place)
  BY <1>1, <1>2, <1>3, <1>a DEF Following
<1>5. Written' /\ Kept' /\ Follows'
  BY <1>1, <1>4, Taking
<1> DEFINE i == place.i
<1>6. TermsLoaded(place)' /\ PostingsLoaded(place)'
  <2>1. /\ postings' \in [1..Len(ix.terms) -> Seq(Posting)]
        /\ \A j \in 1..Len(ix.terms) :
              /\ j < i => postings'[j] = ix.postings[j]
              /\ j > i => postings'[j] = <<>>
        /\ postings'[i] = <<>>
    BY <1>1, <1>2, <1>a DEF PostingsLoaded
  <2> DEFINE k == 1
  <2>2. Len(postings'[i]) = k - 1 /\ k - 1 <= Len(ix.postings[i]) /\ k \in Nat \ {0}
    BY <2>1, <1>3
  <2>3. place' = PostingsFrom(place, k, 0, Len(ix.terms), Len(ix.postings[i]))
        /\ n' = Len(ix.postings[i])
    BY <1>1, <1>3, <1>a
  <2>4. \A m \in 1..k - 1 : postings'[i][m] = ix.postings[i][m]
    OBVIOUS
  <2>5. i \in 1..Len(ix.terms) /\ i = place.i
    BY <1>2
  <2> HIDE DEF i, k
  <2>6. UNCHANGED <<ix, nTerms, terms>> /\ ix \in Indexes
        /\ place.part \in {"count", "freq"}
    BY <1>1, <1>2
  <2>7. QED BY <1>a, <2>1, <2>2, <2>3, <2>4, <2>5, <2>6, PostingsMoveOn
<1>7. place'.part \notin {"selector", "title"}
  BY <1>1, <1>2, <1>3, <1>a, PostingsGoOn
<1>8. DocsLoaded(place)'
  BY <1>1, <1>2, <1>7, <1>a, DocsStay
<1>9. QED BY <1>1, <1>3, <1>5, <1>6, <1>8, <1>a DEF IInv, Loaded

LEMMA TakeDeltaStep == IInv /\ TakeDelta => IInv'
<1> SUFFICES ASSUME IInv, TakeDelta PROVE IInv'
  OBVIOUS
<1>1. /\ Take("delta")
      /\ place' = At("freq", place.i, place.k, Plus(place.prev, item))
      /\ UNCHANGED <<counts, selectors, titles, terms, postings>>
  BY DEF TakeDelta
<1>2. /\ place.part = "delta" /\ item = Item(place) /\ ix \in Indexes
      /\ place.i \in 1..Len(ix.terms) /\ place.k \in 1..Len(ix.postings[place.i])
      /\ place.prev \in Number /\ ix' = ix
  BY <1>1, TakenItem DEF InFile, Take
<1>3. Plus(place.prev, item) = Doc(place)
  <2>1. Doc(place) \in Number
    BY <1>2, IndexParts DEF Doc
  <2>2. item = Minus(Doc(place), place.prev)
    BY <1>2 DEF Item
  <2>3. QED BY <1>2, <2>1, <2>2, DifferencesComeBack
<1>4. place' = Following(place)
  BY <1>1, <1>2, <1>3 DEF Following
<1>5. Written' /\ Kept' /\ Follows'
  BY <1>1, <1>4, Taking
<1>6. place'.part = "freq" /\ place'.i = place.i /\ place'.k = place.k
  BY <1>1 DEF At
<1>7. DocsLoaded(place)'
  BY <1>1, <1>2, <1>6, DocsStay DEF IInv, Loaded, counts
<1>8. TermsLoaded(place)'
  BY <1>1, <1>2, <1>6 DEF IInv, Loaded, TermsLoaded, counts
<1>9. PostingsLoaded(place)'
  BY <1>1, <1>2, <1>6 DEF IInv, Loaded, PostingsLoaded, counts
<1>10. QED BY <1>1, <1>5, <1>7, <1>8, <1>9 DEF IInv, Loaded, counts

LEMMA TakeFreqStep == IInv /\ TakeFreq => IInv'
<1> SUFFICES ASSUME IInv, TakeFreq PROVE IInv'
  OBVIOUS
<1> DEFINE i == place.i
           p == [doc |-> place.prev, freq |-> item]
<1>1. /\ Take("freq")
      /\ postings' = [postings EXCEPT ![place.i] = Append(@, p)]
      /\ place' = PostingsFrom(place, place.k + 1, place.prev, nTerms, n)
      /\ UNCHANGED <<counts, selectors, titles, terms>>
  BY DEF TakeFreq
<1>2. /\ place.part = "freq" /\ item = Item(place) /\ ix \in Indexes
      /\ i \in 1..Len(ix.terms) /\ place.k \in 1..Len(ix.postings[i])
      /\ place.prev = Doc(place) /\ ix' = ix
  BY <1>1, TakenItem DEF InFile, Take
<1>3. p = ix.postings[i][place.k] /\ p \in Posting
      /\ Len(ix.terms) \in Nat /\ Len(ix.postings[i]) \in Nat
  <2>1. item = ix.postings[i][place.k].freq /\ place.prev = ix.postings[i][place.k].doc
    BY <1>2 DEF Item, Doc
  <2>2. QED BY <1>2, <2>1, IndexParts
<1>a. /\ DocsLoaded(place) /\ TermsLoaded(place) /\ PostingsLoaded(place)
      /\ nTerms = Len(ix.terms) /\ n = Len(ix.postings[i])
  BY <1>2 DEF IInv, Loaded, TermsLoaded, PostingsLoaded
<1>4. place' = Following(place)
  BY <1>1, <1>2, <1>a DEF Following
<1>5. Written' /\ Kept' /\ Follows'
  BY <1>1, <1>4, Taking
<1> DEFINE k == place.k + 1
<1>6. k \in Nat \ {0} /\ k - 1 = place.k /\ k - 1 <= Len(ix.postings[i])
  BY <1>2, <1>3
<1>7. TermsLoaded(place)' /\ PostingsLoaded(place)'
  <2>1. /\ postings \in [1..Len(ix.terms) -> Seq(Posting)]
        /\ \A j \in 1..Len(ix.terms) :
              /\ j < i => postings[j] = ix.postings[j]
              /\ j > i => postings[j] = <<>>
        /\ Len(postings[i]) = place.k - 1
        /\ \A m \in 1..place.k - 1 : postings[i][m] = ix.postings[i][m]
    BY <1>2, <1>a DEF PostingsLoaded
  <2>2. place' = PostingsFrom(place, k, place.prev, Len(ix.terms), Len(ix.postings[i]))
        /\ n' = Len(ix.postings[i])
    BY <1>1, <1>a DEF counts
  <2>3. i = place.i /\ i \in 1..Len(ix.terms) /\ postings[i] \in Seq(Posting)
    BY <1>2, <2>1
  <2> HIDE DEF i, k, p
  <2>4. /\ Append(postings[i], p) \in Seq(Posting)
        /\ Len(Append(postings[i], p)) = k - 1
        /\ \A m \in 1..k - 1 : Append(postings[i], p)[m] = ix.postings[i][m]
    <3>1. /\ Append(postings[i], p) \in Seq(Posting)
          /\ Len(Append(postings[i], p)) = Len(postings[i]) + 1
          /\ \A m \in 1..Len(postings[i]) : Append(postings[i], p)[m] = postings[i][m]
          /\ Append(postings[i], p)[Len(postings[i]) + 1] = p
      BY <1>3, <2>3
    <3>2. Len(postings[i]) + 1 = place.k /\ Len(postings[i]) = place.k - 1
      BY <1>2, <1>6, <2>1
    <3>3. ASSUME NEW m \in 1..k - 1
          PROVE  Append(postings[i], p)[m] = ix.postings[i][m]
      <4>1. m \in 1..place.k - 1 \/ m = place.k
        BY <1>6
      <4>2. CASE m = place.k
        BY <3>1, <3>2, <4>2, <1>3
      <4>3. CASE m \in 1..place.k - 1
        BY <3>1, <3>2, <4>3, <2>1
      <4>4. QED BY <4>1, <4>2, <4>3
    <3>4. QED BY <3>1, <3>2, <3>3, <1>6
  <2>5. /\ postings' \in [1..Len(ix.terms) -> Seq(Posting)]
        /\ postings'[i] = Append(postings[i], p)
        /\ \A j \in 1..Len(ix.terms) : j # i => postings'[j] = postings[j]
    BY <1>1, <2>1, <2>3, <2>4
  <2>6. \A j \in 1..Len(ix.terms) :
              /\ j < i => postings'[j] = ix.postings[j]
              /\ j > i => postings'[j] = <<>>
    <3>1. ASSUME NEW j \in 1..Len(ix.terms), j < i \/ j > i PROVE j # i
      BY <3>1, <1>2, <1>3
    <3>2. QED BY <3>1, <2>1, <2>5
  <2>7. /\ Len(postings'[i]) = k - 1
        /\ \A m \in 1..k - 1 : postings'[i][m] = ix.postings[i][m]
    BY <2>4, <2>5
  <2>8. UNCHANGED <<ix, nTerms, terms>>
    BY <1>1, <1>2 DEF counts
  <2>9. QED
    BY <1>2, <1>6, <1>a, <2>2, <2>3, <2>5, <2>6, <2>7, <2>8, PostingsMoveOn
<1>8. place'.part \notin {"selector", "title"}
  BY <1>1, <1>2, <1>3, <1>6, <1>a, PostingsGoOn
<1>9. DocsLoaded(place)'
  BY <1>1, <1>2, <1>8, <1>a, DocsStay DEF counts
<1>10. QED BY <1>1, <1>5, <1>7, <1>9 DEF IInv, Loaded, counts

(* Opening, and the two ways it ends. *)
LEMMA ReadStep == IInv /\ Read => IInv'
<1> SUFFICES ASSUME IInv, Open \/ Finish \/ Refuse PROVE IInv'
  BY TakeMagicStep, TakeDocsStep, TakeSelectorStep, TakeTitleStep, TakeTermsStep,
     TakeTermStep, TakeCountStep, TakeDeltaStep, TakeFreqStep DEF Read
<1>1. UNCHANGED <<ix, writing, disk, loading>>
  BY DEF Open, Finish, Refuse
<1>2. Written'
  BY <1>1, WrittenStays DEF IInv
<1>3. Loaded(place)'
  BY <1>1 DEF IInv, Loaded, DocsLoaded, TermsLoaded, PostingsLoaded, loading, counts
<1>4. Kept' /\ Follows'
  <2> USE <1>1 DEF IInv, Kept, Follows, writing, disk, loading
  <2>1. CASE Open
    BY <2>1 DEF Open
  <2>2. CASE Finish
    BY <2>2 DEF Finish
  <2>3. CASE Refuse
    BY <2>3 DEF Refuse
  <2>4. QED BY <2>1, <2>2, <2>3
<1>5. QED BY <1>2, <1>3, <1>4 DEF IInv

LEMMA StutterStep == IInv /\ UNCHANGED vars => IInv'
<1> SUFFICES ASSUME IInv, UNCHANGED vars PROVE IInv'
  OBVIOUS
<1>1. Written'
  BY WrittenStays DEF IInv, vars
<1>2. Loaded(place)'
  BY DEF IInv, Loaded, DocsLoaded, TermsLoaded, PostingsLoaded, vars, loading, counts
<1>3. Kept' /\ Follows'
  BY DEF IInv, Kept, Follows, vars, writing, disk, loading
<1>4. QED BY <1>1, <1>2, <1>3 DEF IInv

LEMMA IInvHolds == IndexSpec => []IInv
<1>1. IndexInit => IInv
  <2>1. Init => IInv
    BY UntouchedIInv DEF Init
  <2>2. FileOver => IInv
    <3>1. (CHOOSE x \in Indexes : TRUE) \in Indexes
      BY SomethingAssumption
    <3>2. QED BY <3>1, UntouchedIInv DEF FileOver
  <2>3. QED BY <2>1, <2>2 DEF IndexInit
<1>2. IInv /\ [IndexNext]_<<vars, indexVars>> => IInv'
  <2> SUFFICES ASSUME IInv, [IndexNext]_<<vars, indexVars>> PROVE IInv'
    OBVIOUS
  <2>1. CASE UNCHANGED vars
    BY <2>1, StutterStep
  <2>2. CASE Next
    BY <2>2, WriteStep, ReadStep DEF Next
  <2>3. QED BY <2>1, <2>2 DEF IndexNext
<1>3. QED BY <1>1, <1>2, PTL DEF IndexSpec

-----------------------------------------------------------------------------
(* The end of the file is where the writer is, and nowhere before. *)
LEMMA EndIsTheEnd ==
    ASSUME IInv
    PROVE  /\ place.part = "end" => taken = Len(file)
           /\ taken = Len(file) => place = at
           /\ taken \in Nat /\ flushed \in Nat /\ Len(file) \in Nat
           /\ taken <= flushed /\ flushed <= Len(file)
<1>1. /\ taken \in Nat /\ flushed \in Nat /\ Len(file) \in Nat
      /\ taken <= flushed /\ flushed <= Len(file)
      /\ place = places[taken + 1] /\ at = places[Len(file) + 1]
  BY DEF IInv, Written, Kept, Follows
<1>2. ASSUME place.part = "end", taken # Len(file) PROVE FALSE
  <2>1. taken + 1 \in 1..Len(file)
    BY <1>1, <1>2
  <2>2. QED BY <1>1, <1>2, <2>1 DEF IInv, Written
<1>3. QED BY <1>1, <1>2

LEMMA IInvTypes == IInv => TypeOK
<1> SUFFICES ASSUME IInv PROVE TypeOK
  OBVIOUS
<1>1. at \in Place
  BY DEF IInv, Written, InFile
<1>2. place \in Place
  <2>1. taken + 1 \in 1..Len(places) /\ places \in Seq(Place)
    BY EndIsTheEnd DEF IInv, Written
  <2>2. QED BY <2>1, ElementOfSeq DEF IInv, Follows
<1>3. flushed \in 0..Len(file) /\ taken \in 0..flushed
  BY DEF IInv, Kept, Follows
<1>4. QED BY <1>1, <1>2, <1>3 DEF IInv, Written, Kept, Loaded, TypeOK

-----------------------------------------------------------------------------
(* Numbers, and sorting.                                                    *)

LEMMA LeastExists ==
    ASSUME NEW S \in SUBSET Nat, S # {}
    PROVE  \E i \in S : \A j \in S : i <= j
<1>1. PICK i \in S : \A j \in S : ~(<<j, i>> \in OpToRel(<, Nat))
  BY WFMin, NatLessThanWellFounded
<1>2. \A j \in S : ~(j < i)
  BY <1>1 DEF OpToRel
<1>. QED
  BY <1>2

LEMMA SameCardinality == \A S : Index!Cardinality(S) = Cardinality(S)
BY DEF Index!Cardinality, Cardinality

(* R puts any two elements of S in order. *)
Orders(R, S) ==
    /\ \A x \in S : <<x, x>> \notin R
    /\ \A x, y, z \in S : <<x, y>> \in R /\ <<y, z>> \in R => <<x, z>> \in R
    /\ \A x, y \in S : x = y \/ <<x, y>> \in R \/ <<y, x>> \in R

(* s has the elements of S, once each, in the order R. *)
IsSorted(s, S, R) ==
    /\ Cardinality(S) \in Nat
    /\ s \in [1..Cardinality(S) -> S] /\ s \in Seq(S) /\ Len(s) = Cardinality(S)
    /\ \A x \in S : \E i \in 1..Len(s) : s[i] = x
    /\ \A i, j \in 1..Len(s) : i < j => <<s[i], s[j]>> \in R

(* sort does what it promises: an element is at the place that the number of
   those before it gives, and no two have the same number. *)
LEMMA SortedIsSorted ==
    ASSUME NEW S, IsFiniteSet(S), NEW R, Orders(R, S)
    PROVE  IsSorted(Index!Sorted(S, R), S, R)
<1>b. PICK below : below = [x \in S |-> {y \in S : <<y, x>> \in R}]
  OBVIOUS
<1>c. \A x \in S : below[x] = {y \in S : <<y, x>> \in R}
  BY <1>b
<1> DEFINE last == Cardinality(S)
           place1 == [x \in S |-> Cardinality(below[x]) + 1]
           s == Index!Sorted(S, R)
<1>1. last \in Nat /\ IsFiniteSet(1..last) /\ Cardinality(1..last) = last
  <2>1. last \in Nat
    BY FS_CardinalityType
  <2>2. 1 \in Int /\ last \in Int
    BY <2>1
  <2>3. IsFiniteSet(1..last) /\ Cardinality(1..last) = IF 1 > last THEN 0 ELSE last - 1 + 1
    BY <2>2, FS_Interval
  <2>. QED
    BY <2>1, <2>3
<1>2. ASSUME NEW x \in S
      PROVE  /\ IsFiniteSet(below[x]) /\ Cardinality(below[x]) \in Nat
             /\ Cardinality(below[x]) < last
  <2>1. below[x] \in SUBSET S /\ x \notin below[x]
    BY <1>c DEF Orders
  <2>2. IsFiniteSet(below[x]) /\ Cardinality(below[x]) <= last
        /\ Cardinality(S) # Cardinality(below[x])
    BY <2>1, FS_Subset
  <2>3. Cardinality(below[x]) \in Nat
    BY <2>2, FS_CardinalityType
  <2>. QED
    BY <1>1, <2>2, <2>3
<1>3. ASSUME NEW x \in S, NEW y \in S, <<x, y>> \in R
      PROVE  Cardinality(below[x]) < Cardinality(below[y])
  <2>1. below[x] \in SUBSET below[y]
    BY <1>3, <1>c DEF Orders
  <2>2. x \in below[y] /\ x \notin below[x]
    BY <1>3, <1>c DEF Orders
  <2>3. Cardinality(below[x]) <= Cardinality(below[y])
        /\ Cardinality(below[y]) # Cardinality(below[x])
    BY <1>2, <2>1, <2>2, FS_Subset
  <2>. QED
    BY <1>2, <2>3
<1>4. place1 \in Injection(S, 1..last)
  <2>1. \A x \in S : Cardinality(below[x]) + 1 \in 1..last
    BY <1>1, <1>2
  <2>2. \A x, y \in S : Cardinality(below[x]) + 1 = Cardinality(below[y]) + 1 => x = y
    <3> SUFFICES ASSUME NEW x \in S, NEW y \in S, x # y
                 PROVE  Cardinality(below[x]) + 1 # Cardinality(below[y]) + 1
      OBVIOUS
    <3>1. <<x, y>> \in R \/ <<y, x>> \in R
      BY DEF Orders
    <3>2. Cardinality(below[x]) # Cardinality(below[y])
      BY <1>2, <1>3, <3>1
    <3>. QED
      BY <1>2, <3>2
  <2>. QED
    BY <2>1, <2>2 DEF Injection, IsInjective
<1>5. place1 \in Surjection(S, 1..last)
  BY <1>1, <1>4, FS_Injection
<1>6. \A i \in 1..last : \E x \in S : Cardinality(below[x]) = i - 1
  <2> SUFFICES ASSUME NEW i \in 1..last PROVE \E x \in S : Cardinality(below[x]) = i - 1
    OBVIOUS
  <2>1. PICK x \in S : place1[x] = i
    BY <1>5 DEF Surjection
  <2>2. Cardinality(below[x]) + 1 = i
    BY <2>1
  <2>. QED
    BY <1>2, <2>2
<1>7. s = [i \in 1..last |->
                CHOOSE x \in S : Cardinality({y \in S : <<y, x>> \in R}) = i - 1]
  BY DEF Index!Sorted, Index!Cardinality, Cardinality
<1>a. \A i \in 1..last :
         s[i] = CHOOSE x \in S : Cardinality({y \in S : <<y, x>> \in R}) = i - 1
  BY <1>7
<1> HIDE DEF last, place1, s
<1>8. ASSUME NEW i \in 1..last
      PROVE  s[i] \in S /\ Cardinality(below[s[i]]) = i - 1
  <2>1. PICK x \in S : Cardinality(below[x]) = i - 1
    BY <1>6
  <2>2. Cardinality({y \in S : <<y, x>> \in R}) = i - 1
    BY <1>c, <2>1
  <2>3. s[i] \in S /\ Cardinality({y \in S : <<y, s[i]>> \in R}) = i - 1
    BY <1>a, <2>2
  <2>. QED
    BY <1>c, <2>3
<1>9. s \in [1..last -> S]
  BY <1>7, <1>8
<1>10. s \in Seq(S) /\ Len(s) = last
  BY <1>1, <1>9
<1>11. ASSUME NEW x \in S PROVE \E i \in 1..last : s[i] = x
  <2>1. Cardinality(below[x]) + 1 \in 1..last
    BY <1>1, <1>2
  <2> DEFINE i == Cardinality(below[x]) + 1
  <2>2. s[i] \in S /\ Cardinality(below[s[i]]) = Cardinality(below[x])
    BY <1>2, <1>8, <2>1
  <2>3. s[i] = x
    <3>1. \/ s[i] = x \/ <<s[i], x>> \in R \/ <<x, s[i]>> \in R
      BY <2>2 DEF Orders
    <3>. QED
      BY <1>2, <1>3, <2>2, <3>1
  <2>. QED
    BY <2>1, <2>3
<1>12. ASSUME NEW i \in 1..last, NEW j \in 1..last, i < j PROVE <<s[i], s[j]>> \in R
  <2>1. /\ s[i] \in S /\ s[j] \in S
        /\ Cardinality(below[s[i]]) < Cardinality(below[s[j]])
    BY <1>1, <1>8, <1>12
  <2>2. s[i] = s[j] \/ <<s[i], s[j]>> \in R \/ <<s[j], s[i]>> \in R
    BY <2>1 DEF Orders
  <2>. QED
    BY <1>2, <1>3, <2>1, <2>2
<1>. QED
  BY <1>1, <1>9, <1>10, <1>11, <1>12 DEF IsSorted, s, last

(* Numbers in order. *)
LEMMA AscendingOrders == ASSUME NEW S \in SUBSET Nat PROVE Orders(Index!Ascending(S), S)
<1>1. \A x, y \in S : <<x, y>> \in Index!Ascending(S) <=> x < y
  BY DEF Index!Ascending
<1>2. \A x \in S : x \in Nat
  OBVIOUS
<1>. QED
  BY <1>1, <1>2 DEF Orders

-----------------------------------------------------------------------------
(* Spellings in the order of the alphabet.                                      *)

LEMMA WordFacts ==
    ASSUME NEW w \in Spellings
    PROVE  /\ Len(w) \in Nat /\ DOMAIN w = 1..Len(w)
           /\ \A i \in 1..Len(w) : w[i] \in Nat
BY LenProperties, ElementOfSeq DEF Spellings

LEMMA SameWord ==
    ASSUME NEW v \in Spellings, NEW w \in Spellings, Len(v) = Len(w),
           \A i \in 1..Len(v) : v[i] = w[i]
    PROVE  v = w
BY SeqEqual DEF Spellings

(* Neither begins the other: they differ at some place first. *)
Diverge(v, w, i) ==
    /\ i \in 1..Len(v) /\ i \in 1..Len(w)
    /\ v[i] < w[i]
    /\ \A j \in 1..i - 1 : v[j] = w[j]

LEMMA PrecedesCases ==
    ASSUME NEW v \in Spellings, NEW w \in Spellings
    PROVE  Index!Precedes(v, w) <=>
              \/ Index!IsPrefix(v, w) /\ Len(v) < Len(w)
              \/ \E i \in 1..Len(v) : Diverge(v, w, i)
<1>1. Index!IsPrefix(v, w) => (v # w <=> Len(v) < Len(w))
  BY WordFacts, SameWord DEF Index!IsPrefix
<1>2. \A i : i \in DOMAIN v \cap DOMAIN w <=> i \in 1..Len(v) /\ i \in 1..Len(w)
  BY WordFacts
<1>. QED
  BY <1>1, <1>2 DEF Index!Precedes, Diverge

LEMMA PrefixMeans ==
    ASSUME NEW v \in Spellings, NEW w \in Spellings
    PROVE  Index!IsPrefix(v, w) <=> Len(v) <= Len(w) /\ \A i \in 1..Len(v) : v[i] = w[i]
BY WordFacts DEF Index!IsPrefix

LEMMA PrecedesIsTotal ==
    ASSUME NEW v \in Spellings, NEW w \in Spellings
    PROVE  v = w \/ Index!Precedes(v, w) \/ Index!Precedes(w, v)
<1> DEFINE apart == {i \in 1..Len(v) : i <= Len(w) /\ v[i] # w[i]}
<1>1. CASE apart = {}
  <2>1. \A i \in 1..Len(v) : i <= Len(w) => v[i] = w[i]
    BY <1>1
  <2>2. Len(v) \in Nat /\ Len(w) \in Nat
    BY WordFacts
  <2>3. CASE Len(v) < Len(w)
    BY <2>1, <2>2, <2>3, PrecedesCases, PrefixMeans
  <2>4. CASE Len(w) < Len(v)
    <3>1. \A i \in 1..Len(w) : w[i] = v[i]
      BY <2>1, <2>2, <2>4
    <3>. QED
      BY <2>2, <2>4, <3>1, PrecedesCases, PrefixMeans
  <2>5. CASE Len(w) = Len(v)
    BY <2>1, <2>2, <2>5, SameWord
  <2>. QED
    BY <2>2, <2>3, <2>4, <2>5
<1>2. CASE apart # {}
  <2>1. apart \in SUBSET Nat
    BY WordFacts
  <2>2. PICK i \in apart : \A j \in apart : i <= j
    BY <1>2, <2>1, LeastExists
  <2>3. /\ i \in 1..Len(v) /\ i \in 1..Len(w) /\ v[i] # w[i]
        /\ v[i] \in Nat /\ w[i] \in Nat
    BY <2>2, WordFacts
  <2>4. \A j \in 1..i - 1 : v[j] = w[j] /\ w[j] = v[j]
    <3> SUFFICES ASSUME NEW j \in 1..i - 1 PROVE v[j] = w[j]
      OBVIOUS
    <3>1. j \in 1..Len(v) /\ j <= Len(w) /\ ~(i <= j)
      BY <2>3, WordFacts
    <3>. QED
      BY <2>2, <3>1
  <2>5. Diverge(v, w, i) \/ Diverge(w, v, i)
    BY <2>3, <2>4 DEF Diverge
  <2>. QED
    BY <2>3, <2>5, PrecedesCases
<1>. QED
  BY <1>1, <1>2

LEMMA PrecedesIsStrict ==
    ASSUME NEW v \in Spellings, NEW w \in Spellings, Index!Precedes(v, w)
    PROVE  ~ Index!Precedes(w, v)
<1> SUFFICES ASSUME Index!Precedes(w, v) PROVE FALSE
  OBVIOUS
<1>1. CASE \E i \in 1..Len(v) : Diverge(v, w, i)
  <2>1. PICK i \in 1..Len(v) : Diverge(v, w, i)
    BY <1>1
  <2>2. v[i] \in Nat /\ w[i] \in Nat /\ v[i] < w[i] /\ i \in 1..Len(w)
        /\ \A j \in 1..i - 1 : v[j] = w[j]
    BY <2>1, WordFacts DEF Diverge
  <2>3. ~ Index!IsPrefix(w, v)
    BY <2>2, PrefixMeans
  <2>4. PICK k \in 1..Len(w) : Diverge(w, v, k)
    BY <2>3, PrecedesCases
  <2>5. w[k] \in Nat /\ v[k] \in Nat /\ w[k] < v[k] /\ k \in 1..Len(v)
        /\ \A j \in 1..k - 1 : w[j] = v[j]
    BY <2>4, WordFacts DEF Diverge
  <2>6. ~(k < i) /\ ~(i < k) /\ i # k
    BY <2>2, <2>5, WordFacts
  <2>. QED
    BY <2>6, WordFacts
<1>2. CASE Index!IsPrefix(v, w) /\ Len(v) < Len(w)
  <2>1. Len(v) \in Nat /\ Len(w) \in Nat /\ \A i \in 1..Len(v) : v[i] = w[i]
    BY <1>2, WordFacts, PrefixMeans
  <2>2. ~ Index!IsPrefix(w, v)
    BY <1>2, <2>1, PrefixMeans
  <2>3. PICK k \in 1..Len(w) : Diverge(w, v, k)
    BY <2>2, PrecedesCases
  <2>4. k \in 1..Len(v) /\ w[k] < v[k] /\ w[k] \in Nat
    BY <2>3, WordFacts DEF Diverge
  <2>. QED
    BY <2>1, <2>4
<1>. QED
  BY <1>1, <1>2, PrecedesCases

(* The first place where either pair diverges decides. *)
LEMMA PrecedesIsTransitive ==
    ASSUME NEW u \in Spellings, NEW v \in Spellings, NEW w \in Spellings,
           Index!Precedes(u, v), Index!Precedes(v, w)
    PROVE  Index!Precedes(u, w)
<1>0. Len(u) \in Nat /\ Len(v) \in Nat /\ Len(w) \in Nat
  BY WordFacts
<1>1. ASSUME NEW i \in 1..Len(u), Diverge(u, v, i)
      PROVE  Index!Precedes(u, w)
  <2>1. /\ i \in 1..Len(v) /\ u[i] < v[i] /\ u[i] \in Nat /\ v[i] \in Nat
        /\ \A j \in 1..i - 1 : u[j] = v[j]
    BY <1>1, WordFacts DEF Diverge
  <2>2. CASE Index!IsPrefix(v, w)
    <3>1. Diverge(u, w, i)
      BY <1>0, <2>1, <2>2, PrefixMeans DEF Diverge
    <3>. QED
      BY <3>1, PrecedesCases
  <2>3. ASSUME NEW k \in 1..Len(v), Diverge(v, w, k)
        PROVE  Index!Precedes(u, w)
    <3>1. /\ k \in 1..Len(w) /\ v[k] < w[k] /\ v[k] \in Nat /\ w[k] \in Nat
          /\ \A j \in 1..k - 1 : v[j] = w[j]
      BY <2>3, WordFacts DEF Diverge
    <3>2. CASE i <= k
      <4>1. i \in 1..Len(w) /\ u[i] < w[i]
        BY <1>0, <2>1, <3>1, <3>2
      <4>2. \A j \in 1..i - 1 : u[j] = w[j]
        BY <2>1, <3>1, <3>2
      <4>3. Diverge(u, w, i)
        BY <4>1, <4>2 DEF Diverge
      <4>. QED
        BY <4>3, PrecedesCases
    <3>3. CASE k < i
      <4>1. k \in 1..Len(u) /\ u[k] = v[k]
        BY <1>0, <2>1, <3>3
      <4>2. \A j \in 1..k - 1 : u[j] = w[j]
        BY <2>1, <3>1, <3>3
      <4>3. Diverge(u, w, k)
        BY <3>1, <4>1, <4>2 DEF Diverge
      <4>. QED
        BY <4>1, <4>3, PrecedesCases
    <3>. QED
      BY <1>0, <3>2, <3>3
  <2>. QED
    BY <2>2, <2>3, PrecedesCases
<1>2. CASE Index!IsPrefix(u, v) /\ Len(u) < Len(v)
  <2>1. \A i \in 1..Len(u) : u[i] = v[i]
    BY <1>2, PrefixMeans
  <2>2. CASE Index!IsPrefix(v, w) /\ Len(v) < Len(w)
    <3>1. \A i \in 1..Len(u) : u[i] = w[i]
      BY <1>0, <1>2, <2>1, <2>2, PrefixMeans
    <3>. QED
      BY <1>0, <1>2, <2>2, <3>1, PrefixMeans, PrecedesCases
  <2>3. ASSUME NEW k \in 1..Len(v), Diverge(v, w, k)
        PROVE  Index!Precedes(u, w)
    <3>1. /\ k \in 1..Len(w) /\ v[k] < w[k]
          /\ \A j \in 1..k - 1 : v[j] = w[j]
      BY <2>3, WordFacts DEF Diverge
    <3>2. CASE k <= Len(u)
      <4>1. k \in 1..Len(u) /\ u[k] < w[k]
        BY <2>1, <3>1, <3>2
      <4>2. \A j \in 1..k - 1 : u[j] = w[j]
        BY <1>0, <2>1, <3>1, <3>2
      <4>3. Diverge(u, w, k)
        BY <3>1, <4>1, <4>2 DEF Diverge
      <4>. QED
        BY <4>1, <4>3, PrecedesCases
    <3>3. CASE Len(u) < k
      <4>1. \A i \in 1..Len(u) : u[i] = w[i]
        BY <1>0, <2>1, <3>1, <3>3
      <4>2. Len(u) < Len(w)
        BY <1>0, <3>1, <3>3
      <4>. QED
        BY <1>0, <4>1, <4>2, PrefixMeans, PrecedesCases
    <3>. QED
      BY <1>0, <3>2, <3>3
  <2>. QED
    BY <2>2, <2>3, PrecedesCases
<1>. QED
  BY <1>1, <1>2, PrecedesCases

LEMMA AlphabetOrders ==
    ASSUME NEW S \in SUBSET Spellings
    PROVE  Orders(Index!Alphabetic(S), S)
<1>1. \A x, y \in S : <<x, y>> \in Index!Alphabetic(S) <=> Index!Precedes(x, y)
  BY DEF Index!Alphabetic
<1>2. \A x \in S : ~ Index!Precedes(x, x)
  BY PrecedesIsStrict
<1>3. \A x, y, z \in S : Index!Precedes(x, y) /\ Index!Precedes(y, z) => Index!Precedes(x, z)
  BY PrecedesIsTransitive
<1>4. \A x, y \in S : x = y \/ Index!Precedes(x, y) \/ Index!Precedes(y, x)
  BY PrecedesIsTotal
<1>. QED
  BY <1>1, <1>2, <1>3, <1>4 DEF Orders

(* What the range scan rests on: a term that t begins is not before t, *)
LEMMA BegunIsNotBefore ==
    ASSUME NEW t \in Spellings, NEW v \in Spellings, Index!IsPrefix(t, v)
    PROVE  ~ Index!Precedes(v, t)
<1>1. CASE Len(t) < Len(v)
  BY <1>1, PrecedesCases, PrecedesIsStrict
<1>2. CASE Len(t) = Len(v)
  <2>1. t = v
    BY <1>2, SameWord, PrefixMeans
  <2>. QED
    BY <2>1, PrecedesIsStrict
<1>. QED
  BY <1>1, <1>2, PrefixMeans, WordFacts

(* and all terms between t and one that t begins are begun by t. *)
LEMMA BegunLieTogether ==
    ASSUME NEW t \in Spellings, NEW u \in Spellings, NEW v \in Spellings,
           ~ Index!Precedes(u, t), Index!Precedes(u, v), Index!IsPrefix(t, v)
    PROVE  Index!IsPrefix(t, u)
<1>0. Len(t) \in Nat /\ Len(u) \in Nat /\ Len(v) \in Nat
  BY WordFacts
<1>1. CASE u = t
  BY <1>0, <1>1, PrefixMeans
<1>2. CASE Index!Precedes(t, u)
  <2>1. ASSUME NEW i \in 1..Len(t), Diverge(t, u, i) PROVE FALSE
    <3>1. /\ i \in 1..Len(u) /\ t[i] < u[i]
          /\ \A j \in 1..i - 1 : t[j] = u[j]
      BY <2>1 DEF Diverge
    <3>2. Len(t) <= Len(v) /\ \A j \in 1..Len(t) : t[j] = v[j]
      BY PrefixMeans
    <3>3. Diverge(v, u, i)
      BY <1>0, <3>1, <3>2 DEF Diverge
    <3>4. i \in 1..Len(v)
      BY <1>0, <3>2
    <3>. QED
      BY <3>3, <3>4, PrecedesCases, PrecedesIsStrict
  <2>. QED
    BY <1>2, <2>1, PrecedesCases
<1>. QED
  BY <1>1, <1>2, PrecedesIsTotal

-----------------------------------------------------------------------------
(* Terms.                                                                   *)

LEMMA IsWithin ==
    ASSUME NEW w \in Spellings, NEW a \in 0..Len(w), NEW b \in 1..Len(w) + 1, a < b
    PROVE  /\ SubSeq(w, a + 1, b - 1) \in Spellings
           /\ Index!Within(SubSeq(w, a + 1, b - 1), w)
<1>1. Len(w) \in Nat
  BY WordFacts
<1>2. b - 1 \in 0..Len(w) /\ a + 1 \in Int /\ b - 1 \in Int
  BY <1>1
<1>4. \A i \in a + 1..b - 1 : w[i] \in Nat
  <2>1. \A i \in a + 1..b - 1 : i \in 1..Len(w)
    BY <1>1, <1>2
  <2>. QED
    BY <2>1, WordFacts
<1>3. SubSeq(w, a + 1, b - 1) \in Seq(Nat)
  BY <1>2, <1>4, SubSeqProperties
<1>. QED
  BY <1>2, <1>3 DEF Index!Within, Spellings

LEMMA PartsFacts ==
    ASSUME NEW w \in Spellings
    PROVE  /\ Len(Index!Parts(w)) \in Nat /\ DOMAIN Index!Parts(w) = 1..Len(Index!Parts(w))
           /\ \A k \in 1..Len(Index!Parts(w)) :
                 Index!Parts(w)[k] \in Spellings /\ Index!Within(Index!Parts(w)[k], w)
           /\ (\A i \in 1..Len(w) : w[i] # Underscore) =>
                 \A k \in 1..Len(Index!Parts(w)) : Index!Parts(w)[k] = w
<1> DEFINE Cut == {i \in DOMAIN w : w[i] = Underscore} \cup {0, Len(w) + 1}
           cut == Index!Sorted(Cut, Index!Ascending(Cut))
<1>1. Len(w) \in Nat /\ DOMAIN w = 1..Len(w)
  BY WordFacts
<1>2. Cut \in SUBSET (0..Len(w) + 1)
  BY <1>1
<1>3. IsFiniteSet(Cut) /\ Cut \in SUBSET Nat
  <2>1. 0 \in Int /\ Len(w) + 1 \in Int
    BY <1>1
  <2>2. IsFiniteSet(0..Len(w) + 1)
    BY <2>1, FS_Interval
  <2>. QED
    BY <1>1, <1>2, <2>2, FS_Subset
<1>4. Orders(Index!Ascending(Cut), Cut)
  BY <1>3, AscendingOrders
<1>5. IsSorted(cut, Cut, Index!Ascending(Cut))
  BY <1>3, <1>4, SortedIsSorted
<1> DEFINE parts == [k \in 1..Len(cut) - 1 |-> SubSeq(w, cut[k] + 1, cut[k + 1] - 1)]
<1>6. Index!Parts(w) = parts
  BY DEF Index!Parts
<1>7. \A x, y \in Cut : <<x, y>> \in Index!Ascending(Cut) => x < y
  BY DEF Index!Ascending
<1>8. \A i : i \in Cut => i \in 0..Len(w) + 1
  BY <1>2
<1>9. 0 \in Cut /\ ((\A i \in 1..Len(w) : w[i] # Underscore) => Cut = {0, Len(w) + 1})
  BY <1>1
<1>u. 0 # Len(w) + 1 /\ Len(w) + 1 \in Cut
  BY <1>1
<1> HIDE DEF Cut, cut
<1>10. /\ Len(cut) \in Nat
       /\ \A k \in 1..Len(cut) : cut[k] \in Cut
       /\ \A x \in Cut : \E i \in 1..Len(cut) : cut[i] = x
       /\ \A i, j \in 1..Len(cut) : i < j => cut[i] < cut[j]
  BY <1>5, <1>7 DEF IsSorted
<1>v. Len(cut) >= 1
  BY <1>9, <1>10
<1>11. ASSUME NEW k \in 1..Len(cut) - 1
       PROVE  /\ cut[k] \in Cut /\ cut[k + 1] \in Cut /\ cut[k] < cut[k + 1]
              /\ cut[k] \in 0..Len(w) /\ cut[k + 1] \in 1..Len(w) + 1
  <2>1. k \in 1..Len(cut) /\ k + 1 \in 1..Len(cut) /\ k < k + 1
    BY <1>10
  <2>2. cut[k] \in Cut /\ cut[k + 1] \in Cut /\ cut[k] < cut[k + 1]
    BY <1>10, <2>1
  <2>3. cut[k] \in 0..Len(w) + 1 /\ cut[k + 1] \in 0..Len(w) + 1
    BY <1>8, <2>2
  <2>. QED
    BY <1>1, <2>2, <2>3
<1>12. Len(parts) = Len(cut) - 1 /\ Len(parts) \in Nat /\ DOMAIN parts = 1..Len(parts)
  BY <1>10, <1>v
<1>13. ASSUME NEW k \in 1..Len(parts)
       PROVE  parts[k] \in Spellings /\ Index!Within(parts[k], w)
  <2>1. k \in 1..Len(cut) - 1 /\ parts[k] = SubSeq(w, cut[k] + 1, cut[k + 1] - 1)
    BY <1>12
  <2>. QED
    BY <1>11, <2>1, IsWithin
<1>14. ASSUME \A i \in 1..Len(w) : w[i] # Underscore, NEW k \in 1..Len(parts)
       PROVE  parts[k] = w
  <2>1. k \in 1..Len(cut) - 1 /\ parts[k] = SubSeq(w, cut[k] + 1, cut[k + 1] - 1)
    BY <1>12
  <2>2. cut[k] \in {0, Len(w) + 1} /\ cut[k + 1] \in {0, Len(w) + 1} /\ cut[k] < cut[k + 1]
    BY <1>9, <1>11, <1>14, <2>1
  <2>3. cut[k] + 1 = 1 /\ cut[k + 1] - 1 = Len(w)
    BY <1>1, <2>2
  <2>. QED
    BY <2>1, <2>3 DEF Spellings
<1>. QED
  BY <1>6, <1>12, <1>13, <1>14

LEMMA TokenFacts ==
    ASSUME NEW w \in Spellings
    PROVE  /\ IsFiniteSet(Index!Tokens(w)) /\ Index!Tokens(w) \subseteq Nat
           /\ \A k \in Index!Tokens(w) :
                 /\ Index!Token(w, k) \in Spellings /\ Index!Indexable(Index!Token(w, k))
                 /\ Index!Within(Index!Token(w, k), w)
           /\ Index!Indexable(w) => 0 \in Index!Tokens(w) /\ Index!Token(w, 0) = w
           /\ Index!Indexable(w) => \A k \in DOMAIN Index!Parts(w) :
                 Index!Indexable(Index!Parts(w)[k]) =>
                     \E m \in Index!Tokens(w) : Index!Token(w, m) = Index!Parts(w)[k]
<1> DEFINE last == IF \E i \in DOMAIN w : w[i] = Underscore THEN Len(Index!Parts(w)) ELSE 0
<1>1. Index!Tokens(w) =
          {k \in 0..last : Index!Indexable(w) /\ Index!Indexable(Index!Token(w, k))}
  BY DEF Index!Tokens
<1>2. last \in Nat /\ last <= Len(Index!Parts(w)) /\ Len(Index!Parts(w)) \in Nat
      /\ DOMAIN Index!Parts(w) = 1..Len(Index!Parts(w))
  BY PartsFacts
<1>3. Len(w) \in Nat /\ DOMAIN w = 1..Len(w)
  BY WordFacts
<1>4. Index!Token(w, 0) = w /\ \A k \in 1..Len(Index!Parts(w)) : Index!Token(w, k) = Index!Parts(w)[k]
  BY <1>2 DEF Index!Token
<1>5. \/ last = Len(Index!Parts(w))
      \/ last = 0 /\ \A i \in 1..Len(w) : w[i] # Underscore
  BY <1>3
<1> HIDE DEF last
<1>6. IsFiniteSet(Index!Tokens(w)) /\ Index!Tokens(w) \subseteq Nat
  <2>1. 0 \in Int /\ last \in Int
    BY <1>2
  <2>2. IsFiniteSet(0..last)
    BY <2>1, FS_Interval
  <2>3. Index!Tokens(w) \in SUBSET (0..last)
    BY <1>1
  <2>. QED
    BY <1>2, <2>2, <2>3, FS_Subset
<1>7. Index!Within(w, w)
  <2>1. 0 \in 0..Len(w) /\ Len(w) + 1 \in 1..Len(w) + 1 /\ 0 < Len(w) + 1
    BY <1>3
  <2>2. Index!Within(SubSeq(w, 0 + 1, Len(w) + 1 - 1), w)
    BY <2>1, IsWithin
  <2>3. 0 + 1 = 1 /\ Len(w) + 1 - 1 = Len(w)
    BY <1>3
  <2>4. SubSeq(w, 1, Len(w)) = w
    BY DEF Spellings
  <2>. QED
    BY <2>2, <2>3, <2>4
<1>8. ASSUME NEW k \in Index!Tokens(w)
      PROVE  /\ Index!Token(w, k) \in Spellings /\ Index!Indexable(Index!Token(w, k))
             /\ Index!Within(Index!Token(w, k), w)
  <2>1. k \in 0..last /\ Index!Indexable(Index!Token(w, k))
    BY <1>1
  <2>2. k = 0 \/ k \in 1..Len(Index!Parts(w))
    BY <1>2, <2>1
  <2>. QED
    BY <1>4, <1>7, <2>1, <2>2, PartsFacts
<1>9. Index!Indexable(w) => 0 \in Index!Tokens(w)
  BY <1>1, <1>2, <1>4
<1>10. ASSUME Index!Indexable(w), NEW k \in DOMAIN Index!Parts(w), Index!Indexable(Index!Parts(w)[k])
       PROVE  \E m \in Index!Tokens(w) : Index!Token(w, m) = Index!Parts(w)[k]
  <2>1. k \in 1..Len(Index!Parts(w)) /\ Index!Token(w, k) = Index!Parts(w)[k]
    BY <1>2, <1>4
  <2>2. CASE last = Len(Index!Parts(w))
    <3>1. k \in Index!Tokens(w)
      BY <1>1, <1>2, <1>10, <2>1, <2>2
    <3>. QED
      BY <2>1, <3>1
  <2>3. CASE \A i \in 1..Len(w) : w[i] # Underscore
    <3>1. Index!Parts(w)[k] = w
      BY <2>1, <2>3, PartsFacts
    <3>. QED
      BY <1>4, <1>9, <1>10, <3>1
  <2>. QED
    BY <1>5, <2>2, <2>3
<1>. QED
  BY <1>4, <1>6, <1>8, <1>9, <1>10

(* The places of a text. *)
Readings == Seq(Spellings)

LEMMA ReadingFacts ==
    ASSUME NEW text \in Readings
    PROVE  Len(text) \in Nat /\ DOMAIN text = 1..Len(text)
           /\ \A i \in DOMAIN text : text[i] \in Spellings
BY LenProperties, ElementOfSeq DEF Readings

(* Where words begin, and what they are. *)
Chars(text) == {text[i] : i \in DOMAIN text}

LEMMA RunFacts ==
    ASSUME NEW text \in Spellings, NEW C, NEW i, NEW j
    PROVE  <<i, j>> \in Index!Runs(text, C) <=>
               /\ i \in 1..Len(text) /\ j \in 1..Len(text) /\ i <= j
               /\ \A k \in i..j : text[k] \in C
               /\ i - 1 \in 1..Len(text) => text[i - 1] \notin C
               /\ j + 1 \in 1..Len(text) => text[j + 1] \notin C
<1>1. DOMAIN text = 1..Len(text)
  BY WordFacts
<1>. QED
  BY <1>1, Zenon DEF Index!Runs

LEMMA RunIsPair ==
    ASSUME NEW text \in Spellings, NEW C, NEW r \in Index!Runs(text, C)
    PROVE  r = <<r[1], r[2]>>
BY DEF Index!Runs

LEMMA RunEndsOnce ==
    ASSUME NEW text \in Spellings, NEW C, NEW i, NEW j, NEW k,
           <<i, j>> \in Index!Runs(text, C), <<i, k>> \in Index!Runs(text, C)
    PROVE  ~ j < k
<1> SUFFICES ASSUME j < k PROVE FALSE
  OBVIOUS
<1>1. /\ Len(text) \in Nat /\ i \in 1..Len(text) /\ j \in 1..Len(text) /\ k \in 1..Len(text)
      /\ i <= j
  BY RunFacts, WordFacts
<1>2. j + 1 \in i..k /\ j + 1 \in 1..Len(text)
  BY <1>1
<1>3. text[j + 1] \in C /\ text[j + 1] \notin C
  BY <1>2, RunFacts
<1>. QED
  BY <1>3

(* SubSeq, with the places counted as in Within. *)
LEMMA SliceFacts ==
    ASSUME NEW w \in Spellings, NEW i \in 0..Len(w), NEW j \in 0..Len(w)
    PROVE  /\ SubSeq(w, i + 1, j) \in Spellings
           /\ j <= i => Len(SubSeq(w, i + 1, j)) = 0
           /\ i <= j => /\ Len(SubSeq(w, i + 1, j)) = j - i
                        /\ \A k \in 1..j - i : SubSeq(w, i + 1, j)[k] = w[i + k]
<1>1. Len(w) \in Nat /\ i \in Nat /\ j \in Nat /\ i + 1 \in Int /\ j \in Int
  BY WordFacts
<1>2. \A k \in i + 1..j : w[k] \in Nat
  <2>1. \A k \in i + 1..j : k \in 1..Len(w)
    BY <1>1
  <2>. QED
    BY <2>1, WordFacts
<1>3. /\ SubSeq(w, i + 1, j) \in Seq(Nat)
      /\ Len(SubSeq(w, i + 1, j)) = IF i + 1 <= j THEN j - (i + 1) + 1 ELSE 0
      /\ \A k \in 1..j - (i + 1) + 1 : SubSeq(w, i + 1, j)[k] = w[(i + 1) + k - 1]
  BY <1>1, <1>2, SubSeqProperties
<1>4. j - (i + 1) + 1 = j - i /\ \A k \in 1..j - i : (i + 1) + k - 1 = i + k
  BY <1>1
<1>5. i <= j => Len(SubSeq(w, i + 1, j)) = j - i
  BY <1>1, <1>3
<1>6. j <= i => Len(SubSeq(w, i + 1, j)) = 0
  BY <1>1, <1>3
<1>. QED
  BY <1>3, <1>4, <1>5, <1>6 DEF Spellings

LEMMA WithinWithin ==
    ASSUME NEW v \in Spellings, NEW w \in Spellings, NEW z \in Spellings,
           Index!Within(v, w), Index!Within(w, z)
    PROVE  Index!Within(v, z)
<1>1. PICK a \in 0..Len(w), b \in 0..Len(w) : v = SubSeq(w, a + 1, b)
  BY DEF Index!Within
<1>2. PICK c \in 0..Len(z), e \in 0..Len(z) : w = SubSeq(z, c + 1, e)
  BY DEF Index!Within
<1>3. /\ Len(v) \in Nat /\ Len(w) \in Nat /\ Len(z) \in Nat
      /\ a \in Nat /\ b \in Nat /\ c \in Nat /\ e \in Nat /\ b <= Len(w) /\ e <= Len(z)
  BY WordFacts
<1>4. CASE b <= a
  <2>1. Len(v) = 0
    BY <1>1, <1>4, SliceFacts
  <2>2. 0 \in 0..Len(z) /\ 0 <= 0
    BY <1>3
  <2>3. SubSeq(z, 0 + 1, 0) \in Spellings /\ Len(SubSeq(z, 0 + 1, 0)) = 0
    BY <2>2, SliceFacts
  <2>4. \A k \in 1..Len(v) : v[k] = SubSeq(z, 0 + 1, 0)[k]
    BY <2>1
  <2>5. v = SubSeq(z, 0 + 1, 0)
    BY <2>1, <2>3, <2>4, SameWord
  <2>. QED
    BY <2>2, <2>5 DEF Index!Within
<1>5. CASE a < b
  <2>1. a <= b /\ Len(v) = b - a /\ \A k \in 1..b - a : v[k] = w[a + k]
    BY <1>1, <1>3, <1>5, SliceFacts
  <2>2. c <= e
    <3> SUFFICES ASSUME e < c PROVE FALSE
      BY <1>3
    <3>1. Len(w) = 0
      BY <1>2, <1>3, SliceFacts
    <3>. QED
      BY <1>3, <1>5, <3>1
  <2>3. Len(w) = e - c /\ \A k \in 1..e - c : w[k] = z[c + k]
    BY <1>2, <2>2, SliceFacts
  <2>4. PICK x, y : x = c + a /\ y = c + b
    OBVIOUS
  <2>5. x \in 0..Len(z) /\ y \in 0..Len(z) /\ x <= y /\ y - x = b - a
    BY <1>3, <2>1, <2>2, <2>3, <2>4
  <2>6. /\ SubSeq(z, x + 1, y) \in Spellings /\ Len(SubSeq(z, x + 1, y)) = y - x
        /\ \A k \in 1..y - x : SubSeq(z, x + 1, y)[k] = z[x + k]
    BY <2>5, SliceFacts
  <2>7. \A k \in 1..b - a : a + k \in 1..e - c /\ c + (a + k) = x + k
    BY <1>3, <2>1, <2>2, <2>3, <2>4
  <2>8. PICK u : u = SubSeq(z, x + 1, y)
    OBVIOUS
  <2>9. u \in Spellings /\ Len(u) = Len(v) /\ \A k \in 1..b - a : u[k] = z[x + k]
    BY <2>1, <2>5, <2>6, <2>8
  <2>10. \A k \in 1..b - a : v[k] = z[x + k]
    <3> SUFFICES ASSUME NEW k \in 1..b - a PROVE v[k] = z[x + k]
      OBVIOUS
    <3>1. v[k] = w[a + k]
      BY <2>1
    <3>2. w[a + k] = z[c + (a + k)]
      BY <2>3, <2>7
    <3>. QED
      BY <2>7, <3>1, <3>2
  <2>11. \A k \in 1..Len(v) : v[k] = u[k]
    BY <2>1, <2>9, <2>10
  <2>12. v = SubSeq(z, x + 1, y)
    BY <2>8, <2>9, <2>11, SameWord
  <2>. QED
    BY <2>5, <2>12 DEF Index!Within
<1>. QED
  BY <1>3, <1>4, <1>5

LEMMA WithinIsNotLonger ==
    ASSUME NEW v \in Spellings, NEW w \in Spellings, Index!Within(v, w)
    PROVE  Len(v) <= Len(w)
<1>1. PICK a \in 0..Len(w), b \in 0..Len(w) : v = SubSeq(w, a + 1, b)
  BY DEF Index!Within
<1>2. Len(v) \in Nat /\ Len(w) \in Nat /\ a \in Nat /\ b \in Nat /\ b <= Len(w)
  BY WordFacts
<1>3. Len(v) = 0 \/ Len(v) = b - a
  <2>1. CASE b <= a
    BY <1>1, <2>1, SliceFacts
  <2>2. CASE a <= b
    BY <1>1, <2>2, SliceFacts
  <2>. QED
    BY <1>2, <2>1, <2>2
<1>. QED
  BY <1>2, <1>3

LEMMA RunIsWord ==
    ASSUME NEW text \in Spellings, NEW i, NEW j, <<i, j>> \in Index!Runs(text, Wordly)
    PROVE  i \in Index!Starts(text) /\ Index!WordAt(text, i) = SubSeq(text, i, j)
<1>1. i \in Index!Starts(text)
  <2>1. <<i, j>>[1] = i
    OBVIOUS
  <2>. QED
    BY <2>1 DEF Index!Starts
<1>2. j \in DOMAIN text /\ j \in Nat
  BY RunFacts, WordFacts
<1>3. PICK k : k = CHOOSE m \in DOMAIN text : <<i, m>> \in Index!Runs(text, Wordly)
  OBVIOUS
<1>4. k \in DOMAIN text /\ <<i, k>> \in Index!Runs(text, Wordly)
  BY <1>2, <1>3
<1>5. k = j
  <2>1. k \in Nat /\ ~ j < k /\ ~ k < j
    BY <1>4, RunEndsOnce, WordFacts
  <2>. QED
    BY <1>2, <2>1
<1>. QED
  BY <1>1, <1>3, <1>5 DEF Index!WordAt

LEMMA StartFacts ==
    ASSUME NEW text \in Spellings
    PROVE  /\ IsFiniteSet(Index!Starts(text)) /\ Index!Starts(text) \subseteq Nat
           /\ \A i \in Index!Starts(text) : Index!WordAt(text, i) \in Spellings
           /\ \A i \in Index!Starts(text) : Index!Within(Index!WordAt(text, i), text)
<1>1. Len(text) \in Nat /\ DOMAIN text = 1..Len(text)
  BY WordFacts
<1>2. ASSUME NEW i \in Index!Starts(text)
      PROVE  /\ i \in 1..Len(text)
             /\ Index!WordAt(text, i) \in Spellings
             /\ Index!Within(Index!WordAt(text, i), text)
  <2>1. PICK r \in Index!Runs(text, Wordly) : r[1] = i
    BY DEF Index!Starts
  <2>2. PICK j : j = r[2]
    OBVIOUS
  <2>3. <<i, j>> \in Index!Runs(text, Wordly)
    BY <2>1, <2>2, RunIsPair
  <2>4. i \in 1..Len(text) /\ j \in 1..Len(text)
    BY <2>3, RunFacts
  <2>5. PICK h : h = i - 1
    OBVIOUS
  <2>6. h \in 0..Len(text) /\ j \in 0..Len(text) /\ h + 1 = i
    BY <1>1, <2>4, <2>5
  <2>7. Index!WordAt(text, i) = SubSeq(text, h + 1, j)
    BY <2>3, <2>6, RunIsWord
  <2>. QED
    BY <2>4, <2>6, <2>7, SliceFacts DEF Index!Within
<1>3. IsFiniteSet(1..Len(text))
  BY <1>1, FS_Interval
<1>4. Index!Starts(text) \in SUBSET (1..Len(text))
  BY <1>2
<1>. QED
  BY <1>1, <1>2, <1>3, <1>4, FS_Subset

LEMMA PlaceFacts ==
    ASSUME NEW text \in Spellings
    PROVE  /\ \A x : x \in Index!Places(text) <=>
                 \E i \in Index!Starts(text) : \E k \in Index!Tokens(Index!WordAt(text, i)) : x = <<i, k>>
           /\ IsFiniteSet(Index!Places(text))
           /\ Index!Places(text) \subseteq Nat \X Nat
<1>1. ASSUME NEW x
      PROVE  x \in Index!Places(text) <=>
                 \E i \in Index!Starts(text) : \E k \in Index!Tokens(Index!WordAt(text, i)) : x = <<i, k>>
  <2>1. x \in Index!Places(text) <=> \E i \in Index!Starts(text) : x \in {i} \X Index!Tokens(Index!WordAt(text, i))
    BY DEF Index!Places
  <2>2. \A i \in Index!Starts(text) : x \in {i} \X Index!Tokens(Index!WordAt(text, i)) <=>
                                   \E k \in Index!Tokens(Index!WordAt(text, i)) : x = <<i, k>>
    OBVIOUS
  <2>. QED
    BY <2>1, <2>2
<1>2. IsFiniteSet(Index!Places(text))
  <2> DEFINE at1 == [i \in Index!Starts(text) |-> {i} \X Index!Tokens(Index!WordAt(text, i))]
             all == {at1[i] : i \in Index!Starts(text)}
  <2>1. IsFiniteSet(Index!Starts(text))
    BY StartFacts
  <2>2. at1 \in Surjection(Index!Starts(text), all)
    BY DEF Surjection
  <2>3. IsFiniteSet(all)
    BY <2>1, <2>2, FS_Surjection
  <2>4. \A i \in Index!Starts(text) : IsFiniteSet({i} \X Index!Tokens(Index!WordAt(text, i)))
    BY StartFacts, TokenFacts, FS_Singleton, FS_Product
  <2>5. \A T \in all : IsFiniteSet(T)
    BY <2>4
  <2>6. UNION all = Index!Places(text)
    BY DEF Index!Places
  <2> HIDE DEF all
  <2>. QED
    BY <2>3, <2>5, <2>6, FS_UNION
<1>3. Index!Places(text) \subseteq Nat \X Nat
  <2> SUFFICES ASSUME NEW x \in Index!Places(text) PROVE x \in Nat \X Nat
    OBVIOUS
  <2>0. PICK i \in Index!Starts(text) : \E k \in Index!Tokens(Index!WordAt(text, i)) : x = <<i, k>>
    BY <1>1
  <2>1. PICK k \in Index!Tokens(Index!WordAt(text, i)) : x = <<i, k>>
    BY <2>0
  <2>2. i \in Nat /\ k \in Nat
    BY StartFacts, TokenFacts
  <2>. QED
    BY <2>1, <2>2
<1>. QED
  BY <1>1, <1>2, <1>3

LEMMA TermAt ==
    ASSUME NEW text \in Spellings, NEW x \in Index!Places(text)
    PROVE  /\ Index!Term(text, x) \in Spellings /\ Index!Indexable(Index!Term(text, x))
           /\ \E j \in Index!Starts(text) : Index!Within(Index!Term(text, x), Index!WordAt(text, j))
<1>0. PICK i \in Index!Starts(text) : \E k \in Index!Tokens(Index!WordAt(text, i)) : x = <<i, k>>
  BY PlaceFacts
<1>1. PICK k \in Index!Tokens(Index!WordAt(text, i)) : x = <<i, k>>
  BY <1>0
<1>2. Index!Term(text, x) = Index!Token(Index!WordAt(text, i), k)
  BY <1>1 DEF Index!Term
<1>3. Index!WordAt(text, i) \in Spellings
  BY StartFacts
<1>. QED
  BY <1>2, <1>3, TokenFacts

LEMMA TermsFacts ==
    ASSUME NEW text \in Spellings
    PROVE  /\ IsFiniteSet(Index!Terms(text))
           /\ Index!Terms(text) \subseteq Spellings
           /\ \A t \in Index!Terms(text) : Index!Indexable(t)
           /\ \A t \in Index!Terms(text) : \E j \in Index!Starts(text) : Index!Within(t, Index!WordAt(text, j))
<1> DEFINE term == [x \in Index!Places(text) |-> Index!Term(text, x)]
<1>1. term \in Surjection(Index!Places(text), Index!Terms(text))
  BY DEF Index!Terms, Surjection
<1>2. IsFiniteSet(Index!Terms(text))
  BY <1>1, PlaceFacts, FS_Surjection
<1>3. \A t \in Index!Terms(text) : \E x \in Index!Places(text) : t = Index!Term(text, x)
  BY DEF Index!Terms
<1>. QED
  BY <1>2, <1>3, TermAt

LEMMA CountFacts ==
    ASSUME NEW text \in Spellings, NEW t
    PROVE  /\ Index!Count(text, t) \in Nat
           /\ Index!Count(text, t) > 0 <=> t \in Index!Terms(text)
<1> DEFINE S == {x \in Index!Places(text) : Index!Term(text, x) = t}
<1>1. IsFiniteSet(S)
  BY PlaceFacts, FS_Subset, S \in SUBSET Index!Places(text)
<1>2. Index!Count(text, t) = Cardinality(S)
  BY DEF Index!Count, Index!Cardinality, Cardinality
<1>3. S # {} <=> t \in Index!Terms(text)
  BY DEF Index!Terms
<1> HIDE DEF S
<1>. QED
  BY <1>1, <1>2, <1>3, FS_CardinalityType, FS_EmptySet

(* Every word that is not too long, and every part of it, is a term. *)
LEMMA OwnTerms ==
    ASSUME NEW text \in Spellings, NEW i \in Index!Starts(text), Index!Indexable(Index!WordAt(text, i))
    PROVE  /\ Index!WordAt(text, i) \in Index!Terms(text)
           /\ \A k \in DOMAIN Index!Parts(Index!WordAt(text, i)) :
                 Index!Indexable(Index!Parts(Index!WordAt(text, i))[k]) =>
                     Index!Parts(Index!WordAt(text, i))[k] \in Index!Terms(text)
<1>1. Index!WordAt(text, i) \in Spellings
  BY StartFacts
<1>2. ASSUME NEW m \in Index!Tokens(Index!WordAt(text, i))
      PROVE  Index!Token(Index!WordAt(text, i), m) \in Index!Terms(text)
  <2>1. <<i, m>> \in Index!Places(text)
    BY PlaceFacts
  <2>2. Index!Term(text, <<i, m>>) = Index!Token(Index!WordAt(text, i), m)
    BY DEF Index!Term
  <2>. QED
    BY <2>1, <2>2 DEF Index!Terms
<1>3. Index!WordAt(text, i) \in Index!Terms(text)
  BY <1>1, <1>2, TokenFacts
<1>4. ASSUME NEW k \in DOMAIN Index!Parts(Index!WordAt(text, i)), Index!Indexable(Index!Parts(Index!WordAt(text, i))[k])
      PROVE  Index!Parts(Index!WordAt(text, i))[k] \in Index!Terms(text)
  <2>1. PICK m \in Index!Tokens(Index!WordAt(text, i)) : Index!Token(Index!WordAt(text, i), m) = Index!Parts(Index!WordAt(text, i))[k]
    BY <1>1, <1>4, TokenFacts
  <2>. QED
    BY <1>2, <2>1
<1>. QED
  BY <1>3, <1>4

LEMMA OnwardOrders ==
    ASSUME NEW S \in SUBSET (Nat \X Nat)
    PROVE  Orders(Index!Onward(S), S)
<1> DEFINE Before1(x, y) == x[1] < y[1] \/ (x[1] = y[1] /\ x[2] < y[2])
<1>1. \A x, y \in S : <<x, y>> \in Index!Onward(S) <=> Before1(x, y)
  BY DEF Index!Onward
<1>2. \A x \in S : x[1] \in Nat /\ x[2] \in Nat /\ x = <<x[1], x[2]>>
  OBVIOUS
<1>3. \A x \in S : ~ Before1(x, x)
  BY <1>2
<1>4. \A x, y, z \in S : Before1(x, y) /\ Before1(y, z) => Before1(x, z)
  <2> SUFFICES ASSUME NEW x \in S, NEW y \in S, NEW z \in S, Before1(x, y), Before1(y, z)
               PROVE  Before1(x, z)
    OBVIOUS
  <2>1. x[1] \in Nat /\ x[2] \in Nat /\ y[1] \in Nat /\ y[2] \in Nat /\ z[1] \in Nat /\ z[2] \in Nat
    BY <1>2
  <2>. QED
    BY <2>1
<1>5. \A x, y \in S : x = y \/ Before1(x, y) \/ Before1(y, x)
  <2> SUFFICES ASSUME NEW x \in S, NEW y \in S, ~ Before1(x, y), ~ Before1(y, x)
               PROVE  x = y
    OBVIOUS
  <2>1. x[1] \in Nat /\ x[2] \in Nat /\ y[1] \in Nat /\ y[2] \in Nat
    BY <1>2
  <2>2. x[1] = y[1] /\ x[2] = y[2]
    BY <2>1
  <2>. QED
    BY <1>2, <2>2
<1> HIDE DEF Before1
<1>. QED
  BY <1>1, <1>3, <1>4, <1>5 DEF Orders

(* Tokenize gives all the terms of a text, and nothing else. *)
LEMMA TokenizeGivesTerms ==
    ASSUME NEW text \in Spellings
    PROVE  /\ Index!Tokenize(text) \in Readings
           /\ \A t : t \in Index!Terms(text) <=>
                 \E i \in 1..Len(Index!Tokenize(text)) : Index!Tokenize(text)[i] = t
<1> DEFINE S == Index!Places(text)
           at1 == Index!Sorted(S, Index!Onward(S))
           tokens == [i \in DOMAIN at1 |-> Index!Term(text, at1[i])]
<1>1. IsSorted(at1, S, Index!Onward(S))
  <2>1. IsFiniteSet(S) /\ S \in SUBSET (Nat \X Nat)
    BY PlaceFacts
  <2>2. Orders(Index!Onward(S), S)
    BY <2>1, OnwardOrders
  <2>. QED
    BY <2>1, <2>2, SortedIsSorted
<1>2. Index!Tokenize(text) = tokens
  BY DEF Index!Tokenize
<1> HIDE DEF S, at1
<1>3. /\ Len(at1) \in Nat /\ DOMAIN at1 = 1..Len(at1)
      /\ \A i \in 1..Len(at1) : at1[i] \in Index!Places(text)
      /\ \A x \in Index!Places(text) : \E i \in 1..Len(at1) : at1[i] = x
  BY <1>1 DEF IsSorted, S
<1>4. tokens \in [1..Len(at1) -> Spellings]
  BY <1>3, TermAt
<1>5. tokens \in Readings /\ Len(tokens) = Len(at1)
  BY <1>3, <1>4 DEF Readings
<1>6. ASSUME NEW t
      PROVE  t \in Index!Terms(text) <=> \E i \in 1..Len(tokens) : tokens[i] = t
  <2>1. t \in Index!Terms(text) <=> \E x \in Index!Places(text) : t = Index!Term(text, x)
    BY DEF Index!Terms
  <2>2. \A i \in 1..Len(at1) : tokens[i] = Index!Term(text, at1[i])
    BY <1>3
  <2> HIDE DEF tokens
  <2>. QED
    BY <1>3, <1>5, <2>1, <2>2
<1>. QED
  BY <1>2, <1>5, <1>6

LEMMA BegunIsWithin ==
    ASSUME NEW t \in Spellings, NEW u \in Spellings, NEW w \in Spellings,
           Index!IsPrefix(t, u), Index!Within(u, w)
    PROVE  Index!Within(t, w)
<1>1. PICK i \in 0..Len(w), j \in 0..Len(w) : u = SubSeq(w, i + 1, j)
  BY DEF Index!Within
<1>2. Len(t) \in Nat /\ Len(u) \in Nat /\ Len(w) \in Nat /\ i \in Nat /\ j \in Nat
  BY WordFacts
<1>3. /\ Len(t) <= Len(u) /\ \A k \in 1..Len(t) : t[k] = u[k]
  BY PrefixMeans
<1>4. \A m \in 0..Len(w) : /\ i + 1 \in Int /\ m \in Int
                             /\ \A k \in i + 1..m : w[k] \in Nat
  <2>1. \A m \in 0..Len(w) : i + 1 \in Int /\ m \in Int /\ \A k \in i + 1..m : k \in 1..Len(w)
    BY <1>2
  <2>. QED
    BY <2>1, WordFacts
<1>5. CASE i + 1 <= j
  <2>1. Len(u) = j - i /\ \A k \in 1..Len(u) : u[k] = w[i + k]
    <3>1. Len(u) = j - (i + 1) + 1 /\ \A k \in 1..j - (i + 1) + 1 : u[k] = w[(i + 1) + k - 1]
      BY <1>1, <1>2, <1>4, <1>5, SubSeqProperties
    <3>2. j - (i + 1) + 1 = j - i /\ \A k \in 1..j - i : (i + 1) + k - 1 = i + k
      BY <1>2
    <3>. QED
      BY <3>1, <3>2
  <2> DEFINE m == i + Len(t)
             v == SubSeq(w, i + 1, m)
  <2>2. m \in 0..Len(w) /\ m <= j
    BY <1>2, <1>3, <2>1
  <2>3. v \in Spellings /\ Len(v) = Len(t) /\ \A k \in 1..Len(t) : v[k] = w[i + k]
    <3>1. CASE Len(t) = 0
      <4>1. v = << >>
        BY <1>2, <1>4, <3>1, SubSeqProperties
      <4>. QED
        BY <1>2, <3>1, <4>1 DEF Spellings
    <3>2. CASE Len(t) # 0
      <4>1. i + 1 \in 1..Len(w) + 1 /\ i + 1 <= m
        BY <1>2, <3>2
      <4>2. v \in Seq(Nat) /\ Len(v) = m - (i + 1) + 1
            /\ \A k \in 1..m - (i + 1) + 1 : v[k] = w[(i + 1) + k - 1]
        BY <1>2, <1>4, <2>2, <4>1, SubSeqProperties
      <4>3. m - (i + 1) + 1 = Len(t) /\ \A k \in 1..Len(t) : (i + 1) + k - 1 = i + k
        BY <1>2
      <4>. QED
        BY <4>2, <4>3 DEF Spellings
    <3>. QED
      BY <3>1, <3>2
  <2>4. \A k \in 1..Len(t) : k \in 1..Len(u)
    BY <1>2, <1>3
  <2>5. \A k \in 1..Len(t) : t[k] = v[k]
    BY <1>3, <2>1, <2>3, <2>4
  <2> HIDE DEF v, m
  <2>6. t = v
    BY <2>3, <2>5, SameWord
  <2>. QED
    BY <2>2, <2>6 DEF v, Index!Within
<1>6. CASE j < i + 1
  <2>1. Len(u) = 0
    BY <1>1, <1>2, <1>4, <1>6, SubSeqProperties
  <2>2. Len(t) = 0 /\ \A k \in 1..Len(t) : t[k] = u[k]
    BY <1>2, <1>3, <2>1
  <2>3. t = u
    BY <2>1, <2>2, SameWord
  <2>. QED
    BY <2>3
<1>. QED
  BY <1>2, <1>5, <1>6

-----------------------------------------------------------------------------
(* Build: what has been read is counted, and nothing else.                  *)

Body(d) == Index!Text(docs[d])

(* Documents are different files, and text. *)
Files ==
    /\ tree \in Trees /\ next \in 1..Len(tree) + 1
    /\ docs \in Seq(Nat)
    /\ \A d \in 1..Len(docs) :
          /\ docs[d] \in DOMAIN tree /\ docs[d] < next /\ tree[docs[d]].kind = "text"
    /\ \A c, d \in 1..Len(docs) : docs[c] = docs[d] => c = d

Counts ==
    /\ IsFiniteSet(DOMAIN freqs)
    /\ \A t : t \in DOMAIN freqs <=> \E d \in 1..Len(docs) : t \in Index!Terms(Body(d))
    /\ \A t \in DOMAIN freqs :
          /\ \A d : d \in DOMAIN freqs[t] <=> d \in 1..Len(docs) /\ t \in Index!Terms(Body(d))
          /\ \A d \in DOMAIN freqs[t] : freqs[t][d] = Index!Count(Body(d), t)

(* The postings of a term: each document that has it once, in order. *)
Posted(t, list) ==
    /\ DOMAIN list \subseteq Nat
    /\ \A k \in DOMAIN list : \E d \in 1..Len(docs) :
          /\ list[k].doc = d /\ t \in Index!Terms(Body(d))
          /\ list[k].freq = Index!Count(Body(d), t)
    /\ \A d \in 1..Len(docs) : t \in Index!Terms(Body(d)) =>
          \E k \in DOMAIN list : list[k].doc = d
    /\ \A k, l \in DOMAIN list : k < l => list[k].doc < list[l].doc

InOrder(ts, ps) ==
    /\ ts \in Readings /\ DOMAIN ps = 1..Len(ts)
    /\ \A i, j \in 1..Len(ts) : i < j => Index!Precedes(ts[i], ts[j])
    /\ \A t : (\E d \in 1..Len(docs) : t \in Index!Terms(Body(d))) <=>
                 \E i \in 1..Len(ts) : ts[i] = t
    /\ \A i \in 1..Len(ts) : Posted(ts[i], ps[i])

Searchable == InOrder(iTerms, iPostings)

LEMMA FileFacts ==
    ASSUME tree \in Trees
    PROVE  /\ Len(tree) \in Nat /\ DOMAIN tree = 1..Len(tree)
           /\ \A f \in DOMAIN tree :
                 /\ tree[f] \in File /\ tree[f].selector \in Nat
                 /\ Index!Text(f) \in Spellings
           /\ \A f, g \in DOMAIN tree : tree[f].selector = tree[g].selector => f = g
<1>1. tree \in Seq(File)
  BY TreesAssumption
<1>2. Len(tree) \in Nat /\ DOMAIN tree = 1..Len(tree) /\ \A f \in DOMAIN tree : tree[f] \in File
  BY <1>1, LenProperties, ElementOfSeq
<1>3. \A x \in File : x.selector \in Nat /\ x.text \in Spellings
  BY DEF File
<1>5. \A f \in DOMAIN tree : Index!Text(f) \in Spellings
  BY <1>2, <1>3 DEF Index!Text
<1>. QED
  BY <1>2, <1>3, <1>5, TreesAssumption

LEMMA BodyFacts ==
    ASSUME Files
    PROVE  /\ Len(docs) \in Nat /\ DOMAIN docs = 1..Len(docs)
           /\ \A d \in 1..Len(docs) : Body(d) \in Spellings
BY FileFacts, LenProperties DEF Files, Body

LEMMA ReadCounts ==
    ASSUME Files, Counts, next \in DOMAIN tree, tree[next].kind = "text",
           tree' = tree, next' = next + 1, docs' = Append(docs, next),
           freqs' = Index!Added(Index!Text(next), Len(docs) + 1)
    PROVE  Files' /\ Counts'
<1>0. PICK text, id : text = Index!Text(next) /\ id = Len(docs) + 1
  OBVIOUS
<1>1. /\ Len(docs) \in Nat /\ DOMAIN docs = 1..Len(docs) /\ next \in Nat
      /\ Len(tree) \in Nat /\ DOMAIN tree = 1..Len(tree) /\ text \in Spellings
  BY <1>0, BodyFacts, FileFacts DEF Files
<1>2. /\ docs' \in Seq(Nat) /\ Len(docs') = id /\ docs'[id] = next
      /\ \A d \in 1..Len(docs) : docs'[d] = docs[d]
  BY <1>0, <1>1, AppendProperties DEF Files
<1>3. /\ \A d : d \in 1..id <=> d \in 1..Len(docs) \/ d = id
      /\ id \notin 1..Len(docs) /\ id \in Nat
  BY <1>0, <1>1
<1>4. Files'
  <2>1. next' \in 1..Len(tree') + 1
    BY <1>1
  <2>2. \A d \in 1..id : /\ docs'[d] \in DOMAIN tree' /\ docs'[d] < next'
                         /\ tree'[docs'[d]].kind = "text"
    <3> SUFFICES ASSUME NEW d \in 1..id
                 PROVE  /\ docs'[d] \in DOMAIN tree /\ docs'[d] < next + 1
                        /\ tree[docs'[d]].kind = "text"
      OBVIOUS
    <3>1. CASE d \in 1..Len(docs)
      <4>1. docs'[d] = docs[d] /\ docs[d] \in DOMAIN tree /\ docs[d] < next
            /\ tree[docs[d]].kind = "text"
        BY <1>2, <3>1 DEF Files
      <4>. QED
        BY <1>1, <4>1
    <3>2. CASE d = id
      BY <1>1, <1>2, <3>2
    <3>. QED
      BY <1>3, <3>1, <3>2
  <2>3. \A c, d \in 1..id : docs'[c] = docs'[d] => c = d
    <3>1. \A d \in 1..Len(docs) : docs'[d] # next
      BY <1>1, <1>2 DEF Files
    <3>2. \A c, d \in 1..Len(docs) : docs'[c] = docs'[d] => c = d
      BY <1>2 DEF Files
    <3>. QED
      BY <1>2, <1>3, <3>1, <3>2
  <2>. QED
    BY <1>2, <2>1, <2>2, <2>3 DEF Files
<1>5. /\ Body(id)' = text
      /\ \A d \in 1..Len(docs) : Body(d)' = Body(d)
  BY <1>0, <1>2 DEF Body, Index!Text
<1>6. \A t : \A d : d \in Index!Having(t) <=> d \in 1..Len(docs) /\ t \in Index!Terms(Body(d))
  BY <1>1 DEF Index!Having, Counts
<1>7. freqs' =
          [t \in DOMAIN freqs \cup Index!Terms(text) |->
              [d \in Index!Having(t) \cup {c \in {id} : t \in Index!Terms(text)} |->
                  IF d = id THEN Index!Count(text, t) ELSE freqs[t][d]]]
  BY <1>0 DEF Index!Added
<1>8. DOMAIN freqs' = DOMAIN freqs \cup Index!Terms(text)
  BY <1>7
<1>9. \A t \in DOMAIN freqs' :
          freqs'[t] = [d \in Index!Having(t) \cup {c \in {id} : t \in Index!Terms(text)} |->
                          IF d = id THEN Index!Count(text, t) ELSE freqs[t][d]]
  BY <1>7, <1>8
<1>10. IsFiniteSet(DOMAIN freqs')
  <2>1. IsFiniteSet(DOMAIN freqs)
    BY DEF Counts
  <2>2. IsFiniteSet(Index!Terms(text))
    BY <1>1, TermsFacts
  <2>3. IsFiniteSet(DOMAIN freqs \cup Index!Terms(text))
    BY <2>1, <2>2, FS_Union
  <2>. QED
    BY <1>8, <2>3
<1>11. ASSUME NEW t
       PROVE  t \in DOMAIN freqs' <=> \E d \in 1..id : t \in Index!Terms(Body(d)')
  BY <1>3, <1>5, <1>8 DEF Counts
<1>12. ASSUME NEW t \in DOMAIN freqs'
       PROVE  /\ \A d : d \in DOMAIN freqs'[t] <=> d \in 1..id /\ t \in Index!Terms(Body(d)')
              /\ \A d \in DOMAIN freqs'[t] : freqs'[t][d] = Index!Count(Body(d)', t)
  <2>0. PICK S : S = Index!Having(t) \cup {c \in {id} : t \in Index!Terms(text)}
    OBVIOUS
  <2>a. freqs'[t] = [d \in S |-> IF d = id THEN Index!Count(text, t) ELSE freqs[t][d]]
    BY <1>9, <2>0
  <2>1. DOMAIN freqs'[t] = Index!Having(t) \cup {c \in {id} : t \in Index!Terms(text)}
    BY <2>0, <2>a
  <2>2. \A d \in DOMAIN freqs'[t] :
            freqs'[t][d] = IF d = id THEN Index!Count(text, t) ELSE freqs[t][d]
    BY <2>a
  <2>3. ASSUME NEW d
        PROVE  d \in DOMAIN freqs'[t] <=> d \in 1..id /\ t \in Index!Terms(Body(d)')
    BY <1>3, <1>5, <1>6, <2>1
  <2>4. ASSUME NEW d \in DOMAIN freqs'[t]
        PROVE  freqs'[t][d] = Index!Count(Body(d)', t)
    <3>1. CASE d = id
      BY <1>5, <2>2, <3>1
    <3>2. CASE d # id
      <4>1. d \in 1..Len(docs) /\ d \in Index!Having(t) /\ Body(d)' = Body(d)
        BY <1>5, <1>6, <2>1, <3>2
      <4>2. t \in DOMAIN freqs /\ d \in DOMAIN freqs[t]
        BY <4>1 DEF Index!Having
      <4>. QED
        BY <2>2, <3>2, <4>1, <4>2 DEF Counts
    <3>. QED
      BY <3>1, <3>2
  <2>. QED
    BY <2>3, <2>4
<1>13. Counts'
  <2>1. \A t : Index!Terms(t)' = Index!Terms(t)
    OBVIOUS
  <2>. QED
    BY <1>2, <1>10, <1>11, <1>12 DEF Counts
<1>. QED
  BY <1>4, <1>13

LEMMA PostingsArePosted ==
    ASSUME NEW S, S \in SUBSET Nat, IsFiniteSet(S), NEW t, NEW freq,
           \A d : d \in S <=> d \in 1..Len(docs) /\ t \in Index!Terms(Body(d)),
           \A d \in S : freq[d] = Index!Count(Body(d), t),
           NEW ids, IsSorted(ids, S, Index!Ascending(S))
    PROVE  Posted(t, [k \in DOMAIN ids |-> [doc |-> ids[k], freq |-> freq[ids[k]]]])
<1>1. PICK list : list = [k \in DOMAIN ids |-> [doc |-> ids[k], freq |-> freq[ids[k]]]]
  OBVIOUS
<1>2. \A x, y \in S : <<x, y>> \in Index!Ascending(S) => x < y
  BY DEF Index!Ascending
<1>3. /\ Len(ids) \in Nat /\ DOMAIN ids = 1..Len(ids)
      /\ \A k \in 1..Len(ids) : ids[k] \in S
      /\ \A d \in S : \E k \in 1..Len(ids) : ids[k] = d
  BY DEF IsSorted
<1>4. \A k, l \in 1..Len(ids) : k < l => ids[k] < ids[l]
  BY <1>2, <1>3 DEF IsSorted
<1>5. /\ DOMAIN list = 1..Len(ids)
      /\ \A k \in 1..Len(ids) : list[k].doc = ids[k] /\ list[k].freq = freq[ids[k]]
  BY <1>1, <1>3
<1>6. DOMAIN list \subseteq Nat
  BY <1>3, <1>5
<1>7. \A k \in DOMAIN list : \E d \in 1..Len(docs) :
          /\ list[k].doc = d /\ t \in Index!Terms(Body(d))
          /\ list[k].freq = Index!Count(Body(d), t)
  <2> SUFFICES ASSUME NEW k \in 1..Len(ids)
               PROVE  /\ ids[k] \in 1..Len(docs) /\ t \in Index!Terms(Body(ids[k]))
                      /\ freq[ids[k]] = Index!Count(Body(ids[k]), t)
    BY <1>5
  <2>. QED
    BY <1>3
<1>8. \A d \in 1..Len(docs) : t \in Index!Terms(Body(d)) =>
           \E k \in DOMAIN list : list[k].doc = d
  <2> SUFFICES ASSUME NEW d \in 1..Len(docs), t \in Index!Terms(Body(d))
               PROVE  \E k \in DOMAIN list : list[k].doc = d
    OBVIOUS
  <2>1. PICK k \in 1..Len(ids) : ids[k] = d
    BY <1>3
  <2>. QED
    BY <1>5, <2>1
<1>9. \A k, l \in DOMAIN list : k < l => list[k].doc < list[l].doc
  BY <1>4, <1>5
<1>10. Posted(t, list)
  BY <1>6, <1>7, <1>8, <1>9 DEF Posted
<1>. QED
  BY <1>1, <1>10

LEMMA PostingsOfPosted ==
    ASSUME Files, Counts, NEW t \in DOMAIN freqs
    PROVE  Posted(t, Index!PostingsOf(t, Index!Sorted(DOMAIN freqs[t],
                                             Index!Ascending(DOMAIN freqs[t]))))
<1>a. PICK S : S = DOMAIN freqs[t]
  OBVIOUS
<1>b. PICK ids : ids = Index!Sorted(S, Index!Ascending(S))
  OBVIOUS
<1>1. Len(docs) \in Nat
  BY BodyFacts
<1>2. \A d : d \in S <=> d \in 1..Len(docs) /\ t \in Index!Terms(Body(d))
  BY <1>a DEF Counts
<1>3. \A d \in S : freqs[t][d] = Index!Count(Body(d), t)
  BY <1>a DEF Counts
<1>4. IsFiniteSet(S) /\ S \in SUBSET Nat
  <2>1. 1 \in Int /\ Len(docs) \in Int
    BY <1>1
  <2>2. IsFiniteSet(1..Len(docs))
    BY <2>1, FS_Interval
  <2>3. S \in SUBSET (1..Len(docs))
    BY <1>2
  <2>4. S \in SUBSET Nat
    BY <1>1, <2>3
  <2>5. IsFiniteSet(S)
    BY <2>2, <2>3, FS_Subset
  <2>. QED
    BY <2>4, <2>5
<1>6. IsSorted(ids, S, Index!Ascending(S))
  BY <1>4, <1>b, AscendingOrders, SortedIsSorted
<1>7. Posted(t, [k \in DOMAIN ids |-> [doc |-> ids[k], freq |-> freqs[t][ids[k]]]])
  BY <1>2, <1>3, <1>4, <1>6, PostingsArePosted
<1>. QED
  BY <1>7, <1>a, <1>b DEF Index!PostingsOf

LEMMA SortSorts ==
    ASSUME Files, Counts, NEW ts, NEW ps,
           ts = Index!Sorted(DOMAIN freqs, Index!Alphabetic(DOMAIN freqs)),
           ps = [i \in DOMAIN ts |->
                    Index!PostingsOf(ts[i],
                        Index!Sorted(DOMAIN freqs[ts[i]], Index!Ascending(DOMAIN freqs[ts[i]])))]
    PROVE  InOrder(ts, ps)
<1>1. Len(docs) \in Nat /\ \A d \in 1..Len(docs) : Body(d) \in Spellings
  BY BodyFacts
<1>2. DOMAIN freqs \in SUBSET Spellings
  <2>1. \A t \in DOMAIN freqs : \E d \in 1..Len(docs) : t \in Index!Terms(Body(d))
    BY DEF Counts
  <2>. QED
    BY <1>1, <2>1, TermsFacts
<1>3. IsSorted(ts, DOMAIN freqs, Index!Alphabetic(DOMAIN freqs))
  BY <1>2, AlphabetOrders, SortedIsSorted DEF Counts
<1>4. \A x, y \in DOMAIN freqs :
          <<x, y>> \in Index!Alphabetic(DOMAIN freqs) => Index!Precedes(x, y)
  BY DEF Index!Alphabetic
<1>5. /\ ts \in Readings /\ Len(ts) \in Nat /\ DOMAIN ts = 1..Len(ts)
      /\ \A i \in 1..Len(ts) : ts[i] \in DOMAIN freqs
      /\ \A i, j \in 1..Len(ts) : i < j => Index!Precedes(ts[i], ts[j])
      /\ \A t \in DOMAIN freqs : \E i \in 1..Len(ts) : ts[i] = t
  <2>1. /\ ts \in [1..Len(ts) -> DOMAIN freqs] /\ Len(ts) \in Nat
        /\ \A i, j \in 1..Len(ts) : i < j => <<ts[i], ts[j]>> \in Index!Alphabetic(DOMAIN freqs)
        /\ \A t \in DOMAIN freqs : \E i \in 1..Len(ts) : ts[i] = t
    BY <1>3 DEF IsSorted
  <2>2. ts \in [1..Len(ts) -> Spellings]
    BY <1>2, <2>1
  <2>3. ts \in Readings
    BY <2>1, <2>2 DEF Readings
  <2>. QED
    BY <1>4, <2>1, <2>3
<1>6. ASSUME NEW i \in 1..Len(ts)
      PROVE  Posted(ts[i], ps[i])
  <2>1. ts[i] \in DOMAIN freqs /\ i \in DOMAIN ts
    BY <1>5
  <2>2. ps[i] = Index!PostingsOf(ts[i], Index!Sorted(DOMAIN freqs[ts[i]],
                                            Index!Ascending(DOMAIN freqs[ts[i]])))
    BY <2>1
  <2>. QED
    BY <2>1, <2>2, PostingsOfPosted
<1>7. DOMAIN ps = 1..Len(ts)
  BY <1>5
<1>8. \A t : (\E d \in 1..Len(docs) : t \in Index!Terms(Body(d))) <=>
                 \E i \in 1..Len(ts) : ts[i] = t
  BY <1>5 DEF Counts
<1>. QED
  BY <1>5, <1>6, <1>7, <1>8 DEF InOrder

LEMMA InOrderThen ==
    ASSUME NEW ts, NEW ps, InOrder(ts, ps), UNCHANGED <<tree, docs>>,
           iTerms' = ts, iPostings' = ps
    PROVE  Searchable'
<1>1. InOrder(ts, ps)'
  BY DEF InOrder, Posted, Body, Index!Text
<1>. QED
  BY <1>1 DEF Searchable, InOrder, Posted, Body, Index!Text

LEMMA SearchableStays ==
    ASSUME Searchable, UNCHANGED <<tree, docs, iTerms, iPostings>>
    PROVE  Searchable'
BY DEF Searchable, InOrder, Posted, Body, Index!Text

LEMMA CountsStay ==
    ASSUME Counts, UNCHANGED <<tree, docs, freqs>>
    PROVE  Counts'
BY DEF Counts, Body, Index!Text

-----------------------------------------------------------------------------
(* matchPrefix: the range scan and its sums.                                *)

Pairs(X, freq) == UNION {{x} \X (1..freq[x]) : x \in X}
Group(A, term, v) == {a \in A : term[a] = v}

(* The places of A fall into groups, one for each x of X, as many as freq
   says: *)
Tallied(A, X, term, w, freq) ==
    /\ \A x, y \in X : w[x] = w[y] => x = y
    /\ \A a \in A : \E x \in X : w[x] = term[a]
    /\ \A x \in X : freq[x] = Cardinality(Group(A, term, w[x]))

(* then the pairs of the sum are as many as the places. *)
LEMMA SumsUp ==
    ASSUME NEW A, IsFiniteSet(A), NEW X, NEW term, NEW w, NEW freq,
           Tallied(A, X, term, w, freq)
    PROVE  Cardinality(Pairs(X, freq)) = Cardinality(A)
<1>1. PICK of : of = [x \in X |-> Group(A, term, w[x])]
  OBVIOUS
<1>2. \A x \in X : \A a : a \in of[x] <=> a \in A /\ term[a] = w[x]
  BY <1>1 DEF Group
<1>3. ASSUME NEW x \in X
      PROVE  freq[x] = Cardinality(of[x]) /\ \E g : g \in Bijection(1..freq[x], of[x])
  <2>1. of[x] = Group(A, term, w[x])
    BY <1>1
  <2>2. IsFiniteSet(of[x])
    BY <1>2, FS_Subset, of[x] \in SUBSET A
  <2>3. ExistsBijection(1..Cardinality(of[x]), of[x])
    BY <2>2, FS_CardinalityType
  <2>. QED
    BY <2>1, <2>3 DEF ExistsBijection, Tallied
<1>4. PICK b : b = [x \in X |-> CHOOSE g : g \in Bijection(1..freq[x], of[x])]
  OBVIOUS
<1>5. \A x \in X : b[x] \in Bijection(1..freq[x], of[x])
  BY <1>3, <1>4
<1>6. ASSUME NEW x \in X
      PROVE  /\ \A m \in 1..freq[x] : b[x][m] \in A /\ term[b[x][m]] = w[x]
             /\ \A m, l \in 1..freq[x] : b[x][m] = b[x][l] => m = l
             /\ \A a \in A : term[a] = w[x] => \E m \in 1..freq[x] : b[x][m] = a
  <2>1. PICK g, S, T : g = b[x] /\ S = 1..freq[x] /\ T = of[x]
    OBVIOUS
  <2>2. g \in Bijection(S, T)
    BY <1>5, <2>1
  <2>3. g \in [S -> T] /\ (\A m, l \in S : g[m] = g[l] => m = l)
        /\ \A a \in T : \E m \in S : g[m] = a
    BY <2>2 DEF Bijection, Injection, Surjection, IsInjective
  <2>4. \A m \in S : g[m] \in T
    BY <2>3
  <2>. QED
    BY <1>2, <2>1, <2>3, <2>4
<1>7. PICK P : P = Pairs(X, freq)
  OBVIOUS
<1>8. \A p : p \in P <=> \E x \in X : \E m \in 1..freq[x] : p = <<x, m>>
  <2>1. \A p : p \in P <=> \E x \in X : p \in {x} \X (1..freq[x])
    BY <1>7 DEF Pairs
  <2>2. \A p : \A x : p \in {x} \X (1..freq[x]) <=> \E m \in 1..freq[x] : p = <<x, m>>
    OBVIOUS
  <2>. QED
    BY <2>1, <2>2
<1>9. PICK f : f = [p \in P |-> b[p[1]][p[2]]]
  OBVIOUS
<1>10. \A x \in X : \A m \in 1..freq[x] : <<x, m>> \in P /\ f[<<x, m>>] = b[x][m]
  BY <1>8, <1>9
<1>11. f \in [P -> A]
  <2>1. \A p \in P : f[p] \in A
    BY <1>6, <1>8, <1>10
  <2>. QED
    BY <1>9, <2>1
<1>12. \A p, q \in P : f[p] = f[q] => p = q
  <2> SUFFICES ASSUME NEW p \in P, NEW q \in P, f[p] = f[q] PROVE p = q
    OBVIOUS
  <2>1. PICK x \in X : \E m \in 1..freq[x] : p = <<x, m>>
    BY <1>8
  <2>2. PICK m \in 1..freq[x] : p = <<x, m>>
    BY <2>1
  <2>3. PICK y \in X : \E l \in 1..freq[y] : q = <<y, l>>
    BY <1>8
  <2>4. PICK l \in 1..freq[y] : q = <<y, l>>
    BY <2>3
  <2>5. b[x][m] = b[y][l]
    BY <1>10, <2>2, <2>4
  <2>6. w[x] = w[y]
    BY <1>6, <2>5
  <2>7. x = y
    BY <2>6 DEF Tallied
  <2>8. m = l
    BY <1>6, <2>5, <2>7
  <2>. QED
    BY <2>2, <2>4, <2>7, <2>8
<1>13. \A a \in A : \E p \in P : f[p] = a
  <2> SUFFICES ASSUME NEW a \in A PROVE \E p \in P : f[p] = a
    OBVIOUS
  <2>1. PICK x \in X : w[x] = term[a]
    BY DEF Tallied
  <2>2. PICK m \in 1..freq[x] : b[x][m] = a
    BY <1>6, <2>1
  <2>. QED
    BY <1>10, <2>2
<1>14. f \in Injection(P, A) /\ f \in Surjection(P, A)
  BY <1>11, <1>12, <1>13 DEF Injection, Surjection, IsInjective
<1>15. IsFiniteSet(P) /\ Cardinality(P) = Cardinality(A)
  BY <1>14, FS_Injection
<1>. QED
  BY <1>7, <1>15

(* The scan finds the terms that t begins, and stops at none of them. *)
LEMMA ScannedAreBegun ==
    ASSUME Searchable, NEW t \in Spellings
    PROVE  \A i : i \in Index!Scanned(t) <=> i \in 1..Len(iTerms) /\ Index!IsPrefix(t, iTerms[i])
<1>1. /\ Len(iTerms) \in Nat /\ DOMAIN iTerms = 1..Len(iTerms)
      /\ \A i \in 1..Len(iTerms) : iTerms[i] \in Spellings
  BY ReadingFacts DEF Searchable, InOrder
<1>2. \A i, j \in 1..Len(iTerms) : i < j => Index!Precedes(iTerms[i], iTerms[j])
  BY DEF Searchable, InOrder
<1>3. \A i : i \in Index!From(t) <=>
              i \in 1..Len(iTerms) /\ \E j \in 1..i : ~ Index!Precedes(iTerms[j], t)
  BY <1>1 DEF Index!From
<1>4. ASSUME NEW i \in Index!From(t) PROVE ~ Index!Precedes(iTerms[i], t)
  <2>1. PICK j \in 1..i : ~ Index!Precedes(iTerms[j], t)
    BY <1>3
  <2>2. i \in 1..Len(iTerms) /\ j \in 1..Len(iTerms) /\ (j = i \/ j < i)
    BY <1>1, <1>3
  <2>3. CASE j < i
    <3>1. iTerms[i] \in Spellings /\ iTerms[j] \in Spellings
          /\ Index!Precedes(iTerms[j], iTerms[i])
      BY <1>1, <1>2, <2>2, <2>3
    <3>. QED
      BY <2>1, <3>1, PrecedesIsTransitive
  <2>. QED
    BY <2>1, <2>2, <2>3
<1>5. \A i : i \in Index!Scanned(t) <=>
              /\ i \in Index!From(t)
              /\ \A j \in Index!From(t) : j <= i => Index!IsPrefix(t, iTerms[j])
  BY DEF Index!Scanned
<1>6. ASSUME NEW i \in Index!Scanned(t)
      PROVE  i \in 1..Len(iTerms) /\ Index!IsPrefix(t, iTerms[i])
  <2>1. i \in Index!From(t) /\ i \in 1..Len(iTerms)
    BY <1>3, <1>5
  <2>2. i <= i
    BY <1>1, <2>1
  <2>. QED
    BY <1>5, <2>1, <2>2
<1>7. ASSUME NEW i \in 1..Len(iTerms), Index!IsPrefix(t, iTerms[i])
      PROVE  i \in Index!Scanned(t)
  <2>1. ~ Index!Precedes(iTerms[i], t)
    BY <1>1, <1>7, BegunIsNotBefore
  <2>2. i \in 1..i
    BY <1>1
  <2>3. i \in Index!From(t)
    BY <1>3, <2>1, <2>2
  <2>4. ASSUME NEW j \in Index!From(t), j <= i PROVE Index!IsPrefix(t, iTerms[j])
    <3>1. j \in 1..Len(iTerms) /\ iTerms[j] \in Spellings /\ iTerms[i] \in Spellings
          /\ (j = i \/ j < i)
      BY <1>1, <1>3, <2>4
    <3>2. CASE j < i
      <4>1. Index!Precedes(iTerms[j], iTerms[i])
        BY <1>2, <3>1, <3>2
      <4>. QED
        BY <1>4, <1>7, <3>1, <4>1, BegunLieTogether
    <3>. QED
      BY <1>7, <3>1, <3>2
  <2>. QED
    BY <1>5, <2>3, <2>4
<1>. QED
  BY <1>6, <1>7

(* The places in d of the tokens that t begins. *)
LEMMA AtFacts ==
    ASSUME Files, NEW t, NEW d \in 1..Len(docs)
    PROVE  /\ Index!At(t, d) =
                 {x \in Index!Places(Body(d)) : Index!IsPrefix(t, Index!Term(Body(d), x))}
           /\ IsFiniteSet(Index!At(t, d))
           /\ Index!Occurrences(t, d) = Cardinality(Index!At(t, d))
           /\ Index!Occurrences(t, d) \in Nat
           /\ Index!Occurrences(t, d) > 0 <=>
                 \E u \in Index!Terms(Body(d)) : Index!IsPrefix(t, u)
<1>1. Index!At(t, d) =
          {x \in Index!Places(Body(d)) : Index!IsPrefix(t, Index!Term(Body(d), x))}
  BY DEF Index!At, Body
<1>2. IsFiniteSet(Index!Places(Body(d)))
  BY BodyFacts, PlaceFacts
<1>3. IsFiniteSet(Index!At(t, d))
  BY <1>1, <1>2, FS_Subset, Index!At(t, d) \in SUBSET Index!Places(Body(d))
<1>4. Index!Occurrences(t, d) = Cardinality(Index!At(t, d))
  BY DEF Index!Occurrences, Index!Cardinality, Cardinality
<1>5. \A u : u \in Index!Terms(Body(d)) <=>
                 \E x \in Index!Places(Body(d)) : u = Index!Term(Body(d), x)
  BY DEF Index!Terms
<1>6. Index!At(t, d) # {} <=> \E u \in Index!Terms(Body(d)) : Index!IsPrefix(t, u)
  BY <1>1, <1>5
<1>. QED
  BY <1>1, <1>3, <1>4, <1>6, FS_CardinalityType, FS_EmptySet

(* The postings of d among those scanned. *)
FoundIn(t, d) ==
    {x \in UNION {{i} \X DOMAIN iPostings[i] : i \in Index!Scanned(t)} :
        iPostings[x[1]][x[2]].doc = d}

LEMMA MatchPrefixIs ==
    ASSUME NEW t
    PROVE  /\ DOMAIN Index!MatchPrefix(t) = {d \in DOMAIN docs : FoundIn(t, d) # {}}
           /\ \A d \in DOMAIN docs : FoundIn(t, d) # {} =>
                 Index!MatchPrefix(t)[d] =
                     Cardinality(UNION {{x} \X (1..iPostings[x[1]][x[2]].freq) : x \in FoundIn(t, d)})
<1>1. Index!MatchPrefix(t) =
          [d \in {d \in DOMAIN docs : FoundIn(t, d) # {}} |->
              Cardinality(UNION {{x} \X (1..iPostings[x[1]][x[2]].freq) : x \in FoundIn(t, d)})]
  BY DEF Index!MatchPrefix, FoundIn, Index!Cardinality, Cardinality
<1>. QED
  BY <1>1

LEMMA FoundInFacts ==
    ASSUME Files, Searchable, NEW t \in Spellings, NEW d \in 1..Len(docs)
    PROVE  /\ \A x \in FoundIn(t, d) :
                 /\ x[1] \in 1..Len(iTerms) /\ Index!IsPrefix(t, iTerms[x[1]])
                 /\ iTerms[x[1]] \in Index!Terms(Body(d))
                 /\ iPostings[x[1]][x[2]].freq = Index!Count(Body(d), iTerms[x[1]])
           /\ \A x, y \in FoundIn(t, d) : iTerms[x[1]] = iTerms[y[1]] => x = y
           /\ \A u \in Index!Terms(Body(d)) : Index!IsPrefix(t, u) =>
                 \E x \in FoundIn(t, d) : iTerms[x[1]] = u
<1>0. /\ Len(iTerms) \in Nat
      /\ \A i \in 1..Len(iTerms) : iTerms[i] \in Spellings /\ Posted(iTerms[i], iPostings[i])
      /\ \A i, j \in 1..Len(iTerms) : i < j => Index!Precedes(iTerms[i], iTerms[j])
      /\ \A u : (\E c \in 1..Len(docs) : u \in Index!Terms(Body(c))) =>
                   \E i \in 1..Len(iTerms) : iTerms[i] = u
  BY ReadingFacts DEF Searchable, InOrder
<1>1. \A x : x \in FoundIn(t, d) <=>
              \E i \in Index!Scanned(t) : \E k \in DOMAIN iPostings[i] :
                  x = <<i, k>> /\ iPostings[i][k].doc = d
  <2>1. \A x : x \in UNION {{i} \X DOMAIN iPostings[i] : i \in Index!Scanned(t)} <=>
                  \E i \in Index!Scanned(t) : x \in {i} \X DOMAIN iPostings[i]
    OBVIOUS
  <2>2. \A x : \A i : x \in {i} \X DOMAIN iPostings[i] <=>
                          \E k \in DOMAIN iPostings[i] : x = <<i, k>>
    OBVIOUS
  <2>3. \A x : x \in FoundIn(t, d) <=>
                  /\ x \in UNION {{i} \X DOMAIN iPostings[i] : i \in Index!Scanned(t)}
                  /\ iPostings[x[1]][x[2]].doc = d
    BY DEF FoundIn
  <2>. QED
    BY <2>1, <2>2, <2>3
<1>2. ASSUME NEW x \in FoundIn(t, d)
      PROVE  /\ x = <<x[1], x[2]>> /\ x[1] \in 1..Len(iTerms) /\ Index!IsPrefix(t, iTerms[x[1]])
             /\ x[2] \in DOMAIN iPostings[x[1]] /\ iPostings[x[1]][x[2]].doc = d
  <2>1. PICK i \in Index!Scanned(t) : \E k \in DOMAIN iPostings[i] :
                 x = <<i, k>> /\ iPostings[i][k].doc = d
    BY <1>1
  <2>2. PICK k \in DOMAIN iPostings[i] : x = <<i, k>> /\ iPostings[i][k].doc = d
    BY <2>1
  <2>3. i \in 1..Len(iTerms) /\ Index!IsPrefix(t, iTerms[i])
    BY ScannedAreBegun
  <2>4. x[1] = i /\ x[2] = k
    BY <2>2
  <2>. QED
    BY <2>2, <2>3, <2>4
<1>3. ASSUME NEW x \in FoundIn(t, d)
      PROVE  /\ iTerms[x[1]] \in Index!Terms(Body(d))
             /\ iPostings[x[1]][x[2]].freq = Index!Count(Body(d), iTerms[x[1]])
  <2>1. Posted(iTerms[x[1]], iPostings[x[1]])
    BY <1>0, <1>2
  <2>2. PICK c \in 1..Len(docs) :
            /\ iPostings[x[1]][x[2]].doc = c /\ iTerms[x[1]] \in Index!Terms(Body(c))
            /\ iPostings[x[1]][x[2]].freq = Index!Count(Body(c), iTerms[x[1]])
    BY <1>2, <2>1 DEF Posted
  <2>3. c = d
    BY <1>2, <2>2
  <2>. QED
    BY <2>2, <2>3
<1>4. ASSUME NEW x \in FoundIn(t, d), NEW y \in FoundIn(t, d), iTerms[x[1]] = iTerms[y[1]]
      PROVE  x = y
  <2>1. x[1] = y[1]
    <3>1. \A v \in Spellings : ~ Index!Precedes(v, v)
      BY PrecedesIsStrict
    <3>2. x[1] \in 1..Len(iTerms) /\ y[1] \in 1..Len(iTerms)
      BY <1>2
    <3>3. ~ (x[1] < y[1]) /\ ~ (y[1] < x[1])
      BY <1>0, <1>4, <3>1, <3>2
    <3>. QED
      BY <1>0, <3>2, <3>3
  <2>2. PICK list : list = iPostings[x[1]]
    OBVIOUS
  <2>3. Posted(iTerms[x[1]], list)
    BY <1>0, <1>2, <2>2
  <2>4. /\ x[2] \in DOMAIN list /\ y[2] \in DOMAIN list /\ DOMAIN list \subseteq Nat
        /\ list[x[2]].doc = d /\ list[y[2]].doc = d
        /\ \A k, l \in DOMAIN list : k < l => list[k].doc < list[l].doc
    BY <1>2, <2>1, <2>2, <2>3 DEF Posted
  <2>5. x[2] \in Nat /\ y[2] \in Nat /\ d \in Nat
    BY <2>4, BodyFacts
  <2>6. ~ (x[2] < y[2]) /\ ~ (y[2] < x[2])
    BY <2>4, <2>5
  <2>7. x[2] = y[2]
    BY <2>5, <2>6
  <2>. QED
    BY <1>2, <2>1, <2>7
<1>5. ASSUME NEW u \in Index!Terms(Body(d)), Index!IsPrefix(t, u)
      PROVE  \E x \in FoundIn(t, d) : iTerms[x[1]] = u
  <2>1. PICK i \in 1..Len(iTerms) : iTerms[i] = u
    BY <1>0
  <2>2. i \in Index!Scanned(t)
    BY <1>5, <2>1, ScannedAreBegun
  <2>3. Posted(u, iPostings[i])
    BY <1>0, <2>1
  <2>4. PICK k \in DOMAIN iPostings[i] : iPostings[i][k].doc = d
    BY <2>3 DEF Posted
  <2>5. <<i, k>> \in FoundIn(t, d)
    BY <1>1, <2>2, <2>4
  <2>. QED
    BY <2>1, <2>5
<1>. QED
  BY <1>2, <1>3, <1>4, <1>5

(* matchPrefix finds the documents with a token that t begins, and counts
   these tokens. *)
LEMMA MatchPrefixCounts ==
    ASSUME Files, Searchable, NEW t \in Spellings
    PROVE  /\ \A d : d \in DOMAIN Index!MatchPrefix(t) <=>
                        d \in 1..Len(docs) /\ Index!Occurrences(t, d) > 0
           /\ \A d \in DOMAIN Index!MatchPrefix(t) :
                 Index!MatchPrefix(t)[d] = Index!Occurrences(t, d)
<1>0. DOMAIN docs = 1..Len(docs)
  BY BodyFacts
<1>1. ASSUME NEW d \in 1..Len(docs)
      PROVE  FoundIn(t, d) # {} <=> Index!Occurrences(t, d) > 0
  BY FoundInFacts, AtFacts
<1>2. ASSUME NEW d
      PROVE  d \in DOMAIN Index!MatchPrefix(t) <=>
                 d \in 1..Len(docs) /\ Index!Occurrences(t, d) > 0
  BY <1>0, <1>1, MatchPrefixIs
<1>3. ASSUME NEW d \in 1..Len(docs), FoundIn(t, d) # {}
      PROVE  Index!MatchPrefix(t)[d] = Index!Occurrences(t, d)
  <2>1. PICK A, X : A = Index!At(t, d) /\ X = FoundIn(t, d)
    OBVIOUS
  <2>2. PICK term : term = [a \in A |-> Index!Term(Body(d), a)]
    OBVIOUS
  <2>3. PICK w : w = [x \in X |-> iTerms[x[1]]]
    OBVIOUS
  <2>4. PICK freq : freq = [x \in X |-> iPostings[x[1]][x[2]].freq]
    OBVIOUS
  <2>5. IsFiniteSet(A) /\ Index!Occurrences(t, d) = Cardinality(A)
        /\ A = {x \in Index!Places(Body(d)) : Index!IsPrefix(t, Index!Term(Body(d), x))}
    BY <2>1, AtFacts
  <2>6. \A x, y \in X : w[x] = w[y] => x = y
    BY <2>1, <2>3, FoundInFacts
  <2>7. \A a \in A : \E x \in X : w[x] = term[a]
    <3> SUFFICES ASSUME NEW a \in A PROVE \E x \in X : w[x] = term[a]
      OBVIOUS
    <3>1. term[a] = Index!Term(Body(d), a) /\ Index!IsPrefix(t, Index!Term(Body(d), a))
          /\ Index!Term(Body(d), a) \in Index!Terms(Body(d))
      BY <2>2, <2>5 DEF Index!Terms
    <3>2. PICK x \in X : iTerms[x[1]] = Index!Term(Body(d), a)
      BY <2>1, <3>1, FoundInFacts
    <3>. QED
      BY <2>3, <3>1, <3>2
  <2>8. ASSUME NEW x \in X
        PROVE  freq[x] = Cardinality(Group(A, term, w[x]))
    <3>1. PICK u : u = iTerms[x[1]]
      OBVIOUS
    <3>2. w[x] = u /\ freq[x] = Index!Count(Body(d), u) /\ Index!IsPrefix(t, u)
      BY <2>1, <2>3, <2>4, <3>1, FoundInFacts
    <3>3. Index!Count(Body(d), u) = Cardinality({a \in Index!Places(Body(d)) : Index!Term(Body(d), a) = u})
      BY DEF Index!Count, Index!Cardinality, Cardinality
    <3>4. {a \in Index!Places(Body(d)) : Index!Term(Body(d), a) = u} = Group(A, term, u)
      BY <2>2, <2>5, <3>2 DEF Group
    <3>. QED
      BY <3>2, <3>3, <3>4
  <2>9. Cardinality(Pairs(X, freq)) = Cardinality(A)
    <3>1. Tallied(A, X, term, w, freq)
      BY <2>6, <2>7, <2>8 DEF Tallied
    <3>. QED
      BY <2>5, <3>1, SumsUp
  <2>10. Pairs(X, freq) = UNION {{x} \X (1..iPostings[x[1]][x[2]].freq) : x \in X}
    BY <2>4 DEF Pairs
  <2>11. Index!MatchPrefix(t)[d] =
             Cardinality(UNION {{x} \X (1..iPostings[x[1]][x[2]].freq) : x \in X})
    BY <1>0, <1>3, <2>1, MatchPrefixIs
  <2>. QED
    BY <2>5, <2>9, <2>10, <2>11
<1>. QED
  BY <1>1, <1>2, <1>3

-----------------------------------------------------------------------------
(* Query: the terms narrow the documents down, and their scores add up.     *)

(* The occurrences in d of the first m terms of q. *)
Tallies(q, d, m) == UNION {{i} \X Index!At(q[i], d) : i \in 1..m}
Tally(q, d, m) == Cardinality(Tallies(q, d, m))

NarrowedTo(q, m, score) ==
    /\ m = 0 => score = <<>>
    /\ m > 0 =>
          /\ \A d : d \in DOMAIN score <=>
                        d \in 1..Len(docs) /\ \A i \in 1..m : Index!Occurrences(q[i], d) > 0
          /\ \A d \in DOMAIN score : score[d] = Tally(q, d, m)

LEMMA TallyGrows ==
    ASSUME Files, NEW q, NEW d \in 1..Len(docs), NEW m \in Nat
    PROVE  /\ Tally(q, d, m) \in Nat
           /\ m = 0 => Tally(q, d, m) = 0
           /\ Tally(q, d, m + 1) = Tally(q, d, m) + Index!Occurrences(q[m + 1], d)
<1>1. ASSUME NEW k \in Nat PROVE IsFiniteSet(Tallies(q, d, k))
  <2> DEFINE at1 == [i \in 1..k |-> {i} \X Index!At(q[i], d)]
             all == {at1[i] : i \in 1..k}
  <2>1. IsFiniteSet(1..k)
    <3>1. 1 \in Int /\ k \in Int
      OBVIOUS
    <3>. QED
      BY <3>1, FS_Interval
  <2>2. at1 \in Surjection(1..k, all)
    BY DEF Surjection
  <2>3. IsFiniteSet(all)
    BY <2>1, <2>2, FS_Surjection
  <2>4. \A i \in 1..k : IsFiniteSet({i} \X Index!At(q[i], d))
    BY AtFacts, FS_Singleton, FS_Product
  <2>5. \A T \in all : IsFiniteSet(T)
    BY <2>4
  <2>6. UNION all = Tallies(q, d, k)
    BY DEF Tallies
  <2> HIDE DEF all
  <2>. QED
    BY <2>3, <2>5, <2>6, FS_UNION
<1>2. PICK S, A, T : S = Tallies(q, d, m) /\ A = Index!At(q[m + 1], d) /\ T = {m + 1} \X A
  OBVIOUS
<1>3. Tallies(q, d, m + 1) = S \cup T
  <2>1. \A i : i \in 1..m + 1 <=> i \in 1..m \/ i = m + 1
    OBVIOUS
  <2>2. \A x : x \in Tallies(q, d, m + 1) <=>
                   \E i \in 1..m + 1 : x \in {i} \X Index!At(q[i], d)
    BY DEF Tallies
  <2>3. \A x : x \in S <=> \E i \in 1..m : x \in {i} \X Index!At(q[i], d)
    BY <1>2 DEF Tallies
  <2>4. \A x : x \in Tallies(q, d, m + 1) <=> x \in S \/ x \in T
    BY <1>2, <2>1, <2>2, <2>3
  <2>. QED
    BY <2>4
<1>4. S \cap T = {}
  <2>1. \A x \in S : x[1] \in 1..m
    BY <1>2 DEF Tallies
  <2>2. \A x \in T : x[1] = m + 1
    BY <1>2
  <2>. QED
    BY <2>1, <2>2
<1>5. IsFiniteSet(T) /\ Cardinality(T) = Index!Occurrences(q[m + 1], d)
  <2>1. IsFiniteSet(A) /\ Cardinality(A) = Index!Occurrences(q[m + 1], d) /\ Cardinality(A) \in Nat
    BY <1>2, AtFacts
  <2>2. IsFiniteSet({m + 1}) /\ Cardinality({m + 1}) = 1
    BY FS_Singleton
  <2>3. IsFiniteSet({m + 1} \X A) /\ Cardinality({m + 1} \X A) = Cardinality({m + 1}) * Cardinality(A)
    BY <2>1, <2>2, FS_Product
  <2>. QED
    BY <1>2, <2>1, <2>2, <2>3
<1>6. IsFiniteSet(S) /\ Cardinality(S) \in Nat
  BY <1>1, <1>2, FS_CardinalityType
<1>7. Cardinality(S \cup T) = Cardinality(S) + Cardinality(T) - Cardinality(S \cap T)
  BY <1>5, <1>6, FS_Union
<1>8. Cardinality(S \cap T) = 0
  BY <1>4, FS_EmptySet
<1>9. Cardinality(S \cup T) = Cardinality(S) + Index!Occurrences(q[m + 1], d)
  BY <1>5, <1>6, <1>7, <1>8, AtFacts
<1>10. m = 0 => S = {}
  BY <1>2 DEF Tallies
<1>. QED
  BY <1>2, <1>3, <1>6, <1>9, <1>10, FS_EmptySet DEF Tally

LEMMA NarrowedWhen ==
    ASSUME NEW q, NEW k \in Nat \ {0}, NEW score,
           \A d : d \in DOMAIN score <=>
                     d \in 1..Len(docs) /\ \A i \in 1..k : Index!Occurrences(q[i], d) > 0,
           \A d \in DOMAIN score : score[d] = Tally(q, d, k)
    PROVE  NarrowedTo(q, k, score)
BY DEF NarrowedTo

LEMMA NarrowingFirst ==
    ASSUME Files, Searchable, NEW q \in Readings, 0 < Len(q)
    PROVE  NarrowedTo(q, 1, Index!MatchPrefix(q[1]))
<1>1. q[1] \in Spellings
  BY ReadingFacts
<1>2. PICK found : found = Index!MatchPrefix(q[1])
  OBVIOUS
<1>3. /\ \A d : d \in DOMAIN found <=> d \in 1..Len(docs) /\ Index!Occurrences(q[1], d) > 0
      /\ \A d \in DOMAIN found : found[d] = Index!Occurrences(q[1], d)
  BY <1>1, <1>2, MatchPrefixCounts
<1>4. \A d : d \in DOMAIN found <=>
          d \in 1..Len(docs) /\ \A i \in 1..1 : Index!Occurrences(q[i], d) > 0
  <2>1. \A i : i \in 1..1 <=> i = 1
    OBVIOUS
  <2>. QED
    BY <1>3, <2>1
<1>5. ASSUME NEW d \in DOMAIN found PROVE found[d] = Tally(q, d, 1)
  <2>1. d \in 1..Len(docs) /\ found[d] = Index!Occurrences(q[1], d)
    BY <1>3
  <2>2. Tally(q, d, 0) = 0 /\ Tally(q, d, 0 + 1) = Tally(q, d, 0) + Index!Occurrences(q[0 + 1], d)
    BY <2>1, TallyGrows
  <2>3. Index!Occurrences(q[1], d) \in Nat
    BY <2>1, AtFacts
  <2>. QED
    BY <2>1, <2>2, <2>3
<1>6. \A d \in DOMAIN found : found[d] = Tally(q, d, 1)
  BY <1>5
<1>7. NarrowedTo(q, 1, found)
  BY <1>4, <1>6, NarrowedWhen
<1>. QED
  BY <1>2, <1>7

LEMMA NarrowingOn ==
    ASSUME Files, Searchable, NEW q \in Readings, NEW m \in Nat \ {0}, m < Len(q),
           NEW score, NarrowedTo(q, m, score)
    PROVE  NarrowedTo(q, m + 1,
                      [d \in DOMAIN score \cap DOMAIN Index!MatchPrefix(q[m + 1]) |->
                          score[d] + Index!MatchPrefix(q[m + 1])[d]])
<1>1. q[m + 1] \in Spellings
  BY ReadingFacts
<1>2. PICK found : found = Index!MatchPrefix(q[m + 1])
  OBVIOUS
<1>3. /\ \A d : d \in DOMAIN found <=> d \in 1..Len(docs) /\ Index!Occurrences(q[m + 1], d) > 0
      /\ \A d \in DOMAIN found : found[d] = Index!Occurrences(q[m + 1], d)
  BY <1>1, <1>2, MatchPrefixCounts
<1>4. /\ \A d : d \in DOMAIN score <=>
             d \in 1..Len(docs) /\ \A i \in 1..m : Index!Occurrences(q[i], d) > 0
      /\ \A d \in DOMAIN score : score[d] = Tally(q, d, m)
  BY DEF NarrowedTo
<1>5. PICK both : both = [d \in DOMAIN score \cap DOMAIN found |-> score[d] + found[d]]
  OBVIOUS
<1>6. /\ \A d : d \in DOMAIN both <=> d \in DOMAIN score /\ d \in DOMAIN found
      /\ \A d \in DOMAIN both : both[d] = score[d] + found[d]
  BY <1>5
<1>7. \A d : d \in DOMAIN both <=>
          d \in 1..Len(docs) /\ \A i \in 1..m + 1 : Index!Occurrences(q[i], d) > 0
  <2>1. \A i : i \in 1..m + 1 <=> i \in 1..m \/ i = m + 1
    OBVIOUS
  <2>. QED
    BY <1>3, <1>4, <1>6, <2>1
<1>8. ASSUME NEW d \in DOMAIN both PROVE both[d] = Tally(q, d, m + 1)
  <2>1. d \in 1..Len(docs) /\ d \in DOMAIN score /\ d \in DOMAIN found
    BY <1>3, <1>6
  <2>2. score[d] = Tally(q, d, m) /\ found[d] = Index!Occurrences(q[m + 1], d)
    BY <1>3, <1>4, <2>1
  <2>3. Tally(q, d, m + 1) = Tally(q, d, m) + Index!Occurrences(q[m + 1], d)
    BY <2>1, TallyGrows
  <2>4. both[d] = score[d] + found[d]
    BY <1>6
  <2>. QED
    BY <2>2, <2>3, <2>4
<1>9. \A d \in DOMAIN both : both[d] = Tally(q, d, m + 1)
  BY <1>8
<1>10. m + 1 \in Nat \ {0}
  OBVIOUS
<1>11. NarrowedTo(q, m + 1, both)
  BY <1>7, <1>9, <1>10, NarrowedWhen
<1>. QED
  BY <1>2, <1>5, <1>11

Outranks(c, d) ==
    \/ Index!Worth(c) > Index!Worth(d)
    \/ Index!Worth(c) = Index!Worth(d) /\ Index!Selector(c) < Index!Selector(d)

(* A right answer to the query. *)
Answers(hs, all) ==
    /\ all \in Nat /\ hs \in Seq(1..Len(docs))
    /\ Len(hs) = IF Limit > 0 /\ all > Limit THEN Limit ELSE all
    /\ \A i, j \in 1..Len(hs) : i < j => Outranks(hs[i], hs[j])
    /\ query # <<>> =>
          /\ all = Cardinality({d \in 1..Len(docs) : Index!Matches(d)})
          /\ \A i \in 1..Len(hs) : Index!Matches(hs[i])
          /\ \A d \in 1..Len(docs) :
                Index!Matches(d) /\ (\A i \in 1..Len(hs) : hs[i] # d) =>
                    \A i \in 1..Len(hs) : Outranks(hs[i], d)

LEMMA NoAnswer ==
    ASSUME query = <<>> \/ \A d \in 1..Len(docs) : ~ Index!Matches(d)
    PROVE  Answers(<<>>, 0)
<1>1. query # <<>> => {d \in 1..Len(docs) : Index!Matches(d)} = {}
  OBVIOUS
<1>2. <<>> \in Seq(1..Len(docs)) /\ Len(<<>>) = 0 /\ 1..0 = {}
  OBVIOUS
<1>3. Len(<<>>) = IF Limit > 0 /\ 0 > Limit THEN Limit ELSE 0
  BY CharactersAssumption
<1>4. \A i : i \notin 1..Len(<<>>)
  BY <1>2
<1>. QED
  BY <1>1, <1>2, <1>3, <1>4, FS_EmptySet DEF Answers

LEMMA WorthIsScore ==
    ASSUME Files, query \in Readings, NEW d \in 1..Len(docs)
    PROVE  /\ Index!Worth(d) = Index!Bonus(d) + Tally(query, d, Len(query))
           /\ Index!Bonus(d) \in Nat
           /\ Index!Matches(d) <=> \A i \in 1..Len(query) : Index!Occurrences(query[i], d) > 0
<1>1. DOMAIN query = 1..Len(query) /\ Len(query) \in Nat
  BY ReadingFacts
<1>2. Index!Worth(d) = Index!Bonus(d) + Tally(query, d, Len(query))
  BY <1>1 DEF Index!Worth, Tally, Tallies, Index!Cardinality, Cardinality
<1>3. Index!Bonus(d) \in Nat
  <2>1. PICK S : S = {i \in DOMAIN query : Index!InTitle(query[i], d)}
    OBVIOUS
  <2>2. IsFiniteSet(1..Len(query))
    <3>1. 1 \in Int /\ Len(query) \in Int
      BY <1>1
    <3>. QED
      BY <3>1, FS_Interval
  <2>3. S \in SUBSET (1..Len(query))
    BY <1>1, <2>1
  <2>4. Cardinality(S) \in Nat
    BY <2>2, <2>3, FS_Subset, FS_CardinalityType
  <2>5. Index!Bonus(d) = 25 * Cardinality(S)
    BY <2>1 DEF Index!Bonus, Index!Cardinality, Cardinality
  <2>. QED
    BY <2>4, <2>5
<1>. QED
  BY <1>1, <1>2, <1>3 DEF Index!Matches

(* QueryN's limit. *)
Cut(all, cut) == IF cut > 0 /\ Len(all) > cut THEN SubSeq(all, 1, cut) ELSE all

LEMMA CutFacts ==
    ASSUME NEW X, NEW all \in Seq(X), NEW cut \in Nat
    PROVE  /\ Cut(all, cut) \in Seq(X)
           /\ Len(Cut(all, cut)) = IF cut > 0 /\ Len(all) > cut THEN cut ELSE Len(all)
           /\ Len(Cut(all, cut)) \in Nat /\ Len(Cut(all, cut)) <= Len(all)
           /\ \A i \in 1..Len(Cut(all, cut)) : Cut(all, cut)[i] = all[i]
<1>0. Len(all) \in Nat /\ \A i \in 1..Len(all) : all[i] \in X
  OBVIOUS
<1>1. CASE cut > 0 /\ Len(all) > cut
  <2>1. Cut(all, cut) = SubSeq(all, 1, cut) /\ 1 \in Int /\ cut \in Int /\ 1 <= cut
    BY <1>1 DEF Cut
  <2>2. \A i \in 1..cut : all[i] \in X
    BY <1>0, <1>1
  <2>3. PICK part : part = SubSeq(all, 1, cut)
    OBVIOUS
  <2>4. /\ part \in Seq(X)
        /\ Len(part) = IF 1 <= cut THEN cut - 1 + 1 ELSE 0
        /\ \A i \in 1..cut - 1 + 1 : part[i] = all[1 + i - 1]
    BY <2>1, <2>2, <2>3, SubSeqProperties
  <2>5. cut - 1 + 1 = cut /\ \A i \in 1..cut : 1 + i - 1 = i
    OBVIOUS
  <2>6. Len(part) = cut /\ \A i \in 1..cut : part[i] = all[i]
    BY <2>1, <2>4, <2>5
  <2>. QED
    BY <1>0, <1>1, <2>1, <2>3, <2>4, <2>6
<1>2. CASE ~ (cut > 0 /\ Len(all) > cut)
  <2>1. Cut(all, cut) = all
    BY <1>2 DEF Cut
  <2>. QED
    BY <1>0, <1>2, <2>1
<1>. QED
  BY <1>1, <1>2

LEMMA SortedType ==
    ASSUME NEW s, NEW S, NEW R, IsSorted(s, S, R), NEW X, S \subseteq X
    PROVE  /\ Len(s) \in Nat /\ Len(s) = Cardinality(S) /\ s \in Seq(X)
           /\ \A i \in 1..Len(s) : s[i] \in S
           /\ \A x \in S : \E i \in 1..Len(s) : s[i] = x
           /\ \A i, j \in 1..Len(s) : i < j => <<s[i], s[j]>> \in R
<1>1. /\ Len(s) \in Nat /\ Len(s) = Cardinality(S) /\ s \in [1..Len(s) -> S]
      /\ \A x \in S : \E i \in 1..Len(s) : s[i] = x
      /\ \A i, j \in 1..Len(s) : i < j => <<s[i], s[j]>> \in R
  BY DEF IsSorted
<1>2. s \in [1..Len(s) -> X]
  BY <1>1
<1>3. s \in Seq(X)
  BY <1>1, <1>2, SeqDef
<1>. QED
  BY <1>1, <1>3

(* Rank: by worth, and by selector among equals, up to the limit. *)
LEMMA Ranking ==
    ASSUME Files, query \in Readings, query # <<>>, NarrowedTo(query, Len(query), scores),
           NEW S, S = DOMAIN scores
    PROVE  LET all == Index!Sorted(S, Index!Best(S, Index!Scored))
           IN  Answers(Cut(all, Limit), Len(all))
<1>1. Len(query) \in Nat /\ Len(query) > 0 /\ Len(docs) \in Nat /\ DOMAIN docs = 1..Len(docs)
  BY ReadingFacts, BodyFacts, EmptySeq DEF Readings
<1>2. PICK R : R = Index!Best(S, Index!Scored)
  OBVIOUS
<1>3. PICK all : all = Index!Sorted(S, R)
  OBVIOUS
<1>4. /\ \A d : d \in S <=> d \in 1..Len(docs) /\ Index!Matches(d)
      /\ \A d \in S : scores[d] = Tally(query, d, Len(query))
  BY <1>1, WorthIsScore DEF NarrowedTo
<1>5. \A d \in S : Index!Scored[d] = Index!Worth(d) /\ Index!Worth(d) \in Nat
  <2> SUFFICES ASSUME NEW d \in S PROVE Index!Scored[d] = Index!Worth(d) /\ Index!Worth(d) \in Nat
    OBVIOUS
  <2>1. Index!Scored[d] = scores[d] + Index!Bonus(d)
    BY DEF Index!Scored
  <2>2. /\ scores[d] = Tally(query, d, Len(query)) /\ Tally(query, d, Len(query)) \in Nat
        /\ Index!Bonus(d) \in Nat /\ Index!Worth(d) = Index!Bonus(d) + Tally(query, d, Len(query))
    BY <1>1, <1>4, TallyGrows, WorthIsScore
  <2>. QED
    BY <2>1, <2>2
<1>6. \A c, d \in S : <<c, d>> \in R <=> Outranks(c, d)
  <2>1. \A c, d \in S : <<c, d>> \in R <=>
            \/ Index!Scored[c] > Index!Scored[d]
            \/ Index!Scored[c] = Index!Scored[d] /\ Index!Selector(c) < Index!Selector(d)
    BY <1>2 DEF Index!Best
  <2>2. ASSUME NEW c \in S, NEW d \in S PROVE <<c, d>> \in R <=> Outranks(c, d)
    <3>1. Index!Scored[c] = Index!Worth(c) /\ Index!Scored[d] = Index!Worth(d)
      BY <1>5
    <3>. QED
      BY <2>1, <3>1 DEF Outranks
  <2>. QED
    BY <2>2
<1>7. \A c, d \in S : /\ Index!Selector(c) \in Nat
                      /\ Index!Selector(c) = Index!Selector(d) => c = d
  <2> SUFFICES ASSUME NEW c \in S, NEW d \in S
               PROVE  /\ Index!Selector(c) \in Nat
                      /\ Index!Selector(c) = Index!Selector(d) => c = d
    OBVIOUS
  <2>1. /\ docs[c] \in DOMAIN tree /\ docs[d] \in DOMAIN tree
        /\ docs[c] = docs[d] => c = d
    BY <1>4 DEF Files
  <2>2. /\ tree[docs[c]].selector \in Nat
        /\ tree[docs[c]].selector = tree[docs[d]].selector => docs[c] = docs[d]
    BY <2>1, FileFacts DEF Files
  <2>. QED
    BY <2>1, <2>2 DEF Index!Selector
<1>8. Orders(R, S)
  <2>1. \A c, d \in S : /\ Index!Worth(c) \in Nat /\ Index!Worth(d) \in Nat
                        /\ Index!Selector(c) \in Nat /\ Index!Selector(d) \in Nat
    BY <1>5, <1>7
  <2>2. \A c \in S : ~ Outranks(c, c)
    BY <2>1 DEF Outranks
  <2>3. \A b, c, d \in S : Outranks(b, c) /\ Outranks(c, d) => Outranks(b, d)
    BY <2>1 DEF Outranks
  <2>4. \A c, d \in S : c = d \/ Outranks(c, d) \/ Outranks(d, c)
    BY <1>7, <2>1 DEF Outranks
  <2>. QED
    BY <1>6, <2>2, <2>3, <2>4 DEF Orders
<1>9. S \in SUBSET (1..Len(docs)) /\ IsFiniteSet(S)
  <2>1. 1 \in Int /\ Len(docs) \in Int
    BY <1>1
  <2>2. IsFiniteSet(1..Len(docs))
    BY <2>1, FS_Interval
  <2>3. S \in SUBSET (1..Len(docs))
    BY <1>4
  <2>. QED
    BY <2>2, <2>3, FS_Subset
<1>10. IsSorted(all, S, R)
  BY <1>3, <1>8, <1>9, SortedIsSorted
<1>11. S \subseteq 1..Len(docs)
  BY <1>9
<1>12. /\ Len(all) \in Nat /\ Len(all) = Cardinality(S) /\ all \in Seq(1..Len(docs))
       /\ \A i \in 1..Len(all) : all[i] \in S
       /\ \A d \in S : \E i \in 1..Len(all) : all[i] = d
       /\ \A i, j \in 1..Len(all) : i < j => <<all[i], all[j]>> \in R
  BY <1>10, <1>11, SortedType
<1>13. \A i, j \in 1..Len(all) : i < j => Outranks(all[i], all[j])
  BY <1>6, <1>12
<1>14. PICK hs : hs = Cut(all, Limit)
  OBVIOUS
<1>15. /\ hs \in Seq(1..Len(docs))
       /\ Len(hs) = IF Limit > 0 /\ Len(all) > Limit THEN Limit ELSE Len(all)
       /\ Len(hs) \in Nat /\ Len(hs) <= Len(all)
       /\ \A i \in 1..Len(hs) : hs[i] = all[i]
  <2>1. Limit \in Nat
    BY CharactersAssumption
  <2>. QED
    BY <1>12, <1>14, <2>1, CutFacts
<1>16. \A i \in 1..Len(hs) : i \in 1..Len(all) /\ hs[i] \in S
  <2> SUFFICES ASSUME NEW i \in 1..Len(hs) PROVE i \in 1..Len(all) /\ hs[i] \in S
    OBVIOUS
  <2>1. i \in 1..Len(all) /\ hs[i] = all[i]
    BY <1>12, <1>15
  <2>. QED
    BY <1>12, <2>1
<1>17. \A i, j \in 1..Len(hs) : i < j => Outranks(hs[i], hs[j])
  BY <1>13, <1>15, <1>16
<1>18. Len(all) = Cardinality({d \in 1..Len(docs) : Index!Matches(d)})
  <2>1. S = {d \in 1..Len(docs) : Index!Matches(d)}
    BY <1>4
  <2>. QED
    BY <1>12, <2>1
<1>19. ASSUME NEW d \in 1..Len(docs), Index!Matches(d), \A i \in 1..Len(hs) : hs[i] # d,
              NEW i \in 1..Len(hs)
       PROVE  Outranks(hs[i], d)
  <2>1. PICK j \in 1..Len(all) : all[j] = d
    BY <1>4, <1>12, <1>19
  <2>2. j \notin 1..Len(hs)
    BY <1>15, <1>19, <2>1
  <2>3. i \in 1..Len(all) /\ i < j /\ hs[i] = all[i]
    BY <1>12, <1>15, <1>16, <2>2
  <2>. QED
    BY <1>13, <2>1, <2>3
<1>20. \A i \in 1..Len(hs) : Index!Matches(hs[i])
  BY <1>4, <1>16
<1>21. Answers(hs, Len(all))
  BY <1>12, <1>15, <1>17, <1>18, <1>19, <1>20 DEF Answers
<1>. QED
  BY <1>3, <1>2, <1>14, <1>21

-----------------------------------------------------------------------------
(* The inductive invariant of the search.                                   *)

(* The postings are in order once they are sorted, and empty before. *)
Sorting ==
    /\ iPhase \in {"walk", "ready", "match", "answered"}
    /\ iPhase = "walk" => iTerms = <<>> /\ iPostings = <<>>
    /\ iPhase # "walk" => Searchable

(* The query goes on from term to term, and ends with a right answer. *)
Answering ==
    /\ query \in Readings /\ matched \in 0..Len(query)
    /\ DOMAIN scores \subseteq 1..Len(docs)
    /\ iPhase \in {"walk", "ready"} => query = <<>> /\ matched = 0 /\ scores = <<>>
    /\ iPhase # "answered" => hits = <<>> /\ total = 0
    /\ iPhase = "match" => query # <<>> /\ NarrowedTo(query, matched, scores)
    /\ iPhase = "answered" => Answers(hits, total)

SearchInv == Files /\ Counts /\ Sorting /\ Answering

LEMMA NarrowedStays ==
    ASSUME NEW q, NEW m, NEW score, NarrowedTo(q, m, score), UNCHANGED <<tree, docs>>
    PROVE  NarrowedTo(q, m, score)'
<1>1. \A w, d : Index!At(w, d)' = Index!At(w, d)
  BY DEF Index!At, Index!Text
<1>2. \A w, d : (Index!Occurrences(w, d) > 0)' <=> (Index!Occurrences(w, d) > 0)
  BY <1>1 DEF Index!Occurrences
<1>3. \A d : Tally(q, d, m)' = Tally(q, d, m)
  <2>1. \A d : Tallies(q, d, m)' = Tallies(q, d, m)
    BY <1>1 DEF Tallies
  <2>. QED
    BY <2>1 DEF Tally
<1>4. (1..Len(docs))' = 1..Len(docs)
  OBVIOUS
<1>. QED
  BY <1>2, <1>3, <1>4 DEF NarrowedTo

LEMMA AnswersStay ==
    ASSUME NEW hs, NEW all, Answers(hs, all), UNCHANGED <<tree, docs, query>>
    PROVE  Answers(hs, all)'
<1>1. /\ \A d : Index!Matches(d)' <=> Index!Matches(d)
      /\ \A d : Index!Worth(d)' = Index!Worth(d)
      /\ \A d : Index!Selector(d)' = Index!Selector(d)
  BY DEF Index!Matches, Index!Worth, Index!Selector, Index!Occurrences, Index!At, Index!Text,
         Index!Bonus, Index!InTitle, Index!Title
<1>2. \A c, d : Outranks(c, d)' <=> Outranks(c, d)
  BY <1>1 DEF Outranks
<1>. QED
  BY <1>1, <1>2 DEF Answers

LEMMA FilesStay == Files /\ UNCHANGED <<tree, next, docs>> => Files'
BY DEF Files

(* Nothing is read and nothing is asked: both before an index is built and
   where none is. *)
LEMMA UntouchedInv ==
    ASSUME tree \in Trees, iPhase \in {"walk", "answered"}, Index!Untouched
    PROVE  SearchInv
<1>start. /\ next = 1 /\ docs = <<>> /\ freqs = <<>> /\ iTerms = <<>> /\ iPostings = <<>>
      /\ query = <<>> /\ matched = 0 /\ scores = <<>> /\ hits = <<>> /\ total = 0
  BY DEF Index!Untouched
<1>none. /\ Len(<<>>) = 0 /\ DOMAIN <<>> = {} /\ 1..0 = {} /\ <<>> \in Seq(Nat) /\ <<>> \in Readings
      /\ 0 \in 0..0
  BY DEF Readings
<1>nobody. \A d : d \notin 1..Len(docs)
  BY <1>start, <1>none
<1>1. Files
  <2>1. Len(tree) \in Nat
    BY FileFacts
  <2>2. 1 \in 1..Len(tree) + 1
    BY <2>1
  <2>. QED
    BY <1>start, <1>nobody, <1>none, <2>2 DEF Files
<1>2. Counts
  <2>1. DOMAIN freqs = {}
    BY <1>start, <1>none
  <2>. QED
    BY <1>nobody, <2>1, FS_EmptySet DEF Counts
<1>3. Sorting
  <2>1. iTerms = <<>> /\ iPostings = <<>>
    BY <1>start
  <2>2. \A i : i \notin 1..Len(iTerms)
    BY <2>1, <1>none
  <2>3. iTerms \in Readings /\ DOMAIN iPostings = 1..Len(iTerms)
    BY <2>1, <1>none
  <2>4. Searchable
    BY <1>nobody, <2>2, <2>3 DEF Searchable, InOrder
  <2>. QED
    BY <2>1, <2>4 DEF Sorting
<1>4. Answering
  <2>1. Answers(hits, total)
    BY <1>start, NoAnswer
  <2>2. query \in Readings /\ matched \in 0..Len(query) /\ DOMAIN scores \subseteq 1..Len(docs)
    BY <1>start, <1>none
  <2>. QED
    BY <1>start, <2>1, <2>2 DEF Answering
<1>. QED
  BY <1>1, <1>2, <1>3, <1>4 DEF SearchInv

LEMMA PassStep ==
    ASSUME SearchInv, Index!Skip \/ Index!Unreadable
    PROVE  SearchInv'
<1>1. /\ iPhase = "walk" /\ next \in DOMAIN tree /\ next' = next + 1
      /\ UNCHANGED <<tree, iPhase, docs, freqs, iTerms, iPostings, query, matched, scores,
                     hits, total>>
  BY DEF Index!Skip, Index!Unreadable, Index!index, Index!answer
<1>2. Files'
  <2>1. Len(tree) \in Nat /\ next \in 1..Len(tree)
    BY <1>1, FileFacts DEF SearchInv, Files
  <2>2. next' \in 1..Len(tree') + 1
    BY <1>1, <2>1
  <2>3. Len(docs) \in Nat /\ \A d \in 1..Len(docs) : docs[d] \in Nat
    BY BodyFacts DEF SearchInv, Files
  <2>4. \A d \in 1..Len(docs) : docs[d] < next => docs[d] < next + 1
    BY <2>1, <2>3
  <2>. QED
    BY <1>1, <2>2, <2>4 DEF SearchInv, Files
<1>3. Counts'
  BY <1>1, CountsStay DEF SearchInv
<1>4. Sorting' /\ Answering'
  BY <1>1 DEF SearchInv, Sorting, Answering
<1>. QED
  BY <1>2, <1>3, <1>4 DEF SearchInv

LEMMA ReadInvStep == SearchInv /\ Index!Read => SearchInv'
<1> SUFFICES ASSUME SearchInv, Index!Read PROVE SearchInv'
  OBVIOUS
<1>1. /\ iPhase = "walk" /\ next \in DOMAIN tree /\ tree[next].kind = "text"
      /\ next' = next + 1 /\ docs' = Append(docs, next)
      /\ freqs' = Index!Added(Index!Text(next), Len(docs) + 1)
      /\ UNCHANGED <<tree, iPhase, iTerms, iPostings, query, matched, scores, hits, total>>
  BY DEF Index!Read, Index!index, Index!answer
<1>2. tree' = tree
  BY <1>1
<1>3. Files' /\ Counts'
  BY <1>1, <1>2, ReadCounts DEF SearchInv
<1>4. Sorting'
  BY <1>1 DEF SearchInv, Sorting
<1>5. Answering'
  <2>1. /\ query' \in Readings /\ matched' \in 0..Len(query')
        /\ query' = <<>> /\ matched' = 0 /\ scores' = <<>> /\ hits' = <<>> /\ total' = 0
    BY <1>1 DEF SearchInv, Answering
  <2>2. DOMAIN scores' = {}
    BY <2>1
  <2>. QED
    BY <1>1, <2>1, <2>2 DEF Answering
<1>. QED
  BY <1>3, <1>4, <1>5 DEF SearchInv

LEMMA SortStep == SearchInv /\ Index!Sort => SearchInv'
<1> SUFFICES ASSUME SearchInv, Index!Sort PROVE SearchInv'
  OBVIOUS
<1>1. /\ iPhase = "walk" /\ iPhase' = "ready"
      /\ iTerms' = Index!Sorted(DOMAIN freqs, Index!Alphabetic(DOMAIN freqs))
      /\ iPostings' = [i \in DOMAIN iTerms' |->
             Index!PostingsOf(iTerms'[i],
                 Index!Sorted(DOMAIN freqs[iTerms'[i]],
                              Index!Ascending(DOMAIN freqs[iTerms'[i]])))]
      /\ UNCHANGED <<tree, next, docs, freqs, query, matched, scores, hits, total>>
  BY DEF Index!Sort, Index!answer
<1>2. PICK ts : ts = iTerms'
  OBVIOUS
<1>3. PICK ps : ps = iPostings'
  OBVIOUS
<1>4. InOrder(ts, ps)
  BY <1>1, <1>2, <1>3, SortSorts DEF SearchInv
<1>5. Searchable'
  BY <1>1, <1>2, <1>3, <1>4, InOrderThen
<1>6. Sorting'
  BY <1>1, <1>5 DEF Sorting
<1>7. Files' /\ Counts'
  BY <1>1, FilesStay, CountsStay DEF SearchInv
<1>8. Answering'
  BY <1>1 DEF SearchInv, Answering
<1>. QED
  BY <1>6, <1>7, <1>8 DEF SearchInv

LEMMA AskStep ==
    ASSUME SearchInv, NEW text \in Queries, Index!Ask(text)
    PROVE  SearchInv'
<1>1. /\ iPhase = "ready" /\ query' = Index!Tokenize(text)
      /\ iPhase' = IF query' = <<>> THEN "answered" ELSE "match"
      /\ UNCHANGED <<tree, next, docs, freqs, iTerms, iPostings, matched, scores, hits, total>>
  BY DEF Index!Ask, Index!index, Index!answer
<1>2. Files' /\ Counts'
  BY <1>1, FilesStay, CountsStay DEF SearchInv
<1>3. Sorting'
  <2>1. Searchable
    BY <1>1 DEF SearchInv, Sorting
  <2>2. Searchable'
    BY <1>1, <2>1, SearchableStays
  <2>. QED
    BY <1>1, <2>2 DEF Sorting
<1>4. query = <<>> /\ matched = 0 /\ scores = <<>> /\ hits = <<>> /\ total = 0
  BY <1>1 DEF SearchInv, Answering
<1>5. query' \in Readings
  <2>1. text \in Spellings
    BY QueriesAssumption
  <2>. QED
    BY <1>1, <2>1, TokenizeGivesTerms
<1>6. matched' \in 0..Len(query')
  <2>1. Len(query') \in Nat
    BY <1>5 DEF Readings
  <2>. QED
    BY <1>1, <1>4, <2>1
<1>7. DOMAIN scores' \subseteq 1..Len(docs')
  <2>1. DOMAIN scores' = {}
    BY <1>1, <1>4
  <2>. QED
    BY <2>1
<1>8. iPhase' = "match" => query' # <<>> /\ NarrowedTo(query, matched, scores)'
  <2>1. iPhase' = "match" => query' # <<>>
    BY <1>1
  <2>2. matched' = 0 /\ scores' = <<>>
    BY <1>1, <1>4
  <2>. QED
    BY <2>1, <2>2 DEF NarrowedTo
<1>9. iPhase' = "answered" => Answers(hits, total)'
  <2> SUFFICES ASSUME iPhase' = "answered" PROVE Answers(hits, total)'
    OBVIOUS
  <2>1. query' = query
    BY <1>1, <1>4
  <2>2. PICK hs, all : hs = hits /\ all = total
    OBVIOUS
  <2>3. Answers(hs, all)
    BY <1>4, <2>2, NoAnswer
  <2>4. Answers(hs, all)'
    BY <1>1, <2>1, <2>3, AnswersStay
  <2>5. hs = hits' /\ all = total'
    BY <1>1, <2>2
  <2>. QED
    BY <2>4, <2>5 DEF Answers
<1>10. Answering'
  BY <1>1, <1>4, <1>5, <1>6, <1>7, <1>8, <1>9 DEF Answering
<1>. QED
  BY <1>2, <1>3, <1>10 DEF SearchInv

LEMMA MatchStep == SearchInv /\ Index!MatchTerm => SearchInv'
<1> SUFFICES ASSUME SearchInv, Index!MatchTerm PROVE SearchInv'
  OBVIOUS
<1>1. /\ iPhase = "match" /\ matched < Len(query) /\ matched' = matched + 1
      /\ iPhase' = IF scores' = <<>> THEN "answered" ELSE "match"
      /\ UNCHANGED <<tree, next, docs, freqs, iTerms, iPostings, query, hits, total>>
  BY DEF Index!MatchTerm, Index!index
<1>2. scores' = IF matched = 0 THEN Index!MatchPrefix(query[matched + 1])
                ELSE [d \in DOMAIN scores \cap DOMAIN Index!MatchPrefix(query[matched + 1]) |->
                         scores[d] + Index!MatchPrefix(query[matched + 1])[d]]
  BY DEF Index!MatchTerm
<1>3. /\ query \in Readings /\ query # <<>> /\ matched \in 0..Len(query)
      /\ NarrowedTo(query, matched, scores) /\ hits = <<>> /\ total = 0
  BY <1>1 DEF SearchInv, Answering
<1>4. Len(query) \in Nat /\ matched \in Nat
  BY <1>3, ReadingFacts
<1>5. Searchable /\ Files
  BY <1>1 DEF SearchInv, Sorting
<1>6. PICK q, s : q = query /\ s = scores'
  OBVIOUS
<1>7. NarrowedTo(q, matched + 1, s)
  <2>1. CASE matched = 0
    <3>1. s = Index!MatchPrefix(q[1]) /\ matched + 1 = 1 /\ q \in Readings /\ 0 < Len(q)
      BY <1>1, <1>2, <1>3, <1>6, <2>1
    <3>. QED
      BY <1>5, <3>1, NarrowingFirst
  <2>2. CASE matched # 0
    <3>1. matched \in Nat \ {0} /\ q \in Readings /\ matched < Len(q)
      BY <1>1, <1>3, <1>4, <1>6, <2>2
    <3>2. NarrowedTo(q, matched, scores)
      BY <1>3, <1>6
    <3>3. s = [d \in DOMAIN scores \cap DOMAIN Index!MatchPrefix(q[matched + 1]) |->
                  scores[d] + Index!MatchPrefix(q[matched + 1])[d]]
      BY <1>2, <1>6, <2>2
    <3>. QED
      BY <1>5, <3>1, <3>2, <3>3, NarrowingOn
  <2>. QED
    BY <2>1, <2>2
<1>8. /\ \A d : d \in DOMAIN s <=>
              d \in 1..Len(docs) /\ \A i \in 1..matched + 1 : Index!Occurrences(q[i], d) > 0
      /\ matched + 1 \in 1..Len(q)
  <2>1. matched + 1 > 0 /\ matched + 1 \in 1..Len(q)
    BY <1>1, <1>4, <1>6
  <2>. QED
    BY <1>7, <2>1 DEF NarrowedTo
<1>9. Files' /\ Counts'
  BY <1>1, FilesStay, CountsStay DEF SearchInv
<1>10. Sorting'
  <2>1. Searchable'
    BY <1>1, <1>5, SearchableStays
  <2>. QED
    BY <1>1, <2>1 DEF Sorting
<1>11. query' \in Readings /\ matched' \in 0..Len(query') /\ DOMAIN scores' \subseteq 1..Len(docs')
  <2>1. matched + 1 \in 0..Len(query)
    BY <1>1, <1>4
  <2>2. DOMAIN s \subseteq 1..Len(docs)
    BY <1>8
  <2>. QED
    BY <1>1, <1>3, <1>6, <2>1, <2>2
<1>12. iPhase' = "match" => query' # <<>> /\ NarrowedTo(query, matched, scores)'
  <2>1. PICK m : m = matched + 1
    OBVIOUS
  <2>2. NarrowedTo(q, m, s)'
    BY <1>1, <1>7, <2>1, NarrowedStays
  <2>3. q = query' /\ m = matched' /\ s = scores'
    BY <1>1, <1>6, <2>1
  <2>4. NarrowedTo(query, matched, scores)'
    BY <2>2, <2>3 DEF NarrowedTo, Tally, Tallies
  <2>. QED
    BY <1>1, <1>3, <2>4
<1>13. iPhase' = "answered" => Answers(hits, total)'
  <2> SUFFICES ASSUME iPhase' = "answered" PROVE Answers(hits, total)'
    OBVIOUS
  <2>1. s = <<>>
    BY <1>1, <1>6
  <2>2. DOMAIN s = {}
    BY <2>1
  <2>3. ASSUME NEW d \in 1..Len(docs) PROVE ~ Index!Matches(d)
    <3>1. PICK i \in 1..matched + 1 : ~ (Index!Occurrences(q[i], d) > 0)
      BY <1>8, <2>2
    <3>2. i \in DOMAIN query
      <4>1. DOMAIN query = 1..Len(query)
        BY <1>3, ReadingFacts
      <4>. QED
        BY <1>1, <1>4, <4>1
    <3>. QED
      BY <1>6, <3>1, <3>2 DEF Index!Matches
  <2>4. Answers(<<>>, 0)
    BY <2>3, NoAnswer
  <2>5. PICK hs, all : hs = hits /\ all = total
    OBVIOUS
  <2>6. Answers(hs, all)'
    BY <1>1, <1>3, <2>4, <2>5, AnswersStay
  <2>7. hs = hits' /\ all = total'
    BY <1>1, <2>5
  <2>. QED
    BY <2>6, <2>7 DEF Answers
<1>14. iPhase' \in {"match", "answered"} /\ (iPhase' # "answered" => hits' = <<>> /\ total' = 0)
  BY <1>1, <1>3
<1>15. Answering'
  BY <1>11, <1>12, <1>13, <1>14 DEF Answering
<1>. QED
  BY <1>9, <1>10, <1>15 DEF SearchInv

LEMMA RankStep == SearchInv /\ Index!Rank => SearchInv'
<1> SUFFICES ASSUME SearchInv, Index!Rank PROVE SearchInv'
  OBVIOUS
<1>1. /\ iPhase = "match" /\ matched = Len(query) /\ iPhase' = "answered"
      /\ UNCHANGED <<tree, next, docs, freqs, iTerms, iPostings, query, matched, scores>>
  BY DEF Index!Rank, Index!index
<1>2. PICK S : S = DOMAIN scores
  OBVIOUS
<1>3. PICK all : all = Index!Sorted(S, Index!Best(S, Index!Scored))
  OBVIOUS
<1>4. total' = Len(all) /\ hits' = Cut(all, Limit)
  BY <1>2, <1>3 DEF Index!Rank, Cut
<1>5. /\ query \in Readings /\ query # <<>> /\ NarrowedTo(query, Len(query), scores)
      /\ matched \in 0..Len(query) /\ DOMAIN scores \subseteq 1..Len(docs)
  BY <1>1 DEF SearchInv, Answering
<1>6. Answers(Cut(all, Limit), Len(all))
  BY <1>2, <1>3, <1>5, Ranking DEF SearchInv
<1>7. PICK hs, count : hs = Cut(all, Limit) /\ count = Len(all)
  OBVIOUS
<1>8. Answers(hs, count)'
  <2>1. Answers(hs, count)
    BY <1>6, <1>7
  <2>. QED
    BY <1>1, <2>1, AnswersStay
<1>9. Answers(hits, total)'
  <2>1. hs = hits' /\ count = total'
    BY <1>4, <1>7
  <2>. QED
    BY <1>8, <2>1 DEF Answers
<1>10. Answering'
  BY <1>1, <1>5, <1>9 DEF Answering
<1>11. Files' /\ Counts'
  BY <1>1, FilesStay, CountsStay DEF SearchInv
<1>12. Sorting'
  <2>1. Searchable
    BY <1>1 DEF SearchInv, Sorting
  <2>2. Searchable'
    BY <1>1, <2>1, SearchableStays
  <2>. QED
    BY <1>1, <2>2 DEF Sorting
<1>. QED
  BY <1>10, <1>11, <1>12 DEF SearchInv

LEMMA IdleStep == SearchInv /\ UNCHANGED indexVars => SearchInv'
<1> SUFFICES ASSUME SearchInv, UNCHANGED indexVars PROVE SearchInv'
  OBVIOUS
<1>1. UNCHANGED <<tree, iPhase, next, docs, freqs, iTerms, iPostings, query, matched,
                  scores, hits, total>>
  BY DEF indexVars
<1>2. Files' /\ Counts'
  BY <1>1, FilesStay, CountsStay DEF SearchInv
<1>3. Sorting'
  <2>1. iPhase # "walk" => Searchable'
    BY <1>1, SearchableStays DEF SearchInv, Sorting
  <2>. QED
    BY <1>1, <2>1 DEF SearchInv, Sorting
<1>4. PICK q, m, s : q = query /\ m = matched /\ s = scores
  OBVIOUS
<1>5. iPhase' = "match" => query' # <<>> /\ NarrowedTo(query, matched, scores)'
  <2> SUFFICES ASSUME iPhase' = "match"
               PROVE  query' # <<>> /\ NarrowedTo(query, matched, scores)'
    OBVIOUS
  <2>1. query # <<>> /\ NarrowedTo(q, m, s)
    BY <1>1, <1>4 DEF SearchInv, Answering
  <2>2. NarrowedTo(q, m, s)'
    BY <1>1, <2>1, NarrowedStays
  <2>3. q = query' /\ m = matched' /\ s = scores'
    BY <1>1, <1>4
  <2>. QED
    BY <2>1, <2>2, <2>3, <1>4 DEF NarrowedTo, Tally, Tallies
<1>6. PICK hs, all : hs = hits /\ all = total
  OBVIOUS
<1>7. iPhase' = "answered" => Answers(hits, total)'
  <2> SUFFICES ASSUME iPhase' = "answered" PROVE Answers(hits, total)'
    OBVIOUS
  <2>1. Answers(hs, all)
    BY <1>1, <1>6 DEF SearchInv, Answering
  <2>2. Answers(hs, all)'
    BY <1>1, <2>1, AnswersStay
  <2>3. hs = hits' /\ all = total'
    BY <1>1, <1>6
  <2>. QED
    BY <2>2, <2>3 DEF Answers
<1>8. Answering'
  BY <1>1, <1>5, <1>7 DEF SearchInv, Answering
<1>. QED
  BY <1>2, <1>3, <1>8 DEF SearchInv

LEMMA SearchInvHolds == IndexSpec => []SearchInv
<1>1. IndexInit => SearchInv
  <2>1. (CHOOSE t \in Trees : TRUE) \in Trees
    BY SomethingAssumption
  <2>. QED
    BY <2>1, UntouchedInv DEF IndexInit, IndexOver, Index!Init
<1>2. SearchInv /\ [IndexNext]_<<vars, indexVars>> => SearchInv'
  <2> SUFFICES ASSUME SearchInv, [IndexNext]_<<vars, indexVars>> PROVE SearchInv'
    OBVIOUS
  <2>1. CASE UNCHANGED indexVars
    BY <2>1, IdleStep
  <2>2. CASE Index!Next
    BY <2>2, PassStep, ReadInvStep, SortStep, AskStep, MatchStep, RankStep DEF Index!Next
  <2>. QED
    BY <2>1, <2>2 DEF IndexNext
<1>. QED
  BY <1>1, <1>2, PTL DEF IndexSpec

LEMMA SearchInvTypes == SearchInv => Index!TypeOK
<1> SUFFICES ASSUME SearchInv PROVE Index!TypeOK
  OBVIOUS
<1>1. /\ tree \in Trees /\ next \in 1..Len(tree) + 1 /\ Len(docs) \in Nat
      /\ DOMAIN docs = 1..Len(docs) /\ \A d \in DOMAIN docs : docs[d] \in DOMAIN tree
  BY BodyFacts DEF SearchInv, Files
<1>2. \A t \in DOMAIN freqs : Index!Indexable(t) /\ DOMAIN freqs[t] \subseteq DOMAIN docs
  <2> SUFFICES ASSUME NEW t \in DOMAIN freqs
               PROVE  Index!Indexable(t) /\ DOMAIN freqs[t] \subseteq DOMAIN docs
    OBVIOUS
  <2>1. PICK d \in 1..Len(docs) : t \in Index!Terms(Body(d))
    BY DEF SearchInv, Counts
  <2>2. Index!Indexable(t)
    BY <2>1, BodyFacts, TermsFacts DEF SearchInv
  <2>3. DOMAIN freqs[t] \subseteq DOMAIN docs
    BY <1>1 DEF SearchInv, Counts
  <2>. QED
    BY <2>2, <2>3
<1>3. DOMAIN iPostings = DOMAIN iTerms
  <2>1. CASE iPhase = "walk"
    BY <2>1 DEF SearchInv, Sorting
  <2>2. CASE iPhase # "walk"
    <3>1. iTerms \in Readings /\ DOMAIN iPostings = 1..Len(iTerms)
      BY <2>2 DEF SearchInv, Sorting, Searchable, InOrder
    <3>. QED
      BY <3>1, ReadingFacts
  <2>. QED
    BY <2>1, <2>2
<1>4. hits \in Seq(1..Len(docs)) /\ total \in Nat
  <2>1. CASE iPhase = "answered"
    BY <2>1 DEF SearchInv, Answering, Answers
  <2>2. CASE iPhase # "answered"
    BY <2>2 DEF SearchInv, Answering
  <2>. QED
    BY <2>1, <2>2
<1>5. \A i \in DOMAIN hits : hits[i] \in DOMAIN docs
  BY <1>1, <1>4
<1>6. /\ iPhase \in {"walk", "ready", "match", "answered"} /\ matched \in 0..Len(query)
      /\ DOMAIN scores \subseteq DOMAIN docs
  BY <1>1 DEF SearchInv, Sorting, Answering
<1>. QED
  BY <1>1, <1>2, <1>3, <1>4, <1>5, <1>6 DEF Index!TypeOK

LEMMA SearchInvOrders == SearchInv => Index!IndexOrdered
<1> SUFFICES ASSUME SearchInv, iPhase # "walk"
             PROVE  /\ \A i, j \in DOMAIN iTerms : i < j => Index!Precedes(iTerms[i], iTerms[j])
                    /\ \A i \in DOMAIN iTerms : \A k, l \in DOMAIN iPostings[i] :
                           k < l => iPostings[i][k].doc < iPostings[i][l].doc
                    /\ \A i \in DOMAIN iTerms : \A k \in DOMAIN iPostings[i] :
                           iPostings[i][k].freq =
                               Index!Count(Body(iPostings[i][k].doc), iTerms[i])
  BY DEF Index!IndexOrdered, Body
<1>1. InOrder(iTerms, iPostings)
  BY DEF SearchInv, Sorting, Searchable
<1>2. DOMAIN iTerms = 1..Len(iTerms)
  BY <1>1, ReadingFacts DEF InOrder
<1>3. \A i \in DOMAIN iTerms : Posted(iTerms[i], iPostings[i])
  BY <1>1, <1>2 DEF InOrder
<1>4. \A i, j \in DOMAIN iTerms : i < j => Index!Precedes(iTerms[i], iTerms[j])
  BY <1>1, <1>2 DEF InOrder
<1>5. \A i \in DOMAIN iTerms : \A k, l \in DOMAIN iPostings[i] :
          k < l => iPostings[i][k].doc < iPostings[i][l].doc
  BY <1>3 DEF Posted
<1>6. \A i \in DOMAIN iTerms : \A k \in DOMAIN iPostings[i] :
          iPostings[i][k].freq = Index!Count(Body(iPostings[i][k].doc), iTerms[i])
  BY <1>3 DEF Posted
<1>. QED
  BY <1>4, <1>5, <1>6

(* A term of a document begins a token of it: itself. *)
LEMMA TermIsFound ==
    ASSUME Files, Searchable, NEW d \in 1..Len(docs), NEW t \in Index!Terms(Body(d))
    PROVE  d \in DOMAIN Index!MatchPrefix(t)
<1>1. t \in Spellings
  BY BodyFacts, TermsFacts
<1>2. Index!IsPrefix(t, t)
  BY <1>1, PrefixMeans, WordFacts
<1>3. Index!Occurrences(t, d) > 0
  BY <1>2, AtFacts
<1>. QED
  BY <1>1, <1>3, MatchPrefixCounts

LEMMA IndexableMeans ==
    ASSUME NEW w \in Spellings
    PROVE  Index!Indexable(w) <=> 2 <= Len(w) /\ Len(w) <= MaxTerm
BY WordFacts, CharactersAssumption DEF Index!Indexable

LEMMA SearchInvFindsWords == SearchInv => Index!OwnWordsFind
<1> DEFINE Finds(d, t) == 2 <= Len(t) /\ Len(t) <= MaxTerm => d \in DOMAIN Index!MatchPrefix(t)
<1> SUFFICES ASSUME SearchInv, iPhase # "walk"
             PROVE  /\ \A i \in DOMAIN iTerms : 2 <= Len(iTerms[i]) /\ Len(iTerms[i]) <= MaxTerm
                    /\ \A d \in DOMAIN docs : \A i \in Index!Starts(Body(d)) :
                          /\ Finds(d, Index!WordAt(Body(d), i))
                          /\ Len(Index!WordAt(Body(d), i)) <= MaxTerm =>
                                \A k \in DOMAIN Index!Parts(Index!WordAt(Body(d), i)) :
                                    Finds(d, Index!Parts(Index!WordAt(Body(d), i))[k])
  BY DEF Index!OwnWordsFind, Body
<1>1. Files /\ Searchable
  BY DEF SearchInv, Sorting
<1>2. ASSUME NEW i \in DOMAIN iTerms
      PROVE  2 <= Len(iTerms[i]) /\ Len(iTerms[i]) <= MaxTerm
  <2>1. i \in 1..Len(iTerms) /\ iTerms[i] \in Spellings
    BY <1>1, ReadingFacts DEF Searchable, InOrder
  <2>2. PICK d \in 1..Len(docs) : iTerms[i] \in Index!Terms(Body(d))
    BY <1>1, <2>1 DEF Searchable, InOrder
  <2>3. Index!Indexable(iTerms[i])
    BY <1>1, <2>2, BodyFacts, TermsFacts
  <2>. QED
    BY <2>1, <2>3, IndexableMeans
<1>3. ASSUME NEW d \in DOMAIN docs, NEW i \in Index!Starts(Body(d)), NEW w,
             w = Index!WordAt(Body(d), i)
      PROVE  /\ Finds(d, w)
             /\ Len(w) <= MaxTerm => \A k \in DOMAIN Index!Parts(w) : Finds(d, Index!Parts(w)[k])
  <2>1. d \in 1..Len(docs) /\ Body(d) \in Spellings
    BY <1>1, BodyFacts
  <2>2. w \in Spellings
    BY <1>3, <2>1, StartFacts
  <2>3. Index!Indexable(w) =>
            /\ w \in Index!Terms(Body(d))
            /\ \A k \in DOMAIN Index!Parts(w) : Index!Indexable(Index!Parts(w)[k]) =>
                   Index!Parts(w)[k] \in Index!Terms(Body(d))
    BY <1>3, <2>1, OwnTerms
  <2>4. Finds(d, w)
    BY <1>1, <2>1, <2>2, <2>3, IndexableMeans, TermIsFound
  <2>5. ASSUME Len(w) <= MaxTerm, NEW k \in DOMAIN Index!Parts(w)
        PROVE  Finds(d, Index!Parts(w)[k])
    <3>1. PICK v : v = Index!Parts(w)[k]
      OBVIOUS
    <3>2. v \in Spellings /\ Index!Within(v, w)
      BY <2>2, <3>1, PartsFacts
    <3>3. Len(v) \in Nat /\ Len(w) \in Nat /\ Len(v) <= Len(w)
      BY <2>2, <3>2, WithinIsNotLonger, WordFacts
    <3>4. Index!Indexable(v) => Index!Indexable(w)
      BY <2>2, <2>5, <3>2, <3>3, IndexableMeans
    <3>5. Finds(d, v)
      BY <1>1, <2>1, <2>3, <3>1, <3>2, <3>4, IndexableMeans, TermIsFound
    <3>. QED
      BY <3>1, <3>5
  <2>. QED
    BY <2>4, <2>5
<1>. QED
  BY <1>2, <1>3

LEMMA SearchInvAnswers == SearchInv => Index!FindsWhatMatches /\ Index!BestFirst
<1> SUFFICES ASSUME SearchInv, iPhase = "answered"
             PROVE  /\ query # <<>> =>
                         /\ total = Cardinality({d \in DOMAIN docs : Index!Matches(d)})
                         /\ \A i \in DOMAIN hits : Index!Matches(hits[i])
                    /\ Len(hits) = IF Limit > 0 /\ total > Limit THEN Limit ELSE total
                    /\ \A i, j \in DOMAIN hits : i < j => Outranks(hits[i], hits[j])
                    /\ query # <<>> => \A d \in DOMAIN docs :
                         Index!Matches(d) /\ (\A i \in DOMAIN hits : hits[i] # d) =>
                             \A i \in DOMAIN hits : Outranks(hits[i], d)
  BY DEF Index!FindsWhatMatches, Index!BestFirst, Outranks, Index!Cardinality, Cardinality
<1>1. Answers(hits, total)
  BY DEF SearchInv, Answering
<1>2. DOMAIN docs = 1..Len(docs)
  BY BodyFacts DEF SearchInv
<1>3. DOMAIN hits = 1..Len(hits)
  BY <1>1 DEF Answers
<1>. QED
  BY <1>1, <1>2, <1>3 DEF Answers

(* A term of the scan that is a word is a term of the index: what ends it for
   the scan ends it for the index. *)
LEMMA FieldFacts ==
    ASSUME NEW text \in Spellings, NEW f \in Index!Fields(text)
    PROVE  \E h, b \in 0..Len(text) :
               /\ h < b /\ f = SubSeq(text, h + 1, b)
               /\ h \in 1..Len(text) => text[h] \in Space
               /\ b + 1 \in 1..Len(text) => text[b + 1] \in Space
<1>1. Len(text) \in Nat /\ DOMAIN text = 1..Len(text)
  BY WordFacts
<1>2. PICK r \in Index!Runs(text, Chars(text) \ Space) : f = SubSeq(text, r[1], r[2])
  BY DEF Index!Fields, Chars
<1>3. PICK a, b : a = r[1] /\ b = r[2]
  OBVIOUS
<1>4. <<a, b>> \in Index!Runs(text, Chars(text) \ Space)
  BY <1>2, <1>3, RunIsPair
<1>5. /\ a \in 1..Len(text) /\ b \in 1..Len(text) /\ a <= b
      /\ a - 1 \in 1..Len(text) => text[a - 1] \notin Chars(text) \ Space
      /\ b + 1 \in 1..Len(text) => text[b + 1] \notin Chars(text) \ Space
  BY <1>4, RunFacts
<1>6. \A k \in 1..Len(text) : text[k] \in Chars(text)
  BY <1>1 DEF Chars
<1>7. PICK h : h = a - 1
  OBVIOUS
<1>8. h \in 0..Len(text) /\ b \in 0..Len(text) /\ h < b /\ h + 1 = a
  BY <1>1, <1>5, <1>7
<1>9. f = SubSeq(text, h + 1, b)
  BY <1>2, <1>3, <1>8
<1>. QED
  BY <1>5, <1>6, <1>7, <1>8, <1>9

(* Trim, of what it does not take away altogether. *)
LEMMA TrimFacts ==
    ASSUME NEW f \in Spellings, NEW C, Len(Index!Trim(f, C)) > 0
    PROVE  \E p, q \in 1..Len(f) :
               /\ p <= q /\ Index!Trim(f, C) = SubSeq(f, p, q)
               /\ p - 1 \in 1..Len(f) => f[p - 1] \in C
               /\ q + 1 \in 1..Len(f) => f[q + 1] \in C
<1>1. Len(f) \in Nat /\ DOMAIN f = 1..Len(f)
  BY WordFacts
<1>2. PICK kept : kept = {i \in DOMAIN f : f[i] \notin C}
  OBVIOUS
<1>3. Index!Trim(f, C) =
          IF kept = {} THEN <<>>
          ELSE SubSeq(f, CHOOSE i \in kept : \A j \in kept : i <= j,
                         CHOOSE i \in kept : \A j \in kept : j <= i)
  BY <1>2 DEF Index!Trim
<1>4. kept # {}
  <2>1. Len(<<>>) = 0
    OBVIOUS
  <2>. QED
    BY <1>3, <2>1
<1>5. kept \in SUBSET (1..Len(f))
  BY <1>1, <1>2
<1>6. \E i \in kept : \A j \in kept : i <= j
  BY <1>1, <1>4, <1>5, LeastExists
<1>7. \E i \in kept : \A j \in kept : j <= i
  <2>1. PICK away : away = {Len(f) - i : i \in kept}
    OBVIOUS
  <2>2. away \in SUBSET Nat /\ away # {}
    <3>1. \A i \in kept : Len(f) - i \in Nat
      BY <1>1, <1>5
    <3>2. PICK i : i \in kept
      BY <1>4
    <3>3. Len(f) - i \in away
      BY <2>1, <3>2
    <3>. QED
      BY <2>1, <3>1, <3>3
  <2>3. PICK k \in away : \A m \in away : k <= m
    BY <2>2, LeastExists
  <2>4. PICK i \in kept : k = Len(f) - i
    BY <2>1, <2>3
  <2>5. \A j \in kept : Len(f) - i <= Len(f) - j
    BY <2>1, <2>3, <2>4
  <2>6. \A j \in kept : j <= i
    BY <1>1, <1>5, <2>5
  <2>. QED
    BY <2>6
<1>8. PICK p, q : /\ p = (CHOOSE i \in kept : \A j \in kept : i <= j)
                  /\ q = (CHOOSE i \in kept : \A j \in kept : j <= i)
  OBVIOUS
<1>9. /\ p \in kept /\ \A j \in kept : p <= j
      /\ q \in kept /\ \A j \in kept : j <= q
  BY <1>6, <1>7, <1>8
<1>10. p \in 1..Len(f) /\ q \in 1..Len(f) /\ p <= q
  BY <1>5, <1>9
<1>11. p - 1 \notin kept /\ q + 1 \notin kept
  <2>1. ~ p <= p - 1 /\ ~ q + 1 <= q
    BY <1>1, <1>10
  <2>. QED
    BY <1>9, <2>1
<1>12. Index!Trim(f, C) = SubSeq(f, p, q)
  BY <1>3, <1>4, <1>8
<1>. QED
  BY <1>1, <1>2, <1>10, <1>11, <1>12

LEMMA SliceIsWord ==
    ASSUME NEW f \in Spellings, NEW p \in DOMAIN f, NEW q \in DOMAIN f
    PROVE  SubSeq(f, p, q) \in Spellings
<1>1. Len(f) \in Nat /\ DOMAIN f = 1..Len(f)
  BY WordFacts
<1>2. PICK o : o = p - 1
  OBVIOUS
<1>3. o \in 0..Len(f) /\ q \in 0..Len(f) /\ o + 1 = p
  BY <1>1, <1>2
<1>4. SubSeq(f, o + 1, q) \in Spellings
  BY <1>3, SliceFacts
<1>. QED
  BY <1>3, <1>4

LEMMA ScanTermIsTerm ==
    ASSUME NEW text \in Spellings, NEW t \in Index!ScanTerms(text),
           Len(t) <= MaxTerm, \A i \in DOMAIN t : t[i] \in Wordly
    PROVE  t \in Spellings /\ t \in Index!Terms(text)
<1>1. PICK f \in Index!Fields(text) : t = Index!Trim(f, Quotes) /\ Len(t) >= 2
  BY DEF Index!ScanTerms
<1>2. PICK h \in 0..Len(text), b \in 0..Len(text) :
          /\ h < b /\ f = SubSeq(text, h + 1, b)
          /\ h \in 1..Len(text) => text[h] \in Space
          /\ b + 1 \in 1..Len(text) => text[b + 1] \in Space
  BY FieldFacts
<1>3. Len(text) \in Nat /\ h \in Nat /\ b \in Nat /\ h <= b
  BY <1>2, WordFacts
<1>4. /\ f \in Spellings /\ Len(f) = b - h
      /\ \A k \in 1..b - h : f[k] = text[h + k]
  BY <1>2, <1>3, SliceFacts
<1>5. t \in Spellings /\ Len(t) > 0
  <2>1. \E p, q \in 1..Len(f) : t = SubSeq(f, p, q) /\ p <= q
    <3>1. Len(Index!Trim(f, Quotes)) > 0
      BY <1>1
    <3>. QED
      BY <1>1, <1>4, <3>1, TrimFacts
  <2>2. PICK p \in 1..Len(f), q \in 1..Len(f) : t = SubSeq(f, p, q)
    BY <2>1
  <2>3. p \in DOMAIN f /\ q \in DOMAIN f
    BY <1>4, WordFacts
  <2>4. t \in Spellings
    BY <1>4, <2>2, <2>3, SliceIsWord
  <2>5. Len(t) \in Nat
    BY <2>4, WordFacts
  <2>. QED
    BY <1>1, <2>4, <2>5
<1>6. PICK p \in 1..Len(f), q \in 1..Len(f) :
          /\ p <= q /\ t = SubSeq(f, p, q)
          /\ p - 1 \in 1..Len(f) => f[p - 1] \in Quotes
          /\ q + 1 \in 1..Len(f) => f[q + 1] \in Quotes
  BY <1>1, <1>4, <1>5, TrimFacts
<1>7. /\ p \in Nat /\ q \in Nat /\ 1 <= p /\ q <= b - h /\ 1 <= q /\ Len(f) \in Nat
  BY <1>3, <1>4, <1>6
<1>8. Len(t) = q - p + 1 /\ \A k \in 1..q - p + 1 : t[k] = f[p - 1 + k]
  <2>1. PICK o : o = p - 1
    OBVIOUS
  <2>2. o \in 0..Len(f) /\ q \in 0..Len(f) /\ o <= q /\ o + 1 = p /\ q - o = q - p + 1
    BY <1>6, <1>7, <2>1
  <2>3. t = SubSeq(f, o + 1, q)
    BY <1>6, <2>2
  <2>4. Len(t) = q - o /\ \A k \in 1..q - o : t[k] = f[o + k]
    BY <1>4, <2>2, <2>3, SliceFacts
  <2>. QED
    BY <2>1, <2>2, <2>4
<1>9. PICK x, y : x = h + p /\ y = h + q
  OBVIOUS
<1>10. x \in 1..Len(text) /\ y \in 1..Len(text) /\ x <= y /\ y - x = q - p
  BY <1>3, <1>6, <1>7, <1>9
<1>11. \A k \in 1..q - p + 1 : t[k] = text[x - 1 + k]
  <2> SUFFICES ASSUME NEW k \in 1..q - p + 1 PROVE t[k] = text[x - 1 + k]
    OBVIOUS
  <2>1. p - 1 + k \in 1..b - h /\ h + (p - 1 + k) = x - 1 + k
    BY <1>3, <1>6, <1>7, <1>9
  <2>. QED
    BY <1>4, <1>8, <2>1
<1>12. \A k \in x..y : text[k] \in Wordly
  <2> SUFFICES ASSUME NEW k \in x..y PROVE text[k] \in Wordly
    OBVIOUS
  <2>1. PICK m : m = k - x + 1
    OBVIOUS
  <2>2. m \in 1..q - p + 1 /\ x - 1 + m = k
    BY <1>10, <2>1
  <2>3. m \in DOMAIN t
    BY <1>5, <1>8, <2>2, WordFacts
  <2>. QED
    BY <1>11, <2>2, <2>3
<1>13. x - 1 \in 1..Len(text) => text[x - 1] \notin Wordly
  <2>1. CASE p = 1
    <3>1. x - 1 = h
      BY <1>3, <1>9, <2>1
    <3>. QED
      BY <1>2, <3>1, CharactersAssumption
  <2>2. CASE p # 1
    <3>1. p - 1 \in 1..Len(f) /\ p - 1 \in 1..b - h /\ h + (p - 1) = x - 1
      BY <1>3, <1>4, <1>7, <1>9, <2>2, <1>6
    <3>2. f[p - 1] = text[x - 1] /\ f[p - 1] \in Quotes
      BY <1>4, <1>6, <3>1
    <3>. QED
      BY <3>2, CharactersAssumption
  <2>. QED
    BY <2>1, <2>2
<1>14. y + 1 \in 1..Len(text) => text[y + 1] \notin Wordly
  <2>1. CASE q = b - h
    <3>1. y + 1 = b + 1
      BY <1>3, <1>9, <2>1
    <3>. QED
      BY <1>2, <3>1, CharactersAssumption
  <2>2. CASE q # b - h
    <3>1. q + 1 \in 1..Len(f) /\ q + 1 \in 1..b - h /\ h + (q + 1) = y + 1
      BY <1>3, <1>4, <1>7, <1>9, <2>2
    <3>2. f[q + 1] = text[y + 1] /\ f[q + 1] \in Quotes
      BY <1>4, <1>6, <3>1
    <3>. QED
      BY <3>2, CharactersAssumption
  <2>. QED
    BY <2>1, <2>2
<1>15. <<x, y>> \in Index!Runs(text, Wordly)
  BY <1>10, <1>12, <1>13, <1>14, RunFacts
<1>16. x \in Index!Starts(text) /\ Index!WordAt(text, x) = SubSeq(text, x, y)
  BY <1>15, RunIsWord
<1>17. SubSeq(text, x, y) = t
  <2>1. PICK o : o = x - 1
    OBVIOUS
  <2>2. o \in 0..Len(text) /\ y \in 0..Len(text) /\ o <= y /\ o + 1 = x /\ y - o = q - p + 1
    BY <1>3, <1>6, <1>7, <1>10, <2>1
  <2>3. /\ SubSeq(text, o + 1, y) \in Spellings /\ Len(SubSeq(text, o + 1, y)) = y - o
        /\ \A k \in 1..y - o : SubSeq(text, o + 1, y)[k] = text[o + k]
    BY <2>2, SliceFacts
  <2>4. PICK u : u = SubSeq(text, x, y)
    OBVIOUS
  <2>5. /\ u \in Spellings /\ Len(u) = Len(t)
        /\ \A k \in 1..Len(t) : u[k] = text[x - 1 + k]
    BY <1>8, <2>1, <2>2, <2>3, <2>4
  <2>6. \A k \in 1..Len(u) : u[k] = t[k]
    BY <1>8, <1>11, <2>5
  <2>7. u = t
    BY <1>5, <2>5, <2>6, SameWord
  <2>. QED
    BY <2>4, <2>7
<1>18. Index!Indexable(t)
  <2>1. Len(t) \in Nat
    BY <1>5, WordFacts
  <2>. QED
    BY <1>1, <1>5, <2>1, IndexableMeans
<1>. QED
  BY <1>5, <1>16, <1>17, <1>18, OwnTerms

LEMMA SearchInvScans == SearchInv => Index!ScanFindsNoLess
<1> SUFFICES ASSUME SearchInv, iPhase = "ready", NEW text \in Queries,
                    \A t \in Index!ScanTerms(text) :
                        Len(t) <= MaxTerm /\ \A i \in DOMAIN t : t[i] \in Wordly,
                    NEW d \in DOMAIN docs,
                    \A i \in DOMAIN Index!Tokenize(text) :
                        d \in DOMAIN Index!MatchPrefix(Index!Tokenize(text)[i])
             PROVE  Index!ScanFinds(docs[d], text)
  BY DEF Index!ScanFindsNoLess
<1>1. Files /\ Searchable
  BY DEF SearchInv, Sorting
<1>2. d \in 1..Len(docs) /\ Body(d) \in Spellings /\ tree[docs[d]].kind = "text"
  BY <1>1, BodyFacts DEF Files
<1>3. text \in Spellings
  BY QueriesAssumption
<1>4. ASSUME NEW t \in Index!ScanTerms(text)
      PROVE  Index!Within(t, Body(d))
  <2>1. t \in Spellings /\ t \in Index!Terms(text)
    BY <1>3, ScanTermIsTerm
  <2>4. PICK m \in 1..Len(Index!Tokenize(text)) : Index!Tokenize(text)[m] = t
    BY <1>3, <2>1, TokenizeGivesTerms
  <2>5. m \in DOMAIN Index!Tokenize(text)
    BY <1>3, <2>4, TokenizeGivesTerms, ReadingFacts
  <2>6. Index!Occurrences(t, d) > 0
    <3>1. d \in DOMAIN Index!MatchPrefix(t)
      BY <2>4, <2>5
    <3>. QED
      BY <1>1, <1>2, <2>1, <3>1, MatchPrefixCounts
  <2>7. PICK u \in Index!Terms(Body(d)) : Index!IsPrefix(t, u)
    BY <1>1, <1>2, <2>6, AtFacts
  <2>8. u \in Spellings /\ \E j \in Index!Starts(Body(d)) : Index!Within(u, Index!WordAt(Body(d), j))
    BY <1>2, TermsFacts
  <2>9. PICK j \in Index!Starts(Body(d)) : Index!Within(u, Index!WordAt(Body(d), j))
    BY <2>8
  <2>10. PICK w : w = Index!WordAt(Body(d), j)
    OBVIOUS
  <2>11. w \in Spellings /\ Index!Within(w, Body(d)) /\ Index!Within(u, w)
    BY <1>2, <2>9, <2>10, StartFacts
  <2>12. Index!Within(t, w)
    BY <2>1, <2>7, <2>8, <2>11, BegunIsWithin
  <2>. QED
    BY <1>2, <2>1, <2>11, <2>12, WithinWithin
<1>. QED
  BY <1>2, <1>4 DEF Index!ScanFinds, Body

-----------------------------------------------------------------------------
(* The theorems.                                                           *)

(* Every variable keeps its type; the loader never runs past what is there. *)
THEOREM TypeCorrect == IndexSpec => []TypeOK
<1>1. QED BY IInvTypes, IInvHolds, PTL

(* Whatever the index, what Load puts together is what Build made: the
   differences of WriteFile add up to the documents again, for any width of
   the numbers. *)
THEOREM LoadRestores == IndexSpec => []LoadedIsBuilt
<1>1. IInv => LoadedIsBuilt
  <2> SUFFICES ASSUME IInv, phase = "loaded" PROVE LoadedIsBuilt
    BY DEF LoadedIsBuilt
  <2>1. place.part = "end" /\ DocsLoaded(place) /\ TermsLoaded(place)
        /\ PostingsLoaded(place)
    BY DEF IInv, Follows, Loaded
  <2>2. QED BY <2>1 DEF DocsLoaded, TermsLoaded, PostingsLoaded, LoadedIsBuilt
<1>2. QED BY <1>1, IInvHolds, PTL

(* A file that lost any of its items is never taken for an index, whatever
   was written before (Load's error returns). *)
THEOREM CutFilesAreRefused == IndexSpec => []CutIsRefused
<1>1. IInv => CutIsRefused
  <2> SUFFICES ASSUME IInv, phase = "loaded"
               PROVE  at.part = "end" /\ flushed = Len(file) /\ taken = flushed
    BY DEF CutIsRefused
  <2>1. place.part = "end" /\ at.part = "end"
    BY DEF IInv, Follows, Kept
  <2>2. QED BY <2>1, EndIsTheEnd
<1>2. QED BY <1>1, IInvHolds, PTL

(* An index is refused only after a power failure: Load understands whatever
   WriteFile wrote and the run published. *)
THEOREM WholeFilesAreLoaded == IndexSpec => []RefusedOnlyIfLost
<1>1. IndexInit => RefusedOnlyIfLost
  BY DEF IndexInit, Init, FileOver, RefusedOnlyIfLost
<1>2. IInv /\ RefusedOnlyIfLost /\ [IndexNext]_<<vars, indexVars>> => RefusedOnlyIfLost'
  <2>0. [IndexNext]_<<vars, indexVars>> => [Next]_vars
    BY DEF IndexNext
  <2> SUFFICES ASSUME IInv, RefusedOnlyIfLost, [Next]_vars, phase' = "refused", ~ lost'
               PROVE  FALSE
    BY <2>0 DEF RefusedOnlyIfLost
  <2>1. phase # "refused" => Refuse
    BY DEF Next, Write, Read, Put, Spill, Break, Flush, LosePower, Open, Take,
           TakeMagic, TakeDocs, TakeSelector, TakeTitle, TakeTerms, TakeTerm,
           TakeCount, TakeDelta, TakeFreq, Finish, vars
  <2>2. lost => lost'
    BY DEF Next, Write, Read, Put, Spill, Break, Flush, LosePower, Open, Take,
           TakeMagic, TakeDocs, TakeSelector, TakeTitle, TakeTerms, TakeTerm,
           TakeCount, TakeDelta, TakeFreq, Finish, Refuse, vars, disk
  <2>3. Refuse /\ ~ lost
    BY <2>1, <2>2 DEF RefusedOnlyIfLost
  <2>4. phase = "load" /\ place.part # "end" /\ taken = flushed
    BY <2>3 DEF Refuse
  <2>5. flushed = Len(file) /\ at.part = "end"
    BY <2>3, <2>4 DEF IInv, Kept
  <2>6. QED BY <2>4, <2>5, EndIsTheEnd
<1>3. QED BY <1>1, <1>2, IInvHolds, PTL DEF IndexSpec

(* Exactly the files that lost something are refused. *)
THEOREM RefusalHolds == IndexSpec => []RefusalIsRight
<1>1. CutIsRefused /\ RefusedOnlyIfLost => RefusalIsRight
  BY DEF RefusalIsRight
<1>2. QED BY <1>1, CutFilesAreRefused, WholeFilesAreLoaded, PTL

(* The index is in order, and every word of every document that is neither
   too short nor too long finds it, and so does every such part of it, whatever the files are that
   were walked over (index.go's Build, Tokenize and matchPrefix). *)
THEOREM IndexIsAlwaysComplete == IndexSpec => []IndexIsComplete
<1>1. SearchInv => IndexIsComplete
  BY SearchInvTypes, SearchInvOrders, SearchInvFindsWords
     DEF IndexIsComplete, Index!IndexIsComplete
<1>. QED
  BY <1>1, SearchInvHolds, PTL

(* A query counts the documents that have every term of it and no others,
   shows the best of them first and drops none that is better than one it
   shows, and, when its terms are words for the scan of the built-in search
   too, finds nothing that the scan would not (index.go's Query, QueryN and
   matchPrefix, search.go's terms and match). *)
THEOREM AnswersAreAlwaysRight == IndexSpec => []AnswersAreRight
<1>1. SearchInv => AnswersAreRight
  BY SearchInvAnswers, SearchInvScans DEF AnswersAreRight, Index!AnswersAreRight
<1>. QED
  BY <1>1, SearchInvHolds, PTL

=============================================================================
