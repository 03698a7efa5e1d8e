------------------------------ MODULE DocsProof -----------------------------
(***************************************************************************)
(* Documents, for any files, toctrees, includes and labels, any number of  *)
(* workers, and any documents to convert: first Docs, then Rst, and last   *)
(* what the prose of a document needs: the lines a call reads, where its   *)
(* scans stop, and what its steps emit, construct by construct.            *)
(***************************************************************************)
EXTENDS Documents, SequenceTheorems, FiniteSetTheorems, FunctionTheorems,
        WellFoundedInduction, TLAPS

(* No document is in order twice. *)
Distinct == \A i, j \in DOMAIN order : order[i] = order[j] => i = j

(* Where in order the writing is, and what became of the documents before. *)
Writing ==
    /\ phase \in {"list", "fetch", "walk"} => at = 1
    /\ phase \in {"text", "menu"} => at <= Len(order)
    /\ phase = "done" => at = Len(order) + 1
    /\ phase = "menu" => order[at] \in texts
    /\ \A i \in 1..at - 1 : order[i] \in menus \cup skipped

(* A file of the listing is to be sent, held by one worker, or asked for. *)
Held(f) == \E w \in Workers : worker[w] = f
Accounting ==
    /\ phase = "list" => sent = 0
    /\ phase # "fetch" => \A f \in Listed : ~Held(f)
    /\ \A v, w \in Workers : worker[v] = worker[w] /\ worker[v] \in Listed => v = w
    /\ phase \in {"list", "fetch"} => \A f \in Listed :
          asked[f] = IF f <= sent /\ ~Held(f) THEN 1 ELSE 0
    /\ phase \in {"list", "fetch"} => \A f \in Listed : f > sent => ~Held(f)
    /\ phase \notin {"list", "fetch", "failed"} =>
          \A f \in Listed : asked[f] >= 1

(* What has been asked for how often, and whether it came. *)
Asking ==
    /\ docs \subseteq sources
    /\ phase \in {"list", "fetch"} => docs = {}
    /\ \A f \in Extras : f \in sources \/ asked[f] = 0
    /\ \A f \in Extras : asked[f] <= 1
    /\ \A f \in Listed : asked[f] <= 2
    /\ \A f \in Listed : asked[f] = 2 => f \in sources \ docs

(* The walk between two calls: what is listed has been met or is to come, and
   what is to come is listed. *)
Met == Range(order) \cup Range(agenda)
Walking ==
    /\ phase \in {"list", "fetch", "failed"} => order = <<>>
    /\ phase = "walk" =>
        /\ Range(order) \subseteq docs
        /\ Entry \in docs => Entry \in Met
        /\ \A p \in Range(order) : Range(children[p]) \cap docs \subseteq Met
        /\ \A c \in Range(agenda) \ {Entry} : \E p \in Range(order) : Lists(p, c)
        /\ \A S \in SUBSET docs :
               (Closed(S) /\ (Entry \in docs => Entry \in S)) =>
                   Range(order) \subseteq S

(* Whoever is in order but the entry point is listed by one before. *)
Connected ==
    \A i \in DOMAIN order :
        order[i] # Entry => \E j \in 1..i - 1 : Lists(order[j], order[i])

(* The stack of calls: before a child in docs that is not yet met comes only
   what the same document lists earlier or a later one lists. *)
Stacked ==
    phase = "walk" => \A i \in DOMAIN order : \A x \in DOMAIN children[order[i]] :
        children[order[i]][x] \in docs \ Range(order) =>
            \E y \in DOMAIN agenda :
                /\ agenda[y] = children[order[i]][x]
                /\ \A z \in 1..y - 1 :
                    \/ \E m \in DOMAIN order : m > i /\ Lists(order[m], agenda[z])
                    \/ \E u \in 1..x - 1 : children[order[i]][u] = agenda[z]

(* DepthFirst, of the documents that are not yet met. *)
DepthFirstSoFar ==
    phase = "walk" => \A c \in docs \ Range(order) : \A i, j \in DOMAIN order :
        (i < j /\ ListsBefore(order[i], c, order[j])) =>
            \E m \in i + 1..j - 1 : Lists(order[m], order[j])

IInv ==
    /\ TypeOK
    /\ Distinct
    /\ Writing
    /\ Accounting
    /\ Asking
    /\ Walking
    /\ Connected
    /\ Stacked
    /\ DepthFirstSoFar
    /\ DepthFirst

-----------------------------------------------------------------------------
LEMMA SeqDomain ==
    ASSUME NEW S, NEW s \in Seq(S)
    PROVE  /\ DOMAIN s = 1..Len(s) /\ Len(s) \in Nat
           /\ \A i \in 1..Len(s) : s[i] \in S
           /\ Range(s) \subseteq S
BY LenProperties, ElementOfSeq DEF Range

LEMMA RangeHeadTail ==
    ASSUME NEW S, NEW s \in Seq(S), s # <<>>
    PROVE  /\ Head(s) \in S /\ Tail(s) \in Seq(S)
           /\ Range(s) = {Head(s)} \cup Range(Tail(s))
<1>1. /\ Head(s) \in S /\ Tail(s) \in Seq(S)
      /\ Len(Tail(s)) = Len(s) - 1
      /\ \A i \in 1..Len(Tail(s)) : Tail(s)[i] = s[i + 1]
  BY HeadTailProperties
<1>2. /\ DOMAIN s = 1..Len(s) /\ DOMAIN Tail(s) = 1..Len(Tail(s))
      /\ Len(s) \in Nat \ {0} /\ Head(s) = s[1]
  BY <1>1, LenProperties, EmptySeq
<1>3. ASSUME NEW x \in Range(s) PROVE x \in {Head(s)} \cup Range(Tail(s))
  <2>1. PICK i \in 1..Len(s) : x = s[i]
    BY <1>2 DEF Range
  <2>2. CASE i = 1
    BY <2>1, <2>2, <1>2
  <2>3. CASE i # 1
    <3>1. i - 1 \in 1..Len(Tail(s)) /\ Tail(s)[i - 1] = s[i]
      BY <2>3, <1>1, <1>2
    <3> QED BY <3>1, <2>1, <1>2 DEF Range
  <2> QED BY <2>2, <2>3
<1>4. ASSUME NEW x \in Range(Tail(s)) PROVE x \in Range(s)
  <2>1. PICK i \in 1..Len(Tail(s)) : x = Tail(s)[i]
    BY <1>2 DEF Range
  <2>2. i + 1 \in 1..Len(s) /\ s[i + 1] = x
    BY <2>1, <1>1, <1>2
  <2> QED BY <2>2, <1>2 DEF Range
<1>5. Head(s) \in Range(s)
  BY <1>2 DEF Range
<1> QED BY <1>1, <1>3, <1>4, <1>5

LEMMA RangeConcat ==
    ASSUME NEW S, NEW s \in Seq(S), NEW t \in Seq(S)
    PROVE  s \o t \in Seq(S) /\ Range(s \o t) = Range(s) \cup Range(t)
<1>1. /\ s \o t \in Seq(S)
      /\ Len(s \o t) = Len(s) + Len(t)
      /\ \A i \in 1..Len(s) + Len(t) :
             (s \o t)[i] = IF i <= Len(s) THEN s[i] ELSE t[i - Len(s)]
  BY ConcatProperties
<1>2. /\ DOMAIN s = 1..Len(s) /\ DOMAIN t = 1..Len(t) /\ Len(s) \in Nat /\ Len(t) \in Nat
      /\ DOMAIN (s \o t) = 1..Len(s) + Len(t)
  BY <1>1, LenProperties
<1>3. ASSUME NEW x \in Range(s \o t) PROVE x \in Range(s) \cup Range(t)
  <2>1. PICK i \in 1..Len(s) + Len(t) : x = (s \o t)[i]
    BY <1>2 DEF Range
  <2>2. CASE i <= Len(s)
    BY <2>1, <2>2, <1>1, <1>2 DEF Range
  <2>3. CASE ~(i <= Len(s))
    <3>1. i - Len(s) \in 1..Len(t) /\ x = t[i - Len(s)]
      BY <2>1, <2>3, <1>1, <1>2
    <3> QED BY <3>1, <1>2 DEF Range
  <2> QED BY <2>2, <2>3
<1>4. ASSUME NEW x \in Range(s) PROVE x \in Range(s \o t)
  <2>1. PICK i \in 1..Len(s) : x = s[i]
    BY <1>2 DEF Range
  <2>2. i \in 1..Len(s) + Len(t) /\ (s \o t)[i] = x
    BY <2>1, <1>1, <1>2
  <2> QED BY <2>2, <1>2 DEF Range
<1>5. ASSUME NEW x \in Range(t) PROVE x \in Range(s \o t)
  <2>1. PICK i \in 1..Len(t) : x = t[i]
    BY <1>2 DEF Range
  <2>2. Len(s) + i \in 1..Len(s) + Len(t) /\ (s \o t)[Len(s) + i] = x
    BY <2>1, <1>1, <1>2
  <2> QED BY <2>2, <1>2 DEF Range
<1> QED BY <1>1, <1>3, <1>4, <1>5

LEMMA RangeAppend ==
    ASSUME NEW S, NEW s \in Seq(S), NEW x \in S
    PROVE  /\ Append(s, x) \in Seq(S) /\ Len(Append(s, x)) = Len(s) + 1
           /\ Append(s, x)[Len(s) + 1] = x
           /\ \A i \in 1..Len(s) : Append(s, x)[i] = s[i]
           /\ Range(Append(s, x)) = Range(s) \cup {x}
<1>1. /\ Append(s, x) \in Seq(S) /\ Len(Append(s, x)) = Len(s) + 1
      /\ Append(s, x)[Len(s) + 1] = x
      /\ \A i \in 1..Len(s) : Append(s, x)[i] = s[i]
      /\ Len(s) \in Nat
  BY LenProperties
<1>2. /\ DOMAIN Append(s, x) = 1..Len(s) + 1 /\ DOMAIN s = 1..Len(s)
  BY <1>1, LenProperties
<1>3. ASSUME NEW y \in Range(Append(s, x)) PROVE y \in Range(s) \cup {x}
  <2>1. PICK i \in 1..Len(s) + 1 : y = Append(s, x)[i]
    BY <1>2 DEF Range
  <2> QED BY <2>1, <1>1, <1>2 DEF Range
<1>4. ASSUME NEW y \in Range(s) PROVE y \in Range(Append(s, x))
  <2>1. PICK i \in 1..Len(s) : y = s[i]
    BY <1>2 DEF Range
  <2>2. i \in 1..Len(s) + 1 /\ Append(s, x)[i] = y
    BY <2>1, <1>1
  <2> QED BY <2>2, <1>2 DEF Range
<1>5. x \in Range(Append(s, x))
  BY <1>1, <1>2 DEF Range
<1> QED BY <1>1, <1>3, <1>4, <1>5

LEMMA RstFilesFinite == IsFiniteSet(RstFiles) /\ Cardinality(RstFiles) \in Nat
<1>1. IsFiniteSet(Listed)
  BY FilesAssumption, FS_Interval DEF Listed
<1>2. RstFiles \in SUBSET Listed
  BY FilesAssumption
<1> QED BY <1>1, <1>2, FS_Subset, FS_CardinalityType

LEMMA DistinctIsShort ==
    ASSUME NEW s \in Seq(RstFiles),
           \A i, j \in DOMAIN s : s[i] = s[j] => i = j
    PROVE  Len(s) <= Cardinality(RstFiles)
<1>0. s \in [1..Len(s) -> RstFiles] /\ DOMAIN s = 1..Len(s) /\ Len(s) \in Nat
  BY LenProperties
<1>1. s \in Injection(1..Len(s), RstFiles)
  BY <1>0 DEF Injection, IsInjective
<1>2. Cardinality(1..Len(s)) <= Cardinality(RstFiles)
  BY <1>1, RstFilesFinite, FS_Injection
<1>3. Cardinality(1..Len(s)) = Len(s)
  <2> DEFINE n == Len(s)
  <2>1. n \in Nat
    BY <1>0
  <2> HIDE DEF n
  <2>2. Cardinality(1..n) = IF 1 > n THEN 0 ELSE n - 1 + 1
    BY <2>1, FS_Interval
  <2>3. Cardinality(1..n) = n
    BY <2>1, <2>2
  <2> QED BY <2>3 DEF n
<1> QED BY <1>2, <1>3

LEMMA TruncatedType ==
    ASSUME NEW s \in Seq(RstFiles)
    PROVE  /\ Truncated(s) \in Seq(RstFiles) /\ Len(Truncated(s)) <= Len(s)
           /\ \A i \in 1..Len(Truncated(s)) : Truncated(s)[i] = s[i]
<1>0. Len(s) \in Nat /\ \A i \in 1..Len(s) : s[i] \in RstFiles
  BY SeqDomain
<1>1. CASE MaxDocs > 0 /\ Len(s) > MaxDocs
  <2>1. \A i \in 1..MaxDocs : s[i] \in RstFiles
    BY <1>0, <1>1, LimitsAssumption
  <2>2. /\ SubSeq(s, 1, MaxDocs) \in Seq(RstFiles)
        /\ Len(SubSeq(s, 1, MaxDocs)) = MaxDocs
        /\ \A i \in 1..MaxDocs - 1 + 1 : SubSeq(s, 1, MaxDocs)[i] = s[1 + i - 1]
    BY <2>1, <1>1, LimitsAssumption, SubSeqProperties
  <2> QED BY <2>2, <1>0, <1>1, LimitsAssumption DEF Truncated
<1>2. CASE ~(MaxDocs > 0 /\ Len(s) > MaxDocs)
  BY <1>0, <1>2 DEF Truncated
<1> QED BY <1>1, <1>2

LEMMA TurnType ==
    ASSUME NEW o \in Seq(RstFiles), NEW i \in 1..Len(o) + 1, Turn(o, i)
    PROVE  /\ at' = i
           /\ pending' \subseteq Files
           /\ \/ phase' = "text" /\ i <= Len(o)
              \/ phase' = "done" /\ i = Len(o) + 1
<1>1. Len(o) \in Nat /\ \A j \in 1..Len(o) : o[j] \in RstFiles
  BY SeqDomain
<1>2. i <= Len(o) => Includes[o[i]] \subseteq Files
  BY <1>1, TextsAssumption
<1> QED BY <1>1, <1>2 DEF Turn

-----------------------------------------------------------------------------
(* At the start, and when the listing did not come. *)
LEMMA InitInv ==
    ASSUME Untouched, phase \in {"list", "failed"}
    PROVE  IInv
<1>1. <<>> \in Seq(RstFiles) /\ Len(<<>>) = 0 /\ DOMAIN <<>> = {} /\ Range(<<>>) = {}
  BY DEF Range
<1>2. TypeOK
  BY <1>1, RstFilesFinite, FilesAssumption DEF Untouched, TypeOK, Idle, Gone
<1>3. Distinct /\ Connected
  BY <1>1 DEF Untouched, Distinct, Connected
<1>4. Writing
  BY DEF Untouched, Writing
<1>5. Accounting
  BY FilesAssumption DEF Untouched, Accounting, Held, Listed, Files, Idle
<1>6. Asking
  BY DEF Untouched, Asking, Files
<1>7. Walking
  BY <1>1 DEF Untouched, Walking
<1>8. Stacked /\ DepthFirstSoFar /\ DepthFirst
  BY <1>1 DEF Untouched, Stacked, DepthFirstSoFar, DepthFirst
<1> QED BY <1>2, <1>3, <1>4, <1>5, <1>6, <1>7, <1>8 DEF IInv

-----------------------------------------------------------------------------
LEMMA DistinctStep ==
    ASSUME TypeOK, Distinct, [Next]_vars
    PROVE  Distinct'
<1>1. CASE order' = order
  BY <1>1 DEF Distinct
<1>2. CASE Visit
  <2>1. ASSUME order' = Append(order, Head(agenda)), Head(agenda) \notin Range(order),
               agenda # <<>>
        PROVE  Distinct'
    <3>1. /\ order \in Seq(RstFiles) /\ Head(agenda) \in RstFiles
          /\ Len(order) \in Nat /\ DOMAIN order = 1..Len(order)
      BY <2>1, RangeHeadTail, SeqDomain DEF TypeOK
    <3>2. /\ DOMAIN order' = 1..Len(order) + 1
          /\ order'[Len(order) + 1] = Head(agenda)
          /\ \A i \in 1..Len(order) : order'[i] = order[i]
      BY <2>1, <3>1, RangeAppend, SeqDomain
    <3>3. \A i \in 1..Len(order) : order[i] # Head(agenda)
      BY <2>1, <3>1 DEF Range
    <3> QED BY <3>1, <3>2, <3>3 DEF Distinct
  <2> QED BY <1>1, <1>2, <2>1 DEF Visit, Skippable
<1>3. CASE StartWriting
  <2>1. /\ Len(order') <= Len(order) /\ order' \in Seq(RstFiles)
        /\ \A i \in 1..Len(order') : order'[i] = order[i]
    BY <1>3, TruncatedType DEF StartWriting, TypeOK
  <2>2. /\ DOMAIN order' = 1..Len(order') /\ DOMAIN order = 1..Len(order)
        /\ Len(order') \in Nat /\ Len(order) \in Nat
    BY <2>1, SeqDomain DEF TypeOK
  <2> QED BY <2>1, <2>2 DEF Distinct
<1> QED BY <1>1, <1>2, <1>3
        DEF Next, Main, Fetch, List, Take, Deliver, Return, Collect, Include,
            WriteText, WriteMenu, WriteFails, walkVars, vars

LEMMA TypeStep ==
    ASSUME TypeOK, Distinct, Writing, [Next]_vars
    PROVE  TypeOK'
<1> USE DEF TypeOK
<1>0. Len(order) \in Nat /\ \A i \in 1..Len(order) : order[i] \in RstFiles
  BY SeqDomain
<1>1. CASE List
  BY <1>1 DEF List, fetchVars, graphVars, walkVars, writeVars
<1>2. ASSUME NEW w \in Workers, Take(w) PROVE TypeOK'
  <2>1. sent + 1 \in Listed /\ sent' \in 0..NListed
    BY <1>2, FilesAssumption DEF Take, Listed
  <2> QED BY <1>2, <2>1 DEF Take, graphVars, walkVars, writeVars
<1>3. ASSUME NEW w \in Workers, Deliver(w) PROVE TypeOK'
  BY <1>3 DEF Deliver, Files, graphVars, walkVars, writeVars
<1>4. ASSUME NEW w \in Workers, Return(w) PROVE TypeOK'
  BY <1>4 DEF Return, graphVars, walkVars, writeVars
<1>5. CASE Collect
  <2>1. agenda' \in Seq(RstFiles)
    <3>1. <<Entry>> \in Seq(RstFiles)
      BY FilesAssumption
    <3> QED BY <3>1, <1>5 DEF Collect
  <2>2. docs' \subseteq RstFiles /\ children' \in [RstFiles -> Seq(RstFiles)]
    BY <1>5, TextsAssumption DEF Collect, ParseDocs, graphVars
  <2> QED BY <1>5, <2>1, <2>2 DEF Collect, fetchVars, writeVars
<1>6. CASE Visit
  <2>1. Head(agenda) \in RstFiles /\ Tail(agenda) \in Seq(RstFiles)
    BY <1>6, RangeHeadTail DEF Visit
  <2>2. children[Head(agenda)] \o Tail(agenda) \in Seq(RstFiles)
    BY <2>1, RangeConcat
  <2>3. order' \in Seq(RstFiles) /\ agenda' \in Seq(RstFiles) /\ Len(order') >= Len(order)
    <3>1. /\ Append(order, Head(agenda)) \in Seq(RstFiles)
          /\ Len(Append(order, Head(agenda))) = Len(order) + 1
      BY <2>1, RangeAppend
    <3>2. order' = order \/ order' = Append(order, Head(agenda))
      BY <1>6 DEF Visit
    <3>3. agenda' \in {Tail(agenda), children[Head(agenda)] \o Tail(agenda)}
      BY <1>6 DEF Visit
    <3>4. agenda' \in Seq(RstFiles)
      BY <3>3, <2>1, <2>2
    <3>5. CASE order' = order
      BY <1>0, <3>4, <3>5
    <3>6. CASE order' = Append(order, Head(agenda))
      <4>1. Len(order') = Len(order) + 1 /\ order' \in Seq(RstFiles)
        BY <3>1, <3>6
      <4> QED BY <1>0, <3>4, <4>1
    <3> QED BY <3>2, <3>5, <3>6
  <2>4. Len(order') <= Cardinality(RstFiles)
    BY <2>3, DistinctStep, DistinctIsShort DEF Distinct
  <2>5. at' \in 1..Len(order') + 1
    <3>1. Len(order') \in Nat
      BY <2>3, SeqDomain
    <3> QED BY <1>0, <2>3, <3>1, <1>6 DEF Visit, writeVars
  <2> QED BY <1>6, <2>3, <2>4, <2>5 DEF Visit, fetchVars, graphVars, writeVars
<1>7. CASE StartWriting
  <2>1. order' \in Seq(RstFiles) /\ Len(order') <= Len(order) /\ Len(order') \in Nat
    BY <1>7, TruncatedType, SeqDomain DEF StartWriting
  <2>2. at' = 1 /\ pending' \subseteq Files /\ phase' \in {"text", "done"}
    BY <1>7, <2>1, TurnType DEF StartWriting
  <2>3. Len(order') <= Cardinality(RstFiles)
    BY <2>1, <1>0, RstFilesFinite
  <2> QED BY <1>7, <2>1, <2>2, <2>3 DEF StartWriting, fetchVars, graphVars
<1>8. CASE Include
  BY <1>8 DEF Include, fetchVars, graphVars, walkVars
<1>9. ASSUME WriteMenu \/ WriteFails PROVE TypeOK'
  <2>1. at \in 1..Len(order) /\ order[at] \in RstFiles
    BY <1>9, <1>0 DEF WriteMenu, WriteFails, Writing
  <2>2. /\ at' \in 1..Len(order) + 1 /\ pending' \subseteq Files
        /\ phase' \in {"text", "done"}
    BY <1>9, <1>0, <2>1, TurnType DEF WriteMenu, WriteFails
  <2>3. menus' \subseteq texts' /\ texts' \subseteq RstFiles /\ skipped' \subseteq RstFiles
    BY <1>9, <2>1 DEF WriteMenu, WriteFails, Writing
  <2> QED BY <1>9, <2>2, <2>3 DEF WriteMenu, WriteFails, fetchVars, graphVars, walkVars
<1>10. CASE WriteText
  <2>1. order[at] \in RstFiles
    BY <1>10, <1>0 DEF WriteText, Writing
  <2> QED BY <1>10, <2>1 DEF WriteText, fetchVars, graphVars, walkVars
<1>11. CASE UNCHANGED vars
  BY <1>11 DEF vars
<1> QED BY <1>1, <1>2, <1>3, <1>4, <1>5, <1>6, <1>7, <1>8, <1>9, <1>10, <1>11
        DEF Next, Main, Fetch

LEMMA WritingStep ==
    ASSUME TypeOK, Writing, [Next]_vars
    PROVE  Writing'
<1> USE DEF Writing
<1>0. Len(order) \in Nat /\ at \in Nat /\ at >= 1
  BY SeqDomain DEF TypeOK
<1>1. CASE UNCHANGED <<order, writeVars>> /\ phase' = phase
  BY <1>1 DEF writeVars
<1>2. CASE List
  BY <1>2 DEF List, walkVars, writeVars
<1>3. CASE Collect
  BY <1>3 DEF Collect, writeVars
<1>4. CASE Visit
  BY <1>4, <1>0 DEF Visit, writeVars
<1>5. CASE StartWriting
  <2>1. order' \in Seq(RstFiles) /\ Len(order') \in Nat
    BY <1>5, TruncatedType, SeqDomain DEF StartWriting, TypeOK
  <2>2. /\ at' = 1
        /\ \/ phase' = "text" /\ 1 <= Len(order')
           \/ phase' = "done" /\ 1 = Len(order') + 1
    BY <1>5, <2>1, TurnType DEF StartWriting
  <2> QED BY <2>1, <2>2
<1>6. CASE Include
  BY <1>6 DEF Include, walkVars
<1>7. CASE WriteText
  BY <1>7 DEF WriteText, walkVars
<1>8. ASSUME WriteMenu \/ WriteFails PROVE Writing'
  <2>1. at \in 1..Len(order)
    BY <1>8, <1>0 DEF WriteMenu, WriteFails
  <2>2. order' = order
    BY <1>8 DEF WriteMenu, WriteFails, walkVars
  <2>3. /\ at' = at + 1
        /\ \/ phase' = "text" /\ at + 1 <= Len(order)
           \/ phase' = "done" /\ at + 1 = Len(order) + 1
    BY <1>8, <1>0, <2>1, TurnType DEF WriteMenu, WriteFails, TypeOK
  <2>4. \A i \in 1..at : order[i] \in menus' \cup skipped'
    BY <1>8, <1>0 DEF WriteMenu, WriteFails
  <2> QED BY <1>0, <2>2, <2>3, <2>4
<1> QED BY <1>1, <1>2, <1>3, <1>4, <1>5, <1>6, <1>7, <1>8
        DEF Next, Main, Fetch, Take, Deliver, Return, walkVars, vars, writeVars

LEMMA AccountingStep ==
    ASSUME TypeOK, Accounting, [Next]_vars
    PROVE  Accounting'
<1> USE DEF Accounting, Held
<1>0. /\ sent \in 0..NListed /\ NListed \in Nat
      /\ Idle \notin Listed /\ Gone \notin Listed
      /\ asked \in [Files -> Nat] /\ Listed \subseteq Files
      /\ worker \in [Workers -> Listed \cup {Idle, Gone}]
  BY FilesAssumption DEF TypeOK, Idle, Gone, Listed, Files
<1>1. CASE List
  BY <1>1, <1>0 DEF List, fetchVars, Listed
<1>2. ASSUME NEW w \in Workers, Take(w) PROVE Accounting'
  <2>1. /\ phase = "fetch" /\ phase' = phase /\ asked' = asked
        /\ worker[w] = Idle /\ sent' = sent + 1
        /\ worker' = [worker EXCEPT ![w] = sent + 1]
        /\ sent + 1 \in Listed
    BY <1>2, <1>0 DEF Take, Listed
  <2>2. \A f \in Listed : Held(f)' <=> Held(f) \/ f = sent + 1
    BY <2>1, <1>0
  <2>3. ~Held(sent + 1) /\ asked[sent + 1] = 0
    BY <2>1, <1>0 DEF Listed
  <2> QED BY <1>0, <2>1, <2>2, <2>3 DEF Listed
<1>3. ASSUME NEW w \in Workers, Deliver(w) PROVE Accounting'
  <2> DEFINE f == worker[w]
  <2>1. /\ f \in Listed /\ phase' = phase /\ sent' = sent
        /\ asked' = [asked EXCEPT ![f] = @ + 1]
        /\ worker' = [worker EXCEPT ![w] = Idle]
        /\ phase = "fetch"
    BY <1>3, <1>0 DEF Deliver
  <2>2. \A g \in Listed : Held(g)' <=> Held(g) /\ g # f
    BY <2>1, <1>0
  <2>3. Held(f) /\ f <= sent /\ asked[f] = 0
    BY <2>1, <1>0 DEF Listed
  <2>4. \A g \in Listed : asked'[g] = IF g = f THEN 1 ELSE asked[g]
    BY <2>1, <2>3, <1>0
  <2> QED BY <1>0, <2>1, <2>2, <2>3, <2>4
<1>4. ASSUME NEW w \in Workers, Return(w) PROVE Accounting'
  <2>1. /\ phase = "fetch" /\ phase' = phase /\ sent' = sent /\ asked' = asked
        /\ worker[w] = Idle /\ worker' = [worker EXCEPT ![w] = Gone]
    BY <1>4 DEF Return
  <2>2. \A g \in Listed : Held(g)' <=> Held(g)
    BY <2>1, <1>0
  <2> QED BY <1>0, <2>1, <2>2
<1>5. CASE Collect
  <2>1. \A f \in Listed : ~Held(f) /\ f <= sent
    BY <1>5, <1>0 DEF Collect, Listed
  <2>2. \A f \in Listed : asked[f] = 1
    BY <2>1, <1>5 DEF Collect
  <2> QED BY <1>5, <2>1, <2>2, <1>0 DEF Collect, fetchVars
<1>6. CASE Visit
  BY <1>6 DEF Visit, fetchVars
<1>7. CASE StartWriting
  <2>1. phase' \in {"text", "done"}
    BY <1>7 DEF StartWriting, Turn
  <2> QED BY <1>7, <2>1 DEF StartWriting, fetchVars
<1>8. CASE Include
  <2>0. asked' = asked \/ \E g \in Files : asked' = [asked EXCEPT ![g] = @ + 1]
    BY <1>8 DEF Include, TypeOK
  <2>1. \A f \in Listed : asked'[f] >= asked[f]
    BY <2>0, <1>0
  <2>2. \A f \in Listed : asked'[f] >= 1
    <3>1. \A f \in Listed : asked[f] >= 1
      BY <1>8 DEF Include
    <3>2. \A f \in Listed : asked'[f] \in Nat
      BY <2>0, <1>0
    <3> QED BY <2>1, <3>1, <3>2, <1>0
  <2> QED BY <1>8, <2>2 DEF Include, fetchVars
<1>9. CASE WriteText
  BY <1>9 DEF WriteText, fetchVars
<1>10. ASSUME WriteMenu \/ WriteFails PROVE Accounting'
  <2>1. phase' \in {"text", "done"} /\ phase \in {"text", "menu"}
    BY <1>10 DEF WriteMenu, WriteFails, Turn
  <2> QED BY <1>10, <2>1 DEF WriteMenu, WriteFails, fetchVars
<1>11. CASE UNCHANGED vars
  BY <1>11 DEF vars, fetchVars
<1> QED BY <1>1, <1>2, <1>3, <1>4, <1>5, <1>6, <1>7, <1>8, <1>9, <1>10, <1>11
        DEF Next, Main, Fetch

LEMMA AskingStep ==
    ASSUME TypeOK, Accounting, Asking, [Next]_vars
    PROVE  Asking'
<1> USE DEF Asking
<1>0. /\ asked \in [Files -> Nat] /\ Files = Listed \cup Extras
      /\ \A f \in Extras : f \notin Listed
      /\ docs \subseteq RstFiles /\ RstFiles \subseteq Listed
  BY FilesAssumption DEF TypeOK, Files
<1>1. CASE List
  BY <1>1 DEF List, graphVars
<1>2. ASSUME NEW w \in Workers, Deliver(w) PROVE Asking'
  <2> DEFINE f == worker[w]
  <2>1. /\ f \in Listed /\ phase' = phase /\ docs' = docs
        /\ asked' = [asked EXCEPT ![f] = @ + 1]
        /\ sources \subseteq sources'
    BY <1>2 DEF Deliver, graphVars
  <2>2. phase = "fetch" /\ Held(f)
    BY <2>1 DEF Accounting, Held
  <2>3. asked[f] = 0
    BY <2>1, <2>2, <1>0 DEF Accounting
  <2>4. \A g \in Files : asked'[g] = IF g = f THEN 1 ELSE asked[g]
    BY <2>1, <2>3, <1>0
  <2> QED BY <1>0, <2>1, <2>4
<1>3. ASSUME NEW w \in Workers, Take(w) \/ Return(w) PROVE Asking'
  BY <1>3 DEF Take, Return, graphVars
<1>4. CASE Collect
  <2>1. docs' \subseteq sources /\ sources' = sources /\ asked' = asked
        /\ phase' \in {"walk", "failed"}
    BY <1>4 DEF Collect, ParseDocs, graphVars
  <2>2. \A f \in Listed : asked[f] <= 1
    BY <1>0, <1>4 DEF Collect, Accounting
  <2>3. \A f \in Listed : asked[f] # 2
    BY <2>2, <1>0
  <2> QED BY <2>1, <2>3, <1>0
<1>5. CASE Include
  <2>1. phase = "text" /\ phase' = phase /\ docs' = docs /\ sources \subseteq sources'
    BY <1>5 DEF Include, graphVars
  <2>2. \/ asked' = asked /\ sources' = sources
        \/ \E f \in Files : /\ f \notin sources
                            /\ asked' = [asked EXCEPT ![f] = @ + 1]
                            /\ sources' = sources \cup {f}
    BY <1>5 DEF Include, TypeOK
  <2>3. CASE asked' = asked /\ sources' = sources
    BY <2>1, <2>3
  <2>4. ASSUME NEW f \in Files, f \notin sources,
               asked' = [asked EXCEPT ![f] = @ + 1], sources' = sources \cup {f}
        PROVE  Asking'
    <3>1. /\ f \notin docs
          /\ f \in Extras => asked[f] = 0
          /\ f \in Listed => asked[f] \in {0, 1}
      BY <2>4, <1>0
    <3>2. \A g \in Files : asked'[g] = IF g = f THEN asked[f] + 1 ELSE asked[g]
      BY <2>4, <1>0
    <3>3. \A g \in Extras : (g \in sources' \/ asked'[g] = 0) /\ asked'[g] <= 1
      BY <2>4, <3>1, <3>2, <1>0
    <3>4. \A g \in Listed : asked'[g] <= 2 /\ (asked'[g] = 2 => g \in sources' \ docs')
      BY <2>1, <2>4, <3>1, <3>2, <1>0
    <3> QED BY <2>1, <3>3, <3>4
  <2> QED BY <2>2, <2>3, <2>4
<1>6. CASE Visit
  BY <1>6 DEF Visit, graphVars
<1>7. ASSUME StartWriting \/ WriteMenu \/ WriteFails PROVE Asking'
  <2>1. phase' \in {"text", "done"}
    BY <1>7 DEF StartWriting, WriteMenu, WriteFails, Turn
  <2> QED BY <1>7, <2>1 DEF StartWriting, WriteMenu, WriteFails, graphVars
<1>8. CASE WriteText
  BY <1>8 DEF WriteText, graphVars
<1>9. CASE UNCHANGED vars
  BY <1>9 DEF vars, graphVars
<1> QED BY <1>1, <1>2, <1>3, <1>4, <1>5, <1>6, <1>7, <1>8, <1>9
        DEF Next, Main, Fetch

LEMMA ConnectedStep ==
    ASSUME TypeOK, Connected, Walking, [Next]_vars
    PROVE  Connected'
<1>0. Len(order) \in Nat /\ DOMAIN order = 1..Len(order)
  BY SeqDomain DEF TypeOK
<1>1. CASE order' = order /\ children' = children
  BY <1>1 DEF Connected, Lists
<1>2. CASE Collect
  <2>1. order' = <<>>
    BY <1>2 DEF Collect, Walking
  <2> QED BY <2>1 DEF Connected
<1>3. ASSUME Visit, order' # order PROVE Connected'
  <2> DEFINE d == Head(agenda)
  <2>1. /\ order' = Append(order, d) /\ children' = children
        /\ agenda # <<>> /\ phase = "walk"
    BY <1>3 DEF Visit, graphVars
  <2>2. d \in RstFiles /\ d \in Range(agenda)
    BY <2>1, RangeHeadTail DEF TypeOK
  <2>3. /\ DOMAIN order' = 1..Len(order) + 1 /\ order'[Len(order) + 1] = d
        /\ \A i \in 1..Len(order) : order'[i] = order[i]
    BY <2>1, <2>2, RangeAppend, SeqDomain DEF TypeOK
  <2>4. d # Entry => \E j \in 1..Len(order) : Lists(order[j], d)
    <3>1. ASSUME d # Entry PROVE \E p \in Range(order) : Lists(p, d)
      BY <2>1, <2>2, <3>1 DEF Walking
    <3> QED BY <3>1, <1>0 DEF Range
  <2>5. ASSUME NEW i \in DOMAIN order', order'[i] # Entry
        PROVE  \E j \in 1..i - 1 : Lists(order'[j], order'[i])
    <3>1. CASE i = Len(order) + 1
      BY <1>0, <2>3, <2>4, <2>5, <3>1
    <3>2. CASE i # Len(order) + 1
      <4>1. i \in DOMAIN order /\ order'[i] = order[i]
        BY <1>0, <2>3, <3>2
      <4>2. PICK j \in 1..i - 1 : Lists(order[j], order[i])
        BY <2>5, <4>1 DEF Connected
      <4>3. order'[j] = order[j]
        BY <1>0, <2>3, <4>1
      <4> QED BY <4>1, <4>2, <4>3
    <3> QED BY <3>1, <3>2
  <2> QED BY <2>1, <2>5 DEF Connected, Lists
<1>4. CASE StartWriting
  <2>1. /\ order' \in Seq(RstFiles) /\ Len(order') <= Len(order)
        /\ \A i \in 1..Len(order') : order'[i] = order[i]
        /\ children' = children
    BY <1>4, TruncatedType DEF StartWriting, TypeOK, graphVars
  <2>2. DOMAIN order' = 1..Len(order') /\ Len(order') \in Nat
    BY <2>1, SeqDomain
  <2> QED BY <1>0, <2>1, <2>2 DEF Connected, Lists
<1>5. CASE UNCHANGED <<graphVars, walkVars>>
  BY <1>1, <1>5 DEF graphVars, walkVars
<1>6. Visit => children' = children
  BY DEF Visit, graphVars
<1> QED BY <1>1, <1>2, <1>3, <1>4, <1>5, <1>6
        DEF Next, Main, Fetch, List, Take, Deliver, Return, Include,
            WriteText, WriteMenu, WriteFails, walkVars, graphVars, vars

LEMMA WalkingStep ==
    ASSUME TypeOK, Asking, Walking, [Next]_vars
    PROVE  Walking'
<1>1. CASE /\ UNCHANGED <<graphVars, walkVars>>
           /\ phase' = phase \/ phase' \in {"text", "menu", "done"}
           /\ phase' \notin {"list", "fetch", "failed"} \/ phase' = phase
  BY <1>1 DEF Walking, Closed, Met, Lists, graphVars, walkVars
<1>2. CASE List
  BY <1>2 DEF List, Walking, walkVars
<1>3. CASE Collect
  <2>1. order' = <<>> /\ Range(<<>>) = {}
    BY <1>3 DEF Collect, Walking, Range
  <2>2. CASE phase' = "failed"
    BY <2>1, <2>2 DEF Walking
  <2>3. CASE phase' = "walk"
    <3>1. agenda' = <<Entry>> /\ Range(<<Entry>>) = {Entry}
      BY <1>3, <2>3 DEF Collect, Range
    <3> QED BY <2>1, <2>3, <3>1 DEF Walking, Met
  <2> QED BY <1>3, <2>2, <2>3 DEF Collect
<1>4. CASE Visit
  <2> DEFINE d == Head(agenda)
             rest == Range(Tail(agenda))
  <2>1. /\ phase = "walk" /\ phase' = phase /\ docs' = docs /\ children' = children
        /\ agenda # <<>>
    BY <1>4 DEF Visit, graphVars
  <2>2. /\ d \in RstFiles /\ Tail(agenda) \in Seq(RstFiles)
        /\ Range(agenda) = {d} \cup rest
    BY <2>1, RangeHeadTail DEF TypeOK
  <2>3. \A S : Closed(S)' <=> Closed(S)
    BY <2>1 DEF Closed
  <2>4. CASE Skippable(d) /\ agenda' = Tail(agenda) /\ order' = order
    <3>1. Range(agenda') = rest /\ Range(order') = Range(order)
      BY <2>4
    <3>2. d \in Range(order) \/ d \notin docs
      BY <2>4 DEF Skippable
    <3>3. Met \cap docs \subseteq Met'
      BY <2>2, <3>1, <3>2 DEF Met
    <3>4. Met' \subseteq Met
      BY <2>2, <3>1 DEF Met
    <3>5. \A c \in Range(agenda') \ {Entry} : \E p \in Range(order') : Lists(p, c)'
      BY <2>1, <2>2, <3>1 DEF Walking, Lists
    <3> QED BY <2>1, <2>3, <3>1, <3>3, <3>5 DEF Walking
  <2>5. CASE /\ ~Skippable(d) /\ order' = Append(order, d)
             /\ agenda' = children[d] \o Tail(agenda)
    <3>1. Range(order') = Range(order) \cup {d}
      BY <2>2, <2>5, RangeAppend DEF TypeOK
    <3>2. Range(agenda') = Range(children[d]) \cup rest
      <4>1. children[d] \in Seq(RstFiles)
        BY <2>2 DEF TypeOK
      <4>2. Range(children[d] \o Tail(agenda)) = Range(children[d]) \cup rest
        <5>1. \A s, t \in Seq(RstFiles) : Range(s \o t) = Range(s) \cup Range(t)
          BY RangeConcat
        <5> QED BY <2>2, <4>1, <5>1, Zenon
      <4> QED BY <2>5, <4>2
    <3>3. d \in docs
      BY <2>5 DEF Skippable
    <3>4. Met \subseteq Met' /\ Range(children[d]) \subseteq Met'
      BY <2>2, <3>1, <3>2 DEF Met
    <3>5. \A c \in Range(agenda') \ {Entry} : \E p \in Range(order') : Lists(p, c)'
      BY <2>1, <2>2, <3>1, <3>2 DEF Walking, Lists
    <3>6. ASSUME NEW S \in SUBSET docs, Closed(S), Entry \in docs => Entry \in S
          PROVE  Range(order') \subseteq S
      <4>1. Range(order) \subseteq S
        BY <2>1, <3>6 DEF Walking
      <4>2. d # Entry => \E p \in Range(order) : Lists(p, d)
        BY <2>1, <2>2 DEF Walking
      <4>3. d \in S
        BY <3>3, <3>6, <4>1, <4>2 DEF Closed, Lists
      <4> QED BY <3>1, <4>1, <4>3
    <3> QED BY <2>1, <2>3, <3>1, <3>3, <3>4, <3>5, <3>6 DEF Walking
  <2> QED BY <1>4, <2>4, <2>5 DEF Visit
<1>5. ASSUME StartWriting \/ WriteMenu \/ WriteFails PROVE Walking'
  <2>1. phase' \in {"text", "done"}
    BY <1>5 DEF StartWriting, WriteMenu, WriteFails, Turn
  <2> QED BY <2>1 DEF Walking
<1>6. CASE WriteText
  BY <1>6 DEF WriteText, Walking
<1>7. CASE Include
  BY <1>7, <1>1 DEF Include
<1>8. ASSUME NEW w \in Workers, Fetch(w) PROVE Walking'
  BY <1>8, <1>1 DEF Fetch, Take, Deliver, Return
<1>9. CASE UNCHANGED vars
  BY <1>9, <1>1 DEF vars, graphVars, walkVars
<1> QED BY <1>2, <1>3, <1>4, <1>5, <1>6, <1>7, <1>8, <1>9 DEF Next, Main

(* A step that is neither a call of walk nor before or after one leaves the
   walk's variables alone. *)
LEMMA WalkVarsStep ==
    ASSUME [Next]_vars
    PROVE  \/ UNCHANGED <<graphVars, walkVars>> /\ (phase' = "walk" <=> phase = "walk")
           \/ Collect
           \/ Visit /\ UNCHANGED graphVars /\ phase = "walk" /\ phase' = "walk"
           \/ StartWriting /\ UNCHANGED graphVars /\ phase' # "walk"
<1>1. ASSUME StartWriting PROVE UNCHANGED graphVars /\ phase' # "walk"
  BY <1>1 DEF StartWriting, Turn, graphVars
<1>2. ASSUME WriteMenu \/ WriteFails
      PROVE  UNCHANGED <<graphVars, walkVars>> /\ phase' # "walk" /\ phase # "walk"
  BY <1>2 DEF WriteMenu, WriteFails, Turn, graphVars, walkVars
<1> QED BY <1>1, <1>2
        DEF Next, Main, Fetch, List, Take, Deliver, Return, Visit, Include,
            WriteText, vars, walkVars, graphVars

(* One call of walk, on the index of agenda and order. *)
LEMMA VisitFacts ==
    ASSUME TypeOK, Visit
    PROVE  LET d == Head(agenda) IN
           /\ agenda # <<>> /\ d \in RstFiles /\ d = agenda[1]
           /\ DOMAIN order = 1..Len(order) /\ Len(order) \in Nat
           /\ DOMAIN agenda = 1..Len(agenda) /\ Len(agenda) \in Nat \ {0}
           /\ DOMAIN children[d] = 1..Len(children[d]) /\ Len(children[d]) \in Nat
           /\ \/ /\ Skippable(d) /\ order' = order
                 /\ DOMAIN agenda' = 1..Len(agenda) - 1
                 /\ \A y \in 1..Len(agenda) - 1 : agenda'[y] = agenda[y + 1]
              \/ /\ ~Skippable(d)
                 /\ DOMAIN order' = 1..Len(order) + 1 /\ order'[Len(order) + 1] = d
                 /\ \A i \in 1..Len(order) : order'[i] = order[i]
                 /\ Range(order') = Range(order) \cup {d}
                 /\ DOMAIN agenda' = 1..Len(children[d]) + Len(agenda) - 1
                 /\ \A y \in 1..Len(children[d]) : agenda'[y] = children[d][y]
                 /\ \A y \in 2..Len(agenda) :
                        agenda'[Len(children[d]) + y - 1] = agenda[y]
<1> DEFINE d == Head(agenda)
           s == children[d]
           t == Tail(agenda)
<1>1. /\ agenda # <<>> /\ agenda \in Seq(RstFiles) /\ order \in Seq(RstFiles)
      /\ \/ Skippable(d) /\ order' = order /\ agenda' = t
         \/ ~Skippable(d) /\ order' = Append(order, d) /\ agenda' = s \o t
  BY DEF Visit, TypeOK
<1>2. /\ d \in RstFiles /\ t \in Seq(RstFiles) /\ Len(t) = Len(agenda) - 1
      /\ \A y \in 1..Len(t) : t[y] = agenda[y + 1]
      /\ Len(agenda) \in Nat \ {0} /\ d = agenda[1]
  BY <1>1, HeadTailProperties, EmptySeq
<1>3. s \in Seq(RstFiles)
  BY <1>2 DEF TypeOK
<1>4. /\ DOMAIN order = 1..Len(order) /\ Len(order) \in Nat
      /\ DOMAIN agenda = 1..Len(agenda)
      /\ DOMAIN s = 1..Len(s) /\ Len(s) \in Nat /\ DOMAIN t = 1..Len(t)
  BY <1>1, <1>2, <1>3, SeqDomain
<1>5. CASE Skippable(d) /\ order' = order /\ agenda' = t
  BY <1>1, <1>2, <1>4, <1>5
<1>6. CASE ~Skippable(d) /\ order' = Append(order, d) /\ agenda' = s \o t
  <2>1. /\ DOMAIN order' = 1..Len(order) + 1 /\ order'[Len(order) + 1] = d
        /\ \A i \in 1..Len(order) : order'[i] = order[i]
        /\ Range(order') = Range(order) \cup {d}
    <3>1. /\ Append(order, d) \in Seq(RstFiles)
          /\ Len(Append(order, d)) = Len(order) + 1
          /\ Append(order, d)[Len(order) + 1] = d
          /\ \A i \in 1..Len(order) : Append(order, d)[i] = order[i]
          /\ Range(Append(order, d)) = Range(order) \cup {d}
      BY <1>1, <1>2, RangeAppend
    <3>2. DOMAIN Append(order, d) = 1..Len(order) + 1
      BY <3>1, SeqDomain
    <3> QED BY <1>6, <3>1, <3>2
  <2>2. /\ s \o t \in Seq(RstFiles) /\ Len(s \o t) = Len(s) + Len(t)
        /\ \A y \in 1..Len(s) + Len(t) :
               (s \o t)[y] = IF y <= Len(s) THEN s[y] ELSE t[y - Len(s)]
    BY <1>2, <1>3, ConcatProperties
  <2>3. DOMAIN agenda' = 1..Len(s) + Len(agenda) - 1
    BY <1>2, <1>4, <1>6, <2>2, SeqDomain
  <2>4. \A y \in 1..Len(s) : agenda'[y] = s[y]
    BY <1>2, <1>4, <1>6, <2>2
  <2>5. ASSUME NEW y \in 2..Len(agenda)
        PROVE  agenda'[Len(s) + y - 1] = agenda[y]
    <3>1. /\ y - 1 \in 1..Len(t) /\ Len(s) + y - 1 \in 1..Len(s) + Len(t)
          /\ ~(Len(s) + y - 1 <= Len(s)) /\ Len(s) + y - 1 - Len(s) = y - 1
      BY <1>2, <1>4
    <3>2. agenda'[Len(s) + y - 1] = t[y - 1] /\ t[y - 1] = agenda[y - 1 + 1]
      BY <1>2, <1>6, <2>2, <3>1
    <3> QED BY <3>2, <1>2
  <2> QED BY <1>1, <1>2, <1>4, <1>6, <2>1, <2>3, <2>4, <2>5
<1> QED BY <1>1, <1>5, <1>6

LEMMA StackedStep ==
    ASSUME TypeOK, Walking, Stacked, [Next]_vars
    PROVE  Stacked'
<1>1. CASE UNCHANGED <<graphVars, walkVars>> /\ (phase' = "walk" <=> phase = "walk")
  BY <1>1 DEF Stacked, Lists, graphVars, walkVars
<1>2. CASE Collect
  <2>1. order' = <<>> /\ DOMAIN <<>> = {}
    BY <1>2 DEF Collect, Walking
  <2> QED BY <2>1 DEF Stacked
<1>3. CASE StartWriting /\ phase' # "walk"
  BY <1>3 DEF Stacked
<1>4. CASE Visit /\ UNCHANGED graphVars /\ phase = "walk"
  <2> DEFINE d == Head(agenda)
             n == Len(children[d])
  <2>0. docs' = docs /\ children' = children
    BY <1>4 DEF graphVars
  <2> SUFFICES ASSUME NEW i \in DOMAIN order', NEW x \in DOMAIN children[order'[i]],
                      children[order'[i]][x] \in docs \ Range(order')
               PROVE  \E y \in DOMAIN agenda' :
                         /\ agenda'[y] = children[order'[i]][x]
                         /\ \A z \in 1..y - 1 :
                             \/ \E m \in DOMAIN order' :
                                    m > i /\ Lists(order'[m], agenda'[z])
                             \/ \E u \in 1..x - 1 :
                                    children[order'[i]][u] = agenda'[z]
    BY <2>0 DEF Stacked, Lists
  <2> DEFINE c == children[order'[i]][x]
  <2>1. CASE Skippable(d) /\ order' = order
    <3>1. /\ DOMAIN agenda = 1..Len(agenda) /\ Len(agenda) \in Nat \ {0}
          /\ DOMAIN agenda' = 1..Len(agenda) - 1 /\ d = agenda[1]
          /\ \A y \in 1..Len(agenda) - 1 : agenda'[y] = agenda[y + 1]
      BY <1>4, <2>1, VisitFacts
    <3>2. PICK y \in DOMAIN agenda :
              /\ agenda[y] = c
              /\ \A z \in 1..y - 1 :
                  \/ \E m \in DOMAIN order : m > i /\ Lists(order[m], agenda[z])
                  \/ \E u \in 1..x - 1 : children[order[i]][u] = agenda[z]
      BY <1>4, <2>1 DEF Stacked
    <3>3. y # 1
      BY <2>1, <3>1, <3>2 DEF Skippable
    <3>4. y - 1 \in DOMAIN agenda' /\ agenda'[y - 1] = c
      BY <3>1, <3>2, <3>3
    <3>5. ASSUME NEW z \in 1..y - 1 - 1
          PROVE  z + 1 \in 1..y - 1 /\ agenda'[z] = agenda[z + 1]
      BY <3>1, <3>3
    <3> QED BY <2>1, <3>2, <3>4, <3>5
  <2>2. CASE ~Skippable(d)
    <3>1. /\ DOMAIN order = 1..Len(order) /\ Len(order) \in Nat
          /\ DOMAIN agenda = 1..Len(agenda) /\ Len(agenda) \in Nat \ {0}
          /\ d = agenda[1] /\ n \in Nat /\ DOMAIN children[d] = 1..n
          /\ DOMAIN order' = 1..Len(order) + 1 /\ order'[Len(order) + 1] = d
          /\ \A j \in 1..Len(order) : order'[j] = order[j]
          /\ Range(order') = Range(order) \cup {d}
          /\ DOMAIN agenda' = 1..n + Len(agenda) - 1
          /\ \A y \in 1..n : agenda'[y] = children[d][y]
          /\ \A y \in 2..Len(agenda) : agenda'[n + y - 1] = agenda[y]
      BY <1>4, <2>2, VisitFacts
    <3>2. CASE i = Len(order) + 1
      <4>1. order'[i] = d /\ x \in 1..n /\ x \in DOMAIN agenda' /\ agenda'[x] = c
        BY <3>1, <3>2
      <4>2. \A z \in 1..x - 1 : children[order'[i]][z] = agenda'[z]
        BY <3>1, <4>1
      <4> QED BY <4>1, <4>2
    <3>3. CASE i # Len(order) + 1
      <4>1. i \in DOMAIN order /\ order'[i] = order[i] /\ c \in docs \ Range(order)
        BY <3>1, <3>3
      <4>2. PICK y \in DOMAIN agenda :
                /\ agenda[y] = c
                /\ \A z \in 1..y - 1 :
                    \/ \E m \in DOMAIN order : m > i /\ Lists(order[m], agenda[z])
                    \/ \E u \in 1..x - 1 : children[order[i]][u] = agenda[z]
        BY <1>4, <4>1 DEF Stacked
      <4>3. y \in 2..Len(agenda)
        BY <3>1, <4>2
      <4>4. n + y - 1 \in DOMAIN agenda' /\ agenda'[n + y - 1] = c
        BY <3>1, <4>2, <4>3
      <4> DEFINE e == n + y - 1
      <4>5. ASSUME NEW z \in 1..e - 1
            PROVE  \/ \E m \in DOMAIN order' : m > i /\ Lists(order'[m], agenda'[z])
                   \/ \E u \in 1..x - 1 : children[order'[i]][u] = agenda'[z]
        <5>1. CASE z <= n
          <6>0. z \in DOMAIN children[d] /\ agenda'[z] = children[d][z]
            BY <3>1, <5>1
          <6>1. Lists(d, agenda'[z])
            BY <6>0 DEF Lists, Range
          <6>2. Len(order) + 1 \in DOMAIN order' /\ Len(order) + 1 > i
            BY <3>1, <4>1
          <6> QED BY <3>1, <6>1, <6>2
        <5>2. CASE ~(z <= n)
          <6>1. /\ z - n + 1 \in 1..y - 1 /\ z - n + 1 \in 2..Len(agenda)
                /\ n + (z - n + 1) - 1 = z
            <7>1. n \in Nat /\ Len(agenda) \in Nat
              BY <3>1
            <7> HIDE DEF n
            <7> QED BY <7>1, <4>3, <4>5, <5>2
          <6>2. agenda'[z] = agenda[z - n + 1]
            BY <3>1, <6>1
          <6>3. \A m \in DOMAIN order : m \in DOMAIN order' /\ order'[m] = order[m]
            BY <3>1
          <6>4. \/ \E m \in DOMAIN order : m > i /\ Lists(order[m], agenda'[z])
                \/ \E u \in 1..x - 1 : children[order[i]][u] = agenda'[z]
            BY <4>2, <6>1, <6>2
          <6>5. ASSUME NEW m \in DOMAIN order, m > i, Lists(order[m], agenda'[z])
                PROVE  \E l \in DOMAIN order' : l > i /\ Lists(order'[l], agenda'[z])
            <7>1. m \in DOMAIN order' /\ order'[m] = order[m]
              BY <6>3
            <7> QED BY <6>5, <7>1
          <6> QED BY <4>1, <6>4, <6>5
        <5> QED BY <5>1, <5>2
      <4>6. e \in DOMAIN agenda' /\ agenda'[e] = children[order'[i]][x]
        BY <4>4
      <4> HIDE DEF e
      <4>7. \A z \in 1..e - 1 :
               \/ \E m \in DOMAIN order' : m > i /\ Lists(order'[m], agenda'[z])
               \/ \E u \in 1..x - 1 : children[order'[i]][u] = agenda'[z]
        BY <4>5
      <4> QED BY <4>6, <4>7
    <3> QED BY <3>2, <3>3
  <2> QED BY <1>4, <2>1, <2>2, VisitFacts
<1> QED BY <1>1, <1>2, <1>3, <1>4, WalkVarsStep

LEMMA DepthFirstStep ==
    ASSUME TypeOK, Walking, Stacked, DepthFirstSoFar, DepthFirst, [Next]_vars
    PROVE  DepthFirstSoFar' /\ DepthFirst'
<1>1. CASE UNCHANGED <<graphVars, walkVars>> /\ (phase' = "walk" <=> phase = "walk")
  BY <1>1 DEF DepthFirstSoFar, DepthFirst, ListsBefore, Lists, graphVars, walkVars
<1>2. CASE Collect
  <2>1. order' = <<>> /\ DOMAIN <<>> = {}
    BY <1>2 DEF Collect, Walking
  <2> QED BY <2>1 DEF DepthFirstSoFar, DepthFirst
<1>3. CASE StartWriting /\ UNCHANGED graphVars /\ phase' # "walk"
  <2>1. /\ order' \in Seq(RstFiles) /\ Len(order') <= Len(order)
        /\ \A i \in 1..Len(order') : order'[i] = order[i]
    BY <1>3, TruncatedType DEF StartWriting, TypeOK
  <2>2. /\ DOMAIN order' = 1..Len(order') /\ Len(order') \in Nat
        /\ DOMAIN order = 1..Len(order) /\ Len(order) \in Nat
    BY <2>1, SeqDomain DEF TypeOK
  <2>3. DepthFirst'
    <3> SUFFICES ASSUME NEW i \in DOMAIN order', NEW l \in DOMAIN order',
                        NEW j \in i + 1..l - 1,
                        ListsBefore(order'[i], order'[l], order'[j])
                 PROVE  \E m \in i + 1..j - 1 : Lists(order'[m], order'[j])
      BY <1>3 DEF DepthFirst, ListsBefore, Lists, graphVars
    <3>1. /\ i \in DOMAIN order /\ l \in DOMAIN order /\ j \in DOMAIN order'
          /\ \A m \in i + 1..j - 1 : m \in DOMAIN order'
      BY <2>1, <2>2
    <3>2. PICK m \in i + 1..j - 1 : Lists(order[m], order[j])
      BY <2>1, <2>2, <3>1 DEF DepthFirst
    <3> QED BY <2>1, <2>2, <3>1, <3>2
  <2> QED BY <1>3, <2>3 DEF DepthFirstSoFar
<1>4. CASE Visit /\ UNCHANGED graphVars /\ phase = "walk" /\ phase' = "walk"
  <2> DEFINE d == Head(agenda)
             k == Len(order) + 1
  <2>0. docs' = docs /\ children' = children
    BY <1>4 DEF graphVars
  <2>1. CASE Skippable(d) /\ order' = order
    BY <1>4, <2>0, <2>1 DEF DepthFirstSoFar, DepthFirst, ListsBefore, Lists
  <2>2. CASE ~Skippable(d)
    <3>1. /\ DOMAIN order = 1..Len(order) /\ Len(order) \in Nat
          /\ DOMAIN agenda = 1..Len(agenda) /\ d = agenda[1]
          /\ DOMAIN order' = 1..k /\ order'[k] = d
          /\ \A j \in 1..Len(order) : order'[j] = order[j]
          /\ Range(order') = Range(order) \cup {d}
      BY <1>4, <2>2, VisitFacts
    <3>2. d \in docs \ Range(order)
      BY <2>2 DEF Skippable
    <3>3. ASSUME NEW c \in docs \ Range(order'), NEW i \in DOMAIN order,
                 ListsBefore(order[i], c, d)
          PROVE  \E m \in i + 1..k - 1 : Lists(order[m], d)
      <4>1. PICK x \in DOMAIN children[order[i]] :
                /\ children[order[i]][x] = c
                /\ \A u \in 1..x : children[order[i]][u] # d
        BY <3>3 DEF ListsBefore
      <4>2. c \in docs \ Range(order) /\ c # d
        BY <3>1, <3>3
      <4>3. PICK y \in DOMAIN agenda :
                /\ agenda[y] = c
                /\ \A z \in 1..y - 1 :
                    \/ \E m \in DOMAIN order : m > i /\ Lists(order[m], agenda[z])
                    \/ \E u \in 1..x - 1 : children[order[i]][u] = agenda[z]
        BY <1>4, <4>1, <4>2 DEF Stacked
      <4>4. 1 \in 1..y - 1
        BY <3>1, <4>2, <4>3
      <4>5. x \in Nat
        <5>1. order[i] \in RstFiles
          BY <3>1, SeqDomain DEF TypeOK
        <5>2. children[order[i]] \in Seq(RstFiles)
          BY <5>1 DEF TypeOK
        <5> QED BY <5>2, SeqDomain
      <4>6. ~\E u \in 1..x - 1 : children[order[i]][u] = d
        BY <4>1, <4>5
      <4>7. PICK m \in DOMAIN order : m > i /\ Lists(order[m], d)
        BY <3>1, <4>3, <4>4, <4>6
      <4>8. m \in i + 1..k - 1
        BY <3>1, <4>7
      <4> QED BY <4>7, <4>8
    <3>4. DepthFirstSoFar'
      <4> SUFFICES ASSUME NEW c \in docs \ Range(order'),
                          NEW i \in DOMAIN order', NEW j \in DOMAIN order',
                          i < j, ListsBefore(order'[i], c, order'[j])
                   PROVE  \E m \in i + 1..j - 1 : Lists(order'[m], order'[j])
        BY <2>0 DEF DepthFirstSoFar, ListsBefore, Lists
      <4>1. i \in DOMAIN order /\ order'[i] = order[i]
        BY <3>1
      <4>2. CASE j = k
        <5>1. PICK m \in i + 1..k - 1 : Lists(order[m], d)
          BY <3>1, <3>3, <4>1, <4>2
        <5>2. order'[m] = order[m]
          BY <3>1, <4>1
        <5> QED BY <3>1, <4>2, <5>1, <5>2
      <4>3. CASE j # k
        <5>1. j \in DOMAIN order /\ order'[j] = order[j] /\ c \in docs \ Range(order)
          BY <3>1, <4>3
        <5>2. PICK m \in i + 1..j - 1 : Lists(order[m], order[j])
          BY <1>4, <4>1, <5>1 DEF DepthFirstSoFar
        <5>3. order'[m] = order[m]
          BY <3>1, <4>1, <5>1
        <5> QED BY <5>1, <5>2, <5>3
      <4> QED BY <4>2, <4>3
    <3>5. DepthFirst'
      <4> SUFFICES ASSUME NEW i \in DOMAIN order', NEW l \in DOMAIN order',
                          NEW j \in i + 1..l - 1,
                          ListsBefore(order'[i], order'[l], order'[j])
                   PROVE  \E m \in i + 1..j - 1 : Lists(order'[m], order'[j])
        BY <2>0 DEF DepthFirst, ListsBefore, Lists
      <4>1. /\ i \in DOMAIN order /\ order'[i] = order[i]
            /\ j \in DOMAIN order /\ order'[j] = order[j]
            /\ i < j
        BY <3>1
      <4>2. PICK m \in i + 1..j - 1 : Lists(order[m], order[j])
        <5>1. CASE l = k
          BY <1>4, <3>1, <3>2, <4>1, <5>1 DEF DepthFirstSoFar
        <5>2. CASE l # k
          <6>1. l \in DOMAIN order /\ order'[l] = order[l]
            BY <3>1, <5>2
          <6> QED BY <4>1, <6>1 DEF DepthFirst
        <5> QED BY <5>1, <5>2
      <4>3. order'[m] = order[m]
        BY <3>1, <4>1
      <4> QED BY <4>1, <4>2, <4>3
    <3> QED BY <3>4, <3>5
  <2> QED BY <1>4, <2>1, <2>2, VisitFacts
<1> QED BY <1>1, <1>2, <1>3, <1>4, WalkVarsStep

LEMMA Inductive == IInv /\ [Next]_vars => IInv'
BY TypeStep, DistinctStep, WritingStep, AccountingStep, AskingStep, WalkingStep,
   ConnectedStep, StackedStep, DepthFirstStep DEF IInv

LEMMA Invariant == IngestSpec => []IInv
<1>1. IngestInit => IInv
  BY InitInv DEF IngestInit, Init, Fetched
<1>2. [IngestNext]_<<vars, rstVars>> => [Next]_vars
  BY DEF IngestNext
<1> QED BY <1>1, <1>2, Inductive, PTL DEF IngestSpec

(* Every variable stays in its range; in particular a walk ends, for it never
   takes more documents than there are. *)
THEOREM TypeCorrect == IngestSpec => []TypeOK
<1>1. IInv => TypeOK
  BY DEF IInv
<1> QED BY <1>1, Invariant, PTL

(* The pool loses no file and fetches none twice. *)
THEOREM FilesAreFetchedOnce == IngestSpec => []EachFetchedOnce
<1>1. ASSUME IInv PROVE EachFetchedOnce
  <2> USE <1>1 DEF IInv
  <2>1. ASSUME NEW f \in Listed, phase = "fetch"
        PROVE  asked[f] + Cardinality({w \in Workers : worker[w] = f})
                   = IF f <= sent THEN 1 ELSE 0
    <3> DEFINE holders == {w \in Workers : worker[w] = f}
    <3>1. /\ asked[f] = IF f <= sent /\ ~Held(f) THEN 1 ELSE 0
          /\ f > sent => ~Held(f)
      BY <2>1 DEF Accounting
    <3>2. CASE Held(f)
      <4>1. PICK w \in Workers : worker[w] = f
        BY <3>2 DEF Held
      <4>2. holders = {w}
        BY <2>1, <4>1 DEF Accounting
      <4>3. Cardinality(holders) = 1
        BY <4>2, FS_Singleton
      <4>4. f <= sent
        BY <2>1, <3>1, <3>2, FilesAssumption DEF TypeOK, Listed
      <4> QED BY <3>1, <3>2, <4>3, <4>4
    <3>3. CASE ~Held(f)
      <4>1. holders = {}
        BY <3>3 DEF Held
      <4>2. Cardinality(holders) = 0
        BY <4>1, FS_EmptySet
      <4> QED BY <3>1, <3>3, <4>2
    <3> QED BY <3>2, <3>3
  <2> QED BY <2>1 DEF EachFetchedOnce, Accounting
<1> QED BY <1>1, Invariant, PTL

(* No file is asked for again unless it did not come the first time. *)
THEOREM FilesAreAskedSparingly == IngestSpec => []AskedSparingly
<1>1. ASSUME IInv, NEW f \in Files
      PROVE  /\ asked[f] <= (IF f \in Listed THEN 2 ELSE 1)
             /\ asked[f] = 2 => f \notin docs
  <2>1. f \in Listed \/ (f \in Extras /\ f \notin Listed)
    BY <1>1 DEF Files
  <2>2. asked[f] \in Nat
    BY <1>1 DEF IInv, TypeOK
  <2> QED BY <1>1, <2>1, <2>2 DEF IInv, Asking
<1>2. IInv => AskedSparingly
  BY <1>1 DEF AskedSparingly
<1> QED BY <1>2, Invariant, PTL

(* The walk finds the documents that can be reached from the entry point, in
   whatever graph the toctrees make. *)
THEOREM WalkIsExact == IngestSpec => []WalkFindsReachable
<1>1. ASSUME IInv PROVE WalkFindsReachable
  <2>1. ASSUME phase = "walk", agenda = <<>> PROVE Met = Range(order)
    BY <2>1 DEF Met, Range
  <2> QED BY <1>1, <2>1 DEF IInv, Walking, WalkFindsReachable, Closed
<1> QED BY <1>1, Invariant, PTL

(* What is written is connected from its first page on, cut short or not. *)
THEOREM PagesAreConnected == IngestSpec => []PagesConnected
<1>1. ASSUME IInv PROVE PagesConnected
  <2>1. DOMAIN order = 1..Len(order) /\ Len(order) \in Nat
    BY <1>1, SeqDomain DEF IInv, TypeOK
  <2>2. \A i \in DOMAIN order : \A j \in 1..i - 1 : order[j] # order[i]
    BY <1>1, <2>1 DEF IInv, Distinct
  <2> QED BY <1>1, <2>2 DEF IInv, Connected, PagesConnected
<1> QED BY <1>1, Invariant, PTL

(* No menu leads nowhere, but to a document whose writing failed. *)
THEOREM LinksAreLive == IngestSpec => []LinksLead
<1>1. ASSUME IInv, phase = "done" PROVE Range(order) \subseteq menus \cup skipped
  <2>1. DOMAIN order = 1..Len(order) /\ Len(order) \in Nat /\ at = Len(order) + 1
    BY <1>1, SeqDomain DEF IInv, TypeOK, Writing
  <2>2. at - 1 = Len(order)
    BY <2>1
  <2> QED BY <1>1, <2>1, <2>2 DEF IInv, Writing, Range
<1>2. \A d \in menus : Subpages(d) \cup CrossRefs(d) \subseteq Range(order)
  BY DEF Subpages, CrossRefs, IsTarget, Range
<1>3. IInv => LinksLead
  BY <1>1, <1>2 DEF LinksLead
<1> QED BY <1>3, Invariant, PTL

(* The order is the depth-first order the toctrees describe. *)
THEOREM WalkIsDepthFirst == IngestSpec => []DepthFirst
<1>1. IInv => DepthFirst
  BY DEF IInv
<1> QED BY <1>1, Invariant, PTL

(* Every listed file is asked for, and none again for nothing. *)
THEOREM FetchingIsSparing == IngestSpec => []FetchedSparingly
<1>1. EachFetchedOnce /\ AskedSparingly => FetchedSparingly
  BY DEF FetchedSparingly
<1> QED BY <1>1, FilesAreFetchedOnce, FilesAreAskedSparingly, PTL

(* The walk finds exactly what can be reached, depth-first. *)
THEOREM WalkIsRight == IngestSpec => []OrderIsAWalk
<1>1. WalkFindsReachable /\ DepthFirst => OrderIsAWalk
  BY DEF OrderIsAWalk
<1> QED BY <1>1, WalkIsExact, WalkIsDepthFirst, PTL

(* Every page is led to by one before it, and leads to pages. *)
THEOREM PagesHold == IngestSpec => []PagesHangTogether
<1>1. PagesConnected /\ LinksLead => PagesHangTogether
  BY DEF PagesHangTogether
<1> QED BY <1>1, PagesAreConnected, LinksAreLive, PTL

-----------------------------------------------------------------------------
(* Numbers and sets of them.                                                *)

LEMMA LeastExists ==
    ASSUME NEW S \in SUBSET Nat, S # {}
    PROVE  \E n \in S : \A m \in S : n <= m
<1>1. PICK n \in S : \A m \in S : ~(<<m, n>> \in OpToRel(<, Nat))
  BY WFMin, NatLessThanWellFounded
<1>2. \A m \in S : ~(m < n)
  BY <1>1 DEF OpToRel
<1>. QED
  BY <1>2

LEMMA MinIsLeast ==
    ASSUME NEW S \in SUBSET Nat, S # {}
    PROVE  Text!Min(S) \in S /\ \A m \in S : Text!Min(S) <= m
BY LeastExists DEF Text!Min

LEMMA FirstIsThere ==
    ASSUME NEW a \in Nat, NEW b \in Nat, a <= b + 1,
           NEW S \in SUBSET (a..b)
    PROVE  Text!First(S, b + 1) \in a..b + 1
<1>1. CASE S = {}
  BY <1>1 DEF Text!First
<1>2. CASE S # {}
  <2>1. S \in SUBSET Nat
    OBVIOUS
  <2>2. Text!Min(S) \in S
    BY <1>2, <2>1, MinIsLeast
  <2>3. Text!First(S, b + 1) = Text!Min(S)
    BY <1>2 DEF Text!First
  <2>4. Text!Min(S) \in a..b
    BY <2>2
  <2>. QED
    BY <2>3, <2>4
<1>. QED
  BY <1>1, <1>2

(* Places of the elements of a finite set of numbers in their order. *)
LEMMA RanksAreOneToOne ==
    ASSUME NEW b \in Nat, NEW S \in SUBSET (1..b)
    PROVE  /\ Cardinality(S) \in Nat
           /\ \A n \in S : Text!Rank(n, S) \in 1..Cardinality(S)
           /\ \A m, n \in S : Text!Rank(m, S) = Text!Rank(n, S) => m = n
           /\ \A k \in 1..Cardinality(S) : \E n \in S : Text!Rank(n, S) = k
<1>. DEFINE below(n) == {m \in S : m <= n}
            ranks == {Cardinality(below(n)) : n \in S}
            place == [n \in S |-> Cardinality(below(n))]
<1>0. \A n \in S : Text!Rank(n, S) = Cardinality(below(n))
  BY DEF Text!Rank, Text!Cardinality, Cardinality
<1>f. \A n \in S : n \in Nat
  OBVIOUS
<1>g. IsFiniteSet(1..b) /\ Cardinality(1..b) = b
  BY FS_Interval, 1 \in Int, b \in Int
<1>1. IsFiniteSet(S) /\ Cardinality(S) \in Nat
  BY <1>g, FS_Subset, FS_CardinalityType
<1>2. ASSUME NEW n \in S
      PROVE  /\ IsFiniteSet(below(n)) /\ Cardinality(below(n)) \in 1..Cardinality(S)
  <2>1. IsFiniteSet(below(n)) /\ Cardinality(below(n)) <= Cardinality(S)
    BY <1>1, FS_Subset, below(n) \in SUBSET S
  <2>2. Cardinality(below(n)) \in Nat /\ (Cardinality(below(n)) = 0 <=> below(n) = {})
    BY <2>1, FS_CardinalityType, FS_EmptySet
  <2>3. n \in below(n)
    BY <1>f
  <2>. QED
    BY <1>1, <2>1, <2>2, <2>3
<1>3. ASSUME NEW m \in S, NEW n \in S, m < n
      PROVE  Cardinality(below(m)) # Cardinality(below(n))
  <2>. m \in Nat /\ n \in Nat
    BY <1>f
  <2>0. \A k \in S : k <= m => k <= n
    BY <1>3, <1>f
  <2>1. below(m) \in SUBSET below(n)
    BY <2>0
  <2>2. n \in below(n)
    BY <1>f
  <2>4. ~(n <= m)
    BY <1>3
  <2>5. n \notin below(m)
    BY <2>4
  <2>3. Cardinality(below(n)) = Cardinality(below(m)) => below(n) = below(m)
    BY <1>2, <2>1, FS_Subset
  <2>. QED
    BY <2>2, <2>3, <2>5
<1>4. \A m, n \in S : Cardinality(below(m)) = Cardinality(below(n)) => m = n
  <2>. SUFFICES ASSUME NEW m \in S, NEW n \in S, Cardinality(below(m)) = Cardinality(below(n))
                PROVE  m = n
    OBVIOUS
  <2>1. m \in Nat /\ n \in Nat
    BY <1>f
  <2>2. m < n \/ n < m \/ m = n
    BY <2>1
  <2>. QED
    BY <1>3, <2>2
<1>5. ranks \in SUBSET (1..Cardinality(S)) /\ IsFiniteSet(1..Cardinality(S))
      /\ Cardinality(1..Cardinality(S)) = Cardinality(S)
  <2>1. IsFiniteSet(1..Cardinality(S)) /\ Cardinality(1..Cardinality(S)) = Cardinality(S)
    BY <1>1, FS_Interval, 1 \in Int, Cardinality(S) \in Int
  <2>. QED
    BY <1>2, <2>1
<1>6. place \in Bijection(S, ranks)
  <2>1. place \in [S -> ranks]
    OBVIOUS
  <2>2. \A m, n \in S : place[m] = place[n] => m = n
    BY <1>4
  <2>3. \A r \in ranks : \E n \in S : place[n] = r
    OBVIOUS
  <2>. QED
    BY <2>1, <2>2, <2>3 DEF Bijection, Injection, Surjection, IsInjective
<1>7. Cardinality(ranks) = Cardinality(S)
  BY <1>1, <1>6, FS_Bijection DEF ExistsBijection
<1>8. ranks = 1..Cardinality(S)
  BY <1>5, <1>7, FS_Subset
<1>9. \A k \in 1..Cardinality(S) : \E n \in S : Cardinality(below(n)) = k
  BY <1>8
<1>. HIDE DEF below, ranks, place
<1>. QED
  BY <1>0, <1>1, <1>2, <1>4, <1>9

-----------------------------------------------------------------------------
(* Footnotes.                                                               *)

(* Targets and their numbers are inverse to each other. *)
NotesSound(n) ==
    /\ n.links \in Seq(Words)
    /\ n.seen \in [DOMAIN n.seen -> Nat] /\ DOMAIN n.seen \subseteq Words
    /\ \A t \in DOMAIN n.seen : n.seen[t] \in 1..Len(n.links) /\ n.links[n.seen[t]] = t
    /\ \A k \in 1..Len(n.links) : n.links[k] \in DOMAIN n.seen /\ n.seen[n.links[k]] = k

(* Nothing is taken from the list. *)
Lengthen(old, new) ==
    /\ Len(old) <= Len(new)
    /\ \A k \in 1..Len(old) : new[k] = old[k]

MarksTrue(marks, targets) ==
    \A mark \in marks : mark.n \in 1..Len(targets) /\ targets[mark.n] = mark.target

Mark == [target : Words, n : Nat]

LEMMA LengtheningIsTransitive ==
    ASSUME NEW a \in Seq(Words), NEW b \in Seq(Words), NEW c \in Seq(Words),
           Lengthen(a, b), Lengthen(b, c)
    PROVE  Lengthen(a, c)
BY LenProperties DEF Lengthen

LEMMA MarksStayTrue ==
    ASSUME NEW a \in Seq(Words), NEW b \in Seq(Words), Lengthen(a, b),
           NEW marks, MarksTrue(marks, a)
    PROVE  MarksTrue(marks, b)
BY LenProperties DEF Lengthen, MarksTrue

LEMMA InlineSound ==
    ASSUME NEW n, NotesSound(n), NEW ls \in Seq(Text!Line)
    PROVE  /\ NotesSound(Text!Inline(n, ls))
           /\ Lengthen(n.links, Text!Inline(n, ls).links)
           /\ Text!Marks(Text!Inline(n, ls), ls) \in SUBSET Mark
           /\ MarksTrue(Text!Marks(Text!Inline(n, ls), ls), Text!Inline(n, ls).links)
<1>. DEFINE new == Text!NewLinks(n, ls)
            size == Cardinality(new)
            nth(k) == CHOOSE m \in new : Text!Rank(m, new) = k
            more == [k \in 1..size |-> ls[nth(k)].arg]
            place == [t \in Text!Range(more) |-> CHOOSE k \in DOMAIN more : more[k] = t]
            targets == DOMAIN n.seen \cup Text!Range(more)
            numbers == [t \in targets |->
                IF t \in Text!Range(more) THEN Len(n.links) + place[t] ELSE n.seen[t]]
            all == n.links \o more
            result == Text!Inline(n, ls)
<1>1. Len(ls) \in Nat /\ DOMAIN ls = 1..Len(ls) /\ \A m \in DOMAIN ls : ls[m] \in Text!Line
  BY LenProperties, ElementOfSeq
<1>2. \A m \in DOMAIN ls : ls[m].arg \in Words
  BY <1>1 DEF Text!Line
<1>3. new \in SUBSET (1..Len(ls))
  BY <1>1 DEF Text!NewLinks, Text!Linked
<1>4. /\ size \in Nat
      /\ \A k \in 1..size : \E m \in new : Text!Rank(m, new) = k
      /\ \A m \in new : Text!Rank(m, new) \in 1..size
      /\ \A l, m \in new : Text!Rank(l, new) = Text!Rank(m, new) => l = m
  BY <1>1, <1>3, RanksAreOneToOne
<1>5. \A k \in 1..size : nth(k) \in new /\ Text!Rank(nth(k), new) = k
  BY <1>4
<1>6. Text!Cardinality(new) = size
  BY DEF Text!Cardinality, Cardinality
<1>7. Text!Range(more) = {more[k] : k \in DOMAIN more}
  BY DEF Text!Range
<1>8. result = [seen |-> numbers, links |-> all]
  BY <1>6 DEF Text!Inline
<1>9. \A l, m \in new : ls[l].arg = ls[m].arg => l = m
  <2>. SUFFICES ASSUME NEW l \in new, NEW m \in new, ls[l].arg = ls[m].arg PROVE l = m
    OBVIOUS
  <2>1. l <= m /\ m <= l
    BY DEF Text!NewLinks
  <2>2. l \in Nat /\ m \in Nat
    BY <1>3
  <2>. QED
    BY <2>1, <2>2
<1>10. \A j, k \in 1..size : more[j] = more[k] => j = k
  BY <1>5, <1>9
<1>11. \A k \in 1..size : more[k] \in Words /\ more[k] \notin DOMAIN n.seen
  BY <1>1, <1>2, <1>3, <1>5 DEF Text!NewLinks
<1>12. more \in Seq(Words) /\ Len(more) = size /\ DOMAIN more = 1..size
  <2>1. more \in [1..size -> Words]
    BY <1>11
  <2>2. DOMAIN more = 1..size
    OBVIOUS
  <2>. HIDE DEF more, size
  <2>. QED
    BY <1>4, <2>1, <2>2
<1>13. n.links \in Seq(Words) /\ Len(n.links) \in Nat
  BY LenProperties DEF NotesSound
<1>14. /\ all \in Seq(Words) /\ Len(all) = Len(n.links) + size
       /\ \A k \in 1..Len(n.links) : all[k] = n.links[k]
       /\ \A k \in 1..size : all[Len(n.links) + k] = more[k]
  BY <1>4, <1>12, <1>13, ConcatProperties
<1>15. Lengthen(n.links, all)
  BY <1>4, <1>13, <1>14 DEF Lengthen
<1>16. \A k \in 1..size : more[k] \in Text!Range(more) /\ place[more[k]] = k
  <2>. SUFFICES ASSUME NEW k \in 1..size
                PROVE  more[k] \in Text!Range(more) /\ place[more[k]] = k
    OBVIOUS
  <2>1. more[k] \in Text!Range(more)
    BY <1>7, <1>12
  <2>2. place[more[k]] = CHOOSE j \in DOMAIN more : more[j] = more[k]
    BY <2>1
  <2>3. \A j \in DOMAIN more : more[j] = more[k] <=> j = k
    BY <1>10, <1>12
  <2>. QED
    BY <1>12, <2>1, <2>2, <2>3
<1>17. \A t \in Text!Range(more) : \E k \in 1..size : t = more[k] /\ place[t] = k
  BY <1>7, <1>12, <1>16
<1>18. /\ \A t \in Text!Range(more) : t \notin DOMAIN n.seen
       /\ Text!Range(more) \subseteq Words
  <2>. HIDE DEF more, place, size
  <2>1. \A t \in Text!Range(more) : t \in Words /\ t \notin DOMAIN n.seen
    BY <1>11, <1>17
  <2>. QED
    BY <2>1
<1>. HIDE DEF more, place, size, nth, new
<1>19. \A t \in targets : numbers[t] \in 1..Len(all) /\ all[numbers[t]] = t
  <2>. SUFFICES ASSUME NEW t \in targets
                PROVE  numbers[t] \in 1..Len(all) /\ all[numbers[t]] = t
    OBVIOUS
  <2>1. CASE t \in Text!Range(more)
    <3>1. PICK k \in 1..size : t = more[k] /\ place[t] = k
      BY <2>1, <1>17
    <3>2. numbers[t] = Len(n.links) + k
      BY <2>1, <3>1
    <3>3. all[Len(n.links) + k] = t
      BY <1>14, <3>1
    <3>4. Len(n.links) + k \in 1..Len(all)
      BY <1>4, <1>13, <1>14
    <3>. QED
      BY <3>2, <3>3, <3>4
  <2>2. CASE t \notin Text!Range(more)
    <3>1. t \in DOMAIN n.seen /\ numbers[t] = n.seen[t]
      BY <2>2
    <3>2. n.seen[t] \in 1..Len(n.links) /\ n.links[n.seen[t]] = t
      BY <3>1 DEF NotesSound
    <3>3. n.seen[t] \in 1..Len(all)
      BY <1>4, <1>13, <1>14, <3>2
    <3>4. all[n.seen[t]] = t
      BY <1>14, <3>2
    <3>. QED
      BY <3>1, <3>3, <3>4
  <2>. QED
    BY <2>1, <2>2
<1>20. \A k \in 1..Len(all) : all[k] \in targets /\ numbers[all[k]] = k
  <2>. SUFFICES ASSUME NEW k \in 1..Len(all)
                PROVE  all[k] \in targets /\ numbers[all[k]] = k
    OBVIOUS
  <2>1. CASE k \in 1..Len(n.links)
    <3>1. all[k] = n.links[k]
      BY <1>14, <2>1
    <3>2. n.links[k] \in DOMAIN n.seen /\ n.seen[n.links[k]] = k
      BY <2>1 DEF NotesSound
    <3>3. n.links[k] \notin Text!Range(more)
      BY <1>18, <3>2
    <3>. QED
      BY <3>1, <3>2, <3>3
  <2>2. CASE k \notin 1..Len(n.links)
    <3>1. PICK j \in 1..size : k = Len(n.links) + j
      <4>. DEFINE j == k - Len(n.links)
      <4>1. j \in 1..size /\ k = Len(n.links) + j
        BY <1>4, <1>13, <1>14, <2>2
      <4>. QED
        BY <4>1
    <3>2. all[k] = more[j]
      BY <1>14, <3>1
    <3>3. more[j] \in Text!Range(more) /\ place[more[j]] = j
      BY <1>16
    <3>. QED
      BY <3>1, <3>2, <3>3
  <2>. QED
    BY <2>1, <2>2
<1>21. targets \subseteq Words
  BY <1>18 DEF NotesSound
<1>22. numbers \in [targets -> Nat]
  <2>. HIDE DEF all
  <2>1. Len(all) \in Nat
    BY <1>4, <1>13, <1>14
  <2>2. \A t \in targets : numbers[t] \in 1..Len(all)
    BY <1>19
  <2>. HIDE DEF numbers, targets
  <2>3. \A t \in targets : numbers[t] \in Nat
    BY <2>1, <2>2
  <2>. QED
    BY <2>3 DEF numbers
<1>23. result.seen = numbers /\ result.links = all /\ DOMAIN numbers = targets
  BY <1>8
<1>. HIDE DEF numbers, all, targets, result
<1>24. NotesSound(result)
  BY <1>14, <1>19, <1>20, <1>21, <1>22, <1>23 DEF NotesSound
<1>25. \A m \in Text!Linked(ls) : ls[m].arg \in targets /\ ls[m].arg \in Words
  <2>. SUFFICES ASSUME NEW m \in Text!Linked(ls)
                PROVE  ls[m].arg \in targets /\ ls[m].arg \in Words
    OBVIOUS
  <2>1. m \in DOMAIN ls
    BY DEF Text!Linked
  <2>2. CASE ls[m].arg \in DOMAIN n.seen
    BY <1>2, <2>1, <2>2 DEF targets
  <2>3. CASE ls[m].arg \notin DOMAIN n.seen
    <3>. DEFINE same == {l \in Text!Linked(ls) : ls[l].arg = ls[m].arg}
    <3>a. Text!Linked(ls) \subseteq DOMAIN ls
      BY DEF Text!Linked
    <3>0. Text!Linked(ls) \in SUBSET Nat
      BY <1>1, <3>a
    <3>1. same \in SUBSET Nat /\ same # {}
      BY <3>0
    <3>2. PICK l \in same : \A k \in same : l <= k
      BY <3>1, LeastExists
    <3>3. l \in new
      BY <2>3, <3>2 DEF new, Text!NewLinks
    <3>4. PICK k \in 1..size : Text!Rank(l, new) = k
      BY <1>4, <3>3
    <3>5. nth(k) = l
      BY <1>4, <1>5, <3>3, <3>4
    <3>6. more[k] = ls[m].arg
      BY <3>2, <3>5 DEF more
    <3>7. ls[m].arg \in Text!Range(more)
      BY <1>16, <3>6
    <3>. QED
      BY <1>2, <2>1, <3>7 DEF targets
  <2>. QED
    BY <2>2, <2>3
<1>26. Text!Marks(result, ls) \in SUBSET Mark
  BY <1>22, <1>23, <1>25 DEF Text!Marks, Mark
<1>27. MarksTrue(Text!Marks(result, ls), result.links)
  BY <1>19, <1>23, <1>25 DEF Text!Marks, MarksTrue
<1>. QED
  BY <1>15, <1>23, <1>24, <1>26, <1>27 DEF result

-----------------------------------------------------------------------------
(* Lines.                                                                   *)

LEMMA NextNonBlankIn ==
    ASSUME NEW ls \in Seq(Text!Line), NEW k \in 1..Len(ls) + 1
    PROVE  Text!NextNonBlank(ls, k) \in k..Len(ls) + 1
<1>1. Len(ls) \in Nat /\ k \in Nat /\ k <= Len(ls) + 1
  BY LenProperties
<1>2. {n \in k..Len(ls) : ~Text!Blank(ls[n])} \in SUBSET (k..Len(ls))
  OBVIOUS
<1>. QED
  BY <1>1, <1>2, FirstIsThere DEF Text!NextNonBlank

LEMMA SkipOptionsIn ==
    ASSUME NEW ls \in Seq(Text!Line), NEW k \in 1..Len(ls) + 1
    PROVE  Text!SkipOptions(ls, k) \in k..Len(ls) + 1
<1>1. Len(ls) \in Nat /\ k \in Nat /\ k <= Len(ls) + 1
  BY LenProperties
<1>2. {n \in k..Len(ls) : ls[n].kind # "option" \/ ls[n].indent = 0}
          \in SUBSET (k..Len(ls))
  OBVIOUS
<1>. QED
  BY <1>1, <1>2, FirstIsThere DEF Text!SkipOptions

LEMMA SkipIndentedIn ==
    ASSUME NEW ls \in Seq(Text!Line), NEW k \in 1..Len(ls)
    PROVE  Text!SkipIndented(ls, k) \in 1..Len(ls) + 1
<1>1. Len(ls) \in Nat /\ k + 1 \in Nat /\ k + 1 <= Len(ls) + 1
  BY LenProperties
<1>2. {n \in k + 1..Len(ls) : Text!Above(ls[n], ls[k].indent)}
          \in SUBSET (k + 1..Len(ls))
  OBVIOUS
<1>3. Text!SkipIndented(ls, k) \in k + 1..Len(ls) + 1
  BY <1>1, <1>2, FirstIsThere DEF Text!SkipIndented
<1>. QED
  BY <1>1, <1>3

LEMMA DedentIn ==
    ASSUME NEW l \in Text!Line, NEW by \in Nat
    PROVE  Text!Dedent(l, by) \in Text!Line
<1>1. l.indent \in Nat /\ l.cut \in Nat /\ l.left \in Seq(Text!Left)
  BY DEF Text!Line
<1>2. Len(l.left) \in Nat /\ \A k \in 1..Len(l.left) : l.left[k] \in Text!Left
  BY <1>1, LenProperties, ElementOfSeq
<1>3. CASE l.indent >= by
  <2>1. l.indent - by \in Nat
    BY <1>1, <1>3
  <2>2. [l EXCEPT !.indent = l.indent - by] \in Text!Line
    BY <2>1 DEF Text!Line
  <2>. QED
    BY <1>3, <2>2 DEF Text!Dedent
<1>4. CASE ~(l.indent >= by)
  <2>1. PICK over : over = by - l.indent
    OBVIOUS
  <2>2. over \in Nat \ {0} /\ l.cut + over \in Nat
    BY <1>1, <1>4, <2>1
  <2>3. CASE over <= Len(l.left)
    <3>1. PICK rest, from, left : /\ rest = l.left[over] /\ from = over + rest.indent + 1
                                  /\ left = SubSeq(l.left, from, Len(l.left))
      OBVIOUS
    <3>2. rest \in Text!Left
      BY <1>2, <2>2, <2>3, <3>1
    <3>3. rest.kind \in Text!Kinds /\ rest.indent \in Nat /\ rest.arg \in Words
      BY <3>2 DEF Text!Left
    <3>4. from \in Nat \ {0}
      BY <2>2, <3>1, <3>3
    <3>5. left \in Seq(Text!Left)
      <4>1. \A k \in from..Len(l.left) : l.left[k] \in Text!Left
        BY <1>2, <3>4
      <4>. QED
        BY <1>1, <1>2, <3>1, <3>4, <4>1, SubSeqProperties
    <3>6. Text!Shortened(l, over) = [l EXCEPT !.kind = rest.kind, !.indent = rest.indent,
                                              !.arg = rest.arg, !.left = left, !.cut = l.cut + over]
      BY <3>1 DEF Text!Shortened
    <3>7. Text!Shortened(l, over) \in Text!Line
      BY <2>2, <3>3, <3>5, <3>6 DEF Text!Line
    <3>. QED
      BY <1>4, <2>1, <2>3, <3>7 DEF Text!Dedent
  <2>4. Text!Emptied(l, over) \in Text!Line
    <3>1. "blank" \in Text!Kinds /\ <<>> \in Seq(Text!Left)
      BY DEF Text!Kinds
    <3>. QED
      BY <2>2, <3>1 DEF Text!Emptied, Text!Line
  <2>5. [l EXCEPT !.indent = 0] \in Text!Line
    BY DEF Text!Line
  <2>. QED
    BY <1>4, <2>1, <2>3, <2>4, <2>5 DEF Text!Dedent
<1>. QED
  BY <1>3, <1>4

LEMMA ExtractBlockIn ==
    ASSUME NEW ls \in Seq(Text!Line), NEW k \in 1..Len(ls) + 1, NEW base
    PROVE  /\ Text!ExtractBlock(ls, k, base).body \in Seq(Text!Line)
           /\ Text!ExtractBlock(ls, k, base).end \in 1..Len(ls) + 1
<1>. DEFINE first == Text!NextNonBlank(ls, k)
            end == Text!BlockEnd(ls, k, base)
            body == [n \in 1..end - first |->
                        Text!Dedent(ls[first + n - 1], ls[first].indent)]
<1>1. Len(ls) \in Nat /\ \A n \in 1..Len(ls) : ls[n] \in Text!Line
  BY LenProperties, ElementOfSeq
<1>2. first \in k..Len(ls) + 1 /\ first \in Nat /\ first <= Len(ls) + 1
  BY <1>1, NextNonBlankIn
<1>3. end \in first..Len(ls) + 1
  <2>1. {n \in first..Len(ls) : Text!Dedents(ls, n, base)} \in SUBSET (first..Len(ls))
    OBVIOUS
  <2>. HIDE DEF first
  <2>. QED
    BY <1>1, <1>2, <2>1, FirstIsThere DEF Text!BlockEnd, first
<1>4. CASE Text!Dedents(ls, k, base)
  BY <1>1, <1>2, <1>4 DEF Text!ExtractBlock
<1>5. CASE ~Text!Dedents(ls, k, base)
  <2>1. first <= Len(ls)
    BY <1>1, <1>2, <1>5 DEF Text!Dedents
  <2>2. \A l, m \in Text!Line : Text!Dedent(l, m.indent) \in Text!Line
    <3>1. \A m \in Text!Line : m.indent \in Nat
      BY DEF Text!Line
    <3>. QED
      BY <3>1, DedentIn
  <2>3. \A n \in 1..end - first : first + n - 1 \in 1..Len(ls)
    BY <1>1, <1>2, <1>3
  <2>4. first \in 1..Len(ls) /\ end - first \in Nat
    BY <1>1, <1>2, <1>3, <2>1
  <2>. HIDE DEF first, end
  <2>5. \A n \in 1..end - first : body[n] \in Text!Line
    BY <1>1, <2>2, <2>3, <2>4
  <2>6. body \in Seq(Text!Line)
    <3>1. body \in [1..end - first -> Text!Line]
      BY <2>5
    <3>. HIDE DEF body
    <3>. QED
      BY <2>4, <3>1
  <2>7. Text!ExtractBlock(ls, k, base) = [body |-> body, end |-> end]
    BY <1>5 DEF Text!ExtractBlock, first, end
  <2>. HIDE DEF body
  <2>. QED
    BY <1>1, <1>2, <1>3, <2>4, <2>6, <2>7
<1>. QED
  BY <1>4, <1>5

(* The call that reads. *)
LEMMA TopIsTyped ==
    ASSUME Text!TypeOK, frames # <<>>
    PROVE  /\ Len(frames) \in Nat \ {0} /\ DOMAIN frames = 1..Len(frames)
           /\ Text!Top \in Text!Call /\ Text!Top.width \in Int
           /\ Text!lines \in Seq(Text!Line) /\ Len(Text!lines) \in Nat
           /\ DOMAIN Text!lines = 1..Len(Text!lines)
           /\ \A k \in 1..Len(Text!lines) : Text!lines[k] \in Text!Line
           /\ Text!i \in 1..Len(Text!lines) + 1
<1>1. frames \in Seq(Text!Call)
  BY DEF Text!TypeOK
<1>2. Len(frames) \in Nat \ {0} /\ DOMAIN frames = 1..Len(frames)
  BY <1>1, LenProperties, EmptySeq
<1>3. Text!Top \in Text!Call
  BY <1>1, <1>2, ElementOfSeq DEF Text!Top
<1>4. Text!lines \in Seq(Text!Line) /\ Text!Top.width \in Int
  BY <1>3 DEF Text!lines, Text!Call
<1>5. Text!i \in 1..Len(Text!lines) + 1
  <2>1. \A k \in DOMAIN frames : frames[k].i \in 1..Len(frames[k].lines) + 1
    BY DEF Text!TypeOK
  <2>2. Len(frames) \in DOMAIN frames
    BY <1>2
  <2>. QED
    BY <2>1, <2>2 DEF Text!i, Text!lines, Text!Top
<1>. QED
  BY <1>2, <1>3, <1>4, <1>5, LenProperties, ElementOfSeq

LEMMA PieceIsTyped ==
    ASSUME Text!TypeOK, frames # <<>>,
           NEW form \in {"para", "title", "item", "label", "term", "code", "flat", "omitted"},
           NEW ls \in Seq(Text!Line), NEW level \in Nat, NEW marks \in SUBSET Mark
    PROVE  /\ Text!Piece(form, ls, level, marks) \in Text!Emitted
           /\ Text!Piece(form, ls, level, marks).form = form
           /\ Text!Piece(form, ls, level, marks).level = level
           /\ Text!Piece(form, ls, level, marks).marks = marks
<1>. DEFINE ids == [n \in DOMAIN ls |-> ls[n].id]
            Id == ({"doc"} \cup DOMAIN Included) \X Nat
<1>1. Len(ls) \in Nat /\ DOMAIN ls = 1..Len(ls) /\ \A n \in 1..Len(ls) : ls[n] \in Text!Line
  BY LenProperties, ElementOfSeq
<1>2. ids \in Seq(Id)
  <2>1. ids \in [1..Len(ls) -> Id]
    BY <1>1 DEF Text!Line
  <2>. HIDE DEF ids, Id
  <2>. QED
    BY <1>1, <2>1
<1>a. Text!Top.width \in Int
  BY TopIsTyped
<1>b. "" \in Text!Adornments
  BY LinesAssumption DEF Text!Adornments
<1>3. Text!Top.width \in Int /\ "" \in Text!Adornments /\ <<>> \in Seq(Nat)
  BY <1>a, <1>b, EmptySeq
<1>. DEFINE p == Text!Piece(form, ls, level, marks)
            cut == \E n \in DOMAIN ls : ls[n].cut > 0
<1>4. p = [form |-> form, ids |-> ids, level |-> level, mark |-> "", marks |-> marks,
           pad |-> <<>>, width |-> Text!Top.width, cut |-> cut]
  BY DEF Text!Piece
<1>5. cut \in BOOLEAN
  OBVIOUS
<1>. HIDE DEF p, ids, cut
<1>6. p \in Text!Emitted
  BY <1>2, <1>3, <1>4, <1>5 DEF Text!Emitted, Mark
<1>7. p.form = form /\ p.level = level /\ p.marks = marks
  BY <1>4
<1>. QED
  BY <1>6, <1>7 DEF p

(* Pieces that are no titles and whose links have the numbers of targets. *)
Plain(ps, targets) ==
    /\ ps \in Seq(Text!Emitted)
    /\ \A k \in DOMAIN ps : ps[k].form # "title" /\ MarksTrue(ps[k].marks, targets)

LEMMA NoneIsPlain == \A targets : Plain(<<>>, targets)
BY DEF Plain

LEMMA OneIsPlain ==
    ASSUME NEW p \in Text!Emitted, NEW targets,
           p.form # "title", MarksTrue(p.marks, targets)
    PROVE  Plain(<<p>>, targets)
<1>1. <<p>> \in Seq(Text!Emitted) /\ DOMAIN <<p>> = {1} /\ <<p>>[1] = p
  OBVIOUS
<1>. QED
  BY <1>1 DEF Plain

LEMMA BothArePlain ==
    ASSUME NEW a, NEW b, NEW targets, Plain(a, targets), Plain(b, targets)
    PROVE  Plain(a \o b, targets)
<1>1. a \in Seq(Text!Emitted) /\ b \in Seq(Text!Emitted)
  BY DEF Plain
<1>2. /\ Len(a) \in Nat /\ DOMAIN a = 1..Len(a) /\ Len(b) \in Nat /\ DOMAIN b = 1..Len(b)
      /\ a \o b \in Seq(Text!Emitted) /\ DOMAIN (a \o b) = 1..Len(a) + Len(b)
      /\ \A i \in 1..Len(a) + Len(b) :
             (a \o b)[i] = IF i <= Len(a) THEN a[i] ELSE b[i - Len(a)]
  BY <1>1, LenProperties, ConcatProperties
<1>3. ASSUME NEW i \in 1..Len(a) + Len(b)
      PROVE  (a \o b)[i].form # "title" /\ MarksTrue((a \o b)[i].marks, targets)
  <2>1. CASE i <= Len(a)
    BY <1>2, <2>1 DEF Plain
  <2>2. CASE ~(i <= Len(a))
    <3>1. i - Len(a) \in DOMAIN b
      BY <1>2, <2>2
    <3>. QED
      BY <1>2, <2>2, <3>1 DEF Plain
  <2>. QED
    BY <2>1, <2>2
<1>. QED
  BY <1>2, <1>3 DEF Plain

LEMMA PlainStays ==
    ASSUME NEW a \in Seq(Words), NEW b \in Seq(Words), Lengthen(a, b),
           NEW ps, Plain(ps, a)
    PROVE  Plain(ps, b)
BY MarksStayTrue DEF Plain

-----------------------------------------------------------------------------
(* The invariant.                                                           *)

(* Each adornment has one level, each level has a title, and a title is
   preceded by one of the level above. *)
IsTitle(page, k) == k \in DOMAIN page /\ page[k].form = "title"
Levels(page, marks) ==
    /\ \A j, k \in DOMAIN marks : marks[j] = marks[k] => j = k
    /\ \A k \in DOMAIN page : IsTitle(page, k) =>
           /\ page[k].level \in DOMAIN marks /\ marks[page[k].level] = page[k].mark
           /\ page[k].level > 1 => \E h \in DOMAIN page :
                  IsTitle(page, h) /\ h < k /\ page[h].level = page[k].level - 1
    /\ \A level \in DOMAIN marks : \E h \in DOMAIN page :
           IsTitle(page, h) /\ page[h].level = level

GoodPage(page, notes, marks) ==
    /\ NotesSound(notes)
    /\ page \in Seq(Text!Emitted) /\ marks \in Seq(Text!Adornments)
    /\ \A k \in DOMAIN page : MarksTrue(page[k].marks, notes.links)
    /\ Levels(page, marks)

Emission == GoodPage(out, Text!Notes, adorn)

Calls ==
    /\ frames \in Seq(Text!Call)
    /\ Cardinality(Text!Ancestors) <= IncludeDepth /\ Text!Depth <= NestDepth
    /\ \A k \in DOMAIN frames : /\ frames[k].i \in 1..Len(frames[k].lines) + 1
                                /\ frames[k].start \in 0..Len(out)
    /\ Text!StackHasNoCycle

Lines == para \in Seq({l \in Text!Line : l.kind \in {"text", "rule"}})
         /\ doc \in Seq(Text!Line)

TextInv == Emission /\ Calls /\ Lines

LEMMA NotesAre ==
    NotesSound(Text!Notes) <=>
        /\ links \in Seq(Words)
        /\ seen \in [DOMAIN seen -> Nat] /\ DOMAIN seen \subseteq Words
        /\ \A t \in DOMAIN seen : seen[t] \in 1..Len(links) /\ links[seen[t]] = t
        /\ \A k \in 1..Len(links) : links[k] \in DOMAIN seen /\ seen[links[k]] = k
<1>1. Text!Notes.links = links /\ Text!Notes.seen = seen
  BY DEF Text!Notes
<1>. QED
  BY <1>1 DEF NotesSound

LEMMA TextIsTyped ==
    ASSUME TextInv
    PROVE  Text!TypeOK
<1>1. /\ links \in Seq(Words) /\ DOMAIN seen \subseteq Words
      /\ seen \in [DOMAIN seen -> Nat]
      /\ \A t \in DOMAIN seen : seen[t] \in 1..Len(links)
      /\ \A k \in 1..Len(links) : links[k] \in DOMAIN seen
  BY NotesAre DEF TextInv, Emission, GoodPage
<1>2. Len(links) \in Nat /\ DOMAIN links = 1..Len(links) /\ links \in [1..Len(links) -> Words]
  BY <1>1, LenProperties
<1>3. links \in Seq(DOMAIN seen)
  BY <1>1, <1>2
<1>4. seen \in [DOMAIN seen -> DOMAIN links]
  BY <1>1, <1>2
<1>5. Text!Cardinality(Text!Ancestors) <= IncludeDepth
  <2>1. \A S : Text!Cardinality(S) = Cardinality(S)
    BY DEF Text!Cardinality, Cardinality
  <2>. QED
    BY <2>1 DEF TextInv, Calls
<1>. QED
  BY <1>1, <1>3, <1>4, <1>5 DEF TextInv, Emission, GoodPage, Calls, Lines, Text!TypeOK

LEMMA NestingFollows ==
    ASSUME TextInv
    PROVE  Text!NestingIsSafe
<1>0. NotesSound(Text!Notes) /\ Levels(out, adorn)
      /\ \A k \in DOMAIN out : MarksTrue(out[k].marks, links)
  BY DEF TextInv, Emission, GoodPage, Text!Notes
<1>1. /\ links \in Seq(Words) /\ DOMAIN links = 1..Len(links)
      /\ \A k \in 1..Len(links) : links[k] \in DOMAIN seen /\ seen[links[k]] = k
  BY <1>0, NotesAre, LenProperties
<1>2. Text!FootnotesAgree
  <2>1. \A k \in DOMAIN out : \A mark \in out[k].marks :
            mark.n \in DOMAIN links /\ links[mark.n] = mark.target
    BY <1>0, <1>1 DEF MarksTrue
  <2>2. \A m, n \in DOMAIN links : links[m] = links[n] => m = n
    BY <1>1
  <2>. QED
    BY <2>1, <2>2 DEF Text!FootnotesAgree
<1>3. Text!LevelsAgree
  <2>. DEFINE titles == {k \in DOMAIN out : out[k].form = "title"}
  <2>0. \A k \in titles : k \in DOMAIN out /\ IsTitle(out, k)
    BY DEF IsTitle
  <2>1. ASSUME NEW j \in titles, NEW k \in titles
        PROVE  (out[j].mark = out[k].mark) <=> (out[j].level = out[k].level)
    <3>1. /\ out[j].level \in DOMAIN adorn /\ adorn[out[j].level] = out[j].mark
          /\ out[k].level \in DOMAIN adorn /\ adorn[out[k].level] = out[k].mark
      BY <1>0, <2>0 DEF Levels
    <3>. QED
      BY <1>0, <3>1 DEF Levels
  <2>2. ASSUME NEW k \in titles, out[k].level > 1
        PROVE  \E h \in titles : h < k /\ out[h].level = out[k].level - 1
    <3>1. PICK h \in DOMAIN out :
              IsTitle(out, h) /\ h < k /\ out[h].level = out[k].level - 1
      BY <1>0, <2>0, <2>2 DEF Levels
    <3>. QED
      BY <3>1 DEF IsTitle
  <2>. QED
    BY <2>1, <2>2 DEF Text!LevelsAgree
<1>4. Text!StackHasNoCycle
  BY DEF TextInv, Calls
<1>. QED
  BY <1>2, <1>3, <1>4 DEF Text!NestingIsSafe

-----------------------------------------------------------------------------
(* What is emitted.                                                         *)

(* What keeps the forms, the links and the levels of all pieces. *)
LEMMA SamePage ==
    ASSUME NEW page, NEW new \in Seq(Text!Emitted), NEW notes, NEW marks,
           GoodPage(page, notes, marks), DOMAIN new = DOMAIN page,
           \A k \in DOMAIN page :
               /\ new[k].form = page[k].form /\ new[k].level = page[k].level
               /\ new[k].mark = page[k].mark /\ new[k].marks = page[k].marks
    PROVE  GoodPage(new, notes, marks)
<1>1. \A k : IsTitle(new, k) <=> IsTitle(page, k)
  BY DEF IsTitle
<1>2. \A k \in DOMAIN new : MarksTrue(new[k].marks, notes.links)
  BY DEF GoodPage
<1>3. Levels(page, marks)
  BY DEF GoodPage
<1>4. Levels(new, marks)
  <2>1. ASSUME NEW k \in DOMAIN new, IsTitle(new, k)
        PROVE  /\ new[k].level \in DOMAIN marks /\ marks[new[k].level] = new[k].mark
               /\ new[k].level > 1 => \E h \in DOMAIN new :
                      IsTitle(new, h) /\ h < k /\ new[h].level = new[k].level - 1
    BY <1>1, <1>3, <2>1 DEF Levels
  <2>2. ASSUME NEW level \in DOMAIN marks
        PROVE  \E h \in DOMAIN new : IsTitle(new, h) /\ new[h].level = level
    BY <1>1, <1>3 DEF Levels
  <2>3. \A j, k \in DOMAIN marks : marks[j] = marks[k] => j = k
    BY <1>3 DEF Levels
  <2>. QED
    BY <2>1, <2>2, <2>3 DEF Levels
<1>. QED
  BY <1>2, <1>4 DEF GoodPage

(* Emitting what is no title keeps the notes and the levels. *)
LEMMA PlainAdded ==
    ASSUME NEW page, NEW old, NEW marks, GoodPage(page, old, marks),
           NEW notes, NotesSound(notes), Lengthen(old.links, notes.links),
           NEW ps, Plain(ps, notes.links)
    PROVE  /\ GoodPage(page \o ps, notes, marks)
           /\ Len(page) \in Nat /\ Len(ps) \in Nat /\ Len(page \o ps) = Len(page) + Len(ps)
<1>. DEFINE new == page \o ps
<1>1. /\ page \in Seq(Text!Emitted) /\ ps \in Seq(Text!Emitted)
      /\ old.links \in Seq(Words) /\ notes.links \in Seq(Words)
  BY DEF GoodPage, Plain, NotesSound
<1>2. /\ Len(page) \in Nat /\ DOMAIN page = 1..Len(page)
      /\ Len(ps) \in Nat /\ DOMAIN ps = 1..Len(ps)
      /\ new \in Seq(Text!Emitted) /\ Len(new) = Len(page) + Len(ps)
      /\ \A k \in 1..Len(page) + Len(ps) :
             new[k] = IF k <= Len(page) THEN page[k] ELSE ps[k - Len(page)]
  BY <1>1, LenProperties, ConcatProperties
<1>3. DOMAIN new = 1..Len(page) + Len(ps)
  BY <1>2, LenProperties
<1>. HIDE DEF new
<1>4. \A k \in DOMAIN page : k \in DOMAIN new /\ new[k] = page[k]
  BY <1>2, <1>3
<1>5. \A k \in DOMAIN new : k \notin DOMAIN page =>
          new[k].form # "title" /\ MarksTrue(new[k].marks, notes.links)
  <2>. SUFFICES ASSUME NEW k \in DOMAIN new, k \notin DOMAIN page
                PROVE  new[k].form # "title" /\ MarksTrue(new[k].marks, notes.links)
    OBVIOUS
  <2>1. k - Len(page) \in DOMAIN ps /\ new[k] = ps[k - Len(page)]
    BY <1>2, <1>3
  <2>. QED
    BY <2>1 DEF Plain
<1>6. \A k \in DOMAIN page : MarksTrue(page[k].marks, notes.links)
  BY <1>1, MarksStayTrue DEF GoodPage
<1>7. \A k \in DOMAIN new : MarksTrue(new[k].marks, notes.links)
  BY <1>4, <1>5, <1>6
<1>8. \A k : /\ IsTitle(new, k) <=> IsTitle(page, k)
             /\ IsTitle(page, k) => k \in DOMAIN page /\ k \in DOMAIN new /\ new[k] = page[k]
  BY <1>4, <1>5 DEF IsTitle
<1>9. Levels(page, marks)
  BY DEF GoodPage
<1>10. Levels(new, marks)
  <2>1. ASSUME NEW k \in DOMAIN new, IsTitle(new, k)
        PROVE  /\ new[k].level \in DOMAIN marks /\ marks[new[k].level] = new[k].mark
               /\ new[k].level > 1 => \E h \in DOMAIN new :
                      IsTitle(new, h) /\ h < k /\ new[h].level = new[k].level - 1
    <3>1. IsTitle(page, k) /\ k \in DOMAIN page /\ new[k] = page[k]
      BY <1>8, <2>1
    <3>2. page[k].level \in DOMAIN marks /\ marks[page[k].level] = page[k].mark
      BY <1>9, <3>1 DEF Levels
    <3>3. ASSUME page[k].level > 1
          PROVE  \E h \in DOMAIN new :
                    IsTitle(new, h) /\ h < k /\ new[h].level = page[k].level - 1
      <4>1. PICK h \in DOMAIN page :
                IsTitle(page, h) /\ h < k /\ page[h].level = page[k].level - 1
        BY <1>9, <3>1, <3>3 DEF Levels
      <4>. QED
        BY <1>8, <4>1
    <3>. QED
      BY <3>1, <3>2, <3>3
  <2>2. ASSUME NEW level \in DOMAIN marks
        PROVE  \E h \in DOMAIN new : IsTitle(new, h) /\ new[h].level = level
    <3>1. PICK h \in DOMAIN page : IsTitle(page, h) /\ page[h].level = level
      BY <1>9 DEF Levels
    <3>. QED
      BY <1>8, <3>1
  <2>3. \A j, k \in DOMAIN marks : marks[j] = marks[k] => j = k
    BY <1>9 DEF Levels
  <2>. QED
    BY <2>1, <2>2, <2>3 DEF Levels
<1>11. GoodPage(new, notes, marks)
  BY <1>2, <1>7, <1>10 DEF GoodPage
<1>. QED
  BY <1>2, <1>11 DEF new

(* A title of a known adornment, or the first of another one. *)
LEMMA TitleAdded ==
    ASSUME NEW page, NEW notes, NEW marks, GoodPage(page, notes, marks),
           NEW p \in Text!Emitted, p.form = "title", MarksTrue(p.marks, notes.links),
           NEW all \in Seq(Text!Adornments),
           \/ p.level \in DOMAIN marks /\ marks[p.level] = p.mark /\ all = marks
           \/ /\ \A k \in DOMAIN marks : marks[k] # p.mark
              /\ p.level = Len(marks) + 1 /\ all = Append(marks, p.mark)
    PROVE  GoodPage(page \o <<p>>, notes, all)
<1>. DEFINE new == page \o <<p>>
            n == Len(page) + 1
<1>1. page \in Seq(Text!Emitted) /\ marks \in Seq(Text!Adornments) /\ Levels(page, marks)
      /\ NotesSound(notes) /\ \A k \in DOMAIN page : MarksTrue(page[k].marks, notes.links)
  BY DEF GoodPage
<1>2. /\ Len(page) \in Nat /\ DOMAIN page = 1..Len(page)
      /\ Len(marks) \in Nat /\ DOMAIN marks = 1..Len(marks)
  BY <1>1, LenProperties
<1>3. /\ new \in Seq(Text!Emitted) /\ Len(new) = n /\ new[n] = p
      /\ \A k \in DOMAIN page : new[k] = page[k]
  BY <1>1, <1>2
<1>4. DOMAIN new = 1..n /\ n \in Nat
  BY <1>2, <1>3, LenProperties
<1>a. /\ Len(all) \in Nat /\ DOMAIN all = 1..Len(all)
      /\ p.level \in Nat /\ p.mark \in Text!Adornments
  BY LenProperties DEF Text!Emitted
<1>5. /\ Len(marks) <= Len(all)
      /\ \A k \in DOMAIN marks : k \in DOMAIN all /\ all[k] = marks[k]
      /\ p.level \in DOMAIN all /\ all[p.level] = p.mark
      /\ \A k \in DOMAIN all : k \in DOMAIN marks \/ k = p.level
      /\ p.level \in 1..Len(marks) + 1
  <2>1. CASE p.level \in DOMAIN marks /\ marks[p.level] = p.mark /\ all = marks
    <3>0. p.level \in DOMAIN marks /\ marks[p.level] = p.mark /\ all = marks
      BY <2>1
    <3>1. \A k \in 1..Len(marks) : k \in 1..Len(marks) + 1
      BY <1>2
    <3>2. Len(marks) <= Len(all)
      <4>1. Len(all) = Len(marks)
        BY <3>0, Zenon
      <4>2. Len(marks) \in Nat
        BY <1>2
      <4>. QED
        BY <4>1, <4>2
    <3>3. p.level \in 1..Len(marks) + 1
      BY <1>2, <3>0, <3>1
    <3>. QED
      BY <3>0, <3>2, <3>3
  <2>2. CASE /\ \A k \in DOMAIN marks : marks[k] # p.mark
             /\ p.level = Len(marks) + 1 /\ all = Append(marks, p.mark)
    <3>0. all = Append(marks, p.mark) /\ p.level = Len(marks) + 1
      BY <2>2
    <3>1. /\ Len(all) = Len(marks) + 1 /\ all[Len(marks) + 1] = p.mark
          /\ \A k \in 1..Len(marks) : all[k] = marks[k]
      BY <1>1, <1>a, <3>0, AppendProperties
    <3>2. /\ DOMAIN all = 1..Len(marks) + 1
          /\ \A k \in 1..Len(marks) + 1 : k \in 1..Len(marks) \/ k = Len(marks) + 1
          /\ \A k \in 1..Len(marks) : k \in 1..Len(marks) + 1
          /\ Len(marks) + 1 \in 1..Len(marks) + 1 /\ Len(marks) <= Len(all)
      BY <1>2, <1>a, <3>1
    <3>. QED
      BY <1>2, <3>0, <3>1, <3>2
  <2>. QED
    BY <2>1, <2>2
<1>6. \A j, k \in DOMAIN all : all[j] = all[k] => j = k
  <2>1. \A j, k \in DOMAIN marks : marks[j] = marks[k] => j = k
    BY <1>1 DEF Levels
  <2>2. CASE p.level \in DOMAIN marks /\ marks[p.level] = p.mark /\ all = marks
    BY <2>1, <2>2
  <2>3. CASE /\ \A k \in DOMAIN marks : marks[k] # p.mark
             /\ p.level = Len(marks) + 1 /\ all = Append(marks, p.mark)
    BY <1>5, <2>1, <2>3
  <2>. QED
    BY <2>2, <2>3
<1>. HIDE DEF new, n
<1>7. \A k : IsTitle(page, k) => k \in DOMAIN page /\ IsTitle(new, k) /\ new[k] = page[k]
                                 /\ k < n
  BY <1>2, <1>3, <1>4 DEF IsTitle, n
<1>8. IsTitle(new, n) /\ n \in DOMAIN new
  BY <1>3, <1>4, <1>2 DEF IsTitle, n
<1>9. \A k : IsTitle(new, k) => k = n \/ IsTitle(page, k)
  BY <1>2, <1>3, <1>4 DEF IsTitle, n
<1>10. \A level \in DOMAIN marks : \E h \in DOMAIN new :
           IsTitle(page, h) /\ IsTitle(new, h) /\ h < n /\ new[h].level = level
  <2>. SUFFICES ASSUME NEW level \in DOMAIN marks
                PROVE  \E h \in DOMAIN new :
                          IsTitle(page, h) /\ IsTitle(new, h) /\ h < n /\ new[h].level = level
    OBVIOUS
  <2>1. PICK h \in DOMAIN page : IsTitle(page, h) /\ page[h].level = level
    BY <1>1 DEF Levels
  <2>2. h \in DOMAIN new
    BY <1>7, <2>1 DEF IsTitle
  <2>. QED
    BY <1>7, <2>1, <2>2
<1>11. ASSUME NEW k \in DOMAIN new, IsTitle(new, k)
       PROVE  /\ new[k].level \in DOMAIN all /\ all[new[k].level] = new[k].mark
              /\ new[k].level > 1 => \E h \in DOMAIN new :
                     IsTitle(new, h) /\ h < k /\ new[h].level = new[k].level - 1
  <2>1. CASE IsTitle(page, k)
    <3>1. new[k] = page[k] /\ k \in DOMAIN page
      BY <1>7, <2>1
    <3>2. page[k].level \in DOMAIN marks /\ marks[page[k].level] = page[k].mark
      BY <1>1, <2>1, <3>1 DEF Levels
    <3>3. ASSUME page[k].level > 1
          PROVE  \E h \in DOMAIN new :
                    IsTitle(new, h) /\ h < k /\ new[h].level = page[k].level - 1
      <4>1. PICK h \in DOMAIN page :
                IsTitle(page, h) /\ h < k /\ page[h].level = page[k].level - 1
        BY <1>1, <2>1, <3>1, <3>3 DEF Levels
      <4>2. h \in DOMAIN new
        BY <1>7, <4>1 DEF IsTitle
      <4>. QED
        BY <1>7, <4>1, <4>2
    <3>. QED
      BY <1>5, <3>1, <3>2, <3>3
  <2>2. CASE k = n
    <3>1. new[k] = p
      BY <1>3, <2>2
    <3>2. ASSUME p.level > 1
          PROVE  \E h \in DOMAIN new : IsTitle(new, h) /\ h < k /\ new[h].level = p.level - 1
      <4>0. p.level \in 1..Len(marks) + 1
        BY <1>5
      <4>1. p.level - 1 \in 1..Len(marks) /\ DOMAIN marks = 1..Len(marks)
        BY <1>2, <3>2, <4>0
      <4>. QED
        BY <1>10, <2>2, <4>1
    <3>. QED
      BY <1>5, <3>1, <3>2
  <2>. QED
    BY <1>9, <1>11, <2>1, <2>2
<1>12. ASSUME NEW level \in DOMAIN all
       PROVE  \E h \in DOMAIN new : IsTitle(new, h) /\ new[h].level = level
  <2>1. CASE level \in DOMAIN marks
    BY <1>10, <2>1
  <2>2. CASE level = p.level
    BY <1>3, <1>8, <2>2
  <2>. QED
    BY <1>5, <2>1, <2>2
<1>13. Levels(new, all)
  BY <1>6, <1>11, <1>12 DEF Levels
<1>14. \A k \in DOMAIN new : MarksTrue(new[k].marks, notes.links)
  <2>1. \A k \in DOMAIN new : k = n \/ k \in DOMAIN page
    BY <1>2, <1>4 DEF n
  <2>. QED
    BY <1>1, <1>3, <2>1
<1>. QED
  BY <1>1, <1>3, <1>13, <1>14 DEF GoodPage, new

LEMMA ParagraphIsPlain ==
    ASSUME TextInv, frames # <<>>
    PROVE  /\ NotesSound(Text!ParaNotes)
           /\ Lengthen(links, Text!ParaNotes.links)
           /\ Plain(Text!ParaPiece, Text!ParaNotes.links)
           /\ Len(Text!ParaPiece) \in Nat
<1>1. NotesSound(Text!Notes) /\ Text!Notes.links = links
  BY DEF TextInv, Emission, GoodPage, Text!Notes
<1>2. para \in Seq(Text!Line)
  <2>1. {l \in Text!Line : l.kind \in {"text", "rule"}} \subseteq Text!Line
    OBVIOUS
  <2>. QED
    BY <2>1, SeqMonotonic DEF TextInv, Lines
<1>3. /\ NotesSound(Text!ParaNotes)
      /\ Lengthen(links, Text!ParaNotes.links)
      /\ Text!Marks(Text!ParaNotes, para) \in SUBSET Mark
      /\ MarksTrue(Text!Marks(Text!ParaNotes, para), Text!ParaNotes.links)
  BY <1>1, <1>2, InlineSound DEF Text!ParaNotes
<1>4. Plain(Text!ParaPiece, Text!ParaNotes.links)
  <2>1. CASE para = <<>>
    BY <2>1, NoneIsPlain DEF Text!ParaPiece
  <2>2. CASE para # <<>>
    <3>. DEFINE p == Text!Piece("para", para, 0, Text!Marks(Text!ParaNotes, para))
    <3>1. /\ p \in Text!Emitted /\ p.form = "para"
          /\ p.marks = Text!Marks(Text!ParaNotes, para)
      BY <1>2, <1>3, TextIsTyped, PieceIsTyped
    <3>2. Text!ParaPiece = <<p>>
      BY <2>2 DEF Text!ParaPiece
    <3>. HIDE DEF p
    <3>. QED
      BY <1>3, <3>1, <3>2, OneIsPlain
  <2>. QED
    BY <2>1, <2>2
<1>5. Len(Text!ParaPiece) \in Nat
  BY <1>4, LenProperties DEF Plain
<1>. QED
  BY <1>3, <1>4, <1>5

LEMMA NotesRest ==
    ASSUME NEW notes, NEW marks, GoodPage(out', notes, marks),
           seen' = notes.seen, links' = notes.links, adorn' = marks
    PROVE  Emission'
<1>1. Text!Notes'.links = notes.links /\ Text!Notes'.seen = notes.seen
  BY DEF Text!Notes
<1>2. NotesSound(Text!Notes')
  BY <1>1 DEF GoodPage, NotesSound
<1>. QED
  BY <1>1, <1>2 DEF GoodPage, Emission

LEMMA FlushingKeeps ==
    ASSUME TextInv, frames # <<>>, NEW notes, NEW pieces,
           NotesSound(notes), Lengthen(Text!ParaNotes.links, notes.links),
           Plain(pieces, notes.links),
           Text!FlushThen(notes, pieces), adorn' = adorn, doc' = doc
    PROVE  /\ Emission' /\ Lines'
           /\ Len(out) \in Nat /\ Len(pieces) \in Nat /\ Len(Text!ParaPiece) \in Nat
           /\ Len(out') = Len(out) + (Len(Text!ParaPiece) + Len(pieces))
<1>1. /\ NotesSound(Text!ParaNotes) /\ Lengthen(links, Text!ParaNotes.links)
      /\ Plain(Text!ParaPiece, Text!ParaNotes.links) /\ Len(Text!ParaPiece) \in Nat
  BY ParagraphIsPlain
<1>2. /\ links \in Seq(Words) /\ Text!ParaNotes.links \in Seq(Words)
      /\ notes.links \in Seq(Words)
  BY <1>1, NotesAre DEF NotesSound, TextInv, Emission, GoodPage
<1>3. Lengthen(links, notes.links) /\ Plain(Text!ParaPiece, notes.links)
  BY <1>1, <1>2, LengtheningIsTransitive, PlainStays
<1>4. Plain(Text!ParaPiece \o pieces, notes.links)
  BY <1>3, BothArePlain
<1>5. /\ out \in Seq(Text!Emitted) /\ Text!ParaPiece \in Seq(Text!Emitted)
      /\ pieces \in Seq(Text!Emitted)
  BY <1>1 DEF TextInv, Emission, GoodPage, Plain
<1>6. /\ Len(Text!ParaPiece \o pieces) = Len(Text!ParaPiece) + Len(pieces)
      /\ Len(pieces) \in Nat
  BY <1>5, ConcatProperties, LenProperties
<1>7. out' = out \o (Text!ParaPiece \o pieces)
  <2>1. out' = (out \o Text!ParaPiece) \o pieces
    BY DEF Text!FlushThen
  <2>2. \A a, b, c \in Seq(Text!Emitted) : (a \o b) \o c = a \o (b \o c)
    BY ConcatAssociative
  <2>3. (out \o Text!ParaPiece) \o pieces = out \o (Text!ParaPiece \o pieces)
    BY <1>5, <2>2
  <2>. QED
    BY <2>1, <2>3
<1>8. /\ Emission' /\ Len(out) \in Nat
      /\ Len(out') = Len(out) + Len(Text!ParaPiece \o pieces)
  <2>1. Text!Notes.links = links
    BY DEF Text!Notes
  <2>2. /\ GoodPage(out', notes, adorn) /\ Len(out) \in Nat
        /\ Len(out') = Len(out) + Len(Text!ParaPiece \o pieces)
    BY <1>3, <1>4, <1>7, <2>1, PlainAdded DEF TextInv, Emission
  <2>3. Emission'
    BY <2>2, NotesRest DEF Text!FlushThen
  <2>. QED
    BY <2>2, <2>3
<1>9. Lines'
  BY EmptySeq DEF Text!FlushThen, TextInv, Lines
<1>. QED
  BY <1>1, <1>6, <1>8, <1>9

-----------------------------------------------------------------------------
(* The calls.                                                               *)

From(fs, froms) == {k \in DOMAIN fs : fs[k].source \in froms}
IncludedFiles == DOMAIN Included

(* Less than all of a file, or all where there is nothing to start at. *)
IsPart(caller, f) == Text!IncludesPart(caller, f.lines, Included[f.source])

(* Calls, of any sequence and with what is emitted of any length. *)
GoodCalls(fs, size) ==
    /\ fs \in Seq(Text!Call)
    /\ Cardinality(From(fs, IncludedFiles)) <= IncludeDepth
    /\ Cardinality(From(fs, {"block"})) <= NestDepth
    /\ \A k \in DOMAIN fs : /\ fs[k].i \in 1..Len(fs[k].lines) + 1
                            /\ fs[k].start \in 0..size
    /\ \A j, k \in From(fs, IncludedFiles) : j < k /\ fs[j].source = fs[k].source =>
           IsPart(fs[k - 1], fs[k])

LEMMA AncestorsAre ==
    ASSUME frames \in Seq(Text!Call)
    PROVE  /\ Text!Ancestors = From(frames, IncludedFiles)
           /\ Text!Depth = Cardinality(From(frames, {"block"}))
<1>1. \A k \in DOMAIN frames : frames[k].source \in {"doc", "block"} \cup DOMAIN Included
  <2>1. DOMAIN frames = 1..Len(frames)
    BY LenProperties
  <2>2. \A k \in DOMAIN frames : frames[k] \in Text!Call
    BY <2>1, ElementOfSeq
  <2>. QED
    BY <2>2 DEF Text!Call
<1>2. Text!Ancestors = From(frames, IncludedFiles)
  BY <1>1, LinesAssumption DEF Text!Ancestors, From, IncludedFiles
<1>3. Text!Depth = Cardinality(From(frames, {"block"}))
  <2>1. From(frames, {"block"}) = {k \in DOMAIN frames : frames[k].source = "block"}
    BY DEF From
  <2>2. \A S : Text!Cardinality(S) = Cardinality(S)
    BY DEF Text!Cardinality, Cardinality
  <2>. QED
    BY <2>1, <2>2 DEF Text!Depth
<1>. QED
  BY <1>2, <1>3

LEMMA CallsAre == Calls <=> GoodCalls(frames, Len(out))
<1>1. CASE frames \in Seq(Text!Call)
  <2>1. /\ Text!Ancestors = From(frames, IncludedFiles)
        /\ Text!Depth = Cardinality(From(frames, {"block"}))
    BY <1>1, AncestorsAre
  <2>2. Text!StackHasNoCycle <=>
           \A j, k \in From(frames, IncludedFiles) : j < k /\ frames[j].source = frames[k].source =>
               IsPart(frames[k - 1], frames[k])
    BY <2>1 DEF Text!StackHasNoCycle, IsPart
  <2>. QED
    BY <1>1, <2>1, <2>2 DEF Calls, GoodCalls
<1>2. CASE frames \notin Seq(Text!Call)
  BY <1>2 DEF Calls, GoodCalls
<1>. QED
  BY <1>1, <1>2

LEMMA CallMoves ==
    ASSUME NEW fs, NEW old \in Nat, GoodCalls(fs, old), fs # <<>>,
           NEW size \in Nat, old <= size,
           NEW next \in 1..Len(fs[Len(fs)].lines) + 1
    PROVE  LET moved == [fs EXCEPT ![Len(fs)].i = next]
           IN /\ GoodCalls(moved, size) /\ Len(moved) = Len(fs) /\ Len(fs) \in Nat
              /\ \A froms : From(moved, froms) = From(fs, froms)
              /\ \A k \in DOMAIN fs : moved[k].source = fs[k].source
              /\ moved[Len(fs)].lines = fs[Len(fs)].lines /\ moved[Len(fs)].i = next
<1>. DEFINE n == Len(fs)
            f == [fs[n] EXCEPT !.i = next]
            moved == [fs EXCEPT ![n] = f]
<1>1. fs \in Seq(Text!Call)
  BY DEF GoodCalls
<1>2. n \in Nat \ {0} /\ DOMAIN fs = 1..n /\ n \in DOMAIN fs
  BY <1>1, LenProperties, EmptySeq
<1>3. fs[n] \in Text!Call
  BY <1>1, <1>2, ElementOfSeq
<1>4. Len(fs[n].lines) \in Nat
  BY <1>3, LenProperties DEF Text!Call
<1>5. f \in Text!Call /\ f.i = next /\ f.source = fs[n].source
      /\ f.lines = fs[n].lines /\ f.start = fs[n].start
  <2>1. next \in Nat
    BY <1>4
  <2>2. \A c \in Text!Call : [c EXCEPT !.i = next] \in Text!Call
    BY <2>1 DEF Text!Call
  <2>3. \A c \in Text!Call : LET d == [c EXCEPT !.i = next]
                             IN /\ d.i = next /\ d.source = c.source
                                /\ d.lines = c.lines /\ d.start = c.start
    BY DEF Text!Call
  <2>. QED
    BY <1>3, <2>2, <2>3
<1>6. moved \in Seq(Text!Call) /\ Len(moved) = n
      /\ \A k \in 1..n : moved[k] = IF k = n THEN f ELSE fs[k]
  BY <1>1, <1>2, <1>5, ExceptSeq
<1>7. DOMAIN moved = DOMAIN fs
  OBVIOUS
<1>. HIDE DEF f, moved
<1>8. \A k \in DOMAIN fs : /\ moved[k].source = fs[k].source /\ moved[k].lines = fs[k].lines
                           /\ moved[k].start = fs[k].start
                           /\ moved[k].i \in 1..Len(moved[k].lines) + 1
  BY <1>2, <1>5, <1>6 DEF GoodCalls
<1>9. \A froms : From(moved, froms) = From(fs, froms)
  BY <1>7, <1>8 DEF From
<1>10. \A k \in DOMAIN moved : moved[k].start \in 0..size
  <2>1. \A k \in DOMAIN fs : fs[k].start \in 0..old
    BY DEF GoodCalls
  <2>. QED
    BY <1>7, <1>8, <2>1
<1>11. \A j, k \in From(fs, IncludedFiles) : j < k =>
           k \in DOMAIN fs /\ j \in DOMAIN fs /\ k - 1 \in DOMAIN fs /\ moved[k - 1] = fs[k - 1]
  <2>. SUFFICES ASSUME NEW j \in 1..n, NEW k \in 1..n, j < k
                PROVE  k - 1 \in 1..n /\ moved[k - 1] = fs[k - 1]
    BY <1>2 DEF From
  <2>1. k - 1 \in 1..n /\ k - 1 # n
    BY <1>2
  <2>. QED
    BY <1>6, <2>1
<1>a. \A j, k \in From(moved, IncludedFiles) : j < k /\ moved[j].source = moved[k].source =>
          IsPart(moved[k - 1], moved[k])
  <2>. SUFFICES ASSUME NEW j \in From(fs, IncludedFiles), NEW k \in From(fs, IncludedFiles),
                       j < k, moved[j].source = moved[k].source
                PROVE  IsPart(moved[k - 1], moved[k])
    BY <1>9
  <2>1. /\ fs[j].source = fs[k].source /\ moved[k - 1] = fs[k - 1]
        /\ moved[k].lines = fs[k].lines /\ moved[k].source = fs[k].source
    BY <1>8, <1>11
  <2>2. IsPart(fs[k - 1], fs[k])
    BY <2>1 DEF GoodCalls
  <2>. QED
    BY <2>1, <2>2 DEF IsPart
<1>12. GoodCalls(moved, size)
  BY <1>6, <1>7, <1>8, <1>9, <1>10, <1>a DEF GoodCalls
<1>. QED
  BY <1>2, <1>5, <1>6, <1>8, <1>9, <1>12 DEF moved, f

LEMMA CallReturns ==
    ASSUME NEW fs, NEW old \in Nat, GoodCalls(fs, old), fs # <<>>,
           NEW size \in Nat, old <= size
    PROVE  GoodCalls(SubSeq(fs, 1, Len(fs) - 1), size)
<1>. DEFINE n == Len(fs)
            less == SubSeq(fs, 1, n - 1)
<1>1. fs \in Seq(Text!Call)
  BY DEF GoodCalls
<1>2. n \in Nat \ {0} /\ DOMAIN fs = 1..n
  BY <1>1, LenProperties, EmptySeq
<1>3. \A k \in 1..n - 1 : fs[k] \in Text!Call
  BY <1>1, <1>2, ElementOfSeq
<1>4. /\ less \in Seq(Text!Call) /\ Len(less) = n - 1
      /\ \A k \in 1..n - 1 : less[k] = fs[k]
  BY <1>2, <1>3, SubSeqProperties
<1>5. DOMAIN less = 1..n - 1
  BY <1>4, LenProperties
<1>. HIDE DEF less
<1>6. \A k \in DOMAIN less : k \in DOMAIN fs /\ less[k] = fs[k]
  BY <1>2, <1>4, <1>5
<1>7. \A froms : /\ From(less, froms) \in SUBSET From(fs, froms)
                    /\ Cardinality(From(less, froms)) <= Cardinality(From(fs, froms))
                    /\ Cardinality(From(fs, froms)) \in Nat
                    /\ Cardinality(From(less, froms)) \in Nat
  <2>. SUFFICES ASSUME NEW froms
                PROVE  /\ From(less, froms) \in SUBSET From(fs, froms)
                       /\ Cardinality(From(less, froms)) <= Cardinality(From(fs, froms))
                       /\ Cardinality(From(fs, froms)) \in Nat
                       /\ Cardinality(From(less, froms)) \in Nat
    OBVIOUS
  <2>1. From(less, froms) \in SUBSET From(fs, froms)
    BY <1>6 DEF From
  <2>2. IsFiniteSet(1..n)
    BY <1>2, FS_Interval, 1 \in Int, n \in Int
  <2>3. From(fs, froms) \in SUBSET (1..n)
    BY <1>2 DEF From
  <2>4. IsFiniteSet(From(fs, froms))
    BY <2>2, <2>3, FS_Subset
  <2>. QED
    BY <2>1, <2>4, FS_Subset, FS_CardinalityType
<1>8. /\ Cardinality(From(less, IncludedFiles)) <= IncludeDepth
      /\ Cardinality(From(less, {"block"})) <= NestDepth
  BY <1>7, DepthsAssumption DEF GoodCalls
<1>9. \A k \in DOMAIN less : /\ less[k].i \in 1..Len(less[k].lines) + 1
                             /\ less[k].start \in 0..size
  <2>1. \A k \in DOMAIN fs : /\ fs[k].i \in 1..Len(fs[k].lines) + 1
                             /\ fs[k].start \in 0..old
    BY DEF GoodCalls
  <2>. QED
    BY <1>6, <2>1
<1>10. ASSUME NEW j \in From(less, IncludedFiles), NEW k \in From(less, IncludedFiles),
              j < k, less[j].source = less[k].source
       PROVE  IsPart(less[k - 1], less[k])
  <2>1. j \in 1..n - 1 /\ k \in 1..n - 1
    BY <1>5 DEF From
  <2>2. k - 1 \in 1..n - 1
    BY <1>2, <1>10, <2>1
  <2>3. less[j] = fs[j] /\ less[k] = fs[k] /\ less[k - 1] = fs[k - 1]
    BY <1>4, <2>1, <2>2
  <2>4. j \in From(fs, IncludedFiles) /\ k \in From(fs, IncludedFiles)
    BY <1>7
  <2>5. IsPart(fs[k - 1], fs[k])
    BY <1>10, <2>3, <2>4 DEF GoodCalls
  <2>. QED
    BY <2>3, <2>5
<1>. QED
  BY <1>4, <1>8, <1>9, <1>10 DEF GoodCalls, less

(* A call more: of a block, if there are not too many already, or of a file,
   if it is not under way or what is read is less than the whole. *)
LEMMA CallBegins ==
    ASSUME NEW fs, NEW size \in Nat, GoodCalls(fs, size), NEW f \in Text!Call,
           f.i = 1, f.start \in 0..size,
           \/ f.source = "block" /\ Cardinality(From(fs, {"block"})) < NestDepth
           \/ /\ f.source \in IncludedFiles /\ Cardinality(From(fs, IncludedFiles)) < IncludeDepth
              /\ \/ \A k \in From(fs, IncludedFiles) : fs[k].source # f.source
                 \/ IsPart(fs[Len(fs)], f)
    PROVE  GoodCalls(Append(fs, f), size)
<1>. DEFINE n == Len(fs)
            more == Append(fs, f)
<1>1. fs \in Seq(Text!Call)
  BY DEF GoodCalls
<1>2. n \in Nat /\ DOMAIN fs = 1..n
  BY <1>1, LenProperties
<1>3. /\ more \in Seq(Text!Call) /\ Len(more) = n + 1
      /\ \A k \in 1..n : more[k] = fs[k]
      /\ more[n + 1] = f
  BY <1>1, <1>2
<1>4. DOMAIN more = 1..n + 1
  BY <1>3, LenProperties
<1>. HIDE DEF more
<1>5. \A froms : From(more, froms) = IF f.source \in froms
                                          THEN From(fs, froms) \cup {n + 1}
                                          ELSE From(fs, froms)
  BY <1>2, <1>3, <1>4 DEF From
<1>6. \A froms : /\ IsFiniteSet(From(fs, froms)) /\ n + 1 \notin From(fs, froms)
                    /\ Cardinality(From(fs, froms)) \in Nat
  <2>1. IsFiniteSet(1..n)
    BY <1>2, FS_Interval, 1 \in Int, n \in Int
  <2>2. \A froms : From(fs, froms) \in SUBSET (1..n)
    BY <1>2 DEF From
  <2>3. \A froms : IsFiniteSet(From(fs, froms))
    BY <2>1, <2>2, FS_Subset
  <2>4. n + 1 \notin 1..n
    BY <1>2
  <2>. QED
    BY <2>2, <2>3, <2>4, FS_CardinalityType
<1>7. \A froms : Cardinality(From(more, froms)) =
                        IF f.source \in froms THEN Cardinality(From(fs, froms)) + 1
                        ELSE Cardinality(From(fs, froms))
  <2>. SUFFICES ASSUME NEW froms
                PROVE  Cardinality(From(more, froms)) =
                           IF f.source \in froms THEN Cardinality(From(fs, froms)) + 1
                           ELSE Cardinality(From(fs, froms))
    OBVIOUS
  <2>1. PICK calls : calls = From(fs, froms)
    OBVIOUS
  <2>2. IsFiniteSet(calls) /\ n + 1 \notin calls
    BY <1>6, <2>1
  <2>3. Cardinality(calls \cup {n + 1}) = Cardinality(calls) + 1
    BY <2>2, FS_AddElement
  <2>. QED
    BY <1>5, <2>1, <2>3
<1>8. "block" \notin IncludedFiles
  BY LinesAssumption DEF IncludedFiles
<1>9. /\ Cardinality(From(more, IncludedFiles)) <= IncludeDepth
      /\ Cardinality(From(more, {"block"})) <= NestDepth
  <2>1. /\ Cardinality(From(fs, IncludedFiles)) <= IncludeDepth
        /\ Cardinality(From(fs, {"block"})) <= NestDepth
    BY DEF GoodCalls
  <2>. QED
    BY <1>6, <1>7, <1>8, <2>1, DepthsAssumption
<1>10. Len(f.lines) \in Nat
  BY LenProperties DEF Text!Call
<1>11. \A k \in DOMAIN more : /\ more[k].i \in 1..Len(more[k].lines) + 1
                              /\ more[k].start \in 0..size
  BY <1>2, <1>3, <1>4, <1>10 DEF GoodCalls
<1>12. ASSUME NEW j \in From(more, IncludedFiles), NEW k \in From(more, IncludedFiles), j < k,
              more[j].source = more[k].source
       PROVE  IsPart(more[k - 1], more[k])
  <2>1. j \in 1..n + 1 /\ k \in 1..n + 1
    BY <1>4 DEF From
  <2>2. j \in 1..n /\ more[j] = fs[j] /\ j \in From(fs, IncludedFiles)
    BY <1>2, <1>3, <1>12, <2>1 DEF From
  <2>3. CASE k \in 1..n
    <3>1. more[k] = fs[k] /\ k \in From(fs, IncludedFiles)
      BY <1>2, <1>3, <2>3 DEF From
    <3>2. k - 1 \in 1..n
      BY <1>2, <1>12, <2>2, <2>3
    <3>3. more[k - 1] = fs[k - 1]
      BY <1>3, <3>2
    <3>. QED
      BY <1>12, <2>2, <3>1, <3>3 DEF GoodCalls
  <2>4. CASE k = n + 1
    <3>1. more[k] = f /\ f.source \in IncludedFiles
      BY <1>3, <2>4 DEF From
    <3>2. k - 1 = n /\ n \in 1..n
      BY <1>2, <2>2, <2>4
    <3>3. more[k - 1] = fs[n]
      BY <1>3, <3>2
    <3>4. fs[j].source = f.source
      BY <1>12, <2>2, <3>1
    <3>5. IsPart(fs[n], f)
      BY <1>8, <2>2, <3>1, <3>4
    <3>. QED
      BY <3>1, <3>3, <3>5
  <2>. QED
    BY <1>2, <2>1, <2>3, <2>4
<1>. QED
  BY <1>3, <1>9, <1>11, <1>12 DEF GoodCalls, more

(* The line at hand. *)
LEMMA LineIsTyped ==
    ASSUME TextInv, Text!More
    PROVE  /\ frames # <<>> /\ Text!TypeOK
           /\ Text!lines \in Seq(Text!Line) /\ Len(Text!lines) \in Nat
           /\ Text!i \in 1..Len(Text!lines) /\ Text!line \in Text!Line
           /\ \A k \in 1..Len(Text!lines) : Text!lines[k] \in Text!Line
<1>1. frames # <<>> /\ Text!TypeOK /\ Text!i <= Len(Text!lines)
  BY TextIsTyped DEF Text!More
<1>2. /\ Text!lines \in Seq(Text!Line) /\ Len(Text!lines) \in Nat
      /\ \A k \in 1..Len(Text!lines) : Text!lines[k] \in Text!Line
      /\ Text!i \in 1..Len(Text!lines) + 1
  BY <1>1, TopIsTyped
<1>3. Text!i \in 1..Len(Text!lines)
  BY <1>1, <1>2
<1>4. Text!line \in Text!Line
  BY <1>2, <1>3 DEF Text!line
<1>. QED
  BY <1>1, <1>2, <1>3, <1>4

LEMMA GoingKeeps ==
    ASSUME TextInv, frames # <<>>, Len(out) \in Nat, Len(out') \in Nat, Len(out) <= Len(out'),
           NEW next \in 1..Len(Text!lines) + 1, Text!Go(next)
    PROVE  Calls'
<1>1. GoodCalls(frames, Len(out))
  BY CallsAre DEF TextInv
<1>2. (Calls <=> GoodCalls(frames, Len(out)))'
  BY CallsAre, PTL
<1>3. frames' = [frames EXCEPT ![Len(frames)].i = next]
  BY DEF Text!Go
<1>4. next \in 1..Len(frames[Len(frames)].lines) + 1
  BY DEF Text!lines, Text!Top
<1>5. PICK size : size = Len(out')
  OBVIOUS
<1>6. size \in Nat /\ Len(out) <= size
  BY <1>5
<1>7. GoodCalls([frames EXCEPT ![Len(frames)].i = next], size)
  BY <1>1, <1>4, <1>6, CallMoves
<1>. QED
  BY <1>2, <1>3, <1>5, <1>7

LEMMA NestingKeeps ==
    ASSUME TextInv, frames # <<>>, Len(out) \in Nat,
           NEW body \in Seq(Text!Line), NEW indent \in Nat, NEW before \in Nat,
           Len(out') = Len(out) + before,
           NEW next \in 1..Len(Text!lines) + 1, Text!Nested(body, indent, next, before)
    PROVE  Calls'
<1>. DEFINE narrow == IF Text!Top.width - indent > LeastWidth THEN Text!Top.width - indent
                      ELSE Text!Top.width
            f == [lines |-> body, i |-> 1, source |-> "block", indent |-> indent,
                  start |-> Len(out) + before, width |-> narrow]
            moved == [frames EXCEPT ![Len(frames)].i = next]
            size == Len(out) + before
<1>1. GoodCalls(frames, Len(out))
  BY CallsAre DEF TextInv
<1>2. (Calls <=> GoodCalls(frames, Len(out)))'
  BY CallsAre, PTL
<1>3. frames' = Append(moved, f) /\ Text!Depth < NestDepth
  <2>. DEFINE g == Text!Frame(body, "block", indent, narrow)
  <2>1. frames' = Append(moved, [g EXCEPT !.start = size]) /\ Text!Depth < NestDepth
    BY DEF Text!Nested
  <2>. HIDE DEF narrow
  <2>2. [g EXCEPT !.start = size] = f
    BY DEF Text!Frame
  <2>. HIDE DEF g, f, moved, size
  <2>. QED
    BY <2>1, <2>2
<1>4. next \in 1..Len(frames[Len(frames)].lines) + 1
  BY DEF Text!lines, Text!Top
<1>5. size \in Nat /\ Len(out) <= size
  OBVIOUS
<1>6. /\ GoodCalls(moved, size)
      /\ \A froms : From(moved, froms) = From(frames, froms)
  BY <1>1, <1>4, <1>5, CallMoves
<1>7. Text!Depth = Cardinality(From(frames, {"block"}))
  BY <1>1, AncestorsAre DEF GoodCalls
<1>8. narrow \in Int
  <2>1. Text!Top.width \in Int
    BY TextIsTyped, TopIsTyped
  <2>. QED
    BY <2>1
<1>9. f \in Text!Call /\ f.i = 1 /\ f.source = "block" /\ f.start \in 0..size
  <2>1. f \in Text!Call
    <3>. HIDE DEF narrow
    <3>. QED
      BY <1>5, <1>8 DEF Text!Call
  <2>. QED
    BY <1>5, <2>1
<1>. HIDE DEF f, moved, size, narrow
<1>10. GoodCalls(Append(moved, f), size)
  BY <1>3, <1>5, <1>6, <1>7, <1>9, CallBegins
<1>. QED
  BY <1>2, <1>3, <1>10 DEF size

(* The pieces that are made of a block, or of lines verbatim. *)
LEMMA OfOneLine ==
    ASSUME Text!TypeOK, frames # <<>>, NEW targets, NEW l \in Text!Line,
           NEW form \in {"para", "item", "label", "term", "code", "flat", "omitted"}
    PROVE  /\ Text!Piece(form, <<l>>, 0, {}) \in Text!Emitted
           /\ Text!Piece(form, <<l>>, 0, {}).form # "title"
           /\ Text!Piece(form, <<l>>, 0, {}).marks = {}
           /\ MarksTrue({}, targets)
<1>1. <<l>> \in Seq(Text!Line) /\ {} \in SUBSET Mark /\ 0 \in Nat
  OBVIOUS
<1>2. MarksTrue({}, targets)
  BY DEF MarksTrue
<1>3. form \in {"para", "title", "item", "label", "term", "code", "flat", "omitted"}
      /\ form # "title"
  OBVIOUS
<1>4. PICK ls \in Seq(Text!Line) : ls = <<l>>
  BY <1>1
<1>5. PICK none \in SUBSET Mark : none = {}
  BY <1>1
<1>6. /\ Text!Piece(form, ls, 0, none) \in Text!Emitted
      /\ Text!Piece(form, ls, 0, none).form = form
      /\ Text!Piece(form, ls, 0, none).marks = none
  BY <1>1, <1>3, PieceIsTyped
<1>. QED
  BY <1>2, <1>3, <1>4, <1>5, <1>6

LEMMA FlatIsPlain ==
    ASSUME Text!TypeOK, frames # <<>>, NEW targets,
           NEW body \in Seq(Text!Line), NEW indent \in Nat
    PROVE  Plain(Text!Flat(body, indent), targets)
<1>. DEFINE piece(n) == Text!Piece("flat", <<body[n]>>, 0, {})
            p(n) == [piece(n) EXCEPT !.pad = <<indent>>]
            flat == [n \in DOMAIN body |-> p(n)]
<1>1. Len(body) \in Nat /\ DOMAIN body = 1..Len(body)
      /\ \A n \in 1..Len(body) : body[n] \in Text!Line
  BY LenProperties, ElementOfSeq
<1>2. \A n \in 1..Len(body) : /\ piece(n) \in Text!Emitted /\ piece(n).form # "title"
                              /\ piece(n).marks = {} /\ MarksTrue({}, targets)
  BY <1>1, OfOneLine
<1>3. \A q \in Text!Emitted : LET r == [q EXCEPT !.pad = <<indent>>]
          IN r \in Text!Emitted /\ r.form = q.form /\ r.marks = q.marks
  <2>1. <<indent>> \in Seq(Nat)
    OBVIOUS
  <2>2. PICK pad : pad = <<indent>> /\ pad \in Seq(Nat)
    BY <2>1
  <2>3. \A q \in Text!Emitted : LET r == [q EXCEPT !.pad = pad]
          IN r \in Text!Emitted /\ r.form = q.form /\ r.marks = q.marks
    BY <2>2 DEF Text!Emitted
  <2>. QED
    BY <2>2, <2>3
<1>. HIDE DEF piece
<1>4. \A n \in 1..Len(body) : /\ p(n) \in Text!Emitted /\ p(n).form # "title"
                              /\ MarksTrue(p(n).marks, targets)
  BY <1>2, <1>3
<1>5. Text!Flat(body, indent) = flat
  BY DEF Text!Flat, piece
<1>. HIDE DEF p
<1>6. flat \in [1..Len(body) -> Text!Emitted] /\ DOMAIN flat = 1..Len(body)
  BY <1>1, <1>4
<1>7. \A n \in DOMAIN flat : flat[n].form # "title" /\ MarksTrue(flat[n].marks, targets)
  BY <1>1, <1>4
<1>. HIDE DEF flat
<1>8. flat \in Seq(Text!Emitted)
  BY <1>1, <1>6
<1>. QED
  BY <1>5, <1>7, <1>8 DEF Plain

LEMMA LiteralEnds ==
    ASSUME TextInv, Text!More, NEW k \in 1..Len(Text!lines) + 1
    PROVE  /\ Text!NextNonBlank(Text!lines, k) \in 1..Len(Text!lines) + 1
           /\ Text!LiteralEnd(k) \in Text!NextNonBlank(Text!lines, k)..Len(Text!lines) + 1
<1>. DEFINE first == Text!NextNonBlank(Text!lines, k)
            base == Text!lines[first].indent
            Ends(n) == IF Text!Blank(Text!lines[n])
                       THEN LET next == Text!NextNonBlank(Text!lines, n)
                            IN next <= Len(Text!lines) /\ Text!lines[next].indent < base
                       ELSE Text!lines[n].indent < base
            places == {n \in first..Len(Text!lines) : Ends(n)}
<1>1. Len(Text!lines) \in Nat /\ Text!lines \in Seq(Text!Line)
  BY LineIsTyped
<1>2. first \in k..Len(Text!lines) + 1
  BY <1>1, NextNonBlankIn
<1>3. first \in 1..Len(Text!lines) + 1 /\ first \in Nat /\ first <= Len(Text!lines) + 1
  BY <1>1, <1>2
<1>4. Text!LiteralEnd(k) = IF first > Len(Text!lines) \/ base = 0 THEN first
                           ELSE Text!First(places, Len(Text!lines) + 1)
  BY DEF Text!LiteralEnd
<1>5. places \in SUBSET (first..Len(Text!lines))
  OBVIOUS
<1>. HIDE DEF first, places, base
<1>6. Text!First(places, Len(Text!lines) + 1) \in first..Len(Text!lines) + 1
  BY <1>1, <1>3, <1>5, FirstIsThere
<1>7. Text!LiteralEnd(k) \in first..Len(Text!lines) + 1
  BY <1>1, <1>3, <1>4, <1>6
<1>. QED
  BY <1>3, <1>7 DEF first

LEMMA LiteralIsPlain ==
    ASSUME TextInv, Text!More, NEW targets, NEW k \in 1..Len(Text!lines) + 1
    PROVE  /\ Plain(Text!Literal(k), targets)
           /\ Text!LiteralEnd(k) \in 1..Len(Text!lines) + 1
<1>. DEFINE first == Text!NextNonBlank(Text!lines, k)
            end == Text!LiteralEnd(k)
            size == end - 1 - (first - 1)
            p(n) == Text!Piece("code", <<Text!lines[first - 1 + n]>>, 0, {})
            code == [n \in 1..size |-> p(n)]
<1>1. /\ Text!TypeOK /\ frames # <<>> /\ Len(Text!lines) \in Nat
      /\ \A n \in 1..Len(Text!lines) : Text!lines[n] \in Text!Line
  BY LineIsTyped
<1>2. first \in 1..Len(Text!lines) + 1 /\ end \in first..Len(Text!lines) + 1
  BY LiteralEnds
<1>3. Text!Literal(k) = code
  BY DEF Text!Literal
<1>. HIDE DEF first, end
<1>4. size \in Nat /\ \A n \in 1..size : first - 1 + n \in 1..Len(Text!lines)
  BY <1>1, <1>2
<1>5. end \in 1..Len(Text!lines) + 1
  BY <1>1, <1>2
<1>. HIDE DEF size
<1>6. \A n \in 1..size : /\ p(n) \in Text!Emitted /\ p(n).form # "title"
                         /\ MarksTrue(p(n).marks, targets)
  BY <1>1, <1>4, OfOneLine
<1>. HIDE DEF p
<1>7. code \in [1..size -> Text!Emitted] /\ DOMAIN code = 1..size
  BY <1>6
<1>8. \A n \in DOMAIN code : code[n].form # "title" /\ MarksTrue(code[n].marks, targets)
  BY <1>6
<1>. HIDE DEF code
<1>9. code \in Seq(Text!Emitted)
  BY <1>4, <1>7
<1>. QED
  BY <1>3, <1>5, <1>8, <1>9 DEF Plain, end

(* A construct that holds no others. *)
LEMMA EmittingKeeps ==
    ASSUME TextInv, frames # <<>>, NEW notes, NEW pieces,
           NotesSound(notes), Lengthen(Text!ParaNotes.links, notes.links),
           Plain(pieces, notes.links),
           Text!FlushThen(notes, pieces), adorn' = adorn, doc' = doc,
           NEW next \in 1..Len(Text!lines) + 1, Text!Go(next)
    PROVE  TextInv'
<1>1. /\ Emission' /\ Lines'
      /\ Len(out) \in Nat /\ Len(pieces) \in Nat /\ Len(Text!ParaPiece) \in Nat
      /\ Len(out') = Len(out) + (Len(Text!ParaPiece) + Len(pieces))
  BY FlushingKeeps
<1>2. Len(out') \in Nat /\ Len(out) <= Len(out')
  BY <1>1
<1>3. Calls'
  BY <1>1, <1>2, GoingKeeps
<1>. QED
  BY <1>1, <1>3 DEF TextInv

LEMMA SameNotes ==
    ASSUME TextInv, frames # <<>>
    PROVE  /\ NotesSound(Text!ParaNotes)
           /\ Lengthen(Text!ParaNotes.links, Text!ParaNotes.links)
<1>1. NotesSound(Text!ParaNotes)
  BY ParagraphIsPlain
<1>2. Text!ParaNotes.links \in Seq(Words)
  BY <1>1 DEF NotesSound
<1>. QED
  BY <1>1, <1>2, LenProperties DEF Lengthen

(* One that has a line of its own, whose links come after the paragraph's. *)
LEMMA OwnIsPlain ==
    ASSUME TextInv, frames # <<>>, NEW own \in Seq(Text!Line),
           NEW form \in {"item", "label", "term"}
    PROVE  LET notes == Text!Inline(Text!ParaNotes, own)
           IN /\ NotesSound(notes) /\ Lengthen(Text!ParaNotes.links, notes.links)
              /\ Plain(<<Text!Piece(form, own, 0, Text!Marks(notes, own))>>, notes.links)
<1>. DEFINE notes == Text!Inline(Text!ParaNotes, own)
            marks == Text!Marks(notes, own)
<1>1. NotesSound(Text!ParaNotes)
  BY ParagraphIsPlain
<1>2. /\ NotesSound(notes) /\ Lengthen(Text!ParaNotes.links, notes.links)
      /\ marks \in SUBSET Mark /\ MarksTrue(marks, notes.links)
  BY <1>1, InlineSound
<1>. HIDE DEF notes, marks
<1>3. form \in {"para", "title", "item", "label", "term", "code", "flat", "omitted"}
      /\ form # "title" /\ 0 \in Nat
  OBVIOUS
<1>4. /\ Text!Piece(form, own, 0, marks) \in Text!Emitted
      /\ Text!Piece(form, own, 0, marks).form = form
      /\ Text!Piece(form, own, 0, marks).marks = marks
  BY <1>2, <1>3, TextIsTyped, PieceIsTyped
<1>5. Plain(<<Text!Piece(form, own, 0, marks)>>, notes.links)
  BY <1>2, <1>3, <1>4, OneIsPlain
<1>. QED
  BY <1>2, <1>5 DEF notes, marks

LEMMA BelowKeeps ==
    ASSUME TextInv, Text!More, NEW form \in {"label", "term", "none"}, NEW indent \in Nat,
           Text!Below(form, indent), adorn' = adorn, doc' = doc
    PROVE  TextInv'
<1>. DEFINE from == IF form = "term" THEN Text!i + 1
                    ELSE Text!SkipOptions(Text!lines, Text!i + 1)
            block == Text!ExtractBlock(Text!lines, from, Text!line.indent)
            own == IF form = "term" THEN <<Text!line>> ELSE <<>>
            notes == Text!Inline(Text!ParaNotes, own)
            pieces == IF form = "none" THEN <<>>
                      ELSE <<Text!Piece(form, own, 0, Text!Marks(notes, own))>>
            before == Len(Text!ParaPiece) + Len(pieces)
            flat == Text!Flat(block.body, indent)
<1>1. /\ frames # <<>> /\ Text!TypeOK
      /\ Text!lines \in Seq(Text!Line) /\ Len(Text!lines) \in Nat
      /\ Text!i \in 1..Len(Text!lines) /\ Text!line \in Text!Line
  BY LineIsTyped
<1>2. from \in 1..Len(Text!lines) + 1
  <2>0. PICK k, n : k = Text!i /\ n = Len(Text!lines)
    OBVIOUS
  <2>a. n \in Nat /\ k \in 1..n
    BY <1>1, <2>0
  <2>1. k + 1 \in 1..n + 1
    BY <2>a
  <2>2. Text!SkipOptions(Text!lines, k + 1) \in k + 1..n + 1
    BY <1>1, <2>0, <2>1, SkipOptionsIn
  <2>3. Text!SkipOptions(Text!lines, k + 1) \in 1..n + 1
    BY <2>a, <2>2
  <2>. QED
    BY <2>0, <2>1, <2>3
<1>. HIDE DEF from
<1>3. block.body \in Seq(Text!Line) /\ block.end \in 1..Len(Text!lines) + 1
  BY <1>1, <1>2, ExtractBlockIn
<1>4. own \in Seq(Text!Line)
  <2>1. <<Text!line>> \in Seq(Text!Line) /\ <<>> \in Seq(Text!Line)
    BY <1>1
  <2>. QED
    BY <2>1
<1>. HIDE DEF own
<1>5. /\ NotesSound(notes) /\ Lengthen(Text!ParaNotes.links, notes.links)
      /\ Plain(pieces, notes.links)
  <2>1. CASE form = "none"
    <3>1. pieces = <<>>
      BY <2>1
    <3>2. NotesSound(Text!ParaNotes)
      BY <1>1, ParagraphIsPlain
    <3>3. NotesSound(notes) /\ Lengthen(Text!ParaNotes.links, notes.links)
      BY <1>4, <3>2, InlineSound
    <3>. QED
      BY <3>1, <3>3, NoneIsPlain
  <2>2. CASE form # "none"
    <3>1. form \in {"item", "label", "term"}
      BY <2>2
    <3>. QED
      BY <1>1, <1>4, <2>2, <3>1, OwnIsPlain
  <2>. QED
    BY <2>1, <2>2
<1>6. \/ /\ Text!Nested(block.body, indent, block.end, before)
         /\ Text!FlushThen(notes, pieces)
      \/ /\ Text!Go(block.end)
         /\ Text!FlushThen(notes, pieces \o flat)
  BY DEF Text!Below, from, own
<1>. HIDE DEF block, notes, pieces, flat
<1>7. CASE Text!Nested(block.body, indent, block.end, before) /\ Text!FlushThen(notes, pieces)
  <2>1. /\ Emission' /\ Lines'
        /\ Len(out) \in Nat /\ Len(pieces) \in Nat /\ Len(Text!ParaPiece) \in Nat
        /\ Len(out') = Len(out) + before
    BY <1>1, <1>5, <1>7, FlushingKeeps
  <2>2. before \in Nat
    BY <2>1
  <2>. HIDE DEF before
  <2>3. Calls'
    BY <1>1, <1>3, <1>7, <2>1, <2>2, NestingKeeps
  <2>. QED
    BY <2>1, <2>3 DEF TextInv
<1>8. CASE Text!Go(block.end) /\ Text!FlushThen(notes, pieces \o flat)
  <2>1. Plain(flat, notes.links)
    BY <1>1, <1>3, FlatIsPlain DEF flat
  <2>2. Plain(pieces \o flat, notes.links)
    BY <1>5, <2>1, BothArePlain
  <2>. QED
    BY <1>1, <1>3, <1>5, <1>8, <2>2, EmittingKeeps
<1>. QED
  BY <1>6, <1>7, <1>8

LEMMA SectionKeeps ==
    ASSUME TextInv, Text!More, NEW title \in Text!Line, NEW mark \in Text!Adornments,
           NEW next \in 1..Len(Text!lines) + 1, Text!Section(title, mark, next)
    PROVE  TextInv'
<1>. DEFINE known == \E k \in DOMAIN adorn : adorn[k] = mark
            level == IF known THEN CHOOSE k \in DOMAIN adorn : adorn[k] = mark
                     ELSE Len(adorn) + 1
            own == Text!Inline(Text!Notes, <<title>>)
            notes == Text!Inline(own, para)
            flushed == IF para = <<>> THEN <<>>
                       ELSE <<Text!Piece("para", para, 0, Text!Marks(notes, para))>>
            marks == Text!Marks(own, <<title>>)
            piece == Text!Piece("title", <<title>>, level, marks)
            p == [piece EXCEPT !.mark = mark]
            all == IF known THEN adorn ELSE Append(adorn, mark)
<1>1. /\ frames # <<>> /\ Text!TypeOK
      /\ NotesSound(Text!Notes) /\ Text!Notes.links = links
      /\ GoodPage(out, Text!Notes, adorn) /\ adorn \in Seq(Text!Adornments)
  BY LineIsTyped DEF TextInv, Emission, GoodPage, Text!Notes
<1>2. para \in Seq(Text!Line) /\ <<title>> \in Seq(Text!Line)
  <2>1. {l \in Text!Line : l.kind \in {"text", "rule"}} \subseteq Text!Line
    OBVIOUS
  <2>2. para \in Seq(Text!Line)
    BY <2>1, SeqMonotonic DEF TextInv, Lines
  <2>. QED
    BY <2>2
<1>3. /\ NotesSound(own) /\ Lengthen(links, own.links)
      /\ marks \in SUBSET Mark /\ MarksTrue(marks, own.links)
  <2>1. PICK ls \in Seq(Text!Line) : ls = <<title>>
    BY <1>2
  <2>. QED
    BY <1>1, <2>1, InlineSound
<1>4. /\ adorn' = all /\ out' = out \o flushed \o <<p>>
      /\ seen' = notes.seen /\ links' = notes.links /\ para' = <<>>
      /\ Text!Go(next) /\ doc' = doc
  BY DEF Text!Section
<1>. HIDE DEF own, marks
<1>5. /\ NotesSound(notes) /\ Lengthen(own.links, notes.links)
      /\ Text!Marks(notes, para) \in SUBSET Mark
      /\ MarksTrue(Text!Marks(notes, para), notes.links)
  BY <1>2, <1>3, InlineSound
<1>. HIDE DEF notes
<1>6. Plain(flushed, notes.links)
  <2>1. CASE para = <<>>
    BY <2>1, NoneIsPlain
  <2>2. CASE para # <<>>
    <3>. DEFINE q == Text!Piece("para", para, 0, Text!Marks(notes, para))
    <3>1. q \in Text!Emitted /\ q.form = "para" /\ q.marks = Text!Marks(notes, para)
      BY <1>1, <1>2, <1>5, PieceIsTyped
    <3>2. flushed = <<q>>
      BY <2>2
    <3>. HIDE DEF q
    <3>. QED
      BY <1>5, <3>1, <3>2, OneIsPlain
  <2>. QED
    BY <2>1, <2>2
<1>7. /\ links \in Seq(Words) /\ own.links \in Seq(Words) /\ notes.links \in Seq(Words)
  BY <1>1, <1>3, <1>5 DEF NotesSound
<1>8. Lengthen(links, notes.links) /\ MarksTrue(marks, notes.links)
  BY <1>3, <1>5, <1>7, LengtheningIsTransitive, MarksStayTrue
<1>. HIDE DEF flushed
<1>9. /\ GoodPage(out \o flushed, notes, adorn)
      /\ Len(out) \in Nat /\ Len(flushed) \in Nat
      /\ Len(out \o flushed) = Len(out) + Len(flushed)
  BY <1>1, <1>5, <1>6, <1>8, PlainAdded
<1>10. /\ Len(adorn) \in Nat /\ DOMAIN adorn = 1..Len(adorn)
  BY <1>1, LenProperties
<1>11. /\ level \in Nat
       /\ \/ level \in DOMAIN adorn /\ adorn[level] = mark /\ all = adorn
          \/ /\ \A k \in DOMAIN adorn : adorn[k] # mark
             /\ level = Len(adorn) + 1 /\ all = Append(adorn, mark)
  <2>1. CASE known
    <3>1. level \in DOMAIN adorn /\ adorn[level] = mark
      BY <2>1
    <3>2. level \in Nat
      BY <1>10, <3>1
    <3>. QED
      BY <2>1, <3>1, <3>2
  <2>2. CASE ~known
    <3>1. level = Len(adorn) + 1 /\ all = Append(adorn, mark)
      BY <2>2
    <3>2. Len(adorn) + 1 \in Nat
      BY <1>10
    <3>3. \A k \in DOMAIN adorn : adorn[k] # mark
      BY <2>2
    <3>. HIDE DEF level, all, known
    <3>. QED
      BY <3>1, <3>2, <3>3
  <2>. QED
    BY <2>1, <2>2
<1>12. all \in Seq(Text!Adornments)
  BY <1>1
<1>. HIDE DEF level, all, known
<1>13. /\ piece \in Text!Emitted /\ piece.form = "title" /\ piece.level = level
       /\ piece.marks = marks
  <2>1. PICK ls \in Seq(Text!Line) : ls = <<title>>
    BY <1>2
  <2>2. "title" \in {"para", "title", "item", "label", "term", "code", "flat", "omitted"}
    OBVIOUS
  <2>. QED
    <3>1. /\ Text!Piece("title", ls, level, marks) \in Text!Emitted
          /\ Text!Piece("title", ls, level, marks).form = "title"
          /\ Text!Piece("title", ls, level, marks).level = level
          /\ Text!Piece("title", ls, level, marks).marks = marks
      BY <1>1, <1>3, <1>11, <2>2, PieceIsTyped
    <3>. QED
      BY <2>1, <3>1
<1>. HIDE DEF piece
<1>14. /\ p \in Text!Emitted /\ p.form = "title" /\ p.level = level
       /\ p.marks = marks /\ p.mark = mark
  <2>1. \A q \in Text!Emitted : LET r == [q EXCEPT !.mark = mark]
            IN r \in Text!Emitted /\ r.form = q.form /\ r.level = q.level
               /\ r.marks = q.marks /\ r.mark = mark
    BY DEF Text!Emitted
  <2>. QED
    BY <1>13, <2>1
<1>. HIDE DEF p
<1>15. GoodPage((out \o flushed) \o <<p>>, notes, all)
  BY <1>8, <1>9, <1>11, <1>12, <1>14, TitleAdded
<1>16. Emission'
  BY <1>4, <1>15, NotesRest
<1>17. Lines'
  BY <1>4, EmptySeq DEF TextInv, Lines
<1>18. Len(out') = Len(out) + Len(flushed) + 1
  <2>1. out \o flushed \in Seq(Text!Emitted)
    BY <1>9 DEF GoodPage
  <2>. QED
    BY <1>4, <1>9, <1>14, <2>1
<1>19. Calls'
  <2>1. Len(out') \in Nat /\ Len(out) <= Len(out')
    BY <1>9, <1>18
  <2>. QED
    BY <1>1, <1>4, <1>9, <2>1, GoingKeeps
<1>. QED
  BY <1>16, <1>17, <1>19 DEF TextInv

LEMMA RestIs ==
    ASSUME NEW body \in Seq(Text!Line), NEW m \in 1..Len(body) + 1, NEW rest,
           rest = SubSeq(body, m, Len(body))
    PROVE  /\ rest \in Seq(Text!Line) /\ Len(rest) = Len(body) - m + 1
           /\ \A n \in 1..Len(rest) : m + n - 1 \in 1..Len(body) /\ rest[n] = body[m + n - 1]
<1>1. Len(body) \in Nat /\ DOMAIN body = 1..Len(body)
      /\ \A k \in 1..Len(body) : body[k] \in Text!Line
  BY LenProperties, ElementOfSeq
<1>2. m \in Int /\ Len(body) \in Int /\ \A k \in m..Len(body) : body[k] \in Text!Line
  BY <1>1
<1>3. /\ rest \in Seq(Text!Line)
      /\ Len(rest) = IF m <= Len(body) THEN Len(body) - m + 1 ELSE 0
      /\ \A n \in 1..Len(body) - m + 1 : rest[n] = body[m + n - 1]
  BY <1>1, <1>2, SubSeqProperties
<1>4. Len(rest) = Len(body) - m + 1
  BY <1>1, <1>3
<1>. QED
  BY <1>1, <1>3, <1>4

LEMMA AfterIs ==
    ASSUME NEW body \in Seq(Text!Line)
    PROVE  \/ Text!After(body) = body
              /\ (Text!StartsAfter(Text!lines, Text!i) => Text!Markers(body) = {})
           \/ \E m \in 2..Len(body) + 1 : Text!After(body) = SubSeq(body, m, Len(body))
<1>1. CASE Text!StartsAfter(Text!lines, Text!i) /\ Text!Markers(body) # {}
  <2>. DEFINE m == Text!Min(Text!Markers(body)) + 1
  <2>1. Len(body) \in Nat /\ DOMAIN body = 1..Len(body)
    BY LenProperties
  <2>2. Text!Markers(body) \in SUBSET (1..Len(body))
    BY <2>1 DEF Text!Markers
  <2>3. Text!Markers(body) \in SUBSET Nat
    BY <2>1, <2>2
  <2>4. Text!Min(Text!Markers(body)) \in Text!Markers(body)
    BY <1>1, <2>3, MinIsLeast
  <2>5. m \in 2..Len(body) + 1
    BY <2>1, <2>2, <2>4
  <2>6. Text!After(body) = SubSeq(body, m, Len(body))
    BY <1>1 DEF Text!After
  <2>. QED
    BY <2>5, <2>6
<1>2. CASE ~(Text!StartsAfter(Text!lines, Text!i) /\ Text!Markers(body) # {})
  BY <1>2 DEF Text!After
<1>. QED
  BY <1>1, <1>2

(* What is read of a file is the end of it, and less than all unless there is
   nothing to start at. *)
LEMMA SlicedIs ==
    ASSUME NEW body \in Seq(Text!Line)
    PROVE  /\ \E m \in 1..Len(body) + 1 : Text!Sliced(body) = SubSeq(body, m, Len(body))
           /\ Text!Incomplete(Text!lines, Text!i, Text!Sliced(body), body)
<1>1. PICK after, from : after = Text!After(body) /\ from = Text!StartLine(Text!lines, Text!i)
  OBVIOUS
<1>2. Text!Sliced(body) = IF from \in 1..Len(after) THEN SubSeq(after, from, Len(after)) ELSE after
  BY <1>1 DEF Text!Sliced
<1>3. Len(body) \in Nat /\ body = SubSeq(body, 1, Len(body))
  BY LenProperties
<1>4. CASE /\ after = body
           /\ (Text!StartsAfter(Text!lines, Text!i) => Text!Markers(body) = {})
  <2>1. CASE from \in 1..Len(body)
    <3>1. PICK rest : rest = SubSeq(body, from, Len(body))
      OBVIOUS
    <3>2. Text!Sliced(body) = rest
      BY <1>2, <1>4, <2>1, <3>1
    <3>3. Len(rest) = Len(body) - from + 1
      <4>1. from \in 1..Len(body) + 1
        BY <1>3, <2>1
      <4>. QED
        BY <3>1, <4>1, RestIs
    <3>4. Len(rest) < Len(body) \/ from \notin 2..Len(body)
      BY <1>3, <2>1, <3>3
    <3>5. from \in 1..Len(body) + 1
      BY <1>3, <2>1
    <3>. QED
      BY <1>1, <1>3, <1>4, <3>1, <3>2, <3>4, <3>5 DEF Text!Incomplete
  <2>2. CASE ~(from \in 1..Len(body))
    <3>1. Text!Sliced(body) = body /\ from \notin 2..Len(body)
      BY <1>2, <1>3, <1>4, <2>2
    <3>2. 1 \in 1..Len(body) + 1
      BY <1>3
    <3>. QED
      BY <1>1, <1>3, <1>4, <3>1, <3>2 DEF Text!Incomplete
  <2>. QED
    BY <2>1, <2>2
<1>5. CASE \E m \in 2..Len(body) + 1 : after = SubSeq(body, m, Len(body))
  <2>1. PICK m \in 2..Len(body) + 1 : after = SubSeq(body, m, Len(body))
    BY <1>5
  <2>2. m \in 1..Len(body) + 1 /\ m \in Nat /\ 2 <= m /\ m <= Len(body) + 1
    BY <1>3, <2>1
  <2>3. /\ after \in Seq(Text!Line) /\ Len(after) = Len(body) - m + 1
        /\ \A n \in 1..Len(after) : m + n - 1 \in 1..Len(body) /\ after[n] = body[m + n - 1]
    BY <2>1, <2>2, RestIs
  <2>4. Len(after) < Len(body) /\ Len(after) \in Nat
    BY <1>3, <2>2, <2>3
  <2>5. CASE from \in 1..Len(after)
    <3>1. PICK rest : rest = SubSeq(after, from, Len(after))
      OBVIOUS
    <3>2. Text!Sliced(body) = rest /\ from \in 1..Len(after) + 1 /\ from \in Nat
      BY <1>2, <2>4, <2>5, <3>1
    <3>3. /\ rest \in Seq(Text!Line) /\ Len(rest) = Len(after) - from + 1
          /\ \A n \in 1..Len(rest) : from + n - 1 \in 1..Len(after) /\ rest[n] = after[from + n - 1]
      <4>1. after \in Seq(Text!Line) /\ from \in 1..Len(after) + 1
        BY <2>3, <3>2
      <4>. QED
        BY <3>1, <4>1, RestIs
    <3>4. PICK x : x = m + from - 1
      OBVIOUS
    <3>5. /\ x \in 1..Len(body) + 1 /\ x \in Nat /\ Len(rest) = Len(body) - x + 1
          /\ Len(rest) \in Nat /\ Len(rest) < Len(body)
      BY <1>3, <2>2, <2>3, <2>4, <2>5, <3>2, <3>3, <3>4
    <3>6. PICK whole : whole = SubSeq(body, x, Len(body))
      OBVIOUS
    <3>7. /\ whole \in Seq(Text!Line) /\ Len(whole) = Len(body) - x + 1
          /\ \A n \in 1..Len(whole) : x + n - 1 \in 1..Len(body) /\ whole[n] = body[x + n - 1]
      BY <3>5, <3>6, RestIs
    <3>8. ASSUME NEW n \in 1..Len(rest)
          PROVE  rest[n] = whole[n]
      <4>1. from + n - 1 \in 1..Len(after) /\ rest[n] = after[from + n - 1]
        BY <3>3
      <4>2. PICK y : y = from + n - 1
        OBVIOUS
      <4>3. after[y] = body[m + y - 1]
        BY <2>3, <4>1, <4>2
      <4>4. m + y - 1 = x + n - 1
        BY <2>2, <3>2, <3>4, <3>5, <4>2
      <4>5. n \in 1..Len(whole)
        BY <3>5, <3>7
      <4>. QED
        BY <3>7, <4>1, <4>2, <4>3, <4>4, <4>5
    <3>9. rest = whole
      <4>1. Len(rest) = Len(whole)
        BY <3>5, <3>7
      <4>2. rest \in Seq(Text!Line) /\ whole \in Seq(Text!Line)
        BY <3>3, <3>7
      <4>3. \A n \in 1..Len(rest) : rest[n] = whole[n]
        BY <3>8
      <4>. QED
        BY <4>1, <4>2, <4>3, SeqEqual
    <3>. QED
      BY <3>2, <3>5, <3>6, <3>9 DEF Text!Incomplete
  <2>6. CASE ~(from \in 1..Len(after))
    BY <1>2, <2>1, <2>2, <2>4, <2>6 DEF Text!Incomplete
  <2>. QED
    BY <2>5, <2>6
<1>. QED
  BY <1>1, <1>4, <1>5, AfterIs

LEMMA SlicedIn ==
    ASSUME NEW body \in Seq(Text!Line)
    PROVE  Text!Sliced(body) \in Seq(Text!Line)
<1>1. PICK m \in 1..Len(body) + 1 : Text!Sliced(body) = SubSeq(body, m, Len(body))
  BY SlicedIs
<1>. QED
  BY <1>1, RestIs

LEMMA IncludeKeeps ==
    ASSUME TextInv, Text!Include
    PROVE  TextInv'
<1>. DEFINE file == Text!line.arg
            end == Text!SkipIndented(Text!lines, Text!i)
            body == IF file \in DOMAIN Included THEN Text!Sliced(Included[file]) ELSE <<>>
            moved == [frames EXCEPT ![Len(frames)].i = end]
            f == [lines |-> body, i |-> 1, source |-> file, indent |-> 0,
                  start |-> Len(out), width |-> Text!Top.width]
            omitted == Text!Piece("omitted", <<Text!line>>, 0, {})
<1>1. /\ Text!More /\ doc' = doc /\ adorn' = adorn
      /\ \/ /\ Text!MayInclude(file) /\ Text!NextNonBlank(body, 1) <= Len(body)
            /\ Text!Flush
            /\ frames' = Append(moved, f)
         \/ /\ Text!FlushThen(Text!ParaNotes, <<omitted>>)
            /\ Text!Go(end)
         \/ Text!Flush /\ Text!Go(end)
  <2>. DEFINE g == Text!Frame(body, file, 0, Text!Top.width)
  <2>1. /\ Text!More /\ doc' = doc /\ adorn' = adorn
        /\ \/ /\ Text!MayInclude(file) /\ Text!NextNonBlank(body, 1) <= Len(body)
              /\ Text!Flush
              /\ frames' = Append(moved, [g EXCEPT !.start = Len(out)])
           \/ /\ Text!FlushThen(Text!ParaNotes, <<omitted>>)
              /\ Text!Go(end)
           \/ Text!Flush /\ Text!Go(end)
    BY DEF Text!Include, Text!Plainly
  <2>. HIDE DEF body, file, end, moved, omitted
  <2>2. [g EXCEPT !.start = Len(out)] = f
    BY DEF Text!Frame
  <2>. HIDE DEF g, f
  <2>. QED
    BY <2>1, <2>2
<1>2. /\ frames # <<>> /\ Text!TypeOK /\ Text!lines \in Seq(Text!Line)
      /\ Text!i \in 1..Len(Text!lines) /\ Text!line \in Text!Line
  BY <1>1, LineIsTyped
<1>3. end \in 1..Len(Text!lines) + 1
  BY <1>2, SkipIndentedIn
<1>4. NotesSound(Text!ParaNotes) /\ Lengthen(Text!ParaNotes.links, Text!ParaNotes.links)
  BY <1>2, SameNotes
<1>5. Plain(<<>>, Text!ParaNotes.links)
  BY NoneIsPlain
<1>6. Plain(<<omitted>>, Text!ParaNotes.links)
  <2>1. "omitted" \in {"para", "item", "label", "term", "code", "flat", "omitted"}
    OBVIOUS
  <2>2. /\ omitted \in Text!Emitted /\ omitted.form # "title"
        /\ omitted.marks = {} /\ MarksTrue({}, Text!ParaNotes.links)
    BY <1>2, <2>1, OfOneLine
  <2>. HIDE DEF omitted
  <2>. QED
    BY <2>2, OneIsPlain
<1>. HIDE DEF omitted, end, body, f, file, moved
<1>7. CASE Text!Flush /\ Text!Go(end)
  BY <1>1, <1>2, <1>3, <1>4, <1>5, <1>7, EmittingKeeps DEF Text!Flush
<1>8. CASE Text!FlushThen(Text!ParaNotes, <<omitted>>) /\ Text!Go(end)
  BY <1>1, <1>2, <1>3, <1>4, <1>6, <1>8, EmittingKeeps
<1>9. CASE /\ Text!MayInclude(file) /\ Text!NextNonBlank(body, 1) <= Len(body)
           /\ Text!Flush
           /\ frames' = Append(moved, f)
  <2>1. Text!FlushThen(Text!ParaNotes, <<>>)
    BY <1>9 DEF Text!Flush
  <2>2. /\ Emission' /\ Lines'
        /\ Len(out) \in Nat /\ Len(Text!ParaPiece) \in Nat
        /\ Len(out') = Len(out) + (Len(Text!ParaPiece) + Len(<<>>))
    BY <1>1, <1>2, <1>4, <1>5, <2>1, FlushingKeeps
  <2>3. PICK size : size = Len(out')
    OBVIOUS
  <2>4. size \in Nat /\ Len(out) <= size
    BY <2>2, <2>3
  <2>5. file \in DOMAIN Included
    <3>. SUFFICES ASSUME file \notin DOMAIN Included
                  PROVE  FALSE
      OBVIOUS
    <3>1. body = <<>>
      BY DEF body
    <3>2. <<>> \in Seq(Text!Line) /\ Len(<<>>) = 0 /\ 1 \in 1..Len(<<>>) + 1
      OBVIOUS
    <3>3. Text!NextNonBlank(<<>>, 1) \in 1..Len(<<>>) + 1
      BY <3>2, NextNonBlankIn
    <3>. QED
      BY <1>9, <3>1, <3>2, <3>3
  <2>6. Included[file] \in Seq(Text!Line)
    BY <2>5, LinesAssumption
  <2>7. body = Text!Sliced(Included[file])
    BY <2>5 DEF body
  <2>8. /\ body \in Seq(Text!Line)
        /\ Text!Incomplete(Text!lines, Text!i, body, Included[file])
    BY <2>6, <2>7, SlicedIn, SlicedIs
  <2>9. GoodCalls(frames, Len(out)) /\ (Calls <=> GoodCalls(frames, Len(out)))'
    BY CallsAre, PTL DEF TextInv
  <2>10. end \in 1..Len(frames[Len(frames)].lines) + 1
    BY <1>3 DEF Text!lines, Text!Top
  <2>11. /\ GoodCalls(moved, size)
         /\ \A froms : From(moved, froms) = From(frames, froms)
         /\ \A k \in DOMAIN frames : moved[k].source = frames[k].source
         /\ Len(moved) = Len(frames)
         /\ moved[Len(frames)].lines = Text!lines /\ moved[Len(frames)].i = end
    BY <1>2, <2>2, <2>4, <2>9, <2>10, CallMoves DEF moved, Text!lines, Text!Top
  <2>12. Text!Ancestors = From(frames, IncludedFiles)
    BY <2>9, AncestorsAre DEF GoodCalls
  <2>13. /\ Cardinality(From(moved, IncludedFiles)) < IncludeDepth
         /\ \/ Text!AsksForPart(Text!lines, Text!i)
            \/ \A k \in From(moved, IncludedFiles) : moved[k].source # file
    <3>1. \A S : Text!Cardinality(S) = Cardinality(S)
      BY DEF Text!Cardinality, Cardinality
    <3>2. /\ Cardinality(From(frames, IncludedFiles)) < IncludeDepth
          /\ \/ Text!AsksForPart(Text!lines, Text!i)
             \/ \A k \in From(frames, IncludedFiles) : frames[k].source # file
      BY <1>9, <2>12, <3>1 DEF Text!MayInclude
    <3>3. \A k \in From(frames, IncludedFiles) : k \in DOMAIN frames
      BY DEF From
    <3>. QED
      BY <2>11, <3>2, <3>3
  <2>14. /\ f \in Text!Call /\ f.i = 1 /\ f.start \in 0..size /\ f.source = file
         /\ f.lines = body
    <3>1. Text!Top.width \in Int
      BY <1>2, TopIsTyped
    <3>2. Len(out) \in 0..size
      BY <2>2, <2>4
    <3>. QED
      BY <2>2, <2>5, <2>8, <3>1, <3>2 DEF f, Text!Call
  <2>a. Text!AsksForPart(Text!lines, Text!i) => IsPart(moved[Len(moved)], f)
    <3>1. Text!lines[Text!i].kind = "include" /\ Text!SkipIndented(Text!lines, Text!i) = end
      BY DEF Text!Include, Text!Plainly, Text!line, end
    <3>2. Text!i \in DOMAIN Text!lines
      BY <1>2, TopIsTyped
    <3>. QED
      BY <2>8, <2>11, <2>14, <3>1, <3>2 DEF Text!IncludesPart, IsPart
  <2>15. GoodCalls(Append(moved, f), size)
    <3>1. \/ \A k \in From(moved, IncludedFiles) : moved[k].source # f.source
          \/ IsPart(moved[Len(moved)], f)
      BY <2>13, <2>14, <2>a
    <3>. QED
      BY <2>4, <2>5, <2>11, <2>13, <2>14, <3>1, CallBegins DEF IncludedFiles
  <2>16. Calls'
    BY <1>9, <2>3, <2>9, <2>15
  <2>. QED
    BY <2>2, <2>16 DEF TextInv
<1>. QED
  BY <1>1, <1>7, <1>8, <1>9

LEMMA EndBlockKeeps ==
    ASSUME TextInv, Text!EndBlock
    PROVE  TextInv'
<1>. DEFINE page == out \o Text!ParaPiece
            new == Text!Indented(page)
            p(k) == IF k > Text!Top.start
                    THEN [page[k] EXCEPT !.pad = <<Text!Top.indent>> \o page[k].pad]
                    ELSE page[k]
<1>1. /\ frames # <<>> /\ out' = new /\ frames' = SubSeq(frames, 1, Len(frames) - 1)
      /\ seen' = Text!ParaNotes.seen /\ links' = Text!ParaNotes.links
      /\ para' = <<>> /\ doc' = doc /\ adorn' = adorn
  BY DEF Text!EndBlock, Text!AtEnd, Text!Popped
<1>2. /\ NotesSound(Text!ParaNotes) /\ Lengthen(links, Text!ParaNotes.links)
      /\ Plain(Text!ParaPiece, Text!ParaNotes.links)
  BY <1>1, ParagraphIsPlain
<1>3. /\ GoodPage(page, Text!ParaNotes, adorn)
      /\ Len(out) \in Nat /\ Len(Text!ParaPiece) \in Nat
      /\ Len(page) = Len(out) + Len(Text!ParaPiece)
  <2>1. GoodPage(out, Text!Notes, adorn) /\ Text!Notes.links = links
    BY DEF TextInv, Emission, Text!Notes
  <2>. QED
    BY <1>2, <2>1, PlainAdded
<1>4. new = [k \in DOMAIN page |-> p(k)]
  BY DEF Text!Indented
<1>. HIDE DEF page
<1>5. page \in Seq(Text!Emitted) /\ Len(page) \in Nat /\ DOMAIN page = 1..Len(page)
      /\ \A k \in DOMAIN page : page[k] \in Text!Emitted
  <2>1. page \in Seq(Text!Emitted)
    BY <1>3 DEF GoodPage
  <2>. QED
    BY <2>1, LenProperties, ElementOfSeq
<1>6. ASSUME NEW k \in DOMAIN page
      PROVE  /\ p(k) \in Text!Emitted
             /\ p(k).form = page[k].form /\ p(k).level = page[k].level
             /\ p(k).mark = page[k].mark /\ p(k).marks = page[k].marks
  <2>1. \A q \in Text!Emitted : \A pad \in Seq(Nat) : LET r == [q EXCEPT !.pad = pad]
            IN r \in Text!Emitted /\ r.form = q.form /\ r.level = q.level
               /\ r.mark = q.mark /\ r.marks = q.marks
    BY DEF Text!Emitted
  <2>2. <<Text!Top.indent>> \o page[k].pad \in Seq(Nat)
    <3>1. Text!Top.indent \in Nat
      BY <1>1, TextIsTyped, TopIsTyped DEF Text!Call
    <3>2. <<Text!Top.indent>> \in Seq(Nat) /\ page[k].pad \in Seq(Nat)
      BY <1>5, <3>1 DEF Text!Emitted
    <3>. QED
      BY <3>2, ConcatProperties
  <2>3. page[k] \in Text!Emitted
    BY <1>5
  <2>4. PICK q \in Text!Emitted, pad \in Seq(Nat) :
            q = page[k] /\ pad = <<Text!Top.indent>> \o page[k].pad
    BY <2>2, <2>3
  <2>5. p(k) = IF k > Text!Top.start THEN [q EXCEPT !.pad = pad] ELSE q
    BY <2>4
  <2>. HIDE DEF p
  <2>6. CASE k > Text!Top.start
    <3>1. PICK r : r = [q EXCEPT !.pad = pad]
      OBVIOUS
    <3>2. /\ r \in Text!Emitted /\ r.form = q.form /\ r.level = q.level
          /\ r.mark = q.mark /\ r.marks = q.marks
      BY <2>1, <3>1
    <3>3. p(k) = r
      BY <2>5, <2>6, <3>1
    <3>. QED
      BY <2>4, <3>2, <3>3
  <2>7. CASE ~(k > Text!Top.start)
    BY <2>4, <2>5, <2>7
  <2>. QED
    BY <2>6, <2>7
<1>. HIDE DEF p, new
<1>7. /\ DOMAIN new = DOMAIN page /\ \A k \in DOMAIN page : new[k] = p(k)
      /\ new \in [1..Len(page) -> Text!Emitted]
  BY <1>4, <1>5, <1>6
<1>8. new \in Seq(Text!Emitted)
  BY <1>5, <1>7
<1>9. GoodPage(new, Text!ParaNotes, adorn)
  BY <1>3, <1>6, <1>7, <1>8, SamePage
<1>10. Emission'
  BY <1>1, <1>9, NotesRest
<1>11. Lines'
  BY <1>1, EmptySeq DEF TextInv, Lines
<1>12. Len(new) = Len(page)
  BY <1>5, <1>7, <1>8, LenProperties
<1>13. Calls'
  <2>1. GoodCalls(frames, Len(out)) /\ (Calls <=> GoodCalls(frames, Len(out)))'
    BY CallsAre, PTL DEF TextInv
  <2>2. PICK size : size = Len(out')
    OBVIOUS
  <2>3. size \in Nat /\ Len(out) <= size
    BY <1>1, <1>3, <1>5, <1>12, <2>2
  <2>4. GoodCalls(SubSeq(frames, 1, Len(frames) - 1), size)
    BY <1>1, <1>3, <2>1, <2>3, CallReturns
  <2>. QED
    BY <1>1, <2>1, <2>2, <2>4
<1>. QED
  BY <1>10, <1>11, <1>13 DEF TextInv

(* The constructs that hold no others. *)
LEMMA TitleKeeps == ASSUME TextInv, Text!Title PROVE TextInv'
<1>1. Text!More
  BY DEF Text!Title
<1>2. /\ Len(Text!lines) \in Nat /\ Text!i \in 1..Len(Text!lines)
      /\ Text!line \in Text!Line
      /\ \A k \in 1..Len(Text!lines) : Text!lines[k] \in Text!Line
  BY <1>1, LineIsTyped
<1>3. \A l \in Text!Line : l.arg \in Words
  BY DEF Text!Line
<1>4. CASE /\ Text!Overlined
           /\ Text!Section(Text!lines[Text!i + 1],
                           IF Text!line.indent = 0 THEN Text!line.arg ELSE " ", Text!i + 3)
  <2>1. Text!i + 2 <= Len(Text!lines)
    BY <1>4 DEF Text!Overlined, Text!IsRule
  <2>2. Text!i + 1 \in 1..Len(Text!lines) /\ Text!i + 3 \in 1..Len(Text!lines) + 1
    BY <1>2, <2>1
  <2>3. /\ Text!lines[Text!i + 1] \in Text!Line
        /\ (IF Text!line.indent = 0 THEN Text!line.arg ELSE " ") \in Text!Adornments
    BY <1>2, <1>3, <2>2 DEF Text!Adornments
  <2>. QED
    BY <1>1, <1>4, <2>2, <2>3, SectionKeeps
<1>5. CASE Text!Underlined /\ Text!Section(Text!line, Text!lines[Text!i + 1].arg, Text!i + 2)
  <2>1. Text!i + 1 <= Len(Text!lines)
    BY <1>5 DEF Text!Underlined, Text!IsRule
  <2>2. Text!i + 1 \in 1..Len(Text!lines) /\ Text!i + 2 \in 1..Len(Text!lines) + 1
    BY <1>2, <2>1
  <2>3. Text!lines[Text!i + 1].arg \in Text!Adornments
    BY <1>2, <1>3, <2>2 DEF Text!Adornments
  <2>. QED
    BY <1>1, <1>2, <1>5, <2>2, <2>3, SectionKeeps
<1>. QED
  BY <1>4, <1>5 DEF Text!Title

LEMMA BlockKeeps == ASSUME TextInv, Text!Block PROVE TextInv'
<1>1. Text!More /\ doc' = doc /\ adorn' = adorn
  BY DEF Text!Block, Text!Plainly
<1>2. Text!Below("label", 4) \/ Text!Below("label", 2) \/ Text!Below("none", 0)
  BY DEF Text!Block
<1>3. /\ "label" \in {"label", "term", "none"} /\ "none" \in {"label", "term", "none"}
      /\ 4 \in Nat /\ 2 \in Nat /\ 0 \in Nat
  OBVIOUS
<1>. QED
  BY <1>1, <1>2, <1>3, BelowKeeps

LEMMA DefinitionKeeps == ASSUME TextInv, Text!Definition PROVE TextInv'
<1>1. /\ Text!More /\ doc' = doc /\ adorn' = adorn /\ Text!Below("term", 6)
      /\ "term" \in {"label", "term", "none"} /\ 6 \in Nat
  BY DEF Text!Definition, Text!Plainly
<1>. QED
  BY <1>1, BelowKeeps

LEMMA DropKeeps == ASSUME TextInv, Text!Drop PROVE TextInv'
<1>1. /\ Text!More /\ doc' = doc /\ adorn' = adorn
      /\ Text!FlushThen(Text!ParaNotes, <<>>)
      /\ Text!Go(Text!SkipIndented(Text!lines, Text!i))
  BY DEF Text!Drop, Text!Plainly, Text!Flush
<1>2. /\ frames # <<>> /\ Text!lines \in Seq(Text!Line) /\ Text!i \in 1..Len(Text!lines)
  BY <1>1, LineIsTyped
<1>3. Text!SkipIndented(Text!lines, Text!i) \in 1..Len(Text!lines) + 1
  BY <1>2, SkipIndentedIn
<1>. QED
  BY <1>1, <1>2, <1>3, SameNotes, NoneIsPlain, EmittingKeeps

LEMMA BlankLineKeeps == ASSUME TextInv, Text!BlankLine PROVE TextInv'
<1>1. /\ Text!More /\ doc' = doc /\ adorn' = adorn
      /\ Text!FlushThen(Text!ParaNotes, <<>>) /\ Text!Go(Text!i + 1)
  BY DEF Text!BlankLine, Text!Plainly, Text!Flush
<1>2. /\ frames # <<>> /\ Len(Text!lines) \in Nat /\ Text!i \in 1..Len(Text!lines)
  BY <1>1, LineIsTyped
<1>3. Text!i + 1 \in 1..Len(Text!lines) + 1
  BY <1>2
<1>. QED
  BY <1>1, <1>2, <1>3, SameNotes, NoneIsPlain, EmittingKeeps

LEMMA BulletKeeps == ASSUME TextInv, Text!Bullet PROVE TextInv'
<1>. DEFINE own == <<Text!line>>
            notes == Text!Inline(Text!ParaNotes, own)
            piece == Text!Piece("item", own, 0, Text!Marks(notes, own))
<1>1. /\ Text!More /\ doc' = doc /\ adorn' = adorn
      /\ Text!FlushThen(notes, <<piece>>) /\ Text!Go(Text!i + 1)
  BY DEF Text!Bullet, Text!Plainly, Text!FlushAndEmit
<1>2. /\ frames # <<>> /\ Len(Text!lines) \in Nat /\ Text!i \in 1..Len(Text!lines)
      /\ Text!line \in Text!Line
  BY <1>1, LineIsTyped
<1>3. Text!i + 1 \in 1..Len(Text!lines) + 1
  BY <1>2
<1>4. own \in Seq(Text!Line) /\ "item" \in {"item", "label", "term"}
  BY <1>2
<1>. HIDE DEF own
<1>5. /\ NotesSound(notes) /\ Lengthen(Text!ParaNotes.links, notes.links)
      /\ Plain(<<piece>>, notes.links)
  BY <1>2, <1>4, OwnIsPlain
<1>. HIDE DEF notes, piece
<1>. QED
  BY <1>1, <1>2, <1>3, <1>5, EmittingKeeps

LEMMA CodeKeeps == ASSUME TextInv, Text!Code PROVE TextInv'
<1>. DEFINE k == Text!SkipOptions(Text!lines, Text!i + 1)
<1>1. /\ Text!More /\ doc' = doc /\ adorn' = adorn
      /\ Text!FlushThen(Text!ParaNotes, Text!Literal(k)) /\ Text!Go(Text!LiteralEnd(k))
  BY DEF Text!Code, Text!Plainly
<1>2. /\ frames # <<>> /\ Len(Text!lines) \in Nat /\ Text!i \in 1..Len(Text!lines)
      /\ Text!lines \in Seq(Text!Line)
  BY <1>1, LineIsTyped
<1>3. k \in 1..Len(Text!lines) + 1
  <2>1. Text!i + 1 \in 1..Len(Text!lines) + 1
    BY <1>2
  <2>2. k \in Text!i + 1..Len(Text!lines) + 1
    BY <1>2, <2>1, SkipOptionsIn
  <2>. HIDE DEF k
  <2>. QED
    BY <1>2, <2>2
<1>. HIDE DEF k
<1>4. /\ Plain(Text!Literal(k), Text!ParaNotes.links)
      /\ Text!LiteralEnd(k) \in 1..Len(Text!lines) + 1
  BY <1>1, <1>3, LiteralIsPlain
<1>. QED
  BY <1>1, <1>2, <1>4, SameNotes, EmittingKeeps

(* A step that adds nothing to the page. *)
LEMMA ReadingKeeps ==
    ASSUME TextInv, frames # <<>>, UNCHANGED <<doc, out, adorn, seen, links>>, Lines',
           NEW next \in 1..Len(Text!lines) + 1, Text!Go(next)
    PROVE  TextInv'
<1>1. Emission'
  BY DEF TextInv, Emission, Text!Notes
<1>2. Len(out) \in Nat /\ Len(out') = Len(out)
  BY LenProperties DEF TextInv, Emission, GoodPage
<1>3. Calls'
  BY <1>2, GoingKeeps
<1>. QED
  BY <1>1, <1>3 DEF TextInv

LEMMA CommentKeeps == ASSUME TextInv, Text!Comment PROVE TextInv'
<1>1. /\ Text!More /\ UNCHANGED <<doc, out, adorn, seen, links>> /\ para' = para
      /\ Text!Go(Text!SkipIndented(Text!lines, Text!i))
  BY DEF Text!Comment, Text!Plainly
<1>2. /\ frames # <<>> /\ Text!lines \in Seq(Text!Line) /\ Text!i \in 1..Len(Text!lines)
  BY <1>1, LineIsTyped
<1>3. Text!SkipIndented(Text!lines, Text!i) \in 1..Len(Text!lines) + 1
  BY <1>2, SkipIndentedIn
<1>4. Lines'
  BY <1>1 DEF TextInv, Lines
<1>. QED
  BY <1>1, <1>2, <1>3, <1>4, ReadingKeeps

LEMMA TextKeeps == ASSUME TextInv, Text!Text PROVE TextInv'
<1>1. /\ Text!More /\ UNCHANGED <<doc, out, adorn, seen, links>>
      /\ para' = Append(para, Text!line) /\ Text!line.kind \in {"text", "rule"}
      /\ Text!Go(Text!i + 1)
  BY DEF Text!Text, Text!Plainly
<1>2. /\ frames # <<>> /\ Len(Text!lines) \in Nat /\ Text!i \in 1..Len(Text!lines)
      /\ Text!line \in Text!Line
  BY <1>1, LineIsTyped
<1>3. Text!i + 1 \in 1..Len(Text!lines) + 1
  BY <1>2
<1>4. Lines'
  <2>. DEFINE S == {l \in Text!Line : l.kind \in {"text", "rule"}}
  <2>1. Text!line \in S /\ para \in Seq(S) /\ doc \in Seq(Text!Line)
    BY <1>1, <1>2 DEF TextInv, Lines
  <2>. HIDE DEF S
  <2>2. para' \in Seq(S) /\ doc' \in Seq(Text!Line)
    BY <1>1, <2>1
  <2>. QED
    BY <2>2 DEF S, Lines
<1>. QED
  BY <1>1, <1>2, <1>3, <1>4, ReadingKeeps

LEMMA IntroducesKeeps == ASSUME TextInv, Text!Introduces PROVE TextInv'
<1>. DEFINE all == Append(para, Text!line)
            notes == Text!Inline(Text!Notes, all)
            marks == Text!Marks(notes, all)
            piece == Text!Piece("para", all, 0, marks)
            code == Text!Literal(Text!i + 1)
<1>1. /\ Text!More /\ doc' = doc /\ adorn' = adorn /\ para' = <<>>
      /\ out' = out \o <<piece>> \o code
      /\ seen' = notes.seen /\ links' = notes.links
      /\ Text!Go(Text!LiteralEnd(Text!i + 1))
  BY DEF Text!Introduces, Text!Plainly
<1>2. /\ frames # <<>> /\ Text!TypeOK /\ Len(Text!lines) \in Nat
      /\ Text!i \in 1..Len(Text!lines) /\ Text!line \in Text!Line
  BY <1>1, LineIsTyped
<1>3. Text!i + 1 \in 1..Len(Text!lines) + 1
  BY <1>2
<1>4. all \in Seq(Text!Line)
  <2>1. {l \in Text!Line : l.kind \in {"text", "rule"}} \subseteq Text!Line
    OBVIOUS
  <2>2. para \in Seq(Text!Line)
    BY <2>1, SeqMonotonic DEF TextInv, Lines
  <2>. QED
    BY <1>2, <2>2
<1>5. /\ NotesSound(Text!Notes) /\ GoodPage(out, Text!Notes, adorn)
  BY DEF TextInv, Emission, GoodPage
<1>. HIDE DEF all
<1>6. /\ NotesSound(notes) /\ Lengthen(Text!Notes.links, notes.links)
      /\ marks \in SUBSET Mark /\ MarksTrue(marks, notes.links)
  BY <1>4, <1>5, InlineSound
<1>. HIDE DEF notes, marks
<1>7. Plain(<<piece>>, notes.links)
  <2>1. "para" \in {"para", "title", "item", "label", "term", "code", "flat", "omitted"}
    OBVIOUS
  <2>2. piece \in Text!Emitted /\ piece.form = "para" /\ piece.marks = marks
    BY <1>2, <1>4, <1>6, <2>1, PieceIsTyped
  <2>. HIDE DEF piece
  <2>. QED
    BY <1>6, <2>2, OneIsPlain
<1>. HIDE DEF piece, code
<1>8. Plain(code, notes.links) /\ Text!LiteralEnd(Text!i + 1) \in 1..Len(Text!lines) + 1
  BY <1>1, <1>3, LiteralIsPlain DEF code
<1>9. Plain(<<piece>> \o code, notes.links)
  BY <1>7, <1>8, BothArePlain
<1>10. out' = out \o (<<piece>> \o code)
  <2>1. /\ out \in Seq(Text!Emitted) /\ <<piece>> \in Seq(Text!Emitted)
        /\ code \in Seq(Text!Emitted)
    BY <1>5, <1>7, <1>8 DEF GoodPage, Plain
  <2>2. \A a, b, c \in Seq(Text!Emitted) : (a \o b) \o c = a \o (b \o c)
    BY ConcatAssociative
  <2>3. (out \o <<piece>>) \o code = out \o (<<piece>> \o code)
    BY <2>1, <2>2
  <2>. QED
    BY <1>1, <2>3
<1>11. /\ GoodPage(out', notes, adorn) /\ Len(out) \in Nat
       /\ Len(<<piece>> \o code) \in Nat
       /\ Len(out') = Len(out) + Len(<<piece>> \o code)
  BY <1>5, <1>6, <1>9, <1>10, PlainAdded
<1>12. Emission'
  BY <1>1, <1>11, NotesRest
<1>13. Lines'
  BY <1>1, EmptySeq DEF TextInv, Lines
<1>14. Calls'
  <2>1. Len(out') \in Nat /\ Len(out) <= Len(out')
    BY <1>11
  <2>. QED
    BY <1>1, <1>2, <1>8, <1>11, <2>1, GoingKeeps
<1>. QED
  BY <1>12, <1>13, <1>14 DEF TextInv

(* A call that returns. *)
LEMMA ReturningKeeps ==
    ASSUME TextInv, frames # <<>>, Len(out) \in Nat, Len(out') \in Nat, Len(out) <= Len(out'),
           frames' = SubSeq(frames, 1, Len(frames) - 1)
    PROVE  Calls'
<1>1. GoodCalls(frames, Len(out)) /\ (Calls <=> GoodCalls(frames, Len(out)))'
  BY CallsAre, PTL DEF TextInv
<1>2. PICK size : size = Len(out')
  OBVIOUS
<1>3. size \in Nat /\ Len(out) <= size
  BY <1>2
<1>4. GoodCalls(SubSeq(frames, 1, Len(frames) - 1), size)
  BY <1>1, <1>3, CallReturns
<1>. QED
  BY <1>1, <1>2, <1>4

LEMMA EndIncludeKeeps == ASSUME TextInv, Text!EndInclude PROVE TextInv'
<1>1. /\ frames # <<>> /\ frames' = SubSeq(frames, 1, Len(frames) - 1)
      /\ UNCHANGED <<doc, para, out, adorn, seen, links>>
  BY DEF Text!EndInclude, Text!AtEnd, Text!Popped
<1>2. Emission' /\ Lines'
  BY <1>1 DEF TextInv, Emission, Text!Notes, Lines
<1>3. Len(out) \in Nat /\ Len(out') = Len(out)
  BY <1>1, LenProperties DEF TextInv, Emission, GoodPage
<1>4. Calls'
  BY <1>1, <1>3, ReturningKeeps
<1>. QED
  BY <1>2, <1>4 DEF TextInv

LEMMA EndDocKeeps == ASSUME TextInv, Text!EndDoc PROVE TextInv'
<1>1. /\ frames # <<>> /\ frames' = SubSeq(frames, 1, Len(frames) - 1)
      /\ doc' = doc /\ adorn' = adorn /\ Text!FlushThen(Text!ParaNotes, <<>>)
  BY DEF Text!EndDoc, Text!AtEnd, Text!Popped, Text!Flush
<1>2. /\ Emission' /\ Lines' /\ Len(out) \in Nat /\ Len(Text!ParaPiece) \in Nat
      /\ Len(<<>>) \in Nat
      /\ Len(out') = Len(out) + (Len(Text!ParaPiece) + Len(<<>>))
  BY <1>1, SameNotes, NoneIsPlain, FlushingKeeps
<1>3. Len(out') \in Nat /\ Len(out) <= Len(out')
  BY <1>2
<1>4. Calls'
  BY <1>1, <1>2, <1>3, ReturningKeeps
<1>. QED
  BY <1>2, <1>4 DEF TextInv

-----------------------------------------------------------------------------
(* A conversion from its start to its end.                                  *)

LEMMA EmptyPage ==
    ASSUME out = <<>>, adorn = <<>>, seen = <<>>, links = <<>>, para = <<>>,
           doc \in Seq(Text!Line), GoodCalls(frames, 0)
    PROVE  TextInv
<1>1. DOMAIN <<>> = {} /\ Len(<<>>) = 0 /\ <<>> \in Seq(Words) /\ <<>> \in Seq(Text!Emitted)
      /\ <<>> \in Seq(Text!Adornments)
  OBVIOUS
<1>2. NotesSound(Text!Notes)
  <2>1. seen \in [DOMAIN seen -> Nat]
    OBVIOUS
  <2>2. /\ links \in Seq(Words) /\ DOMAIN seen \subseteq Words
        /\ \A t \in DOMAIN seen : seen[t] \in 1..Len(links) /\ links[seen[t]] = t
        /\ \A k \in 1..Len(links) : links[k] \in DOMAIN seen /\ seen[links[k]] = k
    BY <1>1
  <2>. QED
    BY <2>1, <2>2, NotesAre
<1>3. Levels(out, adorn)
  BY <1>1 DEF Levels
<1>4. Emission
  BY <1>1, <1>2, <1>3 DEF Emission, GoodPage
<1>5. Calls
  BY <1>1, CallsAre
<1>6. Lines
  BY EmptySeq DEF Lines
<1>. QED
  BY <1>4, <1>5, <1>6 DEF TextInv

LEMMA TextBegins ==
    ASSUME Text!Init \/ Converted
    PROVE  TextInv
<1>0. Cardinality({}) = 0
  BY FS_EmptySet
<1>1. CASE Text!Init
  <2>. DEFINE f == [lines |-> doc, i |-> 1, source |-> "doc", indent |-> 0,
                    start |-> 0, width |-> PageWidth]
  <2>1. /\ out = <<>> /\ adorn = <<>> /\ seen = <<>> /\ links = <<>> /\ para = <<>>
        /\ doc \in Texts /\ frames = <<f>>
    BY <1>1 DEF Text!Init, Text!Frame
  <2>2. doc \in Seq(Text!Line) /\ Len(doc) \in Nat
    BY <2>1, LinesAssumption, LenProperties
  <2>3. f \in Text!Call /\ f.i = 1 /\ f.start = 0 /\ f.source = "doc" /\ f.lines = doc
    BY <2>2, DepthsAssumption DEF Text!Call
  <2>. HIDE DEF f
  <2>4. frames \in Seq(Text!Call) /\ DOMAIN frames = {1} /\ frames[1] = f
    BY <2>1, <2>3
  <2>5. From(frames, IncludedFiles) = {} /\ From(frames, {"block"}) = {}
    <3>1. "doc" \notin IncludedFiles /\ "doc" \notin {"block"}
      BY LinesAssumption DEF IncludedFiles
    <3>. QED
      BY <2>3, <2>4, <3>1 DEF From
  <2>6. GoodCalls(frames, 0)
    <3>1. 1 \in 1..Len(doc) + 1 /\ 0 \in 0..0
      BY <2>2
    <3>2. \A k \in DOMAIN frames : /\ frames[k].i \in 1..Len(frames[k].lines) + 1
                                   /\ frames[k].start \in 0..0
      BY <2>3, <2>4, <3>1
    <3>3. /\ Cardinality(From(frames, IncludedFiles)) <= IncludeDepth
          /\ Cardinality(From(frames, {"block"})) <= NestDepth
      BY <1>0, <2>5, DepthsAssumption
    <3>. QED
      BY <2>4, <2>5, <3>2, <3>3 DEF GoodCalls
  <2>. QED
    BY <2>1, <2>2, <2>6, EmptyPage
<1>2. CASE Converted
  <2>1. /\ out = <<>> /\ adorn = <<>> /\ seen = <<>> /\ links = <<>> /\ para = <<>>
        /\ doc = <<>> /\ frames = <<>>
    BY <1>2 DEF Converted
  <2>2. doc \in Seq(Text!Line) /\ frames \in Seq(Text!Call) /\ DOMAIN frames = {}
    BY <2>1
  <2>3. From(frames, IncludedFiles) = {} /\ From(frames, {"block"}) = {}
    BY <2>2 DEF From
  <2>4. GoodCalls(frames, 0)
    <3>1. /\ Cardinality(From(frames, IncludedFiles)) <= IncludeDepth
          /\ Cardinality(From(frames, {"block"})) <= NestDepth
      BY <1>0, <2>3, DepthsAssumption
    <3>. QED
      BY <2>2, <2>3, <3>1 DEF GoodCalls
  <2>. QED
    BY <2>1, <2>2, <2>4, EmptyPage
<1>. QED
  BY <1>1, <1>2

LEMMA TextGoesOn ==
    ASSUME TextInv, Text!Next \/ UNCHANGED rstVars
    PROVE  TextInv'
<1>1. CASE UNCHANGED rstVars
  <2>1. UNCHANGED <<doc, frames, para, out, adorn, seen, links>>
    BY <1>1 DEF rstVars
  <2>2. Emission' /\ Lines'
    BY <2>1 DEF TextInv, Emission, Text!Notes, Lines
  <2>3. (Calls <=> GoodCalls(frames, Len(out))) /\ (Calls <=> GoodCalls(frames, Len(out)))'
    BY CallsAre, PTL
  <2>4. Calls'
    BY <2>1, <2>3 DEF TextInv
  <2>. QED
    BY <2>2, <2>4 DEF TextInv
<1>2. CASE Text!Title
  BY <1>2, TitleKeeps
<1>3. CASE Text!Block
  BY <1>3, BlockKeeps
<1>4. CASE Text!Drop
  BY <1>4, DropKeeps
<1>5. CASE Text!Comment
  BY <1>5, CommentKeeps
<1>6. CASE Text!Code
  BY <1>6, CodeKeeps
<1>7. CASE Text!Introduces
  BY <1>7, IntroducesKeeps
<1>8. CASE Text!BlankLine
  BY <1>8, BlankLineKeeps
<1>9. CASE Text!Bullet
  BY <1>9, BulletKeeps
<1>10. CASE Text!Definition
  BY <1>10, DefinitionKeeps
<1>11. CASE Text!Text
  BY <1>11, TextKeeps
<1>12. CASE Text!Include
  BY <1>12, IncludeKeeps
<1>13. CASE Text!EndBlock
  BY <1>13, EndBlockKeeps
<1>14. CASE Text!EndInclude
  BY <1>14, EndIncludeKeeps
<1>15. CASE Text!EndDoc
  BY <1>15, EndDocKeeps
<1>. QED
  BY <1>1, <1>2, <1>3, <1>4, <1>5, <1>6, <1>7, <1>8, <1>9, <1>10, <1>11, <1>12, <1>13,
     <1>14, <1>15 DEF Text!Next

(* Footnotes, levels and the files under way are the same in nested and
   included text as around it: a footnote that is shown is the one of its
   target, an adornment is one level, and no file is read inside itself
   from its start (rst.go's footnote, section and include, whose state the
   nested calls of parseLines share). *)
THEOREM NestingIsAlwaysSafe == IngestSpec => []NestingIsSafe
<1>1. IngestInit => TextInv
  BY TextBegins DEF IngestInit
<1>2. TextInv /\ [IngestNext]_<<vars, rstVars>> => TextInv'
  <2>. SUFFICES ASSUME TextInv, [IngestNext]_<<vars, rstVars>>
                PROVE  TextInv'
    OBVIOUS
  <2>1. Text!Next \/ UNCHANGED rstVars
    BY DEF IngestNext
  <2>. QED
    BY <2>1, TextGoesOn
<1>3. TextInv => NestingIsSafe
  BY NestingFollows DEF NestingIsSafe
<1>. QED
  BY <1>1, <1>2, <1>3, PTL DEF IngestSpec

(* The conversion's types, and with them that no line is read that is not
   there, and that includes and blocks are never deeper than their limits. *)
THEOREM TextIsAlwaysTyped == IngestSpec => []Text!TypeOK
<1>1. IngestInit => TextInv
  BY TextBegins DEF IngestInit
<1>2. TextInv /\ [IngestNext]_<<vars, rstVars>> => TextInv'
  <2>. SUFFICES ASSUME TextInv, [IngestNext]_<<vars, rstVars>>
                PROVE  TextInv'
    OBVIOUS
  <2>1. Text!Next \/ UNCHANGED rstVars
    BY DEF IngestNext
  <2>. QED
    BY <2>1, TextGoesOn
<1>3. TextInv => Text!TypeOK
  BY TextIsTyped
<1>. QED
  BY <1>1, <1>2, <1>3, PTL DEF IngestSpec

-----------------------------------------------------------------------------
(* The lines of a document, those of a call, and what is on the page.       *)

(* Ids of lines of the document, and whether a line is one of them. *)
OfText(id) == id[1] = "doc"
Has(ids, m) == \E n \in DOMAIN ids : ids[n] = <<"doc", m>>
LineIds(ls) == [n \in DOMAIN ls |-> ls[n].id]
Rising(ids) ==
    \A m, n \in DOMAIN ids : m < n /\ OfText(ids[m]) /\ OfText(ids[n]) => ids[m][2] < ids[n][2]
Before(a, b) ==
    \A m \in DOMAIN a, n \in DOMAIN b : OfText(a[m]) /\ OfText(b[n]) => a[m][2] < b[n][2]
Within(ids, first, last) ==
    \A n \in DOMAIN ids : OfText(ids[n]) => ids[n][2] \in first..last

Under(d, h, k) ==
    /\ h < k /\ ~Text!Blank(d[h])
    /\ \A n \in h + 1..k : Text!Blank(d[n]) \/ d[n].indent > d[h].indent
Passed(d, h, p) == \A k \in p..Len(d) : Text!Blank(d[k]) \/ ~Under(d, h, k)

-----------------------------------------------------------------------------
(* Behind a block the next line that is not blank is indented less. *)
Outdented(d, p, s) ==
    \A e \in p..Len(d) :
        ~Text!Blank(d[e]) /\ (\A n \in p..e - 1 : Text!Blank(d[n])) => d[e].indent < s

(* The lines of a call that reads the document or a block of it; if the
   document is evenly indented, they have lost nothing but indentation. *)
IsWhole(l, m, shift) ==
    /\ Text!Blank(l) <=> Text!Blank(m)
    /\ l.cut = 0
    /\ ~Text!Blank(l) => m.indent >= shift /\ l.indent = m.indent - shift /\ l.kind = m.kind
IsLine(d, l, m, shift) ==
    l.id = <<"doc", m>> /\ (Text!Even(d) => IsWhole(l, d[m], shift))

IsBlock(d, lines, b, s) ==
    /\ b \in Nat /\ s \in Nat /\ b + Len(lines) <= Len(d)
    /\ \A n \in 1..Len(lines) : IsLine(d, lines[n], b + n, s)
    /\ Text!Even(d) => Outdented(d, b + Len(lines) + 1, s)
-----------------------------------------------------------------------------
Shown(page, ls, m) ==
    \/ \E k \in DOMAIN page : page[k].form # "omitted" /\ Has(page[k].ids, m)
    \/ Has(LineIds(ls), m)

Ordered(page, ls, p) ==
    /\ \A k \in DOMAIN page :
           /\ Rising(page[k].ids) /\ Within(page[k].ids, 1, p - 1)
           /\ Before(page[k].ids, LineIds(ls))
           /\ \A j \in 1..k - 1 : Before(page[j].ids, page[k].ids)
    /\ Rising(LineIds(ls)) /\ Within(LineIds(ls), 1, p - 1)

Drops(d, page, ls, h) ==
    d[h].kind \in {"toctree", "comment", "include"} /\ ~Shown(page, ls, h)
Kept(d, page, ls, p) ==
    Text!Even(d) =>
    /\ \A k \in 1..p - 1 : Text!Prose(d[k]) =>
           (Shown(page, ls, k) <=> \A h \in 1..k - 1 : Drops(d, page, ls, h) => ~Under(d, h, k))
    /\ \A h \in 1..p - 1 : Drops(d, page, ls, h) => Passed(d, h, p)

-----------------------------------------------------------------------------
(* Where the scans of lines stop.                                           *)

(* The next line from p on that is not blank, if there is one, is indented by
   at most n. *)
Stops(ls, p, n) ==
    \A e \in p..Len(ls) : ~Text!Blank(ls[e]) /\ (\A m \in p..e - 1 : Text!Blank(ls[m])) =>
        ls[e].indent <= n

LEMMA LineFacts ==
    ASSUME NEW ls \in Seq(Text!Line)
    PROVE  /\ Len(ls) \in Nat /\ DOMAIN ls = 1..Len(ls)
           /\ \A n \in 1..Len(ls) : /\ ls[n] \in Text!Line /\ ls[n].indent \in Nat
                                    /\ ls[n].cut \in Nat /\ ls[n].kind \in Text!Kinds
<1>1. Len(ls) \in Nat /\ DOMAIN ls = 1..Len(ls) /\ \A n \in 1..Len(ls) : ls[n] \in Text!Line
  BY LenProperties, ElementOfSeq
<1>2. \A l \in Text!Line : l.indent \in Nat /\ l.cut \in Nat /\ l.kind \in Text!Kinds
  BY DEF Text!Line
<1>. QED
  BY <1>1, <1>2

(* The first of some places is one of them, unless there is none. *)
LEMMA FirstIs ==
    ASSUME NEW a \in Nat, NEW b \in Nat, a <= b + 1,
           NEW S \in SUBSET (a..b), NEW f, f = Text!First(S, b + 1)
    PROVE  /\ f \in a..b + 1 /\ f \in Nat
           /\ \A n \in a..f - 1 : n \notin S
           /\ f <= b => f \in S
<1>1. f \in a..b + 1
  BY FirstIsThere
<1>2. CASE S = {}
  <2>1. f = b + 1
    BY <1>2 DEF Text!First
  <2>. QED
    BY <1>1, <1>2, <2>1
<1>3. CASE S # {}
  <2>1. S \in SUBSET Nat
    OBVIOUS
  <2>2. Text!Min(S) \in S /\ \A m \in S : Text!Min(S) <= m
    BY <1>3, <2>1, MinIsLeast
  <2>3. f = Text!Min(S)
    BY <1>3 DEF Text!First
  <2>4. f \in S /\ \A m \in S : f <= m
    BY <2>2, <2>3
  <2>5. ASSUME NEW n \in a..f - 1
        PROVE  n \notin S
    BY <1>1, <2>4
  <2>. QED
    BY <1>1, <2>4, <2>5
<1>. QED
  BY <1>2, <1>3

LEMMA NextNonBlankIs ==
    ASSUME NEW ls \in Seq(Text!Line), NEW k \in 1..Len(ls) + 1,
           NEW f, f = Text!NextNonBlank(ls, k)
    PROVE  /\ f \in k..Len(ls) + 1 /\ f \in Nat
           /\ \A n \in k..f - 1 : Text!Blank(ls[n])
           /\ f <= Len(ls) => ~Text!Blank(ls[f])
<1>. DEFINE S == {n \in k..Len(ls) : ~Text!Blank(ls[n])}
<1>1. Len(ls) \in Nat /\ k \in Nat /\ k <= Len(ls) + 1
  BY LineFacts
<1>2. S \in SUBSET (k..Len(ls)) /\ f = Text!First(S, Len(ls) + 1)
  BY DEF Text!NextNonBlank
<1>3. \A n : n \in S <=> n \in k..Len(ls) /\ ~Text!Blank(ls[n])
  OBVIOUS
<1>. HIDE DEF S
<1>4. /\ f \in k..Len(ls) + 1 /\ f \in Nat
      /\ \A n \in k..f - 1 : n \notin S
      /\ f <= Len(ls) => f \in S
  BY <1>1, <1>2, FirstIs
<1>. QED
  BY <1>1, <1>3, <1>4

LEMMA SkipOptionsIs ==
    ASSUME NEW ls \in Seq(Text!Line), NEW k \in 1..Len(ls) + 1,
           NEW f, f = Text!SkipOptions(ls, k)
    PROVE  /\ f \in k..Len(ls) + 1 /\ f \in Nat
           /\ \A n \in k..f - 1 : ls[n].kind = "option"
<1>. DEFINE S == {n \in k..Len(ls) : ls[n].kind # "option" \/ ls[n].indent = 0}
<1>1. Len(ls) \in Nat /\ k \in Nat /\ k <= Len(ls) + 1
  BY LineFacts
<1>2. S \in SUBSET (k..Len(ls)) /\ f = Text!First(S, Len(ls) + 1)
  BY DEF Text!SkipOptions
<1>3. \A n \in k..Len(ls) : n \notin S => ls[n].kind = "option"
  OBVIOUS
<1>. HIDE DEF S
<1>4. /\ f \in k..Len(ls) + 1 /\ f \in Nat
      /\ \A n \in k..f - 1 : n \notin S
  BY <1>1, <1>2, FirstIs
<1>. QED
  BY <1>1, <1>3, <1>4

LEMMA StopsAtFirst ==
    ASSUME NEW ls \in Seq(Text!Line), NEW p \in 1..Len(ls) + 1, NEW n \in Nat,
           NEW f \in p..Len(ls) + 1, \A m \in p..f - 1 : Text!Blank(ls[m]),
           f <= Len(ls) => ~Text!Blank(ls[f]) /\ ls[f].indent <= n
    PROVE  Stops(ls, p, n)
<1>. SUFFICES ASSUME NEW e \in p..Len(ls), ~Text!Blank(ls[e]),
                     \A m \in p..e - 1 : Text!Blank(ls[m])
              PROVE  ls[e].indent <= n
  BY DEF Stops
<1>1. Len(ls) \in Nat /\ p \in Nat /\ e \in Nat /\ f \in Nat
  BY LineFacts
<1>2. ~(f < e)
  <2>. SUFFICES ASSUME f < e PROVE FALSE
    OBVIOUS
  <2>1. f \in p..e - 1 /\ f <= Len(ls)
    BY <1>1
  <2>. QED
    BY <2>1
<1>3. ~(e < f)
  <2>. SUFFICES ASSUME e < f PROVE FALSE
    OBVIOUS
  <2>1. e \in p..f - 1
    BY <1>1
  <2>. QED
    BY <2>1
<1>4. e = f
  BY <1>1, <1>2, <1>3
<1>. QED
  BY <1>1, <1>4

LEMMA StopsEarlier ==
    ASSUME NEW ls \in Seq(Text!Line), NEW p, NEW n \in Nat, NEW m \in Nat, n <= m,
           p \in Nat \ {0}, Stops(ls, p, n)
    PROVE  Stops(ls, p, m)
<1>1. \A e \in p..Len(ls) : ls[e].indent \in Nat
  <2>. TAKE e \in p..Len(ls)
  <2>1. e \in 1..Len(ls)
    BY LineFacts
  <2>. QED
    BY <2>1, LineFacts
<1>2. \A e \in p..Len(ls) : ls[e].indent <= n => ls[e].indent <= m
  BY <1>1
<1>. QED
  BY <1>2 DEF Stops

(* What skipIndented passes over is blank or below line k. *)
LEMMA SkipIndentedIs ==
    ASSUME NEW ls \in Seq(Text!Line), NEW k \in 1..Len(ls),
           NEW f, f = Text!SkipIndented(ls, k)
    PROVE  /\ f \in k + 1..Len(ls) + 1 /\ f \in Nat
           /\ \A n \in k + 1..f - 1 : Text!Blank(ls[n]) \/ ls[n].indent > ls[k].indent
           /\ Stops(ls, f, ls[k].indent)
<1>. DEFINE base == ls[k].indent
            S == {n \in k + 1..Len(ls) : Text!Above(ls[n], base)}
<1>1. Len(ls) \in Nat /\ k + 1 \in Nat /\ k + 1 <= Len(ls) + 1 /\ base \in Nat
  BY LineFacts
<1>2. S \in SUBSET (k + 1..Len(ls)) /\ f = Text!First(S, Len(ls) + 1)
  BY DEF Text!SkipIndented
<1>3. \A n : n \in S <=> n \in k + 1..Len(ls) /\ ~Text!Blank(ls[n]) /\ ls[n].indent <= base
  BY DEF Text!Above
<1>. HIDE DEF S
<1>4. /\ f \in k + 1..Len(ls) + 1 /\ f \in Nat
      /\ \A n \in k + 1..f - 1 : n \notin S
      /\ f <= Len(ls) => f \in S
  BY <1>1, <1>2, FirstIs
<1>5. \A n \in k + 1..Len(ls) : ls[n].indent \in Nat
  <2>. TAKE n \in k + 1..Len(ls)
  <2>1. n \in 1..Len(ls)
    BY <1>1
  <2>. QED
    BY <2>1, LineFacts
<1>. HIDE DEF base
<1>6. \A n \in k + 1..f - 1 : Text!Blank(ls[n]) \/ ls[n].indent > base
  <2>. TAKE n \in k + 1..f - 1
  <2>1. n \in k + 1..Len(ls) /\ n \notin S
    BY <1>1, <1>4
  <2>. QED
    BY <1>1, <1>3, <1>5, <2>1
<1>7. Stops(ls, f, base)
  <2>1. f <= Len(ls) => ~Text!Blank(ls[f]) /\ ls[f].indent <= base
    BY <1>3, <1>4
  <2>2. f \in f..Len(ls) + 1 /\ \A m \in f..f - 1 : Text!Blank(ls[m])
    BY <1>1, <1>4
  <2>3. f \in 1..Len(ls) + 1
    BY <1>1, <1>4
  <2>. QED
    BY <1>1, <2>1, <2>2, <2>3, StopsAtFirst
<1>. QED
  BY <1>4, <1>6, <1>7 DEF base

(* What is cut out below base: nothing, or the lines from the first that is
   not blank on, which are deeper. *)
Extracted(ls, k, base, first, block) ==
    /\ first \in k..Len(ls) + 1 /\ first \in Nat /\ \A n \in k..first - 1 : Text!Blank(ls[n])
    /\ \/ block.body = <<>> /\ block.end = first /\ Stops(ls, first, base)
       \/ /\ block.end \in first + 1..Len(ls) + 1 /\ block.end \in Nat
          /\ ~Text!Blank(ls[first]) /\ ls[first].indent > base
          /\ block.body = [n \in 1..block.end - first |->
                              Text!Dedent(ls[first + n - 1], ls[first].indent)]
          /\ \A n \in first..block.end - 1 : Text!Blank(ls[n]) \/ ls[n].indent > base
          /\ Stops(ls, block.end, base)

LEMMA BlockIs ==
    ASSUME NEW ls \in Seq(Text!Line), NEW k \in 1..Len(ls) + 1, NEW base \in Nat,
           NEW first, first = Text!NextNonBlank(ls, k)
    PROVE  Extracted(ls, k, base, first, Text!ExtractBlock(ls, k, base))
<1>. DEFINE end == Text!BlockEnd(ls, k, base)
            S == {n \in first..Len(ls) : Text!Dedents(ls, n, base)}
            block == Text!ExtractBlock(ls, k, base)
<1>1. Len(ls) \in Nat /\ k \in Nat
  BY LineFacts
<1>2. /\ first \in k..Len(ls) + 1 /\ first \in Nat
      /\ \A n \in k..first - 1 : Text!Blank(ls[n])
      /\ first <= Len(ls) => ~Text!Blank(ls[first])
  BY NextNonBlankIs
<1>3. \A n \in first..Len(ls) + 1 : n \in 1..Len(ls) + 1
  BY <1>1, <1>2
<1>4. CASE Text!Dedents(ls, k, base)
  <2>1. block = [body |-> <<>>, end |-> first]
    BY <1>4 DEF Text!ExtractBlock
  <2>2. first <= Len(ls) => ls[first].indent <= base
    BY <1>1, <1>2, <1>4 DEF Text!Dedents
  <2>3. first \in first..Len(ls) + 1 /\ \A m \in first..first - 1 : Text!Blank(ls[m])
    BY <1>1, <1>2
  <2>4. Stops(ls, first, base)
    BY <1>2, <1>3, <2>2, <2>3, StopsAtFirst
  <2>. HIDE DEF block
  <2>. QED
    BY <1>2, <2>1, <2>4 DEF Extracted, block
<1>5. CASE ~Text!Dedents(ls, k, base)
  <2>1. first <= Len(ls) /\ ~(ls[first].indent <= base) /\ ~Text!Blank(ls[first])
    BY <1>1, <1>2, <1>5 DEF Text!Dedents
  <2>2. first \in 1..Len(ls) /\ ls[first].indent \in Nat
    BY <1>1, <1>2, <2>1, LineFacts
  <2>3. S \in SUBSET (first..Len(ls)) /\ end = Text!First(S, Len(ls) + 1)
    BY DEF Text!BlockEnd
  <2>4. \A n : n \in S <=> n \in first..Len(ls) /\ Text!Dedents(ls, n, base)
    OBVIOUS
  <2>5. block = [body |-> [n \in 1..end - first |->
                             Text!Dedent(ls[first + n - 1], ls[first].indent)], end |-> end]
    BY <1>5 DEF Text!ExtractBlock
  <2>. HIDE DEF S, end, block
  <2>6. /\ end \in first..Len(ls) + 1 /\ end \in Nat
        /\ \A n \in first..end - 1 : n \notin S
        /\ end <= Len(ls) => end \in S
    <3>1. first <= Len(ls) + 1
      BY <1>1, <1>2
    <3>. QED
      BY <1>1, <1>2, <2>3, <3>1, FirstIs
  <2>7. \A n \in first..end - 1 : Text!Blank(ls[n]) \/ ls[n].indent > base
    <3>. SUFFICES ASSUME NEW n \in first..end - 1, ~Text!Blank(ls[n])
                  PROVE  ls[n].indent > base
      OBVIOUS
    <3>1. n \in first..Len(ls) /\ n \in 1..Len(ls) /\ n \in 1..Len(ls) + 1 /\ n \notin S
      BY <1>1, <1>2, <2>6
    <3>2. PICK e : e = Text!NextNonBlank(ls, n)
      OBVIOUS
    <3>3. /\ e \in n..Len(ls) + 1 /\ e \in Nat /\ \A m \in n..e - 1 : Text!Blank(ls[m])
      BY <3>1, <3>2, NextNonBlankIs
    <3>4. e = n
      BY <1>1, <3>1, <3>3
    <3>5. ~(ls[n].indent <= base)
      BY <2>4, <3>1, <3>2, <3>4 DEF Text!Dedents
    <3>6. ls[n].indent \in Nat
      BY <3>1, LineFacts
    <3>. QED
      BY <3>5, <3>6
  <2>8. Stops(ls, end, base)
    <3>0. end \in 1..Len(ls) + 1
      BY <1>3, <2>6
    <3>1. CASE end <= Len(ls)
      <4>1. Text!Dedents(ls, end, base)
        BY <2>4, <2>6, <3>1
      <4>2. PICK e : e = Text!NextNonBlank(ls, end)
        OBVIOUS
      <4>3. /\ e \in end..Len(ls) + 1 /\ e \in Nat /\ \A m \in end..e - 1 : Text!Blank(ls[m])
            /\ e <= Len(ls) => ~Text!Blank(ls[e])
        BY <3>0, <4>2, NextNonBlankIs
      <4>4. e <= Len(ls) => ls[e].indent <= base
        BY <1>1, <4>1, <4>2, <4>3 DEF Text!Dedents
      <4>. QED
        BY <3>0, <4>3, <4>4, StopsAtFirst
    <3>2. CASE ~(end <= Len(ls))
      <4>1. end..Len(ls) = {}
        BY <1>1, <2>6, <3>2
      <4>. QED
        BY <4>1 DEF Stops
    <3>. QED
      BY <3>1, <3>2
  <2>9. end # first
    <3>. SUFFICES ASSUME end = first PROVE FALSE
      OBVIOUS
    <3>1. Text!Dedents(ls, first, base) /\ first \in 1..Len(ls) + 1
      BY <1>3, <2>1, <2>4, <2>6
    <3>2. PICK e : e = Text!NextNonBlank(ls, first)
      OBVIOUS
    <3>3. e \in first..Len(ls) + 1 /\ e \in Nat /\ \A m \in first..e - 1 : Text!Blank(ls[m])
      BY <3>1, <3>2, NextNonBlankIs
    <3>4. e = first
      BY <1>1, <1>2, <2>1, <3>3
    <3>. QED
      BY <2>1, <3>1, <3>2, <3>4 DEF Text!Dedents
  <2>10. end \in first + 1..Len(ls) + 1
    BY <1>1, <1>2, <2>6, <2>9
  <2>11. ls[first].indent > base
    BY <2>1, <2>2
  <2>. QED
    BY <1>2, <2>1, <2>5, <2>6, <2>7, <2>8, <2>10, <2>11 DEF Extracted, block
<1>. QED
  BY <1>4, <1>5

(* Lines that are blank or end before the next one that is not. *)
Ended(ls, a, next) ==
    \A n \in a..next - 1 : Text!Blank(ls[n]) \/ Stops(ls, next, ls[n].indent)

LEMMA DeeperIsEnded ==
    ASSUME NEW ls \in Seq(Text!Line), NEW a \in Nat \ {0}, NEW next \in Nat, next <= Len(ls) + 1,
           NEW base \in Nat, next \in Nat \ {0}, Stops(ls, next, base),
           \A n \in a..next - 1 : Text!Blank(ls[n]) \/ ls[n].indent > base
    PROVE  Ended(ls, a, next)
<1>. SUFFICES ASSUME NEW n \in a..next - 1, ~Text!Blank(ls[n])
              PROVE  Stops(ls, next, ls[n].indent)
  BY DEF Ended
<1>1. n \in 1..Len(ls)
  BY LineFacts
<1>2. ls[n].indent \in Nat /\ ls[n].indent > base
  BY <1>1, LineFacts
<1>3. base <= ls[n].indent
  BY <1>2
<1>. QED
  BY <1>2, <1>3, StopsEarlier

LEMMA LiteralIs ==
    ASSUME Text!lines \in Seq(Text!Line), NEW k \in 1..Len(Text!lines) + 1,
           NEW first, first = Text!NextNonBlank(Text!lines, k),
           NEW end, end = Text!LiteralEnd(k)
    PROVE  /\ first \in k..Len(Text!lines) + 1 /\ first \in Nat
           /\ \A n \in k..first - 1 : Text!Blank(Text!lines[n])
           /\ end \in first..Len(Text!lines) + 1 /\ end \in Nat
           /\ Ended(Text!lines, k, end)
<1>. DEFINE ls == Text!lines
            base == ls[first].indent
            Ends(n) == IF Text!Blank(ls[n])
                       THEN LET next == Text!NextNonBlank(ls, n)
                            IN next <= Len(ls) /\ ls[next].indent < base
                       ELSE ls[n].indent < base
            S == {n \in first..Len(ls) : Ends(n)}
<1>1. Len(ls) \in Nat /\ k \in Nat
  BY LineFacts
<1>2. /\ first \in k..Len(ls) + 1 /\ first \in Nat
      /\ \A n \in k..first - 1 : Text!Blank(ls[n])
      /\ first <= Len(ls) => ~Text!Blank(ls[first])
  BY NextNonBlankIs
<1>3. CASE first > Len(ls) \/ base = 0
  <2>1. end = first
    BY <1>3 DEF Text!LiteralEnd
  <2>2. Ended(ls, k, end)
    BY <1>2, <2>1 DEF Ended
  <2>. QED
    BY <1>1, <1>2, <2>1, <2>2
<1>4. CASE ~(first > Len(ls) \/ base = 0)
  <2>1. end = Text!First(S, Len(ls) + 1)
    BY <1>4 DEF Text!LiteralEnd
  <2>2. S \in SUBSET (first..Len(ls)) /\ first <= Len(ls) + 1
    BY <1>1, <1>2
  <2>3. \A n : n \in S <=> n \in first..Len(ls) /\ Ends(n)
    OBVIOUS
  <2>4. first \in 1..Len(ls) /\ base \in Nat /\ base # 0
    <3>1. first \in 1..Len(ls)
      BY <1>1, <1>2, <1>4
    <3>. QED
      BY <1>4, <3>1, LineFacts
  <2>. HIDE DEF S
  <2>5. /\ end \in first..Len(ls) + 1 /\ end \in Nat
        /\ \A n \in first..end - 1 : n \notin S
        /\ end <= Len(ls) => end \in S
    BY <1>1, <1>2, <2>1, <2>2, FirstIs
  <2>6. \A n \in first..end - 1 : Text!Blank(ls[n]) \/ ls[n].indent > base - 1
    <3>. SUFFICES ASSUME NEW n \in first..end - 1, ~Text!Blank(ls[n])
                  PROVE  ls[n].indent > base - 1
      OBVIOUS
    <3>1. n \in first..Len(ls) /\ n \in 1..Len(ls) /\ n \notin S
      BY <1>1, <1>2, <2>5
    <3>2. ~(ls[n].indent < base)
      BY <2>3, <3>1
    <3>3. ls[n].indent \in Nat
      BY <3>1, LineFacts
    <3>. QED
      BY <2>4, <3>2, <3>3
  <2>7. Stops(ls, end, base - 1)
    <3>0. end \in 1..Len(ls) + 1 /\ base - 1 \in Nat
      BY <1>1, <1>2, <2>4, <2>5
    <3>1. CASE end <= Len(ls) /\ Text!Blank(ls[end])
      <4>1. PICK e : e = Text!NextNonBlank(ls, end)
        OBVIOUS
      <4>2. e <= Len(ls) /\ ls[e].indent < base
        BY <2>3, <2>5, <3>1, <4>1
      <4>3. /\ e \in end..Len(ls) + 1 /\ e \in Nat /\ \A m \in end..e - 1 : Text!Blank(ls[m])
            /\ e <= Len(ls) => ~Text!Blank(ls[e])
        BY <3>0, <4>1, NextNonBlankIs
      <4>4. e \in 1..Len(ls)
        BY <1>1, <3>0, <4>2, <4>3
      <4>5. ls[e].indent \in Nat
        BY <4>4, LineFacts
      <4>6. ls[e].indent <= base - 1
        BY <2>4, <4>2, <4>5
      <4>. HIDE DEF ls, base
      <4>. QED
        BY <3>0, <4>3, <4>6, StopsAtFirst DEF ls
    <3>2. CASE end <= Len(ls) /\ ~Text!Blank(ls[end])
      <4>1. ls[end].indent < base
        BY <2>3, <2>5, <3>2
      <4>2. end \in 1..Len(ls)
        BY <1>1, <3>0, <3>2
      <4>3. ls[end].indent \in Nat
        BY <4>2, LineFacts
      <4>4. ls[end].indent <= base - 1
        BY <2>4, <4>1, <4>3
      <4>5. end \in end..Len(ls) + 1 /\ \A m \in end..end - 1 : Text!Blank(ls[m])
        BY <1>1, <2>5
      <4>. HIDE DEF ls, base
      <4>. QED
        BY <3>0, <3>2, <4>4, <4>5, StopsAtFirst DEF ls
    <3>3. CASE ~(end <= Len(ls))
      <4>1. end..Len(ls) = {}
        BY <1>1, <2>5, <3>3
      <4>. QED
        BY <4>1 DEF Stops
    <3>. QED
      BY <3>1, <3>2, <3>3
  <2>8. Ended(ls, first, end)
    <3>1. base - 1 \in Nat /\ first \in Nat \ {0} /\ end \in Nat \ {0} /\ end <= Len(ls) + 1
      BY <1>1, <1>2, <2>4, <2>5
    <3>. HIDE DEF base, ls
    <3>. QED
      BY <2>5, <2>6, <2>7, <3>1, DeeperIsEnded DEF ls
  <2>9. Ended(ls, k, end)
    <3>. SUFFICES ASSUME NEW n \in k..end - 1
                  PROVE  Text!Blank(ls[n]) \/ Stops(ls, end, ls[n].indent)
      BY DEF Ended
    <3>1. n \in k..first - 1 \/ n \in first..end - 1
      BY <1>1, <1>2, <2>5
    <3>. QED
      BY <1>2, <2>8, <3>1 DEF Ended
  <2>. QED
    BY <1>1, <1>2, <2>5, <2>9
<1>. QED
  BY <1>3, <1>4

(* A line of a block is a line of the document, less its indentation. *)
LEMMA DedentIs ==
    ASSUME NEW d, NEW l \in Text!Line, NEW m, NEW s \in Nat, NEW by \in Nat,
           d[m].indent \in Nat, IsLine(d, l, m, s),
           Text!Even(d) => Text!Blank(l) \/ l.indent >= by
    PROVE  IsLine(d, Text!Dedent(l, by), m, s + by)
<1>. DEFINE c == Text!Dedent(l, by)
<1>1. c.id = l.id
  BY DEF Text!Dedent, Text!Shortened, Text!Emptied, Text!Line
<1>2. ASSUME Text!Even(d)
      PROVE  IsWhole(c, d[m], s + by)
  <2>1. IsWhole(l, d[m], s) /\ l.indent \in Nat
    BY <1>2 DEF IsLine, Text!Line
  <2>2. CASE Text!Blank(l)
    BY <2>1, <2>2 DEF Text!Dedent, IsWhole
  <2>3. CASE ~Text!Blank(l)
    <3>1. l.indent >= by
      BY <1>2, <2>3
    <3>2. c = [l EXCEPT !.indent = l.indent - by]
      BY <2>3, <3>1 DEF Text!Dedent
    <3>3. c.kind = l.kind /\ c.cut = l.cut /\ c.indent = l.indent - by
      BY <3>2 DEF Text!Line
    <3>4. /\ Text!Blank(d[m]) <=> Text!Blank(l)
          /\ l.cut = 0 /\ d[m].indent >= s /\ l.indent = d[m].indent - s /\ l.kind = d[m].kind
      BY <2>1, <2>3 DEF IsWhole
    <3>5. Text!Blank(c) <=> Text!Blank(l)
      BY <3>3 DEF Text!Blank
    <3>6. d[m].indent >= s + by /\ c.indent = d[m].indent - (s + by)
      BY <3>1, <3>3, <3>4
    <3>. HIDE DEF c
    <3>. QED
      BY <3>3, <3>4, <3>5, <3>6 DEF IsWhole
  <2>. QED
    BY <2>2, <2>3
<1>. HIDE DEF c
<1>. QED
  BY <1>1, <1>2 DEF IsLine, c

-----------------------------------------------------------------------------
(* What one call of parseLines reads at a time.                             *)

(* A step r gives pieces, of them r.head for the paragraph, and leaves r.para;
   piece k is line r.at[k].  It reads from line p to r.next, whose first line
   becomes part of the paragraph if r.own, and opens a block if r.open. *)
All(ls, lines, p, r) == IF r.own THEN Append(ls, lines[p]) ELSE ls
IsParagraph(piece, ls) ==
    /\ piece.form = "para" /\ piece.ids = LineIds(ls) /\ piece.pad = <<>>
    /\ piece.cut <=> \E n \in DOMAIN ls : ls[n].cut > 0
OfLine(piece, l) ==
    \/ piece.ids = <<>> /\ ~piece.cut
    \/ piece.ids = <<l.id>> /\ (piece.cut /\ piece.form # "flat" => l.cut > 0)
Rest(r) == r.head + 1..Len(r.pieces)
Reads(ls, lines, p, r) ==
    /\ r.next \in p..Len(lines) + 1 /\ r.head \in {0, 1} /\ r.own \in BOOLEAN
    /\ r.own => p < r.next
    /\ r.pieces \in Seq(Text!Emitted)
    /\ r.head = 1 => /\ r.para = <<>> /\ Len(r.pieces) >= 1
                     /\ IsParagraph(r.pieces[1], All(ls, lines, p, r))
    /\ r.head = 0 => /\ r.para = All(ls, lines, p, r)
                     /\ r.para = <<>> \/ r.pieces = <<>>
    /\ \A k \in Rest(r) :
           /\ r.at[k] \in p..r.next - 1 /\ (r.own => p < r.at[k])
           /\ OfLine(r.pieces[k], lines[r.at[k]]) /\ r.pieces[k].form # "para"
           /\ r.pieces[k].form \in {"item", "term"} => r.at[k] = p /\ r.pieces[k].pad = <<>>
    /\ \A j, k \in Rest(r) : j < k => r.at[j] < r.at[k]

Carries(piece) == piece.ids # <<>>
AsForm(r, n, forms) ==
    \E k \in Rest(r) : r.at[k] = n /\ Carries(r.pieces[k]) /\ r.pieces[k].form \in forms
Forms == {"para", "title", "item", "label", "term", "code", "flat", "omitted"}
Taken(r, p, n) == (r.own /\ n = p) \/ AsForm(r, n, Forms \ {"omitted"})
Swept(lines, p, r) ==
    /\ p < r.next /\ lines[p].kind \in {"toctree", "comment", "include"}
    /\ \A n \in p + 1..r.next - 1 : Text!Blank(lines[n]) \/ lines[n].indent > lines[p].indent
    /\ Stops(lines, r.next, lines[p].indent)
    /\ \A n \in p..r.next - 1 : ~Taken(r, p, n)
Passes(lines, p, r) ==
    \/ Swept(lines, p, r)
    \/ \A n \in p..r.next - 1 :
           \/ lines[n].kind \in {"blank", "option", "rule", "note", "tab", "only", "code"}
           \/ Taken(r, p, n)

-----------------------------------------------------------------------------
(* The lines of a call that reads the document.                             *)

LEMMA BlockFacts ==
    ASSUME NEW d \in Seq(Text!Line), NEW ls \in Seq(Text!Line), NEW b, NEW s,
           IsBlock(d, ls, b, s)
    PROVE  /\ b \in Nat /\ s \in Nat /\ Len(ls) \in Nat /\ Len(d) \in Nat /\ b + Len(ls) <= Len(d)
           /\ \A n \in 1..Len(ls) :
                  /\ b + n \in 1..Len(d) /\ IsLine(d, ls[n], b + n, s)
                  /\ d[b + n].indent \in Nat /\ ls[n].indent \in Nat /\ ls[n] \in Text!Line
                  /\ ls[n].kind \in Text!Kinds /\ ls[n].cut \in Nat
<1>2. /\ b \in Nat /\ s \in Nat /\ b + Len(ls) <= Len(d)
      /\ \A n \in 1..Len(ls) : IsLine(d, ls[n], b + n, s)
  BY DEF IsBlock
<1>3. Len(ls) \in Nat /\ Len(d) \in Nat
  BY LineFacts
<1>4. \A n \in 1..Len(ls) : b + n \in 1..Len(d)
  BY <1>2, <1>3
<1>5. \A n \in 1..Len(d) : d[n].indent \in Nat
  BY LineFacts
<1>6. \A n \in 1..Len(ls) : /\ ls[n].indent \in Nat /\ ls[n].kind \in Text!Kinds
                             /\ ls[n].cut \in Nat /\ ls[n] \in Text!Line
  BY LineFacts
<1>. QED
  BY <1>2, <1>3, <1>4, <1>5, <1>6

(* What a line of an even document tells of the line it was. *)
LEMMA LineTells ==
    ASSUME NEW d, Text!Even(d), NEW l \in Text!Line, NEW m, NEW s \in Nat, d[m].indent \in Nat,
           IsLine(d, l, m, s)
    PROVE  /\ Text!Blank(l) <=> Text!Blank(d[m])
           /\ ~Text!Blank(l) => d[m].indent = l.indent + s /\ d[m].kind = l.kind
BY DEF IsLine, IsWhole, Text!Line

LEMMA NonBlankBetween ==
    ASSUME NEW d \in Seq(Text!Line), NEW a \in Nat, NEW k \in a..Len(d), ~Text!Blank(d[k])
    PROVE  \E e \in a..k : ~Text!Blank(d[e]) /\ \A m \in a..e - 1 : Text!Blank(d[m])
<1>. DEFINE S == {e \in a..k : ~Text!Blank(d[e])}
<1>0. Len(d) \in Nat /\ k \in Nat
  BY LineFacts
<1>1. S \in SUBSET Nat /\ S # {} /\ \A e : e \in S <=> e \in a..k /\ ~Text!Blank(d[e])
  BY <1>0
<1>. HIDE DEF S
<1>2. PICK e \in S : \A m \in S : e <= m
  BY <1>1, LeastExists
<1>3. \A m \in a..e - 1 : m \notin S /\ m \in a..k
  BY <1>0, <1>1, <1>2
<1>. QED
  BY <1>1, <1>2, <1>3

(* Where a line's block ends in the call that reads it, it ends in the
   document. *)
LEMMA PassedBy ==
    ASSUME NEW d \in Seq(Text!Line), Text!Even(d), NEW ls \in Seq(Text!Line), NEW b, NEW s, NEW n, NEW next
    PROVE  /\ IsBlock(d, ls, b, s) /\ n \in 1..Len(ls) /\ next \in n + 1..Len(ls) + 1
           /\ ~Text!Blank(ls[n]) /\ Stops(ls, next, ls[n].indent)
           => Passed(d, b + n, b + next)
<1>a. SUFFICES ASSUME IsBlock(d, ls, b, s), n \in 1..Len(ls), next \in n + 1..Len(ls) + 1,
                      ~Text!Blank(ls[n]), Stops(ls, next, ls[n].indent)
               PROVE  Passed(d, b + n, b + next)
  OBVIOUS
<1>1. /\ b \in Nat /\ s \in Nat /\ Len(ls) \in Nat /\ Len(d) \in Nat
      /\ b + Len(ls) <= Len(d) /\ n \in 1..Len(ls) /\ next \in n + 1..Len(ls) + 1
  BY <1>a, BlockFacts
<1>2. \A m \in 1..Len(ls) :
          /\ b + m \in 1..Len(d) /\ IsLine(d, ls[m], b + m, s)
          /\ d[b + m].indent \in Nat /\ ls[m].indent \in Nat /\ ls[m] \in Text!Line
  BY <1>a, BlockFacts
<1>s. s \in Nat
  BY <1>1
<1>3. PICK h, from, end : h = b + n /\ from = b + next /\ end = b + Len(ls) + 1
  OBVIOUS
<1>4. h \in Nat /\ from \in Nat /\ end \in Nat /\ h < from /\ from <= end
  BY <1>1, <1>3
<1>5. d[h].indent = ls[n].indent + s /\ ls[n].indent \in Nat
  <2>1. PICK l : l = ls[n]
    OBVIOUS
  <2>2. l \in Text!Line /\ IsLine(d, l, h, s) /\ d[h].indent \in Nat /\ l.indent \in Nat
    BY <1>1, <1>2, <1>3, <2>1
  <2>3. ~Text!Blank(l)
    BY <1>a, <2>1
  <2>. QED
    BY <1>s, <2>1, <2>2, <2>3, LineTells
<1>6. ASSUME NEW k \in from..Len(d), ~Text!Blank(d[k]), Under(d, h, k)
      PROVE  FALSE
  <2>1. PICK e \in from..k : /\ ~Text!Blank(d[e])
                             /\ \A m \in from..e - 1 : Text!Blank(d[m])
    BY <1>4, <1>6, NonBlankBetween
  <2>2. e \in h + 1..k /\ e \in Nat /\ e <= Len(d)
    BY <1>1, <1>4
  <2>3. d[e].indent > d[h].indent
    BY <1>6, <2>1, <2>2 DEF Under
  <2>4. CASE e < end
    <3>1. PICK m : m = e - b
      OBVIOUS
    <3>2. m \in next..Len(ls) /\ m \in 1..Len(ls) /\ e = b + m
      BY <1>1, <1>3, <1>4, <2>2, <2>4, <3>1
    <3>3. IsLine(d, ls[m], e, s) /\ d[e].indent \in Nat /\ ls[m].indent \in Nat /\ ls[m] \in Text!Line
      BY <1>2, <3>2
    <3>4. ~Text!Blank(ls[m])
      BY <1>s, <2>1, <3>3, LineTells
    <3>5. \A x \in next..m - 1 : Text!Blank(ls[x])
      <4>. SUFFICES ASSUME NEW x \in next..m - 1
                    PROVE  Text!Blank(ls[x])
        OBVIOUS
      <4>1. x \in 1..Len(ls) /\ b + x \in from..e - 1
        BY <1>1, <1>3, <3>2
      <4>. QED
        BY <1>2, <1>s, <2>1, <4>1, LineTells
    <3>6. ls[m].indent <= ls[n].indent
      BY <1>a, <3>2, <3>4, <3>5 DEF Stops
    <3>7. d[e].indent = ls[m].indent + s
      BY <1>s, <3>3, <3>4, LineTells
    <3>8. PICK x, y, u, v : x = d[e].indent /\ y = d[h].indent /\ u = ls[m].indent /\ v = ls[n].indent
      OBVIOUS
    <3>9. u \in Nat /\ v \in Nat /\ s \in Nat /\ u <= v
      BY <1>5, <1>s, <3>3, <3>6, <3>8
    <3>10. x = u + s /\ y = v + s
      BY <1>5, <3>7, <3>8
    <3>11. x > y
      BY <2>3, <3>8
    <3>12. ~(u + s > v + s)
      BY <3>9
    <3>. QED
      BY <3>10, <3>11, <3>12
  <2>5. CASE ~(e < end)
    <3>1. e \in end..Len(d)
      BY <1>4, <2>2, <2>5
    <3>2. \A x \in end..e - 1 : Text!Blank(d[x])
      <4>1. \A x \in end..e - 1 : x \in from..e - 1
        BY <1>4
      <4>. QED
        BY <2>1, <4>1
    <3>3. d[e].indent < s
      BY <1>3, <1>a, <2>1, <3>1, <3>2 DEF IsBlock, Outdented
    <3>4. d[e].indent \in Nat
      <4>1. e \in 1..Len(d)
        BY <1>4, <2>2
      <4>. QED
        BY <4>1, LineFacts
    <3>5. PICK x, y, v : x = d[e].indent /\ y = d[h].indent /\ v = ls[n].indent
      OBVIOUS
    <3>6. x \in Nat /\ v \in Nat /\ s \in Nat /\ y = v + s
      BY <1>5, <1>s, <3>4, <3>5
    <3>7. x > y /\ x < s
      BY <2>3, <3>3, <3>5
    <3>. QED
      BY <3>6, <3>7
  <2>. QED
    BY <2>4, <2>5
<1>. QED
  BY <1>3, <1>6 DEF Passed

-----------------------------------------------------------------------------
(* What is on the page, and in which order.                                 *)

LEMMA Concatenated ==
    ASSUME NEW a \in Seq(Text!Emitted), NEW b \in Seq(Text!Emitted)
    PROVE  /\ Len(a) \in Nat /\ Len(b) \in Nat /\ DOMAIN a = 1..Len(a) /\ DOMAIN b = 1..Len(b)
           /\ DOMAIN (a \o b) = 1..Len(a) + Len(b) /\ Len(a \o b) = Len(a) + Len(b)
           /\ a \o b \in Seq(Text!Emitted)
           /\ \A k \in 1..Len(a) : (a \o b)[k] = a[k]
           /\ \A k \in 1..Len(b) : (a \o b)[Len(a) + k] = b[k]
           /\ \A k \in 1..Len(a) + Len(b) : k > Len(a) =>
                  k - Len(a) \in 1..Len(b) /\ (a \o b)[k] = b[k - Len(a)]
<1>1. Len(a) \in Nat /\ Len(b) \in Nat /\ DOMAIN a = 1..Len(a) /\ DOMAIN b = 1..Len(b)
  BY LenProperties
<1>2. /\ a \o b \in Seq(Text!Emitted) /\ Len(a \o b) = Len(a) + Len(b)
      /\ \A k \in 1..Len(a) + Len(b) :
             (a \o b)[k] = IF k <= Len(a) THEN a[k] ELSE b[k - Len(a)]
  BY ConcatProperties
<1>3. DOMAIN (a \o b) = 1..Len(a) + Len(b)
  BY <1>2, LenProperties
<1>4. \A k \in 1..Len(a) : (a \o b)[k] = a[k]
  BY <1>1, <1>2
<1>5. \A k \in 1..Len(b) : (a \o b)[Len(a) + k] = b[k]
  <2>. TAKE k \in 1..Len(b)
  <2>1. Len(a) + k \in 1..Len(a) + Len(b) /\ ~(Len(a) + k <= Len(a)) /\ Len(a) + k - Len(a) = k
    BY <1>1
  <2>. QED
    BY <1>2, <2>1
<1>6. \A k \in 1..Len(a) + Len(b) : k > Len(a) =>
          k - Len(a) \in 1..Len(b) /\ (a \o b)[k] = b[k - Len(a)]
  <2>. SUFFICES ASSUME NEW k \in 1..Len(a) + Len(b), k > Len(a)
                PROVE  k - Len(a) \in 1..Len(b) /\ (a \o b)[k] = b[k - Len(a)]
    OBVIOUS
  <2>1. k - Len(a) \in 1..Len(b) /\ ~(k <= Len(a))
    BY <1>1
  <2>. QED
    BY <1>2, <2>1
<1>. QED
  BY <1>1, <1>2, <1>3, <1>4, <1>5, <1>6

LEMMA OneId ==
    ASSUME NEW id
    PROVE  /\ DOMAIN <<id>> = {1} /\ <<id>>[1] = id
           /\ \A m : Has(<<id>>, m) <=> id = <<"doc", m>>
           /\ \A m : ~Has(<<>>, m)
<1>1. DOMAIN <<id>> = {1} /\ <<id>>[1] = id /\ DOMAIN <<>> = {}
  OBVIOUS
<1>. QED
  BY <1>1 DEF Has

LEMMA HasNumber ==
    ASSUME NEW ids, NEW a, NEW b, Within(ids, a, b), NEW m, Has(ids, m)
    PROVE  m \in a..b
<1>1. PICK n \in DOMAIN ids : ids[n] = <<"doc", m>>
  BY DEF Has
<1>2. OfText(ids[n]) /\ ids[n][2] = m
  BY <1>1 DEF OfText
<1>. QED
  BY <1>2 DEF Within

LEMMA LineIdsAre ==
    ASSUME NEW ls \in Seq(Text!Line), NEW l \in Text!Line
    PROVE  /\ Len(ls) \in Nat /\ DOMAIN LineIds(ls) = 1..Len(ls)
           /\ \A n \in 1..Len(ls) : LineIds(ls)[n] = ls[n].id
           /\ Append(ls, l) \in Seq(Text!Line) /\ Len(Append(ls, l)) = Len(ls) + 1
           /\ Append(ls, l) # <<>>
           /\ DOMAIN LineIds(Append(ls, l)) = 1..Len(ls) + 1
           /\ \A n \in 1..Len(ls) : /\ Append(ls, l)[n] = ls[n]
                                    /\ LineIds(Append(ls, l))[n] = LineIds(ls)[n]
           /\ Append(ls, l)[Len(ls) + 1] = l
           /\ LineIds(Append(ls, l))[Len(ls) + 1] = l.id
<1>1. Len(ls) \in Nat /\ DOMAIN ls = 1..Len(ls)
  BY LenProperties
<1>2. /\ Append(ls, l) \in Seq(Text!Line) /\ Len(Append(ls, l)) = Len(ls) + 1
      /\ \A n \in 1..Len(ls) : Append(ls, l)[n] = ls[n]
      /\ Append(ls, l)[Len(ls) + 1] = l
  BY AppendProperties
<1>3. DOMAIN Append(ls, l) = 1..Len(ls) + 1
  BY <1>1, <1>2, LenProperties
<1>4. \A n \in 1..Len(ls) : n \in 1..Len(ls) + 1
  BY <1>1
<1>5. Len(ls) + 1 \in 1..Len(ls) + 1 /\ Len(ls) + 1 # 0
  BY <1>1
<1>6. Append(ls, l) # <<>>
  BY <1>2, <1>5
<1>. QED
  BY <1>1, <1>2, <1>3, <1>4, <1>5, <1>6 DEF LineIds

(* The paragraph with the line that is read. *)
LEMMA LongerParagraph ==
    ASSUME NEW ls \in Seq(Text!Line), NEW l \in Text!Line, NEW p \in Nat \ {0},
           l.id = <<"doc", p>>, Rising(LineIds(ls)), Within(LineIds(ls), 1, p - 1),
           NEW all, all = Append(ls, l)
    PROVE  /\ Rising(LineIds(all)) /\ Within(LineIds(all), 1, p)
           /\ \A m : Has(LineIds(all), m) <=> Has(LineIds(ls), m) \/ m = p
           /\ \A ids : Within(ids, 1, p - 1) /\ Before(ids, LineIds(ls)) =>
                           Before(ids, LineIds(all))
<1>. DEFINE a == LineIds(all)
            b == LineIds(ls)
            e == Len(ls) + 1
<1>1. /\ e \in Nat \ {0} /\ DOMAIN b = 1..e - 1 /\ DOMAIN a = 1..e
      /\ \A n \in 1..e - 1 : a[n] = b[n]
      /\ a[e] = <<"doc", p>>
  BY LineIdsAre
<1>2. \A m : <<"doc", m>>[1] = "doc" /\ <<"doc", m>>[2] = m
  OBVIOUS
<1>3. OfText(a[e]) /\ a[e][2] = p
  BY <1>1, <1>2 DEF OfText
<1>. HIDE DEF a, b, e
<1>4. \A n \in 1..e : n \in 1..e - 1 \/ n = e
  BY <1>1
<1>5. \A n \in 1..e - 1 : OfText(b[n]) => b[n][2] \in 1..p - 1
  BY <1>1 DEF Within, b
<1>6. Rising(a)
  <2>. SUFFICES ASSUME NEW m \in 1..e, NEW n \in 1..e, m < n, OfText(a[m]), OfText(a[n])
                PROVE  a[m][2] < a[n][2]
    BY <1>1 DEF Rising
  <2>1. m \in 1..e - 1
    BY <1>1
  <2>2. CASE n \in 1..e - 1
    BY <1>1, <2>1, <2>2 DEF Rising, b
  <2>3. CASE n = e
    BY <1>1, <1>3, <1>5, <2>1, <2>3
  <2>. QED
    BY <1>4, <2>2, <2>3
<1>7. Within(a, 1, p)
  <2>. SUFFICES ASSUME NEW n \in 1..e, OfText(a[n])
                PROVE  a[n][2] \in 1..p
    BY <1>1 DEF Within
  <2>2. CASE n \in 1..e - 1
    <3>1. b[n][2] \in 1..p - 1 /\ a[n] = b[n]
      BY <1>1, <1>5, <2>2
    <3>. QED
      BY <3>1
  <2>3. CASE n = e
    BY <1>3, <2>3
  <2>. QED
    BY <1>4, <2>2, <2>3
<1>8. \A m : Has(a, m) <=> Has(b, m) \/ m = p
  <2>. TAKE m
  <2>1. CASE Has(a, m)
    <3>1. PICK n \in 1..e : a[n] = <<"doc", m>>
      BY <1>1, <2>1 DEF Has
    <3>2. CASE n \in 1..e - 1
      BY <1>1, <3>1, <3>2 DEF Has
    <3>3. CASE n = e
      <4>1. a[e] = <<"doc", m>> /\ a[e] = <<"doc", p>>
        BY <1>1, <3>1, <3>3
      <4>2. <<"doc", m>>[2] = m /\ <<"doc", p>>[2] = p
        BY <1>2
      <4>3. m = p
        BY <4>1, <4>2
      <4>. QED
        BY <2>1, <4>3
    <3>. QED
      BY <1>4, <2>1, <3>2, <3>3
  <2>2. CASE Has(b, m)
    <3>1. PICK n \in 1..e - 1 : b[n] = <<"doc", m>>
      BY <1>1, <2>2 DEF Has
    <3>2. n \in 1..e /\ a[n] = <<"doc", m>>
      BY <1>1, <3>1
    <3>. QED
      BY <1>1, <2>2, <3>2 DEF Has
  <2>3. CASE m = p
    <3>1. e \in 1..e
      BY <1>1
    <3>. QED
      BY <1>1, <2>3, <3>1 DEF Has
  <2>. QED
    BY <2>1, <2>2, <2>3
<1>9. \A ids : Within(ids, 1, p - 1) /\ Before(ids, b) => Before(ids, a)
  <2>. SUFFICES ASSUME NEW ids, Within(ids, 1, p - 1), Before(ids, b),
                       NEW m \in DOMAIN ids, NEW n \in 1..e, OfText(ids[m]), OfText(a[n])
                PROVE  ids[m][2] < a[n][2]
    BY <1>1 DEF Before
  <2>1. CASE n \in 1..e - 1
    BY <1>1, <2>1 DEF Before
  <2>2. CASE n = e
    <3>1. ids[m][2] \in 1..p - 1
      BY DEF Within
    <3>. QED
      BY <1>3, <2>2, <3>1
  <2>. QED
    BY <1>4, <2>1, <2>2
<1>. QED
  BY <1>6, <1>7, <1>8, <1>9 DEF a, b

LEMMA EmptyIds ==
    ASSUME NEW a, NEW b
    PROVE  /\ Rising(<<>>) /\ Within(<<>>, a, b) /\ \A ids : Before(ids, <<>>) /\ Before(<<>>, ids)
           /\ LineIds(<<>>) = <<>> /\ \A m : ~Has(<<>>, m)
<1>1. DOMAIN <<>> = {}
  OBVIOUS
<1>. QED
  BY <1>1 DEF Rising, Within, Before, LineIds, Has

(* A step of a call that reads the document: lines b + 1 and on of it, less an
   indentation of s. *)
OwnStep(d, lines, b, s, ls, p, r) ==
    /\ d \in Seq(Text!Line) /\ lines \in Seq(Text!Line) /\ ls \in Seq(Text!Line)
    /\ IsBlock(d, lines, b, s) /\ p \in 1..Len(lines) + 1
    /\ Reads(ls, lines, p, r)

LEMMA OwnStepFacts ==
    ASSUME NEW d, NEW lines, NEW b, NEW s, NEW ls, NEW p, NEW r, OwnStep(d, lines, b, s, ls, p, r)
    PROVE  /\ b \in Nat /\ s \in Nat /\ Len(lines) \in Nat /\ p \in Nat \ {0} /\ r.next \in Nat
           /\ p <= r.next /\ r.next <= Len(lines) + 1 /\ r.head \in {0, 1} /\ r.own \in BOOLEAN
           /\ r.own => p < r.next /\ p \in 1..Len(lines)
           /\ r.pieces \in Seq(Text!Emitted)
           /\ \A n \in p..r.next - 1 :
                  /\ n \in 1..Len(lines) /\ n \in Nat /\ lines[n] \in Text!Line
                  /\ IsLine(d, lines[n], b + n, s) /\ b + n \in 1..Len(d)
                  /\ b + n \in b + p..b + r.next - 1 /\ b + n \in Nat
<1>1. /\ b \in Nat /\ s \in Nat /\ Len(lines) \in Nat
      /\ \A n \in 1..Len(lines) : IsLine(d, lines[n], b + n, s) /\ lines[n] \in Text!Line
                                 /\ b + n \in 1..Len(d)
  BY BlockFacts DEF OwnStep
<1>2. /\ r.next \in p..Len(lines) + 1 /\ r.own \in BOOLEAN /\ (r.own => p < r.next)
      /\ r.head \in {0, 1} /\ r.pieces \in Seq(Text!Emitted) /\ p \in 1..Len(lines) + 1
  BY DEF OwnStep, Reads
<1>3. \A n \in p..r.next - 1 : n \in 1..Len(lines) /\ n \in Nat /\ b + n \in b + p..b + r.next - 1
                              /\ b + n \in Nat
  BY <1>1, <1>2
<1>4. r.own => p \in 1..Len(lines)
  BY <1>1, <1>2
<1>5. p \in Nat \ {0} /\ r.next \in Nat /\ p <= r.next /\ r.next <= Len(lines) + 1
  BY <1>1, <1>2
<1>. QED
  BY <1>1, <1>2, <1>3, <1>4, <1>5

(* The paragraph after the line that is read. *)
LEMMA ParagraphAfter ==
    ASSUME NEW d, NEW lines, NEW b, NEW s, NEW ls, NEW p, NEW r, OwnStep(d, lines, b, s, ls, p, r),
           NEW page, Ordered(page, ls, b + p),
           NEW all, all = All(ls, lines, p, r)
    PROVE  /\ all \in Seq(Text!Line) /\ Rising(LineIds(all)) /\ Within(LineIds(all), 1, b + r.next - 1)
           /\ \A m : Has(LineIds(all), m) <=> Has(LineIds(ls), m) \/ (r.own /\ m = b + p)
           /\ \A ids : Within(ids, 1, b + p - 1) /\ Before(ids, LineIds(ls)) => Before(ids, LineIds(all))
           /\ \A k \in Rest(r), n \in DOMAIN LineIds(all) :
                  OfText(LineIds(all)[n]) => LineIds(all)[n][2] < b + r.at[k]
<1>1. b \in Nat /\ p \in Nat \ {0} /\ r.next \in Nat /\ p <= r.next /\ r.own \in BOOLEAN
      /\ (r.own => p < r.next)
  BY OwnStepFacts
<1>2. \A k \in Rest(r) : r.at[k] \in Nat /\ p <= r.at[k] /\ (r.own => p < r.at[k])
  <2>1. \A k \in Rest(r) : r.at[k] \in p..r.next - 1 /\ (r.own => p < r.at[k])
    BY DEF OwnStep, Reads
  <2>. QED
    BY <1>1, <2>1
<1>0. ls \in Seq(Text!Line) /\ Rising(LineIds(ls)) /\ Within(LineIds(ls), 1, b + p - 1)
  <2>1. ls \in Seq(Text!Line)
    BY DEF OwnStep
  <2>2. Rising(LineIds(ls)) /\ Within(LineIds(ls), 1, b + p - 1)
    BY <1>1 DEF Ordered
  <2>. QED
    BY <2>1, <2>2
<1>3. CASE ~r.own
  <2>1. all = ls
    BY <1>3 DEF All
  <2>2. \A n \in DOMAIN LineIds(ls) : OfText(LineIds(ls)[n]) => LineIds(ls)[n][2] \in 1..b + p - 1
    BY <1>0 DEF Within
  <2>3. \A x \in 1..b + p - 1 : x \in 1..b + r.next - 1
    BY <1>1
  <2>4. Within(LineIds(all), 1, b + r.next - 1)
    BY <2>1, <2>2, <2>3 DEF Within
  <2>5. \A x \in 1..b + p - 1 : \A k \in Rest(r) : x < b + r.at[k]
    BY <1>1, <1>2
  <2>. QED
    BY <1>0, <1>3, <2>1, <2>2, <2>4, <2>5
<1>4. CASE r.own
  <2>1. all = Append(ls, lines[p]) /\ lines[p] \in Text!Line /\ lines[p].id = <<"doc", b + p>>
    <3>1. p \in p..r.next - 1
      BY <1>1, <1>4
    <3>2. lines[p] \in Text!Line /\ IsLine(d, lines[p], b + p, s)
      BY <3>1, OwnStepFacts
    <3>. QED
      BY <1>4, <3>2 DEF All, IsLine
  <2>2. PICK q : q = b + p
    OBVIOUS
  <2>3. q \in Nat \ {0} /\ lines[p].id = <<"doc", q>> /\ Within(LineIds(ls), 1, q - 1)
    BY <1>0, <1>1, <2>1, <2>2
  <2>4. /\ Rising(LineIds(all)) /\ Within(LineIds(all), 1, q)
        /\ \A m : Has(LineIds(all), m) <=> Has(LineIds(ls), m) \/ m = q
        /\ \A ids : Within(ids, 1, q - 1) /\ Before(ids, LineIds(ls)) => Before(ids, LineIds(all))
    BY <1>0, <2>1, <2>3, LongerParagraph
  <2>5. \A n \in DOMAIN LineIds(all) : OfText(LineIds(all)[n]) => LineIds(all)[n][2] \in 1..q
    BY <2>4 DEF Within
  <2>6. \A x \in 1..q : x \in 1..b + r.next - 1
    BY <1>1, <1>4, <2>2
  <2>7. Within(LineIds(all), 1, b + r.next - 1)
    BY <2>5, <2>6 DEF Within
  <2>8. \A x \in 1..q : \A k \in Rest(r) : x < b + r.at[k]
    BY <1>1, <1>2, <1>4, <2>2
  <2>9. all \in Seq(Text!Line)
    BY <1>0, <2>1, LineIdsAre
  <2>. QED
    <3>1. \A m : Has(LineIds(all), m) <=> Has(LineIds(ls), m) \/ (r.own /\ m = b + p)
      BY <1>4, <2>2, <2>4
    <3>2. \A ids : Within(ids, 1, b + p - 1) /\ Before(ids, LineIds(ls)) => Before(ids, LineIds(all))
      BY <1>1, <2>2, <2>4
    <3>3. \A k \in Rest(r), n \in DOMAIN LineIds(all) :
              OfText(LineIds(all)[n]) => LineIds(all)[n][2] < b + r.at[k]
      BY <2>5, <2>8
    <3>4. Rising(LineIds(all))
      BY <2>4
    <3>. QED
      BY <2>7, <2>9, <3>1, <3>2, <3>3, <3>4
<1>. QED
  BY <1>1, <1>3, <1>4

(* The line of the document that is line n after the first b. *)
Place(b, n) == b + n
ShowsItsLine(r, b, k) ==
    \A m : Has(r.pieces[k].ids, m) <=> Carries(r.pieces[k]) /\ m = Place(b, r.at[k])

(* The pieces that are a line each. *)
LEMMA PieceOfLine ==
    ASSUME NEW d, NEW lines, NEW b, NEW s, NEW ls, NEW p, NEW r, OwnStep(d, lines, b, s, ls, p, r),
           NEW k \in Rest(r)
    PROVE  /\ r.at[k] \in p..r.next - 1 /\ r.at[k] \in Nat
           /\ b + r.at[k] \in b + p..b + r.next - 1 /\ b + r.at[k] \in Nat
           /\ ShowsItsLine(r, b, k)
           /\ \A n \in DOMAIN r.pieces[k].ids :
                  OfText(r.pieces[k].ids[n]) => r.pieces[k].ids[n][2] = b + r.at[k]
           /\ Rising(r.pieces[k].ids)
           /\ r.pieces[k].cut /\ r.pieces[k].form # "flat" => lines[r.at[k]].cut > 0
           /\ r.pieces[k].cut => Carries(r.pieces[k])
<1>1. r.at[k] \in p..r.next - 1 /\ OfLine(r.pieces[k], lines[r.at[k]])
  BY DEF OwnStep, Reads
<1>2. /\ r.at[k] \in Nat /\ b + r.at[k] \in b + p..b + r.next - 1 /\ b + r.at[k] \in Nat
      /\ IsLine(d, lines[r.at[k]], b + r.at[k], s)
  BY <1>1, OwnStepFacts
<1>4. lines[r.at[k]].id = <<"doc", b + r.at[k]>>
  BY <1>2 DEF IsLine
<1>5. PICK v : v = b + r.at[k]
  OBVIOUS
<1>6. /\ \/ r.pieces[k].ids = <<>> /\ ~r.pieces[k].cut
         \/ r.pieces[k].ids = <<<<"doc", v>>>>
      /\ r.pieces[k].cut /\ r.pieces[k].form # "flat" => lines[r.at[k]].cut > 0
  BY <1>1, <1>4, <1>5 DEF OfLine
<1>7. \A x, y : <<"doc", x>> = <<"doc", y>> <=> x = y
  OBVIOUS
<1>8. CASE r.pieces[k].ids = <<>>
  <2>a. ~r.pieces[k].cut
    BY <1>6, <1>8
  <2>1. DOMAIN r.pieces[k].ids = {} /\ Rising(r.pieces[k].ids) /\ \A m : ~Has(r.pieces[k].ids, m)
    BY <1>8, EmptyIds
  <2>. QED
    <3>1. ~Carries(r.pieces[k])
      BY <1>8 DEF Carries
    <3>2. ShowsItsLine(r, b, k)
      BY <2>1, <3>1 DEF ShowsItsLine
    <3>. QED
      BY <1>1, <1>2, <1>6, <1>8, <2>1, <2>a, <3>2
<1>9. CASE r.pieces[k].ids = <<<<"doc", v>>>>
  <2>1. PICK id : id = <<"doc", v>>
    OBVIOUS
  <2>2. id[2] = v /\ r.pieces[k].ids = <<id>>
    BY <1>9, <2>1
  <2>3. DOMAIN <<id>> = {1} /\ <<id>>[1] = id /\ <<id>> # <<>>
    OBVIOUS
  <2>4. \A m : Has(<<id>>, m) <=> m = v
    BY <1>7, <2>1, OneId
  <2>5. Rising(<<id>>)
    BY <2>3 DEF Rising
  <2>. QED
    <3>1. Carries(r.pieces[k]) /\ v = Place(b, r.at[k])
      BY <1>5, <2>2, <2>3 DEF Carries, Place
    <3>2. ShowsItsLine(r, b, k)
      BY <2>2, <2>4, <3>1 DEF ShowsItsLine
    <3>. QED
      BY <1>1, <1>2, <1>5, <1>6, <2>2, <2>3, <2>5, <3>1, <3>2
<1>. QED
  BY <1>6, <1>8, <1>9

(* Where the pieces of a step stand on the page. *)
LEMMA PiecesAfter ==
    ASSUME NEW page \in Seq(Text!Emitted), NEW ls, NEW lines, NEW p, NEW r, Reads(ls, lines, p, r)
    PROVE  /\ Len(page) \in Nat /\ DOMAIN page = 1..Len(page)
           /\ DOMAIN (page \o r.pieces) = 1..Len(page) + Len(r.pieces)
           /\ \A k \in DOMAIN (page \o r.pieces) : LET piece == (page \o r.pieces)[k] IN
                  \/ k \in DOMAIN page /\ piece = page[k]
                  \/ /\ k = Len(page) + 1 /\ r.head = 1 /\ IsParagraph(piece, All(ls, lines, p, r))
                  \/ /\ k - Len(page) \in Rest(r) /\ k > Len(page)
                     /\ piece = r.pieces[k - Len(page)]
           /\ \A k \in DOMAIN page : /\ k \in DOMAIN (page \o r.pieces)
                                      /\ (page \o r.pieces)[k] = page[k]
           /\ \A k \in Rest(r) : /\ Len(page) + k \in DOMAIN (page \o r.pieces)
                                  /\ (page \o r.pieces)[Len(page) + k] = r.pieces[k]
                                  /\ k \in 1..Len(r.pieces)
           /\ r.head = 1 => /\ Len(page) + 1 \in DOMAIN (page \o r.pieces)
                            /\ IsParagraph((page \o r.pieces)[Len(page) + 1], All(ls, lines, p, r))
<1>. DEFINE new == page \o r.pieces
            all == All(ls, lines, p, r)
            a == Len(page)
            c == Len(r.pieces)
<1>1. r.pieces \in Seq(Text!Emitted) /\ r.head \in {0, 1}
      /\ ((r.head = 1) => c >= 1 /\ IsParagraph(r.pieces[1], all))
  BY DEF Reads
<1>2. a \in Nat /\ c \in Nat /\ DOMAIN page = 1..a /\ DOMAIN new = 1..a + c
  BY <1>1, Concatenated
<1>3. /\ \A k \in 1..a : new[k] = page[k]
      /\ \A k \in 1..c : new[a + k] = r.pieces[k]
      /\ \A k \in 1..a + c : k > a => k - a \in 1..c /\ new[k] = r.pieces[k - a]
  BY <1>1, Concatenated
<1>. HIDE DEF new, all, a, c
<1>4. \A k \in 1..c : a + k \in 1..a + c
  BY <1>2
<1>5. \A k \in 1..a : k \in 1..a + c
  BY <1>2
<1>6. Rest(r) = r.head + 1..c /\ \A k \in Rest(r) : k \in 1..c
  BY <1>1, <1>2 DEF Rest, c
<1>7. r.head = 1 => 1 \in 1..c
  BY <1>1, <1>2
<1>8. r.head = 1 => a + 1 \in 1..a + c /\ IsParagraph(new[a + 1], all)
  BY <1>1, <1>3, <1>4, <1>7
<1>9. ASSUME NEW k \in 1..a + c
      PROVE  \/ k \in 1..a /\ new[k] = page[k]
             \/ k = a + 1 /\ r.head = 1 /\ IsParagraph(new[k], all)
             \/ k - a \in Rest(r) /\ k > a /\ new[k] = r.pieces[k - a]
  <2>1. CASE k <= a
    <3>1. k \in 1..a
      BY <1>2, <2>1
    <3>. QED
      BY <1>3, <3>1
  <2>2. CASE ~(k <= a)
    <3>1. k > a /\ k \in Int
      BY <1>2, <2>2
    <3>2. k - a \in 1..c /\ new[k] = r.pieces[k - a]
      BY <1>3, <3>1
    <3>3. CASE r.head = 1 /\ k - a = 1
      <4>1. k = a + 1
        BY <1>2, <3>1, <3>3
      <4>. QED
        BY <1>8, <3>3, <4>1
    <3>4. CASE ~(r.head = 1 /\ k - a = 1)
      <4>1. PICK x : x = k - a
        OBVIOUS
      <4>2. x \in r.head + 1..c
        BY <1>1, <1>2, <3>2, <3>4, <4>1
      <4>. QED
        BY <1>6, <3>1, <3>2, <4>1, <4>2
    <3>. QED
      BY <3>3, <3>4
  <2>. QED
    BY <2>1, <2>2
<1>. QED
  BY <1>2, <1>3, <1>4, <1>5, <1>6, <1>8, <1>9 DEF new, all, a, c

(* A step keeps the page in order, and shows what it takes. *)
LEMMA OrderMoves ==
    ASSUME NEW d, NEW lines, NEW b, NEW s, NEW ls, NEW p, NEW r, OwnStep(d, lines, b, s, ls, p, r),
           NEW page \in Seq(Text!Emitted), Ordered(page, ls, b + p)
    PROVE  Ordered(page \o r.pieces, r.para, b + r.next)
<1>. DEFINE new == page \o r.pieces
            all == All(ls, lines, p, r)
<1>1. b \in Nat /\ p \in Nat \ {0} /\ r.next \in Nat /\ p <= r.next /\ r.head \in {0, 1}
  BY OwnStepFacts
<1>2. /\ all \in Seq(Text!Line) /\ Rising(LineIds(all)) /\ Within(LineIds(all), 1, b + r.next - 1)
      /\ \A ids : Within(ids, 1, b + p - 1) /\ Before(ids, LineIds(ls)) => Before(ids, LineIds(all))
      /\ \A k \in Rest(r), n \in DOMAIN LineIds(all) :
             OfText(LineIds(all)[n]) => LineIds(all)[n][2] < b + r.at[k]
  BY ParagraphAfter
<1>3. \A k \in Rest(r) :
          /\ b + r.at[k] \in b + p..b + r.next - 1 /\ b + r.at[k] \in Nat
          /\ \A n \in DOMAIN r.pieces[k].ids :
                 OfText(r.pieces[k].ids[n]) => r.pieces[k].ids[n][2] = b + r.at[k]
          /\ Rising(r.pieces[k].ids)
  BY PieceOfLine
<1>4. Reads(ls, lines, p, r)
  BY DEF OwnStep
<1>5. /\ Len(page) \in Nat /\ DOMAIN page = 1..Len(page) /\ DOMAIN new = 1..Len(page) + Len(r.pieces)
      /\ \A k \in DOMAIN new :
             \/ k \in DOMAIN page /\ new[k] = page[k]
             \/ k = Len(page) + 1 /\ r.head = 1 /\ IsParagraph(new[k], all)
             \/ k - Len(page) \in Rest(r) /\ k > Len(page) /\ new[k] = r.pieces[k - Len(page)]
  BY <1>4, PiecesAfter
<1>6. /\ r.head = 1 => r.para = <<>>
      /\ r.head = 0 => r.para = all /\ (r.para = <<>> \/ r.pieces = <<>>)
      /\ \A j, k \in Rest(r) : j < k => r.at[j] < r.at[k]
      /\ \A k \in Rest(r) : r.at[k] \in Nat
  <2>1. \A k \in Rest(r) : r.at[k] \in p..r.next - 1
    BY <1>4 DEF Reads
  <2>. QED
    BY <1>1, <1>4, <2>1 DEF Reads
<1>. HIDE DEF new, all
<1>7. \A k \in DOMAIN page :
          /\ Rising(page[k].ids) /\ Within(page[k].ids, 1, b + p - 1)
          /\ Before(page[k].ids, LineIds(ls))
          /\ \A j \in 1..k - 1 : Before(page[j].ids, page[k].ids)
  BY <1>1 DEF Ordered
<1>8. \A k \in DOMAIN page : Before(page[k].ids, LineIds(all))
  BY <1>2, <1>7
<1>9. \A ids, v : Rising(ids) /\ (\A n \in DOMAIN ids : OfText(ids[n]) => ids[n][2] = v)
                 /\ v \in b + p..b + r.next - 1 => Within(ids, 1, b + r.next - 1)
  <2>1. \A v \in b + p..b + r.next - 1 : v \in 1..b + r.next - 1
    BY <1>1
  <2>. QED
    BY <2>1 DEF Within
<1>10. \A ids : Within(ids, 1, b + p - 1) => Within(ids, 1, b + r.next - 1)
  <2>1. \A v \in 1..b + p - 1 : v \in 1..b + r.next - 1
    BY <1>1
  <2>. QED
    BY <2>1 DEF Within
<1>11. ASSUME NEW k \in DOMAIN new
       PROVE  Rising(new[k].ids) /\ Within(new[k].ids, 1, b + r.next - 1)
  <2>1. CASE k \in DOMAIN page /\ new[k] = page[k]
    BY <1>7, <1>10, <2>1
  <2>2. CASE IsParagraph(new[k], all)
    BY <1>2, <2>2 DEF IsParagraph
  <2>3. CASE k - Len(page) \in Rest(r) /\ new[k] = r.pieces[k - Len(page)]
    BY <1>3, <1>9, <2>3
  <2>. QED
    BY <1>5, <2>1, <2>2, <2>3
<1>12. Rising(LineIds(r.para)) /\ Within(LineIds(r.para), 1, b + r.next - 1)
  BY <1>1, <1>2, <1>6, EmptyIds
<1>13. ASSUME NEW k \in DOMAIN new
       PROVE  Before(new[k].ids, LineIds(r.para))
  <2>1. CASE r.para = <<>>
    BY <2>1, EmptyIds
  <2>2. CASE r.para # <<>>
    <3>1. r.head = 0 /\ r.para = all /\ r.pieces = <<>>
      BY <1>1, <1>6, <2>2
    <3>2. DOMAIN new = DOMAIN page
      BY <1>5, <3>1
    <3>3. k - Len(page) \notin Rest(r)
      <4>1. Rest(r) = {}
        BY <3>1 DEF Rest
      <4>. QED
        BY <4>1
    <3>4. new[k] = page[k] /\ k \in DOMAIN page
      BY <1>5, <3>1, <3>2, <3>3
    <3>. QED
      BY <1>8, <3>1, <3>4
  <2>. QED
    BY <2>1, <2>2
<1>14. ASSUME NEW k \in DOMAIN new, NEW j \in 1..k - 1
       PROVE  Before(new[j].ids, new[k].ids)
  <2>0. j \in DOMAIN new /\ j < k /\ j \in Nat /\ k \in Nat
    <3>1. Len(r.pieces) \in Nat
      <4>1. r.pieces \in Seq(Text!Emitted)
        BY <1>4 DEF Reads
      <4>. QED
        BY <4>1, LenProperties
    <3>. QED
      BY <1>5, <3>1
  <2>1. CASE k \in DOMAIN page /\ new[k] = page[k]
    <3>1. j \in DOMAIN page /\ ~(j > Len(page)) /\ j # Len(page) + 1
      BY <1>5, <2>0, <2>1
    <3>2. new[j] = page[j]
      BY <1>5, <2>0, <3>1
    <3>. QED
      BY <1>7, <2>1, <3>2
  <2>2. CASE k = Len(page) + 1 /\ IsParagraph(new[k], all)
    <3>1. ~(j > Len(page)) /\ j # Len(page) + 1
      BY <1>5, <2>0, <2>2
    <3>2. j \in DOMAIN page /\ new[j] = page[j]
      BY <1>5, <2>0, <3>1
    <3>. QED
      BY <1>8, <2>2, <3>2 DEF IsParagraph
  <2>3. CASE k - Len(page) \in Rest(r) /\ k > Len(page) /\ new[k] = r.pieces[k - Len(page)]
    <3>. DEFINE x == k - Len(page)
    <3>1. \A n \in DOMAIN new[k].ids : OfText(new[k].ids[n]) => new[k].ids[n][2] = b + r.at[x]
      BY <1>3, <2>3
    <3>2. b + r.at[x] \in b + p..b + r.next - 1 /\ b + r.at[x] \in Nat /\ r.at[x] \in Nat
      BY <1>3, <1>6, <2>3
    <3>3. SUFFICES \A n \in DOMAIN new[j].ids :
                       OfText(new[j].ids[n]) => new[j].ids[n][2] < b + r.at[x]
      BY <3>1 DEF Before
    <3>4. CASE j \in DOMAIN page /\ new[j] = page[j]
      <4>1. \A n \in DOMAIN new[j].ids : OfText(new[j].ids[n]) => new[j].ids[n][2] \in 1..b + p - 1
        BY <1>7, <3>4 DEF Within
      <4>2. PICK m, from, last : m = b + r.at[x] /\ from = b + p /\ last = b + r.next - 1
        OBVIOUS
      <4>3. m \in from..last /\ m \in Nat
        BY <3>2, <4>2
      <4>4. b \in Nat /\ p \in Nat /\ m >= from
        BY <1>1, <4>2, <4>3
      <4>5. \A v \in 1..b + p - 1 : v < m
        <5>1. from \in Nat /\ from = b + p /\ m \in Nat
          BY <4>2, <4>3, <4>4
        <5>. QED
          BY <4>4, <5>1
      <4>6. ASSUME NEW n \in DOMAIN new[j].ids, OfText(new[j].ids[n])
            PROVE  new[j].ids[n][2] < m
        BY <4>1, <4>5, <4>6
      <4>. QED
        BY <4>2, <4>6
    <3>5. CASE IsParagraph(new[j], all)
      BY <1>2, <2>3, <3>5 DEF IsParagraph
    <3>6. CASE j - Len(page) \in Rest(r) /\ new[j] = r.pieces[j - Len(page)]
      <4>1. j - Len(page) < k - Len(page)
        BY <1>5, <2>0
      <4>2. r.at[j - Len(page)] < r.at[x] /\ r.at[j - Len(page)] \in Nat
        BY <1>6, <2>3, <3>6, <4>1
      <4>3. b + r.at[j - Len(page)] < b + r.at[x]
        <5>1. PICK y, z : y = r.at[j - Len(page)] /\ z = r.at[x]
          OBVIOUS
        <5>2. y \in Nat /\ z \in Nat /\ y < z /\ b \in Nat
          BY <1>1, <3>2, <4>2, <5>1
        <5>3. b + y < b + z
          BY <5>2
        <5>. QED
          BY <5>1, <5>3
      <4>. QED
        BY <1>3, <3>6, <4>3
    <3>. QED
      BY <1>5, <2>0, <3>4, <3>5, <3>6
  <2>. QED
    BY <1>5, <2>1, <2>2, <2>3
<1>15. Ordered(new, r.para, b + r.next)
  BY <1>1, <1>11, <1>12, <1>13, <1>14 DEF Ordered
<1>. QED
  BY <1>15 DEF new

(* What is shown as one of some forms. *)
ShownAs(page, forms, m) == \E k \in DOMAIN page : page[k].form \in forms /\ Has(page[k].ids, m)
ComesAs(p, b, r, forms, m) == \E n \in p..r.next - 1 : m = Place(b, n) /\ AsForm(r, n, forms)

LEMMA FormsMove ==
    ASSUME NEW d, NEW lines, NEW b, NEW s, NEW ls, NEW p, NEW r, OwnStep(d, lines, b, s, ls, p, r),
           NEW page \in Seq(Text!Emitted), Ordered(page, ls, b + p),
           NEW forms, "para" \notin forms
    PROVE  \A m : ShownAs(page \o r.pieces, forms, m)
                  <=> ShownAs(page, forms, m) \/ ComesAs(p, b, r, forms, m)
<1>. DEFINE new == page \o r.pieces
            all == All(ls, lines, p, r)
<1>1. Reads(ls, lines, p, r)
  BY DEF OwnStep
<1>2. /\ \A k \in DOMAIN new :
             \/ k \in DOMAIN page /\ new[k] = page[k]
             \/ k = Len(page) + 1 /\ r.head = 1 /\ IsParagraph(new[k], all)
             \/ k - Len(page) \in Rest(r) /\ k > Len(page) /\ new[k] = r.pieces[k - Len(page)]
      /\ \A k \in DOMAIN page : k \in DOMAIN new /\ new[k] = page[k]
      /\ \A k \in Rest(r) : Len(page) + k \in DOMAIN new /\ new[Len(page) + k] = r.pieces[k]
  BY <1>1, PiecesAfter
<1>3. \A k \in Rest(r) :
          /\ r.at[k] \in p..r.next - 1
          /\ ShowsItsLine(r, b, k)
  <2>. TAKE k \in Rest(r)
  <2>1. b \in Nat /\ r.at[k] \in Nat /\ r.at[k] \in p..r.next - 1
    BY OwnStepFacts, PieceOfLine
  <2>2. ShowsItsLine(r, b, k)
    BY PieceOfLine
  <2>. QED
    BY <2>1, <2>2
<1>. HIDE DEF new, all
<1>4. ASSUME NEW m, NEW k \in DOMAIN new, new[k].form \in forms, Has(new[k].ids, m)
      PROVE  \/ \E x \in DOMAIN page : page[x].form \in forms /\ Has(page[x].ids, m)
             \/ \E n \in p..r.next - 1 : m = Place(b, n) /\ AsForm(r, n, forms)
  <2>1. ~IsParagraph(new[k], all)
    BY <1>4 DEF IsParagraph
  <2>2. CASE k \in DOMAIN page /\ new[k] = page[k]
    BY <1>4, <2>2
  <2>3. CASE k - Len(page) \in Rest(r) /\ new[k] = r.pieces[k - Len(page)]
    <3>1. PICK x \in Rest(r) : x = k - Len(page)
      BY <2>3
    <3>2. new[k] = r.pieces[x] /\ Carries(r.pieces[x]) /\ m = Place(b, r.at[x]) /\ r.at[x] \in p..r.next - 1
      BY <1>3, <1>4, <2>3, <3>1 DEF ShowsItsLine
    <3>3. AsForm(r, r.at[x], forms)
      BY <1>4, <3>1, <3>2 DEF AsForm
    <3>. QED
      BY <3>2, <3>3
  <2>. QED
    BY <1>2, <2>1, <2>2, <2>3
<1>5. ASSUME NEW m, NEW n \in p..r.next - 1, m = Place(b, n), AsForm(r, n, forms)
      PROVE  \E k \in DOMAIN new : new[k].form \in forms /\ Has(new[k].ids, m)
  <2>1. PICK x \in Rest(r) : r.at[x] = n /\ Carries(r.pieces[x]) /\ r.pieces[x].form \in forms
    BY <1>5 DEF AsForm
  <2>2. Has(r.pieces[x].ids, m)
    BY <1>3, <1>5, <2>1 DEF ShowsItsLine
  <2>. QED
    BY <1>2, <2>1, <2>2
<1>6. \A m : (\E k \in DOMAIN page : page[k].form \in forms /\ Has(page[k].ids, m)) =>
             (\E k \in DOMAIN new : new[k].form \in forms /\ Has(new[k].ids, m))
  BY <1>2
<1>. QED
  BY <1>4, <1>5, <1>6 DEF new, ShownAs, ComesAs

Comes(p, b, r, m) == \E n \in p..r.next - 1 : m = Place(b, n) /\ Taken(r, p, n)

LEMMA ShownMoves ==
    ASSUME NEW d, NEW lines, NEW b, NEW s, NEW ls, NEW p, NEW r, OwnStep(d, lines, b, s, ls, p, r),
           NEW page \in Seq(Text!Emitted), Ordered(page, ls, b + p)
    PROVE  \A m : Shown(page \o r.pieces, r.para, m) <=> Shown(page, ls, m) \/ Comes(p, b, r, m)
<1>. DEFINE new == page \o r.pieces
            all == All(ls, lines, p, r)
            forms == Forms \ {"omitted"}
            plain == Forms \ {"omitted", "para"}
<1>0. /\ p \in Nat /\ r.next \in Nat /\ r.own \in BOOLEAN /\ (r.own => p < r.next) /\ r.head \in {0, 1}
      /\ r.pieces \in Seq(Text!Emitted)
  BY OwnStepFacts
<1>1. Reads(ls, lines, p, r)
  BY DEF OwnStep
<1>2. /\ Len(page) \in Nat
      /\ \A k \in DOMAIN new :
             \/ k \in DOMAIN page /\ new[k] = page[k]
             \/ k = Len(page) + 1 /\ r.head = 1 /\ IsParagraph(new[k], all)
             \/ k - Len(page) \in Rest(r) /\ k > Len(page) /\ new[k] = r.pieces[k - Len(page)]
      /\ \A k \in DOMAIN page : k \in DOMAIN new /\ new[k] = page[k]
      /\ r.head = 1 => /\ Len(page) + 1 \in DOMAIN new
                       /\ IsParagraph(new[Len(page) + 1], all)
  BY <1>1, PiecesAfter
<1>3. \A m : Has(LineIds(all), m) <=> Has(LineIds(ls), m) \/ (r.own /\ m = b + p)
  BY ParagraphAfter
<1>4. /\ r.head = 1 => r.para = <<>>
      /\ r.head = 0 => r.para = all
  BY <1>1 DEF Reads
<1>5. /\ \A k \in DOMAIN page : page[k].form \in Forms
      /\ \A k \in Rest(r) : r.pieces[k].form \in Forms \ {"para"}
  <2>1. \A x \in Text!Emitted : x.form \in Forms
    BY DEF Text!Emitted, Forms
  <2>2. \A k \in DOMAIN page : page[k] \in Text!Emitted
    BY LenProperties, ElementOfSeq
  <2>3. \A k \in Rest(r) : k \in 1..Len(r.pieces) /\ r.pieces[k].form # "para"
    <3>1. \A k \in Rest(r) : k \in 1..Len(r.pieces)
      BY <1>1, PiecesAfter
    <3>. QED
      BY <1>1, <3>1 DEF Reads
  <2>4. \A k \in 1..Len(r.pieces) : r.pieces[k] \in Text!Emitted
    BY <1>0, ElementOfSeq
  <2>. QED
    BY <2>1, <2>2, <2>3, <2>4
<1>6. \A m : ShownAs(new, plain, m) <=> ShownAs(page, plain, m) \/ ComesAs(p, b, r, plain, m)
  <2>1. "para" \notin plain
    OBVIOUS
  <2>. HIDE DEF plain
  <2>. QED
    BY <1>0, <2>1, FormsMove
<1>7. \A n : AsForm(r, n, plain) <=> AsForm(r, n, forms)
  BY <1>5 DEF AsForm
<1>8. \A n : Taken(r, p, n) <=> (r.own /\ n = p) \/ AsForm(r, n, plain)
  BY <1>7 DEF Taken
<1>9. r.own => p \in p..r.next - 1
  BY <1>0
<1>10. "para" \in forms /\ "para" # "omitted"
  BY DEF Forms
<1>11. \A x : x \in plain <=> x \in Forms /\ x # "omitted" /\ x # "para"
  OBVIOUS
<1>. HIDE DEF new, all, forms, plain
<1>12. ASSUME NEW m, Shown(new, r.para, m)
       PROVE  \/ Shown(page, ls, m)
              \/ \E n \in p..r.next - 1 : m = Place(b, n) /\ Taken(r, p, n)
  <2>1. ASSUME Has(LineIds(all), m)
        PROVE  \/ Shown(page, ls, m)
               \/ \E n \in p..r.next - 1 : m = Place(b, n) /\ Taken(r, p, n)
    BY <1>3, <1>8, <1>9, <2>1 DEF Shown, Place
  <2>2. ASSUME NEW k \in DOMAIN new, new[k].form # "omitted", Has(new[k].ids, m)
        PROVE  \/ Shown(page, ls, m)
               \/ \E n \in p..r.next - 1 : m = Place(b, n) /\ Taken(r, p, n)
    <3>1. CASE k \in DOMAIN page /\ new[k] = page[k]
      BY <2>2, <3>1 DEF Shown
    <3>2. CASE IsParagraph(new[k], all)
      BY <2>1, <2>2, <3>2 DEF IsParagraph
    <3>3. CASE k - Len(page) \in Rest(r) /\ new[k] = r.pieces[k - Len(page)]
      <4>1. new[k].form \in plain
        BY <1>5, <1>11, <2>2, <3>3
      <4>2. \/ \E x \in DOMAIN page : page[x].form \in plain /\ Has(page[x].ids, m)
            \/ \E n \in p..r.next - 1 : m = Place(b, n) /\ AsForm(r, n, plain)
        BY <1>6, <2>2, <4>1 DEF ShownAs, ComesAs
      <4>. QED
        BY <1>8, <1>11, <4>2 DEF Shown
    <3>. QED
      BY <1>2, <3>1, <3>2, <3>3
  <2>3. CASE Has(LineIds(r.para), m)
    <3>1. r.para = all \/ r.para = <<>>
      BY <1>0, <1>4
    <3>2. Has(LineIds(all), m)
      BY <2>3, <3>1, EmptyIds
    <3>. QED
      BY <2>1, <3>2
  <2>. QED
    BY <1>12, <2>2, <2>3 DEF Shown
<1>13. ASSUME NEW m, Has(LineIds(all), m)
       PROVE  Shown(new, r.para, m)
  <2>1. CASE r.head = 0
    BY <1>4, <1>13, <2>1 DEF Shown
  <2>2. CASE r.head = 1
    <3>1. Len(page) + 1 \in DOMAIN new /\ IsParagraph(new[Len(page) + 1], all)
      BY <1>2, <2>2
    <3>2. new[Len(page) + 1].form # "omitted" /\ Has(new[Len(page) + 1].ids, m)
      BY <1>10, <1>13, <3>1 DEF IsParagraph
    <3>. QED
      BY <3>1, <3>2 DEF Shown
  <2>. QED
    BY <1>0, <2>1, <2>2
<1>14. ASSUME NEW m, Shown(page, ls, m)
       PROVE  Shown(new, r.para, m)
  <2>1. CASE Has(LineIds(ls), m)
    BY <1>3, <1>13, <2>1
  <2>2. CASE \E k \in DOMAIN page : page[k].form # "omitted" /\ Has(page[k].ids, m)
    BY <1>2, <2>2 DEF Shown
  <2>. QED
    BY <1>14, <2>1, <2>2 DEF Shown
<1>15. ASSUME NEW m, NEW n \in p..r.next - 1, m = Place(b, n), Taken(r, p, n)
       PROVE  Shown(new, r.para, m)
  <2>1. CASE r.own /\ n = p
    BY <1>3, <1>13, <1>15, <2>1 DEF Place
  <2>2. CASE AsForm(r, n, plain)
    <3>1. PICK k \in DOMAIN new : new[k].form \in plain /\ Has(new[k].ids, m)
      BY <1>6, <1>15, <2>2 DEF ShownAs, ComesAs
    <3>. QED
      BY <1>11, <3>1 DEF Shown
  <2>. QED
    BY <1>8, <1>15, <2>1, <2>2
<1>16. \A m : Shown(new, r.para, m)
              <=> \/ Shown(page, ls, m)
                  \/ \E n \in p..r.next - 1 : m = Place(b, n) /\ Taken(r, p, n)
  BY <1>12, <1>14, <1>15
<1>. QED
  BY <1>16 DEF new, Comes

-----------------------------------------------------------------------------
(* Nothing is lost from one line of the document to a later one.            *)

ShowsAll(d, page, ls, p, q) ==
    \A m \in p..q - 1 :
        Text!Prose(d[m]) \/ d[m].kind \in {"toctree", "comment", "include"} => Shown(page, ls, m)
Sweeps(d, page, ls, p, q) ==
    /\ p < q /\ d[p].kind \in {"toctree", "comment", "include"} /\ Passed(d, p, q)
    /\ \A m \in p + 1..q - 1 : Text!Blank(d[m]) \/ d[m].indent > d[p].indent
    /\ \A m \in p..q - 1 : ~Shown(page, ls, m)
Longer(page, ls, p, new, left, q) ==
    \A m : /\ Shown(page, ls, m) => m \in 1..p - 1 /\ Shown(new, left, m)
           /\ Shown(new, left, m) => Shown(page, ls, m) \/ m \in p..q - 1

LEMMA KeptLonger ==
    ASSUME NEW d \in Seq(Text!Line), Text!Even(d), NEW p \in Nat \ {0}, NEW q \in Nat, p <= q, q <= Len(d) + 1,
           NEW page, NEW ls, NEW new, NEW left,
           Kept(d, page, ls, p), Longer(page, ls, p, new, left, q),
           ShowsAll(d, new, left, p, q) \/ Sweeps(d, new, left, p, q)
    PROVE  Kept(d, new, left, q)
<1>0. Len(d) \in Nat /\ \A n \in 1..Len(d) : d[n].indent \in Nat
  BY LineFacts
<1>1. \A m : /\ Shown(page, ls, m) => m \in 1..p - 1 /\ Shown(new, left, m)
             /\ Shown(new, left, m) => Shown(page, ls, m) \/ m \in p..q - 1
  BY DEF Longer
<1>2. \A m \in 1..p - 1 : m \notin p..q - 1
  OBVIOUS
<1>3. \A m \in 1..p - 1 : Shown(new, left, m) <=> Shown(page, ls, m)
  BY <1>1, <1>2
<1>4. \A h \in 1..p - 1 : Drops(d, new, left, h) <=> Drops(d, page, ls, h)
  BY <1>3 DEF Drops
<1>5. \A k \in 1..p - 1 : Text!Prose(d[k]) =>
          (Shown(new, left, k) <=> \A h \in 1..k - 1 : Drops(d, new, left, h) => ~Under(d, h, k))
  <2>. SUFFICES ASSUME NEW k \in 1..p - 1, Text!Prose(d[k])
                PROVE  Shown(new, left, k)
                       <=> \A h \in 1..k - 1 : Drops(d, new, left, h) => ~Under(d, h, k)
    OBVIOUS
  <2>1. \A h \in 1..k - 1 : h \in 1..p - 1
    OBVIOUS
  <2>2. Shown(page, ls, k) <=> \A h \in 1..k - 1 : Drops(d, page, ls, h) => ~Under(d, h, k)
    BY DEF Kept
  <2>. QED
    BY <1>3, <1>4, <2>1, <2>2
<1>6. \A h \in 1..p - 1 : Drops(d, new, left, h) =>
          \A k \in p..Len(d) : Text!Blank(d[k]) \/ ~Under(d, h, k)
  BY <1>4 DEF Kept, Passed
<1>7. \A h \in 1..p - 1 : Drops(d, new, left, h) => Passed(d, h, q)
  <2>1. \A k \in q..Len(d) : k \in p..Len(d)
    BY <1>0
  <2>. QED
    BY <1>6, <2>1 DEF Passed
<1>8. \A h \in 1..q - 1 : h \in 1..p - 1 \/ h \in p..q - 1
  OBVIOUS
<1>9. \A k \in p..q - 1 : k \in p..Len(d) /\ k \in 1..Len(d) /\ k \in Nat
  BY <1>0
<1>10. \A k : Text!Prose(d[k]) => ~Text!Blank(d[k]) /\ d[k].kind \notin {"toctree", "comment", "include"}
  BY DEF Text!Prose, Text!Blank
<1>11. CASE ShowsAll(d, new, left, p, q)
  <2>1. \A h \in p..q - 1 : ~Drops(d, new, left, h)
    BY <1>11 DEF ShowsAll, Drops
  <2>2. ASSUME NEW k \in p..q - 1, Text!Prose(d[k])
        PROVE  /\ Shown(new, left, k)
               /\ \A h \in 1..k - 1 : Drops(d, new, left, h) => ~Under(d, h, k)
    <3>1. Shown(new, left, k)
      BY <1>11, <2>2 DEF ShowsAll
    <3>2. \A h \in 1..k - 1 : h \in 1..p - 1 \/ h \in p..q - 1
      OBVIOUS
    <3>3. k \in p..Len(d) /\ ~Text!Blank(d[k])
      BY <1>9, <1>10, <2>2
    <3>. QED
      BY <1>6, <2>1, <3>1, <3>2, <3>3
  <2>. QED
    BY <1>5, <1>7, <1>8, <2>1, <2>2 DEF Kept
<1>12. CASE Sweeps(d, new, left, p, q)
  <2>1. /\ p < q /\ d[p].kind \in {"toctree", "comment", "include"} /\ Passed(d, p, q)
        /\ \A m \in p + 1..q - 1 : Text!Blank(d[m]) \/ d[m].indent > d[p].indent
        /\ \A m \in p..q - 1 : ~Shown(new, left, m)
    BY <1>12 DEF Sweeps
  <2>2. p \in p..q - 1
    BY <2>1
  <2>3. Drops(d, new, left, p) /\ ~Text!Blank(d[p])
    BY <2>1, <2>2 DEF Drops, Text!Blank
  <2>4. ASSUME NEW k \in p..q - 1, Text!Prose(d[k])
        PROVE  /\ ~Shown(new, left, k)
               /\ \E h \in 1..k - 1 : Drops(d, new, left, h) /\ Under(d, h, k)
    <3>1. k # p
      BY <1>10, <2>1, <2>4
    <3>2. p \in 1..k - 1 /\ \A n \in p + 1..k : n \in p + 1..q - 1
      BY <3>1
    <3>3. Under(d, p, k)
      BY <2>1, <2>3, <3>2 DEF Under
    <3>. QED
      BY <2>1, <2>3, <3>2, <3>3
  <2>5. ASSUME NEW h \in p..q - 1, Drops(d, new, left, h)
        PROVE  Passed(d, h, q)
    <3>1. CASE h = p
      BY <2>1, <3>1
    <3>2. CASE h # p
      <4>1. SUFFICES ASSUME NEW k \in q..Len(d), Under(d, h, k), ~Text!Blank(d[k])
                     PROVE  FALSE
        BY DEF Passed
      <4>2. ~Text!Blank(d[h]) /\ d[h].indent > d[p].indent
        <5>1. h \in p + 1..q - 1
          BY <3>2
        <5>. QED
          BY <2>1, <2>5, <5>1 DEF Drops, Text!Blank
      <4>3. \A n \in p + 1..k : n \in p + 1..q - 1 \/ n \in h + 1..k
        <5>1. k \in Nat
          BY <1>0
        <5>. QED
          BY <5>1
      <4>4. \A n \in h + 1..k : Text!Blank(d[n]) \/ d[n].indent > d[h].indent
        BY <4>1 DEF Under
      <4>5. d[h].indent \in Nat /\ d[p].indent \in Nat
            /\ \A n \in h + 1..k : d[n].indent \in Nat
        <5>1. h \in 1..Len(d) /\ p \in 1..Len(d)
          BY <1>9, <2>2
        <5>2. \A n \in h + 1..k : n \in 1..Len(d)
          BY <1>0, <1>9
        <5>. QED
          BY <1>0, <5>1, <5>2
      <4>6. \A n \in h + 1..k : Text!Blank(d[n]) \/ d[n].indent > d[p].indent
        BY <4>2, <4>4, <4>5
      <4>7. p < k
        BY <1>0, <2>1
      <4>8. Under(d, p, k)
        BY <2>1, <2>3, <4>3, <4>6, <4>7 DEF Under
      <4>. QED
        BY <2>1, <4>1, <4>8 DEF Passed
    <3>. QED
      BY <3>1, <3>2
  <2>. QED
    BY <1>5, <1>7, <1>8, <2>4, <2>5 DEF Kept
<1>. QED
  BY <1>11, <1>12

(* The lines that a step takes, in the document. *)
LEMMA StepGrows ==
    ASSUME NEW d, NEW lines, NEW b, NEW s, NEW ls, NEW p, NEW r, OwnStep(d, lines, b, s, ls, p, r),
           NEW page \in Seq(Text!Emitted), Ordered(page, ls, b + p)
    PROVE  Longer(page, ls, b + p, page \o r.pieces, r.para, b + r.next)
<1>1. b \in Nat /\ p \in Nat \ {0} /\ r.next \in Nat /\ p <= r.next
  BY OwnStepFacts
<1>2. \A m : Comes(p, b, r, m) => m \in b + p..b + r.next - 1
  BY <1>1 DEF Comes, Place
<1>3. \A m : Shown(page, ls, m) => m \in 1..b + p - 1
  <2>. SUFFICES ASSUME NEW m, Shown(page, ls, m)
                PROVE  m \in 1..b + p - 1
    OBVIOUS
  <2>1. CASE Has(LineIds(ls), m)
    BY <1>1, <2>1, HasNumber DEF Ordered
  <2>2. CASE \E k \in DOMAIN page : Has(page[k].ids, m)
    <3>1. PICK k \in DOMAIN page : Has(page[k].ids, m)
      BY <2>2
    <3>2. Within(page[k].ids, 1, b + p - 1)
      BY <1>1 DEF Ordered
    <3>. QED
      BY <3>1, <3>2, HasNumber
  <2>. QED
    BY <2>1, <2>2 DEF Shown
<1>4. \A m : Shown(page \o r.pieces, r.para, m) <=> Shown(page, ls, m) \/ Comes(p, b, r, m)
  BY ShownMoves
<1>. QED
  BY <1>1, <1>2, <1>3, <1>4 DEF Longer

LEMMA StepShows ==
    ASSUME NEW d, Text!Even(d), NEW lines, NEW b, NEW s, NEW ls, NEW p, NEW r, OwnStep(d, lines, b, s, ls, p, r),
           NEW page \in Seq(Text!Emitted), Ordered(page, ls, b + p),
           \A n \in p..r.next - 1 :
               \/ lines[n].kind \in {"blank", "option", "rule", "note", "tab", "only", "code"}
               \/ Taken(r, p, n)
    PROVE  ShowsAll(d, page \o r.pieces, r.para, b + p, b + r.next)
<1>1. b \in Nat /\ p \in Nat \ {0} /\ r.next \in Nat /\ p <= r.next /\ s \in Nat
      /\ d \in Seq(Text!Line)
  BY OwnStepFacts DEF OwnStep
<1>2. \A m : Shown(page \o r.pieces, r.para, m) <=> Shown(page, ls, m) \/ Comes(p, b, r, m)
  BY ShownMoves
<1>. SUFFICES ASSUME NEW m \in b + p..b + r.next - 1,
                     Text!Prose(d[m]) \/ d[m].kind \in {"toctree", "comment", "include"}
              PROVE  Comes(p, b, r, m)
  BY <1>1, <1>2 DEF ShowsAll
<1>3. PICK n : n = m - b
  OBVIOUS
<1>4. n \in p..r.next - 1 /\ m = b + n
  BY <1>1, <1>3
<1>5. IsLine(d, lines[n], m, s) /\ lines[n] \in Text!Line /\ m \in 1..Len(d)
  BY <1>4, OwnStepFacts
<1>6. d[m].indent \in Nat
  BY <1>1, <1>5, LineFacts
<1>7. /\ d[m].kind \in {"text", "bullet", "intro", "toctree", "comment", "include"}
      /\ ~Text!Blank(d[m])
  BY DEF Text!Prose, Text!Blank
<1>8. lines[n].kind \notin {"blank", "option", "rule", "note", "tab", "only", "code"}
  <2>1. ~Text!Blank(lines[n]) /\ lines[n].kind = d[m].kind
    BY <1>1, <1>5, <1>6, <1>7, LineTells
  <2>. QED
    BY <1>7, <2>1
<1>9. Taken(r, p, n)
  BY <1>4, <1>8
<1>. QED
  BY <1>4, <1>9 DEF Comes, Place

LEMMA StepSweeps ==
    ASSUME NEW d, Text!Even(d), NEW lines, NEW b, NEW s, NEW ls, NEW p, NEW r, OwnStep(d, lines, b, s, ls, p, r),
           NEW page \in Seq(Text!Emitted), Ordered(page, ls, b + p), Swept(lines, p, r)
    PROVE  Sweeps(d, page \o r.pieces, r.para, b + p, b + r.next)
<1>1. b \in Nat /\ p \in Nat \ {0} /\ r.next \in Nat /\ p <= r.next /\ s \in Nat
      /\ d \in Seq(Text!Line) /\ r.next <= Len(lines) + 1 /\ Len(lines) \in Nat
      /\ lines \in Seq(Text!Line) /\ IsBlock(d, lines, b, s)
  BY OwnStepFacts DEF OwnStep
<1>2. /\ p < r.next /\ lines[p].kind \in {"toctree", "comment", "include"}
      /\ \A n \in p + 1..r.next - 1 : Text!Blank(lines[n]) \/ lines[n].indent > lines[p].indent
      /\ Stops(lines, r.next, lines[p].indent)
      /\ \A n \in p..r.next - 1 : ~Taken(r, p, n)
  BY DEF Swept
<1>3. p \in p..r.next - 1
  BY <1>1, <1>2
<1>4. \A n \in p..r.next - 1 :
          /\ IsLine(d, lines[n], b + n, s) /\ lines[n] \in Text!Line /\ b + n \in 1..Len(d)
          /\ d[b + n].indent \in Nat /\ lines[n].indent \in Nat
  <2>1. \A n \in p..r.next - 1 :
          IsLine(d, lines[n], b + n, s) /\ lines[n] \in Text!Line /\ b + n \in 1..Len(d)
    BY OwnStepFacts
  <2>2. \A k \in 1..Len(d) : d[k].indent \in Nat
    BY <1>1, LineFacts
  <2>3. \A l \in Text!Line : l.indent \in Nat
    BY DEF Text!Line
  <2>. QED
    BY <2>1, <2>2, <2>3
<1>5. PICK q : q = b + p
  OBVIOUS
<1>6. IsLine(d, lines[p], q, s) /\ d[q].indent \in Nat /\ lines[p] \in Text!Line
      /\ lines[p].indent \in Nat
  BY <1>3, <1>4, <1>5
<1>7. d[q].indent = lines[p].indent + s /\ d[q].kind = lines[p].kind /\ ~Text!Blank(d[q])
      /\ ~Text!Blank(lines[p])
  <2>1. ~Text!Blank(lines[p]) /\ lines[p].kind \notin {"text", "intro", "rule"}
    BY <1>2 DEF Text!Blank
  <2>. QED
    BY <1>1, <1>6, <2>1, LineTells
<1>8. Passed(d, b + p, b + r.next)
  <2>2. p \in 1..Len(lines) /\ r.next \in p + 1..Len(lines) + 1
    BY <1>1, <1>2
  <2>. QED
    BY <1>1, <1>2, <1>7, <2>2, PassedBy
<1>9. ASSUME NEW m \in b + p + 1..b + r.next - 1, ~Text!Blank(d[m])
      PROVE  d[m].indent > d[q].indent
  <2>1. PICK n : n = m - b
    OBVIOUS
  <2>2. n \in p + 1..r.next - 1 /\ m = b + n /\ n \in p..r.next - 1
    BY <1>1, <2>1
  <2>3. IsLine(d, lines[n], m, s) /\ d[m].indent \in Nat /\ lines[n] \in Text!Line
        /\ lines[n].indent \in Nat
    BY <1>4, <2>2
  <2>4. ~Text!Blank(lines[n])
    BY <1>1, <1>9, <2>3, LineTells
  <2>5. lines[n].indent > lines[p].indent
    BY <1>2, <2>2, <2>4
  <2>7. d[m].indent = lines[n].indent + s
    BY <1>1, <2>3, <2>4, LineTells
  <2>. QED
    <3>1. s \in Nat /\ lines[p].indent \in Nat /\ d[q].indent = lines[p].indent + s
      BY <1>1, <1>6, <1>7
    <3>. QED
      BY <2>3, <2>5, <2>7, <3>1
<1>10. ASSUME NEW m \in b + p..b + r.next - 1
       PROVE  ~Shown(page \o r.pieces, r.para, m)
  <2>1. \A x : Shown(page \o r.pieces, r.para, x) <=> Shown(page, ls, x) \/ Comes(p, b, r, x)
    BY ShownMoves
  <2>2. Longer(page, ls, b + p, page \o r.pieces, r.para, b + r.next)
    BY StepGrows
  <2>3. m \notin 1..b + p - 1
    BY <1>1
  <2>4. ~Shown(page, ls, m)
    BY <1>1, <2>2, <2>3 DEF Longer
  <2>5. ~Comes(p, b, r, m)
    BY <1>2 DEF Comes
  <2>. QED
    BY <2>1, <2>4, <2>5
<1>11. b + p < b + r.next
  BY <1>1, <1>2
<1>12. d[b + p].kind \in {"toctree", "comment", "include"}
  BY <1>2, <1>5, <1>7
<1>13. \A m \in b + p + 1..b + r.next - 1 : Text!Blank(d[m]) \/ d[m].indent > d[b + p].indent
  BY <1>5, <1>9
<1>14. PICK t : t = b + r.next
  OBVIOUS
<1>15. q < t /\ d[q].kind \in {"toctree", "comment", "include"} /\ Passed(d, q, t)
  BY <1>5, <1>8, <1>11, <1>12, <1>14
<1>16. \A m \in q + 1..t - 1 : Text!Blank(d[m]) \/ d[m].indent > d[q].indent
  BY <1>1, <1>5, <1>13, <1>14
<1>17. \A m \in q..t - 1 : ~Shown(page \o r.pieces, r.para, m)
  BY <1>1, <1>5, <1>10, <1>14
<1>18. Sweeps(d, page \o r.pieces, r.para, q, t)
  BY <1>15, <1>16, <1>17 DEF Sweeps
<1>. QED
  BY <1>5, <1>14, <1>18

LEMMA KeptMoves ==
    ASSUME NEW d, NEW lines, NEW b, NEW s, NEW ls, NEW p, NEW r, OwnStep(d, lines, b, s, ls, p, r),
           Passes(lines, p, r), NEW page \in Seq(Text!Emitted), Ordered(page, ls, b + p),
           Kept(d, page, ls, b + p)
    PROVE  Kept(d, page \o r.pieces, r.para, b + r.next)
<1>. SUFFICES ASSUME Text!Even(d)
              PROVE  Kept(d, page \o r.pieces, r.para, b + r.next)
  BY DEF Kept
<1>1. d \in Seq(Text!Line) /\ IsBlock(d, lines, b, s) /\ b \in Nat /\ p \in Nat \ {0}
      /\ r.next \in Nat /\ p <= r.next /\ r.next <= Len(lines) + 1 /\ Len(lines) \in Nat
  BY OwnStepFacts DEF OwnStep
<1>2. b + Len(lines) <= Len(d) /\ Len(d) \in Nat
  BY <1>1, LineFacts DEF IsBlock
<1>3. b + p \in Nat \ {0} /\ b + r.next \in Nat /\ b + p <= b + r.next /\ b + r.next <= Len(d) + 1
  BY <1>1, <1>2
<1>4. \/ ShowsAll(d, page \o r.pieces, r.para, b + p, b + r.next)
      \/ Sweeps(d, page \o r.pieces, r.para, b + p, b + r.next)
  BY StepShows, StepSweeps DEF Passes
<1>. QED
  BY <1>1, <1>3, <1>4, StepGrows, KeptLonger

-----------------------------------------------------------------------------
(* The steps of a call, as they are put together.                           *)

(* A line opens a block if it is a directive that is not a title, or a term. *)
Opening(lines, r, n) ==
    \/ lines[n].kind \in Text!Directive /\ ~AsForm(r, n, {"title"})
    \/ AsForm(r, n, {"term"})

(* What a step reads is over where it ends, but for the block it opens. *)
Closes(lines, p, r, open) ==
    \A n \in p..r.next - 1 : Opening(lines, r, n) =>
        Stops(lines, r.next, lines[n].indent) \/ (open /\ n = p)

(* Before it there are the options of a directive, if it is one, and blank
   lines. *)
OptionsFirst(lines, p, first) ==
    \E last \in p..first - 1 :
        /\ \A n \in p + 1..last : lines[n].kind = "option"
        /\ \A n \in last + 1..first - 1 : Text!Blank(lines[n])
        /\ last = p \/ lines[p].kind \in Text!Directive

(* The block from first on is below line p. *)
BlockBelow(lines, p, first, end) ==
    /\ first \in p + 1..Len(lines) /\ end \in first + 1..Len(lines) + 1
    /\ lines[p].kind \notin {"blank", "option"}
    /\ ~Text!Blank(lines[first]) /\ lines[first].indent > lines[p].indent
    /\ \A n \in p + 1..first - 1 : lines[n].kind \in {"blank", "option"}
    /\ \A n \in first..end - 1 : Text!Blank(lines[n]) \/ lines[n].indent > lines[p].indent
    /\ Stops(lines, end, lines[p].indent)
    /\ OptionsFirst(lines, p, first)

(* Lines that are shown as they are, their block being too deep. *)
Flats(lines, p, r) ==
    \A k \in Rest(r) : r.pieces[k].form = "flat" => \E first, end :
        /\ BlockBelow(lines, p, first, end) /\ r.at[k] \in first..end - 1
        /\ r.pieces[k].cut => Text!Dedent(lines[r.at[k]], lines[first].indent).cut > 0

Wide(r, w) == \A k \in 1..Len(r.pieces) : r.pieces[k].width = w

Steps(ls, lines, p, w, r, open) ==
    /\ Reads(ls, lines, p, r) /\ Passes(lines, p, r) /\ Closes(lines, p, r, open)
    /\ Flats(lines, p, r) /\ Wide(r, w)

(* A step from the paragraph's piece, if it is emitted, and the others. *)
Step(ls, lines, p, next, own, heads, rest, pos) ==
    [next |-> next, own |-> own, head |-> Len(heads), pieces |-> heads \o rest,
     at |-> [k \in 1..Len(heads) + Len(rest) |-> pos[k - Len(heads)]],
     para |-> IF Len(heads) = 1 THEN <<>> ELSE IF own THEN Append(ls, lines[p]) ELSE ls]

Headed(ls, heads, rest) ==
    \/ heads = <<>> /\ (ls = <<>> \/ rest = <<>>)
    \/ Len(heads) = 1 /\ IsParagraph(heads[1], ls)

Placed(lines, p, next, own, rest, pos) ==
    /\ \A k \in 1..Len(rest) :
           /\ pos[k] \in p..next - 1 /\ (own => p < pos[k])
           /\ OfLine(rest[k], lines[pos[k]]) /\ rest[k].form # "para"
           /\ rest[k].form \in {"item", "term"} => pos[k] = p /\ rest[k].pad = <<>>
    /\ \A j, k \in 1..Len(rest) : j < k => pos[j] < pos[k]

Appears(rest, pos, n, forms) ==
    \E k \in 1..Len(rest) : pos[k] = n /\ Carries(rest[k]) /\ rest[k].form \in forms

(* What such a step consists of. *)
StepHead(r, ls, lines, p, next, own, heads, rest) ==
    /\ r.next = next /\ r.own = own /\ r.head = Len(heads) /\ r.pieces = heads \o rest
    /\ r.pieces \in Seq(Text!Emitted)
    /\ r.para = (IF Len(heads) = 1 THEN <<>> ELSE IF own THEN Append(ls, lines[p]) ELSE ls)
StepRest(r, c, rest, pos) ==
    /\ Rest(r) = c + 1..c + Len(rest) /\ Len(rest) \in Nat /\ c \in Nat
    /\ \A k \in Rest(r) : k - c \in 1..Len(rest) /\ k \in Nat
                          /\ r.at[k] = pos[k - c] /\ r.pieces[k] = rest[k - c]
    /\ \A k \in 1..Len(rest) : k + c \in Rest(r) /\ r.at[k + c] = pos[k] /\ r.pieces[k + c] = rest[k]

LEMMA StepIs ==
    ASSUME NEW ls, NEW lines, NEW p, NEW next, NEW own,
           NEW heads \in Seq(Text!Emitted), NEW rest \in Seq(Text!Emitted), NEW pos,
           Len(heads) \in {0, 1},
           NEW r, r = Step(ls, lines, p, next, own, heads, rest, pos)
    PROVE  /\ StepHead(r, ls, lines, p, next, own, heads, rest)
           /\ StepRest(r, Len(heads), rest, pos)
<1>1. /\ r.next = next /\ r.own = own /\ r.head = Len(heads) /\ r.pieces = heads \o rest
      /\ r.para = (IF Len(heads) = 1 THEN <<>> ELSE IF own THEN Append(ls, lines[p]) ELSE ls)
      /\ \A k \in 1..Len(heads) + Len(rest) : r.at[k] = pos[k - Len(heads)]
  BY DEF Step
<1>2. PICK c, n : c = Len(heads) /\ n = Len(rest)
  OBVIOUS
<1>3. /\ c \in {0, 1} /\ n \in Nat /\ r.pieces \in Seq(Text!Emitted)
      /\ Len(r.pieces) = c + n
      /\ \A k \in 1..n : r.pieces[c + k] = rest[k]
      /\ \A k \in 1..c + n : k > c => k - c \in 1..n /\ r.pieces[k] = rest[k - c]
  BY <1>1, <1>2, Concatenated
<1>4. Rest(r) = c + 1..c + n
  BY <1>1, <1>2, <1>3 DEF Rest
<1>5. ASSUME NEW k \in Rest(r)
      PROVE  k - c \in 1..n /\ k \in Nat /\ r.at[k] = pos[k - c] /\ r.pieces[k] = rest[k - c]
  <2>1. k \in 1..c + n /\ k > c /\ k \in Nat
    BY <1>3, <1>4
  <2>. QED
    BY <1>1, <1>2, <1>3, <2>1
<1>6. ASSUME NEW k \in 1..n
      PROVE  k + c \in Rest(r) /\ r.at[k + c] = pos[k] /\ r.pieces[k + c] = rest[k]
  <2>1. PICK x : x = k + c
    OBVIOUS
  <2>2. x \in c + 1..c + n /\ x - c = k
    BY <1>3, <2>1
  <2>3. x \in Rest(r)
    BY <1>4, <2>2
  <2>4. r.at[x] = pos[x - c] /\ r.pieces[x] = rest[x - c]
    BY <1>5, <2>3
  <2>. QED
    BY <2>1, <2>2, <2>3, <2>4
<1>7. StepHead(r, ls, lines, p, next, own, heads, rest)
  BY <1>1, <1>3 DEF StepHead
<1>8. StepRest(r, c, rest, pos)
  BY <1>2, <1>3, <1>4, <1>5, <1>6 DEF StepRest
<1>. QED
  BY <1>2, <1>7, <1>8

StepOf(r, ls, lines, p, next, own, heads, rest, pos) ==
    /\ r.next = next /\ r.own = own /\ r.pieces = heads \o rest
    /\ r.para = (IF Len(heads) = 1 THEN <<>> ELSE IF own THEN Append(ls, lines[p]) ELSE ls)
    /\ \A n, forms : AsForm(r, n, forms) <=> Appears(rest, pos, n, forms)

LEMMA StepReads ==
    ASSUME NEW ls, NEW lines, NEW p \in Nat, NEW next, NEW own \in BOOLEAN,
           Len(lines) \in Nat, next \in p..Len(lines) + 1, own => p < next,
           NEW heads \in Seq(Text!Emitted), NEW rest \in Seq(Text!Emitted), NEW pos,
           Headed(IF own THEN Append(ls, lines[p]) ELSE ls, heads, rest),
           Placed(lines, p, next, own, rest, pos),
           NEW r, r = Step(ls, lines, p, next, own, heads, rest, pos)
    PROVE  Reads(ls, lines, p, r) /\ StepOf(r, ls, lines, p, next, own, heads, rest, pos)
<1>. DEFINE all == IF own THEN Append(ls, lines[p]) ELSE ls
            c == Len(heads)
<1>0. /\ Len(heads) \in {0, 1}
      /\ c = 0 => heads = <<>> /\ (all = <<>> \/ rest = <<>>)
      /\ c = 1 => IsParagraph(heads[1], all)
  <2>1. Len(<<>>) = 0
    OBVIOUS
  <2>. QED
    BY <2>1 DEF Headed
<1>1. /\ r.next = next /\ r.own = own /\ r.head = c /\ r.pieces = heads \o rest
      /\ r.pieces \in Seq(Text!Emitted)
      /\ r.para = (IF c = 1 THEN <<>> ELSE all)
  <2>1. StepHead(r, ls, lines, p, next, own, heads, rest)
    BY <1>0, StepIs
  <2>. QED
    BY <2>1 DEF StepHead
<1>2. /\ Rest(r) = c + 1..c + Len(rest) /\ Len(rest) \in Nat /\ c \in Nat
      /\ \A k \in Rest(r) : /\ k - c \in 1..Len(rest) /\ k \in Nat
                            /\ r.at[k] = pos[k - c] /\ r.pieces[k] = rest[k - c]
      /\ \A k \in 1..Len(rest) : k + c \in Rest(r) /\ r.at[k + c] = pos[k] /\ r.pieces[k + c] = rest[k]
  <2>1. StepRest(r, c, rest, pos)
    BY <1>0, StepIs
  <2>. HIDE DEF c
  <2>. QED
    BY <2>1 DEF StepRest
<1>3. All(ls, lines, p, r) = all
  BY <1>1 DEF All
<1>. HIDE DEF all, c
<1>4. c = 1 => Len(r.pieces) >= 1 /\ r.pieces[1] = heads[1]
  <2>. SUFFICES ASSUME c = 1
                PROVE  Len(r.pieces) >= 1 /\ r.pieces[1] = heads[1]
    OBVIOUS
  <2>1. Len(heads) = 1 /\ 1 \in 1..Len(heads)
    BY DEF c
  <2>2. Len(r.pieces) = Len(heads) + Len(rest) /\ r.pieces[1] = heads[1]
    <3>1. r.pieces = heads \o rest
      BY <1>1
    <3>2. Len(heads \o rest) = Len(heads) + Len(rest) /\ (heads \o rest)[1] = heads[1]
      BY <2>1, Concatenated
    <3>. QED
      BY <3>1, <3>2
  <2>. QED
    BY <1>2, <2>1, <2>2
<1>5. \A k \in 1..Len(rest) :
           /\ pos[k] \in p..next - 1 /\ (own => p < pos[k])
           /\ OfLine(rest[k], lines[pos[k]]) /\ rest[k].form # "para"
           /\ rest[k].form \in {"item", "term"} => pos[k] = p /\ rest[k].pad = <<>>
  BY DEF Placed
<1>6. \A k \in Rest(r) :
           /\ r.at[k] \in p..next - 1 /\ (own => p < r.at[k])
           /\ OfLine(r.pieces[k], lines[r.at[k]]) /\ r.pieces[k].form # "para"
           /\ r.pieces[k].form \in {"item", "term"} => r.at[k] = p /\ r.pieces[k].pad = <<>>
  <2>. TAKE k \in Rest(r)
  <2>1. PICK x \in 1..Len(rest) : r.at[k] = pos[x] /\ r.pieces[k] = rest[x]
    BY <1>2
  <2>. QED
    BY <1>5, <2>1
<1>7. ASSUME NEW j \in Rest(r), NEW k \in Rest(r), j < k
      PROVE  r.at[j] < r.at[k]
  <2>1. j - c < k - c
    BY <1>2, <1>7
  <2>2. pos[j - c] < pos[k - c]
    BY <1>2, <2>1 DEF Placed
  <2>. QED
    BY <1>2, <2>2
<1>8. rest = <<>> => (c = 0 => r.pieces = <<>>)
  <2>. SUFFICES ASSUME rest = <<>>, c = 0
                PROVE  r.pieces = <<>>
    OBVIOUS
  <2>1. heads = <<>> /\ r.pieces = heads \o rest
    BY <1>0, <1>1 DEF c
  <2>2. <<>> \o <<>> = <<>>
    OBVIOUS
  <2>. QED
    BY <2>1, <2>2
<1>9. c \in {0, 1} /\ (c = 0 => all = <<>> \/ rest = <<>>) /\ (c = 1 => IsParagraph(heads[1], all))
  BY <1>0 DEF c, all
<1>10. Reads(ls, lines, p, r)
  <2>1. r.head = 1 => /\ r.para = <<>> /\ Len(r.pieces) >= 1
                      /\ IsParagraph(r.pieces[1], All(ls, lines, p, r))
    BY <1>1, <1>3, <1>4, <1>9
  <2>2. r.head = 0 => /\ r.para = All(ls, lines, p, r)
                      /\ r.para = <<>> \/ r.pieces = <<>>
    BY <1>1, <1>3, <1>8, <1>9
  <2>3. r.next \in p..Len(lines) + 1 /\ r.head \in {0, 1} /\ r.own \in BOOLEAN
        /\ (r.own => p < r.next) /\ r.pieces \in Seq(Text!Emitted)
    BY <1>1, <1>9
  <2>. QED
    BY <1>1, <1>6, <1>7, <2>1, <2>2, <2>3 DEF Reads
<1>11. \A n, forms : AsForm(r, n, forms) <=> Appears(rest, pos, n, forms)
  <2>1. ASSUME NEW n, NEW forms, AsForm(r, n, forms)
        PROVE  Appears(rest, pos, n, forms)
    <3>1. PICK k \in Rest(r) : r.at[k] = n /\ Carries(r.pieces[k]) /\ r.pieces[k].form \in forms
      BY <2>1 DEF AsForm
    <3>. QED
      BY <1>2, <3>1 DEF Appears
  <2>2. ASSUME NEW n, NEW forms, Appears(rest, pos, n, forms)
        PROVE  AsForm(r, n, forms)
    <3>1. PICK k \in 1..Len(rest) : pos[k] = n /\ Carries(rest[k]) /\ rest[k].form \in forms
      BY <2>2 DEF Appears
    <3>. QED
      BY <1>2, <3>1 DEF AsForm
  <2>. QED
    BY <2>1, <2>2
<1>. QED
  BY <1>1, <1>10, <1>11 DEF all, c, StepOf

(* What a step with such pieces has to satisfy. *)
Takes(own, p, rest, pos, n) == (own /\ n = p) \/ Appears(rest, pos, n, Forms \ {"omitted"})
Skips(lines, p, next, own, rest, pos) ==
    \/ /\ p < next /\ lines[p].kind \in {"toctree", "comment", "include"}
       /\ \A n \in p + 1..next - 1 : Text!Blank(lines[n]) \/ lines[n].indent > lines[p].indent
       /\ Stops(lines, next, lines[p].indent)
       /\ \A n \in p..next - 1 : ~Takes(own, p, rest, pos, n)
    \/ \A n \in p..next - 1 :
           \/ lines[n].kind \in {"blank", "option", "rule", "note", "tab", "only", "code"}
           \/ Takes(own, p, rest, pos, n)
Shuts(lines, p, next, rest, pos, open) ==
    \A n \in p..next - 1 :
        \/ lines[n].kind \in Text!Directive /\ ~Appears(rest, pos, n, {"title"})
        \/ Appears(rest, pos, n, {"term"})
        => Stops(lines, next, lines[n].indent) \/ (open /\ n = p)
Deep(lines, p, rest, pos) ==
    \A k \in 1..Len(rest) : rest[k].form = "flat" => \E first, end :
        /\ BlockBelow(lines, p, first, end) /\ pos[k] \in first..end - 1
        /\ rest[k].cut => Text!Dedent(lines[pos[k]], lines[first].indent).cut > 0
AllWide(pieces, w) == \A k \in 1..Len(pieces) : pieces[k].width = w

Stepping(ls, lines, p, w, next, own, heads, rest, pos, open) ==
    /\ p \in Nat /\ Len(lines) \in Nat /\ next \in p..Len(lines) + 1
    /\ own \in BOOLEAN /\ (own => p < next)
    /\ heads \in Seq(Text!Emitted) /\ rest \in Seq(Text!Emitted)
    /\ Headed(IF own THEN Append(ls, lines[p]) ELSE ls, heads, rest)
    /\ Placed(lines, p, next, own, rest, pos)
    /\ Skips(lines, p, next, own, rest, pos) /\ Shuts(lines, p, next, rest, pos, open)
    /\ Deep(lines, p, rest, pos) /\ AllWide(heads, w) /\ AllWide(rest, w)

LEMMA SteppingSteps ==
    ASSUME NEW ls, NEW lines, NEW p, NEW w, NEW next, NEW own, NEW heads, NEW rest, NEW pos, NEW open,
           Stepping(ls, lines, p, w, next, own, heads, rest, pos, open)
    PROVE  \E r : /\ Steps(ls, lines, p, w, r, open) /\ r.next = next /\ r.pieces = heads \o rest
                  /\ r.para = (IF Len(heads) = 1 THEN <<>> ELSE IF own THEN Append(ls, lines[p]) ELSE ls)
                  /\ \A n, forms : AsForm(r, n, forms) <=> Appears(rest, pos, n, forms)
<1>1. PICK r : r = Step(ls, lines, p, next, own, heads, rest, pos)
  OBVIOUS
<1>2. /\ p \in Nat /\ Len(lines) \in Nat /\ next \in p..Len(lines) + 1
      /\ own \in BOOLEAN /\ (own => p < next)
      /\ heads \in Seq(Text!Emitted) /\ rest \in Seq(Text!Emitted)
      /\ Headed(IF own THEN Append(ls, lines[p]) ELSE ls, heads, rest)
      /\ Placed(lines, p, next, own, rest, pos)
      /\ Skips(lines, p, next, own, rest, pos) /\ Shuts(lines, p, next, rest, pos, open)
      /\ Deep(lines, p, rest, pos) /\ AllWide(heads, w) /\ AllWide(rest, w)
  BY DEF Stepping
<1>3. /\ Reads(ls, lines, p, r) /\ r.next = next /\ r.own = own
      /\ r.pieces = heads \o rest
      /\ r.para = (IF Len(heads) = 1 THEN <<>> ELSE IF own THEN Append(ls, lines[p]) ELSE ls)
      /\ \A n, forms : AsForm(r, n, forms) <=> Appears(rest, pos, n, forms)
  <2>1. Reads(ls, lines, p, r) /\ StepOf(r, ls, lines, p, next, own, heads, rest, pos)
    BY <1>1, <1>2, StepReads
  <2>. QED
    BY <2>1 DEF StepOf
<1>4. \A n : Taken(r, p, n) <=> Takes(own, p, rest, pos, n)
  BY <1>3 DEF Taken, Takes
<1>5. Passes(lines, p, r)
  BY <1>2, <1>3, <1>4 DEF Skips, Passes, Swept
<1>6. Closes(lines, p, r, open)
  BY <1>2, <1>3 DEF Shuts, Closes, Opening
<1>7. Len(heads) \in {0, 1}
  <2>1. Len(<<>>) = 0
    OBVIOUS
  <2>. QED
    BY <1>2, <2>1 DEF Headed
<1>8. StepRest(r, Len(heads), rest, pos)
  BY <1>1, <1>2, <1>7, StepIs
<1>9. Flats(lines, p, r)
  <2>. SUFFICES ASSUME NEW k \in Rest(r), r.pieces[k].form = "flat"
                PROVE  \E first, end :
                           /\ BlockBelow(lines, p, first, end) /\ r.at[k] \in first..end - 1
                           /\ r.pieces[k].cut =>
                                  Text!Dedent(lines[r.at[k]], lines[first].indent).cut > 0
    BY DEF Flats
  <2>1. PICK x \in 1..Len(rest) : r.at[k] = pos[x] /\ r.pieces[k] = rest[x]
    BY <1>8 DEF StepRest
  <2>2. PICK piece, m : piece = rest[x] /\ m = pos[x]
    OBVIOUS
  <2>3. piece.form = "flat" => \E first, end :
            /\ BlockBelow(lines, p, first, end) /\ m \in first..end - 1
            /\ piece.cut => Text!Dedent(lines[m], lines[first].indent).cut > 0
    BY <1>2, <2>2 DEF Deep
  <2>4. r.pieces[k] = piece /\ r.at[k] = m
    BY <2>1, <2>2
  <2>. QED
    BY <2>3, <2>4
<1>10. Wide(r, w)
  <2>1. /\ Len(heads) \in Nat /\ Len(rest) \in Nat /\ Len(heads \o rest) = Len(heads) + Len(rest)
        /\ \A k \in 1..Len(heads) : (heads \o rest)[k] = heads[k]
        /\ \A k \in 1..Len(heads) + Len(rest) : k > Len(heads) =>
               k - Len(heads) \in 1..Len(rest) /\ (heads \o rest)[k] = rest[k - Len(heads)]
    BY <1>2, Concatenated
  <2>2. \A k \in 1..Len(heads) + Len(rest) : k \in 1..Len(heads) \/ k > Len(heads)
    BY <2>1
  <2>3. \A k \in 1..Len(heads \o rest) : (heads \o rest)[k].width = w
    BY <1>2, <2>1, <2>2 DEF AllWide
  <2>. QED
    BY <1>3, <2>3 DEF Wide
<1>11. Steps(ls, lines, p, w, r, open)
  BY <1>3, <1>5, <1>6, <1>9, <1>10 DEF Steps
<1>. QED
  BY <1>3, <1>11

-----------------------------------------------------------------------------
(* The pieces of a step.                                                    *)

LEMMA PieceIs ==
    ASSUME NEW form, NEW ls, NEW level, NEW marks,
           NEW piece, piece = Text!Piece(form, ls, level, marks)
    PROVE  /\ piece.form = form /\ piece.ids = LineIds(ls) /\ piece.pad = <<>>
           /\ piece.width = Text!Top.width
           /\ piece.cut <=> \E n \in DOMAIN ls : ls[n].cut > 0
BY DEF Text!Piece, LineIds

(* One that shows one line. *)
LEMMA LinePieceIs ==
    ASSUME NEW form, NEW l, NEW level, NEW marks,
           NEW piece, piece = Text!Piece(form, <<l>>, level, marks)
    PROVE  /\ piece.form = form /\ piece.ids = <<l.id>> /\ piece.pad = <<>>
           /\ piece.width = Text!Top.width /\ (piece.cut <=> l.cut > 0) /\ Carries(piece)
<1>1. DOMAIN <<l>> = {1} /\ <<l>>[1] = l
  OBVIOUS
<1>2. /\ piece.form = form /\ piece.ids = LineIds(<<l>>) /\ piece.pad = <<>>
      /\ piece.width = Text!Top.width
      /\ piece.cut <=> \E n \in DOMAIN <<l>> : <<l>>[n].cut > 0
  BY PieceIs
<1>3. LineIds(<<l>>) = <<l.id>>
  <2>1. LineIds(<<l>>) = [n \in {1} |-> l.id]
    BY <1>1 DEF LineIds
  <2>2. <<l.id>> = [n \in {1} |-> l.id]
    OBVIOUS
  <2>. QED
    BY <2>1, <2>2
<1>4. <<l.id>> # <<>>
  OBVIOUS
<1>. QED
  BY <1>1, <1>2, <1>3, <1>4 DEF Carries

(* The paragraph's. *)
LEMMA HeadIs ==
    ASSUME NEW marks, NEW heads \in Seq(Text!Emitted),
           heads = (IF para = <<>> THEN <<>> ELSE <<Text!Piece("para", para, 0, marks)>>)
    PROVE  /\ AllWide(heads, Text!Top.width) /\ \A rest : Headed(para, heads, rest)
           /\ Len(heads) = 1 \/ (Len(heads) = 0 /\ para = <<>>)
<1>1. CASE para = <<>>
  <2>1. heads = <<>> /\ Len(<<>>) = 0
    BY <1>1
  <2>2. \A rest : Headed(para, heads, rest)
    BY <1>1, <2>1 DEF Headed
  <2>3. \A w : AllWide(heads, w)
    BY <2>1 DEF AllWide
  <2>. QED
    BY <1>1, <2>1, <2>2, <2>3
<1>2. CASE para # <<>>
  <2>1. PICK piece : piece = Text!Piece("para", para, 0, marks)
    OBVIOUS
  <2>2. heads = <<piece>>
    BY <1>2, <2>1
  <2>3. IsParagraph(piece, para) /\ piece.width = Text!Top.width
    BY <2>1, PieceIs DEF IsParagraph
  <2>4. Len(<<piece>>) = 1 /\ <<piece>>[1] = piece
    OBVIOUS
  <2>5. \A rest : Headed(para, heads, rest)
    BY <2>2, <2>3, <2>4 DEF Headed
  <2>6. AllWide(heads, Text!Top.width)
    BY <2>2, <2>3, <2>4 DEF AllWide
  <2>. QED
    BY <2>2, <2>4, <2>5, <2>6
<1>. QED
  BY <1>1, <1>2

LEMMA ParagraphIs ==
    ASSUME TextInv, frames # <<>>
    PROVE  /\ Text!ParaPiece \in Seq(Text!Emitted) /\ AllWide(Text!ParaPiece, Text!Top.width)
           /\ \A rest : Headed(para, Text!ParaPiece, rest)
           /\ Len(Text!ParaPiece) = 1 \/ (Len(Text!ParaPiece) = 0 /\ para = <<>>)
           /\ para \in Seq(Text!Line) /\ out \in Seq(Text!Emitted)
<1>1. Text!ParaPiece \in Seq(Text!Emitted) /\ out \in Seq(Text!Emitted)
  BY ParagraphIsPlain DEF Plain, TextInv, Emission, GoodPage
<1>2. para \in Seq(Text!Line)
  <2>1. {l \in Text!Line : l.kind \in {"text", "rule"}} \subseteq Text!Line
    OBVIOUS
  <2>. QED
    BY <2>1, SeqMonotonic DEF TextInv, Lines
<1>3. PICK marks : marks = Text!Marks(Text!ParaNotes, para)
  OBVIOUS
<1>4. Text!ParaPiece = IF para = <<>> THEN <<>> ELSE <<Text!Piece("para", para, 0, marks)>>
  BY <1>3 DEF Text!ParaPiece
<1>. QED
  BY <1>1, <1>2, <1>4, HeadIs

-----------------------------------------------------------------------------
(* What the actions do: the call at hand takes a step.                      *)

Does(r, open) ==
    /\ Steps(para, Text!lines, Text!i, Text!Top.width, r, open)
    /\ out' = out \o r.pieces /\ para' = r.para

Leads(next, rest, pos, open) ==
    \E r : /\ Does(r, open) /\ r.next = next
           /\ \A n, forms : AsForm(r, n, forms) <=> Appears(rest, pos, n, forms)

LEMMA SteppingDoes ==
    ASSUME NEW next, NEW own, NEW heads, NEW rest, NEW pos, NEW open,
           Stepping(para, Text!lines, Text!i, Text!Top.width, next, own, heads, rest, pos, open),
           out' = out \o (heads \o rest),
           para' = (IF Len(heads) = 1 THEN <<>>
                    ELSE IF own THEN Append(para, Text!lines[Text!i]) ELSE para)
    PROVE  Leads(next, rest, pos, open)
<1>1. PICK r : /\ Steps(para, Text!lines, Text!i, Text!Top.width, r, open) /\ r.next = next
               /\ r.pieces = heads \o rest
               /\ r.para = (IF Len(heads) = 1 THEN <<>>
                            ELSE IF own THEN Append(para, Text!lines[Text!i]) ELSE para)
               /\ \A n, forms : AsForm(r, n, forms) <=> Appears(rest, pos, n, forms)
  BY SteppingSteps
<1>. QED
  BY <1>1 DEF Does, Leads

(* One that flushes the paragraph. *)
Meets(next, rest, pos, open) ==
    /\ next \in Text!i..Len(Text!lines) + 1 /\ rest \in Seq(Text!Emitted)
    /\ Placed(Text!lines, Text!i, next, FALSE, rest, pos)
    /\ Skips(Text!lines, Text!i, next, FALSE, rest, pos)
    /\ Shuts(Text!lines, Text!i, next, rest, pos, open)
    /\ Deep(Text!lines, Text!i, rest, pos) /\ AllWide(rest, Text!Top.width)

LEMMA HeadedDoes ==
    ASSUME TextInv, frames # <<>>, NEW next, NEW heads \in Seq(Text!Emitted), NEW rest, NEW pos, NEW open,
           Headed(para, heads, rest), AllWide(heads, Text!Top.width),
           Len(heads) = 1 \/ para = <<>>,
           Meets(next, rest, pos, open), out' = out \o heads \o rest, para' = <<>>
    PROVE  Leads(next, rest, pos, open)
<1>1. /\ next \in Text!i..Len(Text!lines) + 1 /\ rest \in Seq(Text!Emitted)
      /\ Placed(Text!lines, Text!i, next, FALSE, rest, pos)
      /\ Skips(Text!lines, Text!i, next, FALSE, rest, pos)
      /\ Shuts(Text!lines, Text!i, next, rest, pos, open)
      /\ Deep(Text!lines, Text!i, rest, pos) /\ AllWide(rest, Text!Top.width)
  BY DEF Meets
<1>2. Text!i \in Nat /\ Len(Text!lines) \in Nat
  <2>1. Len(Text!lines) \in Nat /\ Text!i \in 1..Len(Text!lines) + 1
    BY TextIsTyped, TopIsTyped
  <2>. QED
    BY <2>1
<1>3. Stepping(para, Text!lines, Text!i, Text!Top.width, next, FALSE, heads, rest, pos, open)
  BY <1>1, <1>2 DEF Stepping
<1>4. out' = out \o (heads \o rest)
  <2>1. out \in Seq(Text!Emitted)
    BY ParagraphIs
  <2>2. PICK S, page : S = Text!Emitted /\ page = out
    OBVIOUS
  <2>3. page \in Seq(S) /\ heads \in Seq(S) /\ rest \in Seq(S)
    BY <1>1, <2>1, <2>2
  <2>4. (page \o heads) \o rest = page \o (heads \o rest)
    BY <2>3, ConcatAssociative
  <2>5. (out \o heads) \o rest = out \o (heads \o rest)
    BY <2>2, <2>4
  <2>6. out' = (out \o heads) \o rest
    OBVIOUS
  <2>. QED
    BY <2>5, <2>6
<1>. QED
  BY <1>3, <1>4, SteppingDoes

LEMMA FlushDoes ==
    ASSUME TextInv, frames # <<>>, NEW notes, NEW next, NEW rest, NEW pos, NEW open,
           Meets(next, rest, pos, open), Text!FlushThen(notes, rest)
    PROVE  Leads(next, rest, pos, open)
<1>1. /\ Text!ParaPiece \in Seq(Text!Emitted) /\ AllWide(Text!ParaPiece, Text!Top.width)
      /\ Headed(para, Text!ParaPiece, rest)
      /\ Len(Text!ParaPiece) = 1 \/ para = <<>>
  BY ParagraphIs
<1>2. out' = out \o Text!ParaPiece \o rest /\ para' = <<>>
  BY DEF Text!FlushThen
<1>. QED
  BY <1>1, <1>2, HeadedDoes

(* The call at hand goes on. *)
GoesOn == \E r : Does(r, FALSE) /\ Text!Go(r.next)

LEMMA FlushGoesOn ==
    ASSUME TextInv, frames # <<>>, NEW notes, NEW next, NEW rest, NEW pos,
           Meets(next, rest, pos, FALSE), Text!FlushThen(notes, rest), Text!Go(next)
    PROVE  GoesOn
<1>1. Leads(next, rest, pos, FALSE)
  BY FlushDoes
<1>. QED
  BY <1>1 DEF Leads, GoesOn

(* No pieces but the paragraph's. *)
LEMMA NoneMeet ==
    ASSUME NEW next \in Text!i..Len(Text!lines) + 1, NEW pos, NEW open,
           Skips(Text!lines, Text!i, next, FALSE, <<>>, pos),
           Shuts(Text!lines, Text!i, next, <<>>, pos, open)
    PROVE  Meets(next, <<>>, pos, open)
<1>1. Len(<<>>) = 0 /\ <<>> \in Seq(Text!Emitted)
  BY EmptySeq
<1>2. /\ Placed(Text!lines, Text!i, next, FALSE, <<>>, pos)
      /\ Deep(Text!lines, Text!i, <<>>, pos) /\ AllWide(<<>>, Text!Top.width)
  BY <1>1 DEF Placed, Deep, AllWide
<1>. QED
  BY <1>1, <1>2 DEF Meets

LEMMA NoneAppear == \A pos, n, forms : ~Appears(<<>>, pos, n, forms)
<1>1. Len(<<>>) = 0
  OBVIOUS
<1>. QED
  BY <1>1 DEF Appears

(* One piece, that is line i. *)
LEMMA OneAppears ==
    ASSUME NEW piece, NEW pos, NEW n, NEW forms
    PROVE  Appears(<<piece>>, pos, n, forms) <=> pos[1] = n /\ Carries(piece) /\ piece.form \in forms
<1>1. 1..Len(<<piece>>) = {1} /\ <<piece>>[1] = piece
  OBVIOUS
<1>. QED
  BY <1>1 DEF Appears

LEMMA OneMeets ==
    ASSUME NEW next \in Text!i..Len(Text!lines) + 1, NEW piece \in Text!Emitted, NEW pos, NEW open,
           NEW place, pos = [n \in {1} |-> place],
           place \in Text!i..next - 1, OfLine(piece, Text!lines[place]),
           piece.form \notin {"para", "flat"},
           piece.form \in {"item", "term"} => place = Text!i /\ piece.pad = <<>>,
           piece.width = Text!Top.width,
           Skips(Text!lines, Text!i, next, FALSE, <<piece>>, pos),
           Shuts(Text!lines, Text!i, next, <<piece>>, pos, open)
    PROVE  Meets(next, <<piece>>, pos, open)
<1>1. /\ 1..Len(<<piece>>) = {1} /\ <<piece>>[1] = piece /\ pos[1] = place
      /\ <<piece>> \in Seq(Text!Emitted)
  OBVIOUS
<1>2. PICK rest : rest = <<piece>>
  OBVIOUS
<1>3. 1..Len(rest) = {1} /\ rest[1] = piece /\ rest \in Seq(Text!Emitted)
  BY <1>1, <1>2
<1>4. Placed(Text!lines, Text!i, next, FALSE, rest, pos)
  <2>1. /\ pos[1] \in Text!i..next - 1 /\ OfLine(rest[1], Text!lines[pos[1]]) /\ rest[1].form # "para"
        /\ rest[1].form \in {"item", "term"} => pos[1] = Text!i /\ rest[1].pad = <<>>
    BY <1>1, <1>3
  <2>2. \A k \in 1..Len(rest) : k = 1
    BY <1>3
  <2>3. \A j, k \in 1..Len(rest) : ~(j < k)
    BY <2>2
  <2>. QED
    BY <2>1, <2>2, <2>3 DEF Placed
<1>5. Deep(Text!lines, Text!i, rest, pos) /\ AllWide(rest, Text!Top.width)
  BY <1>3 DEF Deep, AllWide
<1>. QED
  BY <1>2, <1>3, <1>4, <1>5 DEF Meets

-----------------------------------------------------------------------------
(* The actions, one by one.                                                 *)

LEMMA LineHere ==
    ASSUME TextInv, NEW kinds, Text!Plainly(kinds)
    PROVE  /\ Text!More /\ frames # <<>> /\ Text!TypeOK /\ Text!lines \in Seq(Text!Line)
           /\ Len(Text!lines) \in Nat /\ Text!i \in 1..Len(Text!lines) /\ Text!i \in Nat
           /\ Text!line = Text!lines[Text!i] /\ Text!line \in Text!Line
           /\ Text!lines[Text!i].kind \in kinds
<1>1. Text!More /\ Text!line = Text!lines[Text!i] /\ Text!lines[Text!i].kind \in kinds
  BY DEF Text!Plainly, Text!line
<1>2. /\ frames # <<>> /\ Text!TypeOK /\ Text!lines \in Seq(Text!Line)
      /\ Len(Text!lines) \in Nat /\ Text!i \in 1..Len(Text!lines) /\ Text!line \in Text!Line
  BY <1>1, LineIsTyped
<1>. QED
  BY <1>1, <1>2

(* A line on its own that is not shown. *)
LEMMA BlankLineGoes == ASSUME TextInv, Text!BlankLine PROVE GoesOn
<1>1. Text!Plainly({"blank"}) /\ Text!FlushThen(Text!ParaNotes, <<>>) /\ Text!Go(Text!i + 1)
  BY DEF Text!BlankLine, Text!Flush
<1>2. /\ frames # <<>> /\ Len(Text!lines) \in Nat /\ Text!i \in 1..Len(Text!lines) /\ Text!i \in Nat
      /\ Text!lines[Text!i].kind = "blank"
  BY <1>1, LineHere
<1>3. PICK p, q : p = Text!i /\ q = p + 1
  OBVIOUS
<1>4. \A n \in p..q - 1 : n = p
  BY <1>2, <1>3
<1>a. Text!lines[p].kind = "blank"
  BY <1>2, <1>3
<1>5. Skips(Text!lines, p, q, FALSE, <<>>, <<>>)
  BY <1>4, <1>a DEF Skips
<1>6. Shuts(Text!lines, p, q, <<>>, <<>>, FALSE)
  BY <1>2, <1>3, <1>4, NoneAppear DEF Shuts, Text!Directive
<1>7. q \in p..Len(Text!lines) + 1
  BY <1>2, <1>3
<1>8. Meets(q, <<>>, <<>>, FALSE)
  BY <1>3, <1>5, <1>6, <1>7, NoneMeet
<1>. QED
  BY <1>1, <1>2, <1>3, <1>8, FlushGoesOn

(* A line that is an item. *)
LEMMA BulletGoes == ASSUME TextInv, Text!Bullet PROVE GoesOn
<1>. DEFINE own == <<Text!line>>
            notes == Text!Inline(Text!ParaNotes, own)
            marks == Text!Marks(notes, own)
<1>1. /\ Text!Plainly({"bullet", "option"}) /\ Text!Go(Text!i + 1)
      /\ Text!FlushThen(notes, <<Text!Piece("item", own, 0, marks)>>)
  BY DEF Text!Bullet, Text!FlushAndEmit
<1>2. /\ frames # <<>> /\ Len(Text!lines) \in Nat /\ Text!i \in 1..Len(Text!lines) /\ Text!i \in Nat
      /\ Text!lines[Text!i].kind \in {"bullet", "option"} /\ Text!line = Text!lines[Text!i]
      /\ Text!line \in Text!Line
  BY <1>1, LineHere
<1>. HIDE DEF marks, notes
<1>3. PICK piece : piece = Text!Piece("item", own, 0, marks)
  OBVIOUS
<1>4. /\ piece.form = "item" /\ piece.ids = <<Text!line.id>> /\ piece.pad = <<>>
      /\ piece.width = Text!Top.width /\ (piece.cut <=> Text!line.cut > 0) /\ Carries(piece)
  BY <1>3, LinePieceIs
<1>5. piece \in Text!Emitted
  <2>1. own \in Seq(Text!Line)
    BY <1>2
  <2>2. Plain(<<piece>>, notes.links)
    BY <1>2, <1>3, <2>1, OwnIsPlain DEF notes, marks
  <2>3. DOMAIN <<piece>> = {1} /\ <<piece>>[1] = piece
    OBVIOUS
  <2>4. <<piece>> \in Seq(Text!Emitted)
    BY <2>2 DEF Plain
  <2>. QED
    BY <2>3, <2>4
<1>6. PICK p, q, pos : p = Text!i /\ q = p + 1 /\ pos = [n \in {1} |-> p]
  OBVIOUS
<1>7. \A n \in p..q - 1 : n = p
  BY <1>2, <1>6
<1>8. /\ q \in p..Len(Text!lines) + 1 /\ p \in p..q - 1
      /\ pos[1] = p
  BY <1>2, <1>6
<1>9. \A n, forms : Appears(<<piece>>, pos, n, forms) <=> n = p /\ "item" \in forms
  BY <1>4, <1>8, OneAppears
<1>10. Skips(Text!lines, p, q, FALSE, <<piece>>, pos)
  <2>1. Takes(FALSE, p, <<piece>>, pos, p)
    BY <1>9 DEF Takes, Forms
  <2>. QED
    BY <1>7, <1>9 DEF Skips, Takes, Forms
<1>11. Shuts(Text!lines, p, q, <<piece>>, pos, FALSE)
  BY <1>2, <1>6, <1>7, <1>9 DEF Shuts, Text!Directive
<1>12. OfLine(piece, Text!lines[p])
  BY <1>2, <1>4, <1>6 DEF OfLine
<1>13. Meets(q, <<piece>>, pos, FALSE)
  BY <1>4, <1>5, <1>6, <1>8, <1>10, <1>11, <1>12, OneMeets
<1>. QED
  BY <1>1, <1>2, <1>3, <1>6, <1>13, FlushGoesOn

(* A line that becomes part of the paragraph. *)
LEMMA TextGoes == ASSUME TextInv, Text!Text PROVE GoesOn
<1>1. /\ Text!Plainly({"text", "rule"}) /\ para' = Append(para, Text!line)
      /\ Text!Go(Text!i + 1) /\ out' = out
  BY DEF Text!Text
<1>2. /\ frames # <<>> /\ Len(Text!lines) \in Nat /\ Text!i \in 1..Len(Text!lines) /\ Text!i \in Nat
      /\ Text!lines[Text!i].kind \in {"text", "rule"} /\ Text!line = Text!lines[Text!i]
  BY <1>1, LineHere
<1>3. PICK p : p = Text!i
  OBVIOUS
<1>4. /\ \A n \in p..p + 1 - 1 : n = p
      /\ p + 1 \in p..Len(Text!lines) + 1 /\ p < p + 1 /\ p \in Nat
  BY <1>2, <1>3
<1>5. Skips(Text!lines, p, p + 1, TRUE, <<>>, <<>>)
  BY <1>4 DEF Skips, Takes
<1>6. Shuts(Text!lines, p, p + 1, <<>>, <<>>, FALSE)
  BY <1>2, <1>3, <1>4, NoneAppear DEF Shuts, Text!Directive
<1>7. Len(<<>>) = 0 /\ <<>> \in Seq(Text!Emitted)
  BY EmptySeq
<1>8. /\ Placed(Text!lines, p, p + 1, TRUE, <<>>, <<>>) /\ Deep(Text!lines, p, <<>>, <<>>)
      /\ AllWide(<<>>, Text!Top.width) /\ \A ls : Headed(ls, <<>>, <<>>)
  BY <1>7 DEF Placed, Deep, AllWide, Headed
<1>9. Stepping(para, Text!lines, p, Text!Top.width, p + 1, TRUE, <<>>, <<>>, <<>>, FALSE)
  BY <1>2, <1>4, <1>5, <1>6, <1>7, <1>8 DEF Stepping
<1>10. out' = out \o (<<>> \o <<>>)
  <2>1. out \in Seq(Text!Emitted)
    BY <1>2, ParagraphIs
  <2>2. <<>> \o <<>> = <<>> /\ out \o <<>> = out
    BY <2>1
  <2>. QED
    BY <1>1, <2>2
<1>11. para' = (IF Len(<<>>) = 1 THEN <<>>
                ELSE IF TRUE THEN Append(para, Text!lines[Text!i]) ELSE para)
  BY <1>1, <1>2, <1>7
<1>12. Leads(p + 1, <<>>, <<>>, FALSE)
  BY <1>3, <1>9, <1>10, <1>11, SteppingDoes
<1>. QED
  BY <1>1, <1>3, <1>12 DEF Leads, GoesOn

(* A line that is skipped with what is below it. *)
Omits(rest, pos) == \A n, forms : Appears(rest, pos, n, forms) => "omitted" \in forms
Skipping(lines, p, next, rest, pos) ==
    /\ next \in p + 1..Len(lines) + 1 /\ next \in p..Len(lines) + 1
    /\ Skips(lines, p, next, FALSE, rest, pos) /\ Shuts(lines, p, next, rest, pos, FALSE)

LEMMA SweptSkips ==
    ASSUME NEW lines \in Seq(Text!Line), NEW p \in 1..Len(lines), NEW rest, NEW pos, NEW next,
           lines[p].kind \in {"toctree", "comment", "include"},
           next = Text!SkipIndented(lines, p),
           Omits(rest, pos)
    PROVE  Skipping(lines, p, next, rest, pos)
<1>1. /\ next \in p + 1..Len(lines) + 1 /\ next \in Nat
      /\ \A n \in p + 1..next - 1 : Text!Blank(lines[n]) \/ lines[n].indent > lines[p].indent
      /\ Stops(lines, next, lines[p].indent)
  BY SkipIndentedIs
<1>2. p \in Nat \ {0} /\ Len(lines) \in Nat /\ p < next /\ next \in p..Len(lines) + 1
      /\ lines[p].indent \in Nat /\ next <= Len(lines) + 1 /\ next \in Nat \ {0}
      /\ p + 1 \in Nat \ {0}
  BY <1>1, LineFacts
<1>3. \A n : ~Takes(FALSE, p, rest, pos, n)
  BY DEF Takes, Omits
<1>4. Skips(lines, p, next, FALSE, rest, pos)
  BY <1>1, <1>2, <1>3 DEF Skips
<1>5. Ended(lines, p + 1, next)
  BY <1>1, <1>2, DeeperIsEnded
<1>6. \A n \in p..next - 1 : n = p \/ n \in p + 1..next - 1
  BY <1>1, <1>2
<1>7. Shuts(lines, p, next, rest, pos, FALSE)
  <2>. SUFFICES ASSUME NEW n \in p..next - 1, lines[n].kind \in Text!Directive
                PROVE  Stops(lines, next, lines[n].indent)
    BY DEF Shuts, Omits
  <2>1. n \in p + 1..next - 1
    BY <1>6 DEF Text!Directive
  <2>2. ~Text!Blank(lines[n])
    BY DEF Text!Directive, Text!Blank
  <2>. QED
    BY <1>5, <2>1, <2>2 DEF Ended
<1>. QED
  BY <1>1, <1>2, <1>4, <1>7 DEF Skipping

(* A directive that is dropped with its body. *)
LEMMA DropGoes == ASSUME TextInv, Text!Drop PROVE GoesOn
<1>. DEFINE next == Text!SkipIndented(Text!lines, Text!i)
<1>1. /\ Text!Plainly({"toctree"}) /\ Text!FlushThen(Text!ParaNotes, <<>>) /\ Text!Go(next)
  BY DEF Text!Drop, Text!Flush
<1>2. /\ frames # <<>> /\ Text!lines \in Seq(Text!Line) /\ Text!i \in 1..Len(Text!lines)
      /\ Text!lines[Text!i].kind = "toctree"
  BY <1>1, LineHere
<1>3. PICK q : q = next
  OBVIOUS
<1>4. /\ q \in Text!i..Len(Text!lines) + 1
      /\ Skips(Text!lines, Text!i, q, FALSE, <<>>, <<>>)
      /\ Shuts(Text!lines, Text!i, q, <<>>, <<>>, FALSE)
  <2>1. Omits(<<>>, <<>>)
    BY NoneAppear DEF Omits
  <2>2. Skipping(Text!lines, Text!i, q, <<>>, <<>>)
    BY <1>2, <1>3, <2>1, SweptSkips
  <2>. QED
    BY <1>3, <2>2 DEF Skipping
<1>5. Meets(q, <<>>, <<>>, FALSE)
  BY <1>4, NoneMeet
<1>. QED
  BY <1>1, <1>2, <1>3, <1>5, FlushGoesOn

(* A comment: the paragraph goes on. *)
LEMMA CommentGoes == ASSUME TextInv, Text!Comment PROVE GoesOn
<1>. DEFINE next == Text!SkipIndented(Text!lines, Text!i)
<1>1. /\ Text!Plainly({"comment"}) /\ Text!Go(next) /\ para' = para /\ out' = out
  BY DEF Text!Comment
<1>2. /\ frames # <<>> /\ Text!lines \in Seq(Text!Line) /\ Text!i \in 1..Len(Text!lines)
      /\ Text!lines[Text!i].kind = "comment" /\ Text!i \in Nat /\ Len(Text!lines) \in Nat
  BY <1>1, LineHere
<1>3. PICK p, q : p = Text!i /\ q = next
  OBVIOUS
<1>4. /\ q \in p..Len(Text!lines) + 1
      /\ Skips(Text!lines, p, q, FALSE, <<>>, <<>>)
      /\ Shuts(Text!lines, p, q, <<>>, <<>>, FALSE)
  <2>1. Omits(<<>>, <<>>)
    BY NoneAppear DEF Omits
  <2>2. Skipping(Text!lines, Text!i, q, <<>>, <<>>)
    BY <1>2, <1>3, <2>1, SweptSkips
  <2>. QED
    BY <1>3, <2>2 DEF Skipping
<1>5. Len(<<>>) = 0 /\ <<>> \in Seq(Text!Emitted)
  BY EmptySeq
<1>6. /\ Placed(Text!lines, p, q, FALSE, <<>>, <<>>) /\ Deep(Text!lines, p, <<>>, <<>>)
      /\ AllWide(<<>>, Text!Top.width) /\ \A ls : Headed(ls, <<>>, <<>>)
  BY <1>5 DEF Placed, Deep, AllWide, Headed
<1>7. Stepping(para, Text!lines, p, Text!Top.width, q, FALSE, <<>>, <<>>, <<>>, FALSE)
  BY <1>2, <1>3, <1>4, <1>5, <1>6 DEF Stepping
<1>8. out' = out \o (<<>> \o <<>>)
  <2>1. out \in Seq(Text!Emitted)
    BY <1>2, ParagraphIs
  <2>2. <<>> \o <<>> = <<>> /\ out \o <<>> = out
    BY <2>1
  <2>. QED
    BY <1>1, <2>2
<1>9. para' = (IF Len(<<>>) = 1 THEN <<>>
               ELSE IF FALSE THEN Append(para, Text!lines[Text!i]) ELSE para)
  BY <1>1, <1>5
<1>10. Leads(q, <<>>, <<>>, FALSE)
  BY <1>3, <1>7, <1>8, <1>9, SteppingDoes
<1>. QED
  BY <1>1, <1>3, <1>10 DEF Leads, GoesOn

(* Lines that are shown as they are. *)
Single(piece, form, l, w) ==
    /\ piece.form = form /\ piece.ids = <<l.id>> /\ piece.width = w
    /\ (piece.cut <=> l.cut > 0) /\ Carries(piece)

LEMMA LiteralPieces ==
    ASSUME TextInv, Text!More, NEW k \in 1..Len(Text!lines) + 1,
           NEW first, first = Text!NextNonBlank(Text!lines, k),
           NEW end, end = Text!LiteralEnd(k),
           NEW rest, rest = Text!Literal(k)
    PROVE  /\ rest \in Seq(Text!Emitted) /\ Len(rest) = end - first
           /\ \A n \in 1..Len(rest) :
                  Single(rest[n], "code", Text!lines[first - 1 + n], Text!Top.width)
<1>1. first \in k..Len(Text!lines) + 1 /\ first \in Nat
      /\ end \in first..Len(Text!lines) + 1 /\ end \in Nat
  <2>1. Text!lines \in Seq(Text!Line)
    BY LineIsTyped
  <2>. QED
    BY <2>1, LiteralIs
<1>2. rest \in Seq(Text!Emitted)
  <2>1. \A targets : Plain(rest, targets)
    BY LiteralIsPlain
  <2>. QED
    BY <2>1 DEF Plain
<1>3. rest = [n \in 1..end - 1 - (first - 1) |->
                  Text!Piece("code", <<Text!lines[first - 1 + n]>>, 0, {})]
  BY DEF Text!Literal
<1>4. PICK size : size = end - first
  OBVIOUS
<1>5. size \in Nat /\ end - 1 - (first - 1) = size
  BY <1>1, <1>4
<1>6. PICK base : base = first - 1
  OBVIOUS
<1>7. rest = [n \in 1..size |-> Text!Piece("code", <<Text!lines[base + n]>>, 0, {})]
  BY <1>3, <1>5, <1>6
<1>8. DOMAIN rest = 1..size /\ Len(rest) = size
  <2>1. DOMAIN rest = 1..size
    BY <1>7
  <2>. QED
    BY <1>2, <1>5, <2>1
<1>9. ASSUME NEW n \in 1..size
      PROVE  Single(rest[n], "code", Text!lines[base + n], Text!Top.width)
  <2>1. PICK l, piece : l = Text!lines[base + n] /\ piece = rest[n]
    OBVIOUS
  <2>2. piece = Text!Piece("code", <<l>>, 0, {})
    BY <1>7, <2>1
  <2>3. Single(piece, "code", l, Text!Top.width)
    BY <2>2, LinePieceIs DEF Single
  <2>. QED
    BY <2>1, <2>3
<1>. QED
  BY <1>2, <1>4, <1>6, <1>8, <1>9

(* The lines below line i that are shown so, from line k on. *)
Lays(own, next, rest) ==
    /\ next \in Text!i..Len(Text!lines) + 1 /\ Text!i < next /\ rest \in Seq(Text!Emitted)
    /\ \E pos : /\ Placed(Text!lines, Text!i, next, own, rest, pos)
                /\ Skips(Text!lines, Text!i, next, own, rest, pos)
                /\ Shuts(Text!lines, Text!i, next, rest, pos, FALSE)
                /\ Deep(Text!lines, Text!i, rest, pos) /\ AllWide(rest, Text!Top.width)

LEMMA LiteralLays ==
    ASSUME TextInv, Text!More, NEW k \in Text!i + 1..Len(Text!lines) + 1, NEW own \in BOOLEAN,
           \A n \in Text!i + 1..k - 1 : Text!lines[n].kind = "option",
           Text!lines[Text!i].kind \in {"code", "intro"},
           Text!lines[Text!i].kind = "intro" => own
    PROVE  Lays(own, Text!LiteralEnd(k), Text!Literal(k))
<1>. DEFINE lines == Text!lines
<1>1. lines \in Seq(Text!Line) /\ Len(lines) \in Nat /\ Text!i \in 1..Len(lines)
  BY LineIsTyped
<1>2. PICK p, first, end, rest, w, base :
          /\ p = Text!i /\ first = Text!NextNonBlank(lines, k) /\ end = Text!LiteralEnd(k)
          /\ rest = Text!Literal(k) /\ w = Text!Top.width /\ base = first - 1
  OBVIOUS
<1>3. p \in Nat /\ k \in Nat /\ k \in p + 1..Len(lines) + 1 /\ k \in 1..Len(lines) + 1
  BY <1>1, <1>2
<1>4. /\ first \in k..Len(lines) + 1 /\ first \in Nat
      /\ \A n \in k..first - 1 : Text!Blank(lines[n])
      /\ end \in first..Len(lines) + 1 /\ end \in Nat
      /\ Ended(lines, k, end)
  BY <1>1, <1>2, <1>3, LiteralIs
<1>5. /\ rest \in Seq(Text!Emitted) /\ Len(rest) = end - first
      /\ \A n \in 1..Len(rest) : Single(rest[n], "code", lines[first - 1 + n], w)
  BY <1>2, <1>3, LiteralPieces
<1>6. PICK size, pos : size = end - first /\ pos = [n \in 1..size |-> base + n]
  OBVIOUS
<1>. HIDE DEF lines
<1>7. /\ size \in Nat /\ base \in Nat /\ p <= base /\ p < end /\ base + size = end - 1
      /\ end \in p..Len(lines) + 1 /\ Len(rest) = size
      /\ \A n \in 1..size : base + n \in p + 1..end - 1 /\ base + n \in p..end - 1 /\ p < base + n
                            /\ base + n \in Nat
  <2>1. /\ p \in Nat /\ first \in Nat /\ end \in Nat /\ k \in Nat /\ p + 1 <= k /\ k <= first
        /\ first <= end /\ end <= Len(lines) + 1 /\ Len(lines) \in Nat /\ Len(rest) = end - first
    BY <1>1, <1>3, <1>4, <1>5
  <2>2. size = end - first /\ base = first - 1
    BY <1>2, <1>6
  <2>. QED
    BY <2>1, <2>2
<1>8. \A n \in 1..size : /\ pos[n] = base + n
                         /\ Single(rest[n], "code", lines[base + n], w)
  BY <1>2, <1>5, <1>6, <1>7
<1>9. \A n \in p..end - 1 : \/ n = p \/ lines[n].kind \in {"option", "blank"}
                            \/ \E x \in 1..size : n = base + x
  <2>. SUFFICES ASSUME NEW n \in p..end - 1, n # p, lines[n].kind \notin {"option", "blank"}
                PROVE  \E x \in 1..size : n = base + x
    OBVIOUS
  <2>1. n \in p + 1..k - 1 \/ n \in k..first - 1 \/ n \in first..end - 1
    BY <1>3, <1>4
  <2>2. n \notin p + 1..k - 1 /\ n \notin k..first - 1
    BY <1>2, <1>4 DEF Text!Blank, lines
  <2>3. n \in first..end - 1 /\ first = base + 1 /\ end = base + size + 1 /\ base \in Nat
    <3>1. base = first - 1 /\ base + size = end - 1 /\ first \in Nat /\ end \in Nat
      BY <1>2, <1>4, <1>7
    <3>2. n \in first..end - 1
      BY <2>1, <2>2
    <3>. QED
      BY <1>7, <3>1, <3>2
  <2>4. n - base \in 1..size /\ n = base + (n - base)
    BY <1>7, <2>3
  <2>. QED
    BY <2>4
<1>10. \A x \in 1..size : Appears(rest, pos, base + x, {"code"})
  BY <1>5, <1>7, <1>8 DEF Appears, Single
<1>11. \A n, forms : Appears(rest, pos, n, forms) => "code" \in forms
  BY <1>7, <1>8 DEF Appears, Single
<1>12. Placed(lines, p, end, own, rest, pos)
  <2>1. ASSUME NEW x \in 1..Len(rest)
        PROVE  /\ pos[x] \in p..end - 1 /\ (own => p < pos[x])
               /\ OfLine(rest[x], lines[pos[x]]) /\ rest[x].form # "para"
               /\ rest[x].form \in {"item", "term"} => pos[x] = p /\ rest[x].pad = <<>>
    <3>1. PICK piece, m : piece = rest[x] /\ m = base + x
      OBVIOUS
    <3>2. /\ m \in p..end - 1 /\ p < m /\ pos[x] = m
          /\ Single(piece, "code", lines[m], w)
      BY <1>7, <1>8, <3>1
    <3>3. OfLine(piece, lines[m]) /\ piece.form = "code"
      BY <3>2 DEF Single, OfLine
    <3>. QED
      BY <3>1, <3>2, <3>3
  <2>2. \A x, y \in 1..Len(rest) : x < y => pos[x] < pos[y]
    BY <1>7, <1>8
  <2>. QED
    BY <2>1, <2>2 DEF Placed
<1>13. Skips(lines, p, end, own, rest, pos)
  <2>1. \A n \in p..end - 1 :
            \/ lines[n].kind \in {"blank", "option", "rule", "note", "tab", "only", "code"}
            \/ Takes(own, p, rest, pos, n)
    <3>. SUFFICES ASSUME NEW n \in p..end - 1
                  PROVE  \/ lines[n].kind \in {"blank", "option", "rule", "note", "tab", "only", "code"}
                         \/ Takes(own, p, rest, pos, n)
      OBVIOUS
    <3>1. CASE n = p
      BY <1>2, <3>1 DEF Takes, lines
    <3>2. CASE lines[n].kind \in {"option", "blank"}
      BY <3>2
    <3>3. CASE \E x \in 1..size : n = base + x
      <4>1. Appears(rest, pos, n, {"code"})
        BY <1>10, <3>3
      <4>2. Appears(rest, pos, n, Forms \ {"omitted"})
        BY <4>1 DEF Appears, Forms
      <4>. QED
        BY <4>2 DEF Takes
    <3>. QED
      BY <1>9, <3>1, <3>2, <3>3
  <2>. QED
    BY <2>1 DEF Skips
<1>14. Shuts(lines, p, end, rest, pos, FALSE)
  <2>1. \A n : ~Appears(rest, pos, n, {"term"})
    BY <1>11
  <2>2. lines[p].kind \notin Text!Directive
    BY <1>2 DEF Text!Directive, lines
  <2>3. \A n \in p..end - 1 : lines[n].kind \in Text!Directive => Stops(lines, end, lines[n].indent)
    <3>. SUFFICES ASSUME NEW n \in p..end - 1, lines[n].kind \in Text!Directive
                  PROVE  Stops(lines, end, lines[n].indent)
      OBVIOUS
    <3>1. lines[n].kind \notin {"option", "blank"} /\ n # p /\ ~Text!Blank(lines[n])
      BY <2>2 DEF Text!Directive, Text!Blank
    <3>2. n \in k..end - 1
      BY <1>3, <1>4, <1>2, <3>1 DEF lines
    <3>. QED
      BY <1>4, <3>1, <3>2 DEF Ended
  <2>. QED
    BY <2>1, <2>3 DEF Shuts
<1>15. Deep(lines, p, rest, pos) /\ AllWide(rest, w)
  <2>1. \A x \in 1..Len(rest) : rest[x].form = "code" /\ rest[x].width = w
    BY <1>7, <1>8 DEF Single
  <2>. QED
    BY <2>1 DEF Deep, AllWide
<1>. QED
  BY <1>2, <1>5, <1>7, <1>12, <1>13, <1>14, <1>15 DEF Lays, lines

LEMMA CodeGoes == ASSUME TextInv, Text!Code PROVE GoesOn
<1>. DEFINE k == Text!SkipOptions(Text!lines, Text!i + 1)
<1>1. /\ Text!Plainly({"code"}) /\ Text!FlushThen(Text!ParaNotes, Text!Literal(k))
      /\ Text!Go(Text!LiteralEnd(k))
  BY DEF Text!Code
<1>2. /\ Text!More /\ frames # <<>> /\ Text!lines \in Seq(Text!Line) /\ Text!i \in 1..Len(Text!lines)
      /\ Text!lines[Text!i].kind = "code" /\ Text!i \in Nat /\ Len(Text!lines) \in Nat
  BY <1>1, LineHere
<1>3. /\ k \in Text!i + 1..Len(Text!lines) + 1
      /\ \A n \in Text!i + 1..k - 1 : Text!lines[n].kind = "option"
  <2>1. PICK a : a = Text!i + 1
    OBVIOUS
  <2>2. a \in 1..Len(Text!lines) + 1
    BY <1>2, <2>1
  <2>. QED
    BY <1>2, <2>1, <2>2, SkipOptionsIs
<1>. HIDE DEF k
<1>4. PICK next, rest : next = Text!LiteralEnd(k) /\ rest = Text!Literal(k)
  OBVIOUS
<1>5. Lays(FALSE, next, rest)
  BY <1>2, <1>3, <1>4, LiteralLays
<1>6. PICK pos : Meets(next, rest, pos, FALSE)
  BY <1>5 DEF Lays, Meets
<1>. QED
  BY <1>1, <1>2, <1>4, <1>6, FlushGoesOn

LEMMA IntroducesGoes == ASSUME TextInv, Text!Introduces PROVE GoesOn
<1>. DEFINE all == Append(para, Text!line)
            marks == Text!Marks(Text!Inline(Text!Notes, all), all)
            k == Text!i + 1
<1>1. /\ Text!Plainly({"intro"})
      /\ out' = out \o <<Text!Piece("para", all, 0, marks)>> \o Text!Literal(k)
      /\ para' = <<>> /\ Text!Go(Text!LiteralEnd(k))
  BY DEF Text!Introduces
<1>2. /\ Text!More /\ frames # <<>> /\ Text!lines \in Seq(Text!Line) /\ Text!i \in 1..Len(Text!lines)
      /\ Text!lines[Text!i].kind = "intro" /\ Text!i \in Nat /\ Len(Text!lines) \in Nat
      /\ Text!line = Text!lines[Text!i] /\ Text!line \in Text!Line /\ Text!TypeOK
  BY <1>1, LineHere
<1>3. /\ k \in Text!i + 1..Len(Text!lines) + 1
      /\ \A n \in Text!i + 1..k - 1 : Text!lines[n].kind = "option"
  BY <1>2
<1>. HIDE DEF k
<1>4. PICK next, rest, ls, yes :
          /\ next = Text!LiteralEnd(k) /\ rest = Text!Literal(k) /\ ls = all
          /\ yes = TRUE
  OBVIOUS
<1>5. Lays(yes, next, rest)
  BY <1>2, <1>3, <1>4, LiteralLays
<1>6. para \in Seq(Text!Line) /\ out \in Seq(Text!Emitted)
  BY <1>2, ParagraphIs
<1>7. ls \in Seq(Text!Line) /\ ls = Append(para, Text!lines[Text!i])
  BY <1>2, <1>4, <1>6
<1>8. Text!Marks(Text!Inline(Text!Notes, ls), ls) \in SUBSET Mark
  <2>1. NotesSound(Text!Notes)
    BY DEF TextInv, Emission, GoodPage
  <2>. QED
    BY <1>7, <2>1, InlineSound
<1>9. PICK piece : piece = Text!Piece("para", ls, 0, marks)
  OBVIOUS
<1>10. piece \in Text!Emitted
  <2>1. PICK m : m = marks
    OBVIOUS
  <2>2. m \in SUBSET Mark /\ piece = Text!Piece("para", ls, 0, m)
    BY <1>4, <1>8, <1>9, <2>1
  <2>3. "para" \in {"para", "title", "item", "label", "term", "code", "flat", "omitted"} /\ 0 \in Nat
    OBVIOUS
  <2>4. Text!Piece("para", ls, 0, m) \in Text!Emitted
    BY <1>2, <1>7, <2>2, <2>3, PieceIsTyped
  <2>. QED
    BY <2>2, <2>4
<1>11. IsParagraph(piece, ls) /\ piece.width = Text!Top.width
  BY <1>9, PieceIs DEF IsParagraph
<1>12. PICK heads : heads = <<piece>>
  OBVIOUS
<1>13. heads \in Seq(Text!Emitted) /\ Len(heads) = 1 /\ heads[1] = piece
  BY <1>10, <1>12
<1>14. Headed(ls, heads, rest) /\ AllWide(heads, Text!Top.width)
  BY <1>11, <1>13 DEF Headed, AllWide
<1>15. PICK pos : Stepping(para, Text!lines, Text!i, Text!Top.width, next, yes, heads, rest, pos, FALSE)
  BY <1>2, <1>4, <1>5, <1>7, <1>13, <1>14 DEF Lays, Stepping
<1>16. out' = out \o (heads \o rest)
  <2>1. rest \in Seq(Text!Emitted)
    BY <1>5 DEF Lays
  <2>2. \A a, b, c \in Seq(Text!Emitted) : (a \o b) \o c = a \o (b \o c)
    BY ConcatAssociative
  <2>3. out' = out \o heads \o rest
    BY <1>1, <1>4, <1>9, <1>12
  <2>. QED
    BY <1>6, <1>13, <2>1, <2>2, <2>3
<1>17. Leads(next, rest, pos, FALSE)
  BY <1>1, <1>13, <1>15, <1>16, SteppingDoes
<1>. QED
  BY <1>1, <1>4, <1>17 DEF Leads, GoesOn

(* A title, of two lines or three. *)
LEMMA SectionGoes ==
    ASSUME TextInv, Text!More, NEW next \in Text!i + 1..Len(Text!lines) + 1,
           NEW place \in Text!i..next - 1,
           \A n \in Text!i..next - 1 : n = place \/ Text!lines[n].kind = "rule",
           NEW mark \in Text!Adornments, Text!Section(Text!lines[place], mark, next)
    PROVE  GoesOn
<1>. DEFINE title == Text!lines[place]
            known == \E k \in DOMAIN adorn : adorn[k] = mark
            level == IF known THEN CHOOSE k \in DOMAIN adorn : adorn[k] = mark
                     ELSE Len(adorn) + 1
            own == Text!Inline(Text!Notes, <<title>>)
            notes == Text!Inline(own, para)
            flushed == IF para = <<>> THEN <<>>
                       ELSE <<Text!Piece("para", para, 0, Text!Marks(notes, para))>>
            marks == Text!Marks(own, <<title>>)
            plain == Text!Piece("title", <<title>>, level, marks)
            piece == [plain EXCEPT !.mark = mark]
<1>1. /\ out' = out \o flushed \o <<piece>> /\ para' = <<>> /\ Text!Go(next)
  BY DEF Text!Section
<1>2. /\ frames # <<>> /\ Text!TypeOK /\ NotesSound(Text!Notes) /\ adorn \in Seq(Text!Adornments)
      /\ Len(Text!lines) \in Nat /\ Text!i \in 1..Len(Text!lines) /\ Text!i \in Nat
      /\ \A k \in 1..Len(Text!lines) : Text!lines[k] \in Text!Line
  BY LineIsTyped DEF TextInv, Emission, GoodPage
<1>3. title \in Text!Line /\ next \in Text!i..Len(Text!lines) + 1 /\ place \in Nat
  BY <1>2
<1>4. para \in Seq(Text!Line) /\ <<title>> \in Seq(Text!Line)
  BY <1>2, <1>3, ParagraphIs
<1>. HIDE DEF title
<1>5. level \in Nat
  <2>1. Len(adorn) \in Nat /\ DOMAIN adorn = 1..Len(adorn)
    BY <1>2, LenProperties
  <2>2. CASE known
    <3>1. level \in DOMAIN adorn
      BY <2>2
    <3>. QED
      BY <2>1, <3>1
  <2>3. CASE ~known
    BY <2>1, <2>3
  <2>. QED
    BY <2>2, <2>3
<1>6. NotesSound(own) /\ marks \in SUBSET Mark
  <2>1. PICK ls \in Seq(Text!Line) : ls = <<title>>
    BY <1>4
  <2>. QED
    BY <1>2, <2>1, InlineSound
<1>7. Text!Marks(notes, para) \in SUBSET Mark
  BY <1>4, <1>6, InlineSound
<1>. HIDE DEF own, marks, notes, level
<1>8. flushed \in Seq(Text!Emitted)
  <2>1. CASE para = <<>>
    BY <2>1
  <2>2. CASE para # <<>>
    <3>1. PICK m : m = Text!Marks(notes, para)
      OBVIOUS
    <3>2. m \in SUBSET Mark /\ flushed = <<Text!Piece("para", para, 0, m)>>
      BY <1>7, <2>2, <3>1
    <3>3. "para" \in {"para", "title", "item", "label", "term", "code", "flat", "omitted"} /\ 0 \in Nat
      OBVIOUS
    <3>4. Text!Piece("para", para, 0, m) \in Text!Emitted
      BY <1>2, <1>4, <3>2, <3>3, PieceIsTyped
    <3>. QED
      BY <3>2, <3>4
  <2>. QED
    BY <2>1, <2>2
<1>9. PICK heads : heads = flushed
  OBVIOUS
<1>10. /\ heads \in Seq(Text!Emitted) /\ Headed(para, heads, <<piece>>)
       /\ AllWide(heads, Text!Top.width) /\ (Len(heads) = 1 \/ para = <<>>)
  <2>1. PICK m : m = Text!Marks(notes, para)
    OBVIOUS
  <2>2. heads \in Seq(Text!Emitted)
        /\ heads = (IF para = <<>> THEN <<>> ELSE <<Text!Piece("para", para, 0, m)>>)
    BY <1>8, <1>9, <2>1
  <2>. QED
    BY <2>2, HeadIs
<1>11. Single(plain, "title", title, Text!Top.width)
  BY LinePieceIs DEF Single
<1>12. plain \in Text!Emitted
  <2>1. PICK ls \in Seq(Text!Line) : ls = <<title>>
    BY <1>4
  <2>2. "title" \in {"para", "title", "item", "label", "term", "code", "flat", "omitted"}
    OBVIOUS
  <2>3. Text!Piece("title", ls, level, marks) \in Text!Emitted
    BY <1>2, <1>5, <1>6, <2>1, <2>2, PieceIsTyped
  <2>. QED
    BY <2>1, <2>3
<1>. HIDE DEF plain
<1>13. piece \in Text!Emitted /\ Single(piece, "title", title, Text!Top.width)
  <2>1. \A q \in Text!Emitted : LET r == [q EXCEPT !.mark = mark]
            IN r \in Text!Emitted /\ r.form = q.form /\ r.ids = q.ids /\ r.width = q.width
               /\ r.cut = q.cut
    BY DEF Text!Emitted
  <2>2. /\ piece \in Text!Emitted /\ piece.form = plain.form /\ piece.ids = plain.ids
        /\ piece.width = plain.width /\ piece.cut = plain.cut
    BY <1>12, <2>1
  <2>3. Carries(piece) <=> Carries(plain)
    BY <2>2 DEF Carries
  <2>. QED
    BY <1>11, <2>2, <2>3 DEF Single
<1>. HIDE DEF piece
<1>14. PICK p, pos : p = Text!i /\ pos = [n \in {1} |-> place]
  OBVIOUS
<1>15. pos[1] = place
  BY <1>14
<1>16. \A n, forms : Appears(<<piece>>, pos, n, forms) <=> n = place /\ "title" \in forms
  BY <1>13, <1>15, OneAppears DEF Single
<1>17. Skips(Text!lines, p, next, FALSE, <<piece>>, pos)
  <2>1. \A n \in p..next - 1 : n = place \/ Text!lines[n].kind = "rule"
    BY <1>14
  <2>. QED
    BY <1>16, <2>1 DEF Skips, Takes, Forms
<1>18. Shuts(Text!lines, p, next, <<piece>>, pos, FALSE)
  <2>1. \A n \in p..next - 1 : n = place \/ Text!lines[n].kind = "rule"
    BY <1>14
  <2>. QED
    BY <1>16, <2>1 DEF Shuts, Text!Directive
<1>19. OfLine(piece, Text!lines[place])
  BY <1>13 DEF OfLine, Single, title
<1>20. Meets(next, <<piece>>, pos, FALSE)
  BY <1>3, <1>13, <1>14, <1>17, <1>18, <1>19, OneMeets DEF Single
<1>21. Leads(next, <<piece>>, pos, FALSE)
  BY <1>1, <1>2, <1>9, <1>10, <1>20, HeadedDoes
<1>. QED
  BY <1>1, <1>21 DEF Leads, GoesOn

LEMMA TitleGoes == ASSUME TextInv, Text!Title PROVE GoesOn
<1>1. Text!More
  BY DEF Text!Title
<1>2. /\ Len(Text!lines) \in Nat /\ Text!i \in 1..Len(Text!lines) /\ Text!i \in Nat
      /\ \A k \in 1..Len(Text!lines) : Text!lines[k] \in Text!Line
  BY <1>1, LineIsTyped
<1>3. \A k \in 1..Len(Text!lines) : Text!lines[k].arg \in Text!Adornments
  <2>1. \A l \in Text!Line : l.arg \in Text!Adornments
    BY DEF Text!Line, Text!Adornments
  <2>. QED
    BY <1>2, <2>1
<1>4. PICK p : p = Text!i
  OBVIOUS
<1>5. CASE /\ Text!Overlined
           /\ Text!Section(Text!lines[Text!i + 1],
                           IF Text!line.indent = 0 THEN Text!line.arg ELSE " ", Text!i + 3)
  <2>1. /\ p + 2 <= Len(Text!lines) /\ Text!lines[p].kind = "rule" /\ Text!lines[p + 2].kind = "rule"
    BY <1>4, <1>5 DEF Text!Overlined, Text!IsRule
  <2>2. PICK next, place : next = Text!i + 3 /\ place = Text!i + 1
    OBVIOUS
  <2>6. PICK mark : mark = IF Text!line.indent = 0 THEN Text!line.arg ELSE " "
    OBVIOUS
  <2>a. mark \in Text!Adornments
    <3>1. Text!line.arg \in Text!Adornments /\ " " \in Text!Adornments
      BY <1>2, <1>3 DEF Text!line, Text!Adornments
    <3>. QED
      BY <2>6, <3>1
  <2>b. Text!Section(Text!lines[place], mark, next)
    BY <1>5, <2>2, <2>6, Zenon
  <2>3. next \in Text!i + 1..Len(Text!lines) + 1 /\ place \in Text!i..next - 1
    BY <1>2, <1>4, <2>1, <2>2
  <2>4. \A n \in p..next - 1 : n = p \/ n = place \/ n = p + 2
    BY <1>2, <1>4, <2>2
  <2>5. \A n \in Text!i..next - 1 : n = place \/ Text!lines[n].kind = "rule"
    BY <1>4, <2>1, <2>4
  <2>. QED
    BY <1>1, <2>3, <2>5, <2>a, <2>b, SectionGoes
<1>6. CASE Text!Underlined /\ Text!Section(Text!line, Text!lines[Text!i + 1].arg, Text!i + 2)
  <2>1. /\ p + 1 <= Len(Text!lines) /\ Text!lines[p + 1].kind = "rule"
    BY <1>4, <1>6 DEF Text!Underlined, Text!IsRule
  <2>2. PICK next, mark : next = p + 2 /\ mark = Text!lines[p + 1].arg
    OBVIOUS
  <2>3. /\ next \in Text!i + 1..Len(Text!lines) + 1 /\ p \in Text!i..next - 1
        /\ p + 1 \in 1..Len(Text!lines)
    BY <1>2, <1>4, <2>1, <2>2
  <2>4. mark \in Text!Adornments /\ Text!Section(Text!lines[p], mark, next)
    BY <1>3, <1>4, <1>6, <2>2, <2>3 DEF Text!line
  <2>5. \A n \in p..next - 1 : n = p \/ n = p + 1
    BY <1>2, <1>4, <2>2
  <2>6. \A n \in Text!i..next - 1 : n = p \/ Text!lines[n].kind = "rule"
    BY <1>4, <2>1, <2>5
  <2>. QED
    BY <1>1, <2>3, <2>4, <2>6, SectionGoes
<1>. QED
  BY <1>5, <1>6 DEF Text!Title

-----------------------------------------------------------------------------
(* Blocks below a line.                                                     *)

(* The pieces of the line itself. *)
OfItself(piece, l, w) ==
    /\ piece \in Text!Emitted /\ piece.form \in {"label", "term"} /\ piece.pad = <<>>
    /\ piece.width = w /\ OfLine(piece, l) /\ (piece.form = "term" => Carries(piece))
Itself(pieces, form, l, w) ==
    /\ pieces \in Seq(Text!Emitted) /\ Len(pieces) \in {0, 1}
    /\ \A k \in 1..Len(pieces) : OfItself(pieces[k], l, w) /\ pieces[k].form = form
    /\ form = "term" => Len(pieces) = 1

LEMMA BelowPieces ==
    ASSUME TextInv, Text!More, NEW form \in {"label", "term", "none"},
           NEW own, own = (IF form = "term" THEN <<Text!line>> ELSE <<>>),
           NEW notes, notes = Text!Inline(Text!ParaNotes, own),
           NEW pieces, pieces = (IF form = "none" THEN <<>>
                                 ELSE <<Text!Piece(form, own, 0, Text!Marks(notes, own))>>)
    PROVE  Itself(pieces, form, Text!lines[Text!i], Text!Top.width)
<1>1. /\ frames # <<>> /\ Text!line = Text!lines[Text!i] /\ Text!line \in Text!Line
  BY LineIsTyped DEF Text!line
<1>2. CASE form = "none"
  <2>1. pieces = <<>> /\ Len(<<>>) = 0 /\ <<>> \in Seq(Text!Emitted)
    BY <1>2, EmptySeq
  <2>. QED
    BY <1>2, <2>1 DEF Itself
<1>3. CASE form # "none"
  <2>1. own \in Seq(Text!Line) /\ form \in {"item", "label", "term"}
    <3>1. <<Text!line>> \in Seq(Text!Line) /\ <<>> \in Seq(Text!Line)
      BY <1>1
    <3>. QED
      BY <1>3, <3>1
  <2>2. PICK marks, piece : marks = Text!Marks(notes, own) /\ piece = Text!Piece(form, own, 0, marks)
    OBVIOUS
  <2>3. pieces = <<piece>>
    BY <1>3, <2>2
  <2>4. pieces \in Seq(Text!Emitted)
    <3>1. Plain(pieces, notes.links)
      BY <1>1, <2>1, <2>2, <2>3, OwnIsPlain
    <3>. QED
      BY <3>1 DEF Plain
  <2>5. Len(pieces) = 1 /\ pieces[1] = piece /\ 1..Len(pieces) = {1}
    BY <2>3
  <2>6. piece \in Text!Emitted
    BY <2>4, <2>5, ElementOfSeq
  <2>7. piece.form = form /\ piece.pad = <<>> /\ piece.width = Text!Top.width
    BY <2>2, PieceIs
  <2>8. OfLine(piece, Text!line) /\ (form = "term" => Carries(piece))
    <3>1. CASE form = "term"
      <4>1. piece = Text!Piece("term", <<Text!line>>, 0, marks)
        BY <2>2, <3>1
      <4>. QED
        BY <4>1, LinePieceIs DEF OfLine
    <3>2. CASE form # "term"
      <4>1. piece = Text!Piece(form, <<>>, 0, marks) /\ DOMAIN <<>> = {}
        BY <2>2, <3>2
      <4>2. piece.ids = <<>> /\ ~piece.cut
        BY <4>1, PieceIs, EmptyIds
      <4>. QED
        BY <3>2, <4>2 DEF OfLine
    <3>. QED
      BY <3>1, <3>2
  <2>9. OfItself(piece, Text!lines[Text!i], Text!Top.width)
    BY <1>1, <1>3, <2>6, <2>7, <2>8 DEF OfItself
  <2>. QED
    BY <2>4, <2>5, <2>7, <2>9 DEF Itself
<1>. QED
  BY <1>2, <1>3

(* The pieces of a block that is too deep. *)
LEMMA FlatPieces ==
    ASSUME Text!TypeOK, frames # <<>>, NEW body \in Seq(Text!Line), NEW indent \in Nat,
           NEW flat, flat = Text!Flat(body, indent)
    PROVE  /\ flat \in Seq(Text!Emitted) /\ Len(flat) = Len(body)
           /\ \A n \in 1..Len(body) : Single(flat[n], "flat", body[n], Text!Top.width)
<1>1. flat \in Seq(Text!Emitted)
  <2>1. \A targets : Plain(flat, targets)
    BY FlatIsPlain
  <2>. QED
    BY <2>1 DEF Plain
<1>2. Len(body) \in Nat /\ DOMAIN body = 1..Len(body) /\ \A n \in 1..Len(body) : body[n] \in Text!Line
  BY LineFacts
<1>3. flat = [n \in 1..Len(body) |-> [Text!Piece("flat", <<body[n]>>, 0, {}) EXCEPT !.pad = <<indent>>]]
  BY <1>2 DEF Text!Flat
<1>4. DOMAIN flat = 1..Len(body)
  BY <1>3
<1>5. Len(flat) = Len(body)
  BY <1>1, <1>2, <1>4
<1>6. ASSUME NEW n \in 1..Len(body)
      PROVE  Single(flat[n], "flat", body[n], Text!Top.width)
  <2>1. PICK l, plain, piece : /\ l = body[n] /\ plain = Text!Piece("flat", <<l>>, 0, {})
                               /\ piece = flat[n]
    OBVIOUS
  <2>2. Single(plain, "flat", l, Text!Top.width) /\ plain \in Text!Emitted
    <3>1. l \in Text!Line
      BY <1>2, <2>1
    <3>2. "flat" \in {"para", "item", "label", "term", "code", "flat", "omitted"}
      OBVIOUS
    <3>3. plain \in Text!Emitted
      BY <2>1, <3>1, <3>2, OfOneLine
    <3>. QED
      BY <2>1, <3>3, LinePieceIs DEF Single
  <2>3. piece = [plain EXCEPT !.pad = <<indent>>]
    BY <1>3, <2>1
  <2>4. \A q \in Text!Emitted : LET r == [q EXCEPT !.pad = <<indent>>]
            IN r.form = q.form /\ r.ids = q.ids /\ r.width = q.width /\ r.cut = q.cut
    BY DEF Text!Emitted
  <2>5. /\ piece.form = plain.form /\ piece.ids = plain.ids
        /\ piece.width = plain.width /\ piece.cut = plain.cut
    BY <2>2, <2>3, <2>4
  <2>6. Single(piece, "flat", l, Text!Top.width)
    BY <2>2, <2>5 DEF Single, Carries
  <2>. QED
    BY <2>1, <2>6
<1>. QED
  BY <1>1, <1>5, <1>6

LEMMA DedentKeeps ==
    ASSUME NEW l \in Text!Line, NEW by
    PROVE  Text!Dedent(l, by).id = l.id
<1>1. CASE Text!Blank(l) \/ l.indent >= by
  BY <1>1 DEF Text!Dedent, Text!Line
<1>2. CASE ~(Text!Blank(l) \/ l.indent >= by)
  BY <1>2 DEF Text!Dedent, Text!Shortened, Text!Emptied, Text!Line
<1>. QED
  BY <1>1, <1>2

(* The lines from line p to the block below it. *)
Heading(lines, p, form, first) ==
    /\ p \in 1..Len(lines) /\ first \in p + 1..Len(lines) + 1
    /\ \A n \in p + 1..first - 1 : lines[n].kind \in {"blank", "option"}
    /\ \/ form \in {"label", "none"} /\ lines[p].kind \in Text!Directive
       \/ form = "term" /\ lines[p].kind \in {"text", "rule"}

(* The block, if there is one. *)
Body(lines, p, first, end, body) ==
    /\ body \in Seq(Text!Line) /\ end \in first..Len(lines) + 1
    /\ Len(body) = end - first /\ Stops(lines, end, lines[p].indent)
    /\ \A n \in first..end - 1 : Text!Blank(lines[n]) \/ lines[n].indent > lines[p].indent
    /\ body # <<>> => /\ BlockBelow(lines, p, first, end)
                      /\ body = [n \in 1..end - first |->
                                     Text!Dedent(lines[first + n - 1], lines[first].indent)]

LEMMA BelowIs ==
    ASSUME TextInv, Text!More, NEW form \in {"label", "term", "none"},
           form \in {"label", "none"} => Text!lines[Text!i].kind \in Text!Directive,
           form = "term" => Text!lines[Text!i].kind \in {"text", "rule"},
           NEW from, from = (IF form = "term" THEN Text!i + 1
                             ELSE Text!SkipOptions(Text!lines, Text!i + 1)),
           NEW block, block = Text!ExtractBlock(Text!lines, from, Text!line.indent),
           NEW first, first = Text!NextNonBlank(Text!lines, from)
    PROVE  /\ Heading(Text!lines, Text!i, form, first)
           /\ Body(Text!lines, Text!i, first, block.end, block.body)
<1>. DEFINE lines == Text!lines
<1>1. /\ lines \in Seq(Text!Line) /\ Len(lines) \in Nat /\ Text!i \in 1..Len(lines)
      /\ Text!line = lines[Text!i]
  BY LineIsTyped DEF Text!line
<1>. HIDE DEF lines
<1>2. PICK p, base, next : p = Text!i /\ base = lines[p].indent /\ next = p + 1
  OBVIOUS
<1>3. p \in Nat /\ next \in 1..Len(lines) + 1 /\ next \in Nat /\ base \in Nat /\ p \in 1..Len(lines)
  BY <1>1, <1>2, LineFacts
<1>4. /\ from \in next..Len(lines) + 1 /\ from \in 1..Len(lines) + 1
      /\ \A n \in next..from - 1 : lines[n].kind = "option"
  <2>1. CASE form = "term"
    BY <1>2, <1>3, <2>1
  <2>2. CASE form # "term"
    <3>1. from = Text!SkipOptions(lines, next)
      BY <1>2, <2>2 DEF lines
    <3>. QED
      BY <1>1, <1>3, <3>1, SkipOptionsIs
  <2>. QED
    BY <2>1, <2>2
<1>5. Extracted(lines, from, base, first, block)
  BY <1>1, <1>2, <1>3, <1>4, BlockIs DEF lines
<1>6. /\ first \in from..Len(lines) + 1 /\ first \in Nat
      /\ \A n \in from..first - 1 : Text!Blank(lines[n])
  BY <1>5 DEF Extracted
<1>7. Heading(lines, p, form, first)
  <2>1. first \in p + 1..Len(lines) + 1
    BY <1>1, <1>2, <1>3, <1>4, <1>6
  <2>2. \A n \in p + 1..first - 1 : n \in next..from - 1 \/ n \in from..first - 1
    BY <1>2, <1>3, <1>4, <1>6
  <2>3. \A n \in p + 1..first - 1 : lines[n].kind \in {"blank", "option"}
    BY <1>4, <1>6, <2>2 DEF Text!Blank
  <2>. QED
    BY <1>2, <1>3, <2>1, <2>3 DEF Heading, lines
<1>8. block.body \in Seq(Text!Line)
  BY <1>1, <1>3, <1>4, ExtractBlockIn, <1>2 DEF lines
<1>9. PICK end, body : end = block.end /\ body = block.body
  OBVIOUS
<1>10. CASE body = <<>> /\ end = first /\ Stops(lines, first, base)
  <2>1. Len(body) = end - first /\ end \in first..Len(lines) + 1
    BY <1>1, <1>6, <1>10
  <2>2. \A n \in first..end - 1 : FALSE
    BY <1>6, <1>10
  <2>. QED
    BY <1>2, <1>7, <1>8, <1>9, <1>10, <2>1, <2>2 DEF Body, lines
<1>11. CASE /\ end \in first + 1..Len(lines) + 1 /\ end \in Nat
            /\ ~Text!Blank(lines[first]) /\ lines[first].indent > base
            /\ body = [n \in 1..end - first |-> Text!Dedent(lines[first + n - 1], lines[first].indent)]
            /\ \A n \in first..end - 1 : Text!Blank(lines[n]) \/ lines[n].indent > base
            /\ Stops(lines, end, base)
  <2>1. DOMAIN body = 1..end - first /\ end - first \in Nat
    BY <1>6, <1>11
  <2>2. Len(body) = end - first
    BY <1>8, <1>9, <2>1
  <2>3. end \in first..Len(lines) + 1 /\ first \in p + 1..Len(lines)
    <3>1. first \in p + 1..Len(lines) + 1
      BY <1>7 DEF Heading
    <3>2. first \in Nat /\ p \in Nat /\ Len(lines) \in Nat
      BY <1>1, <1>3, <1>6
    <3>3. end \in first + 1..Len(lines) + 1 /\ end \in Nat
      BY <1>11
    <3>. QED
      BY <3>1, <3>2, <3>3
  <2>4. lines[p].kind \notin {"blank", "option"}
    BY <1>7 DEF Heading, Text!Directive
  <2>5. BlockBelow(lines, p, first, end)
    <3>1. OptionsFirst(lines, p, first)
      <4>1. PICK last : last = from - 1
        OBVIOUS
      <4>2. last \in p..first - 1 /\ p + 1..last = next..from - 1 /\ last + 1 = from
        BY <1>1, <1>2, <1>3, <1>4, <1>6, <4>1
      <4>3. last = p \/ lines[p].kind \in Text!Directive
        <5>1. CASE form = "term"
          BY <1>2, <1>3, <4>1, <5>1
        <5>2. CASE form # "term"
          BY <1>2, <5>2 DEF lines
        <5>. QED
          BY <5>1, <5>2
      <4>4. \A n \in p + 1..last : lines[n].kind = "option"
        BY <1>4, <4>2
      <4>5. \A n \in last + 1..first - 1 : Text!Blank(lines[n])
        BY <1>6, <4>2
      <4>. QED
        BY <4>2, <4>3, <4>4, <4>5 DEF OptionsFirst
    <3>. QED
      BY <1>2, <1>7, <1>11, <2>3, <2>4, <3>1 DEF BlockBelow, Heading
  <2>6. Body(lines, p, first, end, body)
    BY <1>2, <1>8, <1>9, <1>11, <2>2, <2>3, <2>5 DEF Body
  <2>. QED
    BY <1>2, <1>7, <1>9, <2>6 DEF lines
<1>. QED
  BY <1>2, <1>5, <1>9, <1>10, <1>11 DEF Extracted

AppearsAs(pieces, pos, p, form) ==
    /\ form = "term" => Appears(pieces, pos, p, {"term"})
    /\ \A n, forms : Appears(pieces, pos, n, forms) => n = p /\ form \in forms

LEMMA ItselfAppears ==
    ASSUME NEW pieces, NEW form, NEW l, NEW w, Itself(pieces, form, l, w),
           NEW pos, NEW p, \A k \in 1..Len(pieces) : pos[k] = p
    PROVE  AppearsAs(pieces, pos, p, form)
<1>1. \A k \in 1..Len(pieces) : pieces[k].form = form /\ (form = "term" => Carries(pieces[k]))
  BY DEF Itself, OfItself
<1>2. form = "term" => 1 \in 1..Len(pieces)
  <2>1. form = "term" => Len(pieces) = 1
    BY DEF Itself
  <2>. QED
    BY <2>1
<1>3. form = "term" => Appears(pieces, pos, p, {"term"})
  BY <1>1, <1>2 DEF Appears
<1>. QED
  BY <1>1, <1>3 DEF Appears, AppearsAs

(* The line and its options, before a block that is read. *)
LEMMA HeadingMeets ==
    ASSUME TextInv, Text!More, NEW form, NEW first, NEW pieces,
           Heading(Text!lines, Text!i, form, first),
           Itself(pieces, form, Text!lines[Text!i], Text!Top.width),
           NEW open, open = TRUE, NEW pos, pos = [k \in 1..Len(pieces) |-> Text!i]
    PROVE  Meets(first, pieces, pos, open)
<1>1. PICK lines, p, w : lines = Text!lines /\ p = Text!i /\ w = Text!Top.width
  OBVIOUS
<1>2. /\ Len(lines) \in Nat /\ p \in 1..Len(lines) /\ p \in Nat
      /\ first \in p + 1..Len(lines) + 1
      /\ \A n \in p + 1..first - 1 : lines[n].kind \in {"blank", "option"}
      /\ \/ form \in {"label", "none"} /\ lines[p].kind \in Text!Directive
         \/ form = "term" /\ lines[p].kind \in {"text", "rule"}
  BY <1>1, LineIsTyped DEF Heading
<1>3. /\ pieces \in Seq(Text!Emitted) /\ Len(pieces) \in {0, 1}
      /\ \A k \in 1..Len(pieces) : OfItself(pieces[k], lines[p], w) /\ pos[k] = p
  BY <1>1 DEF Itself
<1>4. first \in p..Len(lines) + 1 /\ p \in p..first - 1 /\ p < first
      /\ \A n \in p..first - 1 : n = p \/ n \in p + 1..first - 1
  BY <1>2
<1>5. /\ form = "term" => Appears(pieces, pos, p, {"term"})
      /\ \A n, forms : Appears(pieces, pos, n, forms) => n = p /\ form \in forms
  <2>1. PICK l : l = lines[p]
    OBVIOUS
  <2>2. Itself(pieces, form, l, w) /\ \A k \in 1..Len(pieces) : pos[k] = p
    BY <1>1, <1>3, <2>1
  <2>3. AppearsAs(pieces, pos, p, form)
    BY <2>2, ItselfAppears
  <2>. QED
    BY <2>3 DEF AppearsAs
<1>6. \A k \in 1..Len(pieces) :
          /\ pos[k] \in p..first - 1 /\ OfLine(pieces[k], lines[pos[k]])
          /\ pieces[k].form \in {"label", "term"} /\ pos[k] = p /\ pieces[k].pad = <<>>
          /\ pieces[k].width = w
  BY <1>3, <1>4 DEF OfItself
<1>7. Placed(lines, p, first, FALSE, pieces, pos)
  <2>1. ~ \E j, k \in 1..Len(pieces) : j < k
    BY <1>3
  <2>. QED
    BY <1>6, <2>1 DEF Placed
<1>8. Skips(lines, p, first, FALSE, pieces, pos)
  <2>1. form = "term" => Takes(FALSE, p, pieces, pos, p)
    <3>1. Appears(pieces, pos, p, {"term"}) => Appears(pieces, pos, p, Forms \ {"omitted"})
      BY DEF Appears, Forms
    <3>. QED
      BY <1>5, <3>1 DEF Takes
  <2>2. \A n \in p..first - 1 :
            \/ lines[n].kind \in {"blank", "option", "rule", "note", "tab", "only", "code"}
            \/ Takes(FALSE, p, pieces, pos, n)
    BY <1>2, <1>4, <2>1 DEF Text!Directive
  <2>. QED
    BY <2>2 DEF Skips
<1>9. Shuts(lines, p, first, pieces, pos, open)
  <2>1. \A n \in p..first - 1 : n = p \/ lines[n].kind \notin Text!Directive
    BY <1>2, <1>4 DEF Text!Directive
  <2>. QED
    BY <1>5, <2>1 DEF Shuts
<1>10. Deep(lines, p, pieces, pos) /\ AllWide(pieces, w)
  BY <1>6 DEF Deep, AllWide
<1>. QED
  BY <1>1, <1>3, <1>4, <1>7, <1>8, <1>9, <1>10 DEF Meets

(* The line, its options, and the block, if it is not read. *)
Showing(rest, pos, p, form, base, size) ==
    /\ form = "term" => Appears(rest, pos, p, {"term"})
    /\ \A n, forms : Appears(rest, pos, n, forms) => (n = p /\ form \in forms) \/ "flat" \in forms
    /\ \A n \in 1..size : Appears(rest, pos, base + n, {"flat"})

LEMMA BodyMeets ==
    ASSUME TextInv, Text!More, NEW form, NEW first, NEW end, NEW body, NEW pieces,
           Heading(Text!lines, Text!i, form, first),
           Body(Text!lines, Text!i, first, end, body),
           Itself(pieces, form, Text!lines[Text!i], Text!Top.width),
           NEW indent \in Nat, NEW flat, flat = Text!Flat(body, indent)
    PROVE  \E pos : Meets(end, pieces \o flat, pos, FALSE)
<1>1. PICK lines, p, w : lines = Text!lines /\ p = Text!i /\ w = Text!Top.width
  OBVIOUS
<1>2. /\ frames # <<>> /\ Text!TypeOK /\ lines \in Seq(Text!Line)
      /\ Len(lines) \in Nat /\ p \in 1..Len(lines) /\ p \in Nat /\ lines[p].indent \in Nat
      /\ \A n \in 1..Len(lines) : lines[n] \in Text!Line
  <2>1. frames # <<>> /\ Text!TypeOK /\ lines \in Seq(Text!Line) /\ p \in 1..Len(lines)
    BY <1>1, LineIsTyped
  <2>. QED
    BY <2>1, LineFacts
<1>3. /\ first \in p + 1..Len(lines) + 1
      /\ \A n \in p + 1..first - 1 : lines[n].kind \in {"blank", "option"}
      /\ \/ form \in {"label", "none"} /\ lines[p].kind \in Text!Directive
         \/ form = "term" /\ lines[p].kind \in {"text", "rule"}
  BY <1>1 DEF Heading
<1>4. PICK size : size = end - first
  OBVIOUS
<1>5. /\ body \in Seq(Text!Line) /\ end \in first..Len(lines) + 1
      /\ Len(body) = size /\ Stops(lines, end, lines[p].indent)
      /\ \A n \in first..end - 1 : Text!Blank(lines[n]) \/ lines[n].indent > lines[p].indent
  BY <1>1, <1>4 DEF Body
<1>6. /\ size \in Nat /\ first \in Nat /\ end \in Nat /\ p < first /\ first <= end /\ end = first + size
      /\ end \in p..Len(lines) + 1 /\ p \in p..end - 1 /\ first \in Nat \ {0}
      /\ end <= Len(lines) + 1 /\ end \in Nat \ {0}
      /\ \A n \in p..end - 1 : n = p \/ n \in p + 1..first - 1 \/ n \in first..end - 1
  <2>1. first \in p + 1..Len(lines) + 1 /\ end \in first..Len(lines) + 1 /\ size = end - first
    BY <1>3, <1>4, <1>5
  <2>. QED
    BY <1>2, <2>1
<1>7. /\ pieces \in Seq(Text!Emitted) /\ Len(pieces) \in {0, 1}
      /\ \A k \in 1..Len(pieces) : OfItself(pieces[k], lines[p], w) /\ pieces[k].form = form
  BY <1>1 DEF Itself
<1>8. /\ flat \in Seq(Text!Emitted) /\ Len(flat) = size
      /\ \A n \in 1..size : Single(flat[n], "flat", body[n], w)
  BY <1>1, <1>2, <1>5, FlatPieces
<1>9. \A n \in 1..size : /\ BlockBelow(lines, p, first, end)
                         /\ body[n] = Text!Dedent(lines[first + n - 1], lines[first].indent)
  <2>1. ASSUME NEW n \in 1..size
        PROVE  /\ BlockBelow(lines, p, first, end)
               /\ body[n] = Text!Dedent(lines[first + n - 1], lines[first].indent)
    <3>1. body # <<>>
      <4>1. Len(<<>>) = 0 /\ size # 0
        BY <1>6
      <4>. QED
        BY <1>5, <4>1
    <3>2. /\ BlockBelow(lines, p, first, end)
          /\ body = [k \in 1..end - first |->
                         Text!Dedent(lines[first + k - 1], lines[first].indent)]
      BY <1>1, <3>1 DEF Body
    <3>. QED
      BY <1>4, <3>2
  <2>. QED
    BY <2>1
<1>10. PICK c, rest, base, pos :
           /\ c = Len(pieces) /\ rest = pieces \o flat /\ base = first - 1
           /\ pos = [k \in 1..c + size |-> IF k <= c THEN p ELSE base + (k - c)]
  OBVIOUS
<1>11. /\ c \in {0, 1} /\ c \in Nat /\ base \in Nat /\ p <= base /\ end = base + size + 1
       /\ rest \in Seq(Text!Emitted) /\ Len(rest) = c + size
       /\ \A k \in 1..c : rest[k] = pieces[k]
       /\ \A k \in 1..size : rest[c + k] = flat[k]
       /\ \A k \in 1..c + size : (k <= c /\ k \in 1..c) \/ (k > c /\ k - c \in 1..size)
  <2>1. c \in {0, 1} /\ c \in Nat /\ base \in Nat /\ p <= base /\ end = base + size + 1
    <3>1. c \in {0, 1}
      BY <1>7, <1>10
    <3>2. base = first - 1
      BY <1>10
    <3>3. p \in Nat /\ first \in Nat /\ size \in Nat /\ p < first /\ end = first + size
      BY <1>2, <1>6
    <3>4. base \in Nat /\ p <= base /\ end = base + size + 1
      BY <3>2, <3>3
    <3>. QED
      BY <3>1, <3>4
  <2>2. /\ Len(flat) = size /\ rest \in Seq(Text!Emitted) /\ Len(rest) = c + size
        /\ \A k \in 1..c : rest[k] = pieces[k]
        /\ \A k \in 1..size : rest[c + k] = flat[k]
    BY <1>7, <1>8, <1>10, Concatenated
  <2>3. \A k \in 1..c + size : (k <= c /\ k \in 1..c) \/ (k > c /\ k - c \in 1..size)
    <3>1. c \in Nat /\ size \in Nat
      BY <1>6, <2>1
    <3>. QED
      BY <3>1
  <2>. QED
    BY <2>1, <2>2, <2>3
<1>12. ASSUME NEW k \in 1..c + size
       PROVE  \/ /\ pos[k] = p /\ k <= c
                 /\ OfItself(rest[k], lines[p], w) /\ rest[k].form = form
              \/ \E n \in 1..size :
                     /\ pos[k] = base + n /\ k = c + n
                     /\ Single(rest[k], "flat", body[n], w)
  <2>1. CASE k <= c /\ k \in 1..c
    BY <1>7, <1>10, <1>11, <2>1
  <2>2. CASE k > c /\ k - c \in 1..size
    <3>1. PICK n \in 1..size : n = k - c
      BY <2>2
    <3>2. k = c + n /\ pos[k] = base + n
      BY <1>6, <1>10, <1>11, <2>2, <3>1
    <3>. QED
      BY <1>8, <1>11, <3>1, <3>2
  <2>. QED
    BY <1>11, <2>1, <2>2
<1>13. \A n \in 1..size : /\ base + n \in first..end - 1 /\ base + n \in 1..Len(lines)
                          /\ base + n \in Nat /\ first + n - 1 = base + n /\ p < base + n
                          /\ c + n \in 1..c + size
  <2>1. base = first - 1
    BY <1>10
  <2>. QED
    BY <1>2, <1>6, <1>11, <2>1
<1>14. \A n \in 1..size :
           /\ body[n] = Text!Dedent(lines[base + n], lines[first].indent)
           /\ body[n].id = lines[base + n].id
  <2>. SUFFICES ASSUME NEW n \in 1..size
                PROVE  /\ body[n] = Text!Dedent(lines[base + n], lines[first].indent)
                       /\ body[n].id = lines[base + n].id
    OBVIOUS
  <2>1. first + n - 1 = base + n /\ lines[base + n] \in Text!Line
    BY <1>2, <1>13
  <2>2. body[n] = Text!Dedent(lines[base + n], lines[first].indent)
    BY <1>9, <2>1
  <2>. QED
    BY <2>1, <2>2, DedentKeeps
<1>15. Placed(lines, p, end, FALSE, rest, pos)
  <2>1. ASSUME NEW k \in 1..Len(rest)
        PROVE  /\ pos[k] \in p..end - 1 /\ OfLine(rest[k], lines[pos[k]]) /\ rest[k].form # "para"
               /\ rest[k].form \in {"item", "term"} => pos[k] = p /\ rest[k].pad = <<>>
    <3>0. k \in 1..c + size
      BY <1>11
    <3>1. CASE pos[k] = p /\ OfItself(rest[k], lines[p], w)
      BY <1>6, <3>1 DEF OfItself
    <3>2. CASE \E n \in 1..size : /\ pos[k] = base + n /\ k = c + n
                                  /\ Single(rest[k], "flat", body[n], w)
      <4>1. PICK n \in 1..size : pos[k] = base + n /\ Single(rest[k], "flat", body[n], w)
        BY <3>2
      <4>2. PICK piece, m : piece = rest[k] /\ m = base + n
        OBVIOUS
      <4>3. piece.form = "flat" /\ OfLine(piece, lines[m]) /\ m \in p..end - 1
        <5>1. m \in p..end - 1
          BY <1>2, <1>6, <1>13, <4>2
        <5>. QED
          BY <1>14, <4>1, <4>2, <5>1 DEF Single, OfLine
      <4>. QED
        BY <4>1, <4>2, <4>3
    <3>. QED
      BY <1>12, <3>0, <3>1, <3>2
  <2>2. ASSUME NEW j \in 1..Len(rest), NEW k \in 1..Len(rest), j < k
        PROVE  pos[j] < pos[k]
    <3>1. /\ j \in 1..c + size /\ k \in 1..c + size
          /\ pos[j] = (IF j <= c THEN p ELSE base + (j - c))
          /\ pos[k] = (IF k <= c THEN p ELSE base + (k - c))
      BY <1>10, <1>11
    <3>2. k > c
      BY <1>11, <2>2, <3>1
    <3>. QED
      BY <1>2, <1>6, <1>11, <2>2, <3>1, <3>2
  <2>. QED
    BY <2>1, <2>2 DEF Placed
<1>16. Showing(rest, pos, p, form, base, size)
  <2>1. ASSUME form = "term"
        PROVE  Appears(rest, pos, p, {"term"})
    <3>1. c = 1
      BY <1>1, <1>10, <2>1 DEF Itself
    <3>2. 1 \in 1..c + size /\ 1 \in 1..c /\ 1 \in 1..Len(rest)
      BY <1>6, <1>11, <3>1
    <3>3. pos[1] = p /\ rest[1].form = "term" /\ OfItself(rest[1], lines[p], w)
      BY <1>7, <1>10, <1>11, <2>1, <3>1, <3>2
    <3>. QED
      BY <3>2, <3>3 DEF Appears, OfItself
  <2>2. ASSUME NEW n, NEW forms, Appears(rest, pos, n, forms)
        PROVE  (n = p /\ form \in forms) \/ "flat" \in forms
    <3>1. PICK k \in 1..Len(rest) : pos[k] = n /\ rest[k].form \in forms
      BY <2>2 DEF Appears
    <3>2. k \in 1..c + size
      BY <1>11
    <3>. QED
      BY <1>12, <3>1, <3>2 DEF Single
  <2>3. ASSUME NEW n \in 1..size
        PROVE  Appears(rest, pos, base + n, {"flat"})
    <3>1. c + n \in 1..c + size /\ c + n \in 1..Len(rest) /\ c + n > c /\ (c + n) - c = n
      BY <1>11, <1>13
    <3>2. pos[c + n] = base + n
      BY <1>10, <3>1
    <3>3. Single(rest[c + n], "flat", body[n], w)
      BY <1>8, <1>11
    <3>. QED
      BY <3>1, <3>2, <3>3 DEF Appears, Single
  <2>. QED
    BY <2>1, <2>2, <2>3 DEF Showing
<1>17. Skips(lines, p, end, FALSE, rest, pos)
  <2>1. form = "term" => Takes(FALSE, p, rest, pos, p)
    <3>1. Appears(rest, pos, p, {"term"}) => Appears(rest, pos, p, Forms \ {"omitted"})
      BY DEF Appears, Forms
    <3>. QED
      BY <1>16, <3>1 DEF Takes, Showing
  <2>2. ASSUME NEW n \in first..end - 1
        PROVE  Takes(FALSE, p, rest, pos, n)
    <3>1. PICK x \in 1..size : n = base + x
      <4>1. n - base \in 1..size /\ n = base + (n - base)
        BY <1>6, <1>10, <1>11
      <4>. QED
        BY <4>1
    <3>2. Appears(rest, pos, n, {"flat"})
      BY <1>16, <3>1 DEF Showing
    <3>3. Appears(rest, pos, n, {"flat"}) => Appears(rest, pos, n, Forms \ {"omitted"})
      BY DEF Appears, Forms
    <3>. QED
      BY <3>2, <3>3 DEF Takes
  <2>3. \A n \in p..end - 1 :
            \/ lines[n].kind \in {"blank", "option", "rule", "note", "tab", "only", "code"}
            \/ Takes(FALSE, p, rest, pos, n)
    BY <1>3, <1>6, <2>1, <2>2 DEF Text!Directive
  <2>. QED
    BY <2>3 DEF Skips
<1>18. Shuts(lines, p, end, rest, pos, FALSE)
  <2>1. Ended(lines, first, end)
    BY <1>2, <1>5, <1>6, DeeperIsEnded
  <2>2. ASSUME NEW n \in p..end - 1,
               lines[n].kind \in Text!Directive \/ Appears(rest, pos, n, {"term"})
        PROVE  Stops(lines, end, lines[n].indent)
    <3>1. CASE n = p
      BY <1>5, <3>1
    <3>2. CASE n # p
      <4>1. lines[n].kind \in Text!Directive
        BY <1>16, <2>2, <3>2 DEF Showing
      <4>2. n \in first..end - 1 /\ ~Text!Blank(lines[n])
        BY <1>3, <1>6, <3>2, <4>1 DEF Text!Directive, Text!Blank
      <4>. QED
        BY <2>1, <4>2 DEF Ended
    <3>. QED
      BY <3>1, <3>2
  <2>. QED
    BY <2>2 DEF Shuts
<1>19. Deep(lines, p, rest, pos)
  <2>. SUFFICES ASSUME NEW k \in 1..Len(rest), rest[k].form = "flat"
                PROVE  \E a, b :
                           /\ BlockBelow(lines, p, a, b) /\ pos[k] \in a..b - 1
                           /\ rest[k].cut => Text!Dedent(lines[pos[k]], lines[a].indent).cut > 0
    BY DEF Deep
  <2>1. k \in 1..c + size
    BY <1>11
  <2>2. ~OfItself(rest[k], lines[p], w)
    BY DEF OfItself
  <2>3. PICK n \in 1..size : pos[k] = base + n /\ Single(rest[k], "flat", body[n], w)
    BY <1>12, <2>1, <2>2
  <2>4. PICK piece, m : piece = rest[k] /\ m = base + n
    OBVIOUS
  <2>5. piece.cut => Text!Dedent(lines[m], lines[first].indent).cut > 0
    BY <1>14, <2>3, <2>4 DEF Single
  <2>6. m \in first..end - 1 /\ BlockBelow(lines, p, first, end)
    BY <1>9, <1>13, <2>4
  <2>. QED
    BY <2>3, <2>4, <2>5, <2>6
<1>20. AllWide(rest, w)
  <2>. SUFFICES ASSUME NEW k \in 1..Len(rest)
                PROVE  rest[k].width = w
    BY DEF AllWide
  <2>1. k \in 1..c + size
    BY <1>11
  <2>. QED
    BY <1>12, <2>1 DEF OfItself, Single
<1>. QED
  BY <1>1, <1>6, <1>10, <1>11, <1>15, <1>17, <1>18, <1>19, <1>20 DEF Meets

(* A block is read. *)
Inner(first, end) ==
    [lines |-> [n \in 1..end - first |-> Text!Dedent(Text!lines[first + n - 1], Text!lines[first].indent)],
     i |-> 1, source |-> "block", indent |-> Text!BlockIndent(Text!line), start |-> Len(out'),
     width |-> IF Text!Top.width - Text!BlockIndent(Text!line) > LeastWidth
               THEN Text!Top.width - Text!BlockIndent(Text!line) ELSE Text!Top.width]
Nests ==
    \E r, end :
        /\ Does(r, TRUE) /\ para' = <<>> /\ Opening(Text!lines, r, Text!i)
        /\ BlockBelow(Text!lines, Text!i, r.next, end)
        /\ frames' = Append([frames EXCEPT ![Len(frames)].i = end], Inner(r.next, end))

LEMMA BelowGoes ==
    ASSUME TextInv, Text!More, NEW form \in {"label", "term", "none"}, NEW indent \in Nat,
           form \in {"label", "none"} => Text!lines[Text!i].kind \in Text!Directive,
           form = "term" => Text!lines[Text!i].kind \in {"text", "rule"},
           indent = Text!BlockIndent(Text!line),
           adorn' = adorn, doc' = doc, Text!Below(form, indent)
    PROVE  GoesOn \/ Nests
<1>. DEFINE from == IF form = "term" THEN Text!i + 1
                    ELSE Text!SkipOptions(Text!lines, Text!i + 1)
            block == Text!ExtractBlock(Text!lines, from, Text!line.indent)
            own == IF form = "term" THEN <<Text!line>> ELSE <<>>
            notes == Text!Inline(Text!ParaNotes, own)
            pieces == IF form = "none" THEN <<>>
                      ELSE <<Text!Piece(form, own, 0, Text!Marks(notes, own))>>
            before == Len(Text!ParaPiece) + Len(pieces)
            flat == Text!Flat(block.body, indent)
            first == Text!NextNonBlank(Text!lines, from)
<1>1. frames # <<>> /\ Text!lines \in Seq(Text!Line)
  BY LineIsTyped
<1>2. /\ Heading(Text!lines, Text!i, form, first)
      /\ Body(Text!lines, Text!i, first, block.end, block.body)
  <2>1. PICK a, b, c : a = from /\ b = Text!ExtractBlock(Text!lines, a, Text!line.indent)
                       /\ c = Text!NextNonBlank(Text!lines, a)
    OBVIOUS
  <2>2. /\ Heading(Text!lines, Text!i, form, c)
        /\ Body(Text!lines, Text!i, c, b.end, b.body)
    BY <2>1, BelowIs
  <2>. QED
    BY <2>1, <2>2
<1>3. Itself(pieces, form, Text!lines[Text!i], Text!Top.width)
  <2>1. PICK a, b, c : /\ a = own /\ b = Text!Inline(Text!ParaNotes, a)
                       /\ c = (IF form = "none" THEN <<>>
                               ELSE <<Text!Piece(form, a, 0, Text!Marks(b, a))>>)
    OBVIOUS
  <2>2. Itself(c, form, Text!lines[Text!i], Text!Top.width)
    BY <2>1, BelowPieces
  <2>. QED
    BY <2>1, <2>2
<1>4. \/ /\ Text!Nested(block.body, indent, block.end, before)
         /\ Text!FlushThen(notes, pieces)
      \/ /\ Text!Go(block.end)
         /\ Text!FlushThen(notes, pieces \o flat)
  BY DEF Text!Below
<1>5. PICK end, body, rest, q, b, all, some :
          /\ end = block.end /\ body = block.body /\ rest = pieces /\ q = first
          /\ b = before /\ all = notes /\ some = flat
  OBVIOUS
<1>6. /\ Heading(Text!lines, Text!i, form, q) /\ Body(Text!lines, Text!i, q, end, body)
      /\ Itself(rest, form, Text!lines[Text!i], Text!Top.width)
      /\ b = Len(Text!ParaPiece) + Len(rest) /\ some = Text!Flat(body, indent)
      /\ \/ Text!Nested(body, indent, end, b) /\ Text!FlushThen(all, rest)
         \/ Text!Go(end) /\ Text!FlushThen(all, rest \o some)
  BY <1>2, <1>3, <1>4, <1>5
<1>. HIDE DEF from, block, own, notes, pieces, before, flat, first
<1>7. CASE Text!Go(end) /\ Text!FlushThen(all, rest \o some)
  <2>1. PICK pos : Meets(end, rest \o some, pos, FALSE)
    BY <1>6, BodyMeets
  <2>. QED
    BY <1>1, <1>7, <2>1, FlushGoesOn
<1>8. CASE Text!Nested(body, indent, end, b) /\ Text!FlushThen(all, rest)
  <2>1. PICK open, pos : open = TRUE /\ pos = [k \in 1..Len(rest) |-> Text!i]
    OBVIOUS
  <2>2. Meets(q, rest, pos, open)
    BY <1>6, <2>1, HeadingMeets
  <2>3. Leads(q, rest, pos, open)
    BY <1>1, <1>8, <2>2, FlushDoes
  <2>4. PICK r : /\ Does(r, open) /\ r.next = q
                 /\ \A n, forms : AsForm(r, n, forms) <=> Appears(rest, pos, n, forms)
    BY <2>3 DEF Leads
  <2>5. AppearsAs(rest, pos, Text!i, form)
    <3>1. \A k \in 1..Len(rest) : pos[k] = Text!i
      BY <2>1
    <3>. QED
      BY <1>6, <3>1, ItselfAppears
  <2>6. Opening(Text!lines, r, Text!i)
    <3>1. PICK p : p = Text!i
      OBVIOUS
    <3>2. (form = "term" => AsForm(r, p, {"term"})) /\ ~AsForm(r, p, {"title"})
      BY <2>4, <2>5, <3>1 DEF AppearsAs
    <3>. QED
      BY <3>1, <3>2 DEF Opening
  <2>7. /\ body # <<>> /\ BlockBelow(Text!lines, Text!i, q, end)
        /\ body = [n \in 1..end - q |-> Text!Dedent(Text!lines[q + n - 1], Text!lines[q].indent)]
    <3>1. body # <<>>
      BY <1>8 DEF Text!Nested
    <3>. QED
      BY <1>6, <3>1 DEF Body
  <2>8. Len(out') = Len(out) + b /\ para' = <<>>
    <3>1. out' = (out \o Text!ParaPiece) \o rest /\ para' = <<>>
      BY <1>8 DEF Text!FlushThen
    <3>2. /\ out \in Seq(Text!Emitted) /\ Text!ParaPiece \in Seq(Text!Emitted)
          /\ rest \in Seq(Text!Emitted)
      BY <1>1, <1>6, ParagraphIs DEF Itself
    <3>3. PICK flushed : flushed = out \o Text!ParaPiece
      OBVIOUS
    <3>4. flushed \in Seq(Text!Emitted) /\ Len(flushed) = Len(out) + Len(Text!ParaPiece)
          /\ Len(out) \in Nat /\ Len(Text!ParaPiece) \in Nat /\ Len(rest) \in Nat
      BY <3>2, <3>3, Concatenated
    <3>5. Len(out') = Len(flushed) + Len(rest)
      BY <3>1, <3>2, <3>3, <3>4, Concatenated
    <3>. QED
      BY <1>6, <3>1, <3>4, <3>5
  <2>9. frames' = Append([frames EXCEPT ![Len(frames)].i = end], Inner(q, end))
    <3>. DEFINE narrow == IF Text!Top.width - indent > LeastWidth THEN Text!Top.width - indent
                          ELSE Text!Top.width
                g == Text!Frame(body, "block", indent, narrow)
    <3>1. frames' = Append([frames EXCEPT ![Len(frames)].i = end], [g EXCEPT !.start = Len(out) + b])
      BY <1>8 DEF Text!Nested
    <3>. HIDE DEF narrow
    <3>2. [g EXCEPT !.start = Len(out) + b] =
              [lines |-> body, i |-> 1, source |-> "block", indent |-> indent,
               start |-> Len(out) + b, width |-> narrow]
      BY DEF Text!Frame
    <3>3. Inner(q, end) = [lines |-> body, i |-> 1, source |-> "block", indent |-> indent,
                           start |-> Len(out) + b, width |-> narrow]
      BY <2>7, <2>8 DEF Inner, narrow
    <3>. QED
      BY <3>1, <3>2, <3>3
  <2>. QED
    BY <2>1, <2>4, <2>6, <2>7, <2>8, <2>9 DEF Nests
<1>. QED
  BY <1>6, <1>7, <1>8

LEMMA BlockGoes == ASSUME TextInv, Text!Block PROVE GoesOn \/ Nests
<1>1. /\ \/ Text!Plainly({"note"}) /\ Text!Below("label", 4)
         \/ Text!Plainly({"tab"}) /\ Text!Below("label", 2)
         \/ Text!Plainly({"only"}) /\ Text!Below("none", 0)
      /\ adorn' = adorn /\ doc' = doc
  BY DEF Text!Block
<1>2. CASE Text!Plainly({"note"}) /\ Text!Below("label", 4)
  <2>1. Text!More /\ Text!lines[Text!i].kind = "note" /\ Text!line = Text!lines[Text!i]
    BY <1>2, LineHere
  <2>2. 4 = Text!BlockIndent(Text!line)
    BY <2>1 DEF Text!BlockIndent
  <2>. QED
    BY <1>1, <1>2, <2>1, <2>2, BelowGoes DEF Text!Directive
<1>3. CASE Text!Plainly({"tab"}) /\ Text!Below("label", 2)
  <2>1. Text!More /\ Text!lines[Text!i].kind = "tab" /\ Text!line = Text!lines[Text!i]
    BY <1>3, LineHere
  <2>2. 2 = Text!BlockIndent(Text!line)
    BY <2>1 DEF Text!BlockIndent
  <2>. QED
    BY <1>1, <1>3, <2>1, <2>2, BelowGoes DEF Text!Directive
<1>4. CASE Text!Plainly({"only"}) /\ Text!Below("none", 0)
  <2>1. Text!More /\ Text!lines[Text!i].kind = "only" /\ Text!line = Text!lines[Text!i]
    BY <1>4, LineHere
  <2>2. 0 = Text!BlockIndent(Text!line)
    BY <2>1 DEF Text!BlockIndent
  <2>. QED
    BY <1>1, <1>4, <2>1, <2>2, BelowGoes DEF Text!Directive
<1>. QED
  BY <1>1, <1>2, <1>3, <1>4

LEMMA DefinitionGoes == ASSUME TextInv, Text!Definition PROVE GoesOn \/ Nests
<1>1. Text!Plainly({"text", "rule"}) /\ Text!Below("term", 6) /\ adorn' = adorn /\ doc' = doc
  BY DEF Text!Definition
<1>2. Text!More /\ Text!lines[Text!i].kind \in {"text", "rule"} /\ Text!line = Text!lines[Text!i]
  BY <1>1, LineHere
<1>3. 6 = Text!BlockIndent(Text!line)
  BY <1>2 DEF Text!BlockIndent
<1>. QED
  BY <1>1, <1>2, <1>3, BelowGoes DEF Text!Directive

(* Lines of no document. *)
Foreign(ls) == \A n \in 1..Len(ls) : ~OfText(ls[n].id)

LEMMA SlicedIsForeign ==
    ASSUME NEW file \in DOMAIN Included
    PROVE  Text!Sliced(Included[file]) \in Seq(Text!Line) /\ Foreign(Text!Sliced(Included[file]))
<1>1. PICK body : body = Included[file]
  OBVIOUS
<1>2. body \in Seq(Text!Line) /\ Len(body) \in Nat
  <2>1. Included \in [DOMAIN Included -> Seq(Text!Line)]
    BY LinesAssumption
  <2>2. body \in Seq(Text!Line)
    BY <1>1, <2>1
  <2>. QED
    BY <2>2, LenProperties
<1>3. \A k \in 1..Len(body) : ~OfText(body[k].id)
  BY <1>1, <1>2, NumbersAssumption DEF OfText
<1>4. Text!Sliced(body) \in Seq(Text!Line)
  BY <1>2, SlicedIn
<1>5. PICK m \in 1..Len(body) + 1 : Text!Sliced(body) = SubSeq(body, m, Len(body))
  BY <1>2, SlicedIs
<1>6. PICK part : part = SubSeq(body, m, Len(body))
  OBVIOUS
<1>7. \A n \in 1..Len(part) : m + n - 1 \in 1..Len(body) /\ part[n] = body[m + n - 1]
  BY <1>2, <1>6, RestIs
<1>8. Foreign(part)
  BY <1>3, <1>7 DEF Foreign
<1>. QED
  BY <1>1, <1>4, <1>5, <1>6, <1>8

(* A file is included. *)
Incorporates ==
    \E r, f :
        /\ Does(r, FALSE) /\ para' = <<>>
        /\ f.source \notin {"doc", "block"} /\ Foreign(f.lines) /\ f.indent = 0
        /\ f.width = Text!Top.width
        /\ frames' = Append([frames EXCEPT ![Len(frames)].i = r.next], f)

LEMMA IncludeGoes == ASSUME TextInv, Text!Include PROVE GoesOn \/ Incorporates
<1>. DEFINE file == Text!line.arg
            end == Text!SkipIndented(Text!lines, Text!i)
            body == IF file \in DOMAIN Included THEN Text!Sliced(Included[file]) ELSE <<>>
            moved == [frames EXCEPT ![Len(frames)].i = end]
            f == [lines |-> body, i |-> 1, source |-> file, indent |-> 0,
                  start |-> Len(out), width |-> Text!Top.width]
            omitted == Text!Piece("omitted", <<Text!line>>, 0, {})
<1>1. /\ Text!Plainly({"include"}) /\ doc' = doc /\ adorn' = adorn
      /\ \/ /\ Text!NextNonBlank(body, 1) <= Len(body)
            /\ Text!Flush
            /\ frames' = Append(moved, f)
         \/ /\ Text!FlushThen(Text!ParaNotes, <<omitted>>)
            /\ Text!Go(end)
         \/ Text!Flush /\ Text!Go(end)
  <2>. DEFINE g == Text!Frame(body, file, 0, Text!Top.width)
  <2>1. /\ Text!Plainly({"include"}) /\ doc' = doc /\ adorn' = adorn
        /\ \/ /\ Text!NextNonBlank(body, 1) <= Len(body)
              /\ Text!Flush
              /\ frames' = Append(moved, [g EXCEPT !.start = Len(out)])
           \/ /\ Text!FlushThen(Text!ParaNotes, <<omitted>>)
              /\ Text!Go(end)
           \/ Text!Flush /\ Text!Go(end)
    BY DEF Text!Include
  <2>. HIDE DEF body, file, end, moved, omitted
  <2>2. [g EXCEPT !.start = Len(out)] = f
    BY DEF Text!Frame
  <2>. HIDE DEF g, f
  <2>. QED
    BY <2>1, <2>2
<1>2. /\ frames # <<>> /\ Text!TypeOK
      /\ Text!lines \in Seq(Text!Line) /\ Text!i \in 1..Len(Text!lines)
      /\ Text!i \in Nat /\ Len(Text!lines) \in Nat
      /\ Text!line = Text!lines[Text!i] /\ Text!line \in Text!Line
      /\ Text!lines[Text!i].kind = "include"
  BY <1>1, LineHere
<1>3. PICK q : q = end
  OBVIOUS
<1>4. \A rest, pos : Omits(rest, pos) => Skipping(Text!lines, Text!i, q, rest, pos)
  BY <1>2, <1>3, SweptSkips
<1>5. Meets(q, <<>>, <<>>, FALSE)
  <2>1. Omits(<<>>, <<>>)
    BY NoneAppear DEF Omits
  <2>2. Skipping(Text!lines, Text!i, q, <<>>, <<>>)
    BY <1>4, <2>1
  <2>3. /\ q \in Text!i..Len(Text!lines) + 1
        /\ Skips(Text!lines, Text!i, q, FALSE, <<>>, <<>>)
        /\ Shuts(Text!lines, Text!i, q, <<>>, <<>>, FALSE)
    BY <2>2 DEF Skipping
  <2>. QED
    BY <2>3, NoneMeet
<1>6. PICK piece : piece = omitted
  OBVIOUS
<1>7. PICK pos : pos = [n \in {1} |-> Text!i]
  OBVIOUS
<1>8. Meets(q, <<piece>>, pos, FALSE)
  <2>1. /\ piece.form = "omitted" /\ piece.ids = <<Text!line.id>> /\ piece.pad = <<>>
        /\ piece.width = Text!Top.width /\ (piece.cut <=> Text!line.cut > 0)
    BY <1>6, LinePieceIs
  <2>2. piece \in Text!Emitted
    <3>1. "omitted" \in {"para", "item", "label", "term", "code", "flat", "omitted"}
      OBVIOUS
    <3>2. Text!Piece("omitted", <<Text!line>>, 0, {}) \in Text!Emitted
      BY <1>2, <3>1, OfOneLine
    <3>. QED
      BY <1>6, <3>2
  <2>3. Omits(<<piece>>, pos)
    BY <2>1, OneAppears DEF Omits
  <2>4. Skipping(Text!lines, Text!i, q, <<piece>>, pos)
    BY <1>4, <2>3
  <2>5. /\ q \in Text!i..Len(Text!lines) + 1 /\ q \in Text!i + 1..Len(Text!lines) + 1
        /\ Skips(Text!lines, Text!i, q, FALSE, <<piece>>, pos)
        /\ Shuts(Text!lines, Text!i, q, <<piece>>, pos, FALSE)
    BY <2>4 DEF Skipping
  <2>6. Text!i \in Text!i..q - 1
    BY <1>2, <2>5
  <2>7. OfLine(piece, Text!lines[Text!i])
    BY <1>2, <2>1 DEF OfLine
  <2>. QED
    BY <1>2, <1>7, <2>1, <2>2, <2>5, <2>6, <2>7, OneMeets
<1>. HIDE DEF omitted, end, body, f, file
<1>9. CASE Text!Flush /\ Text!Go(end)
  BY <1>2, <1>3, <1>5, <1>9, FlushGoesOn DEF Text!Flush
<1>10. CASE Text!FlushThen(Text!ParaNotes, <<omitted>>) /\ Text!Go(end)
  BY <1>2, <1>3, <1>6, <1>8, <1>10, FlushGoesOn
<1>11. CASE /\ Text!NextNonBlank(body, 1) <= Len(body)
            /\ Text!Flush
            /\ frames' = Append(moved, f)
  <2>0. PICK open : open = FALSE
    OBVIOUS
  <2>1. Text!FlushThen(Text!ParaNotes, <<>>)
    BY <1>11 DEF Text!Flush
  <2>2. Leads(q, <<>>, <<>>, open)
    BY <1>2, <1>5, <2>0, <2>1, FlushDoes
  <2>3. PICK r : Does(r, FALSE) /\ r.next = q
    BY <2>0, <2>2 DEF Leads
  <2>4. para' = <<>>
    BY <2>1 DEF Text!FlushThen
  <2>5. file \in DOMAIN Included
    <3>. SUFFICES ASSUME file \notin DOMAIN Included
                  PROVE  FALSE
      OBVIOUS
    <3>1. body = <<>>
      BY DEF body
    <3>2. <<>> \in Seq(Text!Line) /\ Len(<<>>) = 0 /\ 1 \in 1..Len(<<>>) + 1
      OBVIOUS
    <3>3. Text!NextNonBlank(<<>>, 1) \in 1..Len(<<>>) + 1
      BY <3>2, NextNonBlankIn
    <3>. QED
      BY <1>11, <3>1, <3>2, <3>3
  <2>6. file \notin {"doc", "block"}
    BY <2>5, LinesAssumption
  <2>7. Foreign(body)
    BY <2>5, SlicedIsForeign DEF body
  <2>8. f.source = file /\ f.lines = body /\ f.indent = 0 /\ f.width = Text!Top.width
    BY DEF f
  <2>9. frames' = Append([frames EXCEPT ![Len(frames)].i = r.next], f)
    BY <1>3, <1>11, <2>3
  <2>. QED
    BY <2>3, <2>4, <2>6, <2>7, <2>8, <2>9 DEF Incorporates
<1>. QED
  BY <1>1, <1>9, <1>10, <1>11

(* What is left of the paragraph where the lines end. *)
Flushes(r) ==
    /\ Steps(para, Text!lines, Text!i, Text!Top.width, r, FALSE)
    /\ r.next = Text!i /\ r.para = <<>>

LEMMA EndIsStep ==
    ASSUME TextInv, Text!AtEnd
    PROVE  \E r : Flushes(r) /\ r.pieces = Text!ParaPiece
<1>1. /\ frames # <<>> /\ Len(Text!lines) \in Nat /\ Text!i \in Nat
      /\ Text!i \in 1..Len(Text!lines) + 1
  <2>1. frames # <<>>
    BY DEF Text!AtEnd
  <2>2. Len(Text!lines) \in Nat /\ Text!i \in 1..Len(Text!lines) + 1
    BY <2>1, TextIsTyped, TopIsTyped
  <2>. QED
    BY <2>1, <2>2
<1>2. PICK p : p = Text!i
  OBVIOUS
<1>3. p \in p..Len(Text!lines) + 1 /\ p..p - 1 = {}
  BY <1>1, <1>2
<1>4. /\ Skips(Text!lines, p, p, FALSE, <<>>, <<>>) /\ Shuts(Text!lines, p, p, <<>>, <<>>, FALSE)
  BY <1>3 DEF Skips, Shuts
<1>5. Len(<<>>) = 0 /\ <<>> \in Seq(Text!Emitted)
  BY EmptySeq
<1>6. /\ Placed(Text!lines, p, p, FALSE, <<>>, <<>>) /\ Deep(Text!lines, p, <<>>, <<>>)
      /\ AllWide(<<>>, Text!Top.width)
  BY <1>5 DEF Placed, Deep, AllWide
<1>7. /\ Text!ParaPiece \in Seq(Text!Emitted) /\ AllWide(Text!ParaPiece, Text!Top.width)
      /\ Headed(para, Text!ParaPiece, <<>>)
      /\ Len(Text!ParaPiece) = 1 \/ (Len(Text!ParaPiece) = 0 /\ para = <<>>)
  BY <1>1, ParagraphIs
<1>8. Stepping(para, Text!lines, p, Text!Top.width, p, FALSE, Text!ParaPiece, <<>>, <<>>, FALSE)
  BY <1>1, <1>2, <1>3, <1>4, <1>5, <1>6, <1>7 DEF Stepping
<1>9. PICK r : /\ Steps(para, Text!lines, p, Text!Top.width, r, FALSE) /\ r.next = p
               /\ r.pieces = Text!ParaPiece \o <<>>
               /\ r.para = (IF Len(Text!ParaPiece) = 1 THEN <<>>
                            ELSE IF FALSE THEN Append(para, Text!lines[p]) ELSE para)
  <2>1. PICK open, own, heads, rest : /\ open = FALSE /\ own = FALSE
                                      /\ heads = Text!ParaPiece /\ rest = <<>>
    OBVIOUS
  <2>2. Stepping(para, Text!lines, p, Text!Top.width, p, own, heads, rest, rest, open)
    BY <1>8, <2>1
  <2>3. PICK r : /\ Steps(para, Text!lines, p, Text!Top.width, r, open) /\ r.next = p
                 /\ r.pieces = heads \o rest
                 /\ r.para = (IF Len(heads) = 1 THEN <<>>
                              ELSE IF own THEN Append(para, Text!lines[p]) ELSE para)
                 /\ \A n, forms : AsForm(r, n, forms) <=> Appears(rest, rest, n, forms)
    BY <2>2, SteppingSteps
  <2>. QED
    BY <2>1, <2>3
<1>10. Text!ParaPiece \o <<>> = Text!ParaPiece
  BY <1>7
<1>11. r.para = <<>>
  BY <1>5, <1>7, <1>9
<1>. QED
  BY <1>2, <1>9, <1>10, <1>11 DEF Flushes

BlockEnds ==
    \E r : /\ Flushes(r) /\ Text!AtEnd /\ Text!Top.source = "block"
           /\ out' = Text!Indented(out \o r.pieces) /\ para' = <<>> /\ frames' = Text!Popped
DocEnds ==
    \E r : /\ Flushes(r) /\ Text!AtEnd /\ Text!Top.source = "doc"
           /\ out' = out \o r.pieces /\ para' = <<>> /\ frames' = Text!Popped
FileEnds ==
    /\ Text!AtEnd /\ Text!Top.source \notin {"doc", "block"}
    /\ out' = out /\ para' = para /\ frames' = Text!Popped

(* Every action is one of these. *)
LEMMA EveryStep ==
    ASSUME TextInv, Text!Next
    PROVE  doc' = doc /\ (GoesOn \/ Nests \/ Incorporates \/ BlockEnds \/ DocEnds \/ FileEnds)
<1>1. CASE Text!Title
  BY <1>1, TitleGoes DEF Text!Title, Text!Section
<1>2. CASE Text!Block
  BY <1>2, BlockGoes DEF Text!Block
<1>3. CASE Text!Drop
  BY <1>3, DropGoes DEF Text!Drop
<1>4. CASE Text!Comment
  BY <1>4, CommentGoes DEF Text!Comment
<1>5. CASE Text!Code
  BY <1>5, CodeGoes DEF Text!Code
<1>6. CASE Text!Introduces
  BY <1>6, IntroducesGoes DEF Text!Introduces
<1>7. CASE Text!BlankLine
  BY <1>7, BlankLineGoes DEF Text!BlankLine
<1>8. CASE Text!Bullet
  BY <1>8, BulletGoes DEF Text!Bullet
<1>9. CASE Text!Definition
  BY <1>9, DefinitionGoes DEF Text!Definition
<1>10. CASE Text!Text
  BY <1>10, TextGoes DEF Text!Text
<1>11. CASE Text!Include
  BY <1>11, IncludeGoes DEF Text!Include
<1>12. CASE Text!EndBlock
  <2>1. /\ Text!AtEnd /\ Text!Top.source = "block" /\ para' = <<>> /\ frames' = Text!Popped
        /\ out' = Text!Indented(out \o Text!ParaPiece) /\ doc' = doc
    BY <1>12 DEF Text!EndBlock
  <2>2. PICK r : Flushes(r) /\ r.pieces = Text!ParaPiece
    BY <2>1, EndIsStep
  <2>. QED
    BY <2>1, <2>2 DEF BlockEnds
<1>13. CASE Text!EndInclude
  BY <1>13 DEF Text!EndInclude, FileEnds
<1>14. CASE Text!EndDoc
  <2>1. /\ Text!AtEnd /\ Text!Top.source = "doc" /\ para' = <<>> /\ frames' = Text!Popped
        /\ out' = (out \o Text!ParaPiece) \o <<>> /\ doc' = doc
    BY <1>14 DEF Text!EndDoc, Text!Flush, Text!FlushThen
  <2>2. PICK r : Flushes(r) /\ r.pieces = Text!ParaPiece
    BY <2>1, EndIsStep
  <2>3. out \o Text!ParaPiece \in Seq(Text!Emitted)
    <3>1. frames # <<>>
      BY <2>1 DEF Text!AtEnd
    <3>2. out \in Seq(Text!Emitted) /\ Text!ParaPiece \in Seq(Text!Emitted)
      BY <3>1, ParagraphIs
    <3>. QED
      BY <3>2, Concatenated
  <2>4. (out \o Text!ParaPiece) \o <<>> = out \o Text!ParaPiece
    BY <2>3
  <2>. QED
    BY <2>1, <2>2, <2>4 DEF DocEnds
<1>. QED
  BY <1>1, <1>2, <1>3, <1>4, <1>5, <1>6, <1>7, <1>8, <1>9, <1>10, <1>11, <1>12, <1>13, <1>14
     DEF Text!Next

=============================================================================
