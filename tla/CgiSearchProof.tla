--------------------------- MODULE CgiSearchProof ---------------------------
(***************************************************************************)
(* CgiSearch, for any number of processes, generations and documents: the  *)
(* answer of a process comes from one index and, until the operator rolls  *)
(* the mirror back, neither the index nor a quote is older than what the   *)
(* process found.                                                          *)
(***************************************************************************)
EXTENDS CgiSearch, FiniteSetTheorems, SequenceTheorems,
        TLAPS

(* What a process holds at each of its steps. *)
Steps ==
    \A q \in Queries :
        /\ pc[q] \in {"idle", "load"} => opened[q] = None
        /\ pc[q] \in {"match", "quote"} => opened[q] \in Gens
        /\ pc[q] \in {"idle", "load", "match"} => shown[q] = <<>>
        /\ pc[q] # "quote" => due[q] = <<>>

Lookups == TypeOK /\ Steps /\ OneIndex

(* The live tree is the newest that was ever published. *)
LiveIsNewest ==
    live # None => live \in published /\ \A p \in published : p <= live

(* Whatever a process has seen of the mirror was published before. *)
SeenIsPublished ==
    \A q \in Queries :
        /\ began[q] \in published \cup {None}
        /\ opened[q] \in published \cup {None}
        /\ \A i \in DOMAIN shown[q] :
              shown[q][i].read \in published \cup {None, Unread}

Faithful ==
    /\ LiveIsNewest /\ SeenIsPublished
    /\ NeverStale /\ QuotesNotOlder /\ QuotesMatchMirror

(* A rollback ends the promise of freshness, not that of one index. *)
IInv == Lookups /\ (~ rolledBack => Faithful)

-----------------------------------------------------------------------------
(* Sequences and hits.                                                     *)

(* The documents of an answer: those shown and those still to be read. *)
Results(s, d) == [i \in DOMAIN s |-> s[i].doc] \o d

LEMMA HitsAreDocuments ==
    ASSUME NEW g \in Gens, NEW hits \in Hits(g)
    PROVE  /\ hits \in Seq(Documents)
           /\ \A i \in DOMAIN hits : hits[i] \in DocsOf[g]
           /\ \A i, j \in DOMAIN hits : hits[i] = hits[j] => i = j
           /\ Limit > 0 => Len(hits) <= Limit
<1>1. Cardinality(DocsOf[g]) \in Nat
  BY FS_CardinalityType, DocsAssumption
<1>2. PICK n \in 0..Cardinality(DocsOf[g]) : hits \in [1..n -> DocsOf[g]]
  BY DEF Hits
<1>3. n \in Nat
  BY <1>1, <1>2
<1>4. hits \in Seq(DocsOf[g])
  BY <1>2, <1>3
<1>5. DocsOf[g] \subseteq Documents
  BY DEF Documents
<1>6. hits \in Seq(Documents)
  BY <1>2, <1>3, <1>5
<1>7. QED
  BY <1>2, <1>3, <1>6 DEF Hits

LEMMA DocsOfShown ==
    ASSUME NEW s \in Seq(Result)
    PROVE  /\ [i \in DOMAIN s |-> s[i].doc] \in Seq(Documents)
           /\ Len([i \in DOMAIN s |-> s[i].doc]) = Len(s)
<1>1. DOMAIN s = 1..Len(s) /\ Len(s) \in Nat
  BY LenProperties
<1>2. ASSUME NEW i \in 1..Len(s) PROVE s[i].doc \in Documents
  <2>1. s[i] \in Result
    BY ElementOfSeq
  <2> HIDE DEF Documents
  <2>2. QED BY <2>1 DEF Result
<1>3. [i \in DOMAIN s |-> s[i].doc] \in [1..Len(s) -> Documents]
  BY <1>1, <1>2
<1> HIDE DEF Documents
<1>4. [i \in DOMAIN s |-> s[i].doc] \in Seq(Documents)
  BY <1>1, <1>3
<1>5. QED BY <1>1, <1>3, <1>4, LenProperties

(* Quoting moves a document from those due to those shown. *)
LEMMA QuotingKeepsResults ==
    ASSUME NEW s \in Seq(Result), NEW d \in Seq(Documents), d # <<>>,
           NEW r \in Result, r.doc = Head(d)
    PROVE  Results(Append(s, r), Tail(d)) = Results(s, d)
<1> DEFINE f == [i \in DOMAIN s |-> s[i].doc]
           t == Append(s, r)
           g == [i \in DOMAIN t |-> t[i].doc]
<1> HIDE DEF Result, Documents, t
<1>1. /\ t \in Seq(Result) /\ Len(t) = Len(s) + 1 /\ Len(s) \in Nat
      /\ \A i \in 1..Len(s) : t[i] = s[i]
      /\ t[Len(s) + 1] = r
  BY DEF t
<1>2. /\ f \in Seq(Documents) /\ Len(f) = Len(s)
      /\ g \in Seq(Documents) /\ Len(g) = Len(s) + 1
  BY <1>1, DocsOfShown
<1>3. /\ \A i \in 1..Len(s) : f[i] = s[i].doc /\ g[i] = s[i].doc
      /\ g[Len(s) + 1] = Head(d)
  BY <1>1, LenProperties
<1>4. /\ Tail(d) \in Seq(Documents) /\ Len(Tail(d)) = Len(d) - 1
      /\ Len(d) \in Nat \ {0} /\ Head(d) = d[1]
      /\ \A i \in 1..Len(d) - 1 : Tail(d)[i] = d[i + 1]
  BY HeadTailProperties, EmptySeq
<1> HIDE DEF f, g
<1>5. /\ f \o d \in Seq(Documents) /\ Len(f \o d) = Len(s) + Len(d)
      /\ \A i \in 1..Len(s) + Len(d) :
             (f \o d)[i] = IF i <= Len(s) THEN f[i] ELSE d[i - Len(s)]
  <2>1. f \o d \in Seq(Documents) /\ Len(f \o d) = Len(f) + Len(d)
    BY <1>2, ConcatProperties
  <2>2. \A i \in 1..Len(f) + Len(d) :
            (f \o d)[i] = IF i <= Len(f) THEN f[i] ELSE d[i - Len(f)]
    BY <1>2, ConcatProperties
  <2>3. QED BY <1>2, <2>1, <2>2
<1>6. /\ g \o Tail(d) \in Seq(Documents) /\ Len(g \o Tail(d)) = Len(s) + Len(d)
      /\ \A i \in 1..Len(s) + Len(d) :
             (g \o Tail(d))[i] = IF i <= Len(s) + 1 THEN g[i]
                                 ELSE Tail(d)[i - (Len(s) + 1)]
  <2>1. Len(g) + Len(Tail(d)) = Len(s) + Len(d)
    BY <1>1, <1>2, <1>4
  <2>2. /\ g \o Tail(d) \in Seq(Documents)
        /\ Len(g \o Tail(d)) = Len(g) + Len(Tail(d))
    BY <1>2, <1>4, ConcatProperties
  <2>3. \A i \in 1..Len(g) + Len(Tail(d)) :
            (g \o Tail(d))[i] = IF i <= Len(g) THEN g[i] ELSE Tail(d)[i - Len(g)]
    BY <1>2, <1>4, ConcatProperties
  <2>4. QED BY <1>2, <2>1, <2>2, <2>3
<1>7. ASSUME NEW i \in 1..Len(s) + Len(d)
      PROVE  (g \o Tail(d))[i] = (f \o d)[i]
  <2>1. CASE i <= Len(s)
    <3>1. i \in 1..Len(s)
      BY <2>1, <1>1
    <3>2. i <= Len(s) + 1
      BY <2>1, <1>1
    <3>3. QED BY <2>1, <3>1, <3>2, <1>3, <1>5, <1>6
  <2>2. CASE i = Len(s) + 1
    <3>1. i - Len(s) = 1 /\ ~(i <= Len(s)) /\ i <= Len(s) + 1
      BY <2>2, <1>1
    <3>2. QED BY <2>2, <3>1, <1>3, <1>4, <1>5, <1>6
  <2>3. CASE i > Len(s) + 1
    <3>1. /\ i - (Len(s) + 1) \in 1..Len(d) - 1
          /\ i - (Len(s) + 1) + 1 = i - Len(s)
          /\ ~(i <= Len(s)) /\ ~(i <= Len(s) + 1)
      BY <2>3, <1>1, <1>4
    <3>2. QED BY <3>1, <1>4, <1>5, <1>6
  <2>4. i \in Int /\ Len(s) \in Int
    BY <1>1, <1>4
  <2>5. i <= Len(s) \/ i = Len(s) + 1 \/ i > Len(s) + 1
    BY <2>4
  <2>6. QED BY <2>1, <2>2, <2>3, <2>5
<1>8. g \o Tail(d) = f \o d
  BY <1>5, <1>6, <1>7, SeqEqual
<1>9. QED BY <1>8 DEF Results, f, g, t

(* OneIndex says this of each process. *)
OneIndexOf(q, results) ==
    results # <<>> =>
        /\ opened[q] # None
        /\ \A i \in DOMAIN results : results[i] \in DocsOf[opened[q]]
        /\ \A i, j \in DOMAIN results : results[i] = results[j] => i = j
        /\ Limit > 0 => Len(results) <= Limit

LEMMA OneIndexPerProcess ==
    OneIndex <=> \A q \in Queries : OneIndexOf(q, Results(shown[q], due[q]))
BY DEF OneIndex, OneIndexOf, Results

-----------------------------------------------------------------------------
(* Types.                                                                  *)

LEMMA InitTypes == Init => TypeOK
<1> SUFFICES ASSUME Init PROVE TypeOK
  OBVIOUS
<1>1. Env!TypeOK
  BY DEF Init, Env!Init, Env!TypeOK
<1>2. <<>> \in Seq(Documents) /\ <<>> \in Seq(Result)
  BY EmptySeq
<1>3. QED BY <1>1, <1>2 DEF Init, TypeOK

LEMMA MirrorTypeStep ==
    ASSUME Env!TypeOK, Env!Next
    PROVE  Env!TypeOK'
BY DEF Env!TypeOK, Env!Next, Env!DropBackup, Env!Retire, Env!Install,
       Env!SetAside, Env!Restore, Env!None

LEMMA SnippetType ==
    ASSUME Env!TypeOK, NEW doc
    PROVE  Snippet(doc) \subseteq Gens \cup {None, Unread}
BY DEF Snippet, InLive, Env!TypeOK, None

LEMMA TypeStep == TypeOK /\ Steps /\ [Next]_vars => TypeOK'
<1> SUFFICES ASSUME TypeOK, Steps, [Next]_vars PROVE TypeOK'
  OBVIOUS
<1> USE DEF TypeOK, GoTo
<1> HIDE DEF Documents, Result
<1>a. <<>> \in Seq(Documents) /\ <<>> \in Seq(Result)
  BY EmptySeq
<1>b. live \in Gens \cup {None}
  BY DEF Env!TypeOK, None
<1>1. ASSUME NEW q \in Queries, NEW blank \in BOOLEAN, Begin(q, blank) PROVE TypeOK'
  BY <1>1, <1>b DEF Begin, mirror, Env!TypeOK
<1>2. ASSUME NEW q \in Queries, Load(q) PROVE TypeOK'
  BY <1>2, <1>b DEF Load, mirror, Env!TypeOK
<1>3. ASSUME NEW q \in Queries, LoadFails(q) PROVE TypeOK'
  BY <1>3 DEF LoadFails, mirror, Env!TypeOK
<1>4. ASSUME NEW q \in Queries, Match(q) PROVE TypeOK'
  <2>1. PICK hits \in Hits(opened[q]) : due' = [due EXCEPT ![q] = hits]
    BY <1>4 DEF Match
  <2>2. opened[q] \in Gens
    BY <1>4 DEF Match, Steps
  <2>3. hits \in Seq(Documents)
    BY <2>2, HitsAreDocuments
  <2>4. QED BY <1>4, <2>1, <2>3 DEF Match, mirror, Env!TypeOK
<1>5. ASSUME NEW q \in Queries, Quote(q) PROVE TypeOK'
  <2>0. PICK from \in Snippet(Head(due[q])) :
           shown' = [shown EXCEPT ![q] = Append(@, [doc |-> Head(due[q]), read |-> from])]
    BY <1>5 DEF Quote
  <2> DEFINE r == [doc |-> Head(due[q]), read |-> from]
  <2>1. /\ due[q] \in Seq(Documents) /\ due[q] # <<>>
        /\ shown' = [shown EXCEPT ![q] = Append(@, r)]
        /\ due' = [due EXCEPT ![q] = Tail(@)]
    BY <1>5, <2>0 DEF Quote
  <2>2. Head(due[q]) \in Documents /\ Tail(due[q]) \in Seq(Documents)
    BY <2>1, HeadTailProperties
  <2>3. r \in Result
    BY <2>2, SnippetType DEF Result
  <2> HIDE DEF r
  <2>4. Append(shown[q], r) \in Seq(Result)
    BY <2>3
  <2>5. QED BY <1>5, <2>1, <2>2, <2>4 DEF Quote, mirror, Env!TypeOK
<1>6. ASSUME NEW q \in Queries, PrintResult(q) PROVE TypeOK'
  BY <1>6 DEF PrintResult, mirror, Env!TypeOK
<1>7. ASSUME NEW q \in Queries, Exit(q) PROVE TypeOK'
  BY <1>7, <1>a DEF Exit, mirror, Env!TypeOK
<1>8. CASE MirrorStep
  BY <1>8, MirrorTypeStep DEF MirrorStep, local
<1>9. CASE UNCHANGED vars
  BY <1>9 DEF vars, mirror, local, Env!TypeOK
<1>10. QED
  BY <1>1, <1>2, <1>3, <1>4, <1>5, <1>6, <1>7, <1>8, <1>9 DEF Next, Work

LEMMA StepsStep == TypeOK /\ Steps /\ [Next]_vars => Steps'
<1> SUFFICES ASSUME TypeOK, Steps, [Next]_vars PROVE Steps'
  OBVIOUS
<1> USE DEF TypeOK, Steps, GoTo
<1> HIDE DEF Documents, Result
<1>1. ASSUME NEW q \in Queries, NEW blank \in BOOLEAN, Begin(q, blank) PROVE Steps'
  BY <1>1 DEF Begin
<1>2. ASSUME NEW q \in Queries, Load(q) PROVE Steps'
  BY <1>2 DEF Load, Env!TypeOK, None
<1>3. ASSUME NEW q \in Queries, LoadFails(q) PROVE Steps'
  BY <1>3 DEF LoadFails
<1>4. ASSUME NEW q \in Queries, Match(q) PROVE Steps'
  BY <1>4 DEF Match
<1>5. ASSUME NEW q \in Queries, Quote(q) PROVE Steps'
  BY <1>5 DEF Quote
<1>6. ASSUME NEW q \in Queries, PrintResult(q) PROVE Steps'
  BY <1>6 DEF PrintResult
<1>7. ASSUME NEW q \in Queries, Exit(q) PROVE Steps'
  BY <1>7 DEF Exit
<1>8. CASE UNCHANGED local
  BY <1>8 DEF local
<1>9. QED
  BY <1>1, <1>2, <1>3, <1>4, <1>5, <1>6, <1>7, <1>8
     DEF Next, Work, MirrorStep, vars

-----------------------------------------------------------------------------
(* One index.                                                              *)

LEMMA NoneShown ==
    ASSUME NEW d \in Seq(Documents)
    PROVE  Results(<<>>, d) = d
<1> HIDE DEF Documents
<1>1. [i \in DOMAIN <<>> |-> <<>>[i].doc] = <<>>
  OBVIOUS
<1>2. <<>> \o d = d
  BY ConcatEmptySeq
<1>3. QED BY <1>1, <1>2 DEF Results

LEMMA NextIsAResult ==
    ASSUME NEW s \in Seq(Result), NEW d \in Seq(Documents), d # <<>>
    PROVE  /\ Len(s) + 1 \in DOMAIN Results(s, d)
           /\ Results(s, d)[Len(s) + 1] = Head(d)
           /\ Results(s, d) # <<>>
<1> DEFINE f == [i \in DOMAIN s |-> s[i].doc]
<1> HIDE DEF Result, Documents
<1>1. f \in Seq(Documents) /\ Len(f) = Len(s) /\ Len(s) \in Nat
  BY DocsOfShown, LenProperties
<1>2. Len(d) \in Nat \ {0} /\ Head(d) = d[1]
  BY EmptySeq
<1> HIDE DEF f
<1>3. f \o d \in Seq(Documents) /\ Len(f \o d) = Len(f) + Len(d)
  BY <1>1, ConcatProperties
<1>4. \A i \in 1..Len(f) + Len(d) :
          (f \o d)[i] = IF i <= Len(f) THEN f[i] ELSE d[i - Len(f)]
  BY <1>1, ConcatProperties
<1>5. Len(s) + 1 \in 1..Len(f) + Len(d) /\ ~(Len(s) + 1 <= Len(f))
      /\ Len(s) + 1 - Len(f) = 1
  BY <1>1, <1>2
<1>6. (f \o d)[Len(s) + 1] = Head(d)
  BY <1>2, <1>4, <1>5
<1>7. Len(s) + 1 \in DOMAIN (f \o d) /\ f \o d # <<>>
  BY <1>3, <1>5, <1>1, <1>2, LenProperties, EmptySeq
<1>8. QED BY <1>6, <1>7 DEF Results, f

LEMMA OneIndexStep == Lookups /\ [Next]_vars => OneIndex'
<1> SUFFICES ASSUME Lookups, [Next]_vars, NEW p \in Queries
             PROVE  OneIndexOf(p, Results(shown[p], due[p]))'
  BY OneIndexPerProcess DEF OneIndex, OneIndexOf, Results
<1>a. TypeOK /\ Steps /\ OneIndexOf(p, Results(shown[p], due[p]))
  BY OneIndexPerProcess DEF Lookups
<1>b. /\ shown \in [Queries -> Seq(Result)] /\ due \in [Queries -> Seq(Documents)]
      /\ opened \in [Queries -> Gens \cup {None}]
  BY <1>a DEF TypeOK
<1> HIDE DEF Result, Documents
<1>c. ASSUME shown'[p] = shown[p], due'[p] = due[p], opened'[p] = opened[p]
      PROVE  OneIndexOf(p, Results(shown[p], due[p]))'
  <2>1. Results(shown[p], due[p])' = Results(shown[p], due[p])
    BY <1>c DEF Results
  <2>2. QED BY <1>c, <1>a, <2>1 DEF OneIndexOf
<1>d. ASSUME shown'[p] = <<>>, due'[p] = <<>>
      PROVE  OneIndexOf(p, Results(shown[p], due[p]))'
  <2>1. Results(<<>>, <<>>) = <<>>
    BY NoneShown, EmptySeq
  <2>2. Results(shown[p], due[p])' = <<>>
    BY <1>d, <2>1 DEF Results
  <2>3. QED BY <2>2 DEF OneIndexOf
<1>1. ASSUME NEW q \in Queries, NEW blank \in BOOLEAN, Begin(q, blank)
      PROVE  OneIndexOf(p, Results(shown[p], due[p]))'
  BY <1>1, <1>c DEF Begin
<1>2. ASSUME NEW q \in Queries, Load(q)
      PROVE  OneIndexOf(p, Results(shown[p], due[p]))'
  <2>1. shown[q] = <<>> /\ due[q] = <<>>
    BY <1>2, <1>a DEF Load, Steps
  <2>2. CASE p = q
    BY <1>2, <2>1, <2>2, <1>d DEF Load
  <2>3. CASE p # q
    BY <1>2, <2>3, <1>b, <1>c DEF Load
  <2>4. QED BY <2>2, <2>3
<1>3. ASSUME NEW q \in Queries, LoadFails(q)
      PROVE  OneIndexOf(p, Results(shown[p], due[p]))'
  BY <1>3, <1>c DEF LoadFails
<1>4. ASSUME NEW q \in Queries, Match(q)
      PROVE  OneIndexOf(p, Results(shown[p], due[p]))'
  <2>1. PICK hits \in Hits(opened[q]) : due' = [due EXCEPT ![q] = hits]
    BY <1>4 DEF Match
  <2>2. opened[q] \in Gens /\ shown[q] = <<>>
    BY <1>4, <1>a DEF Match, Steps
  <2>3. CASE p = q
    <3>1. /\ hits \in Seq(Documents)
          /\ \A i \in DOMAIN hits : hits[i] \in DocsOf[opened[q]]
          /\ \A i, j \in DOMAIN hits : hits[i] = hits[j] => i = j
          /\ Limit > 0 => Len(hits) <= Limit
      BY <2>2, HitsAreDocuments
    <3>2. due'[p] = hits /\ shown'[p] = <<>> /\ opened'[p] = opened[q]
      BY <1>4, <1>b, <2>1, <2>2, <2>3 DEF Match
    <3>3. Results(shown[p], due[p])' = hits
      BY <3>1, <3>2, NoneShown DEF Results
    <3>4. opened[q] # None
      BY <2>2, GensAssumption DEF None, Env!None
    <3>5. QED BY <3>1, <3>2, <3>3, <3>4 DEF OneIndexOf
  <2>4. CASE p # q
    BY <1>4, <2>1, <2>4, <1>b, <1>c DEF Match
  <2>5. QED BY <2>3, <2>4
<1>5. ASSUME NEW q \in Queries, Quote(q)
      PROVE  OneIndexOf(p, Results(shown[p], due[p]))'
  <2>0. PICK from \in Snippet(Head(due[q])) :
           shown' = [shown EXCEPT ![q] = Append(@, [doc |-> Head(due[q]), read |-> from])]
    BY <1>5 DEF Quote
  <2> DEFINE r == [doc |-> Head(due[q]), read |-> from]
  <2>1. /\ due[q] # <<>>
        /\ shown' = [shown EXCEPT ![q] = Append(@, r)]
        /\ due' = [due EXCEPT ![q] = Tail(@)]
        /\ opened' = opened
    BY <1>5, <2>0 DEF Quote
  <2>2. CASE p = q
    <3>1. Head(due[q]) \in Documents
      BY <1>b, <2>1, HeadTailProperties
    <3>2. r \in Result /\ r.doc = Head(due[q])
      BY <3>1, <1>a, SnippetType DEF Result, TypeOK
    <3> HIDE DEF r
    <3>3. Results(Append(shown[q], r), Tail(due[q])) = Results(shown[q], due[q])
      BY <1>b, <2>1, <3>2, QuotingKeepsResults
    <3>4. shown'[p] = Append(shown[q], r) /\ due'[p] = Tail(due[q])
      BY <1>b, <2>1, <2>2
    <3>5. Results(shown[p], due[p])' = Results(shown[p], due[p])
      BY <2>2, <3>3, <3>4 DEF Results
    <3>6. QED BY <1>a, <2>1, <3>5 DEF OneIndexOf
  <2>3. CASE p # q
    BY <2>1, <2>3, <1>b, <1>c
  <2>4. QED BY <2>2, <2>3
<1>6. ASSUME NEW q \in Queries, PrintResult(q)
      PROVE  OneIndexOf(p, Results(shown[p], due[p]))'
  BY <1>6, <1>c DEF PrintResult
<1>7. ASSUME NEW q \in Queries, Exit(q)
      PROVE  OneIndexOf(p, Results(shown[p], due[p]))'
  <2>1. due[q] = <<>>
    BY <1>7, <1>a DEF Exit, Steps
  <2>2. CASE p = q
    BY <1>7, <2>1, <2>2, <1>b, <1>d DEF Exit
  <2>3. CASE p # q
    BY <1>7, <2>3, <1>b, <1>c DEF Exit
  <2>4. QED BY <2>2, <2>3
<1>8. CASE UNCHANGED local
  BY <1>8, <1>c DEF local
<1>9. QED
  BY <1>1, <1>2, <1>3, <1>4, <1>5, <1>6, <1>7, <1>8
     DEF Next, Work, MirrorStep, vars

LEMMA InitLookups == Init => Lookups
<1> SUFFICES ASSUME Init PROVE Lookups
  OBVIOUS
<1>1. Steps
  BY DEF Init, Steps
<1>2. OneIndex
  <2>1. Results(<<>>, <<>>) = <<>>
    BY NoneShown, EmptySeq
  <2>2. ASSUME NEW q \in Queries PROVE Results(shown[q], due[q]) = <<>>
    BY <2>1 DEF Init
  <2>3. QED BY <2>2, OneIndexPerProcess DEF OneIndexOf
<1>3. QED BY <1>1, <1>2, InitTypes DEF Lookups

LEMMA LookupsStep == Lookups /\ [Next]_vars => Lookups'
BY TypeStep, StepsStep, OneIndexStep DEF Lookups

(* Every variable keeps its type, with rollbacks or without. *)
THEOREM TypeCorrect == Spec => []TypeOK
<1>1. Lookups => TypeOK
  BY DEF Lookups
<1>2. QED BY <1>1, InitLookups, LookupsStep, PTL DEF Spec

(* The documents of one answer are distinct documents of one index, no more
   than the limit, whatever is published or rolled back while the process
   runs (ngsearch's run). *)
THEOREM AnswersComeFromOneIndex == Spec => []OneIndex
<1>1. Lookups => OneIndex
  BY DEF Lookups
<1>2. QED BY <1>1, InitLookups, LookupsStep, PTL DEF Spec

-----------------------------------------------------------------------------
(* Freshness.                                                              *)

(* Faithful says this of each process. *)
FaithfulOf(q) ==
    /\ began[q] \in published \cup {None}
    /\ opened[q] \in published \cup {None}
    /\ opened[q] # None => opened[q] >= began[q]
    /\ \A i \in DOMAIN shown[q] :
          LET read == shown[q][i].read
          IN /\ read \in published \cup {None, Unread}
             /\ read \in Gens =>
                    /\ read >= opened[q]
                    /\ \A j \in 1..i - 1 :
                          shown[q][j].read \in Gens => shown[q][j].read <= read
             /\ opened[q] # None /\ opened[q] = live =>
                    read \in {live, Unread} /\ shown[q][i].doc \in DocsOf[live]

LEMMA FaithfulPerProcess ==
    ASSUME ~rolledBack
    PROVE  Faithful <=> LiveIsNewest /\ \A q \in Queries : FaithfulOf(q)
BY DEF Faithful, SeenIsPublished, NeverStale, QuotesNotOlder, QuotesMatchMirror,
       FaithfulOf

(* Without a rollback the mirror only moves forward. *)
LEMMA MirrorMovesForward ==
    ASSUME ~rolledBack', Env!TypeOK, LiveIsNewest, Env!Next
    PROVE  /\ LiveIsNewest'
           /\ published \subseteq published'
           /\ \A g \in published : g = live' => g = live
<1> USE GensAssumption DEF Env!TypeOK, LiveIsNewest, None, Env!None
<1>1. CASE Env!DropBackup
  BY <1>1 DEF Env!DropBackup
<1>2. CASE Env!Retire
  BY <1>2 DEF Env!Retire
<1>3. ASSUME NEW g \in Gens, Env!Install(g)
      PROVE  /\ LiveIsNewest'
             /\ published \subseteq published'
             /\ \A h \in published : h = live' => h = live
  <2>1. published \subseteq Nat /\ g \in Nat
    OBVIOUS
  <2>2. QED BY <1>3, <2>1 DEF Env!Install
<1>4. QED
  BY <1>1, <1>2, <1>3 DEF Env!Next, Env!SetAside, Env!Restore

LEMMA FaithfulStep ==
    ASSUME ~rolledBack, ~rolledBack', Lookups, Faithful, [Next]_vars
    PROVE  Faithful'
<1>a. TypeOK /\ Steps
  BY DEF Lookups
<1>b. LiveIsNewest /\ \A q \in Queries : FaithfulOf(q)
  BY FaithfulPerProcess
<1>c. /\ shown \in [Queries -> Seq(Result)] /\ due \in [Queries -> Seq(Documents)]
      /\ opened \in [Queries -> Gens \cup {None}]
      /\ began \in [Queries -> Gens \cup {None}]
  BY <1>a DEF TypeOK
<1>d. published \subseteq Nat /\ live \in Nat /\ None = 0
  BY <1>a, GensAssumption DEF TypeOK, Env!TypeOK, None, Env!None
<1> HIDE DEF Result, Documents
(* What is left to show when the mirror stands still. *)
<1>e. ASSUME UNCHANGED mirror, \A p \in Queries : FaithfulOf(p)'
      PROVE  Faithful'
  <2>1. LiveIsNewest'
    BY <1>b, <1>e DEF LiveIsNewest, mirror
  <2>2. QED
    BY <1>e, <2>1 DEF Faithful, SeenIsPublished, NeverStale, QuotesNotOlder,
                      QuotesMatchMirror, FaithfulOf
<1>f. ASSUME UNCHANGED mirror, NEW p \in Queries, shown'[p] = shown[p],
             opened'[p] = opened[p], began'[p] = began[p]
      PROVE  FaithfulOf(p)'
  BY <1>b, <1>f DEF FaithfulOf, mirror
<1>1. ASSUME NEW q \in Queries, NEW blank \in BOOLEAN, Begin(q, blank)
      PROVE  Faithful'
  <2>1. UNCHANGED mirror /\ UNCHANGED <<opened, shown>>
        /\ began' = [began EXCEPT ![q] = live]
        /\ opened[q] = None /\ shown[q] = <<>>
    BY <1>1, <1>a DEF Begin, Steps
  <2>2. ASSUME NEW p \in Queries, p = q PROVE FaithfulOf(p)'
    <3>1. began'[p] = live /\ opened'[p] = None /\ shown'[p] = <<>>
      BY <2>1, <2>2, <1>c
    <3>2. live \in published \cup {None} /\ published' = published
      BY <1>b, <2>1 DEF LiveIsNewest, mirror
    <3>3. QED BY <3>1, <3>2 DEF FaithfulOf
  <2>3. ASSUME NEW p \in Queries, p # q PROVE FaithfulOf(p)'
    BY <2>1, <2>3, <1>c, <1>f
  <2>4. QED BY <2>1, <2>2, <2>3, <1>e
<1>2. ASSUME NEW q \in Queries, Load(q) PROVE Faithful'
  <2>1. UNCHANGED mirror /\ UNCHANGED <<began, shown>> /\ live # None
        /\ opened' = [opened EXCEPT ![q] = live] /\ shown[q] = <<>>
    BY <1>2, <1>a DEF Load, Steps
  <2>2. ASSUME NEW p \in Queries, p = q PROVE FaithfulOf(p)'
    <3>1. began'[p] = began[p] /\ opened'[p] = live /\ shown'[p] = <<>>
      BY <2>1, <2>2, <1>c
    <3>2. /\ live \in published /\ \A g \in published : g <= live
          /\ published' = published
      BY <1>b, <2>1 DEF LiveIsNewest, mirror
    <3>3. began[p] \in published \cup {None}
      BY <1>b DEF FaithfulOf
    <3>4. live >= began[p]
      <4>1. CASE began[p] \in published
        BY <3>2, <4>1, <1>d
      <4>2. CASE began[p] = None
        BY <4>2, <1>d
      <4>3. QED BY <3>3, <4>1, <4>2
    <3>5. QED BY <3>1, <3>2, <3>3, <3>4 DEF FaithfulOf
  <2>3. ASSUME NEW p \in Queries, p # q PROVE FaithfulOf(p)'
    BY <2>1, <2>3, <1>c, <1>f
  <2>4. QED BY <2>1, <2>2, <2>3, <1>e
<1>3. ASSUME NEW q \in Queries, LoadFails(q) PROVE Faithful'
  BY <1>3, <1>e, <1>f DEF LoadFails
<1>4. ASSUME NEW q \in Queries, Match(q) PROVE Faithful'
  BY <1>4, <1>e, <1>f DEF Match
<1>5. ASSUME NEW q \in Queries, Quote(q) PROVE Faithful'
  <2>0. PICK read \in Snippet(Head(due[q])) :
           shown' = [shown EXCEPT ![q] = Append(@, [doc |-> Head(due[q]), read |-> read])]
    BY <1>5 DEF Quote
  <2> DEFINE r == [doc |-> Head(due[q]), read |-> read]
  <2>1. /\ due[q] # <<>>
        /\ shown' = [shown EXCEPT ![q] = Append(@, r)]
        /\ UNCHANGED mirror /\ UNCHANGED <<began, opened>>
        /\ opened[q] \in Gens
    BY <1>5, <2>0, <1>a DEF Quote, Steps
  <2>2. Head(due[q]) \in DocsOf[opened[q]]
    <3>1. OneIndexOf(q, Results(shown[q], due[q]))
      BY OneIndexPerProcess DEF Lookups
    <3>2. /\ Len(shown[q]) + 1 \in DOMAIN Results(shown[q], due[q])
          /\ Results(shown[q], due[q])[Len(shown[q]) + 1] = Head(due[q])
          /\ Results(shown[q], due[q]) # <<>>
      BY <2>1, <1>c, NextIsAResult
    <3>3. QED BY <3>1, <3>2 DEF OneIndexOf
  <2>3. /\ read \in {None, Unread} \/ (read = live /\ live # None)
        /\ opened[q] = live => read \in {live, Unread}
        /\ None \notin Gens /\ Unread \notin Gens
    <3>1. opened[q] # None
      BY <2>1, GensAssumption DEF None, Env!None
    <3>2. None \notin Gens /\ Unread \notin Gens
      BY GensAssumption DEF None, Env!None, Unread
    <3>3. QED BY <2>0, <2>2, <3>1, <3>2 DEF Snippet, InLive
  <2>4. ASSUME NEW p \in Queries, p = q PROVE FaithfulOf(p)'
    <3>1. FaithfulOf(p)
      BY <1>b
    <3>2. Head(due[q]) \in Documents
      BY <1>c, <2>1, HeadTailProperties
    <3>3. r \in Result /\ r.read = read /\ r.doc = Head(due[q])
      BY <3>2, <1>a, SnippetType DEF Result, TypeOK
    <3> HIDE DEF r
    <3>4. /\ shown'[p] = Append(shown[p], r)
          /\ opened'[p] = opened[p] /\ began'[p] = began[p]
          /\ live' = live /\ published' = published
      BY <2>1, <2>4, <1>c DEF mirror
    <3>5. /\ Len(shown[p]) \in Nat
          /\ DOMAIN shown[p] = 1..Len(shown[p])
          /\ DOMAIN shown'[p] = 1..Len(shown[p]) + 1
          /\ \A i \in 1..Len(shown[p]) : shown'[p][i] = shown[p][i]
          /\ shown'[p][Len(shown[p]) + 1] = r
      BY <3>3, <3>4, <1>c
    <3>6. /\ live # None => live \in published /\ \A g \in published : g <= live
          /\ opened[p] \in published \cup {None}
          /\ \A i \in DOMAIN shown[p] : shown[p][i].read \in published \cup {None, Unread}
      BY <1>b, <3>1 DEF LiveIsNewest, FaithfulOf
    <3>7. ASSUME NEW i \in DOMAIN shown'[p]
          PROVE  LET new == shown'[p][i].read
                 IN /\ new \in published \cup {None, Unread}
                    /\ new \in Gens =>
                          /\ new >= opened[p]
                          /\ \A j \in 1..i - 1 :
                                shown'[p][j].read \in Gens => shown'[p][j].read <= new
                    /\ opened[p] # None /\ opened[p] = live =>
                          new \in {live, Unread} /\ shown'[p][i].doc \in DocsOf[live]
      <4>1. CASE i \in 1..Len(shown[p])
        <5>1. i \in DOMAIN shown[p] /\ shown'[p][i] = shown[p][i]
              /\ \A j \in 1..i - 1 : shown'[p][j] = shown[p][j]
          <6>1. i \in Int /\ \A j \in 1..i - 1 : j \in 1..Len(shown[p])
            BY <4>1, <3>5
          <6>2. QED BY <4>1, <3>5, <6>1
        <5>2. QED BY <5>1, <3>1 DEF FaithfulOf
      <4>2. CASE i = Len(shown[p]) + 1
        <5>1. shown'[p][i].read = read /\ shown'[p][i].doc = Head(due[q])
              /\ \A j \in 1..i - 1 : /\ j \in DOMAIN shown[p]
                                     /\ shown'[p][j] = shown[p][j]
          BY <4>2, <3>3, <3>5
        <5>2. CASE read \in {None, Unread}
          BY <5>1, <5>2, <2>2, <2>3, <2>4
        <5>3. CASE read = live /\ live # None
          <6>1. live >= opened[p]
            <7>1. /\ \A g \in published : g <= live
                  /\ opened[p] \in published \cup {None}
              BY <5>3, <3>6
            <7>2. CASE opened[p] \in published
              BY <7>1, <7>2, <1>d
            <7>3. CASE opened[p] = None
              BY <7>3, <1>d
            <7>4. QED BY <7>1, <7>2, <7>3
          <6>2. ASSUME NEW j \in 1..i - 1, shown'[p][j].read \in Gens
                PROVE  shown'[p][j].read <= live
            BY <5>1, <5>3, <6>2, <3>6, <2>3
          <6>3. QED BY <5>1, <5>3, <6>1, <6>2, <3>6, <2>2, <2>3, <2>4
        <5>4. QED BY <5>2, <5>3, <2>3
      <4>3. QED BY <4>1, <4>2, <3>5
    <3>8. QED BY <3>1, <3>4, <3>7 DEF FaithfulOf
  <2>5. ASSUME NEW p \in Queries, p # q PROVE FaithfulOf(p)'
    BY <2>1, <2>5, <1>c, <1>f
  <2>6. QED BY <2>1, <2>4, <2>5, <1>e
<1>6. ASSUME NEW q \in Queries, PrintResult(q) PROVE Faithful'
  BY <1>6, <1>e, <1>f DEF PrintResult
<1>7. ASSUME NEW q \in Queries, Exit(q) PROVE Faithful'
  <2>1. UNCHANGED mirror
        /\ began' = [began EXCEPT ![q] = None]
        /\ opened' = [opened EXCEPT ![q] = None]
        /\ shown' = [shown EXCEPT ![q] = <<>>]
    BY <1>7 DEF Exit
  <2>2. ASSUME NEW p \in Queries, p = q PROVE FaithfulOf(p)'
    <3>1. began'[p] = None /\ opened'[p] = None /\ shown'[p] = <<>>
      BY <2>1, <2>2, <1>c
    <3>2. QED BY <3>1 DEF FaithfulOf
  <2>3. ASSUME NEW p \in Queries, p # q PROVE FaithfulOf(p)'
    BY <2>1, <2>3, <1>c, <1>f
  <2>4. QED BY <2>1, <2>2, <2>3, <1>e
<1>8. CASE MirrorStep
  <2>1. /\ LiveIsNewest'
        /\ published \subseteq published'
        /\ \A g \in published : g = live' => g = live
    BY <1>8, <1>a, <1>b, MirrorMovesForward DEF MirrorStep, TypeOK
  <2>2. UNCHANGED <<began, opened, shown>>
    BY <1>8 DEF MirrorStep, local
  <2>3. ASSUME NEW p \in Queries PROVE FaithfulOf(p)'
    <3>1. FaithfulOf(p)
      BY <1>b
    <3>2. QED BY <2>1, <2>2, <3>1 DEF FaithfulOf
  <2>4. QED
    BY <2>1, <2>3 DEF Faithful, SeenIsPublished, NeverStale, QuotesNotOlder,
                      QuotesMatchMirror, FaithfulOf
<1>9. CASE UNCHANGED vars
  BY <1>9, <1>e, <1>f DEF vars, local
<1>10. QED
  BY <1>1, <1>2, <1>3, <1>4, <1>5, <1>6, <1>7, <1>8, <1>9 DEF Next, Work

(* Nothing takes a rollback back. *)
LEMMA RollbackStays == [Next]_vars /\ rolledBack => rolledBack'
BY DEF Next, Work, Begin, Load, LoadFails, Match, Quote, PrintResult, Exit, MirrorStep,
       vars, mirror, Env!Next, Env!DropBackup, Env!Retire, Env!Install,
       Env!SetAside, Env!Restore

LEMMA IInvHolds == Spec => []IInv
<1>1. Init => IInv
  <2>1. Init => Faithful
    BY DEF Init, Env!Init, Faithful, LiveIsNewest, SeenIsPublished, NeverStale,
           QuotesNotOlder, QuotesMatchMirror, None
  <2>2. QED BY <2>1, InitLookups DEF IInv
<1>2. IInv /\ [Next]_vars => IInv'
  <2>1. SUFFICES ASSUME IInv, [Next]_vars, ~rolledBack'
                 PROVE  Faithful'
    BY LookupsStep DEF IInv
  <2>2. ~rolledBack
    BY <2>1, RollbackStays
  <2>3. QED BY <2>1, <2>2, FaithfulStep DEF IInv
<1>3. QED BY <1>1, <1>2, PTL DEF Spec

(* A query is answered from an index not older than the tree it found: a new
   process never goes back behind the one before it (ngsearch's run). *)
THEOREM NoQueryGoesBack == Spec => []NeverStale
<1>1. IInv => NeverStale
  BY DEF IInv, Faithful, NeverStale
<1>2. QED BY <1>1, IInvHolds, PTL

(* What is quoted under the results is never older than the index, and only
   gets newer down the list (snippet). *)
THEOREM QuotesOnlyGetNewer == Spec => []QuotesNotOlder
<1>1. IInv => QuotesNotOlder
  BY DEF IInv, Faithful, QuotesNotOlder
<1>2. QED BY <1>1, IInvHolds, PTL

(* While the tree is the one the index came from, every result shown has its
   document there, and was read from it or, for an error or its "..", not at
   all (run and snippet). *)
THEOREM ResultsAreThere == Spec => []QuotesMatchMirror
<1>1. IInv => QuotesMatchMirror
  BY DEF IInv, Faithful, QuotesMatchMirror
<1>2. QED BY <1>1, IInvHolds, PTL

(* An answer is of one index, as new as the tree its query found. *)
THEOREM AnswersHold == Spec => []AnswersFromOneIndex
<1>1. OneIndex /\ NeverStale => AnswersFromOneIndex
  BY DEF AnswersFromOneIndex
<1>2. QED BY <1>1, AnswersComeFromOneIndex, NoQueryGoesBack, PTL

(* Until a rollback quotes are from the tree of the index or newer ones, and
   from no other than that tree while it is there. *)
THEOREM QuotesHold == Spec => []QuotesFollowIndex
<1>1. QuotesNotOlder /\ QuotesMatchMirror => QuotesFollowIndex
  BY DEF QuotesFollowIndex
<1>2. QED BY <1>1, QuotesOnlyGetNewer, ResultsAreThere, PTL

=============================================================================
