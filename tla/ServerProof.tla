---------------------------- MODULE ServerProof ----------------------------
(***************************************************************************)
(* What is served, for any connections, any limits and any selector        *)
(* prefixes.  First the connections: the two counters always are the       *)
(* numbers of connections being served and of transfers in flight.  Then   *)
(* the pages: every link of the tree, of the listings and of the search    *)
(* results leads to what it promises.                                      *)
(***************************************************************************)
EXTENDS Reader, SequenceTheorems, FiniteSetTheorems, TLAPS

Types ==
    /\ pc \in [Conns -> Steps]
    /\ kind \in [Conns -> Kinds]
    /\ deadline \in [Conns -> BOOLEAN]
    /\ broken \in [Conns -> BOOLEAN]
    /\ failed \in [Conns -> BOOLEAN]
    /\ pulled \in [Conns -> 0..MaxBytes]
    /\ sent \in [Conns -> Seq(Parts)]

(* The counters count. *)
PlacesCounted ==
    /\ slots = Cardinality(At(Serving))
    /\ slots <= MaxConns
    /\ transfers = Cardinality(At(Transferring))
    /\ transfers <= MaxConcurrent

(* Nothing is sent before a request has been routed, and after a search that
   broke its connection nothing gets through. *)
Unsent ==
    \A c \in Conns :
        /\ pc[c] \in {"closed", "accepted", "refusing", "reading"} => kind[c] = "none"
        /\ pc[c] \in {"closed", "accepted", "reading", "handling"} => sent[c] = <<>>
        /\ pc[c] \in Transferring => kind[c] = "download"
        /\ pc[c] = "reporting" /\ kind[c] # "download" =>
             sent[c] = <<>> \/ (broken[c] /\ sent[c] = <<"cut">>)

IInv == Types /\ PlacesCounted /\ Unsent /\ OneReply

-----------------------------------------------------------------------------
(* What one connection's step does to the set of those at given steps. *)
LEMMA AtMoves ==
    ASSUME pc \in [Conns -> Steps], NEW c \in Conns, NEW s, GoTo(c, s), NEW S
    PROVE  /\ s \in S => At(S)' = At(S) \cup {c}
           /\ s \notin S => At(S)' = At(S) \ {c}
           /\ c \in At(S) <=> pc[c] \in S
BY DEF GoTo, At

LEMMA AtFinite == \A S : IsFiniteSet(At(S)) /\ Cardinality(At(S)) \in Nat
<1>1. \A S : At(S) \subseteq Conns
  BY DEF At
<1>2. QED BY <1>1, ConnsAssumption, FS_Subset, FS_CardinalityType

(* A set of steps is left, entered, or neither. *)
LEMMA Count ==
    ASSUME pc \in [Conns -> Steps], NEW c \in Conns, NEW s, GoTo(c, s), NEW S
    PROVE  Cardinality(At(S))' =
             IF pc[c] \in S
               THEN IF s \in S THEN Cardinality(At(S)) ELSE Cardinality(At(S)) - 1
               ELSE IF s \in S THEN Cardinality(At(S)) + 1 ELSE Cardinality(At(S))
<1>1. IsFiniteSet(At(S))
  BY AtFinite
<1>2. /\ Cardinality(At(S) \cup {c}) =
           IF c \in At(S) THEN Cardinality(At(S)) ELSE Cardinality(At(S)) + 1
      /\ Cardinality(At(S) \ {c}) =
           IF c \in At(S) THEN Cardinality(At(S)) - 1 ELSE Cardinality(At(S))
  BY <1>1, FS_AddElement, FS_RemoveElement
<1>3. QED BY <1>2, AtMoves

LEMMA SentType ==
    ASSUME Types, NEW c \in Conns,
           \/ WriteError(c) \/ Sends(c, "page") \/ Sends(c, "bytes") \/ Breaks(c)
           \/ sent' \in {sent, Extended(c, "cut")}
    PROVE  sent' \in [Conns -> Seq(Parts)]
<1>1. \A sort \in Parts : Append(sent[c], sort) \in Seq(Parts)
  BY DEF Types
<1>2. \A sort \in Parts : [sent EXCEPT ![c] = Append(sent[c], sort)] \in [Conns -> Seq(Parts)]
  BY <1>1 DEF Types
<1>3. \A sort \in Parts : Extended(c, sort) \in [Conns -> Seq(Parts)]
  BY <1>2 DEF Extended, Types
<1>4. sent \in [Conns -> Seq(Parts)]
  BY DEF Types
<1>5. "page" \in Parts /\ "bytes" \in Parts /\ "error" \in Parts /\ "cut" \in Parts
  BY DEF Parts
<1>6. QED BY <1>2, <1>3, <1>4, <1>5 DEF WriteError, Sends, Breaks

LEMMA InitIInv == Init => IInv
<1> SUFFICES ASSUME Init PROVE IInv
  OBVIOUS
<1>1. Types
  BY LimitsAssumption DEF Init, Types, Steps, Serving, Kinds
<1>2. At(Serving) = {} /\ At(Transferring) = {}
  BY DEF Init, At, Serving, Transferring, Fetching
<1>3. PlacesCounted
  BY <1>2, FS_EmptySet, LimitsAssumption DEF Init, PlacesCounted
<1>4. Unsent /\ OneReply
  BY DEF Init, Unsent, OneReply, Transferring, Fetching
<1>5. QED BY <1>1, <1>3, <1>4 DEF IInv

LEMMA TypesStep ==
    ASSUME Types, [Next]_vars
    PROVE  Types'
<1> USE DEF Types, GoTo, Steps, Serving, Transferring, Fetching
<1>1. ASSUME NEW c \in Conns, Accept(c) PROVE Types'
  BY <1>1 DEF Accept, requestVars, proxyVars
<1>2. ASSUME NEW c \in Conns, Break(c) PROVE Types'
  BY <1>2 DEF Break, proxyVars
<1>3. ASSUME NEW c \in Conns, Enter(c) PROVE Types'
  BY <1>3 DEF Enter, proxyVars
<1>4. ASSUME NEW c \in Conns, Refuse(c) PROVE Types'
  BY <1>4 DEF Refuse, proxyVars
<1>5. ASSUME NEW c \in Conns, SayBusy(c) PROVE Types'
  <2>1. sent' \in [Conns -> Seq(Parts)]
    BY <1>5, SentType DEF SayBusy
  <2>2. QED BY <1>5, <2>1 DEF SayBusy, requestVars, proxyVars
<1>6. ASSUME NEW c \in Conns, ReadLine(c) PROVE Types'
  BY <1>6 DEF ReadLine, proxyVars, Kinds
<1>7. ASSUME NEW c \in Conns, ReadFails(c) PROVE Types'
  BY <1>7 DEF ReadFails, requestVars, proxyVars
<1>8. ASSUME NEW c \in Conns, ServePage(c) PROVE Types'
  <2>1. sent' \in [Conns -> Seq(Parts)]
    BY <1>8, SentType DEF ServePage
  <2>2. QED BY <1>8, <2>1 DEF ServePage, requestVars, proxyVars
<1>9. ASSUME NEW c \in Conns, TreeFails(c) PROVE Types'
  <2>1. sent' \in [Conns -> Seq(Parts)]
    BY <1>9, SentType DEF TreeFails
  <2>2. QED BY <1>9, <2>1 DEF TreeFails, requestVars, proxyVars
<1>10. ASSUME NEW c \in Conns, TreeFailsSilently(c) PROVE Types'
  <2>1. sent' \in [Conns -> Seq(Parts)]
    BY <1>10, SentType DEF TreeFailsSilently
  <2>2. QED BY <1>10, <2>1 DEF TreeFailsSilently, requestVars, proxyVars
<1>11. ASSUME NEW c \in Conns, SearchFails(c) PROVE Types'
  BY <1>11 DEF SearchFails, requestVars, proxyVars
<1>12. ASSUME NEW c \in Conns, Report(c) PROVE Types'
  <2>1. sent' \in [Conns -> Seq(Parts)]
    BY <1>12, SentType DEF Report
  <2>2. QED BY <1>12, <2>1 DEF Report, requestVars, proxyVars
<1>13. ASSUME NEW c \in Conns, ResolveFails(c) PROVE Types'
  <2>1. sent' \in [Conns -> Seq(Parts)]
    BY <1>13, SentType DEF ResolveFails
  <2>2. QED BY <1>13, <2>1 DEF ResolveFails, requestVars, proxyVars
<1>14. ASSUME NEW c \in Conns, TransferRefused(c) PROVE Types'
  <2>1. sent' \in [Conns -> Seq(Parts)]
    BY <1>14, SentType DEF TransferRefused
  <2>2. QED BY <1>14, <2>1 DEF TransferRefused, requestVars, proxyVars
<1>15. ASSUME NEW c \in Conns, Ask(c) PROVE Types'
  BY <1>15 DEF Ask, requestVars
<1>16. ASSUME NEW c \in Conns, AskFails(c) PROVE Types'
  <2>1. sent' \in [Conns -> Seq(Parts)]
    BY <1>16, SentType DEF AskFails
  <2>2. QED BY <1>16, <2>1 DEF AskFails, requestVars
<1>17. ASSUME NEW c \in Conns, AskSucceeds(c) PROVE Types'
  BY <1>17 DEF AskSucceeds, requestVars, proxyVars
<1>18. ASSUME NEW c \in Conns, Pull(c) PROVE Types'
  <2>1. pulled' \in [Conns -> 0..MaxBytes]
    <3>1. pulled[c] \in 0..MaxBytes
      OBVIOUS
    <3>2. pulled[c] < MaxBytes => pulled[c] + 1 \in 0..MaxBytes
      BY <3>1, LimitsAssumption
    <3>3. QED BY <1>18, <3>2 DEF Pull
  <2>2. QED BY <1>18, <2>1 DEF Pull, requestVars
<1>19. ASSUME NEW c \in Conns, PullFails(c) PROVE Types'
  BY <1>19 DEF PullFails, requestVars
<1>20. ASSUME NEW c \in Conns, Push(c) PROVE Types'
  <2>1. sent' \in [Conns -> Seq(Parts)]
    BY <1>20, SentType DEF Push
  <2>2. QED BY <1>20, <2>1 DEF Push, requestVars
<1>21. ASSUME NEW c \in Conns, CloseBody(c) PROVE Types'
  BY <1>21 DEF CloseBody, requestVars, proxyVars
<1>22. ASSUME NEW c \in Conns, Leave(c) PROVE Types'
  BY <1>22, LimitsAssumption DEF Leave, requestVars
<1>23. ASSUME NEW c \in Conns, Release(c) PROVE Types'
  BY <1>23 DEF Release, requestVars, proxyVars
<1>24. ASSUME NEW c \in Conns, Close(c) PROVE Types'
  BY <1>24 DEF Close, proxyVars, Kinds
<1>25. CASE UNCHANGED vars
  BY <1>25 DEF vars
<1>26. QED
  BY <1>1, <1>2, <1>3, <1>4, <1>5, <1>6, <1>7, <1>8, <1>9, <1>10, <1>11,
     <1>12, <1>13, <1>14, <1>15, <1>16, <1>17, <1>18, <1>19, <1>20, <1>21,
     <1>22, <1>23, <1>24, <1>25 DEF Next, ServeStep

LEMMA PlacesStep ==
    ASSUME Types, PlacesCounted, [Next]_vars
    PROVE  PlacesCounted'
<1> USE LimitsAssumption DEF PlacesCounted
<1>a. pc \in [Conns -> Steps]
  BY DEF Types
<1>b. Cardinality(At(Serving)) \in Nat /\ Cardinality(At(Transferring)) \in Nat
  BY AtFinite
<1>c. ASSUME NEW c \in Conns, NEW s, GoTo(c, s),
             pc[c] \in Serving <=> s \in Serving,
             pc[c] \in Transferring <=> s \in Transferring,
             UNCHANGED <<slots, transfers>>
      PROVE  PlacesCounted'
  BY <1>a, <1>c, Count
<1>1. ASSUME NEW c \in Conns, Accept(c) PROVE PlacesCounted'
  BY <1>1, <1>c DEF Accept, proxyVars, Serving, Transferring, Fetching
<1>2. ASSUME NEW c \in Conns, Break(c) PROVE PlacesCounted'
  BY <1>2 DEF Break, proxyVars, At
<1>3. ASSUME NEW c \in Conns, Enter(c) PROVE PlacesCounted'
  <2>1. Cardinality(At(Serving))' = slots'
    BY <1>3, <1>a, <1>b, Count DEF Enter, Serving, Transferring, Fetching
  <2>2. Cardinality(At(Transferring))' = transfers'
    BY <1>3, <1>a, <1>b, Count DEF Enter, proxyVars, Transferring, Fetching
  <2>3. QED BY <1>3, <1>b, <2>1, <2>2 DEF Enter, proxyVars
<1>4. ASSUME NEW c \in Conns, Refuse(c) PROVE PlacesCounted'
  BY <1>4, <1>c DEF Refuse, proxyVars, Serving, Transferring, Fetching
<1>5. ASSUME NEW c \in Conns, SayBusy(c) PROVE PlacesCounted'
  BY <1>5, <1>c DEF SayBusy, proxyVars, Serving, Transferring, Fetching
<1>6. ASSUME NEW c \in Conns, ReadLine(c) PROVE PlacesCounted'
  BY <1>6, <1>c DEF ReadLine, proxyVars, Serving, Transferring, Fetching
<1>7. ASSUME NEW c \in Conns, ReadFails(c) PROVE PlacesCounted'
  BY <1>7, <1>c DEF ReadFails, proxyVars, Serving, Transferring, Fetching
<1>8. ASSUME NEW c \in Conns, ServePage(c) PROVE PlacesCounted'
  BY <1>8, <1>c DEF ServePage, proxyVars, Serving, Transferring, Fetching
<1>9. ASSUME NEW c \in Conns, TreeFails(c) PROVE PlacesCounted'
  BY <1>9, <1>c DEF TreeFails, proxyVars, Serving, Transferring, Fetching
<1>10. ASSUME NEW c \in Conns, TreeFailsSilently(c) PROVE PlacesCounted'
  BY <1>10, <1>c DEF TreeFailsSilently, proxyVars, Serving, Transferring, Fetching
<1>11. ASSUME NEW c \in Conns, SearchFails(c) PROVE PlacesCounted'
  BY <1>11, <1>c DEF SearchFails, proxyVars, Serving, Transferring, Fetching
<1>12. ASSUME NEW c \in Conns, Report(c) PROVE PlacesCounted'
  BY <1>12, <1>c DEF Report, proxyVars, Serving, Transferring, Fetching
<1>13. ASSUME NEW c \in Conns, ResolveFails(c) PROVE PlacesCounted'
  BY <1>13, <1>c DEF ResolveFails, proxyVars, Serving, Transferring, Fetching
<1>14. ASSUME NEW c \in Conns, TransferRefused(c) PROVE PlacesCounted'
  BY <1>14, <1>c DEF TransferRefused, proxyVars, Serving, Transferring, Fetching
<1>15. ASSUME NEW c \in Conns, Ask(c) PROVE PlacesCounted'
  <2>1. Cardinality(At(Serving))' = slots'
    BY <1>15, <1>a, <1>b, Count DEF Ask, Serving, Transferring, Fetching
  <2>2. Cardinality(At(Transferring))' = transfers'
    BY <1>15, <1>a, <1>b, Count DEF Ask, proxyVars, Transferring, Fetching
  <2>3. QED BY <1>15, <1>b, <2>1, <2>2 DEF Ask, proxyVars
<1>16. ASSUME NEW c \in Conns, AskFails(c) PROVE PlacesCounted'
  BY <1>16, <1>c DEF AskFails, proxyVars, Serving, Transferring, Fetching
<1>17. ASSUME NEW c \in Conns, AskSucceeds(c) PROVE PlacesCounted'
  BY <1>17, <1>c DEF AskSucceeds, proxyVars, Serving, Transferring, Fetching
<1>18. ASSUME NEW c \in Conns, Pull(c) PROVE PlacesCounted'
  BY <1>18, <1>c DEF Pull, proxyVars, Serving, Transferring, Fetching
<1>19. ASSUME NEW c \in Conns, PullFails(c) PROVE PlacesCounted'
  BY <1>19, <1>c DEF PullFails, proxyVars, Serving, Transferring, Fetching
<1>20. ASSUME NEW c \in Conns, Push(c) PROVE PlacesCounted'
  BY <1>20, <1>c DEF Push, proxyVars, Serving, Transferring, Fetching
<1>21. ASSUME NEW c \in Conns, CloseBody(c) PROVE PlacesCounted'
  BY <1>21, <1>c DEF CloseBody, proxyVars, Serving, Transferring, Fetching
<1>22. ASSUME NEW c \in Conns, Leave(c) PROVE PlacesCounted'
  <2>1. Cardinality(At(Serving))' = slots'
    BY <1>22, <1>a, <1>b, Count DEF Leave, Serving, Transferring, Fetching
  <2>2. Cardinality(At(Transferring))' = transfers'
    BY <1>22, <1>a, <1>b, Count DEF Leave, proxyVars, Transferring, Fetching
  <2>3. QED BY <1>22, <1>b, <2>1, <2>2 DEF Leave, proxyVars
<1>23. ASSUME NEW c \in Conns, Release(c) PROVE PlacesCounted'
  <2>1. Cardinality(At(Serving))' = slots'
    BY <1>23, <1>a, <1>b, Count DEF Release, Serving, Transferring, Fetching
  <2>2. Cardinality(At(Transferring))' = transfers'
    BY <1>23, <1>a, <1>b, Count DEF Release, proxyVars, Transferring, Fetching
  <2>3. QED BY <1>23, <1>b, <2>1, <2>2 DEF Release, proxyVars
<1>24. ASSUME NEW c \in Conns, Close(c) PROVE PlacesCounted'
  BY <1>24, <1>c DEF Close, proxyVars, Serving, Transferring, Fetching
<1>25. CASE UNCHANGED vars
  BY <1>25 DEF vars, At
<1>26. QED
  BY <1>1, <1>2, <1>3, <1>4, <1>5, <1>6, <1>7, <1>8, <1>9, <1>10, <1>11,
     <1>12, <1>13, <1>14, <1>15, <1>16, <1>17, <1>18, <1>19, <1>20, <1>21,
     <1>22, <1>23, <1>24, <1>25 DEF Next, ServeStep

LEMMA PlacesHold == Spec => [](Types /\ PlacesCounted)
<1>1. Init => Types /\ PlacesCounted
  BY InitIInv DEF IInv
<1>2. Types /\ PlacesCounted /\ [Next]_vars => (Types /\ PlacesCounted)'
  BY TypesStep, PlacesStep
<1>3. QED BY <1>1, <1>2, PTL DEF Spec

(* Every variable keeps its type; for the two counters this says that the
   limits hold and that no place is given back twice. *)
THEOREM TypeCorrect == Spec => []TypeOK
<1>1. Types /\ PlacesCounted => TypeOK
  BY AtFinite, LimitsAssumption DEF Types, PlacesCounted, TypeOK
<1>2. QED BY <1>1, PlacesHold, PTL

(* At most MaxConcurrent requests are open at the upstream. *)
THEOREM UpstreamIsSpared == Spec => []UpstreamSpared
<1>1. Types /\ PlacesCounted => UpstreamSpared
  <2>1. At(Fetching) \subseteq At(Transferring)
    BY DEF At, Transferring
  <2>2. Cardinality(At(Fetching)) <= Cardinality(At(Transferring))
    BY <2>1, AtFinite, FS_Subset
  <2>3. QED BY <2>2, AtFinite, LimitsAssumption DEF PlacesCounted, UpstreamSpared
<1>2. QED BY <1>1, PlacesHold, PTL

(* A connection is shed only while MaxConns others hold a place. *)
THEOREM ShedsOnlyWhenFull == Spec => ShedOnlyWhenFull
<1>1. ASSUME Types, PlacesCounted, NEW c \in Conns, Refuse(c)
      PROVE  Cardinality({d \in Conns \ {c} : pc[d] # "closed"}) >= MaxConns
  <2> DEFINE others == {d \in Conns \ {c} : pc[d] # "closed"}
  <2>1. At(Serving) \subseteq others
    BY <1>1 DEF Refuse, At, Serving, Transferring, Fetching
  <2>2. IsFiniteSet(others)
    <3>1. others \subseteq Conns
      OBVIOUS
    <3>2. QED BY <3>1, ConnsAssumption, FS_Subset
  <2>3. Cardinality(At(Serving)) <= Cardinality(others) /\ Cardinality(others) \in Nat
    BY <2>1, <2>2, FS_Subset, FS_CardinalityType
  <2>4. Cardinality(At(Serving)) = MaxConns
    BY <1>1 DEF Refuse, PlacesCounted
  <2>5. QED BY <2>3, <2>4, LimitsAssumption
<1>2. Types /\ PlacesCounted =>
        \A c \in Conns : Refuse(c) =>
          Cardinality({d \in Conns \ {c} : pc[d] # "closed"}) >= MaxConns
  BY <1>1
<1>3. QED BY <1>2, PlacesHold, PTL DEF ShedOnlyWhenFull

-----------------------------------------------------------------------------
(* The two instances count as this module does. *)
LEMMA PoolCardinality ==
    \A S : /\ ConnPool!Cardinality(S) = Cardinality(S)
           /\ TransferPool!Cardinality(S) = Cardinality(S)
BY DEF ConnPool!Cardinality, TransferPool!Cardinality, Cardinality

(* A step of one connection, seen from the pools. *)
LEMMA PoolsStep ==
    ASSUME Types, PlacesCounted, [Next]_vars
    PROVE  /\ [ConnPool!Next]_(At(Serving))
           /\ [TransferPool!Next]_(At(Transferring))
<1>a. pc \in [Conns -> Steps]
  BY DEF Types
<1>1. ASSUME NEW c \in Conns, NEW s, GoTo(c, s), NEW S, pc[c] \in S <=> s \in S
      PROVE  At(S)' = At(S)
  BY <1>a, <1>1 DEF GoTo, At
<1>2. ASSUME NEW c \in Conns, Enter(c)
      PROVE  ConnPool!Acquire(c) /\ At(Transferring)' = At(Transferring)
  <2>1. GoTo(c, "reading") /\ pc[c] = "accepted" /\ Cardinality(At(Serving)) < MaxConns
    BY <1>2 DEF Enter, PlacesCounted
  <2>2. c \notin At(Serving) /\ At(Serving)' = At(Serving) \cup {c}
    BY <1>a, <2>1, AtMoves DEF Serving, Transferring, Fetching
  <2>3. At(Transferring)' = At(Transferring)
    BY <1>1, <2>1 DEF Transferring, Fetching
  <2>4. QED BY <2>1, <2>2, <2>3, PoolCardinality DEF ConnPool!Acquire
<1>3. ASSUME NEW c \in Conns, Release(c)
      PROVE  ConnPool!Release(c) /\ At(Transferring)' = At(Transferring)
  <2>1. GoTo(c, "closing") /\ pc[c] = "releasing"
    BY <1>3 DEF Release
  <2>2. c \in At(Serving) /\ At(Serving)' = At(Serving) \ {c}
    BY <1>a, <2>1, AtMoves DEF Serving, Transferring, Fetching
  <2>3. At(Transferring)' = At(Transferring)
    BY <1>1, <2>1 DEF Transferring, Fetching
  <2>4. QED BY <2>2, <2>3 DEF ConnPool!Release
<1>4. ASSUME NEW c \in Conns, Ask(c)
      PROVE  TransferPool!Acquire(c) /\ At(Serving)' = At(Serving)
  <2>1. GoTo(c, "asking") /\ pc[c] = "handling" /\ Cardinality(At(Transferring)) < MaxConcurrent
    BY <1>4 DEF Ask, PlacesCounted
  <2>2. c \notin At(Transferring) /\ At(Transferring)' = At(Transferring) \cup {c}
    BY <1>a, <2>1, AtMoves DEF Transferring, Fetching
  <2>3. At(Serving)' = At(Serving)
    BY <1>1, <2>1 DEF Serving, Transferring, Fetching
  <2>4. QED BY <2>1, <2>2, <2>3, PoolCardinality DEF TransferPool!Acquire
<1>5. ASSUME NEW c \in Conns, Leave(c)
      PROVE  TransferPool!Release(c) /\ At(Serving)' = At(Serving)
  <2>1. PICK s \in {"reporting", "releasing"} : GoTo(c, s) /\ pc[c] = "leaving"
    BY <1>5 DEF Leave
  <2>2. c \in At(Transferring) /\ At(Transferring)' = At(Transferring) \ {c}
    BY <1>a, <2>1, AtMoves DEF Transferring, Fetching
  <2>3. At(Serving)' = At(Serving)
    BY <1>1, <2>1 DEF Serving, Transferring, Fetching
  <2>4. QED BY <2>2, <2>3 DEF TransferPool!Release
<1>6. ASSUME NEW c \in Conns, Accept(c) \/ Break(c) \/ ServeStep(c),
             ~Enter(c), ~Release(c), ~Ask(c), ~Leave(c)
      PROVE  At(Serving)' = At(Serving) /\ At(Transferring)' = At(Transferring)
  <2>1. CASE Break(c)
    BY <2>1 DEF Break, At
  <2>2. CASE ~Break(c)
    <3>1. PICK s \in Steps :
            /\ GoTo(c, s)
            /\ pc[c] \in Serving <=> s \in Serving
            /\ pc[c] \in Transferring <=> s \in Transferring
      BY <1>6, <2>2
         DEF ServeStep, Accept, Refuse, SayBusy, ReadLine, ReadFails, ServePage,
             TreeFails, TreeFailsSilently, SearchFails, Report, ResolveFails,
             TransferRefused, AskFails, AskSucceeds, Pull, PullFails, Push,
             CloseBody, Close, Steps, Serving, Transferring, Fetching
    <3>2. QED BY <1>1, <3>1
  <2>3. QED BY <2>1, <2>2
<1>7. CASE UNCHANGED vars
  BY <1>7 DEF vars, At
<1>8. QED
  BY <1>2, <1>3, <1>4, <1>5, <1>6, <1>7
     DEF Next, ConnPool!Next, TransferPool!Next

(* The connections being served are a pool of MaxConns places. *)
THEOREM ConnectionsArePooled == Spec => ServesWithinMaxConns
<1>1. Init => ConnPool!Init
  BY DEF Init, ConnPool!Init, At, Serving, Transferring, Fetching
<1>2. Types /\ PlacesCounted /\ [Next]_vars => [ConnPool!Next]_(At(Serving))
  BY PoolsStep
<1>3. QED BY <1>1, <1>2, PlacesHold, PTL DEF Spec, ServesWithinMaxConns, ConnPool!Spec

(* The transfers in flight are a pool of MaxConcurrent places. *)
THEOREM TransfersArePooled == Spec => TransfersWithinLimit
<1>1. Init => TransferPool!Init
  BY DEF Init, TransferPool!Init, At, Transferring, Fetching
<1>2. Types /\ PlacesCounted /\ [Next]_vars => [TransferPool!Next]_(At(Transferring))
  BY PoolsStep
<1>3. QED BY <1>1, <1>2, PlacesHold, PTL DEF Spec, TransfersWithinLimit, TransferPool!Spec

-----------------------------------------------------------------------------
(* What a first write leaves, and what a write to a broken connection does
   behind what has been cut. *)
LEMMA FirstPart ==
    ASSUME Types, NEW c \in Conns, sent[c] = <<>>,
           \/ WriteError(c) \/ Sends(c, "page") \/ Breaks(c)
           \/ sent' \in {sent, Extended(c, "cut")}
    PROVE  /\ Len(sent'[c]) <= 1
           /\ broken[c] => sent'[c] \in {<<>>, <<"cut">>}
           /\ \A d \in Conns \ {c} : sent'[d] = sent[d]
<1>1. \A sort : Append(sent[c], sort) = <<sort>> /\ Len(<<sort>>) = 1
  OBVIOUS
<1>2. \A sort : Extended(c, sort) = [sent EXCEPT ![c] = <<sort>>]
  BY <1>1 DEF Extended, EndsIn
<1>3. PICK s \in {<<>>, <<"cut">>, <<"page">>, <<"error">>} :
        /\ sent' = [sent EXCEPT ![c] = s]
        /\ broken[c] => s \in {<<>>, <<"cut">>}
  <2>1. sent = [sent EXCEPT ![c] = <<>>]
    BY DEF Types
  <2>2. QED BY <1>1, <1>2, <2>1 DEF WriteError, Sends, Breaks
<1>4. /\ Len(<<>>) <= 1 /\ Len(<<"cut">>) <= 1
      /\ Len(<<"page">>) <= 1 /\ Len(<<"error">>) <= 1
  OBVIOUS
<1>5. Len(s) <= 1
  BY <1>3, <1>4
<1>6. QED BY <1>3, <1>5 DEF Types

LEMMA AfterCut ==
    ASSUME NEW c \in Conns, broken[c], sent[c] = <<"cut">>, WriteError(c)
    PROVE  sent' = sent
<1>1. EndsIn(c, "cut")
  BY DEF EndsIn
<1>2. QED BY <1>1 DEF WriteError, Breaks, Extended

LEMMA UnsentStep ==
    ASSUME Types, Unsent, OneReply, [Next]_vars
    PROVE  Unsent' /\ OneReply'
<1> USE DEF Unsent, OneReply, GoTo, Transferring, Fetching
<1>1. ASSUME NEW c \in Conns, Accept(c) PROVE Unsent' /\ OneReply'
  BY <1>1 DEF Accept, requestVars, proxyVars, Types
<1>2. ASSUME NEW c \in Conns, Break(c) PROVE Unsent' /\ OneReply'
  BY <1>2 DEF Break, proxyVars, Types
<1>3. ASSUME NEW c \in Conns, Enter(c) PROVE Unsent' /\ OneReply'
  BY <1>3 DEF Enter, proxyVars, Types
<1>4. ASSUME NEW c \in Conns, Refuse(c) PROVE Unsent' /\ OneReply'
  BY <1>4 DEF Refuse, proxyVars, Types
<1>5. ASSUME NEW c \in Conns, SayBusy(c) PROVE Unsent' /\ OneReply'
  BY <1>5 DEF SayBusy, requestVars, proxyVars, Types, WriteError, Sends, Breaks, Extended, EndsIn
<1>6. ASSUME NEW c \in Conns, ReadLine(c) PROVE Unsent' /\ OneReply'
  BY <1>6 DEF ReadLine, proxyVars, Types, Kinds
<1>7. ASSUME NEW c \in Conns, ReadFails(c) PROVE Unsent' /\ OneReply'
  BY <1>7 DEF ReadFails, requestVars, proxyVars, Types
<1>8. ASSUME NEW c \in Conns, ServePage(c) PROVE Unsent' /\ OneReply'
  <2>1. sent[c] = <<>> /\ kind[c] \in {"tree", "search"} /\ UNCHANGED requestVars
    BY <1>8 DEF ServePage
  <2>2. /\ Len(sent'[c]) <= 1
        /\ broken[c] => sent'[c] \in {<<>>, <<"cut">>}
        /\ \A d \in Conns \ {c} : sent'[d] = sent[d]
    BY <1>8, <2>1, FirstPart DEF ServePage
  <2>3. GoTo(c, "releasing") \/ (GoTo(c, "reporting") /\ broken[c])
    BY <1>8 DEF ServePage, Breaks
  <2>4. OneReply'
    BY <2>1, <2>2 DEF requestVars
  <2>5. ASSUME NEW d \in Conns, d # c PROVE Unsent!(d)'
    BY <2>1, <2>2, <2>3, <2>5 DEF requestVars, Types
  <2>6. Unsent!(c)'
    BY <2>1, <2>2, <2>3 DEF requestVars, Types
  <2>7. QED BY <2>4, <2>5, <2>6
<1>9. ASSUME NEW c \in Conns, TreeFails(c) PROVE Unsent' /\ OneReply'
  <2>1. sent[c] = <<>> /\ pc[c] = "handling" /\ kind[c] # "none"
    BY <1>9 DEF TreeFails, Types
  <2>2. /\ Len(sent'[c]) <= 1
        /\ broken[c] => sent'[c] \in {<<>>, <<"cut">>}
        /\ \A d \in Conns \ {c} : sent'[d] = sent[d]
    BY <1>9, <2>1, FirstPart DEF TreeFails
  <2>3. QED BY <1>9, <2>1, <2>2 DEF TreeFails, requestVars, Types
<1>10. ASSUME NEW c \in Conns, TreeFailsSilently(c) PROVE Unsent' /\ OneReply'
  <2>1. sent[c] = <<>> /\ pc[c] = "handling" /\ kind[c] # "none"
    BY <1>10 DEF TreeFailsSilently, Types
  <2>2. /\ Len(sent'[c]) <= 1
        /\ broken[c] => sent'[c] \in {<<>>, <<"cut">>}
        /\ \A d \in Conns \ {c} : sent'[d] = sent[d]
    BY <1>10, <2>1, FirstPart DEF TreeFailsSilently
  <2>3. QED BY <1>10, <2>1, <2>2 DEF TreeFailsSilently, requestVars, Types
<1>11. ASSUME NEW c \in Conns, SearchFails(c) PROVE Unsent' /\ OneReply'
  BY <1>11 DEF SearchFails, requestVars, proxyVars, Types
<1>12. ASSUME NEW c \in Conns, Report(c) PROVE Unsent' /\ OneReply'
  <2>1. \A d \in Conns \ {c} : sent'[d] = sent[d]
    BY <1>12 DEF Report, WriteError, Breaks, Extended, Types
  <2>2. kind[c] # "download" => Len(sent'[c]) <= 1
    <3>1. CASE sent[c] = <<>>
      BY <1>12, <3>1, FirstPart DEF Report
    <3>2. CASE broken[c] /\ sent[c] = <<"cut">>
      <4>1. Len(<<"cut">>) = 1
        OBVIOUS
      <4>2. sent'[c] = <<"cut">>
        BY <1>12, <3>2, AfterCut DEF Report
      <4>3. QED BY <4>1, <4>2
    <3>3. QED BY <1>12, <3>1, <3>2 DEF Report
  <2>3. QED BY <1>12, <2>1, <2>2 DEF Report, requestVars, Types
<1>13. ASSUME NEW c \in Conns, ResolveFails(c) PROVE Unsent' /\ OneReply'
  BY <1>13 DEF ResolveFails, requestVars, proxyVars, Types, WriteError, Sends, Breaks, Extended, EndsIn
<1>14. ASSUME NEW c \in Conns, TransferRefused(c) PROVE Unsent' /\ OneReply'
  BY <1>14 DEF TransferRefused, requestVars, proxyVars, Types, WriteError, Sends, Breaks, Extended, EndsIn
<1>15. ASSUME NEW c \in Conns, Ask(c) PROVE Unsent' /\ OneReply'
  BY <1>15 DEF Ask, requestVars, Types
<1>16. ASSUME NEW c \in Conns, AskFails(c) PROVE Unsent' /\ OneReply'
  <2>1. kind[c] = "download" /\ UNCHANGED requestVars
    BY <1>16 DEF AskFails
  <2>2. \A d \in Conns \ {c} : sent'[d] = sent[d]
    BY <1>16 DEF AskFails, WriteError, Breaks, Extended, Types
  <2>3. PICK s \in {"leaving", "closingBody", "pulling"} : GoTo(c, s)
    BY <1>16 DEF AskFails
  <2>4. QED BY <2>1, <2>2, <2>3 DEF requestVars, Types
<1>17. ASSUME NEW c \in Conns, AskSucceeds(c) PROVE Unsent' /\ OneReply'
  BY <1>17 DEF AskSucceeds, requestVars, proxyVars, Types
<1>18. ASSUME NEW c \in Conns, Pull(c) PROVE Unsent' /\ OneReply'
  BY <1>18 DEF Pull, requestVars, Types
<1>19. ASSUME NEW c \in Conns, PullFails(c) PROVE Unsent' /\ OneReply'
  BY <1>19 DEF PullFails, requestVars, Types
<1>20. ASSUME NEW c \in Conns, Push(c) PROVE Unsent' /\ OneReply'
  <2>1. kind[c] = "download" /\ UNCHANGED requestVars
    BY <1>20 DEF Push
  <2>2. \A d \in Conns \ {c} : sent'[d] = sent[d]
    BY <1>20 DEF Push, Sends, Breaks, Extended, Types
  <2>3. PICK s \in {"leaving", "closingBody", "pulling"} : GoTo(c, s)
    BY <1>20 DEF Push
  <2>4. QED BY <2>1, <2>2, <2>3 DEF requestVars, Types
<1>21. ASSUME NEW c \in Conns, CloseBody(c) PROVE Unsent' /\ OneReply'
  BY <1>21 DEF CloseBody, requestVars, proxyVars, Types
<1>22. ASSUME NEW c \in Conns, Leave(c) PROVE Unsent' /\ OneReply'
  BY <1>22 DEF Leave, requestVars, Types
<1>23. ASSUME NEW c \in Conns, Release(c) PROVE Unsent' /\ OneReply'
  BY <1>23 DEF Release, requestVars, proxyVars, Types
<1>24. ASSUME NEW c \in Conns, Close(c) PROVE Unsent' /\ OneReply'
  BY <1>24 DEF Close, proxyVars, Types
<1>25. CASE UNCHANGED vars
  BY <1>25 DEF vars
<1>26. QED
  BY <1>1, <1>2, <1>3, <1>4, <1>5, <1>6, <1>7, <1>8, <1>9, <1>10, <1>11,
     <1>12, <1>13, <1>14, <1>15, <1>16, <1>17, <1>18, <1>19, <1>20, <1>21,
     <1>22, <1>23, <1>24, <1>25 DEF Next, ServeStep

(* The client of a page or a search gets one reply and nothing behind it. *)
THEOREM RepliesAreSingle == Spec => []OneReply
<1>1. Init => IInv
  BY InitIInv
<1>2. IInv /\ [Next]_vars => IInv'
  BY TypesStep, PlacesStep, UnsentStep DEF IInv
<1>3. IInv => OneReply
  BY DEF IInv
<1>4. QED BY <1>1, <1>2, <1>3, PTL DEF Spec

(* Both semaphores are pools: no path through the handlers leaks a place. *)
THEOREM PlacesArePools == Spec => PlacesArePooled
BY ConnectionsArePooled, TransfersArePooled, PTL DEF PlacesArePooled

-----------------------------------------------------------------------------
(* The pages.                                                               *)
(*                                                                          *)
(* A path of the tree is named by two selectors: with the prefix, as the    *)
(* ingesters write it, and without, as the search gives it.  Both are       *)
(* resolved to the path (Resolves).  The invariant of the tree says that    *)
(* each of its menus has only right items, those that lead to a node or to  *)
(* a mount, and which nodes the parts written so far have (TreeInv); that   *)
(* of the screen, that the reply on it is the answer to a right link        *)
(* (ScreenInv).  A tree that is served has every node that a right link may *)
(* lead to (KindOf), so a right link has a good answer (LinksAreAnswered),  *)
(* whose items again are right.                                             *)

(* Sequences that are written out. *)

LEMMA Tuple1 ==
    ASSUME NEW S, NEW a \in S
    PROVE  <<a>> \in Seq(S) /\ Len(<<a>>) = 1 /\ <<a>>[1] = a
<1>1. <<a>> \in [1..1 -> S] /\ 1 \in Nat
  OBVIOUS
<1>. QED
  BY <1>1, SeqDef

LEMMA Tuple2 ==
    ASSUME NEW S, NEW a \in S, NEW b \in S
    PROVE  /\ <<a, b>> \in Seq(S) /\ Len(<<a, b>>) = 2
           /\ <<a, b>>[1] = a /\ <<a, b>>[2] = b
<1>1. <<a, b>> \in [1..2 -> S] /\ 2 \in Nat
  OBVIOUS
<1>. QED
  BY <1>1, SeqDef

LEMMA Tuple3 ==
    ASSUME NEW S, NEW a \in S, NEW b \in S, NEW c \in S
    PROVE  /\ <<a, b, c>> \in Seq(S) /\ Len(<<a, b, c>>) = 3
           /\ <<a, b, c>>[1] = a /\ <<a, b, c>>[2] = b /\ <<a, b, c>>[3] = c
<1>1. <<a, b, c>> \in [1..3 -> S] /\ 3 \in Nat
  OBVIOUS
<1>. QED
  BY <1>1, SeqDef

LEMMA Tuple4 ==
    ASSUME NEW S, NEW a \in S, NEW b \in S, NEW c \in S, NEW d \in S
    PROVE  /\ <<a, b, c, d>> \in Seq(S) /\ Len(<<a, b, c, d>>) = 4
           /\ <<a, b, c, d>>[1] = a /\ <<a, b, c, d>>[2] = b
           /\ <<a, b, c, d>>[3] = c /\ <<a, b, c, d>>[4] = d
<1>1. <<a, b, c, d>> \in [1..4 -> S] /\ 4 \in Nat
  OBVIOUS
<1>. QED
  BY <1>1, SeqDef

LEMMA Tuple5 ==
    ASSUME NEW S, NEW a \in S, NEW b \in S, NEW c \in S, NEW d \in S, NEW e \in S
    PROVE  /\ <<a, b, c, d, e>> \in Seq(S) /\ Len(<<a, b, c, d, e>>) = 5
           /\ <<a, b, c, d, e>>[1] = a /\ <<a, b, c, d, e>>[2] = b
           /\ <<a, b, c, d, e>>[3] = c /\ <<a, b, c, d, e>>[4] = d
           /\ <<a, b, c, d, e>>[5] = e
<1>1. <<a, b, c, d, e>> \in [1..5 -> S] /\ 5 \in Nat
  OBVIOUS
<1>. QED
  BY <1>1, SeqDef

-----------------------------------------------------------------------------
(* Paths and selectors.                                                     *)

(* The names that are written out are strings, which the provers do not
   know. *)
TreeNames == {"github", "org", "repo", "releases", "ncs", "page", "files",
              "repositories", "downloads", "artifacts", "win"}
LeafNames == {"readme.txt", "v1.txt", "index.txt", "about.txt", "caps.txt",
              "robots.txt", "tool", "search.cgi", "search.idx"}
Name == STRING \cup TreeNames \cup LeafNames \cup {"dl", "search"}
Path == Seq(Name)

LEMMA PathType ==
    ASSUME NEW p \in Path
    PROVE  /\ Len(p) \in Nat /\ DOMAIN p = 1..Len(p)
           /\ \A i \in 1..Len(p) : p[i] \in Name
           /\ p = <<>> <=> Len(p) = 0
BY EmptySeq DEF Path

LEMMA SamePath ==
    ASSUME NEW p \in Path, NEW q \in Path,
           Len(p) = Len(q), \A i \in 1..Len(p) : p[i] = q[i]
    PROVE  p = q
BY SeqEqual DEF Path

LEMMA Joined ==
    ASSUME NEW p \in Path, NEW q \in Path
    PROVE  /\ p \o q \in Path /\ Len(p \o q) = Len(p) + Len(q)
           /\ \A i \in 1..Len(p) : (p \o q)[i] = p[i]
           /\ \A i \in 1..Len(q) : (p \o q)[Len(p) + i] = q[i]
<1>1. Len(p) \in Nat /\ Len(q) \in Nat
  BY PathType
<1>2. /\ p \o q \in Path /\ Len(p \o q) = Len(p) + Len(q)
      /\ \A i \in 1..Len(p) + Len(q) :
            (p \o q)[i] = IF i <= Len(p) THEN p[i] ELSE q[i - Len(p)]
  BY ConcatProperties DEF Path
<1>. QED
  BY <1>1, <1>2

LEMMA Begun ==
    ASSUME NEW p \in Path, NEW s \in Path
    PROVE  Pages!IsPrefix(p, s) <=>
              Len(p) <= Len(s) /\ \A i \in 1..Len(p) : p[i] = s[i]
<1>1. Len(p) \in Nat /\ Len(s) \in Nat
  BY PathType
<1>2. ASSUME Len(p) <= Len(s)
      PROVE  SubSeq(p, 1, Len(p)) = SubSeq(s, 1, Len(p)) <=> \A i \in 1..Len(p) : p[i] = s[i]
  <2>1. SubSeq(p, 1, Len(p)) = [i \in 1..Len(p) |-> p[i]]
    BY <1>1
  <2>2. SubSeq(s, 1, Len(p)) = [i \in 1..Len(p) |-> s[i]]
    BY <1>1
  <2>. QED
    BY <2>1, <2>2
<1>. QED
  BY <1>1, <1>2 DEF Pages!IsPrefix

LEMMA Behind ==
    ASSUME NEW p \in Path, NEW q \in Path
    PROVE  /\ SubSeq(p \o q, Len(p) + 1, Len(p \o q)) = q
           /\ Pages!IsPrefix(p, p \o q)
<1>1. Len(p) \in Nat /\ Len(q) \in Nat
  BY PathType
<1>2. PICK s : s = p \o q
  OBVIOUS
<1>3. /\ s \in Path /\ Len(s) = Len(p) + Len(q)
      /\ \A i \in 1..Len(p) : s[i] = p[i]
      /\ \A i \in 1..Len(q) : s[Len(p) + i] = q[i]
  BY Joined, <1>2
<1>4. PICK t : t = SubSeq(s, Len(p) + 1, Len(s))
  OBVIOUS
<1>5. /\ t \in Path /\ Len(t) = Len(q)
      /\ \A i \in 1..Len(q) : t[i] = q[i]
  <2>1. Len(p) + 1 \in Int /\ Len(s) \in Int /\ \A i \in (Len(p) + 1)..Len(s) : s[i] \in Name
    BY <1>1, <1>3, PathType
  <2>2. PICK m \in Int, n \in Int : m = Len(p) + 1 /\ n = Len(s)
    BY <2>1
  <2>3. /\ SubSeq(s, m, n) \in Seq(Name)
        /\ Len(SubSeq(s, m, n)) = IF m <= n THEN n - m + 1 ELSE 0
        /\ \A i \in 1..n - m + 1 : SubSeq(s, m, n)[i] = s[m + i - 1]
    <3>1. \A i \in m..n : s[i] \in Name
      BY <2>1, <2>2
    <3>. QED
      BY <3>1, SubSeqProperties
  <2>4. /\ n - m + 1 = Len(q) /\ (IF m <= n THEN n - m + 1 ELSE 0) = Len(q)
        /\ \A i \in 1..Len(q) : m + i - 1 = Len(p) + i
    BY <1>1, <1>3, <2>2
  <2>5. t = SubSeq(s, m, n)
    BY <1>4, <2>2
  <2>6. t \in Path /\ Len(t) = Len(q) /\ \A i \in 1..Len(q) : t[i] = s[Len(p) + i]
    BY <2>3, <2>4, <2>5 DEF Path
  <2>. QED
    BY <2>6, <1>3
<1>6. t = q
  BY <1>5, SamePath
<1>7. Pages!IsPrefix(p, s)
  <2>1. s \in Path /\ Len(p) <= Len(s) /\ \A i \in 1..Len(p) : p[i] = s[i]
    BY <1>1, <1>3
  <2>. QED
    BY <2>1, Begun
<1>. QED
  BY <1>2, <1>4, <1>6, <1>7
LEMMA Joined11 ==
    ASSUME NEW a \in Name, NEW b \in Name
    PROVE  <<a>> \o <<b>> = <<a, b>>
<1>1. PICK p, q, r : p = <<a>> /\ q = <<b>> /\ r = <<a, b>>
  OBVIOUS
<1>2. /\ p \in Path /\ q \in Path /\ r \in Path /\ Len(p) = 1 /\ Len(q) = 1 /\ Len(r) = 2
      /\ p[1] = a /\ q[1] = b /\ r[1] = a /\ r[2] = b
  BY <1>1, Tuple1, Tuple2 DEF Path
<1>3. PICK s : s = p \o q
  OBVIOUS
<1>4. /\ s \in Path /\ Len(s) = 2
      /\ \A i \in 1..1 : s[i] = p[i]
      /\ \A i \in 1..1 : s[1 + i] = q[i]
  <2>1. p \in Path /\ q \in Path
    BY <1>2
  <2>2. /\ s \in Path /\ Len(s) = Len(p) + Len(q)
        /\ \A i \in 1..Len(p) : s[i] = p[i]
        /\ \A i \in 1..Len(q) : s[Len(p) + i] = q[i]
    BY <2>1, <1>3, Joined
  <2>. QED
    BY <2>2, <1>2
<1>5. \A i \in 1..2 : s[i] = r[i]
  BY <1>2, <1>4
<1>6. s = r
  BY <1>2, <1>4, <1>5, SamePath
<1>. QED
  BY <1>1, <1>3, <1>6

LEMMA Joined21 ==
    ASSUME NEW a \in Name, NEW b \in Name, NEW c \in Name
    PROVE  <<a, b>> \o <<c>> = <<a, b, c>>
<1>1. PICK p, q, r : p = <<a, b>> /\ q = <<c>> /\ r = <<a, b, c>>
  OBVIOUS
<1>2. /\ p \in Path /\ q \in Path /\ r \in Path /\ Len(p) = 2 /\ Len(q) = 1 /\ Len(r) = 3
      /\ p[1] = a /\ p[2] = b /\ q[1] = c /\ r[1] = a /\ r[2] = b /\ r[3] = c
  BY <1>1, Tuple1, Tuple2, Tuple3 DEF Path
<1>3. PICK s : s = p \o q
  OBVIOUS
<1>4. /\ s \in Path /\ Len(s) = 3
      /\ \A i \in 1..2 : s[i] = p[i]
      /\ \A i \in 1..1 : s[2 + i] = q[i]
  <2>1. p \in Path /\ q \in Path
    BY <1>2
  <2>2. /\ s \in Path /\ Len(s) = Len(p) + Len(q)
        /\ \A i \in 1..Len(p) : s[i] = p[i]
        /\ \A i \in 1..Len(q) : s[Len(p) + i] = q[i]
    BY <2>1, <1>3, Joined
  <2>. QED
    BY <2>2, <1>2
<1>5. \A i \in 1..3 : s[i] = r[i]
  BY <1>2, <1>4
<1>6. s = r
  BY <1>2, <1>4, <1>5, SamePath
<1>. QED
  BY <1>1, <1>3, <1>6

LEMMA Joined31 ==
    ASSUME NEW a \in Name, NEW b \in Name, NEW c \in Name, NEW d \in Name
    PROVE  <<a, b, c>> \o <<d>> = <<a, b, c, d>>
<1>1. PICK p, q, r : p = <<a, b, c>> /\ q = <<d>> /\ r = <<a, b, c, d>>
  OBVIOUS
<1>2. /\ p \in Path /\ q \in Path /\ r \in Path /\ Len(p) = 3 /\ Len(q) = 1 /\ Len(r) = 4
      /\ p[1] = a /\ p[2] = b /\ p[3] = c /\ q[1] = d
      /\ r[1] = a /\ r[2] = b /\ r[3] = c /\ r[4] = d
  BY <1>1, Tuple1, Tuple3, Tuple4 DEF Path
<1>3. PICK s : s = p \o q
  OBVIOUS
<1>4. /\ s \in Path /\ Len(s) = 4
      /\ \A i \in 1..3 : s[i] = p[i]
      /\ \A i \in 1..1 : s[3 + i] = q[i]
  <2>1. p \in Path /\ q \in Path
    BY <1>2
  <2>2. /\ s \in Path /\ Len(s) = Len(p) + Len(q)
        /\ \A i \in 1..Len(p) : s[i] = p[i]
        /\ \A i \in 1..Len(q) : s[Len(p) + i] = q[i]
    BY <2>1, <1>3, Joined
  <2>. QED
    BY <2>2, <1>2
<1>5. \A i \in 1..4 : s[i] = r[i]
  BY <1>2, <1>4
<1>6. s = r
  BY <1>2, <1>4, <1>5, SamePath
<1>. QED
  BY <1>1, <1>3, <1>6

LEMMA Joined41 ==
    ASSUME NEW a \in Name, NEW b \in Name, NEW c \in Name, NEW d \in Name, NEW e \in Name
    PROVE  <<a, b, c, d>> \o <<e>> = <<a, b, c, d, e>>
<1>1. PICK p, q, r : p = <<a, b, c, d>> /\ q = <<e>> /\ r = <<a, b, c, d, e>>
  OBVIOUS
<1>2. /\ p \in Path /\ q \in Path /\ r \in Path /\ Len(p) = 4 /\ Len(q) = 1 /\ Len(r) = 5
      /\ p[1] = a /\ p[2] = b /\ p[3] = c /\ p[4] = d /\ q[1] = e
      /\ r[1] = a /\ r[2] = b /\ r[3] = c /\ r[4] = d /\ r[5] = e
  BY <1>1, Tuple1, Tuple4, Tuple5 DEF Path
<1>3. PICK s : s = p \o q
  OBVIOUS
<1>4. /\ s \in Path /\ Len(s) = 5
      /\ \A i \in 1..4 : s[i] = p[i]
      /\ \A i \in 1..1 : s[4 + i] = q[i]
  <2>1. p \in Path /\ q \in Path
    BY <1>2
  <2>2. /\ s \in Path /\ Len(s) = Len(p) + Len(q)
        /\ \A i \in 1..Len(p) : s[i] = p[i]
        /\ \A i \in 1..Len(q) : s[Len(p) + i] = q[i]
    BY <2>1, <1>3, Joined
  <2>. QED
    BY <2>2, <1>2
<1>5. \A i \in 1..5 : s[i] = r[i]
  BY <1>2, <1>4
<1>6. s = r
  BY <1>2, <1>4, <1>5, SamePath
<1>. QED
  BY <1>1, <1>3, <1>6

LEMMA Joined32 ==
    ASSUME NEW a \in Name, NEW b \in Name, NEW c \in Name, NEW d \in Name, NEW e \in Name
    PROVE  <<a, b, c>> \o <<d, e>> = <<a, b, c, d, e>>
<1>1. PICK p, q, r : p = <<a, b, c>> /\ q = <<d, e>> /\ r = <<a, b, c, d, e>>
  OBVIOUS
<1>2. /\ p \in Path /\ q \in Path /\ r \in Path /\ Len(p) = 3 /\ Len(q) = 2 /\ Len(r) = 5
      /\ p[1] = a /\ p[2] = b /\ p[3] = c /\ q[1] = d /\ q[2] = e
      /\ r[1] = a /\ r[2] = b /\ r[3] = c /\ r[4] = d /\ r[5] = e
  BY <1>1, Tuple2, Tuple3, Tuple5 DEF Path
<1>3. PICK s : s = p \o q
  OBVIOUS
<1>4. /\ s \in Path /\ Len(s) = 5
      /\ \A i \in 1..3 : s[i] = p[i]
      /\ \A i \in 1..2 : s[3 + i] = q[i]
  <2>1. p \in Path /\ q \in Path
    BY <1>2
  <2>2. /\ s \in Path /\ Len(s) = Len(p) + Len(q)
        /\ \A i \in 1..Len(p) : s[i] = p[i]
        /\ \A i \in 1..Len(q) : s[Len(p) + i] = q[i]
    BY <2>1, <1>3, Joined
  <2>. QED
    BY <2>2, <1>2
<1>5. \A i \in 1..5 : s[i] = r[i]
  BY <1>2, <1>4
<1>6. s = r
  BY <1>2, <1>4, <1>5, SamePath
<1>. QED
  BY <1>1, <1>3, <1>6

(* What is left of a path without its last name. *)
LEMMA FrontOf ==
    ASSUME NEW p \in Path, NEW a \in Name
    PROVE  Pages!Front(p \o <<a>>) = p
<1>1. PICK u, s : u = <<a>> /\ s = p \o <<a>>
  OBVIOUS
<1>2. u \in Path /\ Len(u) = 1 /\ Len(p) \in Nat
  BY <1>1, Tuple1, PathType DEF Path
<1>3. /\ s \in Path /\ Len(s) = Len(p) + 1
      /\ \A i \in 1..Len(p) : s[i] = p[i]
  BY <1>1, <1>2, Joined
<1>4. PICK m \in Int, n \in Int : m = 1 /\ n = Len(s) - 1
  BY <1>2, <1>3
<1>5. n = Len(p)
  BY <1>2, <1>3, <1>4
<1>6. PICK t : t = SubSeq(s, m, n)
  OBVIOUS
<1>7. t \in Path /\ Len(t) = Len(p) /\ \A i \in 1..Len(t) : t[i] = p[i]
  <2>1. \A i \in m..n : s[i] \in Name
    BY <1>2, <1>3, <1>4, <1>5, PathType
  <2>2. /\ t \in Seq(Name)
        /\ Len(t) = IF m <= n THEN n - m + 1 ELSE 0
        /\ \A i \in 1..n - m + 1 : t[i] = s[m + i - 1]
    BY <2>1, <1>6, SubSeqProperties
  <2>3. (IF m <= n THEN n - m + 1 ELSE 0) = Len(p) /\ n - m + 1 = Len(p)
    BY <1>2, <1>4, <1>5
  <2>4. \A i \in 1..Len(p) : m + i - 1 = i
    BY <1>2, <1>4
  <2>5. t \in Path /\ Len(t) = Len(p) /\ \A i \in 1..Len(p) : t[i] = s[i]
    BY <2>2, <2>3, <2>4 DEF Path
  <2>. QED
    BY <2>5, <1>3
<1>8. t = p
  BY <1>7, SamePath
<1>9. Pages!Front(s) = SubSeq(s, m, n)
  BY <1>4 DEF Pages!Front
<1>. QED
  BY <1>1, <1>6, <1>8, <1>9

(* One level further down, with a prefix in front. *)
LEMMA FrontBehind ==
    ASSUME NEW p \in Path, NEW q \in Path, NEW a \in Name
    PROVE  /\ (p \o q) \o <<a>> = p \o (q \o <<a>>)
           /\ Pages!Front(p \o (q \o <<a>>)) = p \o q
<1>1. PICK u : u = <<a>>
  OBVIOUS
<1>2. u \in Path
  BY <1>1, Tuple1 DEF Path
<1>3. (p \o q) \o u = p \o (q \o u)
  BY <1>2, ConcatAssociative DEF Path
<1>4. p \o q \in Path
  BY Joined
<1>5. Pages!Front((p \o q) \o <<a>>) = p \o q
  BY <1>4, FrontOf
<1>. QED
  BY <1>1, <1>3, <1>5

-----------------------------------------------------------------------------
(* The nodes of a tree: its menus, the directories without one, its texts   *)
(* and its other files.                                                     *)

RepoPath == <<"github", "org", "repo">>
MenuPaths ==
    {<<>>, <<"github">>, <<"github", "org">>, RepoPath, <<"github", "org", "repo", "releases">>,
     <<"ncs">>, <<"ncs", "page">>, <<"files">>, <<"files", "repositories">>,
     <<"files", "downloads">>}
ListPaths == {<<"files", "artifacts">>, <<"files", "artifacts", "win">>}
TextPaths ==
    {<<"github", "org", "repo", "readme.txt">>,
     <<"github", "org", "repo", "releases", "v1.txt">>,
     <<"ncs", "index.txt">>, <<"ncs", "page", "index.txt">>, <<"about.txt">>}
HolePaths == {<<"caps.txt">>, <<"robots.txt">>}
SearchPaths == {<<"search.idx">>, <<"search.cgi">>}
ArtifactPath == <<"files", "artifacts", "win", "tool">>

DirPath(p) == p \in Path /\ \A i \in 1..Len(p) : p[i] \in TreeNames
LeafPath(p) ==
    /\ p \in Path /\ p # <<>>
    /\ \A i \in 1..Len(p) : i < Len(p) => p[i] \in TreeNames
    /\ p[Len(p)] \in LeafNames

LEMMA SomeNames == TreeNames \subseteq Name /\ LeafNames \subseteq Name
                   /\ "dl" \in Name /\ "search" \in Name
BY DEF Name

LEMMA Dir1 ==
    ASSUME NEW a \in TreeNames
    PROVE  DirPath(<<a>>)
<1>1. PICK p : p = <<a>>
  OBVIOUS
<1>2. p \in Path /\ Len(p) = 1 /\ p[1] = a
  BY <1>1, SomeNames, Tuple1 DEF Path
<1>. QED
  BY <1>1, <1>2 DEF DirPath

LEMMA Dir2 ==
    ASSUME NEW a \in TreeNames, NEW b \in TreeNames
    PROVE  DirPath(<<a, b>>)
<1>1. PICK p : p = <<a, b>>
  OBVIOUS
<1>2. p \in Path /\ Len(p) = 2 /\ p[1] = a /\ p[2] = b
  BY <1>1, SomeNames, Tuple2 DEF Path
<1>. QED
  BY <1>1, <1>2 DEF DirPath

LEMMA Dir3 ==
    ASSUME NEW a \in TreeNames, NEW b \in TreeNames, NEW c \in TreeNames
    PROVE  DirPath(<<a, b, c>>)
<1>1. PICK p : p = <<a, b, c>>
  OBVIOUS
<1>2. p \in Path /\ Len(p) = 3 /\ p[1] = a /\ p[2] = b /\ p[3] = c
  BY <1>1, SomeNames, Tuple3 DEF Path
<1>. QED
  BY <1>1, <1>2 DEF DirPath

LEMMA Dir4 ==
    ASSUME NEW a \in TreeNames, NEW b \in TreeNames, NEW c \in TreeNames, NEW d \in TreeNames
    PROVE  DirPath(<<a, b, c, d>>)
<1>1. PICK p : p = <<a, b, c, d>>
  OBVIOUS
<1>2. p \in Path /\ Len(p) = 4 /\ p[1] = a /\ p[2] = b /\ p[3] = c /\ p[4] = d
  BY <1>1, SomeNames, Tuple4 DEF Path
<1>. QED
  BY <1>1, <1>2 DEF DirPath

LEMMA NoName == DirPath(<<>>)
<1>1. <<>> \in Path /\ Len(<<>>) = 0
  BY EmptySeq DEF Path
<1>. QED
  BY <1>1 DEF DirPath

(* A file in a directory. *)
LEMMA LeafIn ==
    ASSUME NEW p, DirPath(p), NEW a \in LeafNames
    PROVE  LeafPath(p \o <<a>>)
<1>1. PICK u, s : u = <<a>> /\ s = p \o u
  OBVIOUS
<1>2. u \in Path /\ Len(u) = 1 /\ u[1] = a /\ p \in Path /\ Len(p) \in Nat
  BY <1>1, SomeNames, Tuple1, PathType DEF Path, DirPath
<1>3. /\ s \in Path /\ Len(s) = Len(p) + 1
      /\ \A i \in 1..Len(p) : s[i] = p[i]
      /\ s[Len(p) + 1] = a
  <2>1. /\ s \in Path /\ Len(s) = Len(p) + Len(u)
        /\ \A i \in 1..Len(p) : s[i] = p[i]
        /\ \A i \in 1..Len(u) : s[Len(p) + i] = u[i]
    BY <1>1, <1>2, Joined
  <2>. QED
    BY <2>1, <1>2
<1>4. s # <<>>
  BY <1>2, <1>3, PathType
<1>5. \A i \in 1..Len(s) : i < Len(s) => s[i] \in TreeNames
  <2>1. \A i \in 1..Len(p) : p[i] \in TreeNames
    BY DEF DirPath
  <2>2. \A i \in 1..Len(s) : i < Len(s) => i \in 1..Len(p)
    BY <1>2, <1>3
  <2>. QED
    BY <2>1, <2>2, <1>3
<1>. QED
  BY <1>1, <1>3, <1>4, <1>5 DEF LeafPath

LEMMA DirsAreDirs == \A p \in MenuPaths \cup ListPaths : DirPath(p)
<1>1. /\ "github" \in TreeNames /\ "org" \in TreeNames /\ "repo" \in TreeNames
      /\ "releases" \in TreeNames /\ "ncs" \in TreeNames /\ "page" \in TreeNames
      /\ "files" \in TreeNames /\ "repositories" \in TreeNames /\ "downloads" \in TreeNames
      /\ "artifacts" \in TreeNames /\ "win" \in TreeNames
  BY DEF TreeNames
<1>2. DirPath(<<>>) /\ DirPath(<<"github">>) /\ DirPath(<<"ncs">>) /\ DirPath(<<"files">>)
  BY <1>1, Dir1, NoName
<1>3. /\ DirPath(<<"github", "org">>) /\ DirPath(<<"ncs", "page">>)
      /\ DirPath(<<"files", "repositories">>) /\ DirPath(<<"files", "downloads">>)
      /\ DirPath(<<"files", "artifacts">>)
  BY <1>1, Dir2
<1>4. DirPath(RepoPath) /\ DirPath(<<"files", "artifacts", "win">>)
  BY <1>1, Dir3 DEF RepoPath
<1>5. DirPath(<<"github", "org", "repo", "releases">>)
  BY <1>1, Dir4
<1>. QED
  BY <1>2, <1>3, <1>4, <1>5, Zenon DEF MenuPaths, ListPaths

(* The paths as ngingest's parts put them together. *)
LEMMA PutTogether ==
    /\ <<"github", "org">> \o <<"repo">> = RepoPath
    /\ RepoPath \o <<"releases">> = <<"github", "org", "repo", "releases">>
    /\ RepoPath \o <<"readme.txt">> = <<"github", "org", "repo", "readme.txt">>
    /\ RepoPath \o <<"releases", "v1.txt">> = <<"github", "org", "repo", "releases", "v1.txt">>
    /\ <<"ncs">> \o <<"index.txt">> = <<"ncs", "index.txt">>
    /\ <<"ncs", "page">> \o <<"index.txt">> = <<"ncs", "page", "index.txt">>
    /\ <<"github", "org", "repo", "releases">> \o <<"v1.txt">>
          = <<"github", "org", "repo", "releases", "v1.txt">>
    /\ <<"files", "artifacts">> \o <<"win">> = <<"files", "artifacts", "win">>
    /\ <<"files", "artifacts", "win">> \o <<"tool">> = ArtifactPath
<1>1. /\ "github" \in Name /\ "org" \in Name /\ "repo" \in Name /\ "releases" \in Name
      /\ "ncs" \in Name /\ "page" \in Name /\ "files" \in Name /\ "artifacts" \in Name
      /\ "win" \in Name /\ "readme.txt" \in Name /\ "v1.txt" \in Name /\ "index.txt" \in Name
      /\ "tool" \in Name
  BY DEF Name, TreeNames, LeafNames
<1>2. <<"github", "org">> \o <<"repo">> = RepoPath
  BY <1>1, Joined21 DEF RepoPath
<1>3. /\ RepoPath \o <<"releases">> = <<"github", "org", "repo", "releases">>
      /\ RepoPath \o <<"readme.txt">> = <<"github", "org", "repo", "readme.txt">>
  BY <1>1, Joined31 DEF RepoPath
<1>4. RepoPath \o <<"releases", "v1.txt">> = <<"github", "org", "repo", "releases", "v1.txt">>
  BY <1>1, Joined32 DEF RepoPath
<1>5. <<"ncs">> \o <<"index.txt">> = <<"ncs", "index.txt">>
  BY <1>1, Joined11
<1>6. /\ <<"ncs", "page">> \o <<"index.txt">> = <<"ncs", "page", "index.txt">>
      /\ <<"files", "artifacts">> \o <<"win">> = <<"files", "artifacts", "win">>
  BY <1>1, Joined21
<1>7. <<"github", "org", "repo", "releases">> \o <<"v1.txt">>
          = <<"github", "org", "repo", "releases", "v1.txt">>
  BY <1>1, Joined41
<1>8. <<"files", "artifacts", "win">> \o <<"tool">> = ArtifactPath
  BY <1>1, Joined31 DEF ArtifactPath
<1>. QED
  BY <1>2, <1>3, <1>4, <1>5, <1>6, <1>7, <1>8

LEMMA LeavesAreLeaves ==
    \A p \in TextPaths \cup HolePaths \cup SearchPaths \cup {ArtifactPath} : LeafPath(p)
<1>1. /\ "readme.txt" \in LeafNames /\ "v1.txt" \in LeafNames /\ "index.txt" \in LeafNames
      /\ "about.txt" \in LeafNames /\ "caps.txt" \in LeafNames /\ "robots.txt" \in LeafNames
      /\ "tool" \in LeafNames /\ "search.cgi" \in LeafNames /\ "search.idx" \in LeafNames
  BY DEF LeafNames
<1>2. ASSUME NEW a \in LeafNames
      PROVE  LeafPath(<<a>>)
  <2>1. LeafPath(<<>> \o <<a>>)
    BY NoName, LeafIn
  <2>2. <<a>> \in Path
    BY SomeNames, Tuple1 DEF Path
  <2>3. <<>> \o <<a>> = <<a>>
    BY <2>2, ConcatEmptySeq DEF Path
  <2>. QED
    BY <2>1, <2>3
<1>3. /\ DirPath(RepoPath) /\ DirPath(<<"github", "org", "repo", "releases">>)
      /\ DirPath(<<"ncs">>) /\ DirPath(<<"ncs", "page">>)
      /\ DirPath(<<"files", "artifacts", "win">>)
  BY DirsAreDirs, Zenon DEF MenuPaths, ListPaths
<1>4. LeafPath(RepoPath \o <<"readme.txt">>)
  BY <1>1, <1>3, LeafIn
<1>5. LeafPath(<<"github", "org", "repo", "releases">> \o <<"v1.txt">>)
  BY <1>1, <1>3, LeafIn
<1>6. LeafPath(<<"ncs">> \o <<"index.txt">>) /\ LeafPath(<<"ncs", "page">> \o <<"index.txt">>)
  BY <1>1, <1>3, LeafIn
<1>7. LeafPath(<<"files", "artifacts", "win">> \o <<"tool">>)
  BY <1>1, <1>3, LeafIn
<1>8. /\ LeafPath(<<"about.txt">>) /\ LeafPath(<<"caps.txt">>) /\ LeafPath(<<"robots.txt">>)
      /\ LeafPath(<<"search.idx">>) /\ LeafPath(<<"search.cgi">>)
  BY <1>1, <1>2
<1>. QED
  BY <1>4, <1>5, <1>6, <1>7, <1>8, PutTogether, Zenon
     DEF TextPaths, HolePaths, SearchPaths

(* The directory that holds a node. *)
LEMMA Holds ==
    ASSUME NEW q \in MenuPaths \cup ListPaths \cup TextPaths \cup HolePaths \cup {ArtifactPath},
           q # <<>>
    PROVE  \E d, a : /\ d \in MenuPaths \/ (q \in ListPaths \cup {ArtifactPath} /\ d \in ListPaths)
                     /\ a \in Name /\ q = d \o <<a>>
<1>1. TreeNames \subseteq Name /\ LeafNames \subseteq Name
  BY SomeNames
<1>2. \A a \in Name : <<>> \o <<a>> = <<a>>
  <2>1. \A a \in Name : <<a>> \in Path
    BY Tuple1 DEF Path
  <2>. QED
    BY <2>1, ConcatEmptySeq DEF Path
<1>3. \A a \in Name : \A b \in Name : <<a>> \o <<b>> = <<a, b>>
  BY Joined11
<1>4. CASE q \in {<<"github">>, <<"ncs">>, <<"files">>, <<"about.txt">>, <<"caps.txt">>, <<"robots.txt">>}
  <2>1. PICK a \in {"github", "ncs", "files", "about.txt", "caps.txt", "robots.txt"} : q = <<a>>
    BY <1>4
  <2>2. a \in Name /\ q = <<>> \o <<a>>
    BY <1>1, <1>2, <2>1 DEF TreeNames, LeafNames
  <2>3. <<>> \in MenuPaths
    BY DEF MenuPaths
  <2>. QED
    BY <2>2, <2>3
<1>5. CASE q = <<"github", "org">>
  <2>1. q = <<"github">> \o <<"org">> /\ "org" \in Name /\ <<"github">> \in MenuPaths
    BY <1>1, <1>3, <1>5 DEF TreeNames, MenuPaths
  <2>. QED
    BY <2>1
<1>6. CASE q \in {<<"ncs", "page">>, <<"ncs", "index.txt">>}
  <2>1. PICK b \in {"page", "index.txt"} : q = <<"ncs", b>>
    BY <1>6
  <2>2. b \in Name /\ "ncs" \in Name
    BY <1>1, <2>1 DEF TreeNames, LeafNames
  <2>3. q = <<"ncs">> \o <<b>> /\ <<"ncs">> \in MenuPaths
    BY <1>3, <2>1, <2>2 DEF MenuPaths
  <2>. QED
    BY <2>2, <2>3
<1>7. CASE q \in {<<"files", "repositories">>, <<"files", "downloads">>, <<"files", "artifacts">>}
  <2>1. PICK b \in {"repositories", "downloads", "artifacts"} : q = <<"files", b>>
    BY <1>7
  <2>2. b \in Name /\ "files" \in Name
    BY <1>1, <2>1 DEF TreeNames
  <2>3. q = <<"files">> \o <<b>> /\ <<"files">> \in MenuPaths
    BY <1>3, <2>1, <2>2 DEF MenuPaths
  <2>. QED
    BY <2>2, <2>3
<1>8. CASE q = RepoPath
  <2>1. q = <<"github", "org">> \o <<"repo">> /\ "repo" \in Name /\ <<"github", "org">> \in MenuPaths
    BY <1>1, <1>8, PutTogether DEF TreeNames, MenuPaths
  <2>. QED
    BY <2>1
<1>9. CASE q \in {<<"github", "org", "repo", "releases">>, <<"github", "org", "repo", "readme.txt">>}
  <2>1. PICK b \in {"releases", "readme.txt"} : q = RepoPath \o <<b>>
    BY <1>9, PutTogether
  <2>2. b \in Name /\ RepoPath \in MenuPaths
    BY <1>1, <2>1 DEF TreeNames, LeafNames, MenuPaths
  <2>. QED
    BY <2>1, <2>2
<1>10. CASE q = <<"github", "org", "repo", "releases", "v1.txt">>
  <2>1. /\ q = <<"github", "org", "repo", "releases">> \o <<"v1.txt">> /\ "v1.txt" \in Name
        /\ <<"github", "org", "repo", "releases">> \in MenuPaths
    BY <1>1, <1>10, PutTogether DEF LeafNames, MenuPaths
  <2>. QED
    BY <2>1
<1>11. CASE q = <<"ncs", "page", "index.txt">>
  <2>1. /\ q = <<"ncs", "page">> \o <<"index.txt">> /\ "index.txt" \in Name
        /\ <<"ncs", "page">> \in MenuPaths
    BY <1>1, <1>11, PutTogether DEF LeafNames, MenuPaths
  <2>. QED
    BY <2>1
<1>12. CASE q = <<"files", "artifacts", "win">>
  <2>1. /\ q = <<"files", "artifacts">> \o <<"win">> /\ "win" \in Name
        /\ <<"files", "artifacts">> \in ListPaths /\ q \in ListPaths
    BY <1>1, <1>12, PutTogether DEF TreeNames, ListPaths
  <2>. QED
    BY <2>1
<1>13. CASE q = ArtifactPath
  <2>1. /\ q = <<"files", "artifacts", "win">> \o <<"tool">> /\ "tool" \in Name
        /\ <<"files", "artifacts", "win">> \in ListPaths
    BY <1>1, <1>13, PutTogether DEF LeafNames, ListPaths
  <2>. QED
    BY <1>13, <2>1
<1>. QED
  BY <1>4, <1>5, <1>6, <1>7, <1>8, <1>9, <1>10, <1>11, <1>12, <1>13, Zenon
     DEF MenuPaths, ListPaths, TextPaths, HolePaths

(* First names. *)
LEMMA Tops ==
    /\ \A q \in MenuPaths \cup ListPaths \cup TextPaths \cup {ArtifactPath} :
          q = <<>> \/ q[1] \in {"github", "ncs", "files", "about.txt"}
    /\ \A q \in HolePaths : q[1] \in {"caps.txt", "robots.txt"}
    /\ \A q \in SearchPaths : q[1] \in {"search.idx", "search.cgi"}
<1>1. \A q \in MenuPaths : q = <<>> \/ q[1] \in {"github", "ncs", "files", "about.txt"}
  BY DEF MenuPaths, RepoPath
<1>2. \A q \in ListPaths : q = <<>> \/ q[1] \in {"github", "ncs", "files", "about.txt"}
  BY DEF ListPaths
<1>3. \A q \in TextPaths \cup {ArtifactPath} :
         q = <<>> \/ q[1] \in {"github", "ncs", "files", "about.txt"}
  BY DEF TextPaths, ArtifactPath
<1>4. \A q \in HolePaths : q[1] \in {"caps.txt", "robots.txt"}
  BY DEF HolePaths
<1>5. \A q \in SearchPaths : q[1] \in {"search.idx", "search.cgi"}
  BY DEF SearchPaths
<1>. QED
  BY <1>1, <1>2, <1>3, <1>4, <1>5

(* No path goes on behind a file, and only the artifact's behind the
   directories that have no menu. *)
LEMMA NothingBehind ==
    ASSUME NEW q, LeafPath(q), NEW p, DirPath(p) \/ LeafPath(p)
    PROVE  ~Pages!IsStrictPrefix(q, p)
<1>1. q \in Path /\ p \in Path /\ Len(q) \in Nat /\ Len(p) \in Nat /\ Len(q) # 0
  BY PathType DEF LeafPath, DirPath
<1>2. SUFFICES ASSUME Pages!IsPrefix(q, p)
               PROVE  q = p
  BY DEF Pages!IsStrictPrefix
<1>3. Len(q) <= Len(p) /\ \A i \in 1..Len(q) : q[i] = p[i]
  BY <1>1, <1>2, Begun
<1>4. q[Len(q)] = p[Len(q)] /\ Len(q) \in 1..Len(p)
  BY <1>1, <1>3
<1>5. TreeNames \cap LeafNames = {}
  BY DEF TreeNames, LeafNames
<1>6. p[Len(q)] \notin TreeNames
  BY <1>4, <1>5 DEF LeafPath
<1>7. Len(q) = Len(p)
  BY <1>1, <1>4, <1>6 DEF LeafPath, DirPath
<1>. QED
  BY <1>1, <1>3, <1>7, SamePath

LEMMA BehindLists ==
    ASSUME NEW q \in ListPaths,
           NEW p \in MenuPaths \cup TextPaths \cup HolePaths \cup SearchPaths \cup {ArtifactPath}
    PROVE  Pages!IsStrictPrefix(q, p) <=> p = ArtifactPath
<1>1. q \in Path /\ p \in Path
  BY DirsAreDirs, LeavesAreLeaves DEF DirPath, LeafPath
<1>2. Len(q) >= 2 /\ q[1] = "files" /\ q[2] = "artifacts" /\ Len(q) \in {2, 3}
  BY DEF ListPaths
<1>3. ASSUME Pages!IsPrefix(q, p)
      PROVE  p = ArtifactPath
  <2>1. Len(q) <= Len(p) /\ \A i \in 1..Len(q) : q[i] = p[i]
    BY <1>1, <1>3, Begun
  <2>2. Len(p) \in Nat
    BY <1>1, PathType
  <2>3. Len(p) >= 2 /\ p[1] = "files" /\ p[2] = "artifacts"
    BY <1>2, <2>1, <2>2
  <2>4. p \notin MenuPaths
    BY <2>3 DEF MenuPaths, RepoPath
  <2>5. p \notin TextPaths
    BY <2>3 DEF TextPaths
  <2>6. p \notin HolePaths \cup SearchPaths
    BY <2>3 DEF HolePaths, SearchPaths
  <2>. QED
    BY <2>4, <2>5, <2>6
<1>4. Pages!IsPrefix(q, ArtifactPath) /\ q # ArtifactPath
  <2>1. PICK r : r = ArtifactPath
    OBVIOUS
  <2>2. /\ r \in Path /\ Len(r) = 4 /\ r[1] = "files" /\ r[2] = "artifacts" /\ r[3] = "win"
    BY <2>1, LeavesAreLeaves DEF ArtifactPath, LeafPath
  <2>3. Len(q) = 3 => q[3] = "win"
    BY DEF ListPaths
  <2>4. Len(q) <= Len(r) /\ \A i \in 1..Len(q) : q[i] = r[i]
    <3>1. CASE Len(q) = 2
      BY <3>1, <1>2, <2>2
    <3>2. CASE Len(q) = 3
      BY <3>2, <1>2, <2>2, <2>3
    <3>. QED
      BY <3>1, <3>2, <1>2
  <2>5. Pages!IsPrefix(q, r)
    BY <1>1, <2>2, <2>4, Begun
  <2>. QED
    BY <2>1, <2>2, <2>5, <1>2
<1>. QED
  BY <1>3, <1>4 DEF Pages!IsStrictPrefix

-----------------------------------------------------------------------------
(* What a selector is resolved to.                                          *)

Config ==
    /\ prefix \in SelectorPrefixes
    /\ cgi \in BOOLEAN /\ copied \in BOOLEAN /\ proxyOn \in BOOLEAN

Selector == [path : Path, slash : BOOLEAN]

(* A selector of q carries the prefix or does not. *)
Named(s, q) == s \in Selector /\ (s.path = prefix \o q \/ s.path = q)

(* The path is not taken for one that begins with the prefix. *)
Own(q) == q \in Path /\ (q = <<>> \/ q[1] \in TopNames \/ prefix = <<>>)

LEMMA PrefixFacts ==
    ASSUME Config
    PROVE  /\ prefix \in Path /\ Len(prefix) \in Nat
           /\ prefix # <<>> => Len(prefix) >= 1 /\ prefix[1] \notin TopNames
<1>1. prefix \in Seq(STRING) /\ (prefix # <<>> => prefix[1] \notin TopNames)
  BY PrefixesAssumption DEF Config
<1>2. prefix \in Path
  <2>1. STRING \subseteq Name
    BY DEF Name
  <2>. QED
    BY <1>1, <2>1, SeqMonotonic DEF Path
<1>3. Len(prefix) \in Nat /\ (prefix # <<>> => Len(prefix) # 0)
  BY <1>2, PathType
<1>. QED
  BY <1>1, <1>2, <1>3

LEMMA NotBegun ==
    ASSUME Config, prefix # <<>>, NEW q, Own(q)
    PROVE  ~Pages!IsPrefix(prefix, q)
<1>1. /\ prefix \in Path /\ Len(prefix) \in Nat /\ Len(prefix) >= 1
      /\ prefix[1] \notin TopNames
  BY PrefixFacts
<1>2. q \in Path /\ Len(q) \in Nat /\ (q = <<>> \/ q[1] \in TopNames)
  BY PathType DEF Own
<1>3. SUFFICES ASSUME Pages!IsPrefix(prefix, q)
               PROVE  FALSE
  OBVIOUS
<1>4. Len(prefix) <= Len(q) /\ \A i \in 1..Len(prefix) : prefix[i] = q[i]
  BY <1>1, <1>2, <1>3, Begun
<1>5. Len(q) # 0 /\ prefix[1] = q[1]
  BY <1>1, <1>2, <1>4
<1>6. q # <<>>
  BY <1>2, <1>5, PathType
<1>. QED
  BY <1>1, <1>2, <1>5, <1>6

LEMMA Resolves ==
    ASSUME Config, NEW q, Own(q), NEW s, Named(s, q)
    PROVE  Pages!Resolve(s) = q /\ Pages!PathOf(s) = q
<1>1. prefix \in Path /\ Len(prefix) \in Nat /\ q \in Path /\ Len(q) \in Nat
  BY PrefixFacts, PathType DEF Own
<1>2. s.path \in Path /\ s.slash \in BOOLEAN /\ s = [path |-> s.path, slash |-> s.slash]
  BY DEF Named, Selector
<1>3. Pages!PathOf(s) = Pages!Resolve(s)
  BY DEF Pages!PathOf, Pages!Resolve
<1>4. CASE prefix = <<>>
  <2>1. prefix \o q = q
    BY <1>1, <1>4, ConcatEmptySeq DEF Path
  <2>2. s.path = q
    BY <2>1 DEF Named
  <2>3. Pages!Resolve(s) = s.path
    BY <1>4 DEF Pages!Resolve, Pages!StripsFrom
  <2>. QED
    BY <1>3, <2>2, <2>3
<1>5. CASE prefix # <<>> /\ s.path = prefix \o q /\ q = <<>>
  <2>1. prefix \o q = prefix
    BY <1>1, <1>5, ConcatEmptySeq DEF Path
  <2>2. s.path = prefix
    BY <1>5, <2>1
  <2>3. CASE s.slash = FALSE
    <3>1. s = Pages!Sel(prefix, FALSE)
      BY <1>2, <2>2, <2>3 DEF Pages!Sel
    <3>2. Pages!Resolve(s) = <<>>
      BY <1>5, <3>1 DEF Pages!Resolve
    <3>. QED
      BY <1>3, <1>5, <3>2
  <2>4. CASE s.slash = TRUE
    <3>1. Pages!IsPrefix(prefix, s.path) /\ SubSeq(s.path, Len(prefix) + 1, Len(s.path)) = q
      BY <1>1, <1>5, Behind
    <3>2. s # Pages!Sel(prefix, FALSE)
      BY <2>4 DEF Pages!Sel
    <3>3. Pages!StripsFrom(s)
      BY <1>5, <2>4, <3>1 DEF Pages!StripsFrom
    <3>4. Pages!Resolve(s) = q
      BY <3>1, <3>2, <3>3 DEF Pages!Resolve, Pages!Below
    <3>. QED
      BY <1>3, <3>4
  <2>. QED
    BY <1>2, <2>3, <2>4
<1>6. CASE prefix # <<>> /\ s.path = prefix \o q /\ q # <<>>
  <2>1. Pages!IsPrefix(prefix, s.path) /\ SubSeq(s.path, Len(prefix) + 1, Len(s.path)) = q
    BY <1>1, <1>6, Behind
  <2>2. Len(s.path) = Len(prefix) + Len(q) /\ Len(q) # 0
    BY <1>1, <1>6, Joined, PathType
  <2>3. s # Pages!Sel(prefix, FALSE)
    <3>1. Len(s.path) # Len(prefix)
      BY <1>1, <2>2
    <3>. QED
      BY <3>1 DEF Pages!Sel
  <2>4. Pages!StripsFrom(s)
    <3>1. Len(s.path) > Len(prefix)
      BY <1>1, <2>2
    <3>. QED
      BY <1>6, <2>1, <3>1 DEF Pages!StripsFrom
  <2>5. Pages!Resolve(s) = q
    BY <2>1, <2>3, <2>4 DEF Pages!Resolve, Pages!Below
  <2>. QED
    BY <1>3, <2>5
<1>7. CASE prefix # <<>> /\ s.path = q
  <2>1. ~Pages!IsPrefix(prefix, q)
    BY <1>7, NotBegun
  <2>2. ~Pages!StripsFrom(s)
    BY <1>7, <2>1 DEF Pages!StripsFrom
  <2>3. Pages!IsPrefix(prefix, prefix)
    BY <1>1, Begun
  <2>4. s # Pages!Sel(prefix, FALSE)
    BY <1>7, <2>1, <2>3 DEF Pages!Sel
  <2>5. Pages!Resolve(s) = s.path
    BY <2>2, <2>4 DEF Pages!Resolve
  <2>. QED
    BY <1>3, <1>7, <2>5
<1>. QED
  BY <1>4, <1>5, <1>6, <1>7 DEF Named

(* A selector of a page is neither the proxy's nor the search's. *)
LEMMA NotMounted ==
    ASSUME Config, NEW q, Own(q),
           q = <<>> \/ q[1] \notin {"dl", "search", "search.cgi", "search.idx"},
           NEW s, Named(s, q)
    PROVE  ~Pages!Downloads(s) /\ ~Pages!Searches(s)
<1>1. /\ prefix \in Path /\ Len(prefix) \in Nat /\ q \in Path /\ Len(q) \in Nat
      /\ s.path \in Path /\ Len(s.path) \in Nat
  BY PrefixFacts, PathType DEF Own, Named, Selector
<1>2. ~(Pages!IsPrefix(prefix, s.path) /\ Len(s.path) >= Len(prefix) + 1
           /\ s.path[Len(prefix) + 1] \in {"dl", "search", "search.cgi", "search.idx"})
  <2>1. CASE s.path = prefix \o q
    <3>1. Len(s.path) = Len(prefix) + Len(q) /\ \A i \in 1..Len(q) : s.path[Len(prefix) + i] = q[i]
      BY <1>1, <2>1, Joined
    <3>2. Len(q) >= 1 => s.path[Len(prefix) + 1] = q[1] /\ q # <<>>
      BY <1>1, <3>1, PathType
    <3>. QED
      BY <1>1, <3>1, <3>2
  <2>2. CASE s.path = q /\ prefix # <<>>
    BY <2>2, NotBegun
  <2>3. CASE s.path = q /\ prefix = <<>>
    <3>1. prefix \o q = q
      BY <1>1, <2>3, ConcatEmptySeq DEF Path
    <3>. QED
      BY <2>1, <2>3, <3>1
  <2>. QED
    BY <2>1, <2>2, <2>3 DEF Named
<1>3. ~Pages!Searches(s)
  BY <1>2 DEF Pages!Searches, Pages!SearchName
<1>4. ~Pages!Downloads(s)
  <2>1. PICK u, d : u = <<"dl">> /\ d = prefix \o u
    OBVIOUS
  <2>2. u \in Path /\ Len(u) = 1 /\ u[1] = "dl"
    BY <2>1, SomeNames, Tuple1 DEF Path
  <2>3. /\ d \in Path /\ Len(d) = Len(prefix) + 1
        /\ \A i \in 1..Len(prefix) : d[i] = prefix[i]
        /\ d[Len(prefix) + 1] = "dl"
    <3>1. /\ d \in Path /\ Len(d) = Len(prefix) + Len(u)
          /\ \A i \in 1..Len(prefix) : d[i] = prefix[i]
          /\ \A i \in 1..Len(u) : d[Len(prefix) + i] = u[i]
      BY <1>1, <2>1, <2>2, Joined
    <3>. QED
      BY <2>2, <3>1
  <2>4. ASSUME Pages!IsPrefix(d, s.path)
        PROVE  FALSE
    <3>1. Len(d) <= Len(s.path) /\ \A i \in 1..Len(d) : d[i] = s.path[i]
      BY <1>1, <2>3, <2>4, Begun
    <3>2. /\ Len(prefix) <= Len(s.path) /\ \A i \in 1..Len(prefix) : prefix[i] = s.path[i]
          /\ Len(s.path) >= Len(prefix) + 1 /\ s.path[Len(prefix) + 1] = "dl"
      BY <1>1, <2>3, <3>1
    <3>3. Pages!IsPrefix(prefix, s.path)
      BY <1>1, <3>2, Begun
    <3>. QED
      BY <1>2, <3>2, <3>3
  <2>. QED
    BY <2>1, <2>4 DEF Pages!Downloads
<1>. QED
  BY <1>3, <1>4

-----------------------------------------------------------------------------
(* The selectors of the two mounts.                                         *)

LEMMA DownloadsMean ==
    ASSUME Config, NEW s \in Selector, Pages!Downloads(s)
    PROVE  /\ Pages!IsPrefix(prefix, s.path) /\ Len(s.path) >= Len(prefix) + 1
           /\ s.path[Len(prefix) + 1] = "dl"
<1>1. prefix \in Path /\ Len(prefix) \in Nat /\ s.path \in Path /\ Len(s.path) \in Nat
  BY PrefixFacts, PathType DEF Selector
<1>2. PICK u, d : u = <<"dl">> /\ d = prefix \o u
  OBVIOUS
<1>3. u \in Path /\ Len(u) = 1 /\ u[1] = "dl"
  BY <1>2, SomeNames, Tuple1 DEF Path
<1>4. /\ d \in Path /\ Len(d) = Len(prefix) + 1
      /\ \A i \in 1..Len(prefix) : d[i] = prefix[i]
      /\ d[Len(prefix) + 1] = "dl"
  <2>1. /\ d \in Path /\ Len(d) = Len(prefix) + Len(u)
        /\ \A i \in 1..Len(prefix) : d[i] = prefix[i]
        /\ \A i \in 1..Len(u) : d[Len(prefix) + i] = u[i]
    BY <1>1, <1>2, <1>3, Joined
  <2>. QED
    BY <1>3, <2>1
<1>5. Pages!IsPrefix(d, s.path)
  BY <1>2 DEF Pages!Downloads
<1>6. Len(d) <= Len(s.path) /\ \A i \in 1..Len(d) : d[i] = s.path[i]
  BY <1>1, <1>4, <1>5, Begun
<1>7. /\ Len(prefix) <= Len(s.path) /\ \A i \in 1..Len(prefix) : prefix[i] = s.path[i]
      /\ Len(s.path) >= Len(prefix) + 1 /\ s.path[Len(prefix) + 1] = "dl"
  BY <1>1, <1>4, <1>6
<1>8. Pages!IsPrefix(prefix, s.path)
  BY <1>1, <1>7, Begun
<1>. QED
  BY <1>7, <1>8

SearchSel == Pages!At(<<Pages!SearchName>>)

LEMMA SearchIsMounted ==
    ASSUME Config
    PROVE  /\ SearchSel \in Selector /\ SearchSel.path = prefix \o <<Pages!SearchName>>
           /\ ~Pages!Downloads(SearchSel) /\ Pages!Searches(SearchSel)
<1>1. prefix \in Path /\ Len(prefix) \in Nat
  BY PrefixFacts
<1>2. Pages!SearchName \in Name /\ Pages!SearchName \in {"search", "search.cgi"}
  BY SomeNames DEF Pages!SearchName, LeafNames
<1>3. PICK n, u, p : n = Pages!SearchName /\ u = <<n>> /\ p = prefix \o u
  OBVIOUS
<1>4. u \in Path /\ Len(u) = 1 /\ u[1] = n
  BY <1>2, <1>3, Tuple1 DEF Path
<1>5. /\ p \in Path /\ Len(p) = Len(prefix) + 1 /\ p[Len(prefix) + 1] = n
      /\ \A i \in 1..Len(prefix) : p[i] = prefix[i]
  <2>1. p = prefix \o u /\ u \in Path /\ prefix \in Path
    BY <1>1, <1>3, <1>4
  <2>2. /\ p \in Path /\ Len(p) = Len(prefix) + Len(u)
        /\ \A i \in 1..Len(prefix) : p[i] = prefix[i]
        /\ \A i \in 1..Len(u) : p[Len(prefix) + i] = u[i]
    BY <2>1, Joined
  <2>. QED
    BY <1>4, <2>2
<1>6. SearchSel = [path |-> p, slash |-> FALSE]
  BY <1>3 DEF SearchSel, Pages!At, Pages!Sel
<1>7. SearchSel \in Selector /\ SearchSel.path = p
  BY <1>5, <1>6 DEF Selector
<1>8. ~Pages!Downloads(SearchSel)
  <2>1. p[Len(prefix) + 1] # "dl"
    BY <1>2, <1>3, <1>5
  <2>. QED
    BY <1>7, <2>1, DownloadsMean
<1>9. Pages!Searches(SearchSel)
  <2>1. Len(prefix) <= Len(p) /\ \A i \in 1..Len(prefix) : prefix[i] = p[i]
    BY <1>1, <1>5
  <2>2. Pages!IsPrefix(prefix, p)
    BY <1>1, <1>5, <2>1, Begun
  <2>3. Len(p) >= Len(prefix) + 1
    BY <1>1, <1>5
  <2>4. p[Len(prefix) + 1] = Pages!SearchName
    BY <1>3, <1>5
  <2>. QED
    BY <1>7, <2>2, <2>3, <2>4 DEF Pages!Searches
<1>. QED
  BY <1>3, <1>7, <1>8, <1>9

ProxiedPath == <<"dl", "win", "tool">>

LEMMA ProxiedType ==
    /\ Pages!Proxied \in Selector
    /\ Pages!Proxied.path = ProxiedPath /\ ~Pages!Proxied.slash
    /\ ProxiedPath \in Path /\ Len(ProxiedPath) = 3 /\ ProxiedPath[1] = "dl"
<1>1. "dl" \in Name /\ "win" \in Name /\ "tool" \in Name
  BY SomeNames DEF TreeNames, LeafNames
<1>2. ProxiedPath \in Path /\ Len(ProxiedPath) = 3 /\ ProxiedPath[1] = "dl"
  BY <1>1, Tuple3 DEF Path, ProxiedPath
<1>3. Pages!Proxied = [path |-> ProxiedPath, slash |-> FALSE]
  BY DEF Pages!Proxied, Pages!Sel, ProxiedPath
<1>. QED
  BY <1>2, <1>3 DEF Selector

LEMMA ProxiedIsMounted ==
    ASSUME Config, prefix = <<>>
    PROVE  Pages!Downloads(Pages!Proxied)
<1>1. PICK u, p : u = <<"dl">> /\ p = ProxiedPath
  OBVIOUS
<1>2. u \in Path /\ Len(u) = 1 /\ u[1] = "dl"
  BY <1>1, SomeNames, Tuple1 DEF Path
<1>3. p \in Path /\ Len(p) = 3 /\ p[1] = "dl" /\ Pages!Proxied.path = p
  BY <1>1, ProxiedType
<1>4. prefix \o u = u
  BY <1>2, ConcatEmptySeq DEF Path
<1>5. Len(u) <= Len(p) /\ \A i \in 1..Len(u) : u[i] = p[i]
  BY <1>2, <1>3
<1>6. Pages!IsPrefix(u, p) /\ Len(p) > Len(u)
  BY <1>2, <1>3, <1>5, Begun
<1>. QED
  BY <1>1, <1>3, <1>4, <1>6 DEF Pages!Downloads

LEMMA ProxiedIsNotMounted ==
    ASSUME Config, prefix # <<>>
    PROVE  /\ ~Pages!Downloads(Pages!Proxied) /\ ~Pages!Searches(Pages!Proxied)
           /\ Pages!Resolve(Pages!Proxied) = ProxiedPath
<1>1. ProxiedPath \in Path /\ ProxiedPath[1] \in TopNames
  BY ProxiedType DEF TopNames
<1>2. Own(ProxiedPath) /\ Named(Pages!Proxied, ProxiedPath)
  BY <1>1, ProxiedType DEF Own, Named
<1>3. ~Pages!IsPrefix(prefix, Pages!Proxied.path)
  BY <1>2, NotBegun, ProxiedType
<1>4. ~Pages!Downloads(Pages!Proxied)
  BY <1>3, DownloadsMean, ProxiedType
<1>5. ~Pages!Searches(Pages!Proxied)
  BY <1>3 DEF Pages!Searches
<1>. QED
  BY <1>2, <1>4, <1>5, Resolves

-----------------------------------------------------------------------------
(* Items, from the menu they are written into to the screen.                *)

Lists == IF copied THEN ListPaths ELSE {}
Copies == IF copied THEN {ArtifactPath} ELSE {}
Holes == IF prefix = <<>> THEN HolePaths ELSE {}

(* A link of the type leads to what it promises, or is the proxy's. *)
Leads(t, s) ==
    \/ \E q \in MenuPaths \cup Lists : Named(s, q) /\ t = "1"
    \/ \E q \in TextPaths \cup Holes : Named(s, q) /\ t = "0"
    \/ \E q \in Copies : Named(s, q) /\ t = "9"
    \/ t = "7" /\ s = SearchSel
    \/ t = "9" /\ s = Pages!Proxied

Written == Pages!Displays \cup {"two tabbed words"}

RightItem(it) ==
    \/ \E t, d, s : it = Pages!Link(t, d, s) /\ t # "i" /\ d \in Written /\ Leads(t, s)
    \/ \E d : it = Pages!Info(d) /\ d \in Written
    \/ \E d, u : it = Pages!URL(d, u) /\ d \in Written

Shown(it) == it.display \in Pages!Displays /\ (it.host = Pages!Here => Leads(it.type, it.sel))

LEMMA Cleaned ==
    ASSUME NEW d \in Written
    PROVE  Pages!Clean(d) \in Pages!Displays
BY DEF Written, Pages!Clean, Pages!Displays

(* Records that differ in some fields. *)
LEMMA WithDisplay ==
    ASSUME NEW t, NEW d, NEW s, NEW h, NEW p
    PROVE  [Pages!Item(t, d, s, h, p) EXCEPT !.display = Pages!Clean(@)]
              = Pages!Item(t, Pages!Clean(d), s, h, p)
BY DEF Pages!Item

LEMMA WithSel ==
    ASSUME NEW t, NEW d, NEW s, NEW h, NEW p, NEW e
    PROVE  [Pages!Item(t, d, s, h, p) EXCEPT !.sel = e] = Pages!Item(t, d, e, h, p)
BY DEF Pages!Item

Placed(it, host, port) == [it EXCEPT !.host = host, !.port = port]

LEMMA WithHost ==
    ASSUME NEW t, NEW d, NEW s, NEW h, NEW p, NEW host, NEW port
    PROVE  Placed(Pages!Item(t, d, s, h, p), host, port) = Pages!Item(t, d, s, host, port)
<1>1. PICK it : it = [type |-> t, display |-> d, sel |-> s, host |-> h, port |-> p]
  OBVIOUS
<1>2. PICK r : r = [it EXCEPT !.host = host]
  OBVIOUS
<1>3. r = [type |-> t, display |-> d, sel |-> s, host |-> host, port |-> p]
  BY <1>1, <1>2
<1>4. [r EXCEPT !.port = port] = [type |-> t, display |-> d, sel |-> s, host |-> host, port |-> port]
  BY <1>3
<1>5. [it EXCEPT !.host = host, !.port = port] = [r EXCEPT !.port = port]
  BY <1>2
<1>. QED
  BY <1>1, <1>4, <1>5 DEF Pages!Item, Placed

LEMMA FieldsOf ==
    ASSUME NEW t, NEW d, NEW s, NEW h, NEW p
    PROVE  /\ Pages!Item(t, d, s, h, p).type = t /\ Pages!Item(t, d, s, h, p).display = d
           /\ Pages!Item(t, d, s, h, p).sel = s /\ Pages!Item(t, d, s, h, p).host = h
           /\ Pages!Item(t, d, s, h, p).port = p
BY DEF Pages!Item

LEMMA WireOf ==
    ASSUME NEW t, NEW d, NEW s, NEW h, NEW p
    PROVE  Pages!Wire(Pages!Item(t, d, s, h, p)) =
              Pages!Item(t, Pages!Clean(d), s, IF h = "none" THEN Pages!Here ELSE h,
                         IF p = 0 THEN 70 ELSE p)
<1>1. PICK it : it = Pages!Item(t, d, s, h, p)
  OBVIOUS
<1>2. it.host = h /\ it.port = p
  BY <1>1, FieldsOf
<1>3. PICK hh, pp : hh = (IF h = "none" THEN Pages!Here ELSE h) /\ pp = IF p = 0 THEN 70 ELSE p
  OBVIOUS
<1>4. PICK r : r = [it EXCEPT !.display = Pages!Clean(@)]
  OBVIOUS
<1>5. r = Pages!Item(t, Pages!Clean(d), s, h, p)
  BY <1>1, <1>4, WithDisplay
<1>6. Pages!Wire(it) = Placed(r, hh, pp)
  BY <1>2, <1>3, <1>4 DEF Pages!Wire, Placed
<1>. QED
  BY <1>1, <1>3, <1>5, <1>6, WithHost

LEMMA FormatOf ==
    ASSUME NEW t, NEW d, NEW s, NEW h, NEW p
    PROVE  Pages!Format(Pages!Item(t, d, s, h, p)) =
              Pages!Line(TRUE, IF t = "i" /\ h = "error.host"
                               THEN Pages!Item(t, Pages!Clean(d), Pages!Empty, "none", 0)
                               ELSE IF h = "none" THEN Pages!Item(t, Pages!Clean(d), s, "none", 0)
                               ELSE Pages!Item(t, Pages!Clean(d), s, h, p))
<1>1. PICK it : it = Pages!Item(t, d, s, h, p)
  OBVIOUS
<1>2. it.type = t /\ it.host = h
  BY <1>1, FieldsOf
<1>3. PICK r : r = [it EXCEPT !.display = Pages!Clean(@)]
  OBVIOUS
<1>4. r = Pages!Item(t, Pages!Clean(d), s, h, p)
  BY <1>1, <1>3, WithDisplay
<1>5. PICK e : e = [r EXCEPT !.sel = Pages!Empty]
  OBVIOUS
<1>6. e = Pages!Item(t, Pages!Clean(d), Pages!Empty, h, p)
  BY <1>4, <1>5, WithSel
<1>7. /\ Pages!NoHost(e) = Pages!Item(t, Pages!Clean(d), Pages!Empty, "none", 0)
      /\ Pages!NoHost(r) = Pages!Item(t, Pages!Clean(d), s, "none", 0)
  <2>1. /\ Pages!NoHost(e) = Placed(e, "none", 0)
        /\ Pages!NoHost(r) = Placed(r, "none", 0)
    BY DEF Pages!NoHost, Placed
  <2>. QED
    BY <1>4, <1>6, <2>1, WithHost
<1>8. Pages!Format(it) =
         IF it.type = "i" /\ it.host = "error.host" THEN Pages!Line(TRUE, Pages!NoHost(e))
         ELSE Pages!Line(TRUE, IF it.host = "none" THEN Pages!NoHost(r) ELSE r)
  BY <1>3, <1>5 DEF Pages!Format
<1>. QED
  BY <1>1, <1>2, <1>4, <1>7, <1>8

LEMMA ParseOf ==
    ASSUME NEW t, NEW d, NEW s, NEW h, NEW p
    PROVE  Pages!ParseLine(Pages!Line(TRUE, Pages!Item(t, d, s, h, p))) =
              IF t = "i" /\ h = "none" THEN Pages!Item(t, d, s, "error.host", 1)
              ELSE Pages!Item(t, d, s, h, p)
<1>1. PICK it, line : it = Pages!Item(t, d, s, h, p) /\ line = Pages!Line(TRUE, it)
  OBVIOUS
<1>2. it.type = t /\ it.host = h /\ line.tab = TRUE /\ line.item = it
  BY <1>1, FieldsOf DEF Pages!Line
<1>3. Pages!ParseLine(line) =
         IF it.type = "i" /\ it.host = "none"
         THEN Placed(it, "error.host", 1) ELSE it
  BY <1>2 DEF Pages!ParseLine, Placed
<1>4. Placed(it, "error.host", 1) = Pages!Item(t, d, s, "error.host", 1)
  BY <1>1, WithHost
<1>. QED
  BY <1>1, <1>2, <1>3, <1>4

LEMMA HostsDiffer == "error.host" # "none" /\ "error.host" # Pages!Here /\ "none" # Pages!Here
BY DEF Pages!Here

(* The host of a line that cannot be followed stays. *)
LEMMA ElsewhereOf ==
    ASSUME NEW t, NEW d, NEW s, NEW p \in Nat \ {0}
    PROVE  /\ Pages!Wire(Pages!Item(t, d, s, "error.host", p))
                 = Pages!Item(t, Pages!Clean(d), s, "error.host", p)
           /\ Pages!Clean(d) \in Pages!Displays =>
                 Shown(Pages!Item(t, Pages!Clean(d), s, "error.host", p))
<1>1. PICK host : host = "error.host"
  OBVIOUS
<1>2. host # "none" /\ host # Pages!Here /\ p # 0
  BY <1>1, HostsDiffer
<1>3. Pages!Wire(Pages!Item(t, d, s, host, p)) = Pages!Item(t, Pages!Clean(d), s, host, p)
  BY <1>2, WireOf
<1>4. PICK it : it = Pages!Item(t, Pages!Clean(d), s, host, p)
  OBVIOUS
<1>5. it.display = Pages!Clean(d) /\ it.host = host
  BY <1>4, FieldsOf
<1>6. Pages!Clean(d) \in Pages!Displays => Shown(it)
  BY <1>2, <1>5 DEF Shown
<1>. QED
  BY <1>1, <1>3, <1>4, <1>6

LEMMA SeenOf ==
    ASSUME NEW t, NEW d, NEW s, NEW h, NEW p
    PROVE  Pages!Seen(Pages!Item(t, d, s, h, p)) =
              IF t = "i" THEN Pages!Item(t, d, Pages!Empty, h, p) ELSE Pages!Item(t, d, s, h, p)
BY WithSel, FieldsOf DEF Pages!Seen

(* A line of a menu, written into its gophermap and read from it again. *)
LEMMA LineOf ==
    ASSUME NEW it, RightItem(it)
    PROVE  /\ Pages!Format(it).tab = TRUE
           /\ Shown(Pages!Wire(it))
           /\ Shown(Pages!Wire(Pages!ParseLine(Pages!Format(it))))
           /\ Pages!Seen(Pages!Wire(Pages!ParseLine(Pages!Format(it)))) = Pages!Seen(Pages!Wire(it))
<1>1. CASE \E t, d, s : it = Pages!Link(t, d, s) /\ t # "i" /\ d \in Written /\ Leads(t, s)
  <2>1. PICK t, d, s : it = Pages!Link(t, d, s) /\ t # "i" /\ d \in Written /\ Leads(t, s)
    BY <1>1
  <2>2. PICK c : c = Pages!Clean(d)
    OBVIOUS
  <2>3. c \in Pages!Displays /\ Pages!Clean(c) = c
    BY <2>1, <2>2, Cleaned DEF Pages!Clean, Pages!Displays
  <2>4. it = Pages!Item(t, d, s, "none", 0)
    BY <2>1 DEF Pages!Link
  <2>5. Pages!Format(it) = Pages!Line(TRUE, Pages!Item(t, c, s, "none", 0))
    BY <2>1, <2>2, <2>4, FormatOf
  <2>6. Pages!ParseLine(Pages!Format(it)) = Pages!Item(t, c, s, "none", 0)
    BY <2>1, <2>5, ParseOf
  <2>7. /\ Pages!Wire(it) = Pages!Item(t, c, s, Pages!Here, 70)
        /\ Pages!Wire(Pages!Item(t, c, s, "none", 0)) = Pages!Item(t, c, s, Pages!Here, 70)
    BY <2>2, <2>3, <2>4, WireOf
  <2>8. Shown(Pages!Item(t, c, s, Pages!Here, 70))
    BY <2>1, <2>3, FieldsOf DEF Shown
  <2>9. Pages!Format(it).tab = TRUE
    BY <2>5 DEF Pages!Line
  <2>. QED
    BY <2>6, <2>7, <2>8, <2>9
<1>2. CASE \E d : it = Pages!Info(d) /\ d \in Written
  <2>1. PICK d : it = Pages!Info(d) /\ d \in Written
    BY <1>2
  <2>2. PICK c : c = Pages!Clean(d)
    OBVIOUS
  <2>2a. PICK s : s = Pages!Sel(<<"fake">>, FALSE)
    OBVIOUS
  <2>3. c \in Pages!Displays /\ Pages!Clean(c) = c
    BY <2>1, <2>2, Cleaned DEF Pages!Clean, Pages!Displays
  <2>4. it = Pages!Item("i", d, s, "error.host", 1)
    BY <2>1, <2>2a DEF Pages!Info
  <2>5. Pages!Format(it) = Pages!Line(TRUE, Pages!Item("i", c, Pages!Empty, "none", 0))
    BY <2>2, <2>4, FormatOf
  <2>6. Pages!ParseLine(Pages!Format(it)) = Pages!Item("i", c, Pages!Empty, "error.host", 1)
    BY <2>5, ParseOf
  <2>7. /\ Pages!Wire(it) = Pages!Item("i", c, s, "error.host", 1)
        /\ Pages!Wire(Pages!Item("i", c, Pages!Empty, "error.host", 1))
              = Pages!Item("i", c, Pages!Empty, "error.host", 1)
    <3>1. PICK t, p : t = "i" /\ p = 1
      OBVIOUS
    <3>2. p \in Nat \ {0}
      BY <3>1
    <3>3. /\ Pages!Wire(Pages!Item(t, d, s, "error.host", p)) = Pages!Item(t, c, s, "error.host", p)
          /\ Pages!Wire(Pages!Item(t, c, Pages!Empty, "error.host", p))
                = Pages!Item(t, c, Pages!Empty, "error.host", p)
      BY <2>2, <2>3, <3>2, ElsewhereOf
    <3>. QED
      BY <2>4, <3>1, <3>3
  <2>8. /\ Shown(Pages!Item("i", c, s, "error.host", 1))
        /\ Shown(Pages!Item("i", c, Pages!Empty, "error.host", 1))
    BY <2>3, ElsewhereOf
  <2>9. /\ Pages!Seen(Pages!Item("i", c, s, "error.host", 1))
              = Pages!Item("i", c, Pages!Empty, "error.host", 1)
        /\ Pages!Seen(Pages!Item("i", c, Pages!Empty, "error.host", 1))
              = Pages!Item("i", c, Pages!Empty, "error.host", 1)
    BY SeenOf
  <2>10. Pages!Format(it).tab = TRUE
    BY <2>5 DEF Pages!Line
  <2>. QED
    BY <2>6, <2>7, <2>8, <2>9, <2>10
<1>3. CASE \E d, u : it = Pages!URL(d, u) /\ d \in Written
  <2>1. PICK d, u : it = Pages!URL(d, u) /\ d \in Written
    BY <1>3
  <2>2. PICK c : c = Pages!Clean(d)
    OBVIOUS
  <2>2a. PICK s : s = Pages!Sel(<<u>>, FALSE)
    OBVIOUS
  <2>3. c \in Pages!Displays /\ Pages!Clean(c) = c
    BY <2>1, <2>2, Cleaned DEF Pages!Clean, Pages!Displays
  <2>4. it = Pages!Item("h", d, s, "error.host", 80)
    BY <2>1, <2>2a DEF Pages!URL
  <2>5. Pages!Format(it) = Pages!Line(TRUE, Pages!Item("h", c, s, "error.host", 80))
    <3>1. PICK t, host, p : t = "h" /\ host = "error.host" /\ p = 80
      OBVIOUS
    <3>2. t # "i" /\ host # "none"
      BY <3>1, HostsDiffer
    <3>3. it = Pages!Item(t, d, s, host, p)
      BY <2>4, <3>1
    <3>4. Pages!Format(it) = Pages!Line(TRUE, Pages!Item(t, c, s, host, p))
      BY <2>2, <3>2, <3>3, FormatOf
    <3>. QED
      BY <3>1, <3>4
  <2>6. Pages!ParseLine(Pages!Format(it)) = Pages!Item("h", c, s, "error.host", 80)
    <3>1. PICK t, p : t = "h" /\ p = 80
      OBVIOUS
    <3>2. t # "i"
      BY <3>1
    <3>3. Pages!Format(it) = Pages!Line(TRUE, Pages!Item(t, c, s, "error.host", p))
      BY <2>5, <3>1
    <3>4. Pages!ParseLine(Pages!Format(it)) = Pages!Item(t, c, s, "error.host", p)
      BY <3>2, <3>3, ParseOf
    <3>. QED
      BY <3>1, <3>4
  <2>7. /\ Pages!Wire(it) = Pages!Item("h", c, s, "error.host", 80)
        /\ Pages!Wire(Pages!Item("h", c, s, "error.host", 80))
              = Pages!Item("h", c, s, "error.host", 80)
    <3>1. PICK t, p : t = "h" /\ p = 80
      OBVIOUS
    <3>2. p \in Nat \ {0}
      BY <3>1
    <3>3. /\ Pages!Wire(Pages!Item(t, d, s, "error.host", p)) = Pages!Item(t, c, s, "error.host", p)
          /\ Pages!Wire(Pages!Item(t, c, s, "error.host", p)) = Pages!Item(t, c, s, "error.host", p)
      BY <2>2, <2>3, <3>2, ElsewhereOf
    <3>. QED
      BY <2>4, <3>1, <3>3
  <2>8. Shown(Pages!Item("h", c, s, "error.host", 80))
    BY <2>3, ElsewhereOf
  <2>9. Pages!Format(it).tab = TRUE
    BY <2>5 DEF Pages!Line
  <2>. QED
    BY <2>6, <2>7, <2>8, <2>9
<1>. QED
  BY <1>1, <1>2, <1>3 DEF RightItem

-----------------------------------------------------------------------------
(* The pages the parts write.                                               *)

Urls == {"https://repo", "https://page", "https://files"}
AllItems ==
    {Pages!Link(t, d, s) : t \in {"0", "1", "7", "9"}, d \in Written, s \in Selector}
    \cup {Pages!Info(d) : d \in Written}
    \cup {Pages!URL(d, u) : d \in Written, u \in Urls}
RightItems == {it \in AllItems : RightItem(it)}

KindFits(q, k) ==
    \/ k = "menu" /\ q \in MenuPaths
    \/ k = "text" /\ q \in TextPaths \cup Holes
    \/ k = "binary" /\ q \in Copies \cup SearchPaths

GoodPage(page) == KindFits(page.path, page.kind) /\ page.items \in Seq(RightItems)

LEMMA SelectorsOf ==
    ASSUME Config, NEW q \in Path
    PROVE  /\ Named(Pages!At(q), q) /\ Named(Pages!Dir(q), q)
           /\ Pages!At(q) \in Selector /\ Pages!Dir(q) \in Selector
<1>1. prefix \o q \in Path
  BY PrefixFacts, Joined
<1>2. /\ Pages!At(q) = [path |-> prefix \o q, slash |-> FALSE]
      /\ Pages!Dir(q) = [path |-> prefix \o q, slash |-> TRUE]
  BY DEF Pages!At, Pages!Dir, Pages!Sel
<1>. QED
  BY <1>1, <1>2 DEF Named, Selector

LEMMA BareOf ==
    ASSUME NEW q \in Path, NEW slash \in BOOLEAN
    PROVE  Named(Pages!Sel(q, slash), q) /\ Pages!Sel(q, slash) \in Selector
BY DEF Named, Selector, Pages!Sel

LEMMA NodesArePaths ==
    \A q \in MenuPaths \cup ListPaths \cup TextPaths \cup HolePaths \cup SearchPaths \cup {ArtifactPath} :
        q \in Path
BY DirsAreDirs, LeavesAreLeaves DEF DirPath, LeafPath

LEMMA LinkIn ==
    ASSUME NEW t \in {"0", "1", "7", "9"}, NEW d \in Written, NEW s \in Selector, Leads(t, s)
    PROVE  Pages!Link(t, d, s) \in RightItems
<1>1. Pages!Link(t, d, s) \in AllItems
  BY DEF AllItems
<1>2. t # "i"
  OBVIOUS
<1>3. RightItem(Pages!Link(t, d, s))
  BY <1>2 DEF RightItem
<1>. QED
  BY <1>1, <1>3 DEF RightItems

LEMMA InfoIn ==
    ASSUME NEW d \in Written
    PROVE  Pages!Info(d) \in RightItems
BY DEF RightItems, AllItems, RightItem

LEMMA URLIn ==
    ASSUME NEW d \in Written, NEW u \in Urls
    PROVE  Pages!URL(d, u) \in RightItems
BY DEF RightItems, AllItems, RightItem

LEMMA MenuLink ==
    ASSUME Config, NEW q \in MenuPaths, NEW d \in Written
    PROVE  Pages!Link("1", d, Pages!Dir(q)) \in RightItems
<1>1. q \in Path
  BY NodesArePaths
<1>2. Pages!Dir(q) \in Selector /\ Named(Pages!Dir(q), q)
  BY <1>1, SelectorsOf
<1>3. PICK t : t = "1"
  OBVIOUS
<1>4. Leads(t, Pages!Dir(q))
  BY <1>2, <1>3 DEF Leads
<1>5. t \in {"0", "1", "7", "9"}
  BY <1>3
<1>6. Pages!Link(t, d, Pages!Dir(q)) \in RightItems
  BY <1>2, <1>4, <1>5, LinkIn
<1>. QED
  BY <1>3, <1>6

LEMMA TextLink ==
    ASSUME Config, NEW q \in TextPaths, NEW d \in Written
    PROVE  Pages!Link("0", d, Pages!At(q)) \in RightItems
<1>1. q \in Path
  BY NodesArePaths
<1>2. Pages!At(q) \in Selector /\ Named(Pages!At(q), q)
  BY <1>1, SelectorsOf
<1>3. PICK t : t = "0"
  OBVIOUS
<1>4. Leads(t, Pages!At(q))
  BY <1>2, <1>3 DEF Leads
<1>5. t \in {"0", "1", "7", "9"}
  BY <1>3
<1>6. Pages!Link(t, d, Pages!At(q)) \in RightItems
  BY <1>2, <1>4, <1>5, LinkIn
<1>. QED
  BY <1>3, <1>6

LEMMA TopLink ==
    ASSUME Config
    PROVE  /\ Leads("1", Pages!Top) /\ Pages!Top \in Selector
           /\ Pages!Link("1", "Back to top", Pages!Top) \in RightItems
<1>1. <<>> \in Path /\ <<>> \in MenuPaths
  BY EmptySeq DEF Path, MenuPaths
<1>2. Pages!Top \in Selector /\ Named(Pages!Top, <<>>)
  BY <1>1, BareOf DEF Pages!Top
<1>3. PICK t, d : t = "1" /\ d = "Back to top"
  OBVIOUS
<1>4. Leads(t, Pages!Top)
  BY <1>1, <1>2, <1>3 DEF Leads
<1>5. t \in {"0", "1", "7", "9"} /\ d \in Written
  BY <1>3 DEF Written, Pages!Displays
<1>6. Pages!Link(t, d, Pages!Top) \in RightItems
  BY <1>2, <1>4, <1>5, LinkIn
<1>. QED
  BY <1>2, <1>3, <1>4, <1>6

LEMMA OtherLinks ==
    ASSUME Config, NEW d \in Written
    PROVE  /\ Pages!Link("7", d, Pages!At(<<Pages!SearchName>>)) \in RightItems
           /\ Pages!Link("9", d, IF copied THEN Pages!At(Pages!Artifact) ELSE Pages!Proxied)
                 \in RightItems
<1>1. Pages!At(<<Pages!SearchName>>) \in Selector
  BY SearchIsMounted DEF SearchSel
<1>2. PICK t, u : t = "7" /\ u = "9"
  OBVIOUS
<1>3. Leads(t, Pages!At(<<Pages!SearchName>>))
  BY <1>2 DEF Leads, SearchSel
<1>4. t \in {"0", "1", "7", "9"} /\ u \in {"0", "1", "7", "9"}
  BY <1>2
<1>5. Pages!Link(t, d, Pages!At(<<Pages!SearchName>>)) \in RightItems
  BY <1>1, <1>3, <1>4, LinkIn
<1>6. PICK s : s = IF copied THEN Pages!At(Pages!Artifact) ELSE Pages!Proxied
  OBVIOUS
<1>7. s \in Selector /\ Leads(u, s)
  <2>1. CASE copied
    <3>1. Pages!Artifact = ArtifactPath /\ ArtifactPath \in Path
      BY NodesArePaths DEF Pages!Artifact, ArtifactPath
    <3>2. Named(s, ArtifactPath) /\ s \in Selector
      BY <1>6, <2>1, <3>1, SelectorsOf
    <3>3. ArtifactPath \in Copies
      BY <2>1 DEF Copies
    <3>. QED
      BY <1>2, <3>2, <3>3 DEF Leads
  <2>2. CASE ~copied
    BY <1>2, <1>6, <2>2, ProxiedType DEF Leads
  <2>. QED
    BY <2>1, <2>2
<1>8. Pages!Link(u, d, s) \in RightItems
  BY <1>4, <1>7, LinkIn
<1>. QED
  BY <1>2, <1>5, <1>6, <1>8

LEMMA SomeDisplays ==
    /\ "blank" \in Written /\ "words" \in Written /\ "# words" \in Written
    /\ "two tabbed words" \in Written /\ "Read this page" \in Written /\ "Search" \in Written
BY DEF Written, Pages!Displays

LEMMA FooterIn ==
    ASSUME Config
    PROVE  Pages!Footer \in Seq(RightItems)
<1>1. Pages!Info("blank") \in RightItems /\ Pages!Link("1", "Back to top", Pages!Top) \in RightItems
  BY InfoIn, SomeDisplays, TopLink
<1>. QED
  BY <1>1, Tuple2 DEF Pages!Footer

(* A menu of a directory of the tree. *)
LEMMA MenuIsGood ==
    ASSUME Config, NEW q \in MenuPaths, NEW s, Named(s, q), NEW items \in Seq(RightItems)
    PROVE  /\ GoodPage(Pages!Menu(s, items)) /\ Pages!Menu(s, items).path = q
<1>1. q \in Path /\ (q = <<>> \/ q[1] \in TopNames)
  BY NodesArePaths, Tops DEF TopNames
<1>2. Pages!PathOf(s) = q
  BY <1>1, Resolves DEF Own
<1>. QED
  BY <1>2 DEF Pages!Menu, GoodPage, KindFits

LEMMA FileIsGood ==
    ASSUME Config, NEW q, NEW k, KindFits(q, k), k # "menu", NEW s, Named(s, q)
    PROVE  /\ GoodPage(Pages!File(s, k)) /\ Pages!File(s, k).path = q
<1>1. Own(q)
  <2>1. q \in TextPaths \cup Holes \cup Copies \cup SearchPaths
    BY DEF KindFits
  <2>2. q \in Path
    BY <2>1, NodesArePaths DEF Holes, Copies
  <2>3. q[1] \in TopNames \/ prefix = <<>>
    <3>1. CASE q \in TextPaths \cup Copies
      <4>1. q \in TextPaths \cup {ArtifactPath}
        BY <3>1 DEF Copies
      <4>2. LeafPath(q)
        BY <4>1, LeavesAreLeaves
      <4>3. q # <<>>
        BY <4>2 DEF LeafPath
      <4>. QED
        BY <4>1, <4>3, Tops DEF TopNames
    <3>2. CASE q \in SearchPaths
      BY <3>2, Tops DEF TopNames
    <3>3. CASE q \in Holes
      BY <3>3 DEF Holes
    <3>. QED
      BY <2>1, <3>1, <3>2, <3>3
  <2>. QED
    BY <2>2, <2>3 DEF Own
<1>2. Pages!PathOf(s) = q
  BY <1>1, Resolves
<1>3. <<>> \in Seq(RightItems)
  BY EmptySeq
<1>. QED
  BY <1>2, <1>3 DEF Pages!File, GoodPage

LEMMA Longer ==
    ASSUME NEW s \in Seq(RightItems), NEW t \in Seq(RightItems)
    PROVE  s \o t \in Seq(RightItems)
BY ConcatProperties

GoodPart(pages, paths) ==
    /\ \A page \in pages : GoodPage(page)
    /\ \A q \in paths : \E page \in pages : page.path = q

LEMMA SomeNodes ==
    /\ <<"github">> \in MenuPaths /\ <<"github", "org">> \in MenuPaths /\ RepoPath \in MenuPaths
    /\ <<"github", "org", "repo", "releases">> \in MenuPaths
    /\ <<"ncs">> \in MenuPaths /\ <<"ncs", "page">> \in MenuPaths /\ <<"files">> \in MenuPaths
    /\ <<"files", "repositories">> \in MenuPaths /\ <<"files", "downloads">> \in MenuPaths
    /\ <<>> \in MenuPaths
    /\ RepoPath \o <<"readme.txt">> \in TextPaths
    /\ RepoPath \o <<"releases", "v1.txt">> \in TextPaths
    /\ <<"ncs">> \o <<"index.txt">> \in TextPaths
    /\ <<"ncs", "page">> \o <<"index.txt">> \in TextPaths
    /\ <<"about.txt">> \in TextPaths
BY PutTogether DEF MenuPaths, TextPaths

LEMMA GitHubIsGood ==
    ASSUME Config
    PROVE  GoodPart(Pages!GitHub,
                    {<<"github">>, <<"github", "org">>, RepoPath,
                     <<"github", "org", "repo", "releases">>,
                     RepoPath \o <<"readme.txt">>, RepoPath \o <<"releases", "v1.txt">>})
<1>1. PICK org, releases, readme, v1 :
         /\ org = <<"github", "org">> /\ releases = <<"github", "org", "repo", "releases">>
         /\ readme = RepoPath \o <<"readme.txt">> /\ v1 = RepoPath \o <<"releases", "v1.txt">>
  OBVIOUS
<1>2. PICK github : github = <<"github">>
  OBVIOUS
<1>3. PICK m1, m2, m3, m4 :
         /\ m1 = <<Pages!Link("1", "words", Pages!Dir(org))>> \o Pages!Footer
         /\ m2 = <<Pages!Link("1", "words", Pages!Dir(RepoPath))>> \o Pages!Footer
         /\ m3 = <<Pages!Info("# words"), Pages!Link("0", "words", Pages!At(readme)),
                   Pages!Link("1", "words", Pages!Dir(releases)),
                   Pages!URL("words", "https://repo")>> \o Pages!Footer
         /\ m4 = <<Pages!Link("0", "words", Pages!At(v1)),
                   Pages!Link("1", "words", Pages!Dir(RepoPath))>> \o Pages!Footer
  OBVIOUS
<1>4. Pages!GitHub =
         {Pages!Menu(Pages!At(github), m1), Pages!Menu(Pages!At(org), m2),
          Pages!Menu(Pages!At(RepoPath), m3), Pages!Menu(Pages!At(releases), m4),
          Pages!File(Pages!At(readme), "text"), Pages!File(Pages!At(v1), "text")}
  <2>1. <<"github", "org">> \o <<"repo">> = RepoPath /\ RepoPath \o <<"releases">> = releases
    BY <1>1, PutTogether
  <2>. QED
    BY <1>1, <1>2, <1>3, <2>1 DEF Pages!GitHub
<1>5. /\ github \in MenuPaths /\ org \in MenuPaths /\ RepoPath \in MenuPaths
      /\ releases \in MenuPaths /\ readme \in TextPaths /\ v1 \in TextPaths
  BY <1>1, <1>2, SomeNodes
<1>6. Pages!Footer \in Seq(RightItems)
  BY FooterIn
<1>7. m1 \in Seq(RightItems) /\ m2 \in Seq(RightItems)
  <2>1. /\ Pages!Link("1", "words", Pages!Dir(org)) \in RightItems
        /\ Pages!Link("1", "words", Pages!Dir(RepoPath)) \in RightItems
    BY <1>5, MenuLink, SomeDisplays
  <2>2. /\ <<Pages!Link("1", "words", Pages!Dir(org))>> \in Seq(RightItems)
        /\ <<Pages!Link("1", "words", Pages!Dir(RepoPath))>> \in Seq(RightItems)
    BY <2>1, Tuple1
  <2>. QED
    BY <1>3, <1>6, <2>2, Longer
<1>8. m3 \in Seq(RightItems)
  <2>1. /\ Pages!Info("# words") \in RightItems
        /\ Pages!Link("0", "words", Pages!At(readme)) \in RightItems
        /\ Pages!Link("1", "words", Pages!Dir(releases)) \in RightItems
    BY <1>5, InfoIn, MenuLink, TextLink, SomeDisplays
  <2>2. Pages!URL("words", "https://repo") \in RightItems
    BY URLIn, SomeDisplays DEF Urls
  <2>3. PICK a, b, c, d :
           /\ a = Pages!Info("# words") /\ b = Pages!Link("0", "words", Pages!At(readme))
           /\ c = Pages!Link("1", "words", Pages!Dir(releases))
           /\ d = Pages!URL("words", "https://repo")
    OBVIOUS
  <2>4. a \in RightItems /\ b \in RightItems /\ c \in RightItems /\ d \in RightItems
    BY <2>1, <2>2, <2>3
  <2>5. <<a, b, c, d>> \in Seq(RightItems)
    BY <2>4, Tuple4
  <2>. QED
    BY <1>3, <1>6, <2>3, <2>5, Longer
<1>9. m4 \in Seq(RightItems)
  <2>1. PICK a, b : /\ a = Pages!Link("0", "words", Pages!At(v1))
                    /\ b = Pages!Link("1", "words", Pages!Dir(RepoPath))
    OBVIOUS
  <2>2. a \in RightItems /\ b \in RightItems
    BY <1>5, <2>1, MenuLink, TextLink, SomeDisplays
  <2>3. <<a, b>> \in Seq(RightItems)
    BY <2>2, Tuple2
  <2>. QED
    BY <1>3, <1>6, <2>1, <2>3, Longer
<1>10. /\ Named(Pages!At(github), github) /\ Named(Pages!At(org), org)
       /\ Named(Pages!At(RepoPath), RepoPath) /\ Named(Pages!At(releases), releases)
       /\ Named(Pages!At(readme), readme) /\ Named(Pages!At(v1), v1)
  BY <1>5, NodesArePaths, SelectorsOf
<1>11. /\ GoodPage(Pages!Menu(Pages!At(github), m1)) /\ Pages!Menu(Pages!At(github), m1).path = github
       /\ GoodPage(Pages!Menu(Pages!At(org), m2)) /\ Pages!Menu(Pages!At(org), m2).path = org
       /\ GoodPage(Pages!Menu(Pages!At(RepoPath), m3)) /\ Pages!Menu(Pages!At(RepoPath), m3).path = RepoPath
       /\ GoodPage(Pages!Menu(Pages!At(releases), m4)) /\ Pages!Menu(Pages!At(releases), m4).path = releases
  BY <1>5, <1>7, <1>8, <1>9, <1>10, MenuIsGood
<1>12. /\ GoodPage(Pages!File(Pages!At(readme), "text")) /\ Pages!File(Pages!At(readme), "text").path = readme
       /\ GoodPage(Pages!File(Pages!At(v1), "text")) /\ Pages!File(Pages!At(v1), "text").path = v1
  <2>1. PICK k : k = "text"
    OBVIOUS
  <2>2. KindFits(readme, k) /\ KindFits(v1, k) /\ k # "menu"
    BY <1>5, <2>1 DEF KindFits
  <2>3. /\ GoodPage(Pages!File(Pages!At(readme), k)) /\ Pages!File(Pages!At(readme), k).path = readme
        /\ GoodPage(Pages!File(Pages!At(v1), k)) /\ Pages!File(Pages!At(v1), k).path = v1
    BY <1>10, <2>2, FileIsGood
  <2>. QED
    BY <2>1, <2>3
<1>13. \A page \in Pages!GitHub : GoodPage(page)
  BY <1>4, <1>11, <1>12
<1>14. \A q \in {github, org, RepoPath, releases, readme, v1} :
          \E page \in Pages!GitHub : page.path = q
  BY <1>4, <1>11, <1>12
<1>. QED
  BY <1>1, <1>2, <1>13, <1>14 DEF GoodPart

LEMMA NcsDocsIsGood ==
    ASSUME Config
    PROVE  GoodPart(Pages!NcsDocs,
                    {<<"ncs">>, <<"ncs", "page">>, <<"ncs">> \o <<"index.txt">>,
                     <<"ncs", "page">> \o <<"index.txt">>})
<1>1. PICK ncs, page, text, under :
         /\ ncs = <<"ncs">> /\ page = <<"ncs", "page">>
         /\ text = <<"ncs">> \o <<"index.txt">> /\ under = <<"ncs", "page">> \o <<"index.txt">>
  OBVIOUS
<1>2. PICK a, b, c, d, e :
         /\ a = Pages!Link("0", "Read this page", Pages!At(text))
         /\ b = Pages!Link("1", "two tabbed words", Pages!Dir(page))
         /\ c = Pages!Link("0", "Read this page", Pages!At(under))
         /\ d = Pages!Link("1", "words", Pages!Dir(ncs))
         /\ e = Pages!URL("words", "https://page")
  OBVIOUS
<1>3. PICK m1, m2 : /\ m1 = <<a>> \o <<b>> \o Pages!Footer
                    /\ m2 = <<c>> \o <<d, e>> \o Pages!Footer
  OBVIOUS
<1>4. Pages!NcsDocs =
         {Pages!Menu(Pages!At(ncs), m1), Pages!Menu(Pages!At(page), m2),
          Pages!File(Pages!At(text), "text"), Pages!File(Pages!At(under), "text")}
  <2>1. Pages!NcsDocs =
           {Pages!Menu(Pages!At(<<"ncs">>),
                       <<Pages!Link("0", "Read this page", Pages!At(<<"ncs">> \o <<"index.txt">>))>>
                         \o <<Pages!Link("1", "two tabbed words", Pages!Dir(<<"ncs", "page">>))>>
                         \o Pages!Footer),
            Pages!Menu(Pages!At(<<"ncs", "page">>),
                       <<Pages!Link("0", "Read this page",
                                    Pages!At(<<"ncs", "page">> \o <<"index.txt">>))>>
                         \o <<Pages!Link("1", "words", Pages!Dir(<<"ncs">>)),
                              Pages!URL("words", "https://page")>>
                         \o Pages!Footer),
            Pages!File(Pages!At(<<"ncs", "index.txt">>), "text"),
            Pages!File(Pages!At(<<"ncs", "page">> \o <<"index.txt">>), "text")}
    BY DEF Pages!NcsDocs
  <2>2. <<"ncs", "index.txt">> = text
    BY <1>1, PutTogether
  <2>. QED
    BY <1>1, <1>2, <1>3, <2>1, <2>2
<1>5. ncs \in MenuPaths /\ page \in MenuPaths /\ text \in TextPaths /\ under \in TextPaths
  BY <1>1, SomeNodes
<1>6. /\ a \in RightItems /\ b \in RightItems /\ c \in RightItems /\ d \in RightItems
  BY <1>2, <1>5, MenuLink, TextLink, SomeDisplays
<1>7. e \in RightItems
  BY <1>2, URLIn, SomeDisplays DEF Urls
<1>8. /\ <<a>> \in Seq(RightItems) /\ <<b>> \in Seq(RightItems) /\ <<c>> \in Seq(RightItems)
      /\ <<d, e>> \in Seq(RightItems) /\ Pages!Footer \in Seq(RightItems)
  BY <1>6, <1>7, Tuple1, Tuple2, FooterIn
<1>9. <<a>> \o <<b>> \in Seq(RightItems) /\ <<c>> \o <<d, e>> \in Seq(RightItems)
  BY <1>8, Longer
<1>10. m1 \in Seq(RightItems) /\ m2 \in Seq(RightItems)
  BY <1>3, <1>8, <1>9, Longer
<1>11. /\ Named(Pages!At(ncs), ncs) /\ Named(Pages!At(page), page)
       /\ Named(Pages!At(text), text) /\ Named(Pages!At(under), under)
  BY <1>5, NodesArePaths, SelectorsOf
<1>12. /\ GoodPage(Pages!Menu(Pages!At(ncs), m1)) /\ Pages!Menu(Pages!At(ncs), m1).path = ncs
       /\ GoodPage(Pages!Menu(Pages!At(page), m2)) /\ Pages!Menu(Pages!At(page), m2).path = page
  BY <1>5, <1>10, <1>11, MenuIsGood
<1>13. /\ GoodPage(Pages!File(Pages!At(text), "text")) /\ Pages!File(Pages!At(text), "text").path = text
       /\ GoodPage(Pages!File(Pages!At(under), "text")) /\ Pages!File(Pages!At(under), "text").path = under
  <2>1. PICK k : k = "text"
    OBVIOUS
  <2>2. KindFits(text, k) /\ KindFits(under, k) /\ k # "menu"
    BY <1>5, <2>1 DEF KindFits
  <2>3. /\ GoodPage(Pages!File(Pages!At(text), k)) /\ Pages!File(Pages!At(text), k).path = text
        /\ GoodPage(Pages!File(Pages!At(under), k)) /\ Pages!File(Pages!At(under), k).path = under
    BY <1>11, <2>2, FileIsGood
  <2>. QED
    BY <2>1, <2>3
<1>14. \A p \in Pages!NcsDocs : GoodPage(p)
  BY <1>4, <1>12, <1>13
<1>15. \A q \in {ncs, page, text, under} : \E p \in Pages!NcsDocs : p.path = q
  BY <1>4, <1>12, <1>13
<1>. QED
  BY <1>1, <1>14, <1>15 DEF GoodPart

LEMMA FilesIsGood ==
    ASSUME Config
    PROVE  GoodPart(Pages!Files,
                    {<<"files">>, <<"files", "repositories">>, <<"files", "downloads">>} \cup Copies)
<1>1. PICK files, repositories, downloads :
         /\ files = <<"files">> /\ repositories = <<"files", "repositories">>
         /\ downloads = <<"files", "downloads">>
  OBVIOUS
<1>2. PICK a, b, c, d, e :
         /\ a = Pages!Link("1", "words", Pages!Dir(downloads))
         /\ b = Pages!Link("1", "words", Pages!Dir(repositories))
         /\ c = Pages!URL("words", "https://files")
         /\ d = Pages!Link("1", "words", Pages!Dir(files))
         /\ e = Pages!Link("9", "words", IF copied THEN Pages!At(Pages!Artifact) ELSE Pages!Proxied)
  OBVIOUS
<1>3. PICK m1, m2, m3 : /\ m1 = <<a, b>> \o Pages!Footer
                        /\ m2 = <<c, d>> \o Pages!Footer
                        /\ m3 = <<e, d>> \o Pages!Footer
  OBVIOUS
<1>4. PICK copies : copies = IF copied THEN {Pages!File(Pages!At(Pages!Artifact), "binary")} ELSE {}
  OBVIOUS
<1>5. Pages!Files =
         {Pages!Menu(Pages!At(files), m1), Pages!Menu(Pages!At(repositories), m2),
          Pages!Menu(Pages!At(downloads), m3)} \cup copies
  BY <1>1, <1>2, <1>3, <1>4 DEF Pages!Files
<1>6. files \in MenuPaths /\ repositories \in MenuPaths /\ downloads \in MenuPaths
  BY <1>1, SomeNodes
<1>7. a \in RightItems /\ b \in RightItems /\ d \in RightItems
  BY <1>2, <1>6, MenuLink, SomeDisplays
<1>8. c \in RightItems
  BY <1>2, URLIn, SomeDisplays DEF Urls
<1>9. e \in RightItems
  BY <1>2, OtherLinks, SomeDisplays
<1>10. /\ <<a, b>> \in Seq(RightItems) /\ <<c, d>> \in Seq(RightItems)
       /\ <<e, d>> \in Seq(RightItems) /\ Pages!Footer \in Seq(RightItems)
  BY <1>7, <1>8, <1>9, Tuple2, FooterIn
<1>11. m1 \in Seq(RightItems) /\ m2 \in Seq(RightItems) /\ m3 \in Seq(RightItems)
  BY <1>3, <1>10, Longer
<1>12. /\ Named(Pages!At(files), files) /\ Named(Pages!At(repositories), repositories)
       /\ Named(Pages!At(downloads), downloads)
  BY <1>6, NodesArePaths, SelectorsOf
<1>13. /\ GoodPage(Pages!Menu(Pages!At(files), m1)) /\ Pages!Menu(Pages!At(files), m1).path = files
       /\ GoodPage(Pages!Menu(Pages!At(repositories), m2))
       /\ Pages!Menu(Pages!At(repositories), m2).path = repositories
       /\ GoodPage(Pages!Menu(Pages!At(downloads), m3))
       /\ Pages!Menu(Pages!At(downloads), m3).path = downloads
  BY <1>6, <1>11, <1>12, MenuIsGood
<1>14. /\ \A page \in copies : GoodPage(page)
       /\ \A q \in Copies : \E page \in copies : page.path = q
  <2>1. CASE copied
    <3>1. Pages!Artifact = ArtifactPath /\ ArtifactPath \in Path /\ Copies = {ArtifactPath}
      BY <2>1, NodesArePaths DEF Pages!Artifact, ArtifactPath, Copies
    <3>2. Named(Pages!At(Pages!Artifact), ArtifactPath)
      BY <3>1, SelectorsOf
    <3>3. PICK k : k = "binary"
      OBVIOUS
    <3>4. KindFits(ArtifactPath, k) /\ k # "menu"
      BY <3>1, <3>3 DEF KindFits
    <3>5. /\ GoodPage(Pages!File(Pages!At(Pages!Artifact), k))
          /\ Pages!File(Pages!At(Pages!Artifact), k).path = ArtifactPath
      BY <3>2, <3>4, FileIsGood
    <3>. QED
      BY <1>4, <2>1, <3>1, <3>3, <3>5
  <2>2. CASE ~copied
    BY <1>4, <2>2 DEF Copies
  <2>. QED
    BY <2>1, <2>2
<1>15. \A page \in Pages!Files : GoodPage(page)
  BY <1>5, <1>13, <1>14
<1>16. \A q \in {files, repositories, downloads} \cup Copies : \E page \in Pages!Files : page.path = q
  BY <1>5, <1>13, <1>14
<1>. QED
  BY <1>1, <1>15, <1>16 DEF GoodPart

LEMMA Tuple6 ==
    ASSUME NEW S, NEW a \in S, NEW b \in S, NEW c \in S, NEW d \in S, NEW e \in S, NEW f \in S
    PROVE  <<a, b, c, d, e, f>> \in Seq(S)
<1>1. <<a, b, c, d, e, f>> \in [1..6 -> S] /\ 6 \in Nat
  OBVIOUS
<1>. QED
  BY <1>1, SeqDef

LEMMA RootIsGood ==
    ASSUME Config
    PROVE  GoodPart(Pages!Root \cup Pages!HoleFiles, {<<>>, <<"about.txt">>} \cup Holes)
<1>1. PICK github, ncs, files, about, caps, robots :
         /\ github = <<"github">> /\ ncs = <<"ncs">> /\ files = <<"files">>
         /\ about = <<"about.txt">> /\ caps = <<"caps.txt">> /\ robots = <<"robots.txt">>
  OBVIOUS
<1>2. PICK a, b, c, d, e, f :
         /\ a = Pages!Info("blank")
         /\ b = Pages!Link("1", "words", Pages!Dir(github))
         /\ c = Pages!Link("1", "words", Pages!Dir(ncs))
         /\ d = Pages!Link("1", "words", Pages!Dir(files))
         /\ e = Pages!Link("7", "Search", Pages!At(<<Pages!SearchName>>))
         /\ f = Pages!Link("0", "words", Pages!At(about))
  OBVIOUS
<1>3. PICK m : m = <<a, b, c, d, e, f>>
  OBVIOUS
<1>4. Pages!Root = {Pages!Menu(Pages!Top, m), Pages!File(Pages!Sel(about, FALSE), "text")}
  BY <1>1, <1>2, <1>3 DEF Pages!Root
<1>5. /\ github \in MenuPaths /\ ncs \in MenuPaths /\ files \in MenuPaths
      /\ about \in TextPaths /\ <<>> \in MenuPaths /\ caps \in HolePaths /\ robots \in HolePaths
  BY <1>1, SomeNodes DEF HolePaths
<1>6. a \in RightItems /\ b \in RightItems /\ c \in RightItems /\ d \in RightItems /\ f \in RightItems
  BY <1>2, <1>5, InfoIn, MenuLink, TextLink, SomeDisplays
<1>7. e \in RightItems
  BY <1>2, OtherLinks, SomeDisplays
<1>8. m \in Seq(RightItems)
  BY <1>3, <1>6, <1>7, Tuple6
<1>9. Named(Pages!Top, <<>>)
  BY <1>5, NodesArePaths, BareOf DEF Pages!Top
<1>10. GoodPage(Pages!Menu(Pages!Top, m)) /\ Pages!Menu(Pages!Top, m).path = <<>>
  BY <1>5, <1>8, <1>9, MenuIsGood
<1>11. ASSUME NEW q \in TextPaths \cup Holes
       PROVE  /\ GoodPage(Pages!File(Pages!Sel(q, FALSE), "text"))
              /\ Pages!File(Pages!Sel(q, FALSE), "text").path = q
  <2>1. PICK k : k = "text"
    OBVIOUS
  <2>2. KindFits(q, k) /\ k # "menu"
    BY <2>1 DEF KindFits
  <2>3. Named(Pages!Sel(q, FALSE), q)
    BY NodesArePaths, BareOf DEF Holes
  <2>4. GoodPage(Pages!File(Pages!Sel(q, FALSE), k)) /\ Pages!File(Pages!Sel(q, FALSE), k).path = q
    BY <2>2, <2>3, FileIsGood
  <2>. QED
    BY <2>1, <2>4
<1>12. PICK root, hole : root = Pages!Root /\ hole = Pages!HoleFiles
  OBVIOUS
<1>13. /\ \A page \in hole : GoodPage(page)
       /\ \A q \in Holes : \E page \in hole : page.path = q
  <2>1. CASE prefix = <<>>
    <3>1. hole = {Pages!File(Pages!Sel(caps, FALSE), "text"), Pages!File(Pages!Sel(robots, FALSE), "text")}
      BY <1>1, <1>12, <2>1 DEF Pages!HoleFiles
    <3>2. Holes = {caps, robots}
      BY <1>1, <2>1 DEF Holes, HolePaths
    <3>. QED
      BY <1>11, <3>1, <3>2
  <2>2. CASE prefix # <<>>
    BY <1>12, <2>2 DEF Pages!HoleFiles, Holes
  <2>. QED
    BY <2>1, <2>2
<1>14. GoodPage(Pages!File(Pages!Sel(about, FALSE), "text"))
       /\ Pages!File(Pages!Sel(about, FALSE), "text").path = about
  BY <1>5, <1>11
<1>15. \A page \in root \cup hole : GoodPage(page)
  BY <1>4, <1>10, <1>12, <1>13, <1>14
<1>16. \A q \in {<<>>, about} \cup Holes : \E page \in root \cup hole : page.path = q
  BY <1>4, <1>10, <1>12, <1>13, <1>14
<1>. QED
  BY <1>1, <1>12, <1>15, <1>16 DEF GoodPart

LEMMA SearchFilesIsGood ==
    ASSUME Config
    PROVE  GoodPart(Pages!SearchFiles, {})
<1>1. PICK idx, run : idx = <<"search.idx">> /\ run = <<"search.cgi">>
  OBVIOUS
<1>2. idx \in SearchPaths /\ run \in SearchPaths
  BY <1>1 DEF SearchPaths
<1>3. PICK k : k = "binary"
  OBVIOUS
<1>4. KindFits(idx, k) /\ KindFits(run, k) /\ k # "menu"
  BY <1>2, <1>3 DEF KindFits
<1>5. GoodPage([path |-> idx, kind |-> k, items |-> <<>>])
  <2>1. <<>> \in Seq(RightItems)
    BY EmptySeq
  <2>. QED
    BY <1>4, <2>1 DEF GoodPage
<1>6. GoodPage(Pages!File(Pages!At(run), k))
  BY <1>2, <1>4, NodesArePaths, SelectorsOf, FileIsGood
<1>7. \A page \in Pages!SearchFiles :
         page = [path |-> idx, kind |-> k, items |-> <<>>] \/ page = Pages!File(Pages!At(run), k)
  BY <1>1, <1>3 DEF Pages!SearchFiles
<1>. QED
  BY <1>5, <1>6, <1>7 DEF GoodPart

-----------------------------------------------------------------------------
(* The tree, from the first part to the last.                               *)

Stored(files, menus) ==
    /\ DOMAIN menus = DOMAIN files
    /\ \A p \in DOMAIN files :
          /\ KindFits(p, files[p].kind)
          /\ menus[p] \in Seq(RightItems)
          /\ files[p].lines = Pages!Each(Pages!Format, menus[p])

GitHubPaths ==
    {<<"github">>, <<"github", "org">>, RepoPath, <<"github", "org", "repo", "releases">>,
     RepoPath \o <<"readme.txt">>, RepoPath \o <<"releases", "v1.txt">>}
NcsPaths ==
    {<<"ncs">>, <<"ncs", "page">>, <<"ncs">> \o <<"index.txt">>,
     <<"ncs", "page">> \o <<"index.txt">>}
FilesPaths == {<<"files">>, <<"files", "repositories">>, <<"files", "downloads">>} \cup Copies
RootPaths == {<<>>, <<"about.txt">>} \cup Holes

TreeInv ==
    /\ Config
    /\ part \in 1..6
    /\ Stored(tree, meant)
    /\ part > 1 => GitHubPaths \subseteq DOMAIN tree
    /\ part > 2 => NcsPaths \subseteq DOMAIN tree
    /\ part > 3 => FilesPaths \subseteq DOMAIN tree
    /\ part > 4 => RootPaths \subseteq DOMAIN tree

LEMMA WriteKeeps ==
    ASSUME Config, Stored(tree, meant), NEW pages, NEW paths, GoodPart(pages, paths),
           Pages!Write(pages)
    PROVE  /\ Stored(tree', meant')
           /\ DOMAIN tree \subseteq DOMAIN tree' /\ paths \subseteq DOMAIN tree'
<1>1. PICK names : names = {page.path : page \in pages}
  OBVIOUS
<1>2. PICK Page : Page = [p \in names |-> CHOOSE page \in pages : page.path = p]
  OBVIOUS
<1>3. \A p \in names : Page[p] \in pages /\ Page[p].path = p
  <2>1. \A p \in names : \E page \in pages : page.path = p
    BY <1>1
  <2>2. \A p \in names : LET page == CHOOSE page \in pages : page.path = p
                         IN page \in pages /\ page.path = p
    BY <2>1
  <2>. QED
    BY <1>2, <2>2
<1>4. /\ tree' = [p \in DOMAIN tree \cup names |->
                     IF p \in names THEN Pages!Content(Page[p]) ELSE tree[p]]
      /\ meant' = [p \in DOMAIN meant \cup names |->
                      IF p \in names THEN Page[p].items ELSE meant[p]]
  BY <1>1, <1>2 DEF Pages!Write
<1>5. PICK files, menus : files = tree' /\ menus = meant'
  OBVIOUS
<1>6. DOMAIN files = DOMAIN tree \cup names /\ DOMAIN menus = DOMAIN files
  BY <1>4, <1>5 DEF Stored
<1>7. ASSUME NEW p \in DOMAIN files
      PROVE  /\ KindFits(p, files[p].kind) /\ menus[p] \in Seq(RightItems)
             /\ files[p].lines = Pages!Each(Pages!Format, menus[p])
  <2>1. CASE p \in names
    <3>1. files[p] = Pages!Content(Page[p]) /\ menus[p] = Page[p].items
      BY <1>4, <1>5, <1>6, <2>1
    <3>2. GoodPage(Page[p]) /\ Page[p].path = p
      BY <1>3, <2>1 DEF GoodPart
    <3>3. /\ files[p].kind = Page[p].kind
          /\ files[p].lines = Pages!Each(Pages!Format, Page[p].items)
      BY <3>1 DEF Pages!Content
    <3>. QED
      BY <3>1, <3>2, <3>3 DEF GoodPage
  <2>2. CASE p \notin names
    <3>1. p \in DOMAIN tree /\ files[p] = tree[p] /\ menus[p] = meant[p]
      BY <1>4, <1>5, <1>6, <2>2 DEF Stored
    <3>. QED
      BY <3>1 DEF Stored
  <2>. QED
    BY <2>1, <2>2
<1>8. Stored(files, menus)
  BY <1>6, <1>7 DEF Stored
<1>9. paths \subseteq names
  BY <1>1 DEF GoodPart
<1>. QED
  BY <1>5, <1>6, <1>8, <1>9

LEMMA ConfigStays ==
    ASSUME UNCHANGED <<prefix, cgi, copied, proxyOn>>
    PROVE  /\ Config' <=> Config
           /\ \A t, s : Leads(t, s)' <=> Leads(t, s)
           /\ RightItems' = RightItems
           /\ Holes' = Holes /\ Copies' = Copies /\ SearchSel' = SearchSel
<1>1. Config' <=> Config
  BY DEF Config
<1>2. Holes' = Holes /\ Copies' = Copies /\ Lists' = Lists
  BY DEF Holes, Copies, Lists
<1>3. SearchSel' = SearchSel
  BY DEF SearchSel, Pages!At, Pages!SearchName
<1>4. \A s, q : Named(s, q)' <=> Named(s, q)
  BY DEF Named
<1>5. \A t, s : Leads(t, s)' <=> Leads(t, s)
  BY <1>2, <1>3, <1>4 DEF Leads
<1>6. \A it : RightItem(it)' <=> RightItem(it)
  BY <1>5 DEF RightItem
<1>7. RightItems' = RightItems
  BY <1>6 DEF RightItems
<1>. QED
  BY <1>1, <1>2, <1>3, <1>5, <1>7

LEMMA StoredStays ==
    ASSUME UNCHANGED <<prefix, cgi, copied, proxyOn>>, Stored(tree', meant')
    PROVE  Stored(tree, meant)'
<1>1. RightItems' = RightItems /\ Holes' = Holes /\ Copies' = Copies
  BY ConfigStays
<1>2. \A p, k : KindFits(p, k)' <=> KindFits(p, k)
  BY <1>1 DEF KindFits
<1>. QED
  BY <1>1, <1>2 DEF Stored

LEMMA TreeBegins ==
    ASSUME Config, Pages!Unserved
    PROVE  TreeInv
<1>1. part = 1 /\ DOMAIN tree = {} /\ DOMAIN meant = {}
  BY DEF Pages!Unserved
<1>. QED
  BY <1>1 DEF TreeInv, Stored

LEMMA TreeGrows ==
    ASSUME TreeInv, Pages!Ingest
    PROVE  TreeInv'
<1>1. /\ part \in 1..5 /\ part' = part + 1 /\ UNCHANGED <<prefix, cgi, copied, proxyOn>>
      /\ Pages!Write(Pages!PagesOf(Pages!Parts[part]))
  BY DEF TreeInv, Pages!Ingest, Pages!Parts, Pages!config
<1>2. Config /\ Config' /\ Holes' = Holes /\ Copies' = Copies
  BY <1>1, ConfigStays DEF TreeInv
<1>3. /\ GitHubPaths' = GitHubPaths /\ NcsPaths' = NcsPaths /\ FilesPaths' = FilesPaths
      /\ RootPaths' = RootPaths
  BY <1>2 DEF GitHubPaths, NcsPaths, FilesPaths, RootPaths
<1>4. /\ part' \in 1..6 /\ part \in 1..5
      /\ part' > 1 /\ (part' > 2 => part > 1) /\ (part' > 3 => part > 2)
      /\ (part' > 4 => part > 3) /\ (part' > 5 => part > 4)
  BY <1>1
<1>5. ASSUME NEW pages, NEW paths, GoodPart(pages, paths), Pages!Write(pages)
      PROVE  /\ Stored(tree, meant)' /\ DOMAIN tree \subseteq DOMAIN tree'
             /\ paths \subseteq DOMAIN tree'
  <2>1. /\ Stored(tree', meant') /\ DOMAIN tree \subseteq DOMAIN tree'
        /\ paths \subseteq DOMAIN tree'
    BY <1>2, <1>5, WriteKeeps DEF TreeInv
  <2>. QED
    BY <1>1, <2>1, StoredStays
<1>6. CASE part = 1
  <2>1. Pages!Write(Pages!GitHub)
    BY <1>1, <1>6 DEF Pages!PagesOf, Pages!Parts
  <2>2. GoodPart(Pages!GitHub, GitHubPaths)
    BY <1>2, GitHubIsGood DEF GitHubPaths
  <2>3. Stored(tree, meant)' /\ GitHubPaths \subseteq DOMAIN tree'
    BY <1>5, <2>1, <2>2
  <2>. QED
    BY <1>1, <1>2, <1>3, <1>6, <2>3 DEF TreeInv
<1>7. CASE part = 2
  <2>1. Pages!Write(Pages!NcsDocs)
    BY <1>1, <1>7 DEF Pages!PagesOf, Pages!Parts
  <2>2. GoodPart(Pages!NcsDocs, NcsPaths)
    BY <1>2, NcsDocsIsGood DEF NcsPaths
  <2>3. /\ Stored(tree, meant)' /\ NcsPaths \subseteq DOMAIN tree'
        /\ DOMAIN tree \subseteq DOMAIN tree'
    BY <1>5, <2>1, <2>2
  <2>. QED
    BY <1>1, <1>2, <1>3, <1>7, <2>3 DEF TreeInv
<1>8. CASE part = 3
  <2>1. Pages!Write(Pages!Files)
    BY <1>1, <1>8 DEF Pages!PagesOf, Pages!Parts
  <2>2. GoodPart(Pages!Files, FilesPaths)
    BY <1>2, FilesIsGood DEF FilesPaths
  <2>3. /\ Stored(tree, meant)' /\ FilesPaths \subseteq DOMAIN tree'
        /\ DOMAIN tree \subseteq DOMAIN tree'
    BY <1>5, <2>1, <2>2
  <2>. QED
    BY <1>1, <1>2, <1>3, <1>8, <2>3 DEF TreeInv
<1>9. CASE part = 4
  <2>1. Pages!Write(Pages!Root \cup Pages!HoleFiles)
    BY <1>1, <1>9 DEF Pages!PagesOf, Pages!Parts
  <2>2. GoodPart(Pages!Root \cup Pages!HoleFiles, RootPaths)
    BY <1>2, RootIsGood DEF RootPaths
  <2>3. /\ Stored(tree, meant)' /\ RootPaths \subseteq DOMAIN tree'
        /\ DOMAIN tree \subseteq DOMAIN tree'
    BY <1>5, <2>1, <2>2
  <2>. QED
    BY <1>1, <1>2, <1>3, <1>9, <2>3 DEF TreeInv
<1>10. CASE part = 5
  <2>1. Pages!Write(Pages!SearchFiles)
    BY <1>1, <1>10 DEF Pages!PagesOf, Pages!Parts
  <2>2. GoodPart(Pages!SearchFiles, {})
    BY <1>2, SearchFilesIsGood
  <2>3. Stored(tree, meant)' /\ DOMAIN tree \subseteq DOMAIN tree'
    BY <1>5, <2>1, <2>2
  <2>. QED
    BY <1>1, <1>2, <1>3, <1>10, <2>3 DEF TreeInv
<1>. QED
  BY <1>1, <1>6, <1>7, <1>8, <1>9, <1>10

(* A tree that is served has a node for every link. *)
LEMMA TreeIsWhole ==
    ASSUME TreeInv, Pages!Served
    PROVE  /\ MenuPaths \cup TextPaths \cup Copies \cup Holes \subseteq DOMAIN tree
           /\ DOMAIN tree \subseteq MenuPaths \cup TextPaths \cup HolePaths \cup SearchPaths \cup {ArtifactPath}
<1>1. part = 6
  BY DEF Pages!Served, Pages!Parts
<1>2. GitHubPaths \cup NcsPaths \cup FilesPaths \cup RootPaths \subseteq DOMAIN tree
  BY <1>1 DEF TreeInv
<1>3. MenuPaths \subseteq GitHubPaths \cup NcsPaths \cup FilesPaths \cup RootPaths
  BY Zenon DEF MenuPaths, GitHubPaths, NcsPaths, FilesPaths, RootPaths
<1>4. TextPaths \subseteq GitHubPaths \cup NcsPaths \cup FilesPaths \cup RootPaths
  BY PutTogether, Zenon DEF TextPaths, GitHubPaths, NcsPaths, FilesPaths, RootPaths
<1>5. Copies \cup Holes \subseteq FilesPaths \cup RootPaths
  BY DEF FilesPaths, RootPaths
<1>6. \A p \in DOMAIN tree : KindFits(p, tree[p].kind)
  BY DEF TreeInv, Stored
<1>7. \A p \in DOMAIN tree : p \in MenuPaths \cup TextPaths \cup Holes \cup Copies \cup SearchPaths
  BY <1>6 DEF KindFits
<1>8. Holes \subseteq HolePaths /\ Copies \subseteq {ArtifactPath}
  BY DEF Holes, Copies
<1>. QED
  BY <1>2, <1>3, <1>4, <1>5, <1>7, <1>8

-----------------------------------------------------------------------------
(* Sets that are listed.                                                    *)

LEMMA FiveAreFinite ==
    ASSUME NEW a, NEW b, NEW c, NEW d, NEW e
    PROVE  IsFiniteSet({a, b, c, d, e})
<1>1. IsFiniteSet({}) 
  BY FS_EmptySet
<1>2. IsFiniteSet({} \cup {a})
  BY <1>1, FS_AddElement
<1>3. IsFiniteSet(({} \cup {a}) \cup {b})
  BY <1>2, FS_AddElement
<1>4. IsFiniteSet((({} \cup {a}) \cup {b}) \cup {c})
  BY <1>3, FS_AddElement
<1>5. IsFiniteSet(((({} \cup {a}) \cup {b}) \cup {c}) \cup {d})
  BY <1>4, FS_AddElement
<1>6. IsFiniteSet((((({} \cup {a}) \cup {b}) \cup {c}) \cup {d}) \cup {e})
  BY <1>5, FS_AddElement
<1>7. (((({} \cup {a}) \cup {b}) \cup {c}) \cup {d}) \cup {e} = {a, b, c, d, e}
  OBVIOUS
<1>. QED
  BY <1>6, <1>7

LEMMA NodesAreFinite ==
    ASSUME TreeInv, Pages!Served
    PROVE  IsFiniteSet(DOMAIN tree)
<1>1. PICK s1 : s1 = {<<>>, <<"github">>, <<"github", "org">>, RepoPath, <<"github", "org", "repo", "releases">>}
  OBVIOUS
<1>2. PICK s2 : s2 = {<<"ncs">>, <<"ncs", "page">>, <<"files">>, <<"files", "repositories">>,
                      <<"files", "downloads">>}
  OBVIOUS
<1>3. PICK s3 : s3 = {<<"caps.txt">>, <<"robots.txt">>, <<"search.idx">>, <<"search.cgi">>, ArtifactPath}
  OBVIOUS
<1>4. IsFiniteSet(s1) /\ IsFiniteSet(s2) /\ IsFiniteSet(s3) /\ IsFiniteSet(TextPaths)
  BY <1>1, <1>2, <1>3, FiveAreFinite DEF TextPaths
<1>5. IsFiniteSet(s1 \cup s2) /\ IsFiniteSet(s3 \cup TextPaths)
  BY <1>4, FS_Union
<1>6. IsFiniteSet((s1 \cup s2) \cup (s3 \cup TextPaths))
  BY <1>5, FS_Union
<1>7. s1 \cup s2 = MenuPaths
  BY <1>1, <1>2, Zenon DEF MenuPaths
<1>8. s3 = HolePaths \cup SearchPaths \cup {ArtifactPath}
  BY <1>3, Zenon DEF HolePaths, SearchPaths
<1>9. DOMAIN tree \subseteq (s1 \cup s2) \cup (s3 \cup TextPaths)
  BY <1>7, <1>8, TreeIsWhole
<1>. QED
  BY <1>6, <1>9, FS_Subset

LEMMA ListedInOrder ==
    ASSUME NEW S, IsFiniteSet(S)
    PROVE  Pages!SetToSeq(S) \in Seq(S)
<1>1. Cardinality(S) \in Nat /\ ExistsBijection(1..Cardinality(S), S)
  BY FS_CardinalityType
<1>2. PICK f \in [1..Cardinality(S) -> S] :
         \A a, b \in DOMAIN f : f[a] = f[b] => a = b
  BY <1>1 DEF ExistsBijection, Bijection, Injection, IsInjective
<1>3. Pages!Cardinality(S) = Cardinality(S)
  BY DEF Pages!Cardinality, Cardinality
<1>4. Pages!IsInjective(f)
  BY <1>2 DEF Pages!IsInjective
<1>5. Pages!SetToSeq(S) = CHOOSE g \in [1..Cardinality(S) -> S] : Pages!IsInjective(g)
  BY <1>3 DEF Pages!SetToSeq
<1>6. Pages!SetToSeq(S) \in [1..Cardinality(S) -> S]
  BY <1>4, <1>5
<1>. QED
  BY <1>1, <1>6, SeqDef

-----------------------------------------------------------------------------
(* A menu that is read from its gophermap.                                  *)

LEMMA ParseAll ==
    ASSUME NEW items \in Seq(RightItems), NEW lines,
           lines = Pages!Each(Pages!Format, items)
    PROVE  /\ DOMAIN Pages!Parse(lines) = DOMAIN items
           /\ \A k \in DOMAIN items :
                 Pages!Parse(lines)[k] = Pages!ParseLine(Pages!Format(items[k]))
<1>1. PICK m \in Nat : DOMAIN items = 1..m
  OBVIOUS
<1>2. DOMAIN lines = 1..m /\ \A k \in 1..m : lines[k] = Pages!Format(items[k])
  BY <1>1 DEF Pages!Each
<1>3. \A k \in 1..m : RightItem(items[k])
  BY <1>1 DEF RightItems
<1>4. \A k \in 1..m : ~Pages!Comment(lines[k])
  BY <1>2, <1>3, LineOf DEF Pages!Comment
<1>5. PICK kept : kept = {k \in DOMAIN lines : ~Pages!Comment(lines[k])}
  OBVIOUS
<1>6. kept = 1..m
  BY <1>2, <1>4, <1>5
<1>7. \A k \in 1..m : {j \in kept : j <= k} = 1..k
  BY <1>6
<1>8. \A k \in Nat : Pages!Cardinality(1..k) = k
  <2>1. ASSUME NEW k \in Nat
        PROVE  Cardinality(1..k) = k
    <3>1. 1 \in Int /\ k \in Int
      OBVIOUS
    <3>2. Cardinality(1..k) = IF 1 > k THEN 0 ELSE k - 1 + 1
      BY <3>1, FS_Interval
    <3>. QED
      BY <3>2
  <2>2. \A k \in Nat : Pages!Cardinality(1..k) = Cardinality(1..k)
    BY DEF Pages!Cardinality, Cardinality
  <2>. QED
    BY <2>1, <2>2
<1>9. Pages!Cardinality(kept) = m
  BY <1>6, <1>8
<1>10. ASSUME NEW n \in 1..m
       PROVE  (CHOOSE k \in kept : Pages!Cardinality({j \in kept : j <= k}) = n) = n
  <2>1. \A k \in kept : Pages!Cardinality({j \in kept : j <= k}) = k
    <3>1. ASSUME NEW k \in kept
          PROVE  Pages!Cardinality({j \in kept : j <= k}) = k
      <4>1. {j \in kept : j <= k} = 1..k /\ k \in Nat
        BY <1>6, <1>7
      <4>. QED
        BY <4>1, <1>8
    <3>. QED
      BY <3>1
  <2>2. n \in kept
    BY <1>6
  <2>. QED
    BY <2>1, <2>2
<1>11. PICK Nth : Nth = [n \in 1..m |-> CHOOSE k \in kept : Pages!Cardinality({j \in kept : j <= k}) = n]
  OBVIOUS
<1>12. Pages!Parse(lines) = [n \in 1..m |-> Pages!ParseLine(lines[Nth[n]])]
  <2>1. Pages!Parse(lines) =
           [n \in 1..Pages!Cardinality(kept) |->
               Pages!ParseLine(lines[CHOOSE k \in kept : Pages!Cardinality({j \in kept : j <= k}) = n])]
    BY <1>5 DEF Pages!Parse
  <2>. QED
    BY <1>9, <1>11, <2>1
<1>13. \A n \in 1..m : Nth[n] = n
  BY <1>10, <1>11
<1>. QED
  BY <1>1, <1>2, <1>12, <1>13

-----------------------------------------------------------------------------
(* What the server answers.                                                 *)

LEMMA AnswersOf ==
    ASSUME NEW s, ~Pages!Downloads(s), ~Pages!Searches(s), NEW q, q = Pages!Resolve(s)
    PROVE  /\ q \in DOMAIN tree /\ tree[q].kind = "menu" =>
                 Pages!Answer(s) =
                    Pages!Reply("menu", Pages!Each(Pages!Wire, Pages!Parse(tree[q].lines)))
           /\ q \notin DOMAIN tree /\ Pages!IsDirectory(q) =>
                 Pages!Answer(s) =
                    Pages!Reply("menu", Pages!Each(Pages!Wire, Pages!Listing(s, q)))
           /\ q \in DOMAIN tree /\ tree[q].kind # "menu" /\ ~Pages!IsDirectory(q) =>
                 Pages!Answer(s) = Pages!Reply(tree[q].kind, <<>>)
           /\ q \notin DOMAIN tree /\ ~Pages!IsDirectory(q) =>
                 Pages!Answer(s) = Pages!Reply("not found", <<>>)
<1>1. PICK menu \in BOOLEAN : menu <=> q \in DOMAIN tree /\ tree[q].kind = "menu"
  OBVIOUS
<1>2. PICK items : items = CASE Pages!Searches(s) -> Pages!Results
                             [] menu -> Pages!Parse(tree[q].lines)
                             [] OTHER -> Pages!Listing(s, q)
  OBVIOUS
<1>3. Pages!Answer(s) =
         IF menu \/ Pages!IsDirectory(q) THEN Pages!Reply("menu", Pages!Each(Pages!Wire, items))
         ELSE IF q \in DOMAIN tree THEN Pages!Reply(tree[q].kind, <<>>)
         ELSE Pages!Reply("not found", <<>>)
  BY <1>1, <1>2 DEF Pages!Answer
<1>4. /\ menu => items = Pages!Parse(tree[q].lines)
      /\ ~menu => items = Pages!Listing(s, q)
  BY <1>2
<1>. QED
  BY <1>1, <1>3, <1>4

LEMMA SearchAnswer ==
    ASSUME NEW s, ~Pages!Downloads(s), Pages!Searches(s)
    PROVE  Pages!Answer(s) = Pages!Reply("menu", Pages!Each(Pages!Wire, Pages!Results))
<1>1. PICK items : items = CASE Pages!Searches(s) -> Pages!Results
                             [] ~Pages!Searches(s) /\ Pages!Resolve(s) \in DOMAIN tree
                                   /\ tree[Pages!Resolve(s)].kind = "menu"
                                -> Pages!Parse(tree[Pages!Resolve(s)].lines)
                             [] OTHER -> Pages!Listing(s, Pages!Resolve(s))
  OBVIOUS
<1>2. Pages!Answer(s) = Pages!Reply("menu", Pages!Each(Pages!Wire, items))
  BY <1>1 DEF Pages!Answer
<1>3. items = Pages!Results
  BY <1>1
<1>. QED
  BY <1>2, <1>3

LEMMA DownloadAnswer ==
    ASSUME NEW s, Pages!Downloads(s)
    PROVE  Pages!Answer(s) = Pages!Reply(IF proxyOn THEN "binary" ELSE "refused", <<>>)
BY DEF Pages!Answer

LEMMA ReplyOf ==
    ASSUME NEW k, NEW items
    PROVE  Pages!Reply(k, items).kind = k /\ Pages!Reply(k, items).items = items
BY DEF Pages!Reply

Promised(k, t) ==
    k \in {"menu", "text", "binary"} =>
        k = CASE t \in {"1", "7"} -> "menu" [] t = "0" -> "text" [] t = "9" -> "binary"

AsMeant(items, q) ==
    Pages!Each(Pages!Seen, items) =
        Pages!Each(LAMBDA it : Pages!Seen(Pages!Wire(it)), meant[q])

(* What the reader may count on. *)
GoodAnswer(s, t) ==
    /\ Pages!Answer(s).kind \in Pages!Kinds
    /\ \A k \in DOMAIN Pages!Answer(s).items : Shown(Pages!Answer(s).items[k])
    /\ Pages!Answer(s).kind = "menu" /\ ~Pages!Searches(s) /\ Pages!Resolve(s) \in DOMAIN meant =>
          AsMeant(Pages!Answer(s).items, Pages!Resolve(s))
    /\ Pages!Answer(s).kind = "not found" => prefix # <<>> /\ s = Pages!Proxied
    /\ Promised(Pages!Answer(s).kind, t)

LEMMA MenuIsGoodAnswer ==
    ASSUME NEW s, NEW t, t \in {"1", "7"}, NEW items, Pages!Answer(s) = Pages!Reply("menu", items),
           \A k \in DOMAIN items : Shown(items[k]),
           ~Pages!Searches(s) /\ Pages!Resolve(s) \in DOMAIN meant => AsMeant(items, Pages!Resolve(s))
    PROVE  GoodAnswer(s, t)
<1>1. Pages!Answer(s).kind = "menu" /\ Pages!Answer(s).items = items
  BY ReplyOf
<1>2. Promised("menu", t)
  BY DEF Promised
<1>3. "menu" \in Pages!Kinds
  BY DEF Pages!Kinds
<1>. QED
  BY <1>1, <1>2, <1>3 DEF GoodAnswer

LEMMA NoItems == DOMAIN <<>> = {}
OBVIOUS

FileMay(k, t, s) ==
    \/ t = "0" /\ k = "text"
    \/ t = "9" /\ k \in {"binary", "refused"}
    \/ k = "not found" /\ prefix # <<>> /\ s = Pages!Proxied

LEMMA FileIsGoodAnswer ==
    ASSUME NEW s, NEW t, NEW k, Pages!Answer(s) = Pages!Reply(k, <<>>), FileMay(k, t, s)
    PROVE  GoodAnswer(s, t)
<1>1. Pages!Answer(s).kind = k /\ Pages!Answer(s).items = <<>>
  <2>1. PICK a, none : a = Pages!Reply(k, none) /\ none = <<>> /\ a = Pages!Answer(s)
    OBVIOUS
  <2>2. a.kind = k /\ a.items = none
    BY <2>1, ReplyOf
  <2>. QED
    BY <2>1, <2>2
<1>2. Promised(k, t)
  BY DEF Promised, FileMay
<1>3. k \in Pages!Kinds /\ k # "menu" /\ (k = "not found" => prefix # <<>> /\ s = Pages!Proxied)
  BY DEF Pages!Kinds, FileMay
<1>4. DOMAIN Pages!Answer(s).items = {}
  BY <1>1, NoItems, Zenon
<1>. QED
  BY <1>1, <1>2, <1>3, <1>4 DEF GoodAnswer

LEMMA AllShown ==
    ASSUME NEW items \in Seq(RightItems)
    PROVE  \A k \in DOMAIN Pages!Each(Pages!Wire, items) : Shown(Pages!Each(Pages!Wire, items)[k])
<1>1. PICK wired : wired = Pages!Each(Pages!Wire, items)
  OBVIOUS
<1>2. DOMAIN wired = DOMAIN items /\ \A k \in DOMAIN items : wired[k] = Pages!Wire(items[k])
  BY <1>1 DEF Pages!Each
<1>3. \A k \in DOMAIN items : RightItem(items[k])
  <2>1. \A k \in DOMAIN items : items[k] \in RightItems
    OBVIOUS
  <2>. QED
    BY <2>1 DEF RightItems
<1>4. \A k \in DOMAIN items : Shown(wired[k])
  BY <1>2, <1>3, LineOf
<1>. QED
  BY <1>1, <1>2, <1>4

LEMMA MenuShown ==
    ASSUME NEW q \in DOMAIN meant, meant[q] \in Seq(RightItems),
           NEW lines, lines = Pages!Each(Pages!Format, meant[q]),
           NEW items, items = Pages!Each(Pages!Wire, Pages!Parse(lines))
    PROVE  AsMeant(items, q) /\ \A k \in DOMAIN items : Shown(items[k])
<1>1. PICK menu : menu = meant[q]
  OBVIOUS
<1>2. menu \in Seq(RightItems) /\ lines = Pages!Each(Pages!Format, menu)
  BY <1>1
<1>3. PICK parsed : parsed = Pages!Parse(lines)
  OBVIOUS
<1>4. /\ DOMAIN parsed = DOMAIN menu
      /\ \A k \in DOMAIN menu : parsed[k] = Pages!ParseLine(Pages!Format(menu[k]))
  BY <1>2, <1>3, ParseAll
<1>5. /\ DOMAIN items = DOMAIN menu
      /\ \A k \in DOMAIN menu : items[k] = Pages!Wire(parsed[k])
  BY <1>3, <1>4 DEF Pages!Each
<1>6. \A k \in DOMAIN menu : RightItem(menu[k])
  <2>1. \A k \in DOMAIN menu : menu[k] \in RightItems
    BY <1>2
  <2>. QED
    BY <2>1 DEF RightItems
<1>7. \A k \in DOMAIN menu :
         /\ Shown(items[k])
         /\ Pages!Seen(items[k]) = Pages!Seen(Pages!Wire(menu[k]))
  BY <1>4, <1>5, <1>6, LineOf
<1>8. PICK left : left = Pages!Each(Pages!Seen, items)
  OBVIOUS
<1>9. left = [k \in DOMAIN items |-> Pages!Seen(items[k])]
  BY <1>8 DEF Pages!Each
<1>10. PICK right : right = Pages!Each(LAMBDA it : Pages!Seen(Pages!Wire(it)), menu)
  OBVIOUS
<1>11. right = [k \in DOMAIN menu |-> Pages!Seen(Pages!Wire(menu[k]))]
  BY <1>10 DEF Pages!Each
<1>12. left = right
  BY <1>5, <1>7, <1>9, <1>11
<1>. QED
  BY <1>1, <1>5, <1>7, <1>8, <1>10, <1>12 DEF AsMeant

-----------------------------------------------------------------------------
(* The nodes of a tree that is served.                                      *)

LEMMA KindsDiffer ==
    /\ \A q \in MenuPaths \cup ListPaths :
          q \notin TextPaths \cup HolePaths \cup SearchPaths \cup {ArtifactPath}
    /\ \A q \in TextPaths \cup HolePaths : q \notin SearchPaths \cup {ArtifactPath}
    /\ \A q \in ListPaths : q \notin MenuPaths
<1>1. ASSUME NEW q, DirPath(q), LeafPath(q)
      PROVE  FALSE
  <2>1. q \in Path /\ Len(q) \in Nat /\ Len(q) # 0 /\ q[Len(q)] \in LeafNames
    BY <1>1, PathType DEF LeafPath
  <2>2. q[Len(q)] \in TreeNames
    BY <1>1, <2>1 DEF DirPath
  <2>. QED
    BY <2>1, <2>2 DEF TreeNames, LeafNames
<1>2. \A q \in MenuPaths \cup ListPaths :
          q \notin TextPaths \cup HolePaths \cup SearchPaths \cup {ArtifactPath}
  BY <1>1, DirsAreDirs, LeavesAreLeaves
<1>3. \A q \in TextPaths \cup HolePaths : q \notin SearchPaths \cup {ArtifactPath}
  <2>1. \A q \in TextPaths : q \notin SearchPaths
    BY DEF TextPaths, SearchPaths
  <2>2. \A q \in TextPaths : q # ArtifactPath
    BY DEF TextPaths, ArtifactPath
  <2>3. \A q \in HolePaths : q \notin SearchPaths /\ q # ArtifactPath
    BY DEF HolePaths, SearchPaths, ArtifactPath
  <2>. QED
    BY <2>1, <2>2, <2>3
<1>4. \A q \in ListPaths : q \notin MenuPaths
  BY DEF ListPaths, MenuPaths, RepoPath
<1>. QED
  BY <1>2, <1>3, <1>4

LEMMA KindOf ==
    ASSUME TreeInv, Pages!Served
    PROVE  /\ \A q \in MenuPaths : q \in DOMAIN tree /\ tree[q].kind = "menu"
           /\ \A q \in TextPaths \cup Holes :
                 /\ q \in DOMAIN tree /\ tree[q].kind = "text" /\ ~Pages!IsDirectory(q)
           /\ \A q \in Copies :
                 /\ q \in DOMAIN tree /\ tree[q].kind = "binary" /\ ~Pages!IsDirectory(q)
           /\ \A q \in Lists : q \notin DOMAIN tree /\ Pages!IsDirectory(q)
           /\ DOMAIN meant = DOMAIN tree
<1>1. /\ MenuPaths \cup TextPaths \cup Copies \cup Holes \subseteq DOMAIN tree
      /\ DOMAIN tree \subseteq MenuPaths \cup TextPaths \cup HolePaths \cup SearchPaths \cup {ArtifactPath}
  BY TreeIsWhole
<1>2. DOMAIN meant = DOMAIN tree /\ \A p \in DOMAIN tree : KindFits(p, tree[p].kind)
  BY DEF TreeInv, Stored
<1>3. Holes \subseteq HolePaths /\ Copies \subseteq {ArtifactPath} /\ Lists \subseteq ListPaths
  BY DEF Holes, Copies, Lists
<1>4. \A q \in MenuPaths : tree[q].kind = "menu"
  BY <1>1, <1>2, <1>3, KindsDiffer DEF KindFits
<1>5. \A q \in TextPaths \cup Holes : tree[q].kind = "text"
  BY <1>1, <1>2, <1>3, KindsDiffer DEF KindFits
<1>6. \A q \in Copies : tree[q].kind = "binary"
  BY <1>1, <1>2, <1>3, KindsDiffer DEF KindFits
<1>7. \A q \in TextPaths \cup Holes \cup Copies : ~Pages!IsDirectory(q)
  <2>1. \A q \in TextPaths \cup Holes \cup Copies : LeafPath(q)
    BY <1>3, LeavesAreLeaves
  <2>2. \A p \in DOMAIN tree : DirPath(p) \/ LeafPath(p)
    BY <1>1, DirsAreDirs, LeavesAreLeaves
  <2>. QED
    BY <2>1, <2>2, NothingBehind DEF Pages!IsDirectory
<1>8. \A q \in Lists : q \notin DOMAIN tree
  BY <1>1, <1>3, KindsDiffer
<1>9. ASSUME NEW q \in Lists
      PROVE  Pages!IsDirectory(q)
  <2>1. copied /\ q \in ListPaths
    BY DEF Lists
  <2>2. ArtifactPath \in DOMAIN tree
    BY <1>1, <2>1 DEF Copies
  <2>3. Pages!IsStrictPrefix(q, ArtifactPath)
    BY <2>1, BehindLists
  <2>. QED
    BY <2>2, <2>3 DEF Pages!IsDirectory
<1>. QED
  BY <1>1, <1>2, <1>4, <1>5, <1>6, <1>7, <1>8, <1>9

LEMMA NodesAreOwn ==
    ASSUME Config, NEW q \in MenuPaths \cup Lists \cup TextPaths \cup Holes \cup Copies,
           NEW s, Named(s, q)
    PROVE  /\ Own(q) /\ Pages!Resolve(s) = q
           /\ ~Pages!Downloads(s) /\ ~Pages!Searches(s)
<1>1. Holes \subseteq HolePaths /\ Copies \subseteq {ArtifactPath} /\ Lists \subseteq ListPaths
  BY DEF Holes, Copies, Lists
<1>2. q \in Path
  BY <1>1, NodesArePaths
<1>3. CASE q \in Holes
  <2>1. prefix = <<>> /\ q[1] \in {"caps.txt", "robots.txt"}
    BY <1>3, Tops DEF Holes
  <2>2. Own(q)
    BY <1>2, <2>1 DEF Own
  <2>3. q[1] \notin {"dl", "search", "search.cgi", "search.idx"}
    BY <2>1
  <2>. QED
    BY <2>2, <2>3, Resolves, NotMounted
<1>4. CASE q \in MenuPaths \cup Lists \cup TextPaths \cup Copies
  <2>1. q = <<>> \/ q[1] \in {"github", "ncs", "files", "about.txt"}
    BY <1>1, <1>4, Tops
  <2>2. Own(q)
    BY <1>2, <2>1 DEF Own, TopNames
  <2>3. q = <<>> \/ q[1] \notin {"dl", "search", "search.cgi", "search.idx"}
    BY <2>1
  <2>. QED
    BY <2>2, <2>3, Resolves, NotMounted
<1>. QED
  BY <1>3, <1>4

LEMMA MenusAnswer ==
    ASSUME TreeInv, Pages!Served, NEW q \in MenuPaths, NEW s, Named(s, q), NEW t, t = "1"
    PROVE  GoodAnswer(s, t)
<1>1. Config
  BY DEF TreeInv
<1>2. Pages!Resolve(s) = q /\ ~Pages!Downloads(s) /\ ~Pages!Searches(s)
  BY <1>1, NodesAreOwn
<1>3. q \in DOMAIN tree /\ tree[q].kind = "menu" /\ q \in DOMAIN meant
  BY KindOf
<1>4. PICK lines, items : /\ lines = tree[q].lines
                          /\ items = Pages!Each(Pages!Wire, Pages!Parse(lines))
  OBVIOUS
<1>5. Pages!Answer(s) = Pages!Reply("menu", items)
  BY <1>2, <1>3, <1>4, AnswersOf
<1>6. meant[q] \in Seq(RightItems) /\ lines = Pages!Each(Pages!Format, meant[q])
  BY <1>3, <1>4 DEF TreeInv, Stored
<1>7. AsMeant(items, q) /\ \A k \in DOMAIN items : Shown(items[k])
  BY <1>3, <1>4, <1>6, MenuShown
<1>8. t \in {"1", "7"}
  OBVIOUS
<1>. QED
  BY <1>2, <1>5, <1>7, <1>8, MenuIsGoodAnswer

(* A selector goes on below the one that was asked for. *)
LEMMA NamedBelow ==
    ASSUME Config, NEW q \in Path, NEW s, Named(s, q), NEW a \in Name, NEW slash \in BOOLEAN
    PROVE  /\ Named(Pages!Sel(s.path \o <<a>>, slash), q \o <<a>>)
           /\ Pages!Sel(s.path \o <<a>>, slash) \in Selector
<1>1. PICK u : u = <<a>>
  OBVIOUS
<1>2. u \in Path /\ prefix \in Path /\ s.path \in Path
  BY <1>1, Tuple1, PrefixFacts DEF Path, Named, Selector
<1>3. s.path \o u \in Path
  BY <1>2, Joined
<1>4. (prefix \o q) \o u = prefix \o (q \o u)
  BY <1>1, <1>2, FrontBehind
<1>5. s.path \o u = prefix \o (q \o u) \/ s.path \o u = q \o u
  BY <1>4 DEF Named
<1>6. PICK r : r = Pages!Sel(s.path \o u, slash)
  OBVIOUS
<1>7. r \in Selector /\ r.path = s.path \o u
  BY <1>3, <1>6 DEF Selector, Pages!Sel
<1>. QED
  BY <1>1, <1>5, <1>6, <1>7 DEF Named

LEMMA ListingOf ==
    ASSUME TreeInv, Pages!Served, NEW q \in Lists, NEW s, Named(s, q)
    PROVE  Pages!Listing(s, q) \in Seq(RightItems)
<1>1. Config /\ copied /\ q \in ListPaths /\ q \in Path
  BY NodesArePaths DEF TreeInv, Lists
<1>2. {p \in DOMAIN tree : Pages!IsStrictPrefix(q, p)} = {ArtifactPath}
  <2>1. DOMAIN tree \subseteq MenuPaths \cup TextPaths \cup HolePaths \cup SearchPaths \cup {ArtifactPath}
    BY TreeIsWhole
  <2>2. ArtifactPath \in DOMAIN tree
    BY <1>1, TreeIsWhole DEF Copies
  <2>3. \A p \in DOMAIN tree : Pages!IsStrictPrefix(q, p) <=> p = ArtifactPath
    BY <1>1, <2>1, BehindLists
  <2>. QED
    BY <2>2, <2>3
<1>3. PICK name : name = ArtifactPath[Len(q) + 1]
  OBVIOUS
<1>4. Pages!Entries(q) = {name}
  BY <1>2, <1>3 DEF Pages!Entries
<1>5. PICK item : item = Pages!Entry(s, q, name)
  OBVIOUS
<1>6. item \in RightItems
  <2>1. CASE q = <<"files", "artifacts">>
    <3>1. name = "win"
      <4>1. Len(q) = 2
        BY <2>1
      <4>. QED
        BY <1>3, <4>1 DEF ArtifactPath
    <3>2. q \o <<name>> = <<"files", "artifacts", "win">>
      BY <2>1, <3>1, PutTogether
    <3>3. <<"files", "artifacts", "win">> \in Lists
      BY <1>1 DEF Lists, ListPaths
    <3>4. PICK r, sel : r = q \o <<name>> /\ sel = Pages!Sel(s.path \o <<name>>, TRUE)
      OBVIOUS
    <3>5. r \in Lists /\ Pages!IsDirectory(r)
      BY <3>2, <3>3, <3>4, KindOf
    <3>6. item = Pages!Link("1", "words", sel)
      BY <1>5, <3>4, <3>5 DEF Pages!Entry
    <3>7. name \in Name
      BY <3>1, SomeNames DEF TreeNames
    <3>8. Named(sel, r) /\ sel \in Selector
      BY <1>1, <3>4, <3>7, NamedBelow
    <3>9. PICK t, d : t = "1" /\ d = "words"
      OBVIOUS
    <3>10. Leads(t, sel)
      BY <3>5, <3>8, <3>9 DEF Leads
    <3>11. t \in {"0", "1", "7", "9"} /\ d \in Written
      BY <3>9, SomeDisplays
    <3>12. Pages!Link(t, d, sel) \in RightItems
      BY <3>8, <3>10, <3>11, LinkIn
    <3>. QED
      BY <3>6, <3>9, <3>12
  <2>2. CASE q = <<"files", "artifacts", "win">>
    <3>1. name = "tool"
      <4>1. Len(q) = 3
        BY <2>2
      <4>. QED
        BY <1>3, <4>1 DEF ArtifactPath
    <3>2. q \o <<name>> = ArtifactPath
      BY <2>2, <3>1, PutTogether
    <3>3. ArtifactPath \in Copies
      BY <1>1 DEF Copies
    <3>4. PICK r, sel : r = q \o <<name>> /\ sel = Pages!Sel(s.path \o <<name>>, FALSE)
      OBVIOUS
    <3>5. r \in Copies /\ r \in DOMAIN tree /\ tree[r].kind = "binary" /\ ~Pages!IsDirectory(r)
      BY <3>2, <3>3, <3>4, KindOf
    <3>6. item = Pages!Link("9", "words", sel)
      <4>1. tree[r].kind # "menu" /\ tree[r].kind # "text"
        BY <3>5
      <4>. QED
        BY <1>5, <3>4, <3>5, <4>1 DEF Pages!Entry
    <3>7. name \in Name
      BY <3>1, SomeNames DEF LeafNames
    <3>8. Named(sel, r) /\ sel \in Selector
      BY <1>1, <3>4, <3>7, NamedBelow
    <3>9. PICK t, d : t = "9" /\ d = "words"
      OBVIOUS
    <3>10. Leads(t, sel)
      BY <3>5, <3>8, <3>9 DEF Leads
    <3>11. t \in {"0", "1", "7", "9"} /\ d \in Written
      BY <3>9, SomeDisplays
    <3>12. Pages!Link(t, d, sel) \in RightItems
      BY <3>8, <3>10, <3>11, LinkIn
    <3>. QED
      BY <3>6, <3>9, <3>12
  <2>. QED
    BY <1>1, <2>1, <2>2 DEF ListPaths
<1>7. PICK items : items = {Pages!Entry(s, q, n) : n \in Pages!Entries(q)}
  OBVIOUS
<1>8. items = {item}
  BY <1>4, <1>5, <1>7
<1>9. IsFiniteSet(items) /\ items \subseteq RightItems
  BY <1>6, <1>8, FS_Singleton
<1>10. Pages!SetToSeq(items) \in Seq(RightItems)
  <2>1. Pages!SetToSeq(items) \in Seq(items)
    BY <1>9, ListedInOrder
  <2>. QED
    BY <1>9, <2>1, SeqMonotonic
<1>11. <<Pages!Info("words"), Pages!Info("blank")>> \in Seq(RightItems)
  <2>1. Pages!Info("words") \in RightItems /\ Pages!Info("blank") \in RightItems
    BY InfoIn, SomeDisplays
  <2>. QED
    BY <2>1, Tuple2
<1>12. Pages!Listing(s, q) = <<Pages!Info("words"), Pages!Info("blank")>> \o Pages!SetToSeq(items)
  BY <1>7 DEF Pages!Listing
<1>. QED
  BY <1>10, <1>11, <1>12, Longer

LEMMA ListsAnswer ==
    ASSUME TreeInv, Pages!Served, NEW q \in Lists, NEW s, Named(s, q), NEW t, t = "1"
    PROVE  GoodAnswer(s, t)
<1>1. Config
  BY DEF TreeInv
<1>2. Pages!Resolve(s) = q /\ ~Pages!Downloads(s) /\ ~Pages!Searches(s)
  BY <1>1, NodesAreOwn
<1>3. q \notin DOMAIN tree /\ Pages!IsDirectory(q) /\ q \notin DOMAIN meant
  BY KindOf
<1>4. PICK listing, items : /\ listing = Pages!Listing(s, q)
                            /\ items = Pages!Each(Pages!Wire, listing)
  OBVIOUS
<1>5. Pages!Answer(s) = Pages!Reply("menu", items)
  BY <1>2, <1>3, <1>4, AnswersOf
<1>6. listing \in Seq(RightItems)
  BY <1>4, ListingOf
<1>7. \A k \in DOMAIN items : Shown(items[k])
  BY <1>4, <1>6, AllShown
<1>8. t \in {"1", "7"}
  OBVIOUS
<1>. QED
  BY <1>2, <1>3, <1>5, <1>7, <1>8, MenuIsGoodAnswer

FileLink(t, q) ==
    \/ t = "0" /\ q \in TextPaths \cup Holes
    \/ t = "9" /\ q \in Copies

LEMMA FilesAnswer ==
    ASSUME TreeInv, Pages!Served, NEW q, NEW s, Named(s, q), NEW t,
           FileLink(t, q)
    PROVE  GoodAnswer(s, t)
<1>1. Config
  BY DEF TreeInv
<1>2. q \in TextPaths \cup Holes \cup Copies
  BY DEF FileLink
<1>3. Pages!Resolve(s) = q /\ ~Pages!Downloads(s) /\ ~Pages!Searches(s)
  BY <1>1, <1>2, NodesAreOwn
<1>4. PICK k : k = tree[q].kind
  OBVIOUS
<1>0. (t = "0" /\ q \in TextPaths \cup Holes) \/ (t = "9" /\ q \in Copies)
  BY DEF FileLink
<1>5. /\ q \in DOMAIN tree /\ ~Pages!IsDirectory(q)
      /\ k \in {"text", "binary"} /\ (t = "0" => k = "text") /\ (t = "9" => k = "binary")
  <2>1. CASE q \in TextPaths \cup Holes
    <3>1. q \notin Copies
      BY <2>1, KindsDiffer DEF Holes, Copies
    <3>. QED
      BY <1>0, <1>4, <2>1, <3>1, KindOf
  <2>2. CASE q \in Copies
    <3>1. q \notin TextPaths \cup Holes
      BY <2>2, KindsDiffer DEF Holes, Copies
    <3>. QED
      BY <1>0, <1>4, <2>2, <3>1, KindOf
  <2>. QED
    BY <1>2, <2>1, <2>2
<1>6. Pages!Answer(s) = Pages!Reply(k, <<>>)
  <2>1. tree[q].kind # "menu"
    BY <1>4, <1>5
  <2>. QED
    BY <1>3, <1>4, <1>5, <2>1, AnswersOf
<1>7. FileMay(k, t, s)
  BY <1>0, <1>5 DEF FileMay
<1>. QED
  BY <1>6, <1>7, FileIsGoodAnswer

LEMMA SearchAnswers ==
    ASSUME TreeInv, Pages!Served, NEW t, t = "7"
    PROVE  GoodAnswer(SearchSel, t)
<1>1. Config /\ Stored(tree, meant)
  BY DEF TreeInv
<1>2. ~Pages!Downloads(SearchSel) /\ Pages!Searches(SearchSel)
  BY <1>1, SearchIsMounted
<1>3. PICK texts : texts = {p \in DOMAIN tree : tree[p].kind = "text"}
  OBVIOUS
<1>4. PICK link : link = [p \in texts |-> Pages!Link("0", "words", Pages!Sel(p, FALSE))]
  OBVIOUS
<1>5. PICK links : links = {Pages!Link("0", "words", Pages!Sel(p, FALSE)) : p \in texts}
  OBVIOUS
<1>6. IsFiniteSet(links)
  <2>1. IsFiniteSet(DOMAIN tree)
    BY NodesAreFinite
  <2>2. IsFiniteSet(texts)
    BY <1>3, <2>1, FS_Subset
  <2>3. link \in Surjection(texts, links)
    BY <1>4, <1>5 DEF Surjection
  <2>. QED
    BY <2>2, <2>3, FS_Surjection
<1>7. links \subseteq RightItems
  <2>1. ASSUME NEW p \in texts
        PROVE  Pages!Link("0", "words", Pages!Sel(p, FALSE)) \in RightItems
    <3>1. p \in TextPaths \cup Holes
      BY <1>1, <1>3 DEF Stored, KindFits
    <3>2. p \in Path
      BY <3>1, NodesArePaths DEF Holes
    <3>3. PICK sel : sel = Pages!Sel(p, FALSE)
      OBVIOUS
    <3>4. Named(sel, p) /\ sel \in Selector
      BY <3>2, <3>3, BareOf
    <3>5. PICK u, d : u = "0" /\ d = "words"
      OBVIOUS
    <3>6. Leads(u, sel)
      BY <3>1, <3>4, <3>5 DEF Leads
    <3>7. u \in {"0", "1", "7", "9"} /\ d \in Written
      BY <3>5, SomeDisplays
    <3>8. Pages!Link(u, d, sel) \in RightItems
      BY <3>4, <3>6, <3>7, LinkIn
    <3>. QED
      BY <3>3, <3>5, <3>8
  <2>. QED
    BY <1>5, <2>1
<1>8. Pages!SetToSeq(links) \in Seq(RightItems)
  <2>1. Pages!SetToSeq(links) \in Seq(links)
    BY <1>6, ListedInOrder
  <2>. QED
    BY <1>7, <2>1, SeqMonotonic
<1>9. /\ <<Pages!Info("words")>> \in Seq(RightItems)
      /\ <<Pages!Link("1", "Back to top", Pages!Top)>> \in Seq(RightItems)
  <2>1. Pages!Info("words") \in RightItems
    BY InfoIn, SomeDisplays
  <2>2. Pages!Link("1", "Back to top", Pages!Top) \in RightItems
    BY <1>1, TopLink
  <2>. QED
    BY <2>1, <2>2, Tuple1
<1>10. Pages!Results = <<Pages!Info("words")>> \o Pages!SetToSeq(links)
                         \o <<Pages!Link("1", "Back to top", Pages!Top)>>
  BY <1>3, <1>5 DEF Pages!Results
<1>11. <<Pages!Info("words")>> \o Pages!SetToSeq(links) \in Seq(RightItems)
  BY <1>8, <1>9, Longer
<1>12. Pages!Results \in Seq(RightItems)
  BY <1>9, <1>10, <1>11, Longer
<1>13. PICK results, items : results = Pages!Results /\ items = Pages!Each(Pages!Wire, results)
  OBVIOUS
<1>14. \A k \in DOMAIN items : Shown(items[k])
  BY <1>12, <1>13, AllShown
<1>15. Pages!Answer(SearchSel) = Pages!Reply("menu", items)
  BY <1>2, <1>13, SearchAnswer
<1>16. t \in {"1", "7"}
  OBVIOUS
<1>. QED
  BY <1>2, <1>14, <1>15, <1>16, MenuIsGoodAnswer

LEMMA ProxiedAnswers ==
    ASSUME TreeInv, Pages!Served, NEW t, t = "9"
    PROVE  /\ GoodAnswer(Pages!Proxied, t)
           /\ prefix # <<>> => Pages!Answer(Pages!Proxied).kind = "not found"
<1>1. Config
  BY DEF TreeInv
<1>2. CASE prefix = <<>>
  <2>1. Pages!Downloads(Pages!Proxied)
    BY <1>1, <1>2, ProxiedIsMounted
  <2>2. PICK k : k = IF proxyOn THEN "binary" ELSE "refused"
    OBVIOUS
  <2>3. Pages!Answer(Pages!Proxied) = Pages!Reply(k, <<>>)
    BY <2>1, <2>2, DownloadAnswer
  <2>4. k \in {"binary", "refused"}
    BY <2>2
  <2>5. FileMay(k, t, Pages!Proxied)
    BY <2>4 DEF FileMay
  <2>6. GoodAnswer(Pages!Proxied, t)
    BY <2>3, <2>5, FileIsGoodAnswer
  <2>. QED
    BY <1>2, <2>6
<1>3. CASE prefix # <<>>
  <2>1. /\ ~Pages!Downloads(Pages!Proxied) /\ ~Pages!Searches(Pages!Proxied)
        /\ Pages!Resolve(Pages!Proxied) = ProxiedPath
    BY <1>1, <1>3, ProxiedIsNotMounted
  <2>2. \A p \in DOMAIN tree : p \in Path /\ (p = <<>> \/ p[1] # "dl")
    <3>1. DOMAIN tree \subseteq MenuPaths \cup TextPaths \cup HolePaths \cup SearchPaths \cup {ArtifactPath}
      BY TreeIsWhole
    <3>2. \A p \in DOMAIN tree : p \in Path
      BY <3>1, NodesArePaths
    <3>3. \A p \in DOMAIN tree : p = <<>> \/ p[1] # "dl"
      BY <3>1, Tops
    <3>. QED
      BY <3>2, <3>3
  <2>3. PICK r : r = ProxiedPath
    OBVIOUS
  <2>4. r \in Path /\ Len(r) = 3 /\ r[1] = "dl"
    BY <2>3, ProxiedType
  <2>5. ASSUME NEW p \in DOMAIN tree, Pages!IsPrefix(r, p)
        PROVE  FALSE
    <3>1. Len(r) <= Len(p) /\ \A i \in 1..Len(r) : r[i] = p[i]
      BY <2>2, <2>4, <2>5, Begun
    <3>2. Len(p) >= 1 /\ p[1] = "dl"
      <4>1. Len(p) \in Nat
        BY <2>2, PathType
      <4>. QED
        BY <2>4, <3>1, <4>1
    <3>3. p # <<>>
      BY <2>2, <3>2, PathType
    <3>. QED
      BY <2>2, <3>2, <3>3
  <2>6. Pages!IsPrefix(r, r)
    BY <2>4, Begun
  <2>7. r \notin DOMAIN tree /\ ~Pages!IsDirectory(r)
    BY <2>5, <2>6 DEF Pages!IsDirectory, Pages!IsStrictPrefix
  <2>8. PICK k : k = "not found"
    OBVIOUS
  <2>9. Pages!Answer(Pages!Proxied) = Pages!Reply(k, <<>>)
    BY <2>1, <2>3, <2>7, <2>8, AnswersOf
  <2>10. FileMay(k, t, Pages!Proxied)
    BY <1>3, <2>8 DEF FileMay
  <2>11. GoodAnswer(Pages!Proxied, t)
    BY <2>9, <2>10, FileIsGoodAnswer
  <2>12. Pages!Answer(Pages!Proxied).kind = k
    BY <2>9 DEF Pages!Reply
  <2>. QED
    BY <2>8, <2>11, <2>12
<1>. QED
  BY <1>2, <1>3

(* Every link of a tree that is served is answered as it should be. *)
LEMMA LinksAreAnswered ==
    ASSUME TreeInv, Pages!Served, NEW s, NEW t, Leads(t, s)
    PROVE  GoodAnswer(s, t)
<1>1. CASE \E q \in MenuPaths \cup Lists : Named(s, q) /\ t = "1"
  BY <1>1, MenusAnswer, ListsAnswer
<1>2. CASE \E q \in TextPaths \cup Holes : Named(s, q) /\ t = "0"
  <2>1. PICK q : q \in TextPaths \cup Holes /\ Named(s, q) /\ t = "0"
    BY <1>2
  <2>2. FileLink(t, q)
    BY <2>1 DEF FileLink
  <2>. QED
    BY <2>1, <2>2, FilesAnswer
<1>3. CASE \E q \in Copies : Named(s, q) /\ t = "9"
  <2>1. PICK q : q \in Copies /\ Named(s, q) /\ t = "9"
    BY <1>3
  <2>2. FileLink(t, q)
    BY <2>1 DEF FileLink
  <2>. QED
    BY <2>1, <2>2, FilesAnswer
<1>4. CASE t = "7" /\ s = SearchSel
  BY <1>4, SearchAnswers
<1>5. CASE t = "9" /\ s = Pages!Proxied
  BY <1>5, ProxiedAnswers
<1>. QED
  BY <1>1, <1>2, <1>3, <1>4, <1>5 DEF Leads

LEMMA SelPath ==
    ASSUME NEW p, NEW slash
    PROVE  Pages!Sel(p, slash).path = p
BY DEF Pages!Sel

(* The directory that holds a node is a menu or a listing. *)
LEMMA HeldByDirectory ==
    ASSUME Config, NEW q \in MenuPaths \cup Lists \cup TextPaths \cup Holes \cup Copies, q # <<>>
    PROVE  \E d, a : d \in MenuPaths \cup Lists /\ d \in Path /\ a \in Name /\ q = d \o <<a>>
<1>1. Holes \subseteq HolePaths /\ Copies \subseteq {ArtifactPath} /\ Lists \subseteq ListPaths
  BY DEF Holes, Copies, Lists
<1>2. q \in MenuPaths \cup ListPaths \cup TextPaths \cup HolePaths \cup {ArtifactPath}
  BY <1>1
<1>3. PICK d, a : /\ d \in MenuPaths \/ (q \in ListPaths \cup {ArtifactPath} /\ d \in ListPaths)
                  /\ a \in Name /\ q = d \o <<a>>
  BY <1>2, Holds
<1>4. d \in Path
  BY <1>3, NodesArePaths
<1>5. ASSUME d \notin MenuPaths
      PROVE  d \in Lists
  <2>1. q \in ListPaths \cup {ArtifactPath} /\ d \in ListPaths
    BY <1>3, <1>5
  <2>2. q \notin MenuPaths \cup TextPaths \cup HolePaths
    BY <2>1, KindsDiffer
  <2>3. q \in Lists \cup Copies
    BY <1>1, <2>2
  <2>4. copied
    BY <2>3 DEF Lists, Copies
  <2>. QED
    BY <2>1, <2>4 DEF Lists
<1>. QED
  BY <1>3, <1>4, <1>5

LEMMA UpFromNode ==
    ASSUME Config, NEW q \in MenuPaths \cup Lists \cup TextPaths \cup Holes \cup Copies,
           NEW s, Named(s, q), Len(s.path) > Len(prefix),
           NEW above, above = Pages!Sel(Pages!Front(s.path), TRUE)
    PROVE  \E d \in MenuPaths \cup Lists : Named(above, d)
<1>1. prefix \in Path /\ Len(prefix) \in Nat
  BY PrefixFacts
<1>2. q # <<>>
  <2>1. SUFFICES ASSUME q = <<>>
                 PROVE  FALSE
    OBVIOUS
  <2>2. prefix \o q = prefix /\ Len(<<>>) = 0
    BY <1>1, <2>1, ConcatEmptySeq, EmptySeq DEF Path
  <2>3. s.path = prefix \/ s.path = <<>>
    BY <2>1, <2>2 DEF Named
  <2>. QED
    BY <1>1, <2>2, <2>3
<1>3. PICK d, a : d \in MenuPaths \cup Lists /\ d \in Path /\ a \in Name /\ q = d \o <<a>>
  BY <1>2, HeldByDirectory
<1>4. Pages!Front(prefix \o q) = prefix \o d /\ Pages!Front(q) = d
  BY <1>1, <1>3, FrontOf, FrontBehind
<1>5. PICK front : front = Pages!Front(s.path)
  OBVIOUS
<1>6. front = prefix \o d \/ front = d
  BY <1>4, <1>5 DEF Named
<1>7. prefix \o d \in Path
  BY <1>1, <1>3, Joined
<1>8. above = Pages!Sel(front, TRUE)
  BY <1>5
<1>9. above.path = front /\ above \in Selector
  <2>1. front \in Path
    BY <1>3, <1>6, <1>7
  <2>. QED
    BY <1>8, <2>1, BareOf, SelPath
<1>10. Named(above, d)
  BY <1>6, <1>9 DEF Named
<1>. QED
  BY <1>3, <1>10

LEMMA UpLeads ==
    ASSUME TreeInv, Pages!Served, NEW s, NEW t, Leads(t, s), ~Pages!Downloads(s),
           Pages!Answer(s).kind # "not found", Len(s.path) > Len(prefix),
           NEW above, above = Pages!Sel(Pages!Front(s.path), TRUE), NEW one, one = "1"
    PROVE  Leads(one, above)
<1>1. Config
  BY DEF TreeInv
<1>2. ASSUME \E d \in MenuPaths \cup Lists : Named(above, d)
      PROVE  Leads(one, above)
  BY <1>2 DEF Leads
<1>3. CASE \E q \in MenuPaths \cup Lists \cup TextPaths \cup Holes \cup Copies : Named(s, q)
  BY <1>1, <1>2, <1>3, UpFromNode
<1>4. CASE s = SearchSel
  <2>1. PICK n : n = Pages!SearchName
    OBVIOUS
  <2>2. s.path = prefix \o <<n>>
    BY <1>1, <1>4, <2>1, SearchIsMounted
  <2>3. n \in Name
    <3>1. n \in {"search", "search.cgi"}
      BY <2>1 DEF Pages!SearchName
    <3>. QED
      BY <3>1, SomeNames DEF LeafNames
  <2>4. prefix \in Path
    BY <1>1, PrefixFacts
  <2>5. Pages!Front(s.path) = prefix
    BY <2>2, <2>3, <2>4, FrontOf
  <2>6. PICK d : d = <<>>
    OBVIOUS
  <2>7. prefix \o d = prefix /\ d \in MenuPaths
    BY <2>4, <2>6, ConcatEmptySeq DEF Path, MenuPaths
  <2>8. above = Pages!Sel(prefix, TRUE)
    BY <2>5
  <2>9. above.path = prefix /\ above \in Selector
    BY <2>4, <2>8, BareOf, SelPath
  <2>10. Named(above, d)
    BY <2>7, <2>9 DEF Named
  <2>. QED
    BY <1>2, <2>7, <2>10
<1>5. CASE s = Pages!Proxied
  <2>1. prefix # <<>>
    BY <1>1, <1>5, ProxiedIsMounted
  <2>2. Pages!Answer(Pages!Proxied).kind = "not found"
    <3>1. PICK u : u = "9"
      OBVIOUS
    <3>. QED
      BY <2>1, <3>1, ProxiedAnswers
  <2>. QED
    BY <1>5, <2>2
<1>6. \/ \E q \in MenuPaths \cup Lists \cup TextPaths \cup Holes \cup Copies : Named(s, q)
      \/ s = SearchSel \/ s = Pages!Proxied
  BY DEF Leads
<1>. QED
  BY <1>3, <1>4, <1>5, <1>6

(* The reader has no reply yet, or one that a right link led to. *)
ScreenInv ==
    \/ screen = Pages!NoReply
    \/ /\ Pages!Served
       /\ Leads(screen.followed.type, screen.at)
       /\ screen.kind = Pages!Answer(screen.at).kind
       /\ screen.items = Pages!Answer(screen.at).items

LEMMA AnswerStays ==
    ASSUME UNCHANGED <<prefix, cgi, copied, proxyOn, tree>>
    PROVE  \A s : Pages!Answer(s)' = Pages!Answer(s)
<1>1. \A p : Pages!IsDirectory(p)' <=> Pages!IsDirectory(p)
  BY DEF Pages!IsDirectory
<1>2. \A p : Pages!Entries(p)' = Pages!Entries(p)
  BY DEF Pages!Entries
<1>3. \A s, p, n : Pages!Entry(s, p, n)' = Pages!Entry(s, p, n)
  BY <1>1 DEF Pages!Entry
<1>4. \A s, p : Pages!Listing(s, p)' = Pages!Listing(s, p)
  BY <1>2, <1>3 DEF Pages!Listing
<1>5. Pages!Results' = Pages!Results
  BY DEF Pages!Results
<1>6. \A s : Pages!Resolve(s)' = Pages!Resolve(s)
  BY DEF Pages!Resolve, Pages!StripsFrom, Pages!Below
<1>7. \A s : (Pages!Downloads(s)' <=> Pages!Downloads(s)) /\ (Pages!Searches(s)' <=> Pages!Searches(s))
  BY DEF Pages!Downloads, Pages!Searches, Pages!SearchName
<1>. QED
  BY <1>1, <1>4, <1>5, <1>6, <1>7 DEF Pages!Answer

LEMMA AskKeeps ==
    ASSUME NEW s, NEW it, Leads(it.type, s), Pages!Ask(s, it)
    PROVE  ScreenInv'
<1>1. /\ Pages!Served /\ UNCHANGED <<prefix, cgi, copied, proxyOn>> /\ tree' = tree /\ part' = part
      /\ screen' = [kind |-> Pages!Answer(s).kind, items |-> Pages!Answer(s).items,
                    followed |-> it, at |-> s]
  BY DEF Pages!Ask, Pages!config
<1>2. PICK new, answer : new = screen' /\ answer = Pages!Answer(s)
  OBVIOUS
<1>3. new.kind = answer.kind /\ new.items = answer.items /\ new.followed = it /\ new.at = s
  BY <1>1, <1>2
<1>4. \A r : Pages!Answer(r)' = Pages!Answer(r)
  BY <1>1, AnswerStays
<1>5. \A t, r : Leads(t, r)' <=> Leads(t, r)
  BY <1>1, ConfigStays
<1>6. Pages!Served'
  BY <1>1 DEF Pages!Served
<1>7. Leads(new.followed.type, new.at)'
  BY <1>2, <1>3, <1>5
<1>8. new.kind = (Pages!Answer(new.at).kind)' /\ new.items = (Pages!Answer(new.at).items)'
  BY <1>2, <1>3, <1>4
<1>. QED
  BY <1>2, <1>6, <1>7, <1>8 DEF ScreenInv

LEMMA TreeRests ==
    ASSUME TreeInv, UNCHANGED <<prefix, cgi, copied, proxyOn>>, tree' = tree, meant' = meant, part' = part
    PROVE  TreeInv'
<1>1. Config'
  BY ConfigStays DEF TreeInv
<1>2. Stored(tree', meant')
  BY DEF TreeInv
<1>3. Stored(tree, meant)'
  BY <1>2, StoredStays
<1>4. Holes' = Holes /\ Copies' = Copies
  BY ConfigStays
<1>. QED
  BY <1>1, <1>3, <1>4 DEF TreeInv, GitHubPaths, NcsPaths, FilesPaths, RootPaths

(* What the reader sees is a good answer. *)
LEMMA ScreenIsGood ==
    ASSUME TreeInv, ScreenInv, screen # Pages!NoReply
    PROVE  /\ Pages!Served /\ Leads(screen.followed.type, screen.at)
           /\ screen.kind = Pages!Answer(screen.at).kind
           /\ screen.items = Pages!Answer(screen.at).items
           /\ GoodAnswer(screen.at, screen.followed.type)
BY LinksAreAnswered DEF ScreenInv

LEMMA LinkType ==
    ASSUME NEW t, NEW d, NEW s
    PROVE  Pages!Link(t, d, s).type = t
BY DEF Pages!Link, Pages!Item

LEMMA NoReplyIs == /\ Pages!NoReply.kind = "none" /\ DOMAIN Pages!NoReply.items = {}
<1>1. PICK none : none = <<>>
  OBVIOUS
<1>2. Pages!NoReply = [kind |-> "none", items |-> none, followed |-> Pages!Info("blank"),
                       at |-> Pages!Empty]
  BY <1>1 DEF Pages!NoReply
<1>3. Pages!NoReply.items = none /\ Pages!NoReply.kind = "none"
  BY <1>2
<1>4. DOMAIN none = {}
  BY <1>1, NoItems, Zenon
<1>. QED
  BY <1>3, <1>4

LEMMA ReaderKeeps ==
    ASSUME TreeInv, ScreenInv, Pages!Next
    PROVE  TreeInv' /\ ScreenInv'
<1>1. Config
  BY DEF TreeInv
<1>2. CASE Pages!Ingest
  <2>1. TreeInv'
    BY <1>2, TreeGrows
  <2>2. ~Pages!Served /\ screen' = screen
    BY <1>2 DEF Pages!Ingest, Pages!Served, TreeInv, Pages!Parts
  <2>3. screen = Pages!NoReply
    BY <2>2 DEF ScreenInv
  <2>. QED
    BY <2>1, <2>2, <2>3 DEF ScreenInv, Pages!NoReply, Pages!Info, Pages!Item, Pages!Sel, Pages!Empty
<1>3. ASSUME NEW s, NEW it, Leads(it.type, s), Pages!Ask(s, it)
      PROVE  TreeInv' /\ ScreenInv'
  <2>1. ScreenInv'
    BY <1>3, AskKeeps
  <2>2. UNCHANGED <<prefix, cgi, copied, proxyOn>> /\ tree' = tree /\ meant' = meant /\ part' = part
    BY <1>3 DEF Pages!Ask, Pages!config
  <2>. QED
    BY <2>1, <2>2, TreeRests
<1>4. ASSUME NEW s, Leads("1", s), Pages!Ask(s, Pages!Link("1", "words", s))
      PROVE  TreeInv' /\ ScreenInv'
  <2>1. PICK it : it = Pages!Link("1", "words", s)
    OBVIOUS
  <2>2. it.type = "1"
    BY <2>1, LinkType
  <2>3. Leads(it.type, s) /\ Pages!Ask(s, it)
    BY <1>4, <2>1, <2>2
  <2>. QED
    BY <1>3, <2>3
<1>5. CASE Pages!Open
  <2>1. PICK s \in {Pages!Top, Pages!Sel(prefix, FALSE), Pages!Sel(prefix, TRUE)} :
           Pages!Ask(s, Pages!Link("1", "words", s))
    BY <1>5 DEF Pages!Open
  <2>2. PICK one, top : one = "1" /\ top = <<>>
    OBVIOUS
  <2>3. top \in Path /\ top \in MenuPaths /\ prefix \in Path /\ prefix \o top = prefix
    <3>1. prefix \in Path
      BY <1>1, PrefixFacts
    <3>. QED
      BY <2>2, <3>1, EmptySeq, ConcatEmptySeq DEF Path, MenuPaths
  <2>4. CASE s = Pages!Top
    <3>1. Leads("1", s)
      BY <1>1, <2>4, TopLink
    <3>. QED
      BY <1>4, <2>1, <3>1
  <2>5. CASE s \in {Pages!Sel(prefix, FALSE), Pages!Sel(prefix, TRUE)}
    <3>1. s.path = prefix /\ s \in Selector
      BY <2>3, <2>5, SelPath, BareOf
    <3>2. Named(s, top)
      BY <2>3, <3>1 DEF Named
    <3>3. Leads(one, s)
      BY <2>2, <2>3, <3>2 DEF Leads
    <3>. QED
      BY <1>4, <2>1, <2>2, <3>3
  <2>. QED
    BY <2>1, <2>4, <2>5
<1>6. CASE Pages!Follow
  <2>1. PICK k \in DOMAIN screen.items :
           /\ screen.items[k].host = Pages!Here
           /\ Pages!Ask(screen.items[k].sel, screen.items[k])
    BY <1>6 DEF Pages!Follow
  <2>2. screen # Pages!NoReply
    BY <2>1, NoReplyIs
  <2>3. Shown(screen.items[k])
    BY <2>1, <2>2, ScreenIsGood DEF GoodAnswer
  <2>4. Leads(screen.items[k].type, screen.items[k].sel)
    BY <2>1, <2>3 DEF Shown
  <2>. QED
    BY <1>3, <2>1, <2>4
<1>7. CASE Pages!Up
  <2>1. PICK s, above : s = screen.at /\ above = Pages!Sel(Pages!Front(s.path), TRUE)
    OBVIOUS
  <2>2. /\ screen.kind \in {"menu", "text", "binary"} /\ ~Pages!Downloads(s)
        /\ Len(s.path) > Len(prefix) /\ Pages!Ask(above, Pages!Link("1", "words", above))
    BY <1>7, <2>1 DEF Pages!Up
  <2>3. screen # Pages!NoReply /\ screen.kind # "not found"
    BY <2>2, NoReplyIs
  <2>4. PICK t : t = screen.followed.type
    OBVIOUS
  <2>5. Pages!Served /\ Leads(t, s) /\ Pages!Answer(s).kind # "not found"
    BY <2>1, <2>3, <2>4, ScreenIsGood
  <2>6. PICK one : one = "1"
    OBVIOUS
  <2>7. Leads(one, above)
    BY <2>1, <2>2, <2>5, <2>6, UpLeads
  <2>. QED
    BY <1>4, <2>2, <2>6, <2>7
<1>. QED
  BY <1>2, <1>5, <1>6, <1>7 DEF Pages!Next

(* What a reader finds follows from the tree and the screen. *)
LEMMA FindsAll ==
    ASSUME TreeInv, ScreenInv
    PROVE  ReaderFindsAll
<1>1. /\ Config /\ part \in 1..6 /\ DOMAIN meant = DOMAIN tree
      /\ \A p \in DOMAIN tree : KindFits(p, tree[p].kind)
  BY DEF TreeInv, Stored
<1>2. ASSUME screen # Pages!NoReply
      PROVE  /\ screen.kind = Pages!Answer(screen.at).kind
             /\ screen.items = Pages!Answer(screen.at).items
             /\ GoodAnswer(screen.at, screen.followed.type)
  BY <1>2, ScreenIsGood
<1>3. Pages!TypeOK
  <2>1. prefix \in SelectorPrefixes /\ part \in 1..Len(Pages!Parts) + 1
    BY <1>1 DEF Config, Pages!Parts
  <2>2. \A p \in DOMAIN tree : tree[p].kind \in {"menu", "text", "binary"}
    BY <1>1 DEF KindFits
  <2>3. screen.kind \in Pages!Kinds
    <3>1. CASE screen = Pages!NoReply
      BY <3>1, NoReplyIs DEF Pages!Kinds
    <3>2. CASE screen # Pages!NoReply
      BY <1>2, <3>2 DEF GoodAnswer
    <3>. QED
      BY <3>1, <3>2
  <2>4. \A k \in DOMAIN screen.items : screen.items[k].display \in Pages!Displays
    <3>1. CASE screen = Pages!NoReply
      BY <3>1, NoReplyIs
    <3>2. CASE screen # Pages!NoReply
      BY <1>2, <3>2 DEF GoodAnswer, Shown
    <3>. QED
      BY <3>1, <3>2
  <2>. QED
    BY <1>1, <2>1, <2>2, <2>3, <2>4 DEF Pages!TypeOK
<1>4. Pages!SelfContained
  <2>1. ASSUME NEW p \in DOMAIN tree
        PROVE  \/ p = <<>> \/ p[1] \in Pages!OwnNames
               \/ prefix = <<>> /\ p[1] \in Pages!HoleNames
    <3>1. p \in MenuPaths \cup TextPaths \cup Holes \cup Copies \cup SearchPaths
      BY <1>1 DEF KindFits
    <3>2. CASE p \in Holes
      <4>1. prefix = <<>> /\ p \in HolePaths
        BY <3>2 DEF Holes
      <4>. QED
        BY <4>1, Tops DEF Pages!HoleNames
    <3>3. CASE p \in MenuPaths \cup TextPaths \cup Copies \cup SearchPaths
      <4>1. p = <<>> \/ p[1] \in {"github", "ncs", "files", "about.txt", "search.idx", "search.cgi"}
        BY <3>3, Tops DEF Copies
      <4>. QED
        BY <4>1 DEF Pages!OwnNames
    <3>. QED
      BY <3>1, <3>2, <3>3
  <2>. QED
    BY <2>1 DEF Pages!SelfContained
<1>5. Pages!MenusAsMeant
  <2>1. ASSUME screen.kind = "menu", ~Pages!Searches(screen.at),
               Pages!Resolve(screen.at) \in DOMAIN meant
        PROVE  AsMeant(screen.items, Pages!Resolve(screen.at))
    <3>1. screen # Pages!NoReply
      BY <2>1, NoReplyIs
    <3>. QED
      BY <1>2, <2>1, <3>1 DEF GoodAnswer
  <2>. QED
    BY <2>1 DEF Pages!MenusAsMeant, AsMeant
<1>6. Pages!NoDeadEnd
  <2>1. ASSUME screen.kind = "not found"
        PROVE  prefix # <<>> /\ screen.at = Pages!Proxied
    <3>1. screen # Pages!NoReply
      BY <2>1, NoReplyIs
    <3>. QED
      BY <1>2, <2>1, <3>1 DEF GoodAnswer
  <2>. QED
    BY <2>1 DEF Pages!NoDeadEnd, Pages!DeadLink
<1>7. Pages!AsPromised
  <2>1. Promised(screen.kind, screen.followed.type)
    <3>1. CASE screen = Pages!NoReply
      BY <3>1, NoReplyIs DEF Promised
    <3>2. CASE screen # Pages!NoReply
      BY <1>2, <3>2 DEF GoodAnswer
    <3>. QED
      BY <3>1, <3>2
  <2>. QED
    BY <2>1 DEF Pages!AsPromised, Promised
<1>. QED
  BY <1>3, <1>4, <1>5, <1>6, <1>7 DEF ReaderFindsAll, Pages!ReaderFindsAll

LEMMA ReaderBegins == ReaderInit => TreeInv /\ ScreenInv
<1>1. SUFFICES ASSUME ReaderInit
               PROVE  TreeInv /\ ScreenInv
  OBVIOUS
<1>2. Config /\ Pages!Unserved
  <2>1. CASE Pages!Init
    BY <2>1 DEF Pages!Init, Config
  <2>2. CASE NobodyReads
    BY <2>2, SomePrefixAssumption DEF NobodyReads, Config
  <2>. QED
    BY <1>1, <2>1, <2>2 DEF ReaderInit
<1>3. screen = Pages!NoReply
  BY <1>2 DEF Pages!Unserved
<1>. QED
  BY <1>2, <1>3, TreeBegins DEF ScreenInv

LEMMA ReaderSteps ==
    TreeInv /\ ScreenInv /\ [ReaderNext]_<<subject, vars, siteVars>> => TreeInv' /\ ScreenInv'
<1>1. SUFFICES ASSUME TreeInv, ScreenInv, [ReaderNext]_<<subject, vars, siteVars>>
               PROVE  TreeInv' /\ ScreenInv'
  OBVIOUS
<1>2. ASSUME UNCHANGED siteVars
      PROVE  TreeInv' /\ ScreenInv'
  <2>1. /\ UNCHANGED <<prefix, cgi, copied, proxyOn>> /\ tree' = tree /\ meant' = meant
        /\ part' = part /\ screen' = screen
    BY <1>2 DEF siteVars
  <2>2. TreeInv'
    BY <1>1, <2>1, TreeRests
  <2>3. CASE screen = Pages!NoReply
    <3>1. ScreenInv'
      BY <2>1, <2>3 DEF ScreenInv, Pages!NoReply, Pages!Info, Pages!Item, Pages!Sel, Pages!Empty
    <3>. QED
      BY <2>2, <3>1
  <2>4. CASE screen # Pages!NoReply
    <3>1. PICK new : new = screen
      OBVIOUS
    <3>2. /\ Pages!Served /\ Leads(new.followed.type, new.at)
          /\ new.kind = Pages!Answer(new.at).kind /\ new.items = Pages!Answer(new.at).items
      BY <1>1, <2>4, <3>1 DEF ScreenInv
    <3>3. Pages!Served' /\ Leads(new.followed.type, new.at)'
      BY <2>1, <3>2, ConfigStays DEF Pages!Served
    <3>4. \A r : Pages!Answer(r)' = Pages!Answer(r)
      BY <2>1, AnswerStays
    <3>5. new.kind = (Pages!Answer(new.at).kind)' /\ new.items = (Pages!Answer(new.at).items)'
      BY <3>2, <3>4
    <3>6. screen' = new
      BY <2>1, <3>1
    <3>7. ScreenInv'
      BY <3>3, <3>5, <3>6 DEF ScreenInv
    <3>. QED
      BY <2>2, <3>7
  <2>. QED
    BY <2>3, <2>4
<1>3. CASE ReaderNext /\ Pages!Next
  BY <1>1, <1>3, ReaderKeeps
<1>4. CASE UNCHANGED <<subject, vars, siteVars>>
  <2>1. UNCHANGED siteVars
    BY <1>4
  <2>. QED
    BY <1>2, <2>1
<1>. QED
  BY <1>1, <1>2, <1>3, <1>4 DEF ReaderNext

(* Every menu reads as its ingester meant it and every link leads to what it
   promises, for every selector prefix: the layout that ngingest writes
   (tree.go's path) and the one the server reads (server.go's resolve,
   serveTree, serveDir) agree, also for the search's results, which carry no
   prefix, and for the directories without a gophermap. *)
THEOREM LinksAlwaysLead == ReaderSpec => []ReaderFindsAll
<1>1. ReaderInit => TreeInv /\ ScreenInv
  BY ReaderBegins
<1>2. TreeInv /\ ScreenInv /\ [ReaderNext]_<<subject, vars, siteVars>> => TreeInv' /\ ScreenInv'
  BY ReaderSteps
<1>3. TreeInv /\ ScreenInv => ReaderFindsAll
  BY FindsAll
<1>. QED
  BY <1>1, <1>2, <1>3, PTL DEF ReaderSpec

=============================================================================
