----------------------------- MODULE IngestProof -----------------------------
(***************************************************************************)
(* Proofs about Ingest and the three parts it is made of, for every number *)
(* of organisations, whatever their sizes, listings and releases, for      *)
(* every budget, every catalogue and every limit.                          *)
(*                                                                         *)
(* The reserve is kept because the run always holds, beside the reserve,   *)
(* what it still has to pay in the worst case.  That sum starts out right  *)
(* by the arithmetic of affordableRepos, and each request takes as much    *)
(* off what is to be paid as off the budget.                               *)
(*                                                                         *)
(* The downloads are sound because an item is linked after its copy has    *)
(* been judged, and a file that is copied later is another one's, unless   *)
(* the catalogue lists it twice.                                           *)
(*                                                                         *)
(* The pages are sound because every page on the disk is either linked     *)
(* from a menu that is on the disk, or from one of the menus begun, which  *)
(* will be written, or belongs to what was passed over.  PageOK says so of *)
(* each kind of page.  A step writes at most one page: the lemmas *Kept    *)
(* say why the others stay what they are, the lemmas *Keeps go through the *)
(* steps, and the last ones read PagesAreSound off the invariant.          *)
(***************************************************************************)
EXTENDS Ingest, FetchCache, Functions, FiniteSets, SequenceTheorems, FiniteSetTheorems, TLAPS

-----------------------------------------------------------------------------
(* The requests: Budget.                                                    *)

(* Where the run is in its three loops. *)
Position ==
    /\ step \in {"list", "readme", "releases"} => org \in Orgs
    /\ step = "rateLimit" => org = 1 /\ page = 1 /\ listed = 0 /\ repo = 1 /\ ~known
    /\ step = "list" => /\ repo = 1
                        /\ listed <= PageSize * (page - 1)
                        /\ listed <= size[org]
    /\ step \in {"readme", "releases"} => repo \in 1..Chosen(listed)

TypeInv == TypeOK /\ Position

(* What the organisation under way may still cost. *)
DueHere ==
    CASE step = "list" -> (IF page = 1 THEN 1 ELSE 0) + RequestsPerRepo * limit
      [] step = "readme" -> RequestsPerRepo * (Chosen(listed) - repo) + 2
      [] step = "releases" -> RequestsPerRepo * (Chosen(listed) - repo) + 1
      [] OTHER -> 0

PerOrg == 1 + RequestsPerRepo * limit

(* What the organisations after it may cost. *)
DueLater == IF step = "docs" THEN 0 ELSE (NOrgs - org) * PerOrg

Due == DueHere + DueLater

(* What remains together with what excuses a smaller reserve. *)
Funds == remaining + extra + faults + others

Solvent ==
    (known /\ step \in Working) => limit > 0 /\ Funds >= ReservedRequests + Due

BudgetInv == TypeInv /\ Solvent

-----------------------------------------------------------------------------
(* Division by a positive number rounds down. *)
LEMMA Quotient ==
    ASSUME NEW a \in Nat, NEW b \in Nat \ {0}
    PROVE  /\ a \div b \in Nat
           /\ b * (a \div b) <= a
  OBVIOUS

LEMMA AffordableType ==
    ASSUME NEW budget \in Nat
    PROVE  Affordable(budget) \in Nat
<1> DEFINE n == IF NOrgs < 1 THEN 1 ELSE NOrgs
           spendable == budget - ReservedRequests - n
<1>1. n \in Nat \ {0} /\ spendable \in Int
  BY OrgsAssumption DEF ReservedRequests
<1>2. CASE spendable < 0
  BY <1>2 DEF Affordable
<1>3. CASE spendable >= 0
  <2>1. spendable \div RequestsPerRepo \in Nat
    BY <1>1, <1>3 DEF RequestsPerRepo
  <2>2. (spendable \div RequestsPerRepo) \div n \in Nat
    BY <1>1, <2>1, Quotient
  <2> QED
    BY <1>1, <1>3, <2>2 DEF Affordable
<1> QED
  BY <1>1, <1>2, <1>3

(* What affordableRepos allows for each organisation can be paid, with the
   listings and the reserve. *)
LEMMA AffordableIsPayable ==
    ASSUME NEW budget \in Nat, NEW l \in Nat,
           Affordable(budget) > 0, l <= Affordable(budget)
    PROVE  NOrgs * (1 + RequestsPerRepo * l) + ReservedRequests <= budget
<1> DEFINE n == IF NOrgs < 1 THEN 1 ELSE NOrgs
           spendable == budget - ReservedRequests - n
           q == spendable \div RequestsPerRepo
<1>1. n \in Nat \ {0} /\ n >= NOrgs /\ spendable \in Int
  BY OrgsAssumption DEF ReservedRequests
<1>2. spendable >= 0
  BY <1>1 DEF Affordable
<1>3. q \in Nat /\ 2 * q <= spendable
  BY <1>1, <1>2 DEF RequestsPerRepo
<1>4. Affordable(budget) = q \div n
  BY <1>1, <1>2 DEF Affordable
<1> HIDE DEF q
<1>5. q \div n \in Nat /\ n * (q \div n) <= q
  BY <1>1, <1>3, Quotient
<1>6. n * l <= n * (q \div n)
  BY <1>1, <1>4, <1>5
<1>7. NOrgs * l <= n * l
  BY <1>1, OrgsAssumption
<1>8. 2 * (NOrgs * l) <= spendable
  BY <1>1, <1>3, <1>5, <1>6, <1>7, OrgsAssumption
<1>9. NOrgs * (1 + 2 * l) = NOrgs + 2 * (NOrgs * l)
  BY OrgsAssumption
<1> QED
  BY <1>1, <1>8, <1>9, OrgsAssumption DEF ReservedRequests, RequestsPerRepo

-----------------------------------------------------------------------------
LEMMA SizeType ==
    ASSUME size \in [Orgs -> Sizes], NEW o \in Orgs
    PROVE  size[o] \in Nat
  BY OrgsAssumption

(* The two ways on from an organisation's listing keep the position. *)
LEMMA NextOrgPosition ==
    ASSUME TypeInv, NextOrg, org \in Orgs, UNCHANGED <<limit, size, known>>
    PROVE  /\ step' \in {"list", "docs"}
           /\ org' \in 1..NOrgs + 1
           /\ page' = 1 /\ listed' = 0 /\ repo' = 1
           /\ Position'
<1>1. /\ step' \in {"list", "docs"}
      /\ org' \in 1..NOrgs + 1
      /\ page' = 1 /\ listed' = 0 /\ repo' = 1
      /\ step' = "list" => org' \in Orgs
  BY OrgsAssumption DEF NextOrg, Orgs
<1>2. step' = "list" => size'[org'] \in Nat
  BY <1>1, SizeType DEF TypeInv, TypeOK
<1> QED
  BY <1>1, <1>2 DEF Position, PageSize

LEMMA StartWritingPosition ==
    ASSUME TypeInv, NEW n \in 0..PageSize * MaxPages, StartWriting(n),
           step = "list", org \in Orgs, UNCHANGED <<limit, size, known>>
    PROVE  /\ step' \in {"list", "docs", "readme"}
           /\ org' \in 1..NOrgs + 1
           /\ page' \in 1..MaxPages
           /\ listed' \in 0..PageSize * MaxPages
           /\ repo' \in Nat
           /\ Position'
<1>1. CASE NextOrg
  BY <1>1, NextOrgPosition DEF PageSize, MaxPages
<1>2. CASE Chosen(n) > 0 /\ listed' = n /\ step' = "readme" /\ UNCHANGED <<org, page, repo>>
  <2>1. repo = 1 /\ limit \in Nat
    BY DEF TypeInv, TypeOK, Position
  <2> QED
    BY <1>2, <2>1 DEF TypeInv, TypeOK, Position, Chosen
<1> QED
  BY <1>1, <1>2 DEF StartWriting

(* What an attempt leaves in the variables it is about, *)
LEMMA AttemptType ==
    ASSUME TypeOK, Succeeds \/ Again \/ Fails
    PROVE  /\ attempt' \in 1..Tries
           /\ remaining' \in 0..Limit
           /\ faults' \in 0..MaxFaults
  BY BoundsAssumption
  DEF TypeOK, Succeeds, Again, Fails, Answered, Stumbles

(* and what it costs: an answer one, a failure nothing it is not excused. *)
LEMMA AttemptFunds ==
    ASSUME TypeOK, Succeeds \/ Again \/ Fails
    PROVE  \E r, f \in Nat :
              /\ remaining' = r /\ faults' = f
              /\ r + f + 1 >= remaining + faults
              /\ Again \/ Fails => r + f >= remaining + faults
<1>1. remaining \in Nat /\ faults \in Nat
  BY BoundsAssumption DEF TypeOK
<1>2. CASE Answered
  <2>1. /\ remaining - 1 \in Nat
        /\ remaining' = remaining - 1 /\ faults' = faults
    BY <1>1, <1>2 DEF Answered
  <2>2. ~Again /\ ~Fails
    BY <1>1, <1>2 DEF Answered, Again, Fails, Stumbles
  <2>3. remaining - 1 + faults + 1 >= remaining + faults
    BY <1>1
  <2> QED
    BY <1>1, <2>1, <2>2, <2>3
<1>3. CASE Stumbles
  <2>1. CASE remaining = 0 /\ UNCHANGED <<remaining, faults>>
    <3>1. remaining + faults + 1 >= remaining + faults
      BY <1>1
    <3> QED
      BY <1>1, <2>1, <3>1
  <2>2. CASE faults' = faults + 1 /\ remaining' \in {remaining, remaining - 1} \cap Nat
    <3>1. PICK r \in Nat : remaining' = r /\ r >= remaining - 1
      BY <1>1, <2>2
    <3>2. faults + 1 \in Nat /\ r + (faults + 1) >= remaining + faults
          /\ r + (faults + 1) + 1 >= remaining + faults
      BY <1>1, <3>1
    <3> QED
      BY <2>2, <3>1, <3>2
  <2> QED
    BY <1>3, <2>1, <2>2 DEF Stumbles
<1> QED
  BY <1>2, <1>3 DEF Succeeds, Again, Fails

LEMMA TypeInvInit == Init => TypeInv
<1> SUFFICES ASSUME Init
             PROVE  TypeInv
  OBVIOUS
<1>1. TypeOK
  <2>1. known \in BOOLEAN
    BY DEF Init
  <2>2. /\ attempt \in 1..Tries /\ remaining \in 0..Limit /\ limit \in Nat
        /\ faults \in 0..MaxFaults /\ others \in 0..MaxOthers
    BY ConfigAssumption, BoundsAssumption DEF Init
  <2>3. /\ org \in 1..NOrgs + 1 /\ page \in 1..MaxPages
        /\ listed \in 0..PageSize * MaxPages
    BY OrgsAssumption DEF Init, PageSize, MaxPages
  <2> QED
    BY <2>1, <2>2, <2>3 DEF Init, TypeOK
<1>2. Position
  BY DEF Init, Position
<1> QED
  BY <1>1, <1>2 DEF TypeInv

LEMMA TypeInvNext == TypeInv /\ [Next]_vars => TypeInv'
<1> SUFFICES ASSUME TypeInv, [Next]_vars
             PROVE  TypeInv'
  OBVIOUS
<1> USE OrgsAssumption, ConfigAssumption, BoundsAssumption
<1>1. CASE ReadBudget
  <2>1. limit' \in Nat /\ step' \in {"failed", "docs", "list"} /\ known' \in BOOLEAN
    <3>1. remaining \in 0..Limit /\ limit \in Nat /\ known \in BOOLEAN
      BY DEF TypeInv, TypeOK
    <3>2. \A b \in 0..Limit : Affordable(b) \in Nat
      BY AffordableType
    <3>3. ASSUME NEW b \in 0..Limit, SizeTo(b)
          PROVE  limit' \in Nat /\ step' \in {"failed", "docs", "list"}
      BY <3>1, <3>2, <3>3 DEF SizeTo, FirstStep
    <3> QED
      BY <1>1, <3>1, <3>3 DEF ReadBudget, FirstStep
  <2>2. step' = "list" => org \in Orgs /\ size[org] \in Nat
    <3>1. step' = "list" => NOrgs # 0
      BY <1>1 DEF ReadBudget, SizeTo, FirstStep
    <3>2. step' = "list" => org \in Orgs
      BY <1>1, <3>1 DEF ReadBudget, TypeInv, Position, Orgs
    <3> QED
      BY <3>2, SizeType DEF TypeInv, TypeOK
  <2> QED
    BY <1>1, <2>1, <2>2
    DEF ReadBudget, loopVars, TypeInv, TypeOK, Position, Working, PageSize
<1>2. CASE ListPage
  <2>1. org \in Orgs /\ size[org] \in Nat /\ Batch \in 0..PageSize
    <3>1. org \in Orgs /\ listed \in Nat /\ listed <= size[org]
      BY <1>2 DEF ListPage, TypeInv, TypeOK, Position
    <3>2. size[org] \in Nat
      BY <3>1, SizeType DEF TypeInv, TypeOK
    <3> QED
      BY <3>1, <3>2 DEF Batch, PageSize
  <2>2. listed + Batch \in 0..PageSize * MaxPages
    BY <1>2, <2>1 DEF ListPage, TypeInv, TypeOK, Position, PageSize, MaxPages
  <2>3. CASE Batch = PageSize /\ page < MaxPages /\ UNCHANGED <<step, org, repo>>
             /\ listed' = listed + Batch /\ page' = page + 1
    <3>1. listed + PageSize <= PageSize * (page' - 1) /\ page' \in 1..MaxPages
      <4>1. listed \in Nat /\ page \in Nat \ {0} /\ listed <= PageSize * (page - 1)
        BY <1>2, <2>3 DEF ListPage, TypeInv, TypeOK, Position, PageSize, MaxPages
      <4> QED
        BY <2>3, <4>1 DEF PageSize, MaxPages
    <3>2. listed + Batch <= size[org]
      BY <2>1, <1>2 DEF ListPage, Batch, TypeInv, TypeOK, Position, PageSize
    <3>3. TypeOK'
      BY <1>2, <2>2, <2>3, <3>1, AttemptType DEF ListPage, configVars, TypeInv, TypeOK
    <3>4. Position'
      BY <1>2, <2>1, <2>3, <3>1, <3>2 DEF ListPage, configVars, TypeInv, Position
    <3> QED
      BY <3>3, <3>4 DEF TypeInv
  <2>4. CASE StartWriting(listed + Batch)
    BY <1>2, <2>1, <2>2, <2>4, AttemptType, StartWritingPosition
    DEF ListPage, configVars, TypeInv, TypeOK, Working
  <2> QED
    BY <1>2, <2>3, <2>4 DEF ListPage
<1>3. CASE ListFails
  <2>1. org \in Orgs /\ listed \in 0..PageSize * MaxPages
    BY <1>3 DEF ListFails, TypeInv, TypeOK, Position
  <2>2. CASE NextOrg
    BY <1>3, <2>1, <2>2, AttemptType, NextOrgPosition
    DEF ListFails, configVars, TypeInv, TypeOK, Working, PageSize, MaxPages
  <2>3. CASE StartWriting(listed)
    BY <1>3, <2>1, <2>3, AttemptType, StartWritingPosition
    DEF ListFails, configVars, TypeInv, TypeOK, Working
  <2> QED
    BY <1>3, <2>2, <2>3 DEF ListFails
<1>4. CASE Readme
  BY <1>4, AttemptType
  DEF Readme, configVars, loopVars, TypeInv, TypeOK, Position, Working, Chosen
<1>5. CASE Releases
  <2>1. org \in Orgs
    BY <1>5 DEF Releases, TypeInv, Position
  <2>2. CASE repo < Chosen(listed) /\ repo' = repo + 1 /\ step' = "readme"
             /\ UNCHANGED <<org, page, listed>>
    BY <1>5, <2>1, <2>2, AttemptType
    DEF Releases, configVars, TypeInv, TypeOK, Position, Working, Chosen
  <2>3. CASE NextOrg
    BY <1>5, <2>1, <2>3, AttemptType, NextOrgPosition
    DEF Releases, configVars, TypeInv, TypeOK, Working, PageSize, MaxPages
  <2> QED
    BY <1>5, <2>2, <2>3 DEF Releases
<1>6. CASE Docs
  BY <1>6, AttemptType
  DEF Docs, configVars, loopVars, TypeInv, TypeOK, Position, Working
<1>7. CASE TryAgain
  BY <1>7, AttemptType
  DEF TryAgain, configVars, loopVars, TypeInv, TypeOK, Position, Working, Chosen
<1>8. CASE OtherSpends
  BY <1>8
  DEF OtherSpends, configVars, loopVars, TypeInv, TypeOK, Position, Working, Chosen
<1>9. CASE Reset
  BY <1>9
  DEF Reset, configVars, loopVars, TypeInv, TypeOK, Position, Working, Chosen
<1>10. CASE UNCHANGED vars
  BY <1>10 DEF vars, TypeInv, TypeOK, Position, Working, Chosen
<1> QED
  BY <1>1, <1>2, <1>3, <1>4, <1>5, <1>6, <1>7, <1>8, <1>9, <1>10
  DEF Next, RunStep

(* Every variable keeps to its type, counters of loops included. *)
THEOREM TypeCorrect == Spec => []TypeOK
<1>1. TypeInv => TypeOK
  BY DEF TypeInv
<1> QED
  BY <1>1, TypeInvInit, TypeInvNext, PTL DEF Spec

-----------------------------------------------------------------------------
(* Going on to the next organisation turns what was due later into what is due
   now. *)
LEMMA NextOrgDue ==
    ASSUME TypeInv, NextOrg, org \in Orgs, limit' = limit, step # "docs"
    PROVE  DueHere' + DueLater' = DueLater
<1>1. org \in 1..NOrgs /\ limit \in Nat /\ NOrgs \in Nat
  BY OrgsAssumption DEF TypeInv, TypeOK, Orgs
<1>2. CASE org = NOrgs
  <2>1. step' = "docs"
    BY <1>2 DEF NextOrg
  <2>2. DueHere' = 0 /\ DueLater' = 0
    BY <2>1 DEF DueHere, DueLater
  <2>3. DueLater = 0
    BY <1>1, <1>2 DEF DueLater, PerOrg, RequestsPerRepo
  <2> QED
    BY <2>2, <2>3
<1>3. CASE org # NOrgs
  <2>1. step' = "list" /\ page' = 1 /\ org' = org + 1
    BY <1>3 DEF NextOrg
  <2>2. DueHere' = PerOrg /\ PerOrg \in Nat
    BY <1>1, <2>1 DEF DueHere, PerOrg, RequestsPerRepo
  <2>3. DueLater' = (NOrgs - (org + 1)) * PerOrg
    BY <2>1 DEF DueLater, PerOrg
  <2>4. DueLater = (NOrgs - org) * PerOrg
    BY DEF DueLater
  <2> HIDE DEF PerOrg
  <2> QED
    BY <1>1, <2>2, <2>3, <2>4
<1> QED
  BY <1>2, <1>3

(* Writing costs two requests for each repository MaxRepos lets through. *)
LEMMA StartWritingDue ==
    ASSUME TypeInv, NEW n \in Nat, StartWriting(n), org \in Orgs, limit > 0,
           limit' = limit, step = "list"
    PROVE  \E d \in Nat : DueHere' + DueLater' = d /\ d <= RequestsPerRepo * limit + DueLater
<1>1. org \in 1..NOrgs /\ limit \in Nat /\ NOrgs \in Nat
  BY OrgsAssumption DEF TypeInv, TypeOK, Orgs
<1>2. DueLater \in Nat
  BY <1>1 DEF DueLater, PerOrg, RequestsPerRepo
<1>3. CASE NextOrg
  BY <1>1, <1>2, <1>3, NextOrgDue DEF RequestsPerRepo
<1>4. CASE Chosen(n) > 0 /\ listed' = n /\ step' = "readme" /\ UNCHANGED <<org, page, repo>>
  <2>1. DueLater' = DueLater
    BY <1>4 DEF DueLater, PerOrg
  <2>2. Chosen(n) \in 0..limit /\ Chosen(listed)' = Chosen(n) /\ repo' = 1
    BY <1>1, <1>4 DEF Chosen, TypeInv, Position
  <2>3. DueHere' = RequestsPerRepo * Chosen(n)
    BY <1>4, <2>2 DEF DueHere, RequestsPerRepo
  <2>4. RequestsPerRepo * Chosen(n) + DueLater \in Nat
    BY <1>2, <2>2 DEF RequestsPerRepo
  <2>5. RequestsPerRepo * Chosen(n) + DueLater <= RequestsPerRepo * limit + DueLater
    BY <1>1, <1>2, <2>2 DEF RequestsPerRepo
  <2> QED
    BY <2>1, <2>3, <2>4, <2>5
<1> QED
  BY <1>3, <1>4 DEF StartWriting

LEMMA DueType ==
    ASSUME TypeInv, step \in Working
    PROVE  DueHere \in Nat /\ DueLater \in Nat
<1>1. DueHere \in Nat
  <2>1. limit \in Nat
    BY DEF TypeInv, TypeOK
  <2>2. step \in {"readme", "releases"} => Chosen(listed) - repo \in Nat
    <3>1. listed \in Nat
      BY DEF TypeInv, TypeOK, PageSize, MaxPages
    <3> QED
      BY <2>1, <3>1 DEF TypeInv, Position, Chosen
  <2> QED
    BY <2>1, <2>2 DEF DueHere, Working, RequestsPerRepo
<1>2. DueLater \in Nat
  <2>1. limit \in Nat /\ NOrgs \in Nat /\ step # "docs" => org \in 1..NOrgs
    BY OrgsAssumption DEF TypeInv, TypeOK, Position, Working, Orgs
  <2>2. PerOrg \in Nat
    BY OrgsAssumption DEF TypeInv, TypeOK, PerOrg, RequestsPerRepo
  <2> QED
    BY <2>1, <2>2, OrgsAssumption DEF DueLater, TypeInv, Position, Working, Orgs
<1> QED
  BY <1>1, <1>2

LEMMA FundsType ==
    ASSUME TypeOK
    PROVE  Funds \in Nat /\ extra \in Nat /\ others \in Nat
  BY BoundsAssumption DEF TypeOK, Funds

(* A step that takes no more off the funds than off what is due. *)
LEMMA StaysSolvent ==
    ASSUME BudgetInv, step \in Working, known' = known, limit' = limit,
           known => \E f, d \in Int : Funds' = f /\ Due' = d /\ f - d >= Funds - Due
    PROVE  Solvent'
<1> SUFFICES ASSUME known
             PROVE  limit > 0 /\ Funds' >= ReservedRequests + Due'
  BY DEF Solvent
<1>1. PICK f, d \in Int : Funds' = f /\ Due' = d /\ f - d >= Funds - Due
  OBVIOUS
<1>2. limit > 0 /\ Funds >= ReservedRequests + Due
  BY DEF BudgetInv, Solvent
<1>3. Funds \in Int /\ Due \in Int
  BY FundsType, DueType DEF BudgetInv, TypeInv, Due
<1> QED
  BY <1>1, <1>2, <1>3 DEF ReservedRequests

(* The run is solvent once it has sized itself. *)
LEMMA SizedSolvent ==
    ASSUME TypeInv, ReadBudget, known'
    PROVE  Solvent'
<1>1. /\ ~HasToken /\ SizeTo(remaining)
      /\ UNCHANGED <<remaining, org, page, extra, faults, others>>
  BY DEF ReadBudget, TypeInv, Position, loopVars
<1>2. /\ remaining \in Nat /\ extra \in Nat /\ faults \in Nat /\ others \in Nat
      /\ org = 1 /\ page = 1
  BY BoundsAssumption DEF TypeInv, TypeOK, Position, ReadBudget
<1>3. CASE Affordable(remaining) = 0
  BY <1>1, <1>3 DEF SizeTo, Solvent, Working
<1>4. CASE Affordable(remaining) > 0
  <2>1. PICK l \in Nat \ {0} : limit' = l /\ l <= Affordable(remaining) /\ step' = FirstStep
    BY <1>1, <1>2, <1>4, AffordableType, ConfigAssumption
    DEF SizeTo, TypeInv, TypeOK
  <2> DEFINE cost == 1 + RequestsPerRepo * l
  <2>2. cost \in Nat /\ NOrgs * cost \in Nat /\ NOrgs * cost + ReservedRequests <= remaining
    <3>1. cost \in Nat
      BY <2>1 DEF RequestsPerRepo
    <3>2. NOrgs * cost + ReservedRequests <= remaining
      BY <1>2, <1>4, <2>1, AffordableIsPayable
    <3> HIDE DEF cost
    <3> QED
      BY <3>1, <3>2, OrgsAssumption
  <2>3. Due' = NOrgs * cost
    <3>1. CASE NOrgs = 0
      BY <2>1, <2>2, <3>1 DEF FirstStep, Due, DueHere, DueLater
    <3>2. CASE NOrgs # 0
      <4>1. step' = "list" /\ page' = 1 /\ org' = 1
        BY <1>1, <1>2, <2>1, <3>2 DEF FirstStep
      <4>2. DueHere' = cost
        BY <2>1, <4>1 DEF DueHere, RequestsPerRepo
      <4>3. DueLater' = (NOrgs - 1) * cost
        BY <2>1, <4>1 DEF DueLater, PerOrg
      <4> HIDE DEF cost
      <4>4. cost + (NOrgs - 1) * cost = NOrgs * cost
        BY <2>2, OrgsAssumption
      <4> QED
        BY <4>2, <4>3, <4>4 DEF Due
    <3> QED
      BY <3>1, <3>2
  <2> HIDE DEF cost
  <2>4. Funds' = remaining + extra + faults + others
    BY <1>1 DEF Funds
  <2>5. limit' > 0 /\ Funds' >= ReservedRequests + Due'
    BY <1>2, <2>1, <2>2, <2>3, <2>4 DEF ReservedRequests
  <2> QED
    BY <2>5 DEF Solvent
<1> QED
  BY <1>1, <1>2, <1>3, <1>4, AffordableType DEF SizeTo

LEMMA SolventNext == BudgetInv /\ [Next]_vars => Solvent'
<1> SUFFICES ASSUME BudgetInv, [Next]_vars
             PROVE  Solvent'
  OBVIOUS
<1>1. /\ TypeInv /\ TypeInv'
      /\ Funds \in Nat /\ Funds' \in Nat
      /\ extra \in Nat /\ others \in Nat /\ remaining \in Nat /\ faults \in Nat
      /\ limit \in Nat
  BY TypeInvNext, BoundsAssumption DEF BudgetInv, TypeInv, TypeOK, Funds
<1>2. step \in Working => DueHere \in Nat /\ DueLater \in Nat
  BY <1>1, DueType
<1>3. known /\ step \in Working => limit > 0
  BY DEF BudgetInv, Solvent
<1>4. CASE ReadBudget
  <2>1. CASE known'
    BY <1>1, <1>4, <2>1, SizedSolvent
  <2>2. CASE ~known'
    BY <2>2 DEF Solvent
  <2> QED
    BY <2>1, <2>2
<1>5. CASE UNCHANGED vars
  BY <1>5
  DEF BudgetInv, Solvent, vars, Funds, Due, DueHere, DueLater, PerOrg, Chosen, Working
<1>6. ASSUME Succeeds \/ Again \/ Fails, others' = others, NEW e \in Nat, extra' = e
      PROVE  \E f \in Int : /\ Funds' = f
                            /\ f >= Funds - 1 + (e - extra)
                            /\ Again \/ Fails => f >= Funds + (e - extra)
  <2>1. PICK r, ft \in Nat :
              /\ remaining' = r /\ faults' = ft
              /\ r + ft + 1 >= remaining + faults
              /\ Again \/ Fails => r + ft >= remaining + faults
    BY <1>1, <1>6, AttemptFunds DEF TypeInv
  <2>2. Funds' = r + e + ft + others
    BY <1>6, <2>1 DEF Funds
  <2>3. r + e + ft + others \in Int
        /\ r + e + ft + others >= Funds - 1 + (e - extra)
    BY <1>1, <1>6, <2>1 DEF Funds
  <2>4. Again \/ Fails => r + e + ft + others >= Funds + (e - extra)
    BY <1>1, <1>6, <2>1 DEF Funds
  <2> QED
    BY <2>2, <2>3, <2>4
<1>7. CASE ListPage
  <2>1. /\ step = "list" /\ Succeeds
        /\ UNCHANGED <<known, limit, others>>
        /\ org \in Orgs
    BY <1>1, <1>7 DEF ListPage, configVars, TypeInv, Position
  <2> DEFINE e == IF page > 1 THEN extra + 1 ELSE extra
  <2>2. e \in Nat /\ extra' = e
    BY <1>1, <1>7 DEF ListPage
  <2>3. PICK f \in Int : Funds' = f /\ f >= Funds - 1 + (e - extra)
    BY <1>6, <2>1, <2>2
  <2>4. DueHere = (IF page = 1 THEN 1 ELSE 0) + RequestsPerRepo * limit /\ page \in Nat \ {0}
    BY <1>1, <2>1 DEF DueHere, TypeInv, TypeOK, MaxPages
  <2>5. ASSUME known
        PROVE  \E d \in Int : Due' = d /\ d <= RequestsPerRepo * limit + DueLater
    <3>1. CASE /\ UNCHANGED <<step, org, repo>>
               /\ page' = page + 1
      <4>1. page + 1 # 1
        BY <2>4
      <4>2. DueHere' = RequestsPerRepo * limit
        BY <1>1, <2>1, <3>1, <4>1 DEF DueHere, RequestsPerRepo
      <4>3. DueLater' = DueLater
        BY <2>1, <3>1 DEF DueLater, PerOrg
      <4>4. RequestsPerRepo * limit + DueLater \in Int
        BY <1>1, <1>2, <2>1 DEF RequestsPerRepo, Working
      <4> QED
        BY <4>2, <4>3, <4>4 DEF Due
    <3>2. CASE StartWriting(listed + Batch)
      <4>1. listed + Batch \in Nat
        <5>1. size[org] \in Nat /\ listed \in Nat /\ listed <= size[org]
          BY <1>1, <2>1, SizeType DEF TypeInv, TypeOK, Position
        <5> QED
          BY <5>1 DEF Batch, PageSize
      <4> QED
        BY <1>1, <1>3, <2>1, <2>5, <3>2, <4>1, StartWritingDue DEF Due, Working
    <3> QED
      BY <1>7, <3>1, <3>2 DEF ListPage
  <2> HIDE DEF e
  <2>6. ASSUME known
        PROVE  \E g, d \in Int : Funds' = g /\ Due' = d /\ g - d >= Funds - Due
    <3>1. PICK d \in Int : Due' = d /\ d <= RequestsPerRepo * limit + DueLater
      BY <2>5, <2>6
    <3>2. f - d >= Funds - Due
      BY <1>1, <1>2, <2>1, <2>2, <2>3, <2>4, <3>1 DEF e, Due, RequestsPerRepo, Working
    <3> QED
      BY <2>3, <3>1, <3>2
  <2> QED
    BY <2>1, <2>6, StaysSolvent DEF Working
<1>8. CASE ListFails
  <2>1. /\ step = "list" /\ Fails
        /\ UNCHANGED <<known, limit, extra, others>>
        /\ org \in Orgs
    BY <1>1, <1>8 DEF ListFails, configVars, TypeInv, Position
  <2>2. PICK f \in Int : Funds' = f /\ f >= Funds
    BY <1>1, <1>6, <2>1
  <2>3. DueHere = (IF page = 1 THEN 1 ELSE 0) + RequestsPerRepo * limit /\ page \in Nat \ {0}
    BY <1>1, <2>1 DEF DueHere, TypeInv, TypeOK, MaxPages
  <2>4. ASSUME known
        PROVE  \E d \in Int : Due' = d /\ d <= DueLater + DueHere
    <3>1. CASE NextOrg
      <4>1. Due' = DueLater
        BY <1>1, <2>1, <3>1, NextOrgDue DEF Due
      <4> QED
        BY <1>2, <2>1, <4>1 DEF Working
    <3>2. CASE page > 1 /\ StartWriting(listed)
      <4>1. listed \in Nat
        BY <1>1 DEF TypeInv, TypeOK, PageSize, MaxPages
      <4>2. PICK d \in Nat : DueHere' + DueLater' = d /\ d <= RequestsPerRepo * limit + DueLater
        BY <1>1, <1>3, <2>1, <2>4, <3>2, <4>1, StartWritingDue DEF Working
      <4>3. d <= DueLater + DueHere
        BY <1>1, <1>2, <2>1, <2>3, <3>2, <4>2 DEF RequestsPerRepo, Working
      <4> QED
        BY <4>2, <4>3 DEF Due
    <3> QED
      BY <1>8, <3>1, <3>2 DEF ListFails
  <2>5. ASSUME known
        PROVE  \E g, d \in Int : Funds' = g /\ Due' = d /\ g - d >= Funds - Due
    <3>1. PICK d \in Int : Due' = d /\ d <= DueLater + DueHere
      BY <2>4, <2>5
    <3>2. f - d >= Funds - Due
      BY <1>1, <1>2, <2>1, <2>2, <3>1 DEF Due, Working
    <3> QED
      BY <2>2, <3>1, <3>2
  <2> QED
    BY <2>1, <2>5, StaysSolvent DEF Working
<1>9. CASE Readme
  <2>1. /\ step = "readme" /\ step' = "releases" /\ (Succeeds \/ Fails)
        /\ UNCHANGED <<known, limit, org, page, listed, repo, extra, others>>
    BY <1>9 DEF Readme, configVars, loopVars
  <2>2. PICK f \in Int : Funds' = f /\ f >= Funds - 1
    BY <1>1, <1>6, <2>1
  <2>3. DueLater' = DueLater
    BY <2>1 DEF DueLater, PerOrg
  <2>4. DueHere' = DueHere - 1
    <3>1. listed \in Nat /\ repo \in Nat /\ Chosen(listed) \in Nat /\ Chosen(listed)' = Chosen(listed)
      BY <1>1, <2>1 DEF TypeInv, TypeOK, Chosen, PageSize, MaxPages
    <3> QED
      BY <2>1, <3>1 DEF DueHere, RequestsPerRepo
  <2>5. f - (DueHere - 1 + DueLater) >= Funds - Due /\ DueHere - 1 + DueLater \in Int
    BY <1>1, <1>2, <2>1, <2>2 DEF Due, Working
  <2>6. Due' = DueHere - 1 + DueLater
    BY <2>3, <2>4 DEF Due
  <2> QED
    BY <2>1, <2>2, <2>5, <2>6, StaysSolvent DEF Working
<1>10. CASE Releases
  <2>1. /\ step = "releases" /\ (Succeeds \/ Fails)
        /\ UNCHANGED <<known, limit, extra, others>>
        /\ org \in Orgs
    BY <1>1, <1>10 DEF Releases, configVars, TypeInv, Position
  <2>2. PICK f \in Int : Funds' = f /\ f >= Funds - 1
    BY <1>1, <1>6, <2>1
  <2>3. /\ listed \in Nat /\ repo \in 1..Chosen(listed) /\ Chosen(listed) \in Nat
    BY <1>1, <2>1 DEF TypeInv, TypeOK, Position, Chosen, PageSize, MaxPages
  <2>4. DueHere = RequestsPerRepo * (Chosen(listed) - repo) + 1
    BY <2>1 DEF DueHere
  <2>5. CASE /\ repo' = repo + 1 /\ step' = "readme"
             /\ UNCHANGED <<org, page, listed>>
    <3>1. Chosen(listed)' = Chosen(listed)
      BY <2>1, <2>5 DEF Chosen
    <3>2. DueHere' = RequestsPerRepo * (Chosen(listed) - (repo + 1)) + 2
      BY <2>5, <3>1 DEF DueHere
    <3>3. DueLater' = DueLater
      BY <2>1, <2>5 DEF DueLater, PerOrg
    <3>4. DueHere' = DueHere - 1
      BY <2>3, <2>4, <3>2 DEF RequestsPerRepo
    <3>5. f - (DueHere - 1 + DueLater) >= Funds - Due /\ DueHere - 1 + DueLater \in Int
      BY <1>1, <1>2, <2>1, <2>2 DEF Due, Working
    <3>6. Due' = DueHere - 1 + DueLater
      BY <3>3, <3>4 DEF Due
    <3> QED
      BY <2>1, <2>2, <3>5, <3>6, StaysSolvent DEF Working
  <2>6. CASE NextOrg
    <3>1. Due' = DueLater
      BY <1>1, <2>1, <2>6, NextOrgDue DEF Due
    <3>2. DueHere >= 1
      BY <2>3, <2>4 DEF RequestsPerRepo
    <3>3. f - DueLater >= Funds - Due /\ DueLater \in Int
      BY <1>1, <1>2, <2>1, <2>2, <3>2 DEF Due, Working
    <3> QED
      BY <2>1, <2>2, <3>1, <3>3, StaysSolvent DEF Working
  <2> QED
    BY <1>10, <2>5, <2>6 DEF Releases
<1>11. CASE Docs
  BY <1>11 DEF Docs, Solvent, Working
<1>12. CASE TryAgain
  <2>1. /\ Again /\ step \in Working
        /\ UNCHANGED <<step, known, limit, org, page, listed, repo, extra, others>>
    BY <1>12 DEF TryAgain, configVars, loopVars
  <2>2. PICK f \in Int : Funds' = f /\ f >= Funds
    BY <1>1, <1>6, <2>1
  <2>3. Due' = Due
    BY <2>1 DEF Due, DueHere, DueLater, PerOrg, Chosen
  <2>4. f - Due >= Funds - Due /\ Due \in Int
    BY <1>1, <1>2, <2>1, <2>2 DEF Due
  <2> QED
    BY <2>1, <2>2, <2>3, <2>4, StaysSolvent
<1>13. CASE OtherSpends
  <2>1. UNCHANGED <<step, known, limit, org, page, listed, repo>>
    BY <1>13 DEF OtherSpends, configVars, loopVars
  <2>2. Funds' = Funds
    BY <1>1, <1>13 DEF OtherSpends, Funds
  <2>3. Due' = Due
    BY <2>1 DEF Due, DueHere, DueLater, PerOrg, Chosen
  <2> QED
    BY <2>1, <2>2, <2>3 DEF BudgetInv, Solvent
<1>14. CASE Reset
  <2>1. UNCHANGED <<step, known, limit, org, page, listed, repo>>
    BY <1>14 DEF Reset, configVars, loopVars
  <2>2. Funds' = Limit + extra + faults + others /\ Limit \in Int
    BY <1>14, BoundsAssumption DEF Reset, Funds
  <2>3. Due' = Due
    BY <2>1 DEF Due, DueHere, DueLater, PerOrg, Chosen
  <2>4. Limit + extra + faults + others \in Int
        /\ Limit + extra + faults + others >= Funds
    BY <1>1, <1>14, BoundsAssumption DEF Reset, Funds
  <2>5. CASE step \in Working
    <3>1. Due \in Int
      BY <1>2, <2>5 DEF Due
    <3>2. (Limit + extra + faults + others) - Due >= Funds - Due
      BY <1>1, <2>4, <3>1
    <3>3. \E f, d \in Int : Funds' = f /\ Due' = d /\ f - d >= Funds - Due
      BY <2>2, <2>3, <2>4, <3>1, <3>2
    <3> QED
      BY <2>1, <2>5, <3>3, StaysSolvent
  <2>6. CASE step \notin Working
    BY <2>1, <2>6 DEF Solvent
  <2> QED
    BY <2>5, <2>6
<1> QED
  BY <1>4, <1>5, <1>7, <1>8, <1>9, <1>10, <1>11, <1>12, <1>13, <1>14
  DEF Next, RunStep

(* The reserve is kept. *)
THEOREM ReserveIsKept == Spec => []ReserveKept
<1>1. Init => BudgetInv
  BY TypeInvInit DEF Init, BudgetInv, Solvent
<1>2. BudgetInv /\ [Next]_vars => BudgetInv'
  BY TypeInvNext, SolventNext DEF BudgetInv
<1>3. BudgetInv => ReserveKept
  BY FundsType, DueType
  DEF BudgetInv, TypeInv, Solvent, ReserveKept, Funds, Due, ReservedRequests
<1> QED
  BY <1>1, <1>2, <1>3, PTL DEF Spec

-----------------------------------------------------------------------------
(* The downloads: Artifacts.                                                *)

(* What is left out and what is linked has been looked at. *)
FilesInv ==
    /\ Files!TypeOK /\ Files!DownloadsAreSound
    /\ \A i \in omitted : i < aAt

LEMMA FilesFacts ==
    ASSUME FilesInv
    PROVE  /\ catalogue \in Seq(Paths) /\ Len(catalogue) \in Nat
           /\ DOMAIN catalogue = 1..Len(catalogue)
           /\ aAt \in Nat /\ aLimit \in Nat /\ reported \in Nat
           /\ links \in Seq(Files!Link) /\ Len(links) \in Nat
           /\ DOMAIN links = 1..Len(links)
           /\ \A k \in DOMAIN links : links[k] \in Files!Link
BY FilesAssumption, LenProperties, ElementOfSeq DEF FilesInv, Files!TypeOK

LEMMA FilesInitially == Files!Init => FilesInv
<1> SUFFICES ASSUME Files!Init PROVE FilesInv
  OBVIOUS
<1>1. catalogue \in Seq(Paths) /\ Len(catalogue) \in Nat /\ aLimit \in Nat
  BY FilesAssumption, LenProperties DEF Files!Init
<1>2. Files!TypeOK
  BY <1>1 DEF Files!Init, Files!TypeOK, Files!File, Files!Nothing
<1>3. Files!DownloadsAreSound
  BY DEF Files!Init, Files!DownloadsAreSound, Files!CopiesAreWhole,
         Files!MenuFollowsCatalogue, Files!DownloadIsWhole, Files!RootLinksLead,
         Files!Nothing
<1>. QED
  BY <1>2, <1>3 DEF FilesInv, Files!Init

(* An item is listed after what was to be copied has been: a copy it is linked
   to is whole, and no other file of the tree has changed. *)
LEMMA ListedItem ==
    ASSUME FilesInv, aPhase = "copy",
           NEW copied \in BOOLEAN, NEW n \in Nat, Files!List(copied, n),
           stored' \in [Paths -> Files!File],
           made \subseteq made', made' \subseteq Paths,
           \A p \in made' : stored'[p].size <= aLimit + 1,
           \A p \in Paths : p # Files!Path => stored'[p] = stored[p],
           ~copied => UNCHANGED stored \/ Files!Path \in made',
           copied => /\ Files!Path \in made'
                     /\ stored'[Files!Path].size = stored'[Files!Path].of
                     /\ stored'[Files!Path].size = n
    PROVE  FilesInv'
<1> DEFINE new == [item |-> aAt, copied |-> copied, size |-> n]
<1>1. /\ links' = Append(links, new) /\ aAt' = aAt + 1 /\ aPhase' = "head"
      /\ UNCHANGED <<catalogue, aLimit, reported, omitted, menus, aRoot, got>>
  BY DEF Files!List, Files!config
<1>2. aAt \in 1..Len(catalogue) /\ new \in Files!Link
  BY FilesFacts DEF FilesInv, Files!TypeOK, Files!Link, Files!Items
<1>3. /\ links' \in Seq(Files!Link) /\ Len(links') = Len(links) + 1
      /\ DOMAIN links' = 1..Len(links) + 1
      /\ \A k \in 1..Len(links) : links'[k] = links[k]
      /\ links'[Len(links) + 1] = new
  BY <1>1, <1>2, FilesFacts, AppendProperties, LenProperties
<1>4. \A k \in DOMAIN links : links[k].item \in 1..aAt - 1
  BY DEF FilesInv, Files!DownloadsAreSound, Files!MenuFollowsCatalogue
<1>5. Files!TypeOK'
  <2>1. aAt' \in 1..Len(catalogue') + 1
    BY <1>1, <1>2, FilesFacts
  <2>2. \A k \in DOMAIN links' : links'[k].item \in Files!Items
    BY <1>1, <1>2, <1>3, <1>4, FilesFacts DEF Files!Items
  <2>. QED
    BY <1>1, <1>3, <2>1, <2>2 DEF FilesInv, Files!TypeOK, Files!Items
<1>6. Files!CopiesAreWhole'
  <2> SUFFICES ASSUME NEW k \in DOMAIN links', links'[k].copied,
                      Files!ListedOnce(links'[k].item)
               PROVE  LET p == catalogue[links'[k].item]
                      IN /\ p \in made'
                         /\ stored'[p].size = stored'[p].of
                         /\ stored'[p].size = links'[k].size
    BY <1>1 DEF Files!CopiesAreWhole, Files!ListedOnce, Files!Items
  <2>1. CASE k = Len(links) + 1
    BY <2>1, <1>3 DEF Files!Path
  <2>2. CASE k \in 1..Len(links)
    <3>1. links'[k] = links[k] /\ links[k].item < aAt
          /\ links[k].item \in 1..Len(catalogue)
      BY <2>2, <1>2, <1>3, <1>4, FilesFacts
    <3>2. catalogue[links[k].item] # Files!Path
      BY <3>1, <1>2, FilesFacts DEF Files!ListedOnce, Files!Items, Files!Path
    <3>3. catalogue[links[k].item] \in Paths
      BY <3>1, FilesFacts, ElementOfSeq
    <3>. QED
      BY <2>2, <3>1, <3>2, <3>3, FilesFacts
      DEF FilesInv, Files!DownloadsAreSound, Files!CopiesAreWhole
  <2>. QED
    BY <2>1, <2>2, <1>3, FilesFacts
<1>7. Files!MenuFollowsCatalogue'
  <2>1. {links'[k].item : k \in DOMAIN links'}
            = {links[k].item : k \in DOMAIN links} \cup {aAt}
    <3>1. \A k \in DOMAIN links : k \in DOMAIN links' /\ links'[k] = links[k]
      BY <1>3, FilesFacts
    <3>2. \A k \in DOMAIN links' : k \in DOMAIN links \/ links'[k] = new
      BY <1>3, FilesFacts
    <3>3. Len(links) + 1 \in DOMAIN links' /\ links'[Len(links) + 1].item = aAt
      BY <1>3, FilesFacts
    <3>. QED
      BY <3>1, <3>2, <3>3
  <2>2. {links[k].item : k \in DOMAIN links} = (1..aAt - 1) \ omitted
    BY DEF FilesInv, Files!DownloadsAreSound, Files!MenuFollowsCatalogue
  <2>3. aAt \notin omitted
    BY FilesFacts DEF FilesInv
  <2>4. ((1..aAt - 1) \ omitted) \cup {aAt} = (1..(aAt + 1) - 1) \ omitted
    BY <2>3, <1>2, FilesFacts
  <2>5. \A k, l \in DOMAIN links' : k < l => links'[k].item < links'[l].item
    <3> SUFFICES ASSUME NEW k \in DOMAIN links', NEW l \in DOMAIN links', k < l
                 PROVE  links'[k].item < links'[l].item
      OBVIOUS
    <3>1. k \in 1..Len(links) /\ links'[k] = links[k] /\ links[k].item < aAt
      BY <1>2, <1>3, <1>4, FilesFacts
    <3>2. l \in 1..Len(links) \/ links'[l].item = aAt
      BY <1>3, FilesFacts
    <3>. QED
      BY <1>3, <3>1, <3>2, FilesFacts
      DEF FilesInv, Files!DownloadsAreSound, Files!MenuFollowsCatalogue
  <2>. QED
    BY <2>1, <2>2, <2>4, <2>5, <1>1 DEF Files!MenuFollowsCatalogue
<1>8. Files!DownloadIsWhole' /\ Files!RootLinksLead'
  BY <1>1 DEF FilesInv, Files!DownloadsAreSound, Files!DownloadIsWhole,
              Files!RootLinksLead, Files!ListedOnce, Files!Items
<1>9. \A i \in omitted' : i < aAt'
  BY <1>1, FilesFacts DEF FilesInv, Files!TypeOK, Files!Items
<1>. QED
  BY <1>5, <1>6, <1>7, <1>8, <1>9 DEF FilesInv, Files!DownloadsAreSound

(* Steps that leave the items and their files alone. *)
LEMMA MenusOnly ==
    ASSUME FilesInv, UNCHANGED <<catalogue, aLimit, aAt, reported, omitted, made,
                                 stored, links, got>>,
           aPhase' \in {"repos", "root", "published", "failed"},
           menus' \subseteq {"downloads", "repositories", "root"},
           aRoot' \subseteq {"downloads", "repositories"},
           aRoot' \subseteq menus', aPhase' = "published" => "root" \in menus'
    PROVE  FilesInv'
<1>1. Files!TypeOK'
  BY DEF FilesInv, Files!TypeOK, Files!Items
<1>2. Files!CopiesAreWhole'
  BY DEF FilesInv, Files!DownloadsAreSound, Files!CopiesAreWhole,
         Files!ListedOnce, Files!Items
<1>3. Files!MenuFollowsCatalogue'
  BY DEF FilesInv, Files!DownloadsAreSound, Files!MenuFollowsCatalogue
<1>4. Files!DownloadIsWhole'
  BY DEF FilesInv, Files!DownloadsAreSound, Files!DownloadIsWhole,
         Files!ListedOnce, Files!Items
<1>. QED
  BY <1>1, <1>2, <1>3, <1>4
  DEF FilesInv, Files!DownloadsAreSound, Files!RootLinksLead

(* Steps of a visitor. *)
LEMMA VisitOnly ==
    ASSUME FilesInv,
           UNCHANGED <<catalogue, aLimit, aPhase, aAt, reported, omitted, made,
                       stored, links, menus, aRoot>>,
           got' \in [by : {"nobody", "copy", "proxy", "listing"},
                     size : Nat, of : Nat],
           Files!DownloadIsWhole'
    PROVE  FilesInv'
<1>1. Files!TypeOK'
  BY DEF FilesInv, Files!TypeOK, Files!Items
<1>2. Files!CopiesAreWhole'
  BY DEF FilesInv, Files!DownloadsAreSound, Files!CopiesAreWhole,
         Files!ListedOnce, Files!Items
<1>3. Files!MenuFollowsCatalogue'
  BY DEF FilesInv, Files!DownloadsAreSound, Files!MenuFollowsCatalogue
<1>. QED
  BY <1>1, <1>2, <1>3 DEF FilesInv, Files!DownloadsAreSound, Files!RootLinksLead

LEMMA HeadKeepsFiles ==
    ASSUME FilesInv, Files!HeadSucceeds \/ Files!HeadFails
    PROVE  FilesInv'
<1>1. CASE Files!HeadSucceeds
  <2>1. UNCHANGED <<catalogue, aLimit, aAt, omitted, made, stored, links, menus,
                    aRoot, got>>
    BY <1>1 DEF Files!HeadSucceeds, Files!config, Files!tree
  <2>2. Files!TypeOK'
    BY <1>1, <2>1 DEF FilesInv, Files!HeadSucceeds, Files!TypeOK, Files!Items
  <2>3. Files!CopiesAreWhole'
    BY <2>1 DEF FilesInv, Files!DownloadsAreSound, Files!CopiesAreWhole,
                Files!ListedOnce, Files!Items
  <2>4. Files!MenuFollowsCatalogue'
    BY <2>1 DEF FilesInv, Files!DownloadsAreSound, Files!MenuFollowsCatalogue
  <2>5. Files!DownloadIsWhole' /\ Files!RootLinksLead'
    BY <1>1, <2>1 DEF FilesInv, Files!DownloadsAreSound, Files!DownloadIsWhole,
                Files!RootLinksLead, Files!ListedOnce, Files!Items, Files!HeadSucceeds
  <2>. QED
    BY <2>1, <2>2, <2>3, <2>4, <2>5 DEF FilesInv, Files!DownloadsAreSound
<1>2. CASE Files!HeadFails
  <2>1. /\ UNCHANGED <<catalogue, aLimit, aPhase, reported, made, stored, links,
                       menus, aRoot, got>>
        /\ aPhase = "head" /\ aAt \in 1..Len(catalogue)
        /\ omitted' = omitted \cup {aAt} /\ aAt' = aAt + 1
    BY <1>2, FilesFacts DEF Files!HeadFails, Files!config, Files!tree, Files!Items
  <2>2. Files!TypeOK'
    <3>1. aAt' \in 1..Len(catalogue') + 1 /\ omitted' \subseteq DOMAIN catalogue'
      BY <2>1, FilesFacts DEF FilesInv, Files!TypeOK, Files!Items
    <3>. QED
      BY <2>1, <3>1 DEF FilesInv, Files!TypeOK, Files!Items
  <2>3. Files!CopiesAreWhole'
    BY <2>1 DEF FilesInv, Files!DownloadsAreSound, Files!CopiesAreWhole,
                Files!ListedOnce, Files!Items
  <2>4. Files!MenuFollowsCatalogue'
    <3>1. (1..aAt - 1) \ omitted = (1..(aAt + 1) - 1) \ (omitted \cup {aAt})
      BY <2>1, FilesFacts DEF FilesInv
    <3>. QED
      BY <2>1, <3>1
      DEF FilesInv, Files!DownloadsAreSound, Files!MenuFollowsCatalogue
  <2>5. Files!DownloadIsWhole' /\ Files!RootLinksLead'
    BY <2>1 DEF FilesInv, Files!DownloadsAreSound, Files!DownloadIsWhole,
                Files!RootLinksLead, Files!ListedOnce, Files!Items
  <2>6. \A i \in omitted' : i < aAt'
    BY <2>1, FilesFacts DEF FilesInv, Files!TypeOK, Files!Items
  <2>. QED
    BY <2>2, <2>3, <2>4, <2>5, <2>6 DEF FilesInv, Files!DownloadsAreSound
<1>. QED
  BY <1>1, <1>2

LEMMA CopyKeepsFiles ==
    ASSUME FilesInv, Files!LeaveProxied \/ Files!Copy
    PROVE  FilesInv'
<1>1. aPhase = "copy" /\ Files!Path \in Paths
  BY FilesFacts, ElementOfSeq
  DEF FilesInv, Files!TypeOK, Files!Items, Files!Path, Files!LeaveProxied, Files!Copy,
      Files!CopyRefused, Files!CopySucceeds, Files!CopyTooLong, Files!CopyBreaks
<1>2. ASSUME NEW copied \in BOOLEAN, NEW n \in Nat, Files!List(copied, n),
             NEW k \in 0..aLimit + 1, NEW of \in Nat, Files!Keep(k, of),
             copied => k = of /\ k = n
      PROVE  FilesInv'
  <2>1. /\ made' = made \cup {Files!Path}
        /\ stored' = [stored EXCEPT ![Files!Path] = [size |-> k, of |-> of]]
    BY <1>2 DEF Files!Keep
  <2>2. stored \in [Paths -> Files!File] /\ made \subseteq Paths
        /\ \A p \in made : stored[p].size <= aLimit + 1
    BY DEF FilesInv, Files!TypeOK
  <2>3. [size |-> k, of |-> of] \in Files!File /\ k <= aLimit + 1
    BY FilesFacts DEF Files!File
  <2>4. stored' \in [Paths -> Files!File]
    BY <1>1, <2>1, <2>2, <2>3
  <2>5. stored'[Files!Path] = [size |-> k, of |-> of]
        /\ \A p \in Paths : p # Files!Path => stored'[p] = stored[p]
    BY <1>1, <2>1, <2>2
  <2>6. \A p \in made' : stored'[p].size <= aLimit + 1
    BY <1>1, <2>1, <2>2, <2>3, <2>5
  <2>. QED
    BY <1>1, <1>2, <2>1, <2>2, <2>4, <2>5, <2>6, ListedItem
<1>3. ASSUME Files!List(FALSE, reported), UNCHANGED Files!tree
      PROVE  FilesInv'
  <2>1. UNCHANGED <<made, stored>> /\ reported \in Nat
    BY <1>3, FilesFacts DEF Files!tree
  <2>. QED
    BY <1>1, <1>3, <2>1, ListedItem DEF FilesInv, Files!TypeOK
<1>4. BodySizes \subseteq Nat /\ aLimit \in Nat /\ reported \in Nat
  BY FilesAssumption, FilesFacts
<1>5. CASE Files!LeaveProxied \/ Files!CopyRefused
  BY <1>3, <1>5 DEF Files!LeaveProxied, Files!CopyRefused
<1>6. CASE Files!CopySucceeds
  <2>1. PICK n \in BodySizes : n <= aLimit /\ Files!Keep(n, n) /\ Files!List(TRUE, n)
    BY <1>6 DEF Files!CopySucceeds
  <2>2. n \in Nat /\ n \in 0..aLimit + 1
    BY <1>4, <2>1
  <2>. QED
    BY <1>2, <2>1, <2>2
<1>7. CASE Files!CopyTooLong
  <2>1. PICK n \in BodySizes : Files!Keep(aLimit + 1, n)
    BY <1>7 DEF Files!CopyTooLong
  <2>2. Files!List(FALSE, reported)
    BY <1>7 DEF Files!CopyTooLong
  <2>3. n \in Nat /\ aLimit + 1 \in 0..aLimit + 1
    BY <1>4
  <2>. QED
    BY <1>2, <1>4, <2>1, <2>2, <2>3
<1>8. CASE Files!CopyBreaks
  <2>1. PICK n \in BodySizes, k \in 0..aLimit : Files!Keep(k, n)
    BY <1>8 DEF Files!CopyBreaks
  <2>2. Files!List(FALSE, reported)
    BY <1>8 DEF Files!CopyBreaks
  <2>3. n \in Nat /\ k \in 0..aLimit + 1
    BY <1>4
  <2>. QED
    BY <1>2, <1>4, <2>1, <2>2, <2>3
<1>. QED
  BY <1>5, <1>6, <1>7, <1>8 DEF Files!Copy

LEMMA VisitKeepsFiles ==
    ASSUME FilesInv, Files!Visit
    PROVE  FilesInv'
<1>1. ASSUME NEW k \in DOMAIN links, Files!FollowCopy(k)
      PROVE  FilesInv'
  <2> DEFINE p == catalogue[links[k].item]
             f == stored[p]
  <2>1. /\ UNCHANGED <<catalogue, aLimit, aPhase, aAt, reported, omitted, made,
                       stored, links, menus, aRoot>>
        /\ got' = [by |-> "copy", size |-> f.size, of |-> f.of]
        /\ links[k].copied
    BY <1>1 DEF Files!FollowCopy, Files!config, Files!tree
  <2>2. links[k].item \in Files!Items /\ p \in Paths
    BY FilesFacts, ElementOfSeq DEF FilesInv, Files!TypeOK, Files!Items
  <2>3. f.size \in Nat /\ f.of \in Nat
    BY <2>2 DEF FilesInv, Files!TypeOK, Files!File
  <2>4. f.size # f.of => ~Files!ListedOnce(links[k].item)
    BY <2>1 DEF FilesInv, Files!DownloadsAreSound, Files!CopiesAreWhole
  <2>5. Files!DownloadIsWhole'
    BY <2>1, <2>2, <2>4 DEF Files!DownloadIsWhole, Files!ListedOnce, Files!Items
  <2>. QED
    BY <2>1, <2>3, <2>5, VisitOnly
<1>2. ASSUME NEW k \in DOMAIN links, Files!FollowProxy(k)
      PROVE  FilesInv'
  <2>1. PICK n \in BodySizes :
            got' = [by |-> "proxy", size |-> Files!Cut(n), of |-> n]
    BY <1>2 DEF Files!FollowProxy
  <2>2. n \in Nat /\ Files!Cut(n) \in Nat
        /\ (Files!Cut(n) # n => Files!Cut(n) = ProxyLimit)
    BY FilesAssumption DEF Files!Cut
  <2>3. Files!DownloadIsWhole'
    BY <2>1, <2>2 DEF Files!DownloadIsWhole
  <2>. QED
    BY <1>2, <2>1, <2>2, <2>3, VisitOnly
    DEF Files!FollowProxy, Files!config, Files!tree
<1>3. ASSUME NEW p \in made, Files!FollowListing(p)
      PROVE  FilesInv'
  <2>1. stored[p].size \in Nat /\ stored[p].of \in Nat
    BY DEF FilesInv, Files!TypeOK, Files!File
  <2>2. Files!DownloadIsWhole'
    BY <1>3 DEF Files!FollowListing, Files!DownloadIsWhole
  <2>. QED
    BY <1>3, <2>1, <2>2, VisitOnly DEF Files!FollowListing, Files!config, Files!tree
<1>. QED
  BY <1>1, <1>2, <1>3 DEF Files!Visit

LEMMA FilesNext == FilesInv /\ [Files!Next]_fileVars => FilesInv'
<1> SUFFICES ASSUME FilesInv, [Files!Next]_fileVars PROVE FilesInv'
  OBVIOUS
<1>1. /\ menus \subseteq {"downloads", "repositories", "root"}
      /\ aRoot \subseteq {"downloads", "repositories"} /\ aRoot \subseteq menus
  BY DEF FilesInv, Files!TypeOK, Files!DownloadsAreSound, Files!RootLinksLead
<1>2. CASE Files!NoCatalogue \/ Files!NoRepositories \/ Files!RunFails
  BY <1>1, <1>2, MenusOnly
  DEF Files!NoCatalogue, Files!NoRepositories, Files!RunFails, Files!config, Files!tree
<1>3. ASSUME NEW ok \in BOOLEAN, Files!WriteDownloads(ok)
      PROVE  FilesInv'
  BY <1>1, <1>3, MenusOnly DEF Files!WriteDownloads, Files!config, Files!tree
<1>4. CASE Files!WriteRepositories \/ Files!WriteRoot
  BY <1>1, <1>4, MenusOnly
  DEF Files!WriteRepositories, Files!WriteRoot, Files!config, Files!tree
<1>5. CASE Files!HeadSucceeds \/ Files!HeadFails
  BY <1>5, HeadKeepsFiles
<1>6. CASE Files!LeaveProxied \/ Files!Copy
  BY <1>6, CopyKeepsFiles
<1>7. CASE Files!Visit
  BY <1>7, VisitKeepsFiles
<1>8. CASE UNCHANGED fileVars
  BY <1>8 DEF fileVars, FilesInv, Files!TypeOK, Files!DownloadsAreSound,
      Files!CopiesAreWhole, Files!MenuFollowsCatalogue, Files!DownloadIsWhole,
      Files!RootLinksLead, Files!ListedOnce, Files!Items
<1>. QED
  BY <1>2, <1>3, <1>4, <1>5, <1>6, <1>7, <1>8 DEF Files!Next, Files!Run

-----------------------------------------------------------------------------
(* The pages: GitHubPages.                                                  *)

Repositories(o) == UNION {Range(l) : l \in Listings[o]}
Marks == UNION {Range(t) : t \in Tags}

InOrg == gPhase \in {"repo", "releases", "notes", "menu"}
InRepo == gPhase \in {"releases", "notes", "menu"}

(* Where the run is. *)
Place ==
    /\ gPhase \in {"list", "repo", "releases", "notes", "menu", "done", "failed"}
    /\ gOrg \in 1..Len(OrgNames) + 1
    /\ gRepos \in Seq(DOMAIN Slug) /\ gAt \in 1..Len(gRepos) + 1
    /\ gRepos # <<>> => \E o \in DOMAIN Listings : gRepos \in Listings[o]
    /\ InOrg => gOrg <= Len(OrgNames) /\ gRepos \in Listings[OrgNames[gOrg]]
    /\ InRepo => gAt <= Len(gRepos)
    /\ tags \in Seq(Marks)
    /\ \A s \in skipped : Len(s) \in 1..2

(* The repository at hand, and those the run is through with. *)
Past(o) == \E i \in 1..gOrg - 1 : o = OrgNames[i]
Current(o, r) == InRepo /\ o = OrgNames[gOrg] /\ r = gRepos[gAt]
Before(o, r) ==
    Past(o) \/ (InOrg /\ o = OrgNames[gOrg] /\ \E j \in 1..gAt - 1 : r = gRepos[j])

(* A page that need not be linked. *)
Collides(s) == \E r, q \in DOMAIN Slug : r # q /\ Slug[r] = s /\ Slug[q] = s
Excused(o, s) ==
    \/ \E x \in skipped : x[1] = o /\ (Len(x) = 2 => Slug[x[2]] = s)
    \/ Collides(s)

Tos(menu) == {l.to : l \in Range(menu)}
LinkedBy(from, p) == from \in DOMAIN written /\ p \in Tos(written[from].links)

OrgLinks(o, menu) == \A l \in Range(menu) :
    \E r \in Repositories(o) :
        l = Pages!Link(Pages!RepoPage(o, r), <<o, r>>) /\ l.to \in DOMAIN written
RepoLinks(o, r, menu) == \A l \in Range(menu) :
    /\ l.about = <<o, r>> /\ l.to \in DOMAIN written
    /\ l.to \in {Pages!ReadmePage(o, r), Pages!ReleasesPage(o, r)}
NotesLink(o, r, l) == \E t \in Marks :
    l = Pages!Link(Pages!NotesPage(o, r, t), <<o, r, t>>) /\ l.to \in DOMAIN written

(* The menus begun. *)
IsSeq(s) == s \in Seq(Range(s))
MenusBegun ==
    /\ IsSeq(gRoot) /\ IsSeq(orgMenu) /\ IsSeq(repoMenu) /\ IsSeq(notesMenu)
    /\ \A l \in Range(gRoot) : \E i \in 1..gOrg - 1 :
           /\ l = Pages!Link(Pages!OrgPage(OrgNames[i]), <<OrgNames[i]>>)
           /\ l.to \in DOMAIN written
    /\ InOrg => \A l \in Range(orgMenu) : \E j \in 1..gAt - 1 :
           /\ l = Pages!Link(Pages!RepoPage(OrgNames[gOrg], gRepos[j]),
                             <<OrgNames[gOrg], gRepos[j]>>)
           /\ l.to \in DOMAIN written
    /\ InRepo => RepoLinks(OrgNames[gOrg], gRepos[gAt], repoMenu)
    /\ gPhase = "notes" =>
           \A l \in Range(notesMenu) : NotesLink(OrgNames[gOrg], gRepos[gAt], l)

(* What may be on a page, and from where it is linked. *)
RootOK(p) ==
    /\ p = Pages!RootPage /\ gPhase = "done"
    /\ written[p] = Pages!Menu(<<>>, gRoot)

OrgOK(p, o) ==
    /\ p = Pages!OrgPage(o) /\ written[p].about = <<o>>
    /\ OrgLinks(o, written[p].links)
    /\ Past(o) /\ p \in Tos(gRoot)

RepoOK(p, o, r) ==
    /\ p = Pages!RepoPage(o, r) /\ written[p].about = <<o, r>>
    /\ RepoLinks(o, r, written[p].links)
    /\ Before(o, r)
    /\ \/ Excused(o, Slug[r])
       \/ Past(o) /\ LinkedBy(Pages!OrgPage(o), p)
       \/ ~Past(o) /\ p \in Tos(orgMenu)

Placed(p, o, r) ==
    \/ Current(o, r) /\ p \in Tos(repoMenu)
    \/ Before(o, r) /\ (Excused(o, Slug[r]) \/ LinkedBy(Pages!RepoPage(o, r), p))

ReadmeOK(p, o, r) ==
    /\ p = Pages!ReadmePage(o, r) /\ written[p].about = <<o, r>>
    /\ written[p].links = <<>>
    /\ Placed(p, o, r)

ReleasesOK(p, o, r) ==
    /\ p = Pages!ReleasesPage(o, r) /\ written[p].about = <<o, r>>
    /\ \A l \in Range(written[p].links) :
           NotesLink(o, r, l) \/ l = Pages!Link(Pages!RepoPage(o, r), <<o, r>>)
    /\ Placed(p, o, r) /\ (Current(o, r) => gPhase = "menu")

NotesOK(p, o, r, t) ==
    /\ p = Pages!NotesPage(o, r, t) /\ written[p].about = <<o, r, t>>
    /\ written[p].links = <<>>
    /\ \/ Current(o, r) /\ gPhase = "notes" /\ p \in Tos(notesMenu)
       \/ /\ (Current(o, r) /\ gPhase = "menu") \/ Before(o, r)
          /\ Excused(o, Slug[r]) \/ LinkedBy(Pages!ReleasesPage(o, r), p)

Names == Range(OrgNames)
PageOK(p) ==
    \/ RootOK(p)
    \/ \E o \in Names : OrgOK(p, o)
    \/ \E o \in Names : \E r \in Repositories(o) :
           \/ RepoOK(p, o, r) \/ ReadmeOK(p, o, r) \/ ReleasesOK(p, o, r)
           \/ \E t \in Marks : NotesOK(p, o, r, t)

AllPagesOK == \A p \in DOMAIN written : PageOK(p)

(* The repositories an organisation's menu shows. *)
Shown(o) == {i \in 1..gAt - 1 : \E k \in DOMAIN orgMenu : orgMenu[k].about = <<o, gRepos[i]>>}

Counted ==
    InOrg =>
        /\ Len(orgMenu) = Cardinality(Shown(OrgNames[gOrg]))
        /\ \A i \in 1..gAt - 1 : \/ <<OrgNames[gOrg], gRepos[i]>> \in skipped
                                 \/ i \in Shown(OrgNames[gOrg])

PagesInv == Place /\ MenusBegun /\ AllPagesOK /\ Counted

-----------------------------------------------------------------------------
(* Sequences, paths and what is put on the disk. *)

LEMMA Appended ==
    ASSUME NEW s, IsSeq(s), NEW x
    PROVE  /\ IsSeq(Append(s, x)) /\ Range(Append(s, x)) = Range(s) \cup {x}
           /\ Len(s) \in Nat /\ DOMAIN s = 1..Len(s)
           /\ Len(Append(s, x)) = Len(s) + 1 /\ DOMAIN Append(s, x) = 1..Len(s) + 1
           /\ \A i \in 1..Len(s) : Append(s, x)[i] = s[i]
           /\ Append(s, x)[Len(s) + 1] = x
<1> DEFINE S == Range(s) \cup {x}
<1>1. s \in Seq(S)
  BY SeqMonotonic DEF IsSeq
<1>2. /\ Append(s, x) \in Seq(S) /\ Len(Append(s, x)) = Len(s) + 1
      /\ \A i \in 1..Len(s) : Append(s, x)[i] = s[i]
      /\ Append(s, x)[Len(s) + 1] = x
  BY <1>1, AppendProperties
<1>3. /\ Len(s) \in Nat /\ DOMAIN s = 1..Len(s)
      /\ DOMAIN Append(s, x) = 1..Len(s) + 1
  BY <1>1, <1>2, LenProperties
<1>4. Range(Append(s, x)) = S
  <2>1. \A i \in DOMAIN s : i \in DOMAIN Append(s, x) /\ Append(s, x)[i] = s[i]
    BY <1>2, <1>3
  <2>2. \A i \in DOMAIN Append(s, x) : i \in DOMAIN s \/ Append(s, x)[i] = x
    BY <1>2, <1>3
  <2>3. Len(s) + 1 \in DOMAIN Append(s, x)
    BY <1>3
  <2>. QED
    BY <2>1, <2>2, <2>3, <1>2 DEF Range
<1>. QED
  BY <1>2, <1>3, <1>4 DEF IsSeq

LEMMA EmptyMenu == IsSeq(<<>>) /\ Range(<<>>) = {} /\ Tos(<<>>) = {} /\ Len(<<>>) = 0
BY DEF IsSeq, Range, Tos

LEMMA OneLink == \A x : IsSeq(<<x>>) /\ Range(<<x>>) = {x}
BY DEF IsSeq, Range

LEMMA Thrice == \A x, y, z : Append(<<x, y>>, z) = <<x, y, z>>
<1> SUFFICES ASSUME NEW x, NEW y, NEW z PROVE Append(<<x, y>>, z) = <<x, y, z>>
  OBVIOUS
<1> DEFINE S == {x, y, z}
<1>1. /\ <<x, y>> \in Seq(S) /\ Len(<<x, y>>) = 2 /\ z \in S
      /\ <<x, y>>[1] = x /\ <<x, y>>[2] = y
  OBVIOUS
<1>2. /\ <<x, y, z>> \in Seq(S) /\ Len(<<x, y, z>>) = 3
      /\ <<x, y, z>>[1] = x /\ <<x, y, z>>[2] = y /\ <<x, y, z>>[3] = z
  OBVIOUS
<1>3. /\ Append(<<x, y>>, z) \in Seq(S) /\ Len(Append(<<x, y>>, z)) = 3
      /\ Append(<<x, y>>, z)[1] = x /\ Append(<<x, y>>, z)[2] = y
      /\ Append(<<x, y>>, z)[3] = z
  BY <1>1, AppendProperties
<1>4. \A i \in 1..3 : i = 1 \/ i = 2 \/ i = 3
  OBVIOUS
<1>. QED
  BY <1>2, <1>3, <1>4, SeqEqual

LEMMA PathsTell ==
    ASSUME NEW o, NEW r, NEW t, NEW u, NEW v, NEW w
    PROVE  /\ Pages!OrgPage(o) = Pages!OrgPage(u) => o = u
           /\ Pages!RepoPage(o, r) = Pages!RepoPage(u, v) => o = u /\ Slug[r] = Slug[v]
           /\ Pages!ReadmePage(o, r) = Pages!ReadmePage(u, v) => o = u /\ Slug[r] = Slug[v]
           /\ Pages!ReleasesPage(o, r) = Pages!ReleasesPage(u, v) =>
                  o = u /\ Slug[r] = Slug[v]
           /\ Pages!NotesPage(o, r, t) = Pages!NotesPage(u, v, w) =>
                  o = u /\ Slug[r] = Slug[v] /\ Slug[t] = Slug[w]
           /\ Slug[r] = Slug[v] =>
                  /\ Pages!RepoPage(o, r) = Pages!RepoPage(o, v)
                  /\ Pages!ReleasesPage(o, r) = Pages!ReleasesPage(o, v)
<1>1. Pages!OrgPage(o)[2] = o /\ Pages!OrgPage(u)[2] = u
  BY DEF Pages!RootPage, Pages!OrgPage, Pages!RepoPage, Pages!ReadmePage,
         Pages!ReleasesPage, Pages!NotesPage
<1>2. /\ Pages!RepoPage(o, r)[2] = o /\ Pages!RepoPage(u, v)[2] = u
      /\ Pages!RepoPage(o, r)[3] = Slug[r] /\ Pages!RepoPage(u, v)[3] = Slug[v]
  BY DEF Pages!RootPage, Pages!OrgPage, Pages!RepoPage, Pages!ReadmePage,
         Pages!ReleasesPage, Pages!NotesPage
<1>3. /\ Pages!ReadmePage(o, r)[2] = o /\ Pages!ReadmePage(u, v)[2] = u
      /\ Pages!ReadmePage(o, r)[3] = Slug[r] /\ Pages!ReadmePage(u, v)[3] = Slug[v]
  BY DEF Pages!RootPage, Pages!OrgPage, Pages!RepoPage, Pages!ReadmePage,
         Pages!ReleasesPage, Pages!NotesPage
<1>4. /\ Pages!ReleasesPage(o, r)[2] = o /\ Pages!ReleasesPage(u, v)[2] = u
      /\ Pages!ReleasesPage(o, r)[3] = Slug[r] /\ Pages!ReleasesPage(u, v)[3] = Slug[v]
  BY DEF Pages!RootPage, Pages!OrgPage, Pages!RepoPage, Pages!ReadmePage,
         Pages!ReleasesPage, Pages!NotesPage
<1>5. /\ Pages!NotesPage(o, r, t)[2] = o /\ Pages!NotesPage(u, v, w)[2] = u
      /\ Pages!NotesPage(o, r, t)[3] = Slug[r] /\ Pages!NotesPage(u, v, w)[3] = Slug[v]
      /\ Pages!NotesPage(o, r, t)[5] = Slug[t] /\ Pages!NotesPage(u, v, w)[5] = Slug[w]
  BY DEF Pages!RootPage, Pages!OrgPage, Pages!RepoPage, Pages!ReadmePage,
         Pages!ReleasesPage, Pages!NotesPage
<1>6. Slug[r] = Slug[v] =>
          /\ Pages!RepoPage(o, r) = Pages!RepoPage(o, v)
          /\ Pages!ReleasesPage(o, r) = Pages!ReleasesPage(o, v)
  BY DEF Pages!RootPage, Pages!OrgPage, Pages!RepoPage, Pages!ReadmePage,
         Pages!ReleasesPage, Pages!NotesPage
<1>7. Pages!OrgPage(o) = Pages!OrgPage(u) => o = u
  BY <1>1
<1>8. Pages!RepoPage(o, r) = Pages!RepoPage(u, v) => o = u /\ Slug[r] = Slug[v]
  BY <1>2
<1>9. Pages!ReadmePage(o, r) = Pages!ReadmePage(u, v) => o = u /\ Slug[r] = Slug[v]
  BY <1>3
<1>10. Pages!ReleasesPage(o, r) = Pages!ReleasesPage(u, v) => o = u /\ Slug[r] = Slug[v]
  BY <1>4
<1>11. Pages!NotesPage(o, r, t) = Pages!NotesPage(u, v, w) =>
           o = u /\ Slug[r] = Slug[v] /\ Slug[t] = Slug[w]
  BY <1>5
<1>. QED
  BY <1>6, <1>7, <1>8, <1>9, <1>10, <1>11

LEMMA Kinds ==
    ASSUME NEW o, NEW r, NEW t, NEW u, NEW v, NEW w
    PROVE  /\ Pages!RootPage # Pages!OrgPage(o)
           /\ Pages!RootPage # Pages!RepoPage(o, r)
           /\ Pages!RootPage # Pages!ReadmePage(o, r)
           /\ Pages!RootPage # Pages!ReleasesPage(o, r)
           /\ Pages!RootPage # Pages!NotesPage(o, r, t)
           /\ Pages!OrgPage(o) # Pages!RepoPage(u, v)
           /\ Pages!OrgPage(o) # Pages!ReadmePage(u, v)
           /\ Pages!OrgPage(o) # Pages!ReleasesPage(u, v)
           /\ Pages!OrgPage(o) # Pages!NotesPage(u, v, w)
           /\ Pages!RepoPage(o, r) # Pages!ReadmePage(u, v)
           /\ Pages!RepoPage(o, r) # Pages!ReleasesPage(u, v)
           /\ Pages!RepoPage(o, r) # Pages!NotesPage(u, v, w)
           /\ Pages!ReadmePage(o, r) # Pages!ReleasesPage(u, v)
           /\ Pages!ReadmePage(o, r) # Pages!NotesPage(u, v, w)
           /\ Pages!ReleasesPage(o, r) # Pages!NotesPage(u, v, w)
<1>1. Len(Pages!RootPage) = 1 /\ Len(Pages!OrgPage(o)) = 2
      /\ Len(Pages!RepoPage(o, r)) = 3
      /\ Len(Pages!ReadmePage(o, r)) = 4 /\ Len(Pages!ReleasesPage(o, r)) = 4
  BY DEF Pages!RootPage, Pages!OrgPage, Pages!RepoPage, Pages!ReadmePage,
         Pages!ReleasesPage, Pages!NotesPage
<1>2. Len(Pages!RepoPage(u, v)) = 3
      /\ Len(Pages!ReadmePage(u, v)) = 4 /\ Len(Pages!ReleasesPage(u, v)) = 4
      /\ Len(Pages!NotesPage(u, v, w)) = 5 /\ Len(Pages!NotesPage(o, r, t)) = 5
  BY DEF Pages!RootPage, Pages!OrgPage, Pages!RepoPage, Pages!ReadmePage,
         Pages!ReleasesPage, Pages!NotesPage
<1>3. Pages!ReadmePage(o, r)[4] = "readme.txt"
      /\ Pages!ReleasesPage(u, v)[4] = "releases"
  BY DEF Pages!RootPage, Pages!OrgPage, Pages!RepoPage, Pages!ReadmePage,
         Pages!ReleasesPage, Pages!NotesPage
<1>4. Pages!ReadmePage(o, r) # Pages!ReleasesPage(u, v)
  BY <1>3
<1>. QED
  BY <1>1, <1>2, <1>4

LEMMA PageLengths ==
    \A o, r, t : /\ Len(Pages!RootPage) = 1 /\ Len(Pages!OrgPage(o)) = 2
                 /\ Len(Pages!RepoPage(o, r)) = 3
                 /\ Len(Pages!ReadmePage(o, r)) = 4
                 /\ Len(Pages!ReleasesPage(o, r)) = 4
                 /\ Len(Pages!NotesPage(o, r, t)) = 5
BY DEF Pages!RootPage, Pages!OrgPage, Pages!RepoPage, Pages!ReadmePage,
       Pages!ReleasesPage, Pages!NotesPage

LEMMA PutOn ==
    ASSUME NEW pg, NEW c, Pages!Put(pg, c)
    PROVE  /\ DOMAIN written' = DOMAIN written \cup {pg} /\ written'[pg] = c
           /\ \A p \in DOMAIN written : p # pg => written'[p] = written[p]
BY DEF Pages!Put

LEMMA Linked ==
    ASSUME NEW pg, NEW a
    PROVE  Pages!Link(pg, a).to = pg /\ Pages!Link(pg, a).about = a
BY DEF Pages!Link

LEMMA MenuFields ==
    ASSUME NEW a, NEW m
    PROVE  /\ Pages!Menu(a, m).about = a /\ Pages!Menu(a, m).links = m
           /\ Pages!Text(a).about = a /\ Pages!Text(a).links = <<>>
BY DEF Pages!Menu, Pages!Text

(* The facts that every step needs. *)
LEMMA PlaceFacts ==
    ASSUME Place
    PROVE  /\ Len(OrgNames) \in Nat /\ DOMAIN OrgNames = 1..Len(OrgNames)
           /\ gOrg \in Nat /\ gAt \in Nat /\ Len(gRepos) \in Nat
           /\ DOMAIN gRepos = 1..Len(gRepos)
           /\ gOrg \in 1..Len(OrgNames) => OrgNames[gOrg] \in Names
           /\ \A i \in 1..Len(OrgNames) : OrgNames[i] \in Names
           /\ \A i, j \in 1..Len(OrgNames) : OrgNames[i] = OrgNames[j] => i = j
           /\ Names \subseteq DOMAIN Listings
           /\ \A i, j \in 1..Len(gRepos) : gRepos[i] = gRepos[j] => i = j
           /\ InOrg => \A i \in 1..Len(gRepos) :
                           gRepos[i] \in Repositories(OrgNames[gOrg])
<1>1. /\ Len(OrgNames) \in Nat /\ DOMAIN OrgNames = 1..Len(OrgNames)
      /\ \A i \in 1..Len(OrgNames) : OrgNames[i] \in DOMAIN Listings
  BY NamesAssumption, LenProperties, ElementOfSeq
<1>2. /\ gOrg \in Nat /\ Len(gRepos) \in Nat /\ gAt \in Nat
      /\ DOMAIN gRepos = 1..Len(gRepos)
  BY <1>1, LenProperties DEF Place
<1>3. /\ \A i, j \in 1..Len(OrgNames) : OrgNames[i] = OrgNames[j] => i = j
      /\ \A i \in 1..Len(OrgNames) : OrgNames[i] \in Names
      /\ Names \subseteq DOMAIN Listings
  BY <1>1, NamesAssumption DEF Distinct, Names, Range
<1>4. \A i, j \in 1..Len(gRepos) : gRepos[i] = gRepos[j] => i = j
  <2>1. CASE gRepos = <<>>
    BY <2>1, <1>2
  <2>2. CASE gRepos # <<>>
    BY <2>2, <1>2, NamesAssumption DEF Place, Distinct
  <2>. QED
    BY <2>1, <2>2
<1>5. InOrg => \A i \in 1..Len(gRepos) : gRepos[i] \in Repositories(OrgNames[gOrg])
  BY <1>2 DEF Place, Repositories, Range
<1>. QED
  BY <1>1, <1>2, <1>3, <1>4, <1>5

(* Two repositories of an organisation with one slug collide. *)
LEMMA OneSlug ==
    ASSUME NEW o \in Names, NEW r \in Repositories(o), NEW q \in Repositories(o),
           r # q, Slug[r] = Slug[q]
    PROVE  Collides(Slug[r])
<1>1. o \in DOMAIN Listings
  BY NamesAssumption, LenProperties, ElementOfSeq DEF Names, Range
<1>2. \A x \in Repositories(o) : x \in DOMAIN Slug
  <2> SUFFICES ASSUME NEW l \in Listings[o], NEW i \in DOMAIN l
               PROVE  l[i] \in DOMAIN Slug
    BY DEF Repositories, Range
  <2>. QED
    BY <1>1, NamesAssumption, LenProperties, ElementOfSeq
<1>. QED
  BY <1>2 DEF Collides

(* The repository at hand is a new one. *)
OneIsNew == \A o, r : Current(o, r) => ~Before(o, r) /\ ~Past(o)

LEMMA NotBoth == Place => OneIsNew
BY PlaceFacts DEF OneIsNew, Current, Before, Past, InRepo, InOrg, Place

LEMMA NotBothNext == Place' => OneIsNew'
BY NotBoth, PTL

-----------------------------------------------------------------------------
(* A page stays sound when another one is written: what a step must do to the
   rest of the state for that. *)

Keeps(pg) ==
    /\ DOMAIN written \subseteq DOMAIN written'
    /\ \A p \in DOMAIN written : p # pg => written'[p] = written[p]
    /\ skipped \subseteq skipped'

(* The page is not one that others are linked from, unless they collide. *)
Apart(pg) ==
    /\ \A o : Past(o) => pg # Pages!OrgPage(o)
    /\ \A o \in Names : \A r \in Repositories(o) :
          Before(o, r) /\ pg \in {Pages!RepoPage(o, r), Pages!ReleasesPage(o, r)} =>
              Collides(Slug[r])
    /\ \A o, r : Current(o, r) /\ gPhase = "menu" => pg # Pages!ReleasesPage(o, r)

(* What is done stays done. *)
Onward ==
    /\ \A o : Past(o) => Past(o)'
    /\ \A o, r : Before(o, r) => Before(o, r)'
    /\ Tos(gRoot) \subseteq Tos(gRoot)'
    /\ gPhase # "done"

(* The repositories of the organisation at hand are linked from its menu. *)
ReposMove ==
    \A o, r : Before(o, r) /\ ~Past(o) =>
        \/ Excused(o, Slug[r])'
        \/ Past(o)' /\ \A p \in Tos(orgMenu) : LinkedBy(Pages!OrgPage(o), p)'
        \/ ~Past(o)' /\ Tos(orgMenu) \subseteq Tos(orgMenu)'

(* The files of the repository at hand are linked from its menu, *)
FilesMove ==
    \A o, r : Current(o, r) =>
        \/ Current(o, r)' /\ gPhase # "menu" /\ Tos(repoMenu) \subseteq Tos(repoMenu)'
        \/ /\ Before(o, r)'
           /\ \/ Excused(o, Slug[r])'
              \/ \A p \in Tos(repoMenu) : LinkedBy(Pages!RepoPage(o, r), p)'

(* and the notes of its releases from that of the releases. *)
NotesMove ==
    \A o, r : Current(o, r) /\ gPhase \in {"notes", "menu"} =>
        \/ Excused(o, Slug[r])' /\ Before(o, r)'
        \/ gPhase = "menu" /\ Before(o, r)'
        \/ /\ gPhase = "notes" /\ Current(o, r)'
           /\ \/ gPhase' = "notes" /\ Tos(notesMenu) \subseteq Tos(notesMenu)'
              \/ /\ gPhase' = "menu"
                 /\ \A p \in Tos(notesMenu) : LinkedBy(Pages!ReleasesPage(o, r), p)'

LEMMA OrgKept ==
    ASSUME NEW pg, Keeps(pg), Onward, NEW p \in DOMAIN written, p # pg,
           NEW o, OrgOK(p, o)
    PROVE  OrgOK(p, o)'
<1>1. written'[p] = written[p] /\ DOMAIN written \subseteq DOMAIN written'
  BY DEF Keeps
<1>2. OrgLinks(o, written[p].links)'
  BY <1>1 DEF OrgOK, OrgLinks
<1>. QED
  BY <1>1, <1>2 DEF OrgOK, Onward

LEMMA LinksKept ==
    ASSUME NEW pg, Keeps(pg), NEW p, NEW from, from # pg, LinkedBy(from, p)
    PROVE  LinkedBy(from, p)'
BY DEF Keeps, LinkedBy, Tos

LEMMA ExcuseKept ==
    ASSUME NEW pg, Keeps(pg), NEW o, NEW s, Excused(o, s)
    PROVE  Excused(o, s)'
BY DEF Keeps, Excused, Collides

LEMMA RepoKept ==
    ASSUME NEW pg, Keeps(pg), Apart(pg), Onward, ReposMove,
           NEW p \in DOMAIN written, p # pg, NEW o, NEW r, RepoOK(p, o, r)
    PROVE  RepoOK(p, o, r)'
<1>1. written'[p] = written[p] /\ DOMAIN written \subseteq DOMAIN written'
  BY DEF Keeps
<1>2. RepoLinks(o, r, written[p].links)'
  BY <1>1 DEF RepoOK, RepoLinks
<1>3. Before(o, r) /\ Before(o, r)'
  BY DEF RepoOK, Onward
<1>4. \/ Excused(o, Slug[r])'
      \/ Past(o)' /\ LinkedBy(Pages!OrgPage(o), p)'
      \/ ~Past(o)' /\ p \in Tos(orgMenu)'
  <2>1. CASE Excused(o, Slug[r])
    BY <2>1, ExcuseKept
  <2>2. CASE Past(o) /\ LinkedBy(Pages!OrgPage(o), p)
    BY <2>2, LinksKept DEF Apart, Onward
  <2>3. CASE ~Past(o) /\ p \in Tos(orgMenu)
    BY <2>3, <1>3 DEF ReposMove
  <2>. QED
    BY <2>1, <2>2, <2>3 DEF RepoOK
<1>. QED
  BY <1>1, <1>2, <1>3, <1>4 DEF RepoOK

LEMMA PlacedKept ==
    ASSUME NEW pg, Keeps(pg), Apart(pg), Onward, FilesMove,
           NEW p, NEW o \in Names, NEW r \in Repositories(o), Placed(p, o, r)
    PROVE  Placed(p, o, r)'
<1>1. CASE Current(o, r) /\ p \in Tos(repoMenu)
  BY <1>1 DEF FilesMove, Placed
<1>2. CASE Before(o, r) /\ (Excused(o, Slug[r]) \/ LinkedBy(Pages!RepoPage(o, r), p))
  <2>1. Before(o, r)'
    BY <1>2 DEF Onward
  <2>2. CASE Excused(o, Slug[r]) \/ Collides(Slug[r])
    BY <2>1, <2>2, ExcuseKept DEF Placed, Excused
  <2>3. CASE LinkedBy(Pages!RepoPage(o, r), p) /\ pg # Pages!RepoPage(o, r)
    BY <2>1, <2>3, LinksKept DEF Placed
  <2>4. pg = Pages!RepoPage(o, r) => Collides(Slug[r])
    BY <1>2 DEF Apart
  <2>. QED
    BY <1>2, <2>1, <2>2, <2>3, <2>4
<1>. QED
  BY <1>1, <1>2 DEF Placed

LEMMA FileKept ==
    ASSUME NEW pg, Keeps(pg), Apart(pg), Onward, FilesMove, Place',
           NEW p \in DOMAIN written, p # pg, NEW o \in Names, NEW r \in Repositories(o)
    PROVE  /\ ReadmeOK(p, o, r) => ReadmeOK(p, o, r)'
           /\ ReleasesOK(p, o, r) => ReleasesOK(p, o, r)'
<1>1. written'[p] = written[p] /\ DOMAIN written \subseteq DOMAIN written'
  BY DEF Keeps
<1>2. ASSUME ReadmeOK(p, o, r) PROVE ReadmeOK(p, o, r)'
  BY <1>1, <1>2, PlacedKept DEF ReadmeOK
<1>3. ASSUME ReleasesOK(p, o, r) PROVE ReleasesOK(p, o, r)'
  <2>1. Placed(p, o, r)'
    BY <1>3, PlacedKept DEF ReleasesOK
  <2>2. \A l \in Range(written[p].links) : NotesLink(o, r, l) => NotesLink(o, r, l)'
    BY <1>1 DEF NotesLink
  <2>3. ~Current(o, r)'
    <3>1. CASE Current(o, r)
      BY <1>3, <3>1, NotBothNext DEF ReleasesOK, FilesMove, OneIsNew
    <3>2. CASE Before(o, r)
      BY <3>2, NotBothNext DEF Onward, OneIsNew
    <3>. QED
      BY <1>3, <3>1, <3>2 DEF ReleasesOK, Placed
  <2>. QED
    BY <1>1, <1>3, <2>1, <2>2, <2>3 DEF ReleasesOK
<1>. QED
  BY <1>2, <1>3

LEMMA NotesKept ==
    ASSUME NEW pg, Keeps(pg), Apart(pg), Onward, NotesMove,
           NEW p \in DOMAIN written, p # pg, NEW o \in Names, NEW r \in Repositories(o),
           NEW t \in Marks, NotesOK(p, o, r, t)
    PROVE  NotesOK(p, o, r, t)'
<1>1. written'[p] = written[p] /\ DOMAIN written \subseteq DOMAIN written'
  BY DEF Keeps
<1>2. CASE Current(o, r) /\ gPhase = "notes" /\ p \in Tos(notesMenu)
  BY <1>1, <1>2 DEF NotesOK, NotesMove
<1>3. CASE Current(o, r) /\ gPhase = "menu" /\ Excused(o, Slug[r])
  BY <1>1, <1>3, ExcuseKept DEF NotesOK, NotesMove
<1>4. CASE Current(o, r) /\ gPhase = "menu" /\ LinkedBy(Pages!ReleasesPage(o, r), p)
  <2>1. LinkedBy(Pages!ReleasesPage(o, r), p)'
    BY <1>4, LinksKept DEF Apart
  <2>. QED
    BY <1>1, <1>4, <2>1 DEF NotesOK, NotesMove
<1>5. CASE Before(o, r) /\ Excused(o, Slug[r])
  BY <1>1, <1>5, ExcuseKept DEF NotesOK, Onward
<1>6. CASE Before(o, r) /\ LinkedBy(Pages!ReleasesPage(o, r), p)
  <2>1. CASE pg = Pages!ReleasesPage(o, r)
    <3>1. Excused(o, Slug[r])
      BY <1>6, <2>1 DEF Apart, Excused
    <3>. QED
      BY <1>1, <1>6, <3>1, ExcuseKept DEF NotesOK, Onward
  <2>2. CASE pg # Pages!ReleasesPage(o, r)
    <3>1. LinkedBy(Pages!ReleasesPage(o, r), p)'
      BY <1>6, <2>2, LinksKept
    <3>. QED
      BY <1>1, <1>6, <3>1 DEF NotesOK, Onward
  <2>. QED
    BY <2>1, <2>2
<1>. QED
  BY <1>2, <1>3, <1>4, <1>5, <1>6 DEF NotesOK

LEMMA OldPages ==
    ASSUME AllPagesOK, Place', NEW pg, Keeps(pg), Apart(pg),
           Onward, ReposMove, FilesMove, NotesMove,
           NEW p \in DOMAIN written, p # pg
    PROVE  PageOK(p)'
<1>1. PageOK(p) /\ ~RootOK(p)
  BY DEF AllPagesOK, RootOK, Onward
<1>2. ASSUME NEW o \in Names, OrgOK(p, o) PROVE PageOK(p)'
  BY <1>2, OrgKept DEF PageOK
<1>3. ASSUME NEW o \in Names, NEW r \in Repositories(o), RepoOK(p, o, r)
      PROVE  PageOK(p)'
  BY <1>3, RepoKept DEF PageOK
<1>4. ASSUME NEW o \in Names, NEW r \in Repositories(o),
             ReadmeOK(p, o, r) \/ ReleasesOK(p, o, r)
      PROVE  PageOK(p)'
  <2>1. ReadmeOK(p, o, r)' \/ ReleasesOK(p, o, r)'
    BY <1>4, FileKept
  <2>. QED
    BY <2>1 DEF PageOK
<1>5. ASSUME NEW o \in Names, NEW r \in Repositories(o), NEW t \in Marks,
             NotesOK(p, o, r, t)
      PROVE  PageOK(p)'
  <2>1. NotesOK(p, o, r, t)'
    BY <1>5, NotesKept
  <2>. QED
    BY <2>1 DEF PageOK
<1>. QED
  BY <1>1, <1>2, <1>3, <1>4, <1>5 DEF PageOK

(* No page is written, or none that matters to the others. *)
LEMMA NoPage ==
    ASSUME NEW o, NEW r
    PROVE  /\ <<>> # Pages!OrgPage(o) /\ <<>> # Pages!RepoPage(o, r)
           /\ <<>> # Pages!ReleasesPage(o, r)
<1>1. Len(<<>>) = 0 /\ Len(Pages!OrgPage(o)) = 2 /\ Len(Pages!RepoPage(o, r)) = 3
      /\ Len(Pages!ReleasesPage(o, r)) = 4
  BY DEF Pages!OrgPage, Pages!RepoPage, Pages!ReleasesPage
<1>. QED
  BY <1>1

LEMMA NothingWritten ==
    ASSUME AllPagesOK, Place', UNCHANGED written, skipped \subseteq skipped',
           Onward, ReposMove, FilesMove, NotesMove
    PROVE  AllPagesOK'
<1>1. Keeps(<<>>) /\ Apart(<<>>)
  BY NoPage DEF Keeps, Apart
<1>2. \A p \in DOMAIN written : p # <<>>
  <2> SUFFICES ASSUME NEW p \in DOMAIN written PROVE p # <<>>
    OBVIOUS
  <2>1. PageOK(p)
    BY DEF AllPagesOK
  <2>2. \/ p = Pages!RootPage
        \/ \E o, r, t : p \in {Pages!OrgPage(o), Pages!RepoPage(o, r), Pages!ReadmePage(o, r),
                              Pages!ReleasesPage(o, r), Pages!NotesPage(o, r, t)}
    BY <2>1 DEF PageOK, RootOK, OrgOK, RepoOK, ReadmeOK, ReleasesOK, NotesOK
  <2>3. Len(p) # 0
    BY <2>2, PageLengths
  <2>. QED
    BY <2>3
<1>. QED
  BY <1>1, <1>2, OldPages DEF AllPagesOK

LEMMA OneWritten ==
    ASSUME AllPagesOK, Place', NEW pg, NEW c, Pages!Put(pg, c), UNCHANGED skipped,
           Apart(pg), Onward, ReposMove, FilesMove, NotesMove, PageOK(pg)'
    PROVE  AllPagesOK'
<1>1. Keeps(pg) /\ DOMAIN written' = DOMAIN written \cup {pg}
  BY PutOn DEF Keeps
<1>. QED
  BY <1>1, OldPages DEF AllPagesOK

-----------------------------------------------------------------------------
(* The steps within a repository. *)

LEMMA SameRepo ==
    ASSUME PagesInv, UNCHANGED <<gOrg, gRepos, gAt, orgMenu, gRoot, skipped>>,
           InOrg, gPhase' \in {"releases", "notes", "menu"}, gAt \in 1..Len(gRepos),
           tags' \in Seq(Marks), DOMAIN written \subseteq DOMAIN written',
           NEW o, NEW r, o = OrgNames[gOrg], r = gRepos[gAt]
    PROVE  /\ Place' /\ Counted' /\ Onward /\ ReposMove
           /\ IsSeq(repoMenu') /\ IsSeq(notesMenu') /\ RepoLinks(o, r, repoMenu)'
              /\ (gPhase' = "notes" => \A l \in Range(notesMenu') : NotesLink(o, r, l)')
              => MenusBegun'
           /\ o \in Names /\ r \in Repositories(o) /\ Current(o, r)'
           /\ \A u, v : Current(u, v) => u = o /\ v = r
<1> USE DEF PagesInv
<1>1. Place'
  BY DEF Place, InOrg, InRepo
<1>2. Counted'
  BY DEF Counted, Shown, InOrg
<1>3. \A u, v : Past(u)' = Past(u) /\ Before(u, v)' = Before(u, v)
  BY DEF Past, Before, InOrg
<1>4. Onward /\ ReposMove
  BY <1>3 DEF Onward, ReposMove, InOrg, Tos
<1>5. o \in Names /\ r \in Repositories(o)
  BY PlaceFacts DEF Place
<1>6. Current(o, r)' /\ \A u, v : Current(u, v) => u = o /\ v = r
  BY DEF Current, InRepo
<1>7. ASSUME IsSeq(repoMenu'), IsSeq(notesMenu'), RepoLinks(o, r, repoMenu)',
             gPhase' = "notes" => \A l \in Range(notesMenu') : NotesLink(o, r, l)'
      PROVE  MenusBegun'
  BY <1>7 DEF MenusBegun, IsSeq, InOrg
<1>. QED
  BY <1>1, <1>2, <1>4, <1>5, <1>6, <1>7

LEMMA ReadmeKeeps ==
    ASSUME PagesInv, Pages!Readme \/ Pages!NoReadme
    PROVE  PagesInv'
<1>0. PICK o, r : o = OrgNames[gOrg] /\ r = gRepos[gAt]
  OBVIOUS
<1> DEFINE pg == Pages!ReadmePage(o, r)
           link == Pages!Link(pg, <<o, r>>)
<1>1. /\ gPhase = "repo" /\ gPhase' = "releases" /\ gAt \in DOMAIN gRepos
      /\ UNCHANGED <<gOrg, gRepos, gAt, tags, notesMenu, orgMenu, gRoot, skipped>>
  BY DEF Pages!Readme, Pages!NoReadme, Pages!place
<1>2. InOrg /\ gAt \in 1..Len(gRepos) /\ tags' \in Seq(Marks)
  BY <1>1, PlaceFacts DEF InOrg, PagesInv, Place
<1>3. FilesMove /\ NotesMove
  BY <1>1 DEF FilesMove, NotesMove, Current, InRepo
<1>4. CASE Pages!Readme
  <2>1. Pages!Put(pg, Pages!Text(<<o, r>>)) /\ repoMenu' = <<link>>
    BY <1>0, <1>4 DEF Pages!Readme, Pages!Repo, Pages!Subject
  <2>2. /\ DOMAIN written' = DOMAIN written \cup {pg}
        /\ written'[pg] = Pages!Text(<<o, r>>)
    BY <2>1, PutOn
  <2>3. IsSeq(repoMenu') /\ Range(repoMenu') = {link}
    BY <2>1, OneLink
  <2>4. link.to = pg /\ link.about = <<o, r>>
    BY Linked
  <2>5. RepoLinks(o, r, repoMenu)'
    BY <1>1, <2>2, <2>3, <2>4 DEF RepoLinks
  <2>6. IsSeq(notesMenu')
    BY <1>1 DEF PagesInv, MenusBegun
  <2>7. /\ Place' /\ Counted' /\ Onward /\ ReposMove /\ MenusBegun'
        /\ o \in Names /\ r \in Repositories(o) /\ Current(o, r)'
    BY <1>0, <1>1, <1>2, <2>2, <2>3, <2>5, <2>6, SameRepo
  <2>8. PageOK(pg)'
    <3>1. ReadmeOK(pg, o, r)'
      BY <2>2, <2>3, <2>4, <2>7, MenuFields DEF ReadmeOK, Placed, Tos
    <3>. QED
      BY <3>1, <2>7 DEF PageOK
  <2>9. Apart(pg)
    BY <1>1, Kinds DEF Apart
  <2>. QED
    BY <1>1, <1>3, <2>1, <2>7, <2>8, <2>9, OneWritten DEF PagesInv
<1>5. CASE Pages!NoReadme
  <2>1. UNCHANGED written /\ repoMenu' = <<>>
    BY <1>5 DEF Pages!NoReadme
  <2>2. IsSeq(repoMenu') /\ IsSeq(notesMenu') /\ RepoLinks(o, r, repoMenu)'
    BY <1>1, <2>1, EmptyMenu DEF PagesInv, MenusBegun, RepoLinks
  <2>3. Place' /\ Counted' /\ Onward /\ ReposMove /\ MenusBegun'
    BY <1>0, <1>1, <1>2, <2>1, <2>2, SameRepo
  <2>. QED
    BY <1>1, <1>3, <2>1, <2>3, NothingWritten DEF PagesInv
<1>. QED
  BY <1>4, <1>5

LEMMA ReleasesKeeps ==
    ASSUME PagesInv, Pages!Releases \/ Pages!NoReleases
    PROVE  PagesInv'
<1>0. PICK o, r : o = OrgNames[gOrg] /\ r = gRepos[gAt]
  OBVIOUS
<1>1. /\ gPhase = "releases" /\ gPhase' \in {"notes", "menu"}
      /\ UNCHANGED <<gOrg, gRepos, gAt, repoMenu, orgMenu, gRoot, skipped, written>>
  BY DEF Pages!Releases, Pages!NoReleases, Pages!place, Pages!menus
<1>8. notesMenu' = <<>> \/ (gPhase' = "menu" /\ notesMenu' = notesMenu)
  BY DEF Pages!Releases, Pages!NoReleases, Pages!menus
<1>2. InOrg /\ gAt \in 1..Len(gRepos)
  BY <1>1, PlaceFacts DEF InOrg, InRepo, PagesInv, Place
<1>3. tags' \in Seq(Marks)
  <2>1. CASE Pages!Releases
    <3>1. tags' \in Tags /\ tags' \in Seq(DOMAIN Slug)
      BY <2>1, NamesAssumption DEF Pages!Releases
    <3>2. tags' \in [1..Len(tags') -> Marks] /\ Len(tags') \in Nat
      BY <3>1, LenProperties DEF Marks, Range
    <3>. QED
      BY <3>2, SeqDef
  <2>2. CASE Pages!NoReleases
    BY <2>2 DEF Pages!NoReleases, PagesInv, Place
  <2>. QED
    BY <2>1, <2>2
<1>4. IsSeq(repoMenu') /\ IsSeq(notesMenu') /\ RepoLinks(o, r, repoMenu)'
  BY <1>0, <1>1, <1>8, EmptyMenu DEF PagesInv, MenusBegun, InRepo, RepoLinks, IsSeq
<1>5. gPhase' = "notes" => \A l \in Range(notesMenu') : NotesLink(o, r, l)'
  BY <1>1, <1>8, EmptyMenu
<1>6. /\ Place' /\ Counted' /\ Onward /\ ReposMove /\ MenusBegun'
      /\ Current(o, r)' /\ \A u, v : Current(u, v) => u = o /\ v = r
  BY <1>0, <1>1, <1>2, <1>3, <1>4, <1>5, SameRepo
<1>7. FilesMove /\ NotesMove
  BY <1>1, <1>6 DEF FilesMove, NotesMove, Tos
<1>. QED
  BY <1>1, <1>6, <1>7, NothingWritten DEF PagesInv

LEMMA WriteNotesKeeps ==
    ASSUME PagesInv, Pages!WriteNotes
    PROVE  PagesInv'
<1>0. PICK o, r, t : o = OrgNames[gOrg] /\ r = gRepos[gAt] /\ t = Head(tags)
  OBVIOUS
<1> DEFINE pg == Pages!NotesPage(o, r, t)
           link == Pages!Link(pg, <<o, r, t>>)
<1>1. /\ gPhase = "notes" /\ gPhase' = "notes" /\ tags # <<>> /\ tags' = Tail(tags)
      /\ UNCHANGED <<gOrg, gRepos, gAt, repoMenu, orgMenu, gRoot, skipped>>
  BY DEF Pages!WriteNotes, Pages!place
<1>2. Append(<<o, r>>, t) = <<o, r, t>>
  BY Thrice
<1>3. /\ Pages!Put(pg, Pages!Text(<<o, r, t>>))
      /\ notesMenu' = Append(notesMenu, link)
  BY <1>0, <1>2 DEF Pages!WriteNotes, Pages!Repo, Pages!Subject
<1>4. InOrg /\ gAt \in 1..Len(gRepos) /\ tags \in Seq(Marks)
  BY <1>1, PlaceFacts DEF InOrg, InRepo, PagesInv, Place
<1>5. t \in Marks /\ tags' \in Seq(Marks)
  BY <1>0, <1>1, <1>4, HeadTailProperties
<1>6. /\ DOMAIN written' = DOMAIN written \cup {pg}
      /\ written'[pg] = Pages!Text(<<o, r, t>>)
  BY <1>3, PutOn
<1>7. /\ IsSeq(repoMenu') /\ IsSeq(notesMenu') /\ RepoLinks(o, r, repoMenu)'
      /\ Range(notesMenu') = Range(notesMenu) \cup {link}
  BY <1>0, <1>1, <1>3, <1>6, Appended DEF PagesInv, MenusBegun, InRepo, RepoLinks, IsSeq
<1>8. link.to = pg
  BY Linked
<1>9. \A l \in Range(notesMenu') : NotesLink(o, r, l)'
  <2>1. \A l \in Range(notesMenu) : NotesLink(o, r, l)'
    BY <1>0, <1>1, <1>6 DEF PagesInv, MenusBegun, NotesLink
  <2>2. NotesLink(o, r, link)'
    BY <1>5, <1>6, <1>8 DEF NotesLink
  <2>. QED
    BY <1>7, <2>1, <2>2
<1>10. /\ Place' /\ Counted' /\ Onward /\ ReposMove /\ MenusBegun'
       /\ o \in Names /\ r \in Repositories(o)
       /\ Current(o, r)' /\ \A u, v : Current(u, v) => u = o /\ v = r
  BY <1>0, <1>1, <1>4, <1>5, <1>6, <1>7, <1>9, SameRepo
<1>11. Tos(notesMenu)' = Tos(notesMenu) \cup {pg}
  BY <1>7, <1>8 DEF Tos
<1>12. FilesMove /\ NotesMove
  BY <1>1, <1>10, <1>11 DEF FilesMove, NotesMove, Tos
<1>13. PageOK(pg)'
  <2>1. NotesOK(pg, o, r, t)'
    BY <1>1, <1>6, <1>10, <1>11, MenuFields DEF NotesOK
  <2>. QED
    BY <2>1, <1>5, <1>10 DEF PageOK
<1>14. Apart(pg)
  BY <1>1, Kinds DEF Apart
<1>. QED
  BY <1>1, <1>3, <1>10, <1>12, <1>13, <1>14, OneWritten DEF PagesInv

LEMMA WriteReleasesKeeps ==
    ASSUME PagesInv, Pages!WriteReleases
    PROVE  PagesInv'
<1>0. PICK o, r : o = OrgNames[gOrg] /\ r = gRepos[gAt]
  OBVIOUS
<1> DEFINE pg == Pages!ReleasesPage(o, r)
           back == Pages!Link(Pages!RepoPage(o, r), <<o, r>>)
           link == Pages!Link(pg, <<o, r>>)
<1>1. /\ gPhase = "notes" /\ gPhase' = "menu"
      /\ UNCHANGED <<gOrg, gRepos, gAt, tags, notesMenu, orgMenu, gRoot, skipped>>
  BY DEF Pages!WriteReleases, Pages!place
<1>2. /\ Pages!Put(pg, Pages!Menu(<<o, r>>, Append(notesMenu, back)))
      /\ repoMenu' = Append(repoMenu, link)
  BY <1>0 DEF Pages!WriteReleases, Pages!Repo, Pages!Subject, Pages!Back
<1>3. InOrg /\ gAt \in 1..Len(gRepos) /\ tags' \in Seq(Marks)
  BY <1>1, PlaceFacts DEF InOrg, InRepo, PagesInv, Place
<1>4. /\ DOMAIN written' = DOMAIN written \cup {pg}
      /\ written'[pg].about = <<o, r>>
      /\ written'[pg].links = Append(notesMenu, back)
  <2> DEFINE m == Append(notesMenu, back)
  <2>1. DOMAIN written' = DOMAIN written \cup {pg} /\ written'[pg] = Pages!Menu(<<o, r>>, m)
    BY <1>2, PutOn
  <2>2. Pages!Menu(<<o, r>>, m).about = <<o, r>> /\ Pages!Menu(<<o, r>>, m).links = m
    BY MenuFields
  <2>. QED
    BY <2>1, <2>2
<1>5. /\ IsSeq(repoMenu') /\ IsSeq(notesMenu')
      /\ Range(repoMenu') = Range(repoMenu) \cup {link}
      /\ Range(Append(notesMenu, back)) = Range(notesMenu) \cup {back}
  BY <1>1, <1>2, Appended DEF PagesInv, MenusBegun
<1>6. link.to = pg /\ link.about = <<o, r>>
  BY Linked
<1>7. RepoLinks(o, r, repoMenu)'
  <2>1. \A l \in Range(repoMenu) : /\ l.about = <<o, r>> /\ l.to \in DOMAIN written
            /\ l.to \in {Pages!ReadmePage(o, r), Pages!ReleasesPage(o, r)}
    BY <1>0, <1>1 DEF PagesInv, MenusBegun, InRepo, RepoLinks
  <2>. QED
    BY <2>1, <1>4, <1>5, <1>6 DEF RepoLinks
<1>8. /\ Place' /\ Counted' /\ Onward /\ ReposMove /\ MenusBegun'
      /\ o \in Names /\ r \in Repositories(o)
      /\ Current(o, r)' /\ \A u, v : Current(u, v) => u = o /\ v = r
  BY <1>0, <1>1, <1>3, <1>4, <1>5, <1>7, SameRepo
<1>9. Tos(repoMenu)' = Tos(repoMenu) \cup {pg}
  BY <1>5, <1>6 DEF Tos
<1>10. FilesMove /\ NotesMove
  <2>1. \A p \in Tos(notesMenu) : LinkedBy(pg, p)'
    BY <1>4, <1>5 DEF LinkedBy, Tos
  <2>. QED
    BY <2>1, <1>1, <1>8, <1>9 DEF FilesMove, NotesMove
<1>11. PageOK(pg)'
  <2>1. \A l \in Range(notesMenu) : NotesLink(o, r, l)'
    BY <1>0, <1>1, <1>4 DEF PagesInv, MenusBegun, NotesLink
  <2>2. ReleasesOK(pg, o, r)'
    BY <1>1, <1>4, <1>5, <1>8, <1>9, <2>1 DEF ReleasesOK, Placed
  <2>. QED
    BY <2>2, <1>8 DEF PageOK
<1>12. Apart(pg)
  <2>1. ASSUME NEW u \in Names, NEW v \in Repositories(u), Before(u, v),
               pg \in {Pages!RepoPage(u, v), Pages!ReleasesPage(u, v)}
        PROVE  Collides(Slug[v])
    <3>1. u = o /\ Slug[v] = Slug[r]
      BY <2>1, Kinds, PathsTell
    <3>2. Current(o, r)
      BY <1>0, <1>1 DEF Current, InRepo
    <3>3. v # r
      BY <2>1, <3>1, <3>2, NotBoth DEF OneIsNew, PagesInv
    <3>. QED
      BY <3>1, <3>3, <1>8, OneSlug
  <2>. QED
    BY <1>1, <2>1, Kinds DEF Apart
<1>. QED
  BY <1>1, <1>2, <1>8, <1>10, <1>11, <1>12, OneWritten DEF PagesInv

-----------------------------------------------------------------------------
(* The end of a repository. *)

LEMMA EndRepo ==
    ASSUME PagesInv, UNCHANGED <<gOrg, gRepos, tags, gRoot>>,
           InOrg, gAt \in 1..Len(gRepos), gAt' = gAt + 1, gPhase' = "repo",
           skipped \subseteq skipped', \A x \in skipped' : Len(x) \in 1..2,
           NEW o, NEW r, o = OrgNames[gOrg], r = gRepos[gAt]
    PROVE  /\ Place' /\ Onward
           /\ o \in Names /\ r \in Repositories(o) /\ Before(o, r)' /\ ~Before(o, r)
           /\ ~Past(o) /\ ~Past(o)'
           /\ \A u, v : Current(u, v) => u = o /\ v = r
           /\ \A u, v : Before(u, v) /\ ~Past(u) => u = o
<1> USE DEF PagesInv
<1>1. Place'
  BY PlaceFacts DEF Place, InOrg, InRepo
<1>2. \A u : Past(u)' = Past(u)
  BY DEF Past
<1>3. \A u, v : Before(u, v) => Before(u, v)'
  BY <1>2, PlaceFacts DEF Before, InOrg
<1>4. Onward
  BY <1>2, <1>3 DEF Onward, InOrg, Tos
<1>5. o \in Names /\ r \in Repositories(o)
  BY PlaceFacts DEF Place
<1>6. Before(o, r)'
  BY PlaceFacts DEF Before, InOrg
<1>7. ~Past(o) /\ ~Before(o, r)
  BY PlaceFacts DEF Past, Before, Place
<1>8. \A u, v : Current(u, v) => u = o /\ v = r
  BY DEF Current
<1>9. \A u, v : Before(u, v) /\ ~Past(u) => u = o
  BY DEF Before
<1>. QED
  BY <1>1, <1>2, <1>4, <1>5, <1>6, <1>7, <1>8, <1>9

LEMMA CountedEnd ==
    ASSUME PagesInv, UNCHANGED <<gOrg, gRepos>>,
           InOrg, gAt \in 1..Len(gRepos), gAt' = gAt + 1, skipped \subseteq skipped',
           NEW o, NEW r, o = OrgNames[gOrg], r = gRepos[gAt],
           \/ UNCHANGED orgMenu /\ <<o, r>> \in skipped'
           \/ \E pg : orgMenu' = Append(orgMenu, Pages!Link(pg, <<o, r>>))
    PROVE  Counted'
<1>1. /\ Len(orgMenu) = Cardinality(Shown(o)) /\ IsSeq(orgMenu)
      /\ \A i \in 1..gAt - 1 : <<o, gRepos[i]>> \in skipped \/ i \in Shown(o)
  BY DEF PagesInv, Counted, MenusBegun
<1>2. /\ gAt \in Nat /\ gAt' - 1 = gAt /\ gAt \notin Shown(o)
      /\ 1..gAt' - 1 = (1..gAt - 1) \cup {gAt}
  BY PlaceFacts DEF Shown, PagesInv
<1>3. IsFiniteSet(Shown(o))
  <2>1. 1 \in Int /\ gAt - 1 \in Int
    BY <1>2
  <2>2. IsFiniteSet(1..gAt - 1)
    BY <2>1, FS_Interval
  <2>3. Shown(o) \subseteq 1..gAt - 1
    BY DEF Shown
  <2>. QED
    BY <2>2, <2>3, FS_Subset
<1>4. \A k \in DOMAIN orgMenu : orgMenu[k].about # <<o, r>>
  <2> SUFFICES ASSUME NEW k \in DOMAIN orgMenu PROVE orgMenu[k].about # <<o, r>>
    OBVIOUS
  <2>1. PICK j \in 1..gAt - 1 : orgMenu[k].about = <<o, gRepos[j]>>
    <3>1. orgMenu[k] \in Range(orgMenu)
      BY DEF Range
    <3>2. PICK j \in 1..gAt - 1 :
               orgMenu[k] = Pages!Link(Pages!RepoPage(o, gRepos[j]), <<o, gRepos[j]>>)
      BY <3>1 DEF PagesInv, MenusBegun
    <3>. QED
      BY <3>2, Linked
  <2>2. gRepos[j] # r
    BY <1>2, PlaceFacts DEF PagesInv
  <2>. QED
    BY <2>1, <2>2
<1>5. CASE UNCHANGED orgMenu /\ <<o, r>> \in skipped'
  <2>1. Shown(o)' = Shown(o)
    BY <1>2, <1>4, <1>5 DEF Shown
  <2>. QED
    BY <1>1, <1>2, <1>5, <2>1 DEF Counted
<1>6. ASSUME NEW pg, orgMenu' = Append(orgMenu, Pages!Link(pg, <<o, r>>))
      PROVE  Counted'
  <2>1. /\ Len(orgMenu) \in Nat /\ DOMAIN orgMenu = 1..Len(orgMenu)
        /\ Len(orgMenu') = Len(orgMenu) + 1 /\ DOMAIN orgMenu' = 1..Len(orgMenu) + 1
        /\ \A k \in 1..Len(orgMenu) : orgMenu'[k] = orgMenu[k]
        /\ orgMenu'[Len(orgMenu) + 1].about = <<o, r>>
    <3> DEFINE new == Pages!Link(pg, <<o, r>>)
    <3>1. new.about = <<o, r>>
      BY Linked
    <3>. QED
      BY <1>1, <1>6, <3>1, Appended
  <2>2. Shown(o)' = Shown(o) \cup {gAt}
    <3>1. ASSUME NEW i \in 1..gAt - 1
          PROVE  i \in Shown(o)' <=> i \in Shown(o)
      <4>1. gRepos[i] # r
        BY <1>2, PlaceFacts DEF PagesInv
      <4>2. <<o, r>> # <<o, gRepos[i]>>
        BY <4>1
      <4>3. (\E k \in DOMAIN orgMenu' : orgMenu'[k].about = <<o, gRepos[i]>>)
                <=> \E k \in DOMAIN orgMenu : orgMenu[k].about = <<o, gRepos[i]>>
        <5>1. \A k \in DOMAIN orgMenu : k \in DOMAIN orgMenu' /\ orgMenu'[k] = orgMenu[k]
          BY <2>1
        <5>2. \A k \in DOMAIN orgMenu' :
                  k \in DOMAIN orgMenu \/ orgMenu'[k].about = <<o, r>>
          BY <2>1
        <5>. QED
          BY <4>2, <5>1, <5>2
      <4>. QED
        BY <1>2, <4>3 DEF Shown
    <3>2. gAt \in Shown(o)'
      BY <1>2, <2>1 DEF Shown
    <3>3. Shown(o)' \subseteq 1..gAt /\ Shown(o) \subseteq 1..gAt - 1
      BY <1>2 DEF Shown
    <3>. QED
      BY <1>2, <3>1, <3>2, <3>3
  <2>3. Cardinality(Shown(o)') = Cardinality(Shown(o)) + 1
    <3>1. Cardinality(Shown(o) \cup {gAt}) = Cardinality(Shown(o)) + 1
      BY <1>2, <1>3, FS_AddElement
    <3>. QED
      BY <2>2, <3>1
  <2>. QED
    BY <1>1, <1>2, <2>1, <2>2, <2>3 DEF Counted
<1>. QED
  BY <1>5, <1>6

LEMMA WriteRepoKeeps ==
    ASSUME PagesInv, Pages!WriteRepo
    PROVE  PagesInv'
<1>0. PICK o, r : o = OrgNames[gOrg] /\ r = gRepos[gAt]
  OBVIOUS
<1> DEFINE pg == Pages!RepoPage(o, r)
           link == Pages!Link(pg, <<o, r>>)
<1>1. /\ gPhase = "menu" /\ gPhase' = "repo" /\ gAt' = gAt + 1
      /\ UNCHANGED <<gOrg, gRepos, tags, repoMenu, notesMenu, gRoot, skipped>>
  BY DEF Pages!WriteRepo
<1>2. /\ Pages!Put(pg, Pages!Menu(<<o, r>>, repoMenu))
      /\ orgMenu' = Append(orgMenu, link)
  BY <1>0 DEF Pages!WriteRepo, Pages!Repo, Pages!Subject
<1>3. InOrg /\ gAt \in 1..Len(gRepos)
  BY <1>1, PlaceFacts DEF InOrg, InRepo, PagesInv, Place
<1>4. \A x \in skipped' : Len(x) \in 1..2
  BY <1>1 DEF PagesInv, Place
<1>5. /\ Place' /\ Onward
      /\ o \in Names /\ r \in Repositories(o) /\ Before(o, r)' /\ ~Before(o, r)
      /\ ~Past(o) /\ ~Past(o)'
      /\ \A u, v : Current(u, v) => u = o /\ v = r
      /\ \A u, v : Before(u, v) /\ ~Past(u) => u = o
  BY <1>0, <1>1, <1>3, <1>4, EndRepo
<1>6. Counted'
  BY <1>0, <1>1, <1>2, <1>3, CountedEnd
<1>7. DOMAIN written' = DOMAIN written \cup {pg}
      /\ written'[pg].about = <<o, r>> /\ written'[pg].links = repoMenu
  <2>1. DOMAIN written' = DOMAIN written \cup {pg}
        /\ written'[pg] = Pages!Menu(<<o, r>>, repoMenu)
    BY <1>2, PutOn
  <2>. QED
    BY <2>1, MenuFields
<1>8. IsSeq(orgMenu') /\ Range(orgMenu') = Range(orgMenu) \cup {link}
      /\ link.to = pg /\ Tos(orgMenu)' = Tos(orgMenu) \cup {pg}
  <2>1. IsSeq(orgMenu') /\ Range(orgMenu') = Range(orgMenu) \cup {link}
    BY <1>2, Appended DEF PagesInv, MenusBegun
  <2>2. link.to = pg
    BY Linked
  <2>. QED
    BY <2>1, <2>2 DEF Tos
<1>9. MenusBegun'
  <2>1. \A l \in Range(orgMenu') : \E j \in 1..gAt' - 1 :
            /\ l = Pages!Link(Pages!RepoPage(o, gRepos[j]), <<o, gRepos[j]>>)
            /\ l.to \in DOMAIN written'
    <3>1. ASSUME NEW l \in Range(orgMenu)
          PROVE  \E j \in 1..gAt' - 1 :
                    /\ l = Pages!Link(Pages!RepoPage(o, gRepos[j]), <<o, gRepos[j]>>)
                    /\ l.to \in DOMAIN written'
      <4>1. PICK j \in 1..gAt - 1 :
                 /\ l = Pages!Link(Pages!RepoPage(o, gRepos[j]), <<o, gRepos[j]>>)
                 /\ l.to \in DOMAIN written
        BY <1>0, <1>3 DEF PagesInv, MenusBegun
      <4>2. j \in 1..gAt' - 1
        BY <1>1, <1>3
      <4>. QED
        BY <4>1, <4>2, <1>7
    <3>2. gAt \in 1..gAt' - 1 /\ link.to \in DOMAIN written'
      BY <1>1, <1>3, <1>7, <1>8
    <3>. QED
      BY <1>0, <1>8, <3>1, <3>2
  <2>2. \A l \in Range(gRoot) : l.to \in DOMAIN written => l.to \in DOMAIN written'
    BY <1>7
  <2>. QED
    BY <1>0, <1>1, <1>8, <2>1, <2>2 DEF PagesInv, MenusBegun, IsSeq, InOrg, InRepo
<1>10. ReposMove /\ FilesMove /\ NotesMove
  <2>1. ReposMove
    BY <1>5, <1>8 DEF ReposMove
  <2>2. \A p \in Tos(repoMenu) : LinkedBy(pg, p)'
    BY <1>7 DEF LinkedBy, Tos
  <2>3. FilesMove
    BY <1>5, <2>2 DEF FilesMove
  <2>4. NotesMove
    BY <1>1, <1>5 DEF NotesMove
  <2>. QED
    BY <2>1, <2>3, <2>4
<1>11. PageOK(pg)'
  <2>1. RepoLinks(o, r, repoMenu)'
    BY <1>0, <1>1, <1>7 DEF PagesInv, MenusBegun, InRepo, RepoLinks
  <2>2. RepoOK(pg, o, r)'
    BY <1>1, <1>5, <1>7, <1>8, <2>1 DEF RepoOK, RepoLinks
  <2>. QED
    BY <2>2, <1>5 DEF PageOK
<1>12. Apart(pg)
  <2>1. ASSUME NEW u \in Names, NEW v \in Repositories(u), Before(u, v),
               pg \in {Pages!RepoPage(u, v), Pages!ReleasesPage(u, v)}
        PROVE  Collides(Slug[v])
    <3>1. u = o /\ Slug[v] = Slug[r]
      BY <2>1, Kinds, PathsTell
    <3>. QED
      BY <2>1, <3>1, <1>5, OneSlug
  <2>. QED
    BY <1>1, <2>1, Kinds DEF Apart
<1>. QED
  BY <1>1, <1>2, <1>5, <1>6, <1>9, <1>10, <1>11, <1>12, OneWritten DEF PagesInv

LEMMA SkipRepoKeeps ==
    ASSUME PagesInv, Pages!SkipRepo
    PROVE  PagesInv'
<1>0. PICK o, r : o = OrgNames[gOrg] /\ r = gRepos[gAt]
  OBVIOUS
<1>1. /\ gPhase' = "repo" /\ gAt' = gAt + 1 /\ skipped' = skipped \cup {<<o, r>>}
      /\ UNCHANGED <<gOrg, gRepos, tags, repoMenu, notesMenu, orgMenu, gRoot, written>>
  BY <1>0 DEF Pages!SkipRepo, Pages!menus, Pages!Subject, Pages!Repo
<1>2. InOrg /\ gAt \in 1..Len(gRepos)
  BY PlaceFacts DEF Pages!SkipRepo, InOrg, InRepo, PagesInv, Place
<1>3. Len(<<o, r>>) = 2 /\ <<o, r>>[1] = o /\ <<o, r>>[2] = r
  OBVIOUS
<1>4. \A x \in skipped' : Len(x) \in 1..2
  BY <1>1, <1>3 DEF PagesInv, Place
<1>5. /\ Place' /\ Onward
      /\ o \in Names /\ r \in Repositories(o) /\ Before(o, r)' /\ ~Before(o, r)
      /\ ~Past(o) /\ ~Past(o)'
      /\ \A u, v : Current(u, v) => u = o /\ v = r
      /\ \A u, v : Before(u, v) /\ ~Past(u) => u = o
  BY <1>0, <1>1, <1>2, <1>4, EndRepo
<1>6. Counted'
  BY <1>0, <1>1, <1>2, CountedEnd
<1>7. MenusBegun'
  <2>1. 1..gAt - 1 \subseteq 1..gAt' - 1
    BY <1>1, <1>2
  <2>. QED
    BY <1>1, <1>2, <2>1 DEF PagesInv, MenusBegun, InOrg, InRepo, IsSeq
<1>8. Excused(o, Slug[r])'
  BY <1>1, <1>3 DEF Excused
<1>9. ReposMove /\ FilesMove /\ NotesMove
  BY <1>1, <1>5, <1>8 DEF ReposMove, FilesMove, NotesMove, Tos
<1>. QED
  BY <1>1, <1>5, <1>6, <1>7, <1>9, NothingWritten DEF PagesInv

-----------------------------------------------------------------------------
(* From one organisation to the next, and the end. *)

LEMMA ListKeeps ==
    ASSUME PagesInv, Pages!List
    PROVE  PagesInv'
<1>1. /\ gPhase = "list" /\ gPhase' = "repo" /\ gOrg \in 1..Len(OrgNames)
      /\ gRepos' \in Listings[OrgNames[gOrg]] /\ gAt' = 1 /\ orgMenu' = <<>>
      /\ UNCHANGED <<gOrg, tags, repoMenu, notesMenu, gRoot, written, skipped>>
  BY DEF Pages!List, PagesInv, Place
<1>2. gRepos' \in Seq(DOMAIN Slug) /\ Len(gRepos') \in Nat
      /\ OrgNames[gOrg] \in DOMAIN Listings
  BY <1>1, PlaceFacts, NamesAssumption, LenProperties DEF PagesInv
<1>3. Place'
  BY <1>1, <1>2 DEF PagesInv, Place, InOrg, InRepo
<1>4. MenusBegun'
  BY <1>1, EmptyMenu DEF PagesInv, MenusBegun, IsSeq, InRepo
<1>5. Counted'
  <2>1. Shown(OrgNames[gOrg])' = {}
    BY <1>1 DEF Shown
  <2>. QED
    BY <1>1, <2>1, FS_EmptySet, EmptyMenu DEF Counted
<1>6. \A o, r : /\ Past(o)' = Past(o) /\ (Before(o, r) => Past(o))
               /\ (Past(o) => Before(o, r)') /\ ~Current(o, r)
  BY <1>1 DEF Past, Before, Current, InOrg, InRepo
<1>7. Onward /\ ReposMove /\ FilesMove /\ NotesMove
  BY <1>1, <1>6 DEF Onward, ReposMove, FilesMove, NotesMove, Tos
<1>. QED
  BY <1>1, <1>3, <1>4, <1>5, <1>7, NothingWritten DEF PagesInv

(* The organisation at hand becomes one that the run is through with. *)
LEMMA EndOrg ==
    ASSUME PagesInv, gPhase \in {"list", "repo"}, gPhase' = "list",
           gOrg \in 1..Len(OrgNames), gOrg' = gOrg + 1,
           NEW o, o = OrgNames[gOrg]
    PROVE  /\ o \in Names /\ Past(o)' /\ ~Past(o)
           /\ \A u : Past(u) => Past(u)'
           /\ \A u, v : /\ Before(u, v) => Before(u, v)'
                        /\ Before(u, v) /\ ~Past(u) => u = o
                        /\ ~Current(u, v)
           /\ Counted' /\ FilesMove /\ NotesMove
<1>1. o \in Names /\ Past(o)' /\ ~Past(o)
  BY PlaceFacts DEF PagesInv, Past
<1>2. \A u : Past(u) => Past(u)'
  BY PlaceFacts DEF PagesInv, Past
<1>3. \A u, v : /\ Before(u, v) => Past(u) \/ u = o
               /\ Past(u)' => Before(u, v)'
  BY DEF Before
<1>4. \A u, v : ~Current(u, v)
  BY DEF Current, InRepo
<1>5. ASSUME NEW u, NEW v, Before(u, v)
      PROVE  Before(u, v)' /\ (~Past(u) => u = o)
  <2>1. Past(u) \/ u = o
    BY <1>5 DEF Before
  <2>2. Past(u)'
    BY <1>1, <2>1, PlaceFacts DEF PagesInv, Past
  <2>. QED
    BY <2>1, <2>2 DEF Before
<1>6. Counted'
  BY DEF Counted, InOrg
<1>7. FilesMove /\ NotesMove
  BY <1>4 DEF FilesMove, NotesMove
<1>. QED
  BY <1>1, <1>2, <1>4, <1>5, <1>6, <1>7

LEMMA LeaveOutKeeps ==
    ASSUME PagesInv, Pages!LeaveOutOrg
    PROVE  PagesInv'
<1>0. PICK o : o = OrgNames[gOrg]
  OBVIOUS
<1>1. /\ gPhase \in {"list", "repo"} /\ gPhase' = "list" /\ gOrg' = gOrg + 1
      /\ skipped' = skipped \cup {<<o>>}
      /\ UNCHANGED <<gRepos, gAt, tags, repoMenu, notesMenu, orgMenu, gRoot, written>>
  BY <1>0 DEF Pages!LeaveOutOrg, Pages!menus
<1>2. gOrg \in 1..Len(OrgNames)
  BY DEF Pages!LeaveOutOrg, PagesInv, Place, InOrg
<1>3. /\ o \in Names /\ Past(o)' /\ ~Past(o)
      /\ \A u : Past(u) => Past(u)'
      /\ \A u, v : /\ Before(u, v) => Before(u, v)'
                   /\ Before(u, v) /\ ~Past(u) => u = o
                   /\ ~Current(u, v)
      /\ Counted' /\ FilesMove /\ NotesMove
  BY <1>0, <1>1, <1>2, EndOrg
<1>4. Len(<<o>>) = 1 /\ <<o>>[1] = o
  OBVIOUS
<1>5. Place'
  BY <1>1, <1>2, <1>4, PlaceFacts DEF PagesInv, Place, InOrg, InRepo
<1>6. MenusBegun'
  <2>1. 1..gOrg - 1 \subseteq 1..gOrg' - 1
    BY <1>1, <1>2, PlaceFacts DEF PagesInv
  <2>. QED
    BY <1>1, <2>1 DEF PagesInv, MenusBegun, IsSeq, InOrg, InRepo
<1>7. ASSUME NEW s PROVE Excused(o, s)'
  <2>1. <<o>> \in skipped' /\ Len(<<o>>) # 2
    BY <1>1, <1>4
  <2>2. \E x \in skipped' : x[1] = o /\ (Len(x) = 2 => Slug[x[2]] = s)
    BY <1>4, <2>1
  <2>. QED
    BY <2>2 DEF Excused
<1>8. Onward /\ ReposMove
  BY <1>1, <1>3, <1>7 DEF Onward, ReposMove, Tos
<1>. QED
  BY <1>1, <1>3, <1>5, <1>6, <1>8, NothingWritten DEF PagesInv

LEMMA WriteOrgKeeps ==
    ASSUME PagesInv, Pages!WriteOrg
    PROVE  PagesInv'
<1>0. PICK o : o = OrgNames[gOrg]
  OBVIOUS
<1> DEFINE pg == Pages!OrgPage(o)
           link == Pages!Link(pg, <<o>>)
<1>1. /\ gPhase = "repo" /\ gPhase' = "list" /\ gOrg' = gOrg + 1
      /\ UNCHANGED <<gRepos, gAt, tags, repoMenu, notesMenu, orgMenu, skipped>>
  BY DEF Pages!WriteOrg
<1>2. /\ Pages!Put(pg, Pages!Menu(<<o>>, orgMenu))
      /\ gRoot' = Append(gRoot, link)
  BY <1>0 DEF Pages!WriteOrg
<1>3. InOrg /\ gOrg \in 1..Len(OrgNames) /\ gOrg \in 1..gOrg' - 1
  BY <1>1, PlaceFacts DEF PagesInv, Place, InOrg
<1>4. /\ o \in Names /\ Past(o)' /\ ~Past(o)
      /\ \A u : Past(u) => Past(u)'
      /\ \A u, v : /\ Before(u, v) => Before(u, v)'
                   /\ Before(u, v) /\ ~Past(u) => u = o
                   /\ ~Current(u, v)
      /\ Counted' /\ FilesMove /\ NotesMove
  BY <1>0, <1>1, <1>3, EndOrg
<1>5. DOMAIN written' = DOMAIN written \cup {pg}
      /\ written'[pg].about = <<o>> /\ written'[pg].links = orgMenu
  <2>1. DOMAIN written' = DOMAIN written \cup {pg}
        /\ written'[pg] = Pages!Menu(<<o>>, orgMenu)
    BY <1>2, PutOn
  <2>. QED
    BY <2>1, MenuFields
<1>6. IsSeq(gRoot') /\ Range(gRoot') = Range(gRoot) \cup {link}
      /\ link.to = pg /\ Tos(gRoot)' = Tos(gRoot) \cup {pg}
  <2>1. IsSeq(gRoot') /\ Range(gRoot') = Range(gRoot) \cup {link}
    BY <1>2, Appended DEF PagesInv, MenusBegun
  <2>2. link.to = pg
    BY Linked
  <2>. QED
    BY <2>1, <2>2 DEF Tos
<1>7. Place'
  BY <1>1, <1>3, PlaceFacts DEF PagesInv, Place, InOrg, InRepo
<1>8. MenusBegun'
  <2>1. ASSUME NEW l \in Range(gRoot)
        PROVE  \E i \in 1..gOrg' - 1 :
                  /\ l = Pages!Link(Pages!OrgPage(OrgNames[i]), <<OrgNames[i]>>)
                  /\ l.to \in DOMAIN written'
    <3>1. PICK i \in 1..gOrg - 1 :
                  /\ l = Pages!Link(Pages!OrgPage(OrgNames[i]), <<OrgNames[i]>>)
                  /\ l.to \in DOMAIN written
      BY DEF PagesInv, MenusBegun
    <3>2. i \in 1..gOrg' - 1
      BY <1>1, <1>3, PlaceFacts DEF PagesInv
    <3>. QED
      BY <1>5, <3>1, <3>2
  <2>2. \A l \in Range(gRoot') : \E i \in 1..gOrg' - 1 :
                  /\ l = Pages!Link(Pages!OrgPage(OrgNames[i]), <<OrgNames[i]>>)
                  /\ l.to \in DOMAIN written'
    BY <1>0, <1>3, <1>5, <1>6, <2>1
  <2>. QED
    BY <1>1, <1>6, <2>2 DEF PagesInv, MenusBegun, IsSeq, InOrg, InRepo
<1>9. Onward /\ ReposMove
  <2>1. \A p \in Tos(orgMenu) : LinkedBy(pg, p)'
    BY <1>5 DEF LinkedBy, Tos
  <2>. QED
    BY <1>1, <1>4, <1>6, <2>1 DEF Onward, ReposMove
<1>10. PageOK(pg)'
  <2>1. OrgLinks(o, orgMenu)'
    <3> SUFFICES ASSUME NEW l \in Range(orgMenu)
                 PROVE  \E r \in Repositories(o) :
                           /\ l = Pages!Link(Pages!RepoPage(o, r), <<o, r>>)
                           /\ l.to \in DOMAIN written'
      BY <1>1 DEF OrgLinks
    <3>1. PICK j \in 1..gAt - 1 :
              /\ l = Pages!Link(Pages!RepoPage(o, gRepos[j]), <<o, gRepos[j]>>)
              /\ l.to \in DOMAIN written
      BY <1>0, <1>3 DEF PagesInv, MenusBegun
    <3>2. gRepos[j] \in Repositories(o)
      BY <1>0, <1>3, PlaceFacts DEF PagesInv, Place
    <3>. QED
      BY <1>5, <3>1, <3>2
  <2>2. OrgOK(pg, o)'
    BY <1>1, <1>4, <1>5, <1>6, <2>1 DEF OrgOK, OrgLinks
  <2>. QED
    BY <2>2, <1>4 DEF PageOK
<1>11. Apart(pg)
  BY <1>1, <1>4, Kinds, PathsTell DEF Apart
<1>. QED
  BY <1>1, <1>2, <1>4, <1>7, <1>8, <1>9, <1>10, <1>11, OneWritten DEF PagesInv

LEMMA EndKeeps ==
    ASSUME PagesInv, Pages!WriteRoot \/ Pages!RunFails
    PROVE  PagesInv'
<1>1. /\ gPhase = "list" /\ gPhase' \in {"done", "failed"}
      /\ UNCHANGED <<gOrg, gRepos, gAt, tags, repoMenu, notesMenu, orgMenu, gRoot, skipped>>
  BY DEF Pages!WriteRoot, Pages!RunFails, Pages!place, Pages!menus
<1>2. Place' /\ Counted'
  BY <1>1 DEF PagesInv, Place, Counted, InOrg, InRepo
<1>3. DOMAIN written \subseteq DOMAIN written'
  BY PutOn DEF Pages!WriteRoot, Pages!RunFails
<1>4. MenusBegun'
  BY <1>1, <1>3 DEF PagesInv, MenusBegun, IsSeq, InOrg, InRepo
<1>5. \A o, r : /\ Past(o)' = Past(o) /\ Before(o, r)' = Past(o)
               /\ Before(o, r) = Past(o) /\ ~Current(o, r)
  BY <1>1 DEF Past, Before, Current, InOrg, InRepo
<1>6. Onward /\ ReposMove /\ FilesMove /\ NotesMove
  BY <1>1, <1>5 DEF Onward, ReposMove, FilesMove, NotesMove, Tos
<1>7. CASE Pages!WriteRoot
  <2> DEFINE pg == Pages!RootPage
  <2>1. Pages!Put(pg, Pages!Menu(<<>>, gRoot)) /\ gPhase' = "done"
    BY <1>7 DEF Pages!WriteRoot
  <2>2. PageOK(pg)'
    BY <1>1, <2>1, PutOn DEF PageOK, RootOK
  <2>3. Apart(pg)
    BY <1>1, Kinds DEF Apart
  <2>. QED
    BY <1>1, <1>2, <1>4, <1>6, <2>1, <2>2, <2>3, OneWritten DEF PagesInv
<1>8. CASE Pages!RunFails
  <2>1. UNCHANGED written
    BY <1>8 DEF Pages!RunFails
  <2>. QED
    BY <1>1, <1>2, <1>4, <1>6, <2>1, NothingWritten DEF PagesInv
<1>. QED
  BY <1>7, <1>8

-----------------------------------------------------------------------------
(* The invariant. *)

Finished == gPhase = "done" => Pages!RootPage \in DOMAIN written

LEMMA PagesBegin ==
    ASSUME gPhase \in {"list", "failed"}, gOrg = 1, gRepos = <<>>, gAt = 1, tags = <<>>,
           repoMenu = <<>>, notesMenu = <<>>, orgMenu = <<>>, gRoot = <<>>,
           written = <<>>, skipped = {}
    PROVE  PagesInv /\ Finished
<1>1. <<>> \in Seq(DOMAIN Slug) /\ <<>> \in Seq(Marks) /\ Len(<<>>) = 0 /\ DOMAIN <<>> = {}
  OBVIOUS
<1>2. Len(OrgNames) \in Nat
  BY NamesAssumption, LenProperties
<1>3. Place
  BY <1>1, <1>2 DEF Place, InOrg, InRepo
<1>4. MenusBegun
  BY EmptyMenu DEF MenusBegun, InOrg, InRepo
<1>5. AllPagesOK /\ Counted /\ Finished
  BY <1>1 DEF AllPagesOK, Counted, Finished, InOrg
<1>. QED
  BY <1>3, <1>4, <1>5 DEF PagesInv

LEMMA PagesNext ==
    ASSUME PagesInv, Finished, Pages!Next
    PROVE  PagesInv' /\ Finished'
<1>1. PagesInv'
  BY ListKeeps, LeaveOutKeeps, WriteOrgKeeps, ReadmeKeeps, ReleasesKeeps,
     WriteNotesKeeps, WriteReleasesKeeps, WriteRepoKeeps, SkipRepoKeeps, EndKeeps
     DEF Pages!Next
<1>2. CASE Pages!WriteRoot
  <2>1. Pages!Put(Pages!RootPage, Pages!Menu(<<>>, gRoot))
    BY <1>2 DEF Pages!WriteRoot
  <2>2. Pages!RootPage \in DOMAIN written'
    BY <2>1, PutOn
  <2>. QED
    BY <1>1, <2>2 DEF Finished
<1>3. CASE ~Pages!WriteRoot
  <2>1. gPhase' # "done"
    BY <1>3 DEF Pages!Next, Pages!List, Pages!LeaveOutOrg, Pages!WriteOrg,
                Pages!Readme, Pages!NoReadme, Pages!Releases, Pages!NoReleases,
                Pages!WriteNotes, Pages!WriteReleases, Pages!WriteRepo,
                Pages!SkipRepo, Pages!RunFails
  <2>. QED
    BY <1>1, <2>1 DEF Finished
<1>. QED
  BY <1>2, <1>3

LEMMA PagesStill ==
    ASSUME PagesInv, Finished, UNCHANGED pageVars
    PROVE  PagesInv' /\ Finished'
<1>1. UNCHANGED <<gPhase, gOrg, gRepos, gAt, tags, repoMenu, notesMenu, orgMenu,
                  gRoot, written, skipped>>
  BY DEF pageVars
<1>2. Place' /\ MenusBegun' /\ Counted' /\ Finished'
  BY <1>1 DEF PagesInv, Place, MenusBegun, Counted, Finished, Shown, InOrg, InRepo,
              IsSeq, RepoLinks, NotesLink
<1>3. \A o, r : /\ Past(o)' = Past(o) /\ Before(o, r)' = Before(o, r)
               /\ Current(o, r)' = Current(o, r)
  BY <1>1 DEF Past, Before, Current, InOrg, InRepo
<1>4. \A o, s : Excused(o, s)' = Excused(o, s)
  BY <1>1 DEF Excused
<1>5. \A from, p : LinkedBy(from, p)' = LinkedBy(from, p)
  BY <1>1 DEF LinkedBy
<1>6. \A p, o, r : Placed(p, o, r)' = Placed(p, o, r)
  BY <1>1, <1>3, <1>4, <1>5 DEF Placed, Tos
<1>7. \A p : RootOK(p)' = RootOK(p)
  BY <1>1 DEF RootOK
<1>8. \A p, o : OrgOK(p, o)' = OrgOK(p, o)
  BY <1>1, <1>3 DEF OrgOK, OrgLinks, Tos
<1>9. \A p, o, r : RepoOK(p, o, r)' = RepoOK(p, o, r)
  BY <1>1, <1>3, <1>4, <1>5 DEF RepoOK, RepoLinks, Tos
<1>10. \A p, o, r : ReadmeOK(p, o, r)' = ReadmeOK(p, o, r)
  BY <1>1, <1>6 DEF ReadmeOK
<1>11. \A p, o, r : ReleasesOK(p, o, r)' = ReleasesOK(p, o, r)
  BY <1>1, <1>3, <1>6 DEF ReleasesOK, NotesLink
<1>12. \A p, o, r, t : NotesOK(p, o, r, t)' = NotesOK(p, o, r, t)
  BY <1>1, <1>3, <1>4, <1>5 DEF NotesOK, Tos
<1>13. AllPagesOK'
  BY <1>1, <1>7, <1>8, <1>9, <1>10, <1>11, <1>12 DEF PagesInv, AllPagesOK, PageOK
<1>. QED
  BY <1>2, <1>13 DEF PagesInv

-----------------------------------------------------------------------------
(* What the invariant says of the pages that have a path. *)

PageKnown(p, o, r, t) ==
    /\ p = Pages!RootPage => RootOK(p)
    /\ p = Pages!OrgPage(o) => o \in Names /\ OrgOK(p, o)
    /\ p = Pages!RepoPage(o, r) => o \in Names
           /\ \E v \in Repositories(o) : Slug[v] = Slug[r] /\ RepoOK(p, o, v)
    /\ p = Pages!ReadmePage(o, r) => o \in Names
           /\ \E v \in Repositories(o) : Slug[v] = Slug[r] /\ ReadmeOK(p, o, v)
    /\ p = Pages!ReleasesPage(o, r) => o \in Names
           /\ \E v \in Repositories(o) : Slug[v] = Slug[r] /\ ReleasesOK(p, o, v)
    /\ p = Pages!NotesPage(o, r, t) => o \in Names
           /\ \E v \in Repositories(o) : \E w \in Marks :
                 Slug[v] = Slug[r] /\ Slug[w] = Slug[t] /\ NotesOK(p, o, v, w)

LEMMA ReadmeTells ==
    ASSUME NEW o, NEW r, NEW u, NEW v, Pages!ReadmePage(o, r) = Pages!ReadmePage(u, v)
    PROVE  o = u /\ Slug[r] = Slug[v]
<1>1. /\ Pages!ReadmePage(o, r)[2] = o /\ Pages!ReadmePage(u, v)[2] = u
      /\ Pages!ReadmePage(o, r)[3] = Slug[r] /\ Pages!ReadmePage(u, v)[3] = Slug[v]
  BY DEF Pages!ReadmePage
<1>. QED
  BY <1>1

LEMMA PageAt ==
    ASSUME AllPagesOK, NEW p \in DOMAIN written, NEW o, NEW r, NEW t
    PROVE  PageKnown(p, o, r, t)
<1>1. PageOK(p)
  BY DEF AllPagesOK
<1>2. ASSUME RootOK(p)
      PROVE  PageKnown(p, o, r, t)
  <2>1. p = Pages!RootPage
    BY <1>2 DEF RootOK
  <2>2. /\ p # Pages!OrgPage(o)
        /\ p # Pages!RepoPage(o, r)
        /\ p # Pages!ReadmePage(o, r)
        /\ p # Pages!ReleasesPage(o, r)
        /\ p # Pages!NotesPage(o, r, t)
    BY <2>1, Kinds
  <2>. QED
    BY <1>2, <2>2 DEF PageKnown
<1>3. ASSUME NEW u \in Names, OrgOK(p, u)
      PROVE  PageKnown(p, o, r, t)
  <2>1. p = Pages!OrgPage(u)
    BY <1>3 DEF OrgOK
  <2>2. /\ p # Pages!RootPage
        /\ p # Pages!RepoPage(o, r)
        /\ p # Pages!ReadmePage(o, r)
        /\ p # Pages!ReleasesPage(o, r)
        /\ p # Pages!NotesPage(o, r, t)
    BY <2>1, Kinds
  <2>3. p = Pages!OrgPage(o) => o = u
    BY <2>1, PathsTell
  <2>. QED
    BY <1>3, <2>2, <2>3 DEF PageKnown
<1>4. ASSUME NEW u \in Names, NEW v \in Repositories(u), RepoOK(p, u, v)
      PROVE  PageKnown(p, o, r, t)
  <2>1. p = Pages!RepoPage(u, v)
    BY <1>4 DEF RepoOK
  <2>2. /\ p # Pages!RootPage
        /\ p # Pages!OrgPage(o)
        /\ p # Pages!ReadmePage(o, r)
        /\ p # Pages!ReleasesPage(o, r)
        /\ p # Pages!NotesPage(o, r, t)
    BY <2>1, Kinds
  <2>3. Pages!RepoPage(o, r) = Pages!RepoPage(u, v) => o = u /\ Slug[r] = Slug[v]
    BY PathsTell
  <2>. QED
    BY <1>4, <2>1, <2>2, <2>3 DEF PageKnown
<1>5. ASSUME NEW u \in Names, NEW v \in Repositories(u), ReadmeOK(p, u, v)
      PROVE  PageKnown(p, o, r, t)
  <2>1. p = Pages!ReadmePage(u, v)
    BY <1>5 DEF ReadmeOK
  <2>2. /\ p # Pages!RootPage
        /\ p # Pages!OrgPage(o)
        /\ p # Pages!RepoPage(o, r)
        /\ p # Pages!ReleasesPage(o, r)
        /\ p # Pages!NotesPage(o, r, t)
    BY <2>1, Kinds
  <2>3. Pages!ReadmePage(o, r) = Pages!ReadmePage(u, v) => o = u /\ Slug[r] = Slug[v]
    BY ReadmeTells
  <2>. QED
    BY <1>5, <2>1, <2>2, <2>3 DEF PageKnown
<1>6. ASSUME NEW u \in Names, NEW v \in Repositories(u), ReleasesOK(p, u, v)
      PROVE  PageKnown(p, o, r, t)
  <2>1. p = Pages!ReleasesPage(u, v)
    BY <1>6 DEF ReleasesOK
  <2>2. /\ p # Pages!RootPage
        /\ p # Pages!OrgPage(o)
        /\ p # Pages!RepoPage(o, r)
        /\ p # Pages!ReadmePage(o, r)
        /\ p # Pages!NotesPage(o, r, t)
    BY <2>1, Kinds
  <2>3. Pages!ReleasesPage(o, r) = Pages!ReleasesPage(u, v) => o = u /\ Slug[r] = Slug[v]
    BY PathsTell
  <2>. QED
    BY <1>6, <2>1, <2>2, <2>3 DEF PageKnown
<1>7. ASSUME NEW u \in Names, NEW v \in Repositories(u), NEW w \in Marks, NotesOK(p, u, v, w)
      PROVE  PageKnown(p, o, r, t)
  <2>1. p = Pages!NotesPage(u, v, w)
    BY <1>7 DEF NotesOK
  <2>2. /\ p # Pages!RootPage
        /\ p # Pages!OrgPage(o)
        /\ p # Pages!RepoPage(o, r)
        /\ p # Pages!ReadmePage(o, r)
        /\ p # Pages!ReleasesPage(o, r)
    BY <2>1, Kinds
  <2>3. Pages!NotesPage(o, r, t) = Pages!NotesPage(u, v, w) =>
            o = u /\ Slug[r] = Slug[v] /\ Slug[t] = Slug[w]
    BY PathsTell
  <2>. QED
    BY <1>7, <2>1, <2>2, <2>3 DEF PageKnown
<1>. QED
  BY <1>1, <1>2, <1>3, <1>4, <1>5, <1>6, <1>7 DEF PageOK

(* One more link from a page. *)
LEMMA Leads ==
    ASSUME NEW ps
    PROVE  /\ \A q : q \in Pages!Kids(ps) =>
                  \E p \in ps : p \in DOMAIN written /\ q \in Tos(written[p].links)
           /\ \A p \in ps : \A q : LinkedBy(p, q) => q \in Pages!Kids(ps)
BY DEF Pages!Kids, LinkedBy, Tos, Range, Pages!Range

-----------------------------------------------------------------------------
(* The levels of the menus, once the run is done. *)

OrgLevel == Pages!Kids({Pages!RootPage})
RepoLevel == Pages!Kids(OrgLevel)
FileLevel == Pages!Kids(RepoLevel)

LEMMA Levels ==
    ASSUME PagesInv, Finished, gPhase = "done"
    PROVE  /\ \A p \in OrgLevel : \E o \in Names :
                 p = Pages!OrgPage(o) /\ p \in DOMAIN written
           /\ \A p \in RepoLevel : \E o, r :
                 p = Pages!RepoPage(o, r) /\ p \in DOMAIN written
           /\ \A p \in FileLevel : \E o, r :
                 /\ Pages!RepoPage(o, r) \in DOMAIN written /\ p \in DOMAIN written
                 /\ p \in {Pages!ReadmePage(o, r), Pages!ReleasesPage(o, r)}
           /\ Pages!Kids(FileLevel) \subseteq DOMAIN written
<1>1. AllPagesOK
  BY DEF PagesInv
<1>2. ASSUME NEW q \in OrgLevel
      PROVE  \E o \in Names : q = Pages!OrgPage(o) /\ q \in DOMAIN written
  <2>1. /\ Pages!RootPage \in DOMAIN written
        /\ q \in Tos(written[Pages!RootPage].links)
    BY <1>2, Leads DEF OrgLevel
  <2>2. written[Pages!RootPage].links = gRoot
    BY <1>1, <2>1, PageAt, MenuFields DEF PageKnown, RootOK
  <2>3. PICK l \in Range(gRoot) : q = l.to
    BY <2>1, <2>2 DEF Tos
  <2>4. PICK i \in 1..gOrg - 1 :
            /\ l = Pages!Link(Pages!OrgPage(OrgNames[i]), <<OrgNames[i]>>)
            /\ l.to \in DOMAIN written
    BY <2>3 DEF PagesInv, MenusBegun
  <2>5. OrgNames[i] \in Names
    BY PlaceFacts DEF PagesInv, Place
  <2>6. q = Pages!OrgPage(OrgNames[i])
    BY <2>3, <2>4, Linked
  <2>. QED
    BY <2>3, <2>4, <2>5, <2>6
<1>3. ASSUME NEW q \in RepoLevel
      PROVE  \E o, r : q = Pages!RepoPage(o, r) /\ q \in DOMAIN written
  <2>1. PICK p \in OrgLevel : p \in DOMAIN written /\ q \in Tos(written[p].links)
    BY <1>3, Leads DEF RepoLevel
  <2>2. PICK o \in Names : p = Pages!OrgPage(o)
    BY <1>2, <2>1
  <2>3. OrgLinks(o, written[p].links)
    BY <1>1, <2>1, <2>2, PageAt DEF PageKnown, OrgOK
  <2>4. PICK l \in Range(written[p].links) : q = l.to
    BY <2>1 DEF Tos
  <2>5. PICK r \in Repositories(o) :
            l = Pages!Link(Pages!RepoPage(o, r), <<o, r>>) /\ l.to \in DOMAIN written
    BY <2>3, <2>4 DEF OrgLinks
  <2>. QED
    BY <2>4, <2>5, Linked
<1>4. ASSUME NEW q \in FileLevel
      PROVE  \E o, r :
                 /\ Pages!RepoPage(o, r) \in DOMAIN written /\ q \in DOMAIN written
                 /\ q \in {Pages!ReadmePage(o, r), Pages!ReleasesPage(o, r)}
  <2>1. PICK p \in RepoLevel : p \in DOMAIN written /\ q \in Tos(written[p].links)
    BY <1>4, Leads DEF FileLevel
  <2>2. PICK o, r : p = Pages!RepoPage(o, r)
    BY <1>3, <2>1
  <2>3. PICK v \in Repositories(o) : RepoOK(p, o, v)
    BY <1>1, <2>1, <2>2, PageAt DEF PageKnown
  <2>4. RepoLinks(o, v, written[p].links) /\ p = Pages!RepoPage(o, v)
    BY <2>3 DEF RepoOK
  <2>. QED
    BY <2>1, <2>4 DEF RepoLinks, Tos
<1>5. ASSUME NEW q \in Pages!Kids(FileLevel)
      PROVE  q \in DOMAIN written
  <2>1. PICK p \in FileLevel : p \in DOMAIN written /\ q \in Tos(written[p].links)
    BY <1>5, Leads
  <2>2. PICK o, r : /\ Pages!RepoPage(o, r) \in DOMAIN written
                    /\ p \in {Pages!ReadmePage(o, r), Pages!ReleasesPage(o, r)}
    BY <1>4, <2>1
  <2>3. PICK l \in Range(written[p].links) : q = l.to
    BY <2>1 DEF Tos
  <2>4. p # Pages!ReadmePage(o, r)
    <3> SUFFICES ASSUME p = Pages!ReadmePage(o, r) PROVE FALSE
      OBVIOUS
    <3>1. PICK v \in Repositories(o) : ReadmeOK(p, o, v)
      BY <1>1, <2>1, PageAt DEF PageKnown
    <3>. QED
      BY <2>3, <3>1, EmptyMenu DEF ReadmeOK
  <2>5. PICK v \in Repositories(o) : Slug[v] = Slug[r] /\ ReleasesOK(p, o, v)
    BY <1>1, <2>1, <2>2, <2>4, PageAt DEF PageKnown
  <2>6. NotesLink(o, v, l) \/ l = Pages!Link(Pages!RepoPage(o, v), <<o, v>>)
    BY <2>3, <2>5 DEF ReleasesOK
  <2>7. Pages!RepoPage(o, v) = Pages!RepoPage(o, r)
    BY <2>5, PathsTell
  <2>8. CASE NotesLink(o, v, l)
    BY <2>3, <2>8 DEF NotesLink
  <2>9. CASE l = Pages!Link(Pages!RepoPage(o, v), <<o, v>>)
    BY <2>2, <2>3, <2>7, <2>9, Linked
  <2>. QED
    BY <2>6, <2>8, <2>9
<1>. QED
  BY <1>2, <1>3, <1>4, <1>5

LEMMA LinksLeadSomewhere ==
    ASSUME PagesInv, Finished
    PROVE  Pages!LinksLead
<1> SUFFICES ASSUME gPhase = "done" PROVE Pages!Reached \subseteq DOMAIN written
  BY DEF Pages!LinksLead
<1>1. Pages!Reached = {Pages!RootPage} \cup OrgLevel \cup RepoLevel \cup FileLevel
                      \cup Pages!Kids(FileLevel)
  BY DEF Pages!Reached, OrgLevel, RepoLevel, FileLevel
<1>2. Pages!RootPage \in DOMAIN written
  BY DEF Finished
<1>. QED
  BY <1>1, <1>2, Levels

LEMMA LinksTell ==
    ASSUME PagesInv
    PROVE  Pages!LinksTellTruth
<1>1. AllPagesOK
  BY DEF PagesInv
<1> SUFFICES ASSUME NEW p \in DOMAIN written, NEW l \in Range(written[p].links),
                    l.to \in DOMAIN written,
                    Len(l.about) >= 2 =>
                        Pages!Alone(l.about[2], Repositories(l.about[1])),
                    Len(l.about) = 3 => Pages!Alone(l.about[3], Marks)
             PROVE  written[l.to].about = l.about
  BY DEF Pages!LinksTellTruth, Repositories, Marks, Range, Pages!Range
<1>2. PageOK(p)
  BY <1>1 DEF AllPagesOK
<1>3. CASE RootOK(p)
  <2>1. l \in Range(gRoot)
    BY <1>3, MenuFields DEF RootOK
  <2>2. PICK i \in 1..gOrg - 1 :
            l = Pages!Link(Pages!OrgPage(OrgNames[i]), <<OrgNames[i]>>)
    BY <2>1 DEF PagesInv, MenusBegun
  <2>3. l.to = Pages!OrgPage(OrgNames[i]) /\ l.about = <<OrgNames[i]>>
    BY <2>2, Linked
  <2>. QED
    BY <1>1, <2>3, PageAt DEF PageKnown, OrgOK
<1>4. ASSUME NEW o \in Names, NEW r \in Repositories(o), l.about = <<o, r>>,
             l.to \in {Pages!RepoPage(o, r), Pages!ReadmePage(o, r),
                       Pages!ReleasesPage(o, r)}
      PROVE  written[l.to].about = l.about
  <2>1. Len(l.about) = 2 /\ l.about[1] = o /\ l.about[2] = r
    BY <1>4
  <2>2. \A v \in Repositories(o) : Slug[v] = Slug[r] => v = r
    BY <2>1 DEF Pages!Alone
  <2>3. CASE l.to = Pages!RepoPage(o, r)
    <3>1. PICK v \in Repositories(o) : Slug[v] = Slug[r] /\ RepoOK(l.to, o, v)
      BY <1>1, <2>3, PageAt DEF PageKnown
    <3>. QED
      BY <1>4, <2>2, <3>1 DEF RepoOK
  <2>4. CASE l.to = Pages!ReadmePage(o, r)
    <3>1. PICK v \in Repositories(o) : Slug[v] = Slug[r] /\ ReadmeOK(l.to, o, v)
      BY <1>1, <2>4, PageAt DEF PageKnown
    <3>. QED
      BY <1>4, <2>2, <3>1 DEF ReadmeOK
  <2>5. CASE l.to = Pages!ReleasesPage(o, r)
    <3>1. PICK v \in Repositories(o) : Slug[v] = Slug[r] /\ ReleasesOK(l.to, o, v)
      BY <1>1, <2>5, PageAt DEF PageKnown
    <3>. QED
      BY <1>4, <2>2, <3>1 DEF ReleasesOK
  <2>. QED
    BY <1>4, <2>3, <2>4, <2>5
<1>5. ASSUME NEW o \in Names, OrgOK(p, o)
      PROVE  written[l.to].about = l.about
  <2>1. PICK r \in Repositories(o) : l = Pages!Link(Pages!RepoPage(o, r), <<o, r>>)
    BY <1>5 DEF OrgOK, OrgLinks
  <2>. QED
    BY <1>4, <2>1, Linked
<1>6. ASSUME NEW o \in Names, NEW r \in Repositories(o), RepoOK(p, o, r)
      PROVE  written[l.to].about = l.about
  BY <1>4, <1>6 DEF RepoOK, RepoLinks
<1>7. ASSUME NEW o \in Names, NEW r \in Repositories(o), ReleasesOK(p, o, r)
      PROVE  written[l.to].about = l.about
  <2>1. CASE l = Pages!Link(Pages!RepoPage(o, r), <<o, r>>)
    BY <1>4, <2>1, Linked
  <2>2. CASE NotesLink(o, r, l)
    <3>1. PICK t \in Marks : l = Pages!Link(Pages!NotesPage(o, r, t), <<o, r, t>>)
      BY <2>2 DEF NotesLink
    <3>2. l.to = Pages!NotesPage(o, r, t) /\ l.about = <<o, r, t>>
      BY <3>1, Linked
    <3>3. /\ Len(l.about) = 3 /\ l.about[1] = o /\ l.about[2] = r /\ l.about[3] = t
      BY <3>2
    <3>4. /\ \A v \in Repositories(o) : Slug[v] = Slug[r] => v = r
          /\ \A w \in Marks : Slug[w] = Slug[t] => w = t
      BY <3>3 DEF Pages!Alone
    <3>5. PICK v \in Repositories(o), w \in Marks :
              Slug[v] = Slug[r] /\ Slug[w] = Slug[t] /\ NotesOK(l.to, o, v, w)
      BY <1>1, <3>2, PageAt DEF PageKnown
    <3>. QED
      BY <3>2, <3>4, <3>5 DEF NotesOK
  <2>. QED
    BY <1>7, <2>1, <2>2 DEF ReleasesOK
<1>8. ASSUME NEW o \in Names, NEW r \in Repositories(o), NEW t \in Marks,
             ReadmeOK(p, o, r) \/ NotesOK(p, o, r, t)
      PROVE  FALSE
  BY <1>8, EmptyMenu DEF ReadmeOK, NotesOK
<1>9. ASSUME NEW o \in Names, NEW r \in Repositories(o), ReadmeOK(p, o, r)
      PROVE  FALSE
  BY <1>9, EmptyMenu DEF ReadmeOK
<1>. QED
  BY <1>2, <1>3, <1>5, <1>6, <1>7, <1>8, <1>9 DEF PageOK

(* A repository that was passed over, or whose menu was overwritten. *)
PassedOver(p) ==
    /\ Len(p) > 2
    /\ \/ \E s \in skipped : s[1] = p[2] /\ (Len(s) = 2 => Slug[s[2]] = p[3])
       \/ \E r, q \in DOMAIN Slug : r # q /\ Slug[r] = p[3] /\ Slug[q] = p[3]

LEMMA Excuses ==
    ASSUME NEW o, NEW r, NEW t, Excused(o, Slug[r]),
           NEW p \in {Pages!RepoPage(o, r), Pages!ReadmePage(o, r),
                      Pages!ReleasesPage(o, r), Pages!NotesPage(o, r, t)}
    PROVE  PassedOver(p)
<1>1. Len(p) > 2 /\ p[2] = o /\ p[3] = Slug[r]
  BY DEF Pages!RepoPage, Pages!ReadmePage, Pages!ReleasesPage, Pages!NotesPage
<1>. QED
  BY <1>1 DEF PassedOver, Excused, Collides

LEMMA Orphans ==
    ASSUME PagesInv, Finished
    PROVE  Pages!OrphansWereSkipped
<1>1. AllPagesOK
  BY DEF PagesInv
<1> SUFFICES ASSUME gPhase = "done", NEW p \in DOMAIN written, p \notin Pages!Reached
             PROVE  PassedOver(p)
  BY DEF Pages!OrphansWereSkipped, PassedOver
<1>2. /\ p # Pages!RootPage /\ p \notin OrgLevel /\ p \notin RepoLevel
      /\ p \notin FileLevel /\ p \notin Pages!Kids(FileLevel)
  BY DEF Pages!Reached, OrgLevel, RepoLevel, FileLevel
<1>3. \A o, r : ~Current(o, r) /\ (Before(o, r) => Past(o))
  BY DEF Current, Before, InOrg, InRepo
<1>4. \A q : q \in Tos(gRoot) => q \in OrgLevel
  <2>1. /\ Pages!RootPage \in DOMAIN written
        /\ written[Pages!RootPage].links = gRoot
    BY <1>1, PageAt, MenuFields DEF Finished, PageKnown, RootOK
  <2>. QED
    BY <2>1, Leads DEF OrgLevel, LinkedBy
<1>5. ASSUME NEW o, Pages!OrgPage(o) \in DOMAIN written
      PROVE  Pages!OrgPage(o) \in OrgLevel
  BY <1>1, <1>4, <1>5, PageAt DEF PageKnown, OrgOK
<1>6. ASSUME NEW o, NEW r, Pages!RepoPage(o, r) \in DOMAIN written
      PROVE  Excused(o, Slug[r]) \/ Pages!RepoPage(o, r) \in RepoLevel
  <2>1. PICK v \in Repositories(o) : Slug[v] = Slug[r] /\ RepoOK(Pages!RepoPage(o, r), o, v)
    BY <1>1, <1>6, PageAt DEF PageKnown
  <2>2. Excused(o, Slug[r]) \/ LinkedBy(Pages!OrgPage(o), Pages!RepoPage(o, r))
    BY <1>3, <2>1 DEF RepoOK
  <2>3. LinkedBy(Pages!OrgPage(o), Pages!RepoPage(o, r)) =>
            Pages!RepoPage(o, r) \in RepoLevel
    BY <1>5, Leads DEF RepoLevel, LinkedBy
  <2>. QED
    BY <2>2, <2>3
<1>7. ASSUME NEW q, NEW o, NEW r, Placed(q, o, r)
      PROVE  Excused(o, Slug[r]) \/ q \in FileLevel
  <2>1. Excused(o, Slug[r]) \/ LinkedBy(Pages!RepoPage(o, r), q)
    BY <1>3, <1>7 DEF Placed
  <2>2. CASE LinkedBy(Pages!RepoPage(o, r), q)
    <3>1. Excused(o, Slug[r]) \/ Pages!RepoPage(o, r) \in RepoLevel
      BY <1>6, <2>2 DEF LinkedBy
    <3>. QED
      BY <2>2, <3>1, Leads DEF FileLevel
  <2>. QED
    BY <2>1, <2>2
<1>8. PageOK(p) /\ ~RootOK(p) /\ \A o : ~OrgOK(p, o)
  BY <1>1, <1>2, <1>4 DEF AllPagesOK, RootOK, OrgOK
<1>9. ASSUME NEW o \in Names, NEW r \in Repositories(o), RepoOK(p, o, r)
      PROVE  Excused(o, Slug[r]) /\ p = Pages!RepoPage(o, r)
  <2>1. p = Pages!RepoPage(o, r)
    BY <1>9 DEF RepoOK
  <2>. QED
    BY <1>2, <1>6, <2>1
<1>10. ASSUME NEW o \in Names, NEW r \in Repositories(o),
              ReadmeOK(p, o, r) \/ ReleasesOK(p, o, r)
       PROVE  /\ Excused(o, Slug[r])
              /\ p \in {Pages!ReadmePage(o, r), Pages!ReleasesPage(o, r)}
  <2>1. Placed(p, o, r) /\ p \in {Pages!ReadmePage(o, r), Pages!ReleasesPage(o, r)}
    BY <1>10 DEF ReadmeOK, ReleasesOK
  <2>. QED
    BY <1>2, <1>7, <2>1
<1>11. ASSUME NEW o \in Names, NEW r \in Repositories(o), NEW t \in Marks,
              NotesOK(p, o, r, t)
       PROVE  Excused(o, Slug[r]) /\ p = Pages!NotesPage(o, r, t)
  <2>1. /\ p = Pages!NotesPage(o, r, t)
        /\ Excused(o, Slug[r]) \/ LinkedBy(Pages!ReleasesPage(o, r), p)
    BY <1>3, <1>11 DEF NotesOK
  <2>2. CASE LinkedBy(Pages!ReleasesPage(o, r), p)
    <3> DEFINE q == Pages!ReleasesPage(o, r)
    <3>1. q \in DOMAIN written
      BY <2>2 DEF LinkedBy
    <3>2. PICK v \in Repositories(o) : Slug[v] = Slug[r] /\ ReleasesOK(q, o, v)
      BY <1>1, <3>1, PageAt DEF PageKnown
    <3>3. Excused(o, Slug[r]) \/ q \in FileLevel
      BY <1>7, <3>2 DEF ReleasesOK
    <3>4. q \in FileLevel => p \in Pages!Kids(FileLevel)
      BY <2>2, Leads
    <3>. QED
      BY <1>2, <2>1, <3>3, <3>4
  <2>. QED
    BY <2>1, <2>2
<1>12. PICK o, r :
          /\ Excused(o, Slug[r])
          /\ \E t : p \in {Pages!RepoPage(o, r), Pages!ReadmePage(o, r),
                            Pages!ReleasesPage(o, r), Pages!NotesPage(o, r, t)}
  <2>1. CASE \E o \in Names : \E r \in Repositories(o) : RepoOK(p, o, r)
    BY <1>9, <2>1
  <2>2. CASE \E o \in Names : \E r \in Repositories(o) :
               ReadmeOK(p, o, r) \/ ReleasesOK(p, o, r)
    BY <1>10, <2>2
  <2>3. CASE \E o \in Names : \E r \in Repositories(o) : \E t \in Marks :
               NotesOK(p, o, r, t)
    BY <1>11, <2>3
  <2>. QED
    BY <1>8, <2>1, <2>2, <2>3 DEF PageOK
<1>13. PICK t : p \in {Pages!RepoPage(o, r), Pages!ReadmePage(o, r),
                      Pages!ReleasesPage(o, r), Pages!NotesPage(o, r, t)}
  BY <1>12
<1>. QED
  BY <1>12, <1>13, Excuses

LEMMA CountsAndTypes ==
    ASSUME PagesInv
    PROVE  Pages!MenuCounts /\ Pages!TypeOK
<1>1. Pages!MenuCounts
  <2>1. ASSUME gPhase = "repo"
        PROVE  /\ Len(orgMenu) = Cardinality(Shown(OrgNames[gOrg]))
               /\ \A i \in 1..gAt - 1 : \/ <<OrgNames[gOrg], gRepos[i]>> \in skipped
                                        \/ i \in Shown(OrgNames[gOrg])
    BY <2>1 DEF PagesInv, Counted, InOrg
  <2>2. Shown(OrgNames[gOrg]) =
            {i \in 1..gAt - 1 :
                \E k \in DOMAIN orgMenu : orgMenu[k].about = <<OrgNames[gOrg], gRepos[i]>>}
    BY DEF Shown
  <2>3. \A i \in Shown(OrgNames[gOrg]) :
            \E k \in DOMAIN orgMenu : orgMenu[k].about = <<OrgNames[gOrg], gRepos[i]>>
    BY <2>2
  <2>4. \A S : Pages!Cardinality(S) = Cardinality(S)
    BY DEF Pages!Cardinality, Cardinality
  <2>. QED
    BY <2>1, <2>2, <2>3, <2>4 DEF Pages!MenuCounts
<1>2. \A p \in DOMAIN written : Len(p) \in 1..5
  <2> SUFFICES ASSUME NEW p \in DOMAIN written PROVE Len(p) \in 1..5
    OBVIOUS
  <2>1. PageOK(p)
    BY DEF PagesInv, AllPagesOK
  <2>2. \/ p = Pages!RootPage
        \/ \E o, r, t : p \in {Pages!OrgPage(o), Pages!RepoPage(o, r), Pages!ReadmePage(o, r),
                              Pages!ReleasesPage(o, r), Pages!NotesPage(o, r, t)}
    BY <2>1 DEF PageOK, RootOK, OrgOK, RepoOK, ReadmeOK, ReleasesOK, NotesOK
  <2>. QED
    BY <2>2, PageLengths
<1>3. Range(tags) \subseteq DOMAIN Slug
  <2>1. \A i \in DOMAIN tags : tags[i] \in Marks
    BY LenProperties, ElementOfSeq DEF PagesInv, Place
  <2>2. Marks \subseteq DOMAIN Slug
    <3> SUFFICES ASSUME NEW t \in Tags, NEW i \in DOMAIN t PROVE t[i] \in DOMAIN Slug
      BY DEF Marks, Range
    <3>. QED
      BY NamesAssumption, LenProperties, ElementOfSeq
  <2>. QED
    BY <2>1, <2>2 DEF Range
<1>4. gRepos \in {<<>>} \cup UNION Range(Listings)
  <2>1. CASE gRepos = <<>>
    BY <2>1 DEF Range
  <2>2. CASE gRepos # <<>>
    BY <2>2 DEF PagesInv, Place, Range
  <2>. QED
    BY <2>1, <2>2
<1>. QED
  BY <1>1, <1>2, <1>3, <1>4 DEF PagesInv, Place, Pages!TypeOK, Range, Pages!Range

LEMMA PagesSound ==
    ASSUME PagesInv, Finished
    PROVE  PagesAreSound
BY LinksLeadSomewhere, LinksTell, Orphans, CountsAndTypes
   DEF PagesAreSound, Pages!PagesAreSound

-----------------------------------------------------------------------------
(* The three parts together: a step of one of them leaves the others alone. *)

LEMMA RequestsOver == RunOver => BudgetInv
<1> SUFFICES ASSUME RunOver PROVE BudgetInv
  OBVIOUS
<1>1. (CHOOSE n \in Sizes : TRUE) \in Sizes
  BY ValuesAssumption
<1>2. size \in [Orgs -> Sizes]
  BY <1>1 DEF RunOver
<1>3. TypeOK
  <2>1. /\ attempt \in 1..Tries /\ remaining \in 0..Limit /\ limit \in Nat
        /\ faults \in 0..MaxFaults /\ others \in 0..MaxOthers
    BY BoundsAssumption DEF RunOver
  <2>2. /\ org \in 1..NOrgs + 1 /\ page \in 1..MaxPages
        /\ listed \in 0..PageSize * MaxPages
    BY OrgsAssumption DEF RunOver, PageSize, MaxPages
  <2>. QED
    BY <1>2, <2>1, <2>2 DEF RunOver, TypeOK
<1>4. Position /\ Solvent
  BY DEF RunOver, Position, Solvent
<1>. QED
  BY <1>3, <1>4 DEF BudgetInv, TypeInv

LEMMA FilesAreOver == FilesOver => FilesInv
<1> SUFFICES ASSUME FilesOver PROVE FilesInv
  OBVIOUS
<1>1. catalogue \in Catalogues /\ aLimit \in CopyLimits
  BY ValuesAssumption DEF FilesOver
<1>2. catalogue \in Seq(Paths) /\ Len(catalogue) \in Nat /\ aLimit \in Nat
  BY <1>1, FilesAssumption, LenProperties
<1>3. stored \in [Paths -> Files!File]
  BY DEF FilesOver, Files!File
<1>4. Files!TypeOK
  <2>1. /\ links \in Seq(Files!Link) /\ DOMAIN links = {} /\ got.size = 0 /\ got.of = 0
        /\ got \in [by : {"nobody", "copy", "proxy", "listing"}, size : Nat, of : Nat]
    BY DEF FilesOver
  <2>2. aAt \in 1..Len(catalogue) + 1
    BY <1>2 DEF FilesOver
  <2>. QED
    BY <1>1, <1>3, <2>1, <2>2 DEF FilesOver, Files!TypeOK
<1>5. Files!DownloadsAreSound
  BY DEF FilesOver, Files!DownloadsAreSound, Files!CopiesAreWhole,
         Files!MenuFollowsCatalogue, Files!DownloadIsWhole, Files!RootLinksLead
<1>. QED
  BY <1>4, <1>5 DEF FilesInv, FilesOver

LEMMA OneMoves ==
    ASSUME [IngestNext]_<<vars, pageVars, fileVars>>
    PROVE  /\ [Next]_vars
           /\ Pages!Next \/ UNCHANGED pageVars
           /\ [Files!Next]_fileVars
BY DEF IngestNext

(* The variables of the GitHub run keep to their types, and enough of the
   hour's budget is left for the requests of the documentation
   (github.go's affordableRepos), whatever else the run does. *)
THEOREM RequestsAreSound == IngestSpec => [](TypeOK /\ ReserveKept)
<1>1. IngestInit => BudgetInv
  <2>1. Init => BudgetInv
    BY TypeInvInit DEF Init, BudgetInv, Solvent
  <2>. QED
    BY <2>1, RequestsOver DEF IngestInit
<1>2. BudgetInv /\ [IngestNext]_<<vars, pageVars, fileVars>> => BudgetInv'
  BY OneMoves, TypeInvNext, SolventNext DEF BudgetInv
<1>3. BudgetInv => TypeOK /\ ReserveKept
  BY FundsType, DueType
  DEF BudgetInv, TypeInv, Solvent, ReserveKept, Funds, Due, ReservedRequests
<1>. QED
  BY <1>1, <1>2, <1>3, PTL DEF IngestSpec

(* Every entry of artifacts.json that resolves is linked once and in order, a
   linked copy is all of the file, a visitor gets all of it or as much as the
   proxy's limit allows, and the file server's menu links what is there,
   whatever fails (artifactory.go's writeDownloads and mirror). *)
THEOREM DownloadsAreAlwaysSound == IngestSpec => []DownloadsAreSound
<1>1. IngestInit => FilesInv
  BY FilesInitially, FilesAreOver DEF IngestInit
<1>2. FilesInv /\ [IngestNext]_<<vars, pageVars, fileVars>> => FilesInv'
  BY OneMoves, FilesNext
<1>3. FilesInv => DownloadsAreSound
  BY DEF FilesInv, DownloadsAreSound
<1>. QED
  BY <1>1, <1>2, <1>3, PTL DEF IngestSpec

(* When the GitHub part is done, no link that a reader comes to leads nowhere,
   every link says what the page is about, every page is linked but those of
   what was passed over, and every menu counts right, whatever failed
   (github.go's Run, writeOrg, writeRepo and writeReleases). *)
THEOREM PagesAreAlwaysSound == IngestSpec => []PagesAreSound
<1>1. IngestInit => PagesInv /\ Finished
  BY PagesBegin DEF IngestInit, PagesOver, Pages!Init
<1>2. PagesInv /\ Finished /\ [IngestNext]_<<vars, pageVars, fileVars>> =>
          PagesInv' /\ Finished'
  BY OneMoves, PagesNext, PagesStill
<1>3. PagesInv /\ Finished => PagesAreSound
  BY PagesSound
<1>. QED
  BY <1>1, <1>2, <1>3, PTL DEF IngestSpec

-----------------------------------------------------------------------------
(* The cache that all of it is fetched through: FetchCache, for any number  *)
(* of versions, retries and crashes.  With one caller per URL and as long   *)
(* as no write has failed, an entry is never wrong, whatever step of a save *)
(* the process died in.                                                     *)


OneCaller == \A g, h \in Getters : g = h

(* The upstream is never behind anything that came from it. *)
NothingFromTheFuture ==
    /\ meta <= version
    /\ body <= version
    /\ \A g \in Getters : served[g] <= version /\ since[g] <= version /\ seen[g] <= version

(* What is on the disk while a get is under way. *)
DiskDuringGet ==
    \A g \in Getters :
        /\ pc[g] \in {"request", "reply"} => etag[g] = meta
        /\ pc[g] \in {"reply", "fillBody", "saveMeta", "fillMeta"} =>
             since[g] <= served[g] /\ seen[g] <= served[g]
        /\ pc[g] = "reply" /\ reply[g] = "notModified" => body = served[g]
        /\ pc[g] = "reply" /\ reply[g] = "ok" => meta < served[g]
        /\ pc[g] = "fillBody" => meta < served[g]
        /\ pc[g] = "saveMeta" => meta < served[g] /\ body = served[g]
        /\ pc[g] = "fillMeta" => meta = NoFile /\ body = served[g]

(* What a caller has had, its entry still has or has better. *)
ResultsAreKept ==
    \A g \in Getters :
        /\ result[g] > NoFile => pc[g] = "done" /\ result[g] = body
        /\ body > NoFile => seen[g] <= body
        /\ pc[g] = "done" => result[g] # NoFile

EntrySound == meta = version => body = version
AnswersSound ==
    \A g \in Getters : (pc[g] = "done" /\ fresh[g]) => result[g] >= since[g]

Faithful ==
    /\ CacheTypeOK
    /\ NothingFromTheFuture
    /\ DiskDuringGet
    /\ ResultsAreKept
    /\ EntrySound
    /\ AnswersSound

(* A failed write ends the promise, not the types. *)
CacheIInv == CacheTypeOK /\ (writeFaults = 0 => Faithful)

-----------------------------------------------------------------------------
LEMMA CacheInitFaithful == CacheInit => Faithful
BY RetriesAssumption, MaxVersionAssumption, FaultsAssumption
   DEF CacheInit, Faithful, CacheTypeOK, NothingFromTheFuture, DiskDuringGet, ResultsAreKept,
       EntrySound, AnswersSound, Versions, Replies, Steps, MostAttempts,
       DefaultRetries, NoFile, Torn

LEMMA WriteFaultType ==
    ASSUME CacheTypeOK, WriteFault
    PROVE  crashes' = crashes /\ writeFaults' \in 0..MaxWriteFaults
<1>1. writeFaults \in 0..MaxWriteFaults
  BY DEF CacheTypeOK
<1>2. QED BY <1>1, FaultsAssumption DEF WriteFault

LEMMA AttemptsType == MostAttempts \in Nat \ {0}
BY RetriesAssumption DEF MostAttempts, DefaultRetries

LEMMA CacheTypeStep == CacheTypeOK /\ [CacheNext]_cacheVars => CacheTypeOK'
<1> SUFFICES ASSUME CacheTypeOK, [CacheNext]_cacheVars PROVE CacheTypeOK'
  OBVIOUS
<1> USE RetriesAssumption, MaxVersionAssumption, FaultsAssumption
    DEF CacheTypeOK, GoTo, Steps
<1>1. CASE Publish
  BY <1>1 DEF Publish, Versions, diskVars, resultVars, historyVars, faultVars
<1>2. ASSUME NEW g \in Getters, Begin(g) PROVE CacheTypeOK'
  <2>1. UNCHANGED <<version, body, meta, etag, reply, served,
                    crashes, writeFaults>>
    BY <1>2 DEF Begin, diskVars, faultVars
  <2>2. pc' \in [Getters -> Steps]
    BY <1>2 DEF Begin
  <2>3. attempts' \in [Getters -> 0..MostAttempts]
    BY <1>2, AttemptsType DEF Begin
  <2>4. result' \in [Getters -> Versions \cup {NoFile, Torn}] /\ fresh' \in [Getters -> BOOLEAN]
    BY <1>2 DEF Begin
  <2>5. since' \in [Getters -> Versions]
    BY <1>2 DEF Begin
  <2>6. seen' \in [Getters -> Versions \cup {NoFile}]
    BY <1>2 DEF Begin, Versions, NoFile, Torn
  <2>7. QED BY <2>1, <2>2, <2>3, <2>4, <2>5, <2>6 DEF CacheTypeOK
<1>3. ASSUME NEW g \in Getters, ReadMeta(g) PROVE CacheTypeOK'
  BY <1>3 DEF ReadMeta, diskVars, resultVars, historyVars, faultVars
<1>4. ASSUME NEW g \in Getters, Request(g) PROVE CacheTypeOK'
  BY <1>4 DEF Request, diskVars, resultVars, historyVars, faultVars, Replies
<1>5. ASSUME NEW g \in Getters, NotModified(g) PROVE CacheTypeOK'
  <2>1. UNCHANGED <<version, body, meta, attempts, etag, reply,
                    served, since, seen, crashes, writeFaults>>
    BY <1>5 DEF NotModified, diskVars, historyVars, faultVars
  <2>2. pc' \in [Getters -> Steps]
    BY <1>5 DEF NotModified, Return
  <2>3. result' \in [Getters -> Versions \cup {NoFile, Torn}] /\ fresh' \in [Getters -> BOOLEAN]
    <3>1. \/ /\ result' = [result EXCEPT ![g] = body]
             /\ fresh' = [fresh EXCEPT ![g] = TRUE]
          \/ UNCHANGED <<result, fresh>>
      BY <1>5 DEF NotModified, Return, resultVars
    <3>2. CASE UNCHANGED <<result, fresh>>
      BY <3>2
    <3>3. CASE result' = [result EXCEPT ![g] = body] /\ fresh' = [fresh EXCEPT ![g] = TRUE]
      BY <3>3
    <3>4. QED BY <3>1, <3>2, <3>3
  <2>4. QED BY <2>1, <2>2, <2>3 DEF CacheTypeOK
<1>6. ASSUME NEW g \in Getters, ServeStale(g) PROVE CacheTypeOK'
  BY <1>6
     DEF ServeStale, diskVars, historyVars, faultVars, Return, Cached, NoFile
<1>7. ASSUME NEW g \in Getters, Retry(g) PROVE CacheTypeOK'
  BY <1>7
     DEF Retry, diskVars, resultVars, historyVars, faultVars, MostAttempts,
         DefaultRetries
<1>8. ASSUME NEW g \in Getters, GiveUp(g) PROVE CacheTypeOK'
  BY <1>8 DEF GiveUp, diskVars, resultVars, historyVars, faultVars
<1>9. ASSUME NEW g \in Getters, SaveBody(g) PROVE CacheTypeOK'
  BY <1>9 DEF SaveBody, resultVars, historyVars, faultVars, WriteFault
<1>10. ASSUME NEW g \in Getters, FillBody(g) PROVE CacheTypeOK'
  BY <1>10 DEF FillBody, resultVars, historyVars, faultVars, WriteFault
<1>11. ASSUME NEW g \in Getters, SaveMeta(g) PROVE CacheTypeOK'
  <2>1. UNCHANGED <<version, body, attempts, etag, reply, served,
                    since, seen, crashes>>
    BY <1>11 DEF SaveMeta, historyVars, faultVars, WriteFault
  <2>2. pc' \in [Getters -> Steps]
    BY <1>11 DEF SaveMeta, Return
  <2>3. meta' \in Versions \cup {NoFile}
    BY <1>11 DEF SaveMeta
  <2>4. result' \in [Getters -> Versions \cup {NoFile, Torn}]
    BY <1>11 DEF SaveMeta, Return, resultVars
  <2>5. fresh' \in [Getters -> BOOLEAN]
    BY <1>11 DEF SaveMeta, Return, resultVars
  <2>6. writeFaults' \in 0..MaxWriteFaults
    BY <1>11, WriteFaultType DEF SaveMeta, faultVars
  <2>7. QED BY <2>1, <2>2, <2>3, <2>4, <2>5, <2>6 DEF CacheTypeOK
<1>12. ASSUME NEW g \in Getters, FillMeta(g) PROVE CacheTypeOK'
  BY <1>12 DEF FillMeta, historyVars, faultVars, Return, WriteFault
<1>13. ASSUME NEW g \in Getters, Crash(g) PROVE CacheTypeOK'
  BY <1>13 DEF Crash, diskVars, resultVars, historyVars
<1>14. CASE UNCHANGED cacheVars
  BY <1>14 DEF cacheVars
<1>15. QED
  BY <1>1, <1>2, <1>3, <1>4, <1>5, <1>6, <1>7, <1>8, <1>9, <1>10, <1>11,
     <1>12, <1>13, <1>14 DEF CacheNext, GetStep

(* Every variable keeps its type, for any callers and any faults. *)
THEOREM CacheTypeCorrect == CacheSpec => []CacheTypeOK
<1>1. CacheInit => CacheTypeOK
  BY CacheInitFaithful DEF Faithful
<1>2. CacheTypeOK /\ [CacheNext]_cacheVars => CacheTypeOK'
  BY CacheTypeStep
<1>3. QED BY <1>1, <1>2, PTL DEF CacheSpec

LEMMA FaithfulStep ==
    ASSUME OneCaller, writeFaults' = 0, Faithful, [CacheNext]_cacheVars
    PROVE  Faithful'
<1> USE MaxVersionAssumption DEF GoTo, NoFile, Torn, Versions
<1>a. CacheTypeOK /\ CacheTypeOK'
  BY CacheTypeStep DEF Faithful
<1>b. ~WriteFault
  BY <1>a DEF WriteFault, CacheTypeOK
<1>1. CASE Publish
  <2>1. version' = version + 1 /\ UNCHANGED <<diskVars, pc, etag, reply, served, resultVars, historyVars>>
    BY <1>1 DEF Publish
  <2>2. meta <= version /\ version \in Nat /\ meta \in Nat
    BY DEF Faithful, NothingFromTheFuture, CacheTypeOK
  <2>3. NothingFromTheFuture'
    BY <1>a, <2>1 DEF Faithful, NothingFromTheFuture, CacheTypeOK, diskVars, historyVars
  <2>4. DiskDuringGet' /\ ResultsAreKept' /\ AnswersSound'
    BY <2>1
       DEF Faithful, DiskDuringGet, ResultsAreKept, AnswersSound, diskVars,
           resultVars, historyVars
  <2>5. EntrySound'
    BY <2>1, <2>2 DEF EntrySound, diskVars
  <2>6. QED BY <1>a, <2>3, <2>4, <2>5 DEF Faithful
<1>2. ASSUME NEW g \in Getters, Begin(g) PROVE Faithful'
  <2>a. \A h \in Getters : h = g
    BY DEF OneCaller
  <2>1. NothingFromTheFuture'
    <3>1. /\ UNCHANGED <<version, body, meta, served>>
          /\ since'[g] = version
          /\ seen'[g] = IF result[g] > seen[g] THEN result[g] ELSE seen[g]
      BY <1>a, <1>2 DEF Begin, CacheTypeOK, diskVars
    <3>2. result[g] = NoFile \/ result[g] = Torn \/ result[g] = body
      BY <1>a DEF Faithful, ResultsAreKept, CacheTypeOK
    <3>3. version \in Nat /\ seen[g] \in Nat
      BY <1>a DEF CacheTypeOK
    <3>4. QED BY <2>a, <3>1, <3>2, <3>3 DEF Faithful, NothingFromTheFuture
  <2>2. DiskDuringGet'
    BY <1>a, <1>b, <1>2, <2>a
       DEF Begin, Faithful, CacheTypeOK, DiskDuringGet, diskVars,
           NothingFromTheFuture, EntrySound, ResultsAreKept
  <2>3. ResultsAreKept'
    BY <1>a, <1>b, <1>2, <2>a
       DEF Begin, Faithful, CacheTypeOK, ResultsAreKept, diskVars,
           NothingFromTheFuture, DiskDuringGet, EntrySound
  <2>4. EntrySound'
    BY <1>a, <1>b, <1>2, <2>a
       DEF Begin, Faithful, CacheTypeOK, EntrySound, diskVars, NothingFromTheFuture,
           DiskDuringGet
  <2>5. AnswersSound'
    BY <1>a, <1>b, <1>2, <2>a
       DEF Begin, Faithful, CacheTypeOK, AnswersSound, diskVars,
           NothingFromTheFuture, DiskDuringGet, EntrySound
  <2>6. QED BY <1>a, <2>1, <2>2, <2>3, <2>4, <2>5 DEF Faithful
<1>3. ASSUME NEW g \in Getters, ReadMeta(g) PROVE Faithful'
  <2>a. \A h \in Getters : h = g
    BY DEF OneCaller
  <2>1. NothingFromTheFuture'
    BY <1>a, <1>b, <1>3, <2>a
       DEF ReadMeta, Faithful, CacheTypeOK, NothingFromTheFuture, diskVars,
           resultVars, historyVars, DiskDuringGet
  <2>2. DiskDuringGet'
    BY <1>a, <1>b, <1>3, <2>a
       DEF ReadMeta, Faithful, CacheTypeOK, DiskDuringGet, diskVars, resultVars,
           historyVars, NothingFromTheFuture, EntrySound, ResultsAreKept
  <2>3. ResultsAreKept'
    BY <1>a, <1>b, <1>3, <2>a
       DEF ReadMeta, Faithful, CacheTypeOK, ResultsAreKept, diskVars, resultVars,
           historyVars, NothingFromTheFuture, DiskDuringGet, EntrySound
  <2>4. EntrySound'
    BY <1>a, <1>b, <1>3, <2>a
       DEF ReadMeta, Faithful, CacheTypeOK, EntrySound, diskVars, resultVars,
           historyVars, NothingFromTheFuture, DiskDuringGet
  <2>5. AnswersSound'
    BY <1>a, <1>b, <1>3, <2>a
       DEF ReadMeta, Faithful, CacheTypeOK, AnswersSound, diskVars, resultVars,
           historyVars, NothingFromTheFuture, DiskDuringGet, EntrySound
  <2>6. QED BY <1>a, <2>1, <2>2, <2>3, <2>4, <2>5 DEF Faithful
<1>4. ASSUME NEW g \in Getters, Request(g) PROVE Faithful'
  <2>a. \A h \in Getters : h = g
    BY DEF OneCaller
  <2>1. NothingFromTheFuture'
    BY <1>a, <1>b, <1>4, <2>a
       DEF Request, Faithful, CacheTypeOK, NothingFromTheFuture, diskVars, resultVars,
           historyVars, DiskDuringGet
  <2>2. DiskDuringGet'
    BY <1>a, <1>b, <1>4, <2>a
       DEF Request, Faithful, CacheTypeOK, DiskDuringGet, diskVars, resultVars,
           historyVars, NothingFromTheFuture, EntrySound, ResultsAreKept
  <2>3. ResultsAreKept'
    BY <1>a, <1>b, <1>4, <2>a
       DEF Request, Faithful, CacheTypeOK, ResultsAreKept, diskVars, resultVars,
           historyVars, NothingFromTheFuture, DiskDuringGet, EntrySound
  <2>4. EntrySound'
    BY <1>a, <1>b, <1>4, <2>a
       DEF Request, Faithful, CacheTypeOK, EntrySound, diskVars, resultVars,
           historyVars, NothingFromTheFuture, DiskDuringGet
  <2>5. AnswersSound'
    BY <1>a, <1>b, <1>4, <2>a
       DEF Request, Faithful, CacheTypeOK, AnswersSound, diskVars, resultVars,
           historyVars, NothingFromTheFuture, DiskDuringGet, EntrySound
  <2>6. QED BY <1>a, <2>1, <2>2, <2>3, <2>4, <2>5 DEF Faithful
<1>5. ASSUME NEW g \in Getters, NotModified(g) PROVE Faithful'
  <2>a. \A h \in Getters : h = g
    BY DEF OneCaller
  <2>1. NothingFromTheFuture'
    BY <1>a, <1>b, <1>5, <2>a
       DEF NotModified, Faithful, CacheTypeOK, NothingFromTheFuture, diskVars,
           historyVars, resultVars, Return, DiskDuringGet
  <2>2. DiskDuringGet'
    BY <1>a, <1>b, <1>5, <2>a
       DEF NotModified, Faithful, CacheTypeOK, DiskDuringGet, diskVars, historyVars,
           resultVars, Return, NothingFromTheFuture, EntrySound, ResultsAreKept
  <2>3. ResultsAreKept'
    BY <1>a, <1>b, <1>5, <2>a
       DEF NotModified, Faithful, CacheTypeOK, ResultsAreKept, diskVars, historyVars,
           resultVars, Return, NothingFromTheFuture, DiskDuringGet, EntrySound
  <2>4. EntrySound'
    BY <1>a, <1>b, <1>5, <2>a
       DEF NotModified, Faithful, CacheTypeOK, EntrySound, diskVars, historyVars,
           resultVars, Return, NothingFromTheFuture, DiskDuringGet
  <2>5. AnswersSound'
    BY <1>a, <1>b, <1>5, <2>a
       DEF NotModified, Faithful, CacheTypeOK, AnswersSound, diskVars, historyVars,
           resultVars, Return, NothingFromTheFuture, DiskDuringGet, EntrySound
  <2>6. QED BY <1>a, <2>1, <2>2, <2>3, <2>4, <2>5 DEF Faithful
<1>6. ASSUME NEW g \in Getters, ServeStale(g) PROVE Faithful'
  <2>a. \A h \in Getters : h = g
    BY DEF OneCaller
  <2>1. NothingFromTheFuture'
    BY <1>a, <1>b, <1>6, <2>a
       DEF ServeStale, Faithful, CacheTypeOK, NothingFromTheFuture, diskVars,
           historyVars, Return, Cached, DiskDuringGet
  <2>2. DiskDuringGet'
    BY <1>a, <1>b, <1>6, <2>a
       DEF ServeStale, Faithful, CacheTypeOK, DiskDuringGet, diskVars, historyVars,
           Return, Cached, NothingFromTheFuture, EntrySound, ResultsAreKept
  <2>3. ResultsAreKept'
    BY <1>a, <1>b, <1>6, <2>a
       DEF ServeStale, Faithful, CacheTypeOK, ResultsAreKept, diskVars, historyVars,
           Return, Cached, NothingFromTheFuture, DiskDuringGet, EntrySound
  <2>4. EntrySound'
    BY <1>a, <1>b, <1>6, <2>a
       DEF ServeStale, Faithful, CacheTypeOK, EntrySound, diskVars, historyVars,
           Return, Cached, NothingFromTheFuture, DiskDuringGet
  <2>5. AnswersSound'
    BY <1>a, <1>b, <1>6, <2>a
       DEF ServeStale, Faithful, CacheTypeOK, AnswersSound, diskVars, historyVars,
           Return, Cached, NothingFromTheFuture, DiskDuringGet, EntrySound
  <2>6. QED BY <1>a, <2>1, <2>2, <2>3, <2>4, <2>5 DEF Faithful
<1>7. ASSUME NEW g \in Getters, Retry(g) PROVE Faithful'
  <2>a. \A h \in Getters : h = g
    BY DEF OneCaller
  <2>1. NothingFromTheFuture'
    BY <1>a, <1>b, <1>7, <2>a
       DEF Retry, Faithful, CacheTypeOK, NothingFromTheFuture, diskVars, resultVars,
           historyVars, DiskDuringGet
  <2>2. DiskDuringGet'
    BY <1>a, <1>b, <1>7, <2>a
       DEF Retry, Faithful, CacheTypeOK, DiskDuringGet, diskVars, resultVars,
           historyVars, NothingFromTheFuture, EntrySound, ResultsAreKept
  <2>3. ResultsAreKept'
    BY <1>a, <1>b, <1>7, <2>a
       DEF Retry, Faithful, CacheTypeOK, ResultsAreKept, diskVars, resultVars,
           historyVars, NothingFromTheFuture, DiskDuringGet, EntrySound
  <2>4. EntrySound'
    BY <1>a, <1>b, <1>7, <2>a
       DEF Retry, Faithful, CacheTypeOK, EntrySound, diskVars, resultVars,
           historyVars, NothingFromTheFuture, DiskDuringGet
  <2>5. AnswersSound'
    BY <1>a, <1>b, <1>7, <2>a
       DEF Retry, Faithful, CacheTypeOK, AnswersSound, diskVars, resultVars,
           historyVars, NothingFromTheFuture, DiskDuringGet, EntrySound
  <2>6. QED BY <1>a, <2>1, <2>2, <2>3, <2>4, <2>5 DEF Faithful
<1>8. ASSUME NEW g \in Getters, GiveUp(g) PROVE Faithful'
  <2>a. \A h \in Getters : h = g
    BY DEF OneCaller
  <2>1. NothingFromTheFuture'
    BY <1>a, <1>b, <1>8, <2>a
       DEF GiveUp, Faithful, CacheTypeOK, NothingFromTheFuture, diskVars, resultVars,
           historyVars, DiskDuringGet
  <2>2. DiskDuringGet'
    BY <1>a, <1>b, <1>8, <2>a
       DEF GiveUp, Faithful, CacheTypeOK, DiskDuringGet, diskVars, resultVars,
           historyVars, NothingFromTheFuture, EntrySound, ResultsAreKept
  <2>3. ResultsAreKept'
    BY <1>a, <1>b, <1>8, <2>a
       DEF GiveUp, Faithful, CacheTypeOK, ResultsAreKept, diskVars, resultVars,
           historyVars, NothingFromTheFuture, DiskDuringGet, EntrySound
  <2>4. EntrySound'
    BY <1>a, <1>b, <1>8, <2>a
       DEF GiveUp, Faithful, CacheTypeOK, EntrySound, diskVars, resultVars,
           historyVars, NothingFromTheFuture, DiskDuringGet
  <2>5. AnswersSound'
    BY <1>a, <1>b, <1>8, <2>a
       DEF GiveUp, Faithful, CacheTypeOK, AnswersSound, diskVars, resultVars,
           historyVars, NothingFromTheFuture, DiskDuringGet, EntrySound
  <2>6. QED BY <1>a, <2>1, <2>2, <2>3, <2>4, <2>5 DEF Faithful
<1>9. ASSUME NEW g \in Getters, SaveBody(g) PROVE Faithful'
  <2>a. \A h \in Getters : h = g
    BY DEF OneCaller
  <2>1. NothingFromTheFuture'
    BY <1>a, <1>b, <1>9, <2>a
       DEF SaveBody, Faithful, CacheTypeOK, NothingFromTheFuture, resultVars,
           historyVars, DiskDuringGet
  <2>2. DiskDuringGet'
    BY <1>a, <1>b, <1>9, <2>a
       DEF SaveBody, Faithful, CacheTypeOK, DiskDuringGet, resultVars, historyVars,
           NothingFromTheFuture, EntrySound, ResultsAreKept
  <2>3. ResultsAreKept'
    BY <1>a, <1>b, <1>9, <2>a
       DEF SaveBody, Faithful, CacheTypeOK, ResultsAreKept, resultVars, historyVars,
           NothingFromTheFuture, DiskDuringGet, EntrySound
  <2>4. EntrySound'
    BY <1>a, <1>b, <1>9, <2>a
       DEF SaveBody, Faithful, CacheTypeOK, EntrySound, resultVars, historyVars,
           NothingFromTheFuture, DiskDuringGet
  <2>5. AnswersSound'
    BY <1>a, <1>b, <1>9, <2>a
       DEF SaveBody, Faithful, CacheTypeOK, AnswersSound, resultVars, historyVars,
           NothingFromTheFuture, DiskDuringGet, EntrySound
  <2>6. QED BY <1>a, <2>1, <2>2, <2>3, <2>4, <2>5 DEF Faithful
<1>10. ASSUME NEW g \in Getters, FillBody(g) PROVE Faithful'
  <2>a. \A h \in Getters : h = g
    BY DEF OneCaller
  <2>1. NothingFromTheFuture'
    BY <1>a, <1>b, <1>10, <2>a
       DEF FillBody, Faithful, CacheTypeOK, NothingFromTheFuture, resultVars,
           historyVars, DiskDuringGet
  <2>2. DiskDuringGet'
    BY <1>a, <1>b, <1>10, <2>a
       DEF FillBody, Faithful, CacheTypeOK, DiskDuringGet, resultVars, historyVars,
           NothingFromTheFuture, EntrySound, ResultsAreKept
  <2>3. ResultsAreKept'
    BY <1>a, <1>b, <1>10, <2>a
       DEF FillBody, Faithful, CacheTypeOK, ResultsAreKept, resultVars, historyVars,
           NothingFromTheFuture, DiskDuringGet, EntrySound
  <2>4. EntrySound'
    BY <1>a, <1>b, <1>10, <2>a
       DEF FillBody, Faithful, CacheTypeOK, EntrySound, resultVars, historyVars,
           NothingFromTheFuture, DiskDuringGet
  <2>5. AnswersSound'
    BY <1>a, <1>b, <1>10, <2>a
       DEF FillBody, Faithful, CacheTypeOK, AnswersSound, resultVars, historyVars,
           NothingFromTheFuture, DiskDuringGet, EntrySound
  <2>6. QED BY <1>a, <2>1, <2>2, <2>3, <2>4, <2>5 DEF Faithful
<1>11. ASSUME NEW g \in Getters, SaveMeta(g) PROVE Faithful'
  <2>a. \A h \in Getters : h = g
    BY DEF OneCaller
  <2>1. NothingFromTheFuture'
    BY <1>a, <1>b, <1>11, <2>a
       DEF SaveMeta, Faithful, CacheTypeOK, NothingFromTheFuture, resultVars,
           historyVars, Return, DiskDuringGet
  <2>2. DiskDuringGet'
    BY <1>a, <1>b, <1>11, <2>a
       DEF SaveMeta, Faithful, CacheTypeOK, DiskDuringGet, resultVars, historyVars,
           Return, NothingFromTheFuture, EntrySound, ResultsAreKept
  <2>3. ResultsAreKept'
    BY <1>a, <1>b, <1>11, <2>a
       DEF SaveMeta, Faithful, CacheTypeOK, ResultsAreKept, resultVars, historyVars,
           Return, NothingFromTheFuture, DiskDuringGet, EntrySound
  <2>4. EntrySound'
    BY <1>a, <1>b, <1>11, <2>a
       DEF SaveMeta, Faithful, CacheTypeOK, EntrySound, resultVars, historyVars,
           Return, NothingFromTheFuture, DiskDuringGet
  <2>5. AnswersSound'
    BY <1>a, <1>b, <1>11, <2>a
       DEF SaveMeta, Faithful, CacheTypeOK, AnswersSound, resultVars, historyVars,
           Return, NothingFromTheFuture, DiskDuringGet, EntrySound
  <2>6. QED BY <1>a, <2>1, <2>2, <2>3, <2>4, <2>5 DEF Faithful
<1>12. ASSUME NEW g \in Getters, FillMeta(g) PROVE Faithful'
  <2>a. \A h \in Getters : h = g
    BY DEF OneCaller
  <2>1. NothingFromTheFuture'
    BY <1>a, <1>b, <1>12, <2>a
       DEF FillMeta, Faithful, CacheTypeOK, NothingFromTheFuture, historyVars, Return,
           DiskDuringGet
  <2>2. DiskDuringGet'
    BY <1>a, <1>b, <1>12, <2>a
       DEF FillMeta, Faithful, CacheTypeOK, DiskDuringGet, historyVars, Return,
           NothingFromTheFuture, EntrySound, ResultsAreKept
  <2>3. ResultsAreKept'
    BY <1>a, <1>b, <1>12, <2>a
       DEF FillMeta, Faithful, CacheTypeOK, ResultsAreKept, historyVars, Return,
           NothingFromTheFuture, DiskDuringGet, EntrySound
  <2>4. EntrySound'
    BY <1>a, <1>b, <1>12, <2>a
       DEF FillMeta, Faithful, CacheTypeOK, EntrySound, historyVars, Return,
           NothingFromTheFuture, DiskDuringGet
  <2>5. AnswersSound'
    BY <1>a, <1>b, <1>12, <2>a
       DEF FillMeta, Faithful, CacheTypeOK, AnswersSound, historyVars, Return,
           NothingFromTheFuture, DiskDuringGet, EntrySound
  <2>6. QED BY <1>a, <2>1, <2>2, <2>3, <2>4, <2>5 DEF Faithful
<1>13. ASSUME NEW g \in Getters, Crash(g) PROVE Faithful'
  <2>a. \A h \in Getters : h = g
    BY DEF OneCaller
  <2>1. NothingFromTheFuture'
    BY <1>a, <1>b, <1>13, <2>a
       DEF Crash, Faithful, CacheTypeOK, NothingFromTheFuture, diskVars, resultVars,
           historyVars, DiskDuringGet
  <2>2. DiskDuringGet'
    BY <1>a, <1>b, <1>13, <2>a
       DEF Crash, Faithful, CacheTypeOK, DiskDuringGet, diskVars, resultVars,
           historyVars, NothingFromTheFuture, EntrySound, ResultsAreKept
  <2>3. ResultsAreKept'
    BY <1>a, <1>b, <1>13, <2>a
       DEF Crash, Faithful, CacheTypeOK, ResultsAreKept, diskVars, resultVars,
           historyVars, NothingFromTheFuture, DiskDuringGet, EntrySound
  <2>4. EntrySound'
    BY <1>a, <1>b, <1>13, <2>a
       DEF Crash, Faithful, CacheTypeOK, EntrySound, diskVars, resultVars,
           historyVars, NothingFromTheFuture, DiskDuringGet
  <2>5. AnswersSound'
    BY <1>a, <1>b, <1>13, <2>a
       DEF Crash, Faithful, CacheTypeOK, AnswersSound, diskVars, resultVars,
           historyVars, NothingFromTheFuture, DiskDuringGet, EntrySound
  <2>6. QED BY <1>a, <2>1, <2>2, <2>3, <2>4, <2>5 DEF Faithful
<1>14. CASE UNCHANGED cacheVars
  BY <1>a, <1>14
     DEF cacheVars, Faithful, NothingFromTheFuture, DiskDuringGet, ResultsAreKept,
         EntrySound, AnswersSound
<1>15. QED
  BY <1>1, <1>2, <1>3, <1>4, <1>5, <1>6, <1>7, <1>8, <1>9, <1>10, <1>11,
     <1>12, <1>13, <1>14 DEF CacheNext, GetStep

(* A write that failed stays counted. *)
LEMMA WriteFaultsStep ==
    ASSUME CacheTypeOK, [CacheNext]_cacheVars, writeFaults' = 0
    PROVE  writeFaults = 0
<1>1. ~WriteFault
  BY DEF WriteFault, CacheTypeOK
<1>2. QED
  BY <1>1 DEF CacheNext, GetStep, Publish, Begin, ReadMeta, Request, NotModified,
              ServeStale, Retry, GiveUp, SaveBody, FillBody, SaveMeta, FillMeta,
              Crash, faultVars, cacheVars

LEMMA CacheIInvHolds ==
    ASSUME OneCaller
    PROVE  CacheSpec => []CacheIInv
<1>1. CacheInit => CacheIInv
  BY CacheInitFaithful DEF CacheIInv, Faithful
<1>2. CacheIInv /\ [CacheNext]_cacheVars => CacheIInv'
  <2>1. SUFFICES ASSUME CacheIInv, [CacheNext]_cacheVars, writeFaults' = 0
                 PROVE  Faithful'
    BY CacheTypeStep DEF CacheIInv
  <2>2. writeFaults = 0
    BY <2>1, WriteFaultsStep DEF CacheIInv
  <2>3. QED BY <2>1, <2>2, FaithfulStep DEF CacheIInv
<1>3. QED BY <1>1, <1>2, PTL DEF CacheSpec

(* A 304 always confirms the body that is on the disk, after any number of
   deaths: body before metadata is the order that makes it so. *)
THEOREM EntriesAreValid ==
    ASSUME OneCaller
    PROVE  CacheSpec => []EntryValid
<1>1. CacheIInv => EntryValid
  BY DEF CacheIInv, Faithful, EntrySound, EntryValid
<1>2. QED BY <1>1, CacheIInvHolds, PTL

(* A Get that reached the upstream is not answered with anything older than
   the Get. *)
THEOREM AnswersAreCurrent ==
    ASSUME OneCaller
    PROVE  CacheSpec => []AnswerIsCurrent
<1>1. CacheIInv => AnswerIsCurrent
  BY DEF CacheIInv, Faithful, AnswersSound, AnswerIsCurrent
<1>2. QED BY <1>1, CacheIInvHolds, PTL

(* Nor, from the upstream or the fallback, with less than an earlier Get. *)
THEOREM AnswersNeverGoBack ==
    ASSUME OneCaller
    PROVE  CacheSpec => []NeverGoesBack
<1>1. CacheIInv => NeverGoesBack
  <2>1. SUFFICES ASSUME Faithful, NEW g \in Getters, pc[g] = "done", result[g] # Torn
                 PROVE  result[g] >= seen[g]
    BY DEF CacheIInv, NeverGoesBack
  <2>2. result[g] > NoFile
    BY <2>1 DEF Faithful, CacheTypeOK, ResultsAreKept, Versions, NoFile, Torn
  <2>3. result[g] = body /\ seen[g] <= body
    BY <2>1, <2>2 DEF Faithful, ResultsAreKept, NoFile
  <2>4. seen[g] \in Int /\ body \in Int
    BY <2>1 DEF Faithful, CacheTypeOK, Versions, NoFile, Torn
  <2>5. QED BY <2>3, <2>4
<1>2. QED BY <1>1, CacheIInvHolds, PTL

(* With one caller and a disk that takes every write, no answer is older than
   what the upstream confirmed or the caller has had. *)
THEOREM AnswersHaveNotAged ==
    ASSUME OneCaller
    PROVE  CacheSpec => []AnswersDoNotAge
<1>1. AnswerIsCurrent /\ NeverGoesBack => AnswersDoNotAge
  BY DEF AnswersDoNotAge
<1>2. QED BY <1>1, AnswersAreCurrent, AnswersNeverGoBack, PTL
=============================================================================
