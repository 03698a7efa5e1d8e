------------------------------- MODULE Budget -------------------------------
(***************************************************************************)
(* The GitHub API requests of one ngingest run: github.go (Run, budget,    *)
(* affordableRepos, repos, writeOrg, writeRepo), the one request of        *)
(* ncsdocs.go (listSource) that follows it in main.go, and the retries and *)
(* the stale fallback of httpcache underneath both.                        *)
(*                                                                         *)
(* The API grants so many requests an hour to an address.  An answer costs *)
(* one, a request that fails may cost one, a refusal of an empty budget    *)
(* costs none, and neither does asking for the rate limit.                 *)
(***************************************************************************)
EXTENDS Integers

CONSTANTS NOrgs,      \* len(Cfg.Orgs)
          Sizes,      \* how many repositories an organisation may have
          MaxRepos,   \* Cfg.MaxRepos; 0 is no limit
          HasToken,   \* Cfg.Token is set
          Warm,       \* earlier runs have left entries in the fetch cache
          Tries,      \* calls of httpcache's get for one request
          Limit,      \* requests an hour
          MaxFaults,  \* bound on failing requests
          MaxOthers   \* bound on requests made by others at the address

ASSUME OrgsAssumption == NOrgs \in Nat /\ Sizes \subseteq Nat
ASSUME ConfigAssumption == MaxRepos \in Nat /\ HasToken \in BOOLEAN /\ Warm \in BOOLEAN
ASSUME BoundsAssumption ==
    /\ Tries \in Nat \ {0}
    /\ Limit \in Nat
    /\ MaxFaults \in Nat /\ MaxOthers \in Nat

VARIABLES step,       \* the request the run makes next, or how it ended
          attempt,    \* which of its tries that is
          remaining,  \* what the hour's budget still holds
          known,      \* whether budget() could tell, and truly
          limit,      \* Cfg.MaxRepos, once Run has sized it
          size,       \* each organisation's repositories
          org, page,  \* the listing under way
          listed,     \* repositories it has brought so far
          repo,       \* the repository under way
          extra,      \* listing pages fetched beyond each first one
          faults, others

vars == <<step, attempt, remaining, known, limit, size, org, page, listed,
          repo, extra, faults, others>>
loopVars == <<org, page, listed, repo>>
configVars == <<known, limit, size>>

RequestsPerRepo == 2
ReservedRequests == 4
PageSize == 100
MaxPages == 5

Orgs == 1..NOrgs
Working == {"list", "readme", "releases", "docs"}

TypeOK ==
    /\ step \in {"rateLimit", "done", "failed"} \cup Working
    /\ attempt \in 1..Tries
    /\ remaining \in 0..Limit
    /\ known \in BOOLEAN
    /\ limit \in Nat
    /\ size \in [Orgs -> Sizes]
    /\ org \in 1..NOrgs + 1
    /\ page \in 1..MaxPages
    /\ listed \in 0..PageSize * MaxPages
    /\ repo \in Nat
    /\ extra \in Nat
    /\ faults \in 0..MaxFaults
    /\ others \in 0..MaxOthers

(* Some of the hour's budget may be gone when the run starts. *)
Init ==
    /\ step = "rateLimit"
    /\ attempt = 1
    /\ remaining \in 0..Limit
    /\ known = FALSE
    /\ limit = MaxRepos
    /\ size \in [Orgs -> Sizes]
    /\ org = 1
    /\ page = 1
    /\ listed = 0
    /\ repo = 1
    /\ extra = 0
    /\ faults = 0
    /\ others = 0

-----------------------------------------------------------------------------
(* One attempt of httpcache's get: answered, *)
Answered ==
    /\ remaining > 0
    /\ remaining' = remaining - 1
    /\ UNCHANGED faults

(* refused because nothing remains, or failed by a transient fault. *)
Stumbles ==
    \/ /\ remaining = 0
       /\ UNCHANGED <<remaining, faults>>
    \/ /\ faults < MaxFaults
       /\ faults' = faults + 1
       /\ remaining' \in {remaining, remaining - 1} \cap Nat

(* A request that stumbles is answered from the cache, if it can be, *)
Succeeds ==
    /\ Answered \/ (Warm /\ Stumbles)
    /\ attempt' = 1

(* or else made again ... *)
Again ==
    /\ Stumbles
    /\ attempt < Tries
    /\ attempt' = attempt + 1

(* ... until its tries are used up. *)
Fails ==
    /\ Stumbles
    /\ attempt = Tries
    /\ attempt' = 1

-----------------------------------------------------------------------------
(* Mutant: the listing of the organisations is not budgeted. *)
AffordableWithoutListings(budget) ==
    LET n == IF NOrgs < 1 THEN 1 ELSE NOrgs
        spendable == budget - ReservedRequests
    IN IF spendable < 0 THEN 0 ELSE (spendable \div RequestsPerRepo) \div n

(* affordableRepos(budget, len(Cfg.Orgs)) *)
Affordable(budget) ==
    LET n == IF NOrgs < 1 THEN 1 ELSE NOrgs
        spendable == budget - ReservedRequests - n
    IN IF spendable < 0 THEN 0 ELSE (spendable \div RequestsPerRepo) \div n

FirstStep == IF NOrgs = 0 THEN "docs" ELSE "list"

(* Run gives up when it can afford nothing, and otherwise lowers MaxRepos to
   what it can afford. *)
SizeTo(budget) ==
    \/ /\ Affordable(budget) = 0
       /\ step' = "failed"
       /\ UNCHANGED limit
    \/ /\ Affordable(budget) > 0
       /\ limit' = IF MaxRepos = 0 \/ MaxRepos > Affordable(budget)
                   THEN Affordable(budget) ELSE MaxRepos
       /\ step' = FirstStep

(* budget() and what Run makes of it.  When the rate limit cannot be had the
   cached answer of an earlier run is used, whatever it said then; without
   one, or with a token, the limits stay as configured. *)
ReadBudget ==
    /\ step = "rateLimit"
    /\ \/ /\ ~HasToken
          /\ SizeTo(remaining)
          /\ known' = TRUE
       \/ /\ ~HasToken /\ Warm
          /\ \E stale \in 0..Limit : SizeTo(stale)
          /\ UNCHANGED known
       \/ /\ step' = FirstStep
          /\ UNCHANGED <<known, limit>>
    /\ UNCHANGED <<attempt, remaining, size, loopVars, extra, faults, others>>

(* The next organisation's listing or, after the last, the documentation. *)
NextOrg ==
    /\ org' = org + 1
    /\ page' = 1
    /\ listed' = 0
    /\ repo' = 1
    /\ step' = IF org = NOrgs THEN "docs" ELSE "list"

(* repos cuts the n repositories it has listed down to MaxRepos. *)
Chosen(n) == IF limit > 0 /\ n > limit THEN limit ELSE n

(* writeOrg on the n repositories listed. *)
StartWriting(n) ==
    \/ Chosen(n) = 0 /\ NextOrg
    \/ /\ Chosen(n) > 0
       /\ listed' = n
       /\ step' = "readme"
       /\ UNCHANGED <<org, page, repo>>

Batch == IF size[org] - listed < PageSize THEN size[org] - listed ELSE PageSize

(* Mutant: a sixth page is asked for when the fifth is full. *)
ListPageTooMany ==
    /\ step = "list"
    /\ Succeeds
    /\ extra' = IF page > 1 THEN extra + 1 ELSE extra
    /\ \/ /\ Batch = PageSize /\ page <= MaxPages
          /\ listed' = listed + Batch
          /\ page' = page + 1
          /\ UNCHANGED <<step, org, repo>>
       \/ /\ Batch < PageSize
          /\ StartWriting(listed + Batch)
    /\ UNCHANGED <<configVars, others>>

(* repos: another page as long as they are full, up to the fifth. *)
ListPage ==
    /\ step = "list"
    /\ Succeeds
    /\ extra' = IF page > 1 THEN extra + 1 ELSE extra
    /\ \/ /\ Batch = PageSize /\ page < MaxPages
          /\ listed' = listed + Batch
          /\ page' = page + 1
          /\ UNCHANGED <<step, org, repo>>
       \/ /\ Batch < PageSize \/ page = MaxPages
          /\ StartWriting(listed + Batch)
    /\ UNCHANGED <<configVars, others>>

(* Mutant: a page that cannot be had is asked for until it comes. *)
ListFailsAgain ==
    /\ step = "list"
    /\ Fails
    /\ UNCHANGED <<step, configVars, loopVars, extra, others>>

(* An organisation whose first page cannot be had is left out; a later page
   that cannot be had ends the listing. *)
ListFails ==
    /\ step = "list"
    /\ Fails
    /\ \/ page = 1 /\ NextOrg
       \/ page > 1 /\ StartWriting(listed)
    /\ UNCHANGED <<configVars, extra, others>>

(* writeRepo's two requests; a repository is written without what it does not
   get. *)
Readme ==
    /\ step = "readme"
    /\ Succeeds \/ Fails
    /\ step' = "releases"
    /\ UNCHANGED <<configVars, loopVars, extra, others>>

Releases ==
    /\ step = "releases"
    /\ Succeeds \/ Fails
    /\ \/ /\ repo < Chosen(listed)
          /\ repo' = repo + 1
          /\ step' = "readme"
          /\ UNCHANGED <<org, page, listed>>
       \/ repo = Chosen(listed) /\ NextOrg
    /\ UNCHANGED <<configVars, extra, others>>

(* listSource's one request for the git tree: without it the run fails. *)
Docs ==
    /\ step = "docs"
    /\ \/ Succeeds /\ step' = "done"
       \/ Fails /\ step' = "failed"
    /\ UNCHANGED <<configVars, loopVars, extra, others>>

TryAgain ==
    /\ step \in Working
    /\ Again
    /\ UNCHANGED <<step, configVars, loopVars, extra, others>>

(* Somebody else at the address uses the API, *)
OtherSpends ==
    /\ others < MaxOthers
    /\ remaining > 0
    /\ remaining' = remaining - 1
    /\ others' = others + 1
    /\ UNCHANGED <<step, attempt, configVars, loopVars, extra, faults>>

(* or the hour is over. *)
Reset ==
    /\ remaining < Limit
    /\ remaining' = Limit
    /\ UNCHANGED <<step, attempt, configVars, loopVars, extra, faults, others>>

RunStep ==
    \/ ReadBudget
    \/ ListPage \/ ListFails \/ Readme \/ Releases \/ Docs \/ TryAgain

Next == RunStep \/ OtherSpends \/ Reset

Spec == Init /\ [][Next]_vars

(* The run is one process and goes on by itself: a request times out after a
   minute. *)
FairSpec == Spec /\ WF_vars(RunStep)

-----------------------------------------------------------------------------
(* A run that knows its budget never gets to where it cannot pay: until the
   documentation ingest has made its request the reserve of four is there,
   less one for each further page of a listing, for each request that failed
   and for each one that others made meanwhile. *)
ReserveKept ==
    (known /\ step \in Working) =>
        remaining + extra + faults + others >= ReservedRequests

(* The run ends, whatever the API answers and however many pages and
   repositories there are. *)
IngestEnds == <>(step \in {"done", "failed"})

=============================================================================
