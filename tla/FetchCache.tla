----------------------------- MODULE FetchCache -----------------------------
(***************************************************************************)
(* internal/httpcache/cache.go: Client.Get and Client.get for one URL, the *)
(* two files its cache entry consists of, and the upstream resource.       *)
(* Entries of different URLs share nothing.                                *)
(*                                                                         *)
(* The resource is a version number that grows; its ETag is the version.   *)
(* os.WriteFile truncates and then writes, its errors are not looked at,   *)
(* and the process may die between any two steps.  A metadata file that is *)
(* cut short does not parse, which get treats as no entry at all.          *)
(***************************************************************************)
EXTENDS Integers

CONSTANTS Getters,         \* callers of Get for the same URL
          Retries,         \* Client.Retries
          MaxVersion,      \* bound on the upstream's versions
          MaxCrashes,      \* bound on processes dying inside get
          MaxWriteFaults   \* bound on failing writes

ASSUME RetriesAssumption == Retries \in Nat
ASSUME MaxVersionAssumption == MaxVersion \in Nat \ {0}
ASSUME FaultsAssumption == MaxCrashes \in Nat /\ MaxWriteFaults \in Nat

VARIABLES version,      \* what the upstream has now
          body,         \* <hash>.body: a version, NoFile or Torn
          meta,         \* <hash>.meta: the ETag in it, or NoFile
          pc,           \* where each Get is
          attempts,     \* calls of get that each Get has made
          etag,         \* the validator each get found, or NoFile
          reply,        \* what the upstream answered each get
          served,       \* the version it was at when it answered
          result,       \* the body each Get returned
          fresh,        \* whether that came from the upstream's answer
          since,        \* history: the upstream's version when each Get began
          seen,         \* history: the newest whole body each caller has had
          crashes, writeFaults

cacheVars == <<version, body, meta, pc, attempts, etag, reply, served, result, fresh,
               since, seen, crashes, writeFaults>>
diskVars == <<body, meta>>
faultVars == <<crashes, writeFaults>>
resultVars == <<result, fresh>>
historyVars == <<since, seen>>

NoFile == 0
Torn == -1
DefaultRetries == 4
Versions == 1..MaxVersion
Replies == {"none", "ok", "notModified", "transient", "unreachable", "cutOff", "gone"}
Steps == {"idle", "meta", "request", "reply", "fillBody", "saveMeta",
          "fillMeta", "done", "failed"}

(* Zero, or less, means the default. *)
MostAttempts == IF Retries = 0 THEN DefaultRetries ELSE Retries

CacheTypeOK ==
    /\ version \in Versions
    /\ body \in Versions \cup {NoFile, Torn}
    /\ meta \in Versions \cup {NoFile}
    /\ pc \in [Getters -> Steps]
    /\ attempts \in [Getters -> 0..MostAttempts]
    /\ etag \in [Getters -> Versions \cup {NoFile}]
    /\ reply \in [Getters -> Replies]
    /\ served \in [Getters -> Versions]
    /\ result \in [Getters -> Versions \cup {NoFile, Torn}]
    /\ fresh \in [Getters -> BOOLEAN]
    /\ since \in [Getters -> Versions]
    /\ seen \in [Getters -> Versions \cup {NoFile}]
    /\ crashes \in 0..MaxCrashes
    /\ writeFaults \in 0..MaxWriteFaults

(* A cold cache. *)
CacheInit ==
    /\ version = 1
    /\ body = NoFile
    /\ meta = NoFile
    /\ pc = [g \in Getters |-> "idle"]
    /\ attempts = [g \in Getters |-> 0]
    /\ etag = [g \in Getters |-> NoFile]
    /\ reply = [g \in Getters |-> "none"]
    /\ served = [g \in Getters |-> 1]
    /\ result = [g \in Getters |-> NoFile]
    /\ fresh = [g \in Getters |-> FALSE]
    /\ since = [g \in Getters |-> 1]
    /\ seen = [g \in Getters |-> NoFile]
    /\ crashes = 0
    /\ writeFaults = 0

-----------------------------------------------------------------------------
GoTo(g, step) == pc' = [pc EXCEPT ![g] = step]

(* The resource is edited upstream. *)
Publish ==
    /\ version < MaxVersion
    /\ version' = version + 1
    /\ UNCHANGED <<diskVars, pc, attempts, etag, reply, served, resultVars, historyVars, faultVars>>

(* Get is called, again or for the first time. *)
Begin(g) ==
    /\ pc[g] \in {"idle", "done", "failed"}
    /\ attempts' = [attempts EXCEPT ![g] = 1]
    /\ since' = [since EXCEPT ![g] = version]
    /\ seen' = [seen EXCEPT ![g] = IF result[g] > seen[g] THEN result[g] ELSE seen[g]]
    /\ result' = [result EXCEPT ![g] = NoFile]
    /\ fresh' = [fresh EXCEPT ![g] = FALSE]
    /\ GoTo(g, "meta")
    /\ UNCHANGED <<version, diskVars, etag, reply, served, faultVars>>

(* get reads the metadata file. *)
ReadMeta(g) ==
    /\ pc[g] = "meta"
    /\ etag' = [etag EXCEPT ![g] = meta]
    /\ GoTo(g, "request")
    /\ UNCHANGED <<version, diskVars, attempts, reply, served, resultVars, historyVars, faultVars>>

(* Mutant: an entry is taken for current without asking. *)
RequestTrustsEntry(g) ==
    /\ pc[g] = "request"
    /\ reply' = [reply EXCEPT ![g] = IF etag[g] # NoFile THEN "notModified" ELSE "ok"]
    /\ served' = [served EXCEPT ![g] = version]
    /\ GoTo(g, "reply")
    /\ UNCHANGED <<version, diskVars, attempts, etag, resultVars, historyVars, faultVars>>

(* The conditional request and its answer. *)
Request(g) ==
    /\ pc[g] = "request"
    /\ \E r \in {"transient", "unreachable", "cutOff", "gone",
                 IF etag[g] = version THEN "notModified" ELSE "ok"} :
          reply' = [reply EXCEPT ![g] = r]
    /\ served' = [served EXCEPT ![g] = version]
    /\ GoTo(g, "reply")
    /\ UNCHANGED <<version, diskVars, attempts, etag, resultVars, historyVars, faultVars>>

Return(g, b, f) ==
    /\ result' = [result EXCEPT ![g] = b]
    /\ fresh' = [fresh EXCEPT ![g] = f]
    /\ GoTo(g, "done")

Cached(g) == etag[g] # NoFile /\ body # NoFile

(* 304: the stored body is the answer; an entry without its body is an error
   that is not retried. *)
NotModified(g) ==
    /\ pc[g] = "reply"
    /\ reply[g] = "notModified"
    /\ \/ body # NoFile /\ Return(g, body, TRUE)
       \/ body = NoFile /\ GoTo(g, "failed") /\ UNCHANGED resultVars
    /\ UNCHANGED <<version, diskVars, attempts, etag, reply, served, historyVars, faultVars>>

(* A transport error or a transient status is answered from the cache when
   there is an entry. *)
ServeStale(g) ==
    /\ pc[g] = "reply"
    /\ reply[g] \in {"transient", "unreachable"}
    /\ Cached(g)
    /\ Return(g, body, FALSE)
    /\ UNCHANGED <<version, diskVars, attempts, etag, reply, served, historyVars, faultVars>>

(* Mutant: the loop does not count its attempts. *)
RetryUncounted(g) ==
    /\ pc[g] = "reply"
    /\ \/ reply[g] \in {"transient", "unreachable"} /\ ~Cached(g)
       \/ reply[g] = "cutOff"
    /\ GoTo(g, "meta")
    /\ UNCHANGED <<version, diskVars, attempts, etag, reply, served, resultVars, historyVars, faultVars>>

(* Mutant: the loop runs once too often. *)
RetryTooOften(g) ==
    /\ pc[g] = "reply"
    /\ \/ reply[g] \in {"transient", "unreachable"} /\ ~Cached(g)
       \/ reply[g] = "cutOff"
    /\ attempts' = [attempts EXCEPT ![g] = attempts[g] + 1]
    /\ GoTo(g, IF attempts[g] <= MostAttempts THEN "meta" ELSE "failed")
    /\ UNCHANGED <<version, diskVars, etag, reply, served, resultVars, historyVars, faultVars>>

(* Without one, and when the body is cut off, Get sleeps and calls get again,
   or gives up after the last try. *)
Retry(g) ==
    /\ pc[g] = "reply"
    /\ \/ reply[g] \in {"transient", "unreachable"} /\ ~Cached(g)
       \/ reply[g] = "cutOff"
    /\ \/ /\ attempts[g] < MostAttempts
          /\ attempts' = [attempts EXCEPT ![g] = attempts[g] + 1]
          /\ GoTo(g, "meta")
       \/ /\ attempts[g] = MostAttempts
          /\ GoTo(g, "failed")
          /\ UNCHANGED attempts
    /\ UNCHANGED <<version, diskVars, etag, reply, served, resultVars, historyVars, faultVars>>

(* Any other status is final. *)
GiveUp(g) ==
    /\ pc[g] = "reply"
    /\ reply[g] = "gone"
    /\ GoTo(g, "failed")
    /\ UNCHANGED <<version, diskVars, attempts, etag, reply, served, resultVars, historyVars, faultVars>>

-----------------------------------------------------------------------------
WriteFault ==
    /\ writeFaults < MaxWriteFaults
    /\ writeFaults' = writeFaults + 1
    /\ UNCHANGED crashes

(* Mutant: the metadata is written before the body. *)
SaveMetaBeforeBody(g) ==
    /\ pc[g] = "reply"
    /\ reply[g] = "ok"
    /\ body' = Torn
    /\ meta' = served[g]
    /\ GoTo(g, "fillBody")
    /\ UNCHANGED <<version, attempts, etag, reply, served, resultVars, historyVars, faultVars>>

(* Mutant: a body that is already there is kept. *)
SaveBodyOnce(g) ==
    /\ pc[g] = "reply"
    /\ reply[g] = "ok"
    /\ \/ body = NoFile /\ body' = Torn /\ GoTo(g, "fillBody")
       \/ body # NoFile /\ GoTo(g, "saveMeta") /\ UNCHANGED body
    /\ UNCHANGED <<version, meta, attempts, etag, reply, served, resultVars, historyVars, faultVars>>

(* 200: os.WriteFile(base+".body") truncates ... or cannot open the file, in
   which case the metadata is written all the same. *)
SaveBody(g) ==
    /\ pc[g] = "reply"
    /\ reply[g] = "ok"
    /\ \/ body' = Torn /\ GoTo(g, "fillBody") /\ UNCHANGED faultVars
       \/ WriteFault /\ GoTo(g, "saveMeta") /\ UNCHANGED body
    /\ UNCHANGED <<version, meta, attempts, etag, reply, served, resultVars, historyVars>>

(* ... and writes, all of it or not. *)
FillBody(g) ==
    /\ pc[g] = "fillBody"
    /\ \/ body' = served[g] /\ UNCHANGED faultVars
       \/ WriteFault /\ UNCHANGED body
    /\ GoTo(g, "saveMeta")
    /\ UNCHANGED <<version, meta, attempts, etag, reply, served, resultVars, historyVars>>

(* os.WriteFile(base+".meta") truncates ... *)
SaveMeta(g) ==
    /\ pc[g] = "saveMeta"
    /\ \/ meta' = NoFile /\ GoTo(g, "fillMeta") /\ UNCHANGED <<resultVars, faultVars>>
       \/ WriteFault /\ Return(g, served[g], TRUE) /\ UNCHANGED meta
    /\ UNCHANGED <<version, body, attempts, etag, reply, served, historyVars>>

(* ... and writes; the caller gets the body from memory. *)
FillMeta(g) ==
    /\ pc[g] = "fillMeta"
    /\ \/ meta' = served[g] /\ UNCHANGED faultVars
       \/ WriteFault /\ UNCHANGED meta
    /\ Return(g, served[g], TRUE)
    /\ UNCHANGED <<version, body, attempts, etag, reply, served, historyVars>>

(* The process dies; the next run calls Get again. *)
Crash(g) ==
    /\ pc[g] \notin {"idle", "done", "failed"}
    /\ crashes < MaxCrashes
    /\ crashes' = crashes + 1
    /\ GoTo(g, "idle")
    /\ UNCHANGED <<version, diskVars, attempts, etag, reply, served, resultVars, historyVars, writeFaults>>

GetStep(g) ==
    \/ ReadMeta(g) \/ Request(g)
    \/ NotModified(g) \/ ServeStale(g) \/ Retry(g) \/ GiveUp(g)
    \/ SaveBody(g) \/ FillBody(g) \/ SaveMeta(g) \/ FillMeta(g)

CacheNext ==
    \/ Publish
    \/ \E g \in Getters : Begin(g) \/ GetStep(g) \/ Crash(g)

CacheSpec == CacheInit /\ [][CacheNext]_cacheVars

(* A Get that has been called goes on: requests time out after a minute and
   the waits between attempts are bounded. *)
FairCacheSpec == CacheSpec /\ \A g \in Getters : WF_cacheVars(GetStep(g))

-----------------------------------------------------------------------------
(* When the stored validator is the one the upstream would confirm with a 304,
   the stored body is that version, whole: a death at any point of a save
   leaves an entry that will be fetched again, not one that is wrong.  This
   and the next two are said of a disk that has taken every write: get does
   not look at their errors. *)
EntryValid == (writeFaults = 0 /\ meta = version) => body = version

(* A Get that was answered by the upstream, with the body or with a 304,
   returns a whole body that is not older than the Get itself. *)
AnswerIsCurrent ==
    \A g \in Getters :
        (writeFaults = 0 /\ pc[g] = "done" /\ fresh[g]) => result[g] >= since[g]

(* A caller that has once had some version is never given an older one, from
   the upstream or from the fallback: a rebuild does not turn a page back. *)
NeverGoesBack ==
    \A g \in Getters :
        (writeFaults = 0 /\ pc[g] = "done" /\ result[g] # Torn) =>
            result[g] >= seen[g]

(* What Get returns has not aged: against the upstream if that answered, and
   always against what the caller has had. *)
AnswersDoNotAge == AnswerIsCurrent /\ NeverGoesBack

(* Every Get returns, however often the upstream fails. *)
GetReturns ==
    \A g \in Getters : pc[g] = "meta" ~> pc[g] \in {"done", "failed", "idle"}

=============================================================================
