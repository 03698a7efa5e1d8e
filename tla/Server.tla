------------------------------- MODULE Server -------------------------------
(***************************************************************************)
(* internal/gopher: Server.serve for every connection, with the handlers   *)
(* cmd/nordicgopher mounts (the tree, search, and Proxy.Handle for         *)
(* downloads), its two semaphores, its deadline and the bytes it sends.    *)
(*                                                                         *)
(* A reply is the sequence of parts on the wire: a page (a menu, a text or *)
(* a file of the tree), a type-3 error menu, a proxied file's bytes, or    *)
(* what is left of any of these when it is cut.  MaxBytes counts the       *)
(* reads of io.Copy that LimitReader lets through.                         *)
(***************************************************************************)
EXTENDS Integers, Sequences, FiniteSets

CONSTANTS Conns,          \* the connections there may be at once
          MaxConns,       \* Server.MaxConns
          MaxConcurrent,  \* Proxy.MaxConcurrent
          MaxBytes        \* Proxy.MaxBytes

ASSUME ConnsAssumption == IsFiniteSet(Conns)
ASSUME LimitsAssumption ==
    MaxConns \in Nat \ {0} /\ MaxConcurrent \in Nat \ {0} /\ MaxBytes \in Nat \ {0}

VARIABLES pc,         \* where each connection is
          kind,       \* what its selector is routed to
          deadline,   \* whether it has one
          broken,     \* whether its deadline has passed or its client is gone
          failed,     \* whether Proxy.Handle is returning an error
          pulled,     \* how much of a download has been read
          sent,       \* the parts its client has been sent
          slots,      \* len(s.sem)
          transfers   \* len(p.sem)

vars == <<pc, kind, deadline, broken, failed, pulled, sent, slots, transfers>>
proxyVars == <<failed, pulled, transfers>>
requestVars == <<kind, deadline, broken>>

Kinds == {"none", "tree", "search", "download"}
Parts == {"page", "bytes", "error", "cut"}

(* The steps of Proxy.Handle that have the upstream's attention, and those
   that hold a place in p.sem. *)
Fetching == {"asking", "pulling", "pushing", "closingBody"}
Transferring == Fetching \cup {"leaving"}
Serving == Transferring \cup {"reading", "handling", "reporting", "releasing"}
Steps == Serving \cup {"closed", "accepted", "refusing", "closing"}

At(steps) == {c \in Conns : pc[c] \in steps}

TypeOK ==
    /\ pc \in [Conns -> Steps]
    /\ kind \in [Conns -> Kinds]
    /\ deadline \in [Conns -> BOOLEAN]
    /\ broken \in [Conns -> BOOLEAN]
    /\ failed \in [Conns -> BOOLEAN]
    /\ pulled \in [Conns -> 0..MaxBytes]
    /\ sent \in [Conns -> Seq(Parts)]
    /\ slots \in 0..MaxConns
    /\ transfers \in 0..MaxConcurrent

Init ==
    /\ pc = [c \in Conns |-> "closed"]
    /\ kind = [c \in Conns |-> "none"]
    /\ deadline = [c \in Conns |-> FALSE]
    /\ broken = [c \in Conns |-> FALSE]
    /\ failed = [c \in Conns |-> FALSE]
    /\ pulled = [c \in Conns |-> 0]
    /\ sent = [c \in Conns |-> <<>>]
    /\ slots = 0
    /\ transfers = 0

-----------------------------------------------------------------------------
GoTo(c, step) == pc' = [pc EXCEPT ![c] = step]

EndsIn(c, part) == sent[c] # <<>> /\ sent[c][Len(sent[c])] = part

Extended(c, part) ==
    IF EndsIn(c, part) THEN sent ELSE [sent EXCEPT ![c] = Append(sent[c], part)]

(* A write to the connection gets through, or fails with some of it sent. *)
Sends(c, part) == ~broken[c] /\ sent' = Extended(c, part)
Breaks(c) == broken[c] /\ sent' \in {sent, Extended(c, "cut")}

(* WriteError, whose result nobody looks at. *)
WriteError(c) ==
    \/ ~broken[c] /\ sent' = [sent EXCEPT ![c] = Append(sent[c], "error")]
    \/ Breaks(c)

(* ln.Accept and go s.serve(conn) *)
Accept(c) ==
    /\ pc[c] = "closed"
    /\ GoTo(c, "accepted")
    /\ UNCHANGED <<requestVars, proxyVars, sent, slots>>

(* The connection's deadline passes, or its client goes away. *)
Break(c) ==
    /\ pc[c] # "closed"
    /\ ~broken[c]
    /\ broken' = [broken EXCEPT ![c] = TRUE]
    /\ UNCHANGED <<pc, kind, deadline, proxyVars, sent, slots>>

(* Mutant: serve sets no deadline. *)
EnterWithoutDeadline(c) ==
    /\ pc[c] = "accepted"
    /\ slots < MaxConns
    /\ slots' = slots + 1
    /\ GoTo(c, "reading")
    /\ UNCHANGED <<requestVars, proxyVars, sent>>

(* serve takes a place and sets the ten-minute deadline, *)
Enter(c) ==
    /\ pc[c] = "accepted"
    /\ slots < MaxConns
    /\ slots' = slots + 1
    /\ deadline' = [deadline EXCEPT ![c] = TRUE]
    /\ GoTo(c, "reading")
    /\ UNCHANGED <<kind, broken, proxyVars, sent>>

(* or sheds the connection, with five seconds to say so. *)
Refuse(c) ==
    /\ pc[c] = "accepted"
    /\ slots = MaxConns
    /\ deadline' = [deadline EXCEPT ![c] = TRUE]
    /\ GoTo(c, "refusing")
    /\ UNCHANGED <<kind, broken, proxyVars, sent, slots>>

(* Mutant: shedding a connection gives a place back. *)
SayBusyReleases(c) ==
    /\ pc[c] = "refusing"
    /\ WriteError(c)
    /\ slots' = slots - 1
    /\ GoTo(c, "closing")
    /\ UNCHANGED <<requestVars, proxyVars>>

SayBusy(c) ==
    /\ pc[c] = "refusing"
    /\ WriteError(c)
    /\ GoTo(c, "closing")
    /\ UNCHANGED <<requestVars, proxyVars, slots>>

(* The request line arrives and is routed, *)
ReadLine(c) ==
    /\ pc[c] = "reading"
    /\ \E k \in Kinds \ {"none"} : kind' = [kind EXCEPT ![c] = k]
    /\ GoTo(c, "handling")
    /\ UNCHANGED <<deadline, broken, proxyVars, sent, slots>>

(* Mutant: the early return leaves without its place. *)
ReadFailsLeaking(c) ==
    /\ pc[c] = "reading"
    /\ broken[c]
    /\ GoTo(c, "closing")
    /\ UNCHANGED <<requestVars, proxyVars, sent, slots>>

(* or none of it does. *)
ReadFails(c) ==
    /\ pc[c] = "reading"
    /\ broken[c]
    /\ GoTo(c, "releasing")
    /\ UNCHANGED <<requestVars, proxyVars, sent, slots>>

-----------------------------------------------------------------------------
(* serveTree, and the search handler's menu: only the handler's errors are
   reported by route. *)
ServePage(c) ==
    /\ pc[c] = "handling"
    /\ kind[c] \in {"tree", "search"}
    /\ \/ Sends(c, "page") /\ GoTo(c, "releasing")
       \/ Breaks(c) /\ GoTo(c, IF kind[c] = "search" THEN "reporting" ELSE "releasing")
    /\ UNCHANGED <<requestVars, proxyVars, slots>>

(* "bad selector", "not found", "cannot open file" *)
TreeFails(c) ==
    /\ pc[c] = "handling"
    /\ kind[c] = "tree"
    /\ WriteError(c)
    /\ GoTo(c, "releasing")
    /\ UNCHANGED <<requestVars, proxyVars, slots>>

(* Mutant: route reports the tree's errors too. *)
TreeFailsReported(c) ==
    /\ pc[c] = "handling"
    /\ kind[c] = "tree"
    /\ sent' \in {sent, Extended(c, "cut")}
    /\ GoTo(c, "reporting")
    /\ UNCHANGED <<requestVars, proxyVars, slots>>

(* A directory or a file that cannot be read to its end: the connection is
   closed on whatever has been sent. *)
TreeFailsSilently(c) ==
    /\ pc[c] = "handling"
    /\ kind[c] = "tree"
    /\ sent' \in {sent, Extended(c, "cut")}
    /\ GoTo(c, "releasing")
    /\ UNCHANGED <<requestVars, proxyVars, slots>>

(* search.Index.Query has no corpus. *)
SearchFails(c) ==
    /\ pc[c] = "handling"
    /\ kind[c] = "search"
    /\ GoTo(c, "reporting")
    /\ UNCHANGED <<requestVars, proxyVars, sent, slots>>

(* route tells the client of a handler's error. *)
Report(c) ==
    /\ pc[c] = "reporting"
    /\ WriteError(c)
    /\ GoTo(c, "releasing")
    /\ UNCHANGED <<requestVars, proxyVars, slots>>

-----------------------------------------------------------------------------
(* Proxy.Handle: the selector maps to no allowed URL, *)
ResolveFails(c) ==
    /\ pc[c] = "handling"
    /\ kind[c] = "download"
    /\ WriteError(c)
    /\ GoTo(c, "reporting")
    /\ UNCHANGED <<requestVars, proxyVars, slots>>

(* or every transfer is taken, which is not an error, *)
TransferRefused(c) ==
    /\ pc[c] = "handling"
    /\ kind[c] = "download"
    /\ transfers = MaxConcurrent
    /\ WriteError(c)
    /\ GoTo(c, "releasing")
    /\ UNCHANGED <<requestVars, proxyVars, slots>>

(* or the request is sent. *)
Ask(c) ==
    /\ pc[c] = "handling"
    /\ kind[c] = "download"
    /\ transfers < MaxConcurrent
    /\ transfers' = transfers + 1
    /\ GoTo(c, "asking")
    /\ UNCHANGED <<requestVars, failed, pulled, sent, slots>>

(* The upstream cannot be reached, or has another status than 200. *)
AskFails(c) ==
    /\ pc[c] = "asking"
    /\ WriteError(c)
    /\ failed' = [failed EXCEPT ![c] = TRUE]
    /\ GoTo(c, "leaving") \/ GoTo(c, "closingBody")
    /\ UNCHANGED <<requestVars, pulled, transfers, slots>>

(* Mutant: the transfer is no longer counted once the upstream has answered. *)
AskSucceedsUncounted(c) ==
    /\ pc[c] = "asking"
    /\ GoTo(c, "pulling")
    /\ transfers' = transfers - 1
    /\ UNCHANGED <<requestVars, failed, pulled, sent, slots>>

AskSucceeds(c) ==
    /\ pc[c] = "asking"
    /\ GoTo(c, "pulling")
    /\ UNCHANGED <<requestVars, proxyVars, sent, slots>>

(* io.Copy reads the response, until its end or LimitReader's, *)
Pull(c) ==
    /\ pc[c] = "pulling"
    /\ \/ /\ pulled[c] < MaxBytes
          /\ pulled' = [pulled EXCEPT ![c] = pulled[c] + 1]
          /\ GoTo(c, "pushing")
       \/ /\ GoTo(c, "closingBody")
          /\ UNCHANGED pulled
    /\ UNCHANGED <<requestVars, failed, transfers, sent, slots>>

(* or until the upstream breaks off or http.Client's timeout passes, *)
PullFails(c) ==
    /\ pc[c] = "pulling"
    /\ pulled[c] < MaxBytes
    /\ failed' = [failed EXCEPT ![c] = TRUE]
    /\ GoTo(c, "closingBody")
    /\ UNCHANGED <<requestVars, pulled, transfers, sent, slots>>

(* and writes what it has read. *)
Push(c) ==
    /\ pc[c] = "pushing"
    /\ \/ /\ Sends(c, "bytes")
          /\ GoTo(c, "pulling")
          /\ UNCHANGED failed
       \/ /\ Breaks(c)
          /\ GoTo(c, "closingBody")
          /\ failed' = [failed EXCEPT ![c] = TRUE]
    /\ UNCHANGED <<requestVars, pulled, transfers, slots>>

(* The deferred calls of Handle: resp.Body.Close() ... *)
CloseBody(c) ==
    /\ pc[c] = "closingBody"
    /\ GoTo(c, "leaving")
    /\ UNCHANGED <<requestVars, proxyVars, sent, slots>>

(* ... and <-p.sem. *)
Leave(c) ==
    /\ pc[c] = "leaving"
    /\ transfers' = transfers - 1
    /\ GoTo(c, IF failed[c] THEN "reporting" ELSE "releasing")
    /\ failed' = [failed EXCEPT ![c] = FALSE]
    /\ pulled' = [pulled EXCEPT ![c] = 0]
    /\ UNCHANGED <<requestVars, sent, slots>>

-----------------------------------------------------------------------------
(* The deferred calls of serve: <-s.sem ... *)
Release(c) ==
    /\ pc[c] = "releasing"
    /\ slots' = slots - 1
    /\ GoTo(c, "closing")
    /\ UNCHANGED <<requestVars, proxyVars, sent>>

(* ... and conn.Close(), with which the goroutine and all it knew are gone. *)
Close(c) ==
    /\ pc[c] = "closing"
    /\ GoTo(c, "closed")
    /\ kind' = [kind EXCEPT ![c] = "none"]
    /\ deadline' = [deadline EXCEPT ![c] = FALSE]
    /\ broken' = [broken EXCEPT ![c] = FALSE]
    /\ sent' = [sent EXCEPT ![c] = <<>>]
    /\ UNCHANGED <<proxyVars, slots>>

ServeStep(c) ==
    \/ Enter(c) \/ Refuse(c) \/ SayBusy(c) \/ ReadLine(c) \/ ReadFails(c)
    \/ ServePage(c) \/ TreeFails(c) \/ TreeFailsSilently(c) \/ SearchFails(c) \/ Report(c)
    \/ ResolveFails(c) \/ TransferRefused(c) \/ Ask(c) \/ AskFails(c) \/ AskSucceeds(c)
    \/ Pull(c) \/ PullFails(c) \/ Push(c) \/ CloseBody(c) \/ Leave(c)
    \/ Release(c) \/ Close(c)

Next == \E c \in Conns : Accept(c) \/ Break(c) \/ ServeStep(c)

Spec == Init /\ [][Next]_vars

(* Where serve may wait for its client, for as long as the connection holds. *)
WaitsForClient == {"reading", "handling", "pushing", "reporting", "refusing"}

(* Deadlines pass, http.Client times out after thirty minutes, and everything
   else is the server's own work; a client need not send or read anything. *)
Unattended(c) ==
    \/ deadline[c] /\ Break(c)
    \/ (pc[c] \in WaitsForClient => broken[c]) /\ ServeStep(c)

FairSpec == Spec /\ \A c \in Conns : WF_vars(Unattended(c))

-----------------------------------------------------------------------------
(* Both semaphores are what they are for: the counters stand for the
   connections being served and the transfers in flight, on every path through
   the handlers, errors and early returns included. *)
ConnPool == INSTANCE Pool WITH
    Users <- Conns, Capacity <- MaxConns, holders <- At(Serving)
TransferPool == INSTANCE Pool WITH
    Users <- Conns, Capacity <- MaxConcurrent, holders <- At(Transferring)

ServesWithinMaxConns == ConnPool!Spec
TransfersWithinLimit == TransferPool!Spec

(* No place of either semaphore is leaked or given back twice. *)
PlacesArePooled == ServesWithinMaxConns /\ TransfersWithinLimit

(* What the limit is for: the upstream never sees more than MaxConcurrent
   requests at once, responses that are still being closed included. *)
UpstreamSpared == Cardinality(At(Fetching)) <= MaxConcurrent

(* A connection is shed only while MaxConns others are open: a client that
   sees its own connection closed can open another one. *)
ShedOnlyWhenFull ==
    [][\A c \in Conns : Refuse(c) =>
          Cardinality({d \in Conns \ {c} : pc[d] # "closed"}) >= MaxConns]_vars

(* Whatever goes wrong with a page, its client gets one reply, whole or cut,
   and never an error menu behind it. *)
OneReply ==
    \A c \in Conns : kind[c] \in {"tree", "search"} => Len(sent[c]) <= 1

(* Every connection is closed in the end, however slow its client or the
   upstream, so that a place that is taken comes back. *)
ConnectionsEnd == \A c \in Conns : pc[c] = "accepted" ~> pc[c] = "closed"

=============================================================================
