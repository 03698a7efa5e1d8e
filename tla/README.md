# nordicgopher: specifications, model checking and proofs

nordicgopher mirrors Nordic Semiconductor's public material on a Gopher server.
One program, `ngingest`, is started by a timer, fetches the sources and writes a
directory of gophermaps and texts; it publishes by swapping that directory into
place. Another, `nordicgopher`, serves the directory, searches it, and proxies
downloads. They share nothing but the file system. (`ngsearch` is a CGI for
hosts where a foreign Gopher server serves the tree.)

This directory holds TLA+ models of the parts where something can go wrong that
tests hardly reach: the swap of the tree under its readers, the two searches
over it, the HTTP cache that survives crashes, the limits of the server, the
API budget, the worker pool and document graph of the documentation ingest, the
copies of the file server ingest, the index file, the links of the pages written
and the prefix they carry, and the conversion of nested text. Paths below are
relative to `src/`.

- [Inventory](#inventory)
- [Modules and code](#modules-and-code)
- [Runs](#runs)
- [Fairness](#fairness)
- [Proofs](#proofs)
- [Where code and documentation disagree](#where-code-and-documentation-disagree)
- [What is not modelled](#what-is-not-modelled)
- [Plan](#plan)

To repeat a run: `tlc -workers 2 -config Docs_walk.cfg MCDocs.tla`. To repeat a
proof: `tlapm DocsProof.tla`, or faster `tlapm --stretch 0.5 DocsProof.tla`: leaves
that are for Zenon are first tried with SMT until its time is up.

## Inventory

| Component | Source | State | Operations | Models |
|---|---|---|---|---|
| Publication | `cmd/ngingest/main.go`, `internal/tree/tree.go` | `<out>`, `<out>.prev` and the staging directories `.ngingest-*` beside them | clean old staging, make one, write the parts and the index, `Swap`; the operator's rollback | `Mirror`, `Publish`; its menus in `Site` |
| Standalone search | `internal/search/search.go` | cached documents, their stamp, an RWMutex | `Handle`, `corpus`, `load`, `Reload` | `Corpus`; its matching in `InvertedIndex` |
| Fetch cache | `internal/httpcache/cache.go` | a body and a metadata file for each URL | `Get` (revalidate, retry, fall back), `GetJSON` | `FetchCache` |
| Gopher server | `internal/gopher/server.go`, `menu.go` | the connection semaphore; per connection a deadline and what has been sent | accept, shed, read, route, serve, report, close | `Server`, `Pool`; what is answered in `Site` |
| Download proxy | `internal/gopher/proxy.go` | the transfer semaphore | resolve, fetch, copy | `Server`, `Pool`; its cut in `Artifacts` |
| GitHub ingest | `internal/ingest/github/github.go` | the hour's API budget, held by GitHub | read the budget, size the run, list, write repositories | `Budget`, `GitHubPages` |
| Documentation ingest | `internal/ingest/ncsdocs/ncsdocs.go` | sources, documents, labels, order | list, fetch with workers, parse, walk, truncate, write | `Docs` (its API request also in `Budget`) |
| File server ingest | `internal/ingest/artifactory/artifactory.go` | files and menus it has written | catalogue, HEAD, link or copy, menus | `Artifacts`; as one part in `Publish` |
| Inverted index | `internal/index/index.go` | terms, postings, documents; a file | build, query, write, load | `InvertedIndex`, `IndexFile`, together in `Indexing` |
| Search CGI | `cmd/ngsearch/main.go` | none (a process for each query) | load the index, query, quote | `CgiSearch` |
| Gophermaps | `internal/gopher/item.go`, `gophermap.go` | none | clean, format, parse | `Site` |
| Text conversion | `internal/text`, `cmd/ngconv` | per document: paragraph, footnotes, levels, files under way | RST and Markdown to text | `Rst` (`rst.go` only) |
| Wiring, deployment | `cmd/nordicgopher`, `deploy/`, `DEPLOY.md` | none | mounts, timer, timeouts, the rollback recipe | in `Server`, `Site`, `Publish`, `Mirror` |

How they interact:

- `ngingest` runs its ingesters one after the other into a staging directory.
  One error ends the run before `Swap`. The ingesters share one
  `httpcache.Client`; the documentation ingest runs after the GitHub ingest and
  lives on what that left of the API budget.
- `Swap` removes `<out>.prev`, looks whether `<out>` exists, renames `<out>` to
  `<out>.prev`, and renames the staging directory to `<out>`: four calls, with
  readers, failures and kills in between.
- The server opens every path anew under `<out>`, so each request may fall on
  either side of a rename, and the search, which opens many, on both.
- The search decides by the modification time of the root gophermap whether its
  corpus is still good.
- The index is written as one part of the tree, and the CGI, a process for each
  query, loads it by path and then reads the documents it shows by path.
- The ingesters write selectors with the prefix, `tree.Tree` strips it to find
  the file, the server strips it again or serves the tree from above.
- The proxy is mounted in the server, so a transfer holds a place in both
  semaphores.

What is hard here, and what makes each part correct:

- *Publication.* Crashes between steps, failing renames, two runs at once.
  Readers find a whole tree or, for a moment, none; a failed run costs nothing;
  leftovers pile up no faster than removals fail; the backup is what a rollback should bring back; a
  good copy survives a fault.
- *Search.* A tree that changes under a load, files that cannot be read, several
  queries behind one lock. A cached corpus is of the tree whose stamp it carries; answers are no older than
  the tree the query found; nobody waits for ever.
- *Fetch cache.* Two files that belong together, in-place writes, crashes,
  throttling, stale fallback. A validator is never paired with another
  version's body; an answer upstream confirmed is current; a caller is never
  taken back to an older version; a call returns.
- *Server and proxy.* Many early returns, clients that stop reading, two nested
  limits. No place is leaked or given back twice, the upstream limit holds, only
  a full server sheds, a page is never followed by a second reply, every
  connection ends.
- *CGI.* A process that opens one file and looks others up later, over a tree
  that is swapped meanwhile. An answer is of one index, no older than what was
  there when the query came; what is quoted is never older than the index.
- *Index.* Order of terms and postings, prefix ranges, terms too short or long,
  numbers stored as differences, a file without an end mark. The right
  documents in the right order; what is loaded is what was built; a file that
  lost anything is refused.
- *GitHub ingest.* Arithmetic at the boundary, a stale reading of the budget,
  retries that cost, repositories that
  fail half way, names that share a path. The reserve for the documentation
  ingest is kept; every link leads to what it says.
- *Documentation ingest.* Workers and a channel, arbitrary graphs, a cut-off.
  No file is lost or fetched again for nothing; the walk is exact and
  depth-first; what is published hangs together; the run ends.

- *File server ingest.* An upstream that changes between HEAD and GET, copies
  that break off or exceed the limit. A link leads to all of an artifact, or to
  the proxy.
- *Menus and selectors.* A prefix added and stripped in several places, lines
  that mean something else on the disk, types guessed from names. No dead ends,
  menus arrive as they were meant, an item leads to what its type promises.
- *Text.* Blocks within blocks, files within files, footnotes and section levels
  across both. No prose is doubled or moved, and none of an evenly indented document
  lost; includes do not go round.

The hazards behind these, each at its line, are in `PROJECT.json`.

## Modules and code

`PROJECT.json`'s `map` gives the lines each definition stands for. `MC*` modules
give values to constants; `*Proof` modules hold the proofs. Definitions whose
comment begins with "Mutant" are deliberate faults: each, put in place of
the definition it follows, makes the property named beside it in `PROJECT.json`
fail, which shows the property depends on the code.

```
Mirror  <--implements--  Publish            Pool  <--implements (twice)--  Server
   ^--environment of---  Corpus             FetchCache
   ^--environment of---  CgiSearch

Ingest   = Budget | GitHubPages | Artifacts       Documents = Docs | Rst
Indexing = IndexFile | InvertedIndex              Reader    = Site | Server
```

The last four put components of one program side by side which do not
act on each other: what a converter does with a text does not depend on how it
was fetched, nor a page on the connection it is asked over. There a behaviour is
of one component and the others have ended, so that the state counts add up and
nothing is multiplied. They have constants of their own, because there are theorems about them;
`MCIngest`, `MCDocs`, `MCIndex` and `MCReader` are their instances. The liveness properties of such a module are conjunctions
over its components, and hold trivially for those that have ended.

### Mirror

What the publishing side promises its readers. `live` and `backup` are the
generations at `<out>` and `<out>.prev` (0 for none); a generation is the number
of the run that made it. `DropBackup`, `Retire` and `Install` are the effects of
`Swap`'s calls, `SetAside` and `Restore` the two `mv` of DEPLOY.md's rollback.
`rolledBack` and `published` are history.

### Publish

A tree is a record of its generation and the set of parts written so far: one
part for each ingester, one for the root menu and its pages, the index last. `dst`, `prev`
and `staging[r]` are the directories, `pc[r]` where run `r` is. `CleanStaging`,
`SweepOne`, `SweepDone`, `MkdirTemp`, `WritePart`, `WriteIndex`, `IngestFails`, `RemovePrev`, `StatDst`,
`MoveOld`, `MoveNew`, `Cleanup` follow `run` and `Swap` call by call. Each call
that can fail may fail, also those whose error the code drops: `CleanStaging`
lists the staging directories (`sweep`) or cannot read the directory they are in,
`SweepOne` removes one or leaves it, and so does `Cleanup`, the deferred
`os.RemoveAll`. An `os.RemoveAll` takes the parts of a tree away one at a
time (`Removals`), and `Kill` ends a run anywhere without its deferred
clean-up: the service's start timeout, a power cut. `Overlap` says whether a run may start while
another runs: systemd does not start a unit twice, but an operator who runs
`ngingest` by hand is not stopped by anything.

`Publish` implements `Mirror` with `live` the generation of `dst` and `backup`
that of `prev`, if whole.

### Corpus

`corpus()` and `load()` over a `Mirror` that takes any step it may at any
moment. `docs[f]` is the generation document `f` was read from, or none, so a
mixture is visible. A generation's number stands for its stamp: modification
times of two generations differ, and renames keep them. `Begin` stats the root
menu (before any lock, as the code does), `Check` is the look under the read
lock, `Acquire` the write lock with the second look, `ReadFile` one file of the
walk, `Finish` the publication of the corpus and the unlock. `Reload` drops it.
A file is skipped, as `load` does, when no tree is in place, and any of
`Unreliable` at any time: `load` drops the errors of the walk, of `Info` and of
`ReadFile`, and keeps the corpus with the hole (`Unread`) under the stamp.

### CgiSearch

Processes of `ngsearch` over a `Mirror` that takes any step it may at any
moment. `Begin` is the start of a process, `Load` opens the index of the tree
that is there (`opened`; one open file, so a swap does not change what is read),
`Match` takes any answer `QueryN` may give of that index, `Quote` looks up the
document of the next result by its path, in the tree that is there then, unless
its selector has ".." (`Dotted`) or reading it fails, and
`PrintResult` and `Exit` end the process, with which all it knew is gone. A
document read is its generation, so that a quote of another generation is
visible. `LoadFails` is a missing tree and an index that `IndexFile` refuses.

### FetchCache

One URL. `body` and `meta` are the two files, 0 for absent and -1 for torn; a
version number stands for a body and its ETag. `Request` sends a request,
conditional if the metadata file could be read; upstream may answer with the body, a 304, a
throttle or server error, a final error, or not at all, or break off in the
body. `SaveBody`/`FillBody` and `SaveMeta`/`FillMeta` are the truncation and the
writing of `os.WriteFile`, whose errors the code drops; `Crash` may come between
any two. `Retry`, `ServeStale` and `GiveUp` are the ways out of a failed
attempt. Version numbers grow, as the upstream publishes.

### Pool and Server

`Pool` is a counting semaphore. In `Server`, `pc[c]` is where connection `c` is
in `serve` or in the handler below it; `slots` and `transfers` count the tokens
in the two channels, and are updated where the code sends and receives,
independently of `pc`, so that an error return that forgets one breaks the
implementation of `Pool`. `sent[c]` is the sequence of replies on the wire:
page, file bytes, error menu, or a cut one. `broken[c]` says the connection no
longer carries bytes: the client left, or the deadline passed. `kind[c]` is what
was asked for. `MaxBytes` bounds the reads of one transfer, which stand for the
limit of the `LimitReader`.

### Budget

`remaining` is what GitHub has left for the address, `known` whether the run was
told so, truly, and `limit` the number of repositories it sized itself to.
`ReadBudget` is `budget()` with the three outcomes of `GetJSON` through the
cache: fresh, stale (any number, `known` stays false), failed. `SizeTo` and
`Affordable` are the arithmetic of `affordableRepos`; `ListPage`, `Readme`,
`Releases` are the requests of each repository, `Docs` the one of the
documentation ingest afterwards. A request may be answered, refused, or fail
after costing something, and is tried `Tries` times (`Stumbles`, `Again`,
`Fails`). `OtherSpends` is another user of the same address and `Reset` the turn
of the hour. `extra`, `faults` and `others` count what the reserve is not
supposed to cover.

### GitHubPages

What `Run` writes once it knows its limit. A page is a path; its content is what
it is about and the links it has. The order is the code's: README, release
notes, the menu of releases, the menu of the repository, that of the
organisation, the part's. `SkipRepo` and `LeaveOutOrg` are the failures that are
logged and passed over, with what is on the disk left there. `Slug` maps names
to the last component of paths, and two names may share one.

### Artifacts

One catalogue, item by item: `HeadSucceeds` or `HeadFails`, then `LeaveProxied`
or one of the ends of a copy: `CopyRefused`, `CopySucceeds`, `CopyTooLong` (the
upstream's size changed or was not given; one byte over the limit is written
before that is known), `CopyBreaks`. Then the menus, of which only the part's own is
fatal. `FollowCopy`, `FollowProxy` and `FollowListing` are a visitor's downloads: by a
link to a copy, by a link to the proxy with its cut, and by the listing the
server makes of `artifacts/`, which has no gophermap. A body is its size, and a
file remembers the size of the body it is of, so a part taken for a whole is
visible.

### Docs

Files are numbers in the order of their names. `List` is the tree listing,
`Take`, `Deliver`, `Return` the workers around the unbuffered channel, `Collect`
what happens when all have returned (parents, labels, the start of the walk),
`Visit` one call of the recursive `visit` (its pending calls are the `agenda`),
`StartWriting` the cut to `MaxDocs`, `Include` one lookup of an included file
with the negative cache, `WriteText`, `WriteMenu`, `WriteFails` one document's
writing. What the files contain is data: `children` is any choice from
`Toctrees` of sequences that name only documents that came, which is what
`resolveToctree` leaves; `Includes`, `Defines` and `Uses` are the files a
document includes and the labels it defines and refers to. Selectors are taken
to be distinct (`a.rst` and `a/index.rst` would share one).

### InvertedIndex

A text is a sequence of characters, ordered by their codes, so that words, prefixes,
parts between underscores and the binary search mean what they mean in Go. Its
words are the longest stretches of word characters (`Runs`, `WordAt`), its title the first line
if it has a second. `Skip`, `Unreadable` and `Read` are the walk of
`Build`, `Sort` its two sorts. `Ask` tokenises a query, `MatchTerm` matches one
term and intersects, `Rank` adds the bonus for titles, sorts and cuts. Go's `sort` is `Sorted`: each element comes after as many as are before it
in the order. What a term adds to a score is a sum over the postings it scans; it
is the number of pairs of a posting and one of its occurrences (`MatchPrefix`).
The terms of a text are known by their places, a word and its part (`Places`),
so that a word which occurs twice counts twice. `Worth`
and `Matches` say what a reader of all documents would say without an index, and
`ScanFinds` is the standalone server's `match` of `ScanTerms`, its own terms: they
are split at white space and trimmed of punctuation, so that "nrf-sdk" is one
term to the scan and two to the index.

### IndexFile

The file is a sequence of items, each a number or a string with its length.
What an item is depends on those before it: its `Place`. `Put` writes
the item of the writer's place into the buffer, `Spill` moves some of the buffer
to the disk, `Break` is the first failing write, `Flush` reports it; `LosePower`
cuts a published file, which nothing has synced. `TakeMagic` to `TakeFreq`
read one item each at the loader's own place, which it knows only from the
counts it has read; `Finish` and `Refuse` are its two ends. `Word` stands for
2^32, and `Minus` and `Plus` wrap around at it.

### Site

One tree from the selectors handed to `WriteMenu` to the items a reader follows.
The configuration is chosen first: the prefix, the CGI or the built-in search,
copied or proxied downloads. `Ingest` writes the pages of one part after the
other, one of each kind the ingesters write; `tree.Tree` strips the prefix
(`PathOf`), `Format` writes gophermap lines, with the tabs and hashes of display
strings cleaned. `Answer` is the server: mounts by prefix, `Resolve`, then a file,
a gophermap that is parsed, or a listing by file name. `Open`, `Follow` and `Up`
are a reader who has one screen and takes any link on it, or the directory
above.

### Rst

A line is its kind (text, bullet, directive, rule, ...), its indentation, what
the kind needs, and what is `left` of it when its first characters are cut off:
`Dedent` cuts the indentation of a block's first line from every line that is as long,
whether it is spaces or not, empties a line of exactly that length, and takes only
the spaces of a shorter one. An include may say after which text or from which line
to start (`Sliced`). `frames` is the stack of calls of `parseLines`: the document,
blocks that were cut out and dedented (`ExtractBlock`), and included files.
A step reads one construct of the top frame; `EndBlock` indents what a block
gave, `EndInclude` goes on behind the directive. The paragraph at hand, the
footnotes and the section adornments are shared by all frames, as the
converter's fields are. What is emitted keeps which lines it is from, its
indentation and width, so that order and loss are visible. `Inline` gives the links
of a piece their footnotes at once: those of targets that have no number yet
(`NewLinks`) in the order of their lines, and the piece keeps the numbers it
shows as its `marks`.

## Runs

| Run | Instance | Distinct states | Checks |
|---|---|---|---|
| `Publish_faults` | 3 runs of 3 parts one after the other, 4 faults | 37,990 | 4 invariants, refinement of `Mirror`, recovery |
| `Corpus_swap` | 2 generations, 2 queries, 2 files of which one may be unreadable, rollbacks | 438,583 | 3 invariants, every query answered |
| `CgiSearch_swap` | 3 generations, 1 process after another, a selector with "..", rollbacks | 27,622 | 3 invariants |
| `FetchCache_one` | 1 caller, 3 tries, 4 versions, 2 crashes, 2 failed writes | 154,687 | 3 invariants, every `Get` returns |
| `Server_limits` | 3 connections, 2 served, 1 transfer (symmetric) | 186,919 | 2 invariants, refinement of `Pool` twice, shedding |
| `Reader_walk` | 3 prefixes, both searches, copied or proxied; 2 connections, 1 served | 8,971 | 1 invariant of `Site`, every connection ends |
| `Ingest_parts` | 2 organisations of 0, 2 or 600 repositories, limit 24, warm cache, 2 faults; pages of 2 organisations; 8 catalogues | 675,454 | 4 invariants, termination |
| `Docs_walk` | 4 documents and an include, 2 workers, 1,134 choices of toctrees, at most 3 documents kept; all documents of up to 5 lines of a few kinds | 200,852 | 6 invariants, termination |
| `Index_all` | indexes of up to 2 documents and 2 terms; trees of 3 files, 9 queries | 150,667 | 5 invariants |

and three runs that end in a counterexample, see below: `Publish_overlap`,
`Corpus_rollback`, `Reader_prefix`. Each run's invariants include the modules'
`TypeOK`, in a composition as a part of another property. Deadlock is checked
where the program goes on for ever (`Corpus`, `CgiSearch`, `FetchCache`,
`Server`, `Site`) and not for runs that end (`Publish_faults`, `Ingest_parts`,
`Docs_walk`, `Index_all`).

Many properties are conjunctions of parts that are named in the modules. What
each run shows, and why the bounds suffice:

- **Publish_faults.** `ReadersAreServed`: nobody ever finds a partial tree at
  `<out>` (`MirrorIsWhole`), and once there was a mirror it can be missing only
  because of a run inside or after `Swap`'s renames; no ingest failure causes
  that (`OutageNeedsSwap`). `SiblingsInOrder`: one run that ends badly may leave its staging
  directory, and after that it takes two faults for every further one
  (`StagingBounded`): a run that dies removes what it finds first, so that besides
  its own end a removal has to fail; and `<out>.prev` is the
  generation directly before the one served (`BackupIsPredecessor`).
  `GoodCopySurvives`: after one fault a whole tree is still somewhere on the
  disk. After two it need not be, and that is why the property is guarded: a run
  killed between the renames leaves the only good tree at `<out>.prev`, and the
  next run deletes that before it has moved its own into place. `Recovers`: a
  run that meets no further fault ends with its own tree published. Three runs
  let one run clear up after the faults of two others, four faults (`MaxFaults`) let two of them
  end badly and their successors fail to clear up, three parts make trees that are
  empty, partial and whole; more of each repeats the pattern, and the proofs below do
  not depend on them.
- **Corpus_swap.** `CacheCoherent`: what is cached under the stamp of the live
  tree is of that tree, not a mixture, and what it lacks are files whose reading
  failed, not files that a swap hid. `AnswersAreSound`: no answer holds a document
  older than the tree that its query found (`NoStaleAnswer`), and if that tree
  is still there, the answer was computed from it, all of it that could be read
  (`AnswerMatchesMirror`). The hole that a failed reading leaves stays until the
  next publication. All are said until the first rollback, because
  generations then no longer grow; what is left is the finding below. Two files
  are the least that can be read on two sides of a swap, and two queries the
  least of which one finds the other's corpus or waits for it; one unreliable file
  tells a hole from a mixture.
- **CgiSearch_swap.** `AnswersFromOneIndex`: the documents of an answer are distinct
  and of one index whatever is published meanwhile (`OneIndex`), which is not
  older than the tree the process found, until a rollback (`NeverStale`).
  `QuotesFollowIndex`: quotes are no older than the index and down the list only
  get newer (`QuotesNotOlder`), and while the tree is the index's every result is a document
  of it and was read there, but for those that could not be read or have ".." in
  their selector and have no quote (`QuotesMatchMirror`). Two generations would let a swap fall between
  index and quote; the third lets two.
- **FetchCache_one.** `EntryValid`: when the stored validator would be confirmed
  the stored body is that version, whole. `AnswersDoNotAge`: an answer the
  upstream gave or confirmed is whole and not older than the call
  (`AnswerIsCurrent`), and the fallback never gives a caller less than it had
  (`NeverGoesBack`). All are guarded by "no write has failed": the code drops the
  errors of `os.WriteFile`, and a full disk that takes the metadata and not the
  body does break them. They are about one caller at a time, as `ngingest`
  calls `Get` for any one URL. Four versions let the upstream move in each of
  the three tries; two crashes let one fall into the repair of the other.
- **Server_limits.** `PlacesArePooled`: the set of connections in `serve`'s body
  is a `Pool` of `MaxConns`, that in a transfer one of `MaxConcurrent`.
  `ShedOnlyWhenFull`: a connection is refused only while `MaxConns` others are
  open. `OneReply`: a page or search is never followed by an error menu (a
  download may be, see below). Three connections over two places and one
  transfer fill both limits with someone left over. The connections are
  interchangeable in this specification, and the properties are not liveness, so
  symmetry is sound.
- **Reader_walk.** `ReaderFindsAll`: the layout of the tree does not depend on
  the prefix (`SelfContained`), a menu arrives line by line as the ingester
  wrote it (`MenusAsMeant`), nothing a reader can come to is "not found" but a
  proxied download in a prefixed tree (`NoDeadEnd`, see below), and an item
  leads to what its type promises (`AsPromised`). No prefix, one of one name and
  one of two make the three cases of `Resolve`. `ConnectionsEnd`: even with a
  client that neither reads nor leaves, the place comes back; without symmetry,
  and with one place for two.
- **Ingest_parts.** `ReserveKept`: counted against the budget that the run was
  told, its own requests never eat the reserve of four; each further listing
  page, failed request and foreign request is counted as what it takes from the
  reserve. The limit of 24 leaves something to divide by two and a remainder,
  and the sizes hit nothing to do, less than affordable, and more than five
  listing pages hold. `PagesAreSound`: no link that a reader comes to leads
  nowhere (`LinksLead`), it says what it leads to unless slugs collide
  (`LinksTellTruth`), a page without a link to it belongs to something that was
  passed over or shares its slug (`OrphansWereSkipped`), and an organisation's
  menu counts right (`MenuCounts`). Two organisations share a repository's name,
  and one has two names with one slug. `DownloadsAreSound`: a link to a copy
  leads to all of it (`CopiesAreWhole`), the menu has exactly one link for each
  entry that resolved (`MenuFollowsCatalogue`), a visitor takes a part for a whole
  only at the proxy's limit, from the listing of copies, or under a path listed
  twice (`DownloadIsWhole`), and the part's menu links only menus that were written
  (`RootLinksLead`). Bodies are below, at and above the limits. `AllEnd`.
- **Docs_walk.** `FetchedSparingly`: the pool loses no file and asks for none
  twice (`EachFetchedOnce`), and a missing include is asked for once however
  many documents want it (`AskedSparingly`). `OrderIsAWalk`: the walk's result is
  the least set that has the entry point and is closed under toctrees
  (`WalkFindsReachable`), in the order of a depth-first search that follows
  each toctree in order (`DepthFirst`). `PagesHangTogether`: also after the cut,
  each page is listed by one before it, and none comes twice (`PagesConnected`);
  subpage links and cross references of a written menu lead to a menu, short of
  those whose writing failed (`LinksLead`). The toctrees contain
  self-references, cycles, repetitions, diamonds, orphans, and each file may
  fail to arrive. The limit of three of four makes the cut bite. `ProseIsKept`:
  lines stand on the page in the document's order, once, and of an evenly indented
  document all prose that is not under a directive or
  comment that was dropped, documents with includes among them
  (`NothingLost`; a directive that is itself printed, in a literal block or nested
  too deep, drops nothing), indented by the blocks they are in and nothing else
  (`IndentedByBlocks`), what is wrapped of them within the width (`FitsTheWidth`),
  and without loss of characters where the indentation is even (`CutOnlyIfUneven`). `extractBlock` does
  not forgive uneven lines: it takes characters off them, markers included, and all
  of a line that is exactly as long as the block is indented. Uneven documents are
  converted in this run too; what is claimed of them is order, width and an end. `NestingIsSafe`:
  footnote numbers and levels agree throughout (`FootnotesAgree`, `LevelsAgree`),
  and a file is included in itself only by a directive that says after which text or
  at which line to start, from there on, or whole if it lacks them or they are its first
  (`StackHasNoCycle`). All documents of up to four short lines, and of five of
  fewer kinds, hold every pair of constructs next to, in and after each other;
  longer ones have titles, lists, four levels of blocks, directives that are only
  text where they stand, lines that are cut short, emptied or too short to be cut, indented
  overlines, and files that include each other and themselves. `AllEnds`.
- **Index_all.** `LoadedIsBuilt`: documents, terms and postings come back as they
  were, although only differences are stored. `RefusalIsRight`: a file that
  lost anything is refused (`CutIsRefused`), and a published one for no other
  reason (`RefusedOnlyIfLost`). `IndexIsComplete`: terms and postings are in
  order (`IndexOrdered`), and any word of a document that is not too long, and any part of
  such a word, find the document (`OwnWordsFind`). `AnswersAreRight`: found are exactly the documents in
  which each term of the query begins a token (`FindsWhatMatches`), the best
  first, and none better left out (`BestFirst`), and, where the query's terms are words
  to the scan too, nothing that the scan would not find (`ScanFindsNoLess`).
  Numbers below three make differences wrap around; words of two letters and an
  underscore, with white space, a hyphen and a full stop between them, are prefixes,
  parts and neighbours of each other, at and above the longest term, and one query is
  a single term to the scan and two to the index.

## Fairness

- `Publish`: weak fairness for each run's start and steps. The timer comes
  again and a started process runs. A fault is never owed.
- `Corpus`: weak fairness for the holder of the lock; strong fairness for
  getting it. `sync.RWMutex` lets a waiting writer in before later readers, and
  `sync.Mutex` under it hands over to a waiter that starved, so a goroutine for
  which the lock becomes free again and again gets it. Nothing is assumed of
  the mirror.
- `FetchCache`: weak fairness for a call's steps: the client has a timeout and
  waits between tries are bounded.
- `Server`: weak fairness for what does not depend on the client: the deadline
  passes if there is one, `http.Client` times out, the server's own steps are
  taken. Where the server waits for its client, only a broken connection makes
  it go on. The deadline is part of the model: without it (a mutant)
  `ConnectionsEnd` fails.
- `Budget`, `GitHubPages`, `Artifacts`: weak fairness for the run, whose requests
  time out. Nothing for other users, the hour and visitors.
- `Docs`: weak fairness for the main goroutine and for each worker.
- `Rst`: weak fairness for the conversion, a function call.
- `CgiSearch`, `InvertedIndex`, `IndexFile`, `Site`: none; nothing is claimed
  there that needs it.

## Proofs

The theorems hold for every value of the constants that the modules' named
assumptions admit: any number of runs, parts, queries, files, connections,
organisations, documents, any toctrees, any index, any selector prefix.

| Module | Theorem | Property |
|---|---|---|
| `PublishProof` | `TypeCorrect` | `TypeOK` |
| | `ReadersHold`, `SiblingsHold` (if `~Overlap`) | `ReadersAreServed`, `SiblingsInOrder` |
| | `OneFaultIsSurvived` (if `~Overlap`) | `GoodCopySurvives` |
| | `ImplementsMirror` (if `~Overlap`) | `RefinesMirror` |
| `CorpusProof` | `TypeCorrect`, `CacheIsCoherent`, `AnswersHold` | `TypeOK`, `CacheCoherent`, `AnswersAreSound` |
| `CgiSearchProof` | `TypeCorrect`, `AnswersHold`, `QuotesHold` | `TypeOK`, `AnswersFromOneIndex`, `QuotesFollowIndex` |
| `ServerProof` | `TypeCorrect`, `ShedsOnlyWhenFull`, `PlacesArePools`, `RepliesAreSingle` | `TypeOK`, `ShedOnlyWhenFull`, `PlacesArePooled`, `OneReply` |
| | `LinksAlwaysLead` | `ReaderFindsAll` |
| `IngestProof` | `CacheTypeCorrect` | `CacheTypeOK` |
| | `EntriesAreValid`, `AnswersHaveNotAged` (if `OneCaller`) | `EntryValid`, `AnswersDoNotAge` |
| | `TypeCorrect`, `ReserveIsKept`, `RequestsAreSound` | `TypeOK`, `ReserveKept` |
| | `DownloadsAreAlwaysSound` | `DownloadsAreSound` |
| | `PagesAreAlwaysSound` | `PagesAreSound` |
| `DocsProof` | `TypeCorrect`, `FetchingIsSparing`, `WalkIsRight`, `PagesHold` | `TypeOK`, `FetchedSparingly`, `OrderIsAWalk`, `PagesHangTogether` |
| | `NestingIsAlwaysSafe` | `NestingIsSafe` |
| `ProseProof` | `NothingIsEverLost`, `WidthsAlwaysFit` | `NothingLost` and `FitsTheWidth` of `ProseIsKept` |
| | `TextIsAlwaysInItsBlocks` | `IndentedByBlocks` and `CutOnlyIfUneven` of `ProseIsKept` |
| | `ProseIsAlwaysKept` | `ProseIsKept` |
| `IndexingProof` | `TypeCorrect`, `LoadRestores`, `RefusalHolds` | `TypeOK`, `LoadedIsBuilt`, `RefusalIsRight` |
| | `IndexIsAlwaysComplete` | `IndexIsComplete` |
| | `AnswersAreAlwaysRight` | `AnswersAreRight` |

Where a property has parts, each part has a theorem of its own in the same
module, from which these follow. `ServerProof` also proves that the upstream
never sees more than `MaxConcurrent` requests, bodies still being closed
included (`UpstreamIsSpared`), and `DocsProof` the types of the conversion
(`TextIsAlwaysTyped`), whose limits on nested blocks and includes are part of them.
`IngestProof` holds the proofs about all the modules of the ingesters' requests, the
cache under them included, and `ProseProof` continues `DocsProof`, whose last
sections (the lines of a call, where its scans stop, what its steps emit) are
there for it.

The arguments:

- **Publish.** `IInv` adds to the properties that runs happen in order
  (`InOrder`), that the staging directory of a run past `MkdirTemp` holds what it
  has written so far (`StagingHoldsWork`), and that what is at `<out>` and `<out>.prev` was
  published, newest first (`PublishedOrder`). None of the properties is
  inductive without them. A run reaches `MoveNew` only with every part and the index
  written, and with no other run to remove them, so what it installs is whole.
  `~Overlap` is needed: `Publish_overlap` shows what happens otherwise. The
  refinement goes by steps: everything before `Swap` stutters, `RemovePrev`
  is `DropBackup` or stutters, `MoveOld` is `Retire`, `MoveNew` is `Install`.
  For `GoodCopySurvives` a second invariant, `CopyInv`, follows the one fault:
  before it `<out>` is missing only for a run about to make its last rename, with
  `<out>.prev` whole; after it `<out>` or `<out>.prev` is whole or a run inside
  `Swap` has a whole staging directory. For the leftovers a third one, `CountInv`,
  counts two for each staging directory against the faults: a run may leave one more only
  by a fault, and begins with as many as before only after another, because what
  is not yet swept is on its list.
- **Corpus.** `Faithful` says of the cache, of the load in progress and of each
  answer (`ReadUnder`) that no document in it is older than the stamp, and that
  while the stamp is the live one all were read from it but those that could not be read. With it go the facts
  that the live tree is the newest published (`LiveIsNewest`), that stamps are
  of published trees, and that the loader is who holds the lock. A root menu that cannot be looked at gives no stamp, and nothing is said of
  what is read under none. Generations
  only grow until a rollback, and the stamp is taken before the load: a document
  read afterwards is the stamp's or a newer one, and if the live one is still the
  stamp's no swap can have been in between.
- **CgiSearch.** What does not depend on the mirror, `Lookups`, comes first: what
  is due and shown are distinct documents of the index opened, which no later
  step changes. `Faithful` says per process, until a rollback, that all it has
  seen was published (`SeenIsPublished`), that the tree found at the beginning,
  the index and the quotes are in this order, and that a quote is of the live
  tree, or was not read at all, if the index is. It is preserved because the live
  tree is the newest published (`LiveIsNewest`) and the mirror only moves forward.
- **FetchCache.** `Faithful` follows the one caller through its steps
  (`DiskDuringGet`): until the new body is whole, the metadata on the disk is
  that of an older version than the one being saved, which upstream will not
  confirm any more; after that they are missing or the new ones. Versions from
  upstream are never ahead of it (`NothingFromTheFuture`), and what a caller has
  had its entry still has or has better (`ResultsAreKept`). Without `OneCaller`
  the properties fail, see below.
- **Server.** `PlacesCounted` equates the two counters with the cardinalities of
  the sets of connections at the steps that hold a place; each action moves one
  connection, and lemmas on cardinality give the change. `Unsent` says that
  nothing is on the wire before the handlers write, and that a search that
  broke its connection gets nothing more through, which makes `OneReply`
  inductive.
- **Budget.** `Solvent`: what remains, with `extra`, `faults` and `others` added
  back, covers the reserve, what the organisation under way may still cost
  (`DueHere`) and a listing and a full share for each one after it
  (`DueLater`). Each request takes as much off the one side as off the other.
  The one nonlinear fact, that the divided budget times the number of organisations
  is at most the budget, is a lemma about integer division.
- **Artifacts.** `FilesInv` says which of the catalogue's entries before the one
  at hand have a link (`reported` and `omitted` count them), and that a link to a
  copy was made by an entry whose file holds what it then had. The file is disturbed
  only by a later entry of the same path, which is why `CopiesAreWhole`
  and `DownloadIsWhole` except paths that are listed twice: `ListedOnce` gives that the entry
  that made the link is the only one that ever opened the file. What a
  visitor gets is compared with the link it followed at each of the three ways.
- **GitHubPages.** `PagesInv` describes every page by its level. What is written is
  `Finished`: a page under a finished organisation or repository, or a finished
  part of the one at hand. `PageOK` says per level what a page's links are in terms of the pages
  below (`RootOK`, `OrgOK`, `RepoOK`, `ReleasesOK`, `NotesOK`, `ReadmeOK`); the steps that write a page
  of another level, or of another organisation, keep it because a path begins with the
  paths of what is above (`*Keeps` lemmas), and a step that overwrites a page does so
  only with one of the same slug. The last lemmas lead from
  `PagesInv` to each part of the property: a link is to a page
  that exists (`LinksLeadSomewhere`) and is about what the link says
  (`LinksTell`), and a page without a link has a reason (`Orphans`). Names are
  distinct where GitHub's are, and `-orgs` is taken to name an organisation once
  (`NamesAssumption`); without that the second pass over an
  organisation would write over the menus of the first.
- **Site.** A path of the tree is named by two kinds of selectors (`Named`): with the
  prefix, as the ingesters write them, and without, as the search and the
  footer give them. `Resolves` says that both are resolved to it, and that
  `tree.Tree` puts a page there, `NotMounted` that the proxy and the search do
  not take it. A link is right (`Leads`) if it is to the proxy, to the search,
  or to a node of its type; `TreeInv` says of each part written so far that its nodes
  are there, on which paths a node of what kind may be, and that the menus
  on the disk are formatted from right items (`Stored`). Once all parts are
  written every right link has its node (`KindOf`) and therefore an answer of the
  type it promises (`LinksAreAnswered`), be it a file, a gophermap, a listing of a
  directory that has none, or the results of the search; and the items of the
  answer are right again. `ScreenInv` says that the reply on the screen is
  the answer to a right link, which `Open`, `Follow` and `Up` preserve: what is
  above a node is a menu or a listing (`HeldByDirectory`). Menus arrive as they were
  meant because no line that `Format` writes is taken for a comment, so
  `Parse` gives an item for each (`ParseAll`). `PrefixesAssumption` excludes
  prefixes whose first name is one at the top of the tree or the mount of the
  proxy. The code does not check that. With the prefix `/github`, `/ncs` or
  `/about.txt` the property fails, because a search result such as
  `/ncs/index.txt` is stripped of what is not a prefix there; for the others the
  assumption only makes the two kinds of selectors tell apart.
- **Reader, Ingest, Documents, Indexing.** A behaviour is of one of the components; the others
  start ended, and their invariants hold of an ended run (`FilesAreOver` and the
  like). So the theorems are about `IngestSpec` (of either module), `IndexSpec` and
  `ReaderSpec`, the specifications that TLC runs.
- **Docs.** `Accounting` says which files are still to be sent, held by exactly
  one worker, or asked for, `Asking` how often each was asked for and whether it
  came: the pool's properties follow. `Walking` says that what is on the agenda
  is listed by something visited, and what a visited document lists is visited
  or on the agenda; with an empty agenda that is closure, and minimality follows
  because each step stays within every closed set. `Stacked` says of the agenda
  that before a document still to come, listed by `p`, there is only what `p`
  lists earlier or what something visited after `p` lists; `DepthFirstSoFar`
  is `DepthFirst` for a document that has not been met yet, and becomes it
  when the document is appended. The cut to a prefix preserves what is said of
  positions in `order`, which is how the properties are phrased.
- **Rst.** `TextInv` has three parts. `Emission` says that `seen` and `links` are
  inverse to each other (`NotesSound`), that every mark on the page is of that list,
  and `Levels`: a title's level is the place of its adornment, every level
  has a title, and a title has one of the level above before it. Neither the
  footnotes nor the levels could be kept without the other direction: a new
  footnote's number is the length of the list plus its rank among the new targets, and
  that ranks of a finite set of numbers are exactly 1 to its size
  (`RanksAreOneToOne`) makes the numbers places again (`InlineSound`); a new
  level has one above it only because every level has a title. `Calls` is
  about the stack: each call reads within its lines, a block's output begins
  within what is emitted, there are no more includes and blocks than the limits
  allow, and a file that is read inside itself is read by a directive that asks
  for a part, from a text or a line on. It is phrased for any stack (`GoodCalls`), so that a call that moves
  on, returns or begins is a lemma each (`CallMoves`, `CallReturns`, `CallBegins`).
  The constructs then differ in what they emit: nothing, pieces that are no titles
  (`PlainAdded`), a title (`TitleAdded`), or what was there, indented (`SamePage`).
- **Prose.** A call of the converter that reads a block of the document, or the document,
  holds a stretch of its lines: line `n` of the call is line `Base(f) + n` of the
  document (`IsBlock`). If the document is evenly indented, it is that line with `Shift(d, f)`
  columns less of indentation and nothing else taken off (`IsWhole`), and what follows the stretch in the
  document is not in the block (`Outdented`); otherwise it only has that line's number, which is enough
  for the order. The document's calls are the first `t` of the stack, each a
  block of the one below it (`Chain`), and what is above them reads an included file
  (`Outside`). At this place in the document, the page is `Kept`: in an even document the lines before it are
  there or are below a line that was dropped and is over (`Drops`, `Passed`), and `Ordered`: those that are there
  come in their order, once. What the constructs emit is said of their lines alone
  (`Placed`, `Skips`, `Shuts`), a lemma for each construct, so that one argument
  carries all of them over to the document (`Leads`, `StepIs`), another a block that
  begins (`InnerIs`) and a third one that ends and indents what it emitted. For
  the widths, each call's `Margins` are what the calls above it will still put
  before the pieces that stand since it began; a piece has room with those
  (`Given`, `Fitted`), and indenting makes the pads longer by exactly what it takes off
  the margins. That the pads add up to the same is the one fact about
  sums it takes.

  Where a line stands is what `Evenly` says, for documents whose blocks are evenly
  indented (`Even`, which is said of the document alone). A line opens a block
  (`OpensIn`) if it is a directive that is not on the page as a title, or if it is
  there as a term; the page tells it of the lines before its place, and no step changes
  what it tells of them (`SameOpens`, `OpensAlike`). Each of the document's calls is of the block of one
  line of the call below it, and whatever else opened a block there is over
  (`Opened`); in the innermost call all of it is over (`Settled`), but for the line
  whose block begins. The blocks that a line is in, counted from the beginning of the
  call that gave it, are then exactly its pads (`Padded`, kept for the whole page by
  `Layout`). When a call ends, its pieces get one more pad, and one more block
  counts, that of the line that opened the call (`PadGrows`). The indentation has to be even
  for two things: all of a block is below the line that opens it (`EvenUnder`), and no line of
  it is indented less than its first (`EvenBelow`), so that `extractBlock` takes nothing but
  spaces (`CutLines`). Included files need not be even: their lines are not the
  document's (`ForeignLayout`).

  `LinesAssumption` says that texts and files are lines and the stack's own
  marks are not file names, `NumbersAssumption` that a document's lines carry their numbers;
  included files are any lines, and `left` of a line may be anything, so that the
  proofs do not depend on what a mark turns into when it is cut.
- **IndexFile.** The history `places` records where the writer was at each item,
  and the invariant's core is that the loader is at the writer's place of the
  next item, `place = places[taken + 1]`, for as long as it is not refused: then
  every item means to the loader what it meant to the writer, and the counts it
  has read are the index's. What is loaded so far agrees with the index up to
  that place (`DocsLoaded`, `TermsLoaded`, `PostingsLoaded`), where one lemma says that
  `Plus` undoes `Minus` for any `Word` (`DifferencesComeBack`). The place
  "end" occurs only behind the last item (`EndIsTheEnd`), so a loader that finishes
  has read the whole file, and one that is refused read less than was written.
- **InvertedIndex.** `SearchInv` follows the data from the files to the answer. `Files`:
  the documents are distinct files of the walk. `Counts`: `freqs` has exactly the
  terms of the documents read, and for each of them exactly the documents that
  have it, with its count. `Searchable`: terms and postings are in order and say
  the same. The binary search rests on two facts about the order of words: what
  begins with `t` is not before `t` (`BegunIsNotBefore`), and what lies between `t` and
  something that begins with it begins with it too (`BegunLieTogether`); so the
  scan from the first term that is not before `t` meets all of them and stops
  behind the last (`ScannedAreBegun`). That the sum of the frequencies is the number of
  occurrences in the document is a bijection between pairs and places
  (`SumsUp`, `MatchPrefixCounts`), found without induction. `NarrowedTo` says of the terms matched so far that the
  documents left are those that have them all, with their occurrences added
  up (`Tally`), and `Answers` is what `Rank` makes of it: the order is total because
  selectors of distinct files are distinct, so what is cut off
  ranks behind what is kept (`Ranking`). That `Sorted` sorts any finite set by
  any total order is `SortedIsSorted`: how many are before each element are different numbers
  below the size of the set, hence all of them. `ScanFindsNoLess` goes from a term of the scan, which is a word of the query if it
  has only word characters, to a token that it begins and from
  there to the word of the document that has that token within (`BegunIsWithin`).
  `TreesAssumption` says that a walk meets a file once, `CharactersAssumption` that
  white space and the punctuation that the scan trims are no word characters;
  the texts and queries, the alphabet, the longest term and the limit are any.

Only model-checked:

- liveness (`Recovers`, `QueriesAnswered`, `GetReturns`, `ConnectionsEnd`,
  `AllEnd`, `AllEnds`), because fairness and ENABLED are outside the prover;
- what a recursive computation returns for every input, for the same reason.
  `reachable` is therefore a state machine over an agenda (one `Visit` a step)
  and needs no recursive operator, and so are `WriteFile` and `Load`. Where a loop
  only adds up or sorts, the model says what it gives as a cardinality
  (`MatchPrefix`, `Sorted`), and that can be reasoned about.

## Where code and documentation disagree

Three runs each end in a counterexample to something the repository says.

1. `Publish_overlap`. *"A failed or partial run never replaces a working
   mirror"* (`cmd/ngingest/main.go:3-4`). With two runs at once, the second
   one's `cleanStaging` removes the first one's staging directory while it is
   being written; the next `WriteMenu`, `WriteFile` or `Create` makes the
   missing directories again, the run goes on, and publishes what it wrote after
   that.
2. `Corpus_rollback`. *"No restart needed; the next request serves the restored
   tree"* (`DEPLOY.md:407`). The stamp is read before the load. If a swap comes
   after that, before the last file has been read, and the mirror is rolled back
   afterwards, the corpus holds documents of the generation set aside under the stamp
   of the restored tree (some of them, between those of the restored one, or all), and is
   not loaded again until the next publication.
3. `Reader_prefix`. *"Selectors are absolute on the wire, so every one of them
   carries it"* (`cmd/ngingest/main.go:106-108`; `DEPLOY.md:257-258`). The links of
   proxied downloads (`artifactory.go:196`) and the footer's link home
   (`internal/tree/tree.go:155`) do not carry the prefix. The proxy is mounted
   below it, so in a prefixed tree these downloads are not found.

Observed while modelling, without a run of their own:

- The cache's *"entries are keyed by URL hash so writers never collide"*
  (`internal/httpcache/cache.go:25-27`) holds for two URLs. Two callers of one URL
  can interleave the writes of body and metadata (lines 211 and 219) and leave
  the body of one response with the ETag of the other. `ngingest` has no two
  such callers, and `OneCaller` is the assumption of the proofs.
- The reserve is to keep the documentation ingest from being *"starved of its
  single request"* (`DEPLOY.md:177-178`). An organisation of more than 100
  repositories costs a request for each page (`github.go:232`); the arithmetic
  counts one page. `ReserveKept` counts the others as `extra`.
- *"The first wins, which matches the order the entry point is walked in"*
  (`internal/ingest/ncsdocs/ncsdocs.go:508-509`): parents are chosen in the order
  of names over all documents (line 514), so "Up to" can name one that comes
  later, or an orphan or one beyond the limit that is not published.
- Identifiers *"are kept whole and also split on underscores"*
  (`internal/index/index.go:139-140`), but one of more than forty characters is
  dropped before it is split (line 152), so that its parts do not find the
  document either. `OwnWordsFind` is about words that are not too long.
- An organisation whose listing fails is left out of a run that succeeds
  (`github.go:153`), and the smaller tree replaces one that had it.
- The built-in search names its results without the prefix
  (`internal/search/search.go:175`); `resolve` finds them all the same, unless the
  prefix begins with the name of a part of the tree (`PrefixesAssumption`).
- In a block whose later line is indented less than its first,
  `extractBlock` cuts the first line's indentation from every line that is as long
  (`internal/text/rst.go:627-628`), letters too; of a line that is exactly as long
  nothing is left. `CutOnlyIfUneven` and `NothingLost` say where that cannot happen.
- The adornment of a section with an overline is the first character of the overline,
  which is trimmed only on the right (`rst.go:292, 297`): all indented overlines
  are one adornment, a space, and share a level.
- The two searches read a query differently: the scan splits it at white space only
  (`search.go:261-269`), the index at every character that is not of a word
  (`index.go:164-171`). "nrf-sdk" is two terms to the index, and it may find
  documents where the scan, which looks for the text as it stands, does not.
- A file that cannot be read for a moment is missing from the built-in search until
  the next publication: `load` skips it (`search.go:154-163`) and `corpus` keeps
  what it returns.
- Staging directories *"accumulate"* without `cleanStaging`, says its comment
  (`cmd/ngingest/main.go:317-319`); with it they do if it cannot remove them,
  because its errors and those of the deferred clean-up (line 104) go nowhere.
- A repository named `gophermap` would share a path with its organisation's menu.
- A document that includes itself is bounded, says a comment, by *"the stack
  check"* (`internal/text/rst.go:481-484`). The check lets any include with
  `:start-after:` or `:start-line:` pass, whatever their values, and `sliceInclude` cuts nothing off where the file does
  not have that text or the line is no number in range (lines 913-933): the document is then read inside itself, whole,
  until `maxIncludeDepth`. `StackHasNoCycle` states what does hold, and two files
  of `Docs_walk` (`whole`, `lines`) do this.
- An included file without a blank line at its end joins its last paragraph with
  the text behind the directive.
- `ParseGophermap` indexes the first character of the display string, and a line
  that begins with a tab has none.
- Both files of a path that a catalogue lists twice are one: the second copy
  truncates the first (`artifactory.go:248`), and if it fails the first link
  leads to what is left.
- `Swap` is called atomic (`internal/tree/tree.go`) but is two renames; between
  them `<out>` does not exist, and if the second fails it stays so until a later
  run succeeds (`OutageNeedsSwap`, `Recovers` state what does hold).
- A kill inside `os.RemoveAll(prev)` leaves part of a tree at `<out>.prev`,
  which the rollback recipe would restore. `Mirror`'s `backup` is a whole tree
  only: to `Publish` as its implementation a partial `prev` is no backup.
- A body torn by a crash is never confirmed by a 304, but the stale fallback
  returns it when the upstream is away (`cache.go:191-201, 211`);
  `AnswersDoNotAge` excludes it by name.
- `Retries` is documented as retries and counts attempts (`cache.go:35-39, 98`);
  the model counts attempts.
- A download that breaks off is followed by an error menu in the same stream
  (`proxy.go:108`, `server.go:160-162`), which is why `OneReply` is stated for
  pages and searches only.
- A body that reaches the proxy's limit is cut there without an error, and the
  client takes what it got for the file (`proxy.go:104`); `DownloadIsWhole`
  excepts that size.
- The rate limit is read through the cache and may be an earlier hour's when the
  request fails (`github.go:198`); `ReserveKept` holds for the budget the run
  was told.
- A documentation file that does not come is left out without an error, the
  entry point included, in which case no documents are published.
- The entry point gets an "Up to" if some document lists it.

## What is not modelled

- Formatting: labels and facts on pages, titles, page headers, wrapping.
- In `rst.go`: tables, the options of an include that cut off its end (`end-before`,
  `end-line`) or show it as literal text or code, `start-after` without a value, substitutions, the markup inside a line but for
  footnotes. The Markdown converter, the choice between the two and `ngconv`.
  They are string functions without state between documents.
- The lines both searches quote under a result.
- The construction of the proxy's upstream URL: it resolves or not.
- Pacing and `Retry-After` waits: durations. What they can change is only how
  often the upstream fails, which is left open anyway.
- Flags, logging, `install.sh`.

## Plan

The order of the modules followed the weight of what can go wrong: publication,
its readers, the cache under the ingesters, the server, the budget, the
documentation graph; then the index and its file, the copies and the pages, the
prefix through the whole site, and nested text. What is left is
a module for tables and literal includes in `Rst`, and the Markdown converter's block
structure as a second module of that form, with the invariants of `ProseProof` for it.
