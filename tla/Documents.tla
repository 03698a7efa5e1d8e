----------------------------- MODULE Documents ------------------------------
(***************************************************************************)
(* The documentation ingest: Docs fetches, orders and writes documents,    *)
(* Rst converts one.  What is converted does not depend on how it was      *)
(* fetched and ordered, so one behaviour is either of Docs or of Rst, and  *)
(* the other one has ended.                                                *)
(***************************************************************************)
EXTENDS Docs

CONSTANTS Texts,         \* documents: sequences of lines
          Words,         \* what the arguments of lines are
          Included,      \* what Options.Include resolves: file to lines
          StartLines,    \* the numbers in start-line options
          PageWidth, LeastWidth,
          IncludeDepth, NestDepth

VARIABLES doc, frames, para, out, adorn, seen, links

rstVars == <<doc, frames, para, out, adorn, seen, links>>

Text == INSTANCE Rst WITH
    Docs <- Texts, Names <- Words, Sources <- Included,
    Width <- PageWidth, MinWidth <- LeastWidth,
    MaxInclude <- IncludeDepth, MaxNest <- NestDepth

ASSUME LinesAssumption ==
    /\ Texts \subseteq Seq(Text!Line) /\ "" \in Words
    /\ Included \in [DOMAIN Included -> Seq(Text!Line)]
    /\ StartLines \in [DOMAIN StartLines -> Nat]
    /\ "doc" \notin DOMAIN Included /\ "block" \notin DOMAIN Included

(* Lines know where they are from, and nothing has been cut off them. *)
ASSUME NumbersAssumption ==
    /\ \A text \in Texts : \A k \in DOMAIN text :
           text[k].id = <<"doc", k>> /\ text[k].cut = 0
    /\ \A file \in DOMAIN Included : \A k \in DOMAIN Included[file] :
           Included[file][k].id[1] # "doc"

ASSUME DepthsAssumption ==
    /\ PageWidth \in Nat /\ LeastWidth \in Nat
    /\ IncludeDepth \in Nat /\ NestDepth \in Nat

Fetched == phase = "failed" /\ Untouched

Converted ==
    /\ doc = <<>> /\ frames = <<>> /\ para = <<>> /\ out = <<>>
    /\ adorn = <<>> /\ seen = <<>> /\ links = <<>>

IngestInit == (Init /\ Converted) \/ (Fetched /\ Text!Init)

IngestNext == (Next /\ UNCHANGED rstVars) \/ (Text!Next /\ UNCHANGED vars)

IngestSpec ==
    /\ IngestInit /\ [][IngestNext]_<<vars, rstVars>>
    /\ WF_vars(Main) /\ \A w \in Workers : WF_vars(Fetch(w))
    /\ WF_rstVars(Text!Next)

(* The conversion's type invariant, and that the text on the page is the
   document's, whole, in its order and where its blocks put it (rst.go's
   parseLines, extractBlock and flush). *)
ProseIsKept == Text!TypeOK /\ Text!ProseIsKept

(* Footnotes, levels and the files under way are the same in nested and
   included text as around it (the converter's shared fields). *)
NestingIsSafe == Text!NestingIsSafe

(* The run ends, and so does each conversion, whatever includes what. *)
AllEnds == RunEnds /\ Text!Converts

=============================================================================
