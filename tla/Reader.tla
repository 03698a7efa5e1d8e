------------------------------- MODULE Reader -------------------------------
(***************************************************************************)
(* What is served, and how: the pages of the tree and where their links    *)
(* lead (Site), and the connections they are asked for over (Server).      *)
(*                                                                         *)
(* Which page a selector leads to does not depend on the connection it     *)
(* came on, so one behaviour is of either of them: subject says of which.  *)
(***************************************************************************)
EXTENDS Server

CONSTANT SelectorPrefixes  \* as in Site

(* The names at the top of a tree, and the mount of the proxy. *)
TopNames == {"github", "ncs", "files", "about.txt", "search.cgi", "search.idx", "dl"}

(* A prefix does not begin with one of them: a selector without the prefix,
   as the search gives them, could not be told from one with it. *)
ASSUME PrefixesAssumption ==
    \A p \in SelectorPrefixes : p \in Seq(STRING) /\ (p # <<>> => p[1] \notin TopNames)

ASSUME SomePrefixAssumption == SelectorPrefixes # {}

VARIABLES subject, prefix, cgi, copied, proxyOn, part, tree, meant, screen
siteVars == <<prefix, cgi, copied, proxyOn, part, tree, meant, screen>>

Pages == INSTANCE Site

(* No tree is written and nobody reads. *)
NobodyReads ==
    /\ prefix = (CHOOSE p \in SelectorPrefixes : TRUE)
    /\ cgi = FALSE /\ copied = FALSE /\ proxyOn = FALSE
    /\ Pages!Unserved

ReaderInit ==
    /\ Init
    /\ \/ subject = "tree" /\ Pages!Init
       \/ subject = "connections" /\ NobodyReads

ReaderNext ==
    /\ UNCHANGED subject
    /\ \/ subject = "tree" /\ Pages!Next /\ UNCHANGED vars
       \/ subject = "connections" /\ Next /\ UNCHANGED siteVars

ReaderSpec == ReaderInit /\ [][ReaderNext]_<<subject, vars, siteVars>>

FairReaderSpec == ReaderSpec /\ \A c \in Conns : WF_vars(Unattended(c))

(* The tree and the screen are well formed, every menu reads as it was
   meant, and every link leads to what it promises, with and without a prefix
   (ngingest's run, tree.go's path, server.go's resolve, serveTree and
   serveDir). *)
ReaderFindsAll == Pages!ReaderFindsAll

(* Every selector of the tree's menus carries the prefix (ngingest's comment
   on -selector-prefix). *)
SelectorsCarryPrefix == Pages!SelectorsCarryPrefix

=============================================================================
