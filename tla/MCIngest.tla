------------------------------ MODULE MCIngest ------------------------------
(* The instance of Ingest for TLC: organisations of telling sizes, two of them
   with three repositories of which two have one slug and two tags that have
   one slug, and two paths and catalogues of up to three items, which may list
   a path twice. *)
EXTENDS Ingest, TLC

CONSTANTS p1, p2  \* paths on the file server

SmallAndHuge == {0, 2, 600}

TwoOrgs == <<"nordic", "nrfconnect">>
TwoListings ==
    "nordic" :> {<<"sdk", "zephyr">>, <<".github", "github">>} @@
    "nrfconnect" :> {<<>>, <<"sdk">>}
NoneOrThree == {<<>>, <<"v1", "v2/rc", "v2-rc">>}
SlugOf ==
    "sdk" :> "sdk" @@ "zephyr" :> "zephyr" @@ ".github" :> "github" @@
    "github" :> "github" @@ "v1" :> "v1" @@ "v2/rc" :> "v2-rc" @@
    "v2-rc" :> "v2-rc"

UpToTwoOrTwice == UNION {[1..n -> {p1, p2}] : n \in 0..2} \cup {<<p1, p2, p1>>}

=============================================================================
