----------------------------- MODULE MCPublish ------------------------------
(* Publish on a few runs of ngingest. *)
EXTENDS Publish

ThreeRuns == 1..3

=============================================================================
