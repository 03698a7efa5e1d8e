------------------------------ MODULE MCCorpus ------------------------------
(* Corpus on a few generations. *)
EXTENDS Corpus

TwoGens == 1..2

=============================================================================
