---------------------------- MODULE MCFetchCache ----------------------------
(* FetchCache on a few versions and callers. *)
EXTENDS FetchCache

=============================================================================
