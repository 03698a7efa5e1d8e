------------------------------ MODULE MCReader ------------------------------
(* The reader's side: Site without a prefix and with prefixes of one name and
   of two, and Server with two connections of which one is served at a time. *)
EXTENDS Reader, TLC

MCPrefixes == {<<>>, <<"nrf">>, <<"mirrors", "nrf">>}

=============================================================================
