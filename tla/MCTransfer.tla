----------------------------- MODULE MCTransfer -----------------------------
(* A small instance of Transfer. *)
EXTENDS Transfer

\* A pointer; a name of one letter; one of four letters and ".com".  The bytes that
\* Nslookup takes for the length of the data are, in a record with the last, its type.
MCNames == {<<192, 12>>, <<1, 120, 0>>, <<4, 97, 98, 99, 100, 3, 99, 111, 109, 0>>}

\* 60 and 300 seconds.
MCTTLs == {<<0, 0, 0, 60>>, <<0, 0, 1, 44>>}
=============================================================================
