--------------------------- MODULE MCHmpySession ---------------------------
(* Two contents that share their first chunk. *)
EXTENDS HmpySession
MCContents == {<<"a", "a">>, <<"a", "b">>}
=============================================================================
