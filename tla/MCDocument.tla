----------------------------- MODULE MCDocument -----------------------------
(***************************************************************************)
(* Short texts of characters of every width for TLC.                       *)
(***************************************************************************)
EXTENDS Document

\* Texts with a wide character on each side of either line end, and no text.
OpenedTexts == {<<"four", "newline", "two">>, <<"four", "return", "newline", "two">>, <<>>}

Typed == {<<>>, <<"newline">>, <<"return">>, <<"four", "ascii">>}
=============================================================================
