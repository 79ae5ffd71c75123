------------------------------- MODULE MCNames -------------------------------
(* Names that fill the buffer, leave one cell or more of it, and lines      *)
(* without the word, in a buffer of 6 cells.                                *)
EXTENDS Names

MCLines ==
  {<<Key, "_", "a">>, <<Key, "_", "b", "a">>, <<Key, "_", "a", "b", "c">>,
   <<>>, <<"a">>, <<"b", "_", "c", "a">>}

ASSUME LinesArePlain == PlainLines
=============================================================================
