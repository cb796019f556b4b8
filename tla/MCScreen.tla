------------------------------ MODULE MCScreen ------------------------------
(* An instance of Screen for TLC.                                          *)
EXTENDS Screen

\* A character, the two newlines, and a text that is longer than a row, with a null
SmallTexts == {<<"chr">>, <<"nl">>, <<"cr">>, <<"chr", "nul", "chr", "chr">>}
=============================================================================
