------------------------------ MODULE MCImport ------------------------------
(* Import on small files, in three dialects: the usual one, one with a separator *)
(* and an end-of-line of two characters, and one whose separator holds a CR.     *)
EXTENDS Import

SmallDialects ==
  { <<<<";">>, <<"LF">>>>,
    <<<<";", ";">>, <<"CR", "LF">>>>,
    <<<<";", "CR">>, <<"LF">>>> }
NothingOrText == {<<>>, <<"a">>, <<";", "a">>}
=============================================================================
