--------------------------- MODULE MCConfigItems ----------------------------
(* A small instance of ConfigItems for TLC.                                *)
EXTENDS ConfigItems

TwoKeys == {1, 2}

\* One text under two types, and two spellings of one JSON object.
SomeValues == {<<"string", "{}">>, <<"json", "{}">>, <<"json", "{ }">>}

\* JSON is decoded, and so loses its spelling; a string is kept.
SomeTyped(v) == IF v[1] = "json" THEN <<"json", "{}">> ELSE v
=============================================================================
