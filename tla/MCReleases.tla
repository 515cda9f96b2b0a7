---------------------------- MODULE MCReleases ------------------------------
(* Small instances of Releases for TLC.                                    *)
EXTENDS Releases, TLC

CONSTANTS empty, first, reworded, nan

\* The two lists of the concurrent run, which differ in content.
TwoItems == {empty, first}
TwoDigests == [i \in TwoItems |-> i]

\* reworded differs from first in a description only, so it has the same
\* content; nan is a valid list that cannot be encoded.
FourItems == {empty, first, reworded, nan}
FourDigests == [i \in FourItems |-> IF i = reworded THEN first ELSE i]

Symmetry == Permutations(Req)
=============================================================================
