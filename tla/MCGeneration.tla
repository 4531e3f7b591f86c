--------------------------- MODULE MCGeneration ---------------------------
(***************************************************************************)
(* Model values for Generation: two sources, a cap of two nodes per       *)
(* source, two decoded nodes sharing the tag "a" (so dedup happens within *)
(* and across sources), templates with and without {$num}, a local       *)
(* selector keeping ss nodes and two global selectors.                    *)
(***************************************************************************)
EXTENDS Generation, GenerationValues

\* A selector of renamed duplicates whose preferredDefault holds a
\* non-string value, with a comment line.
Dups    == [tag |-> <<"dups">>, type |-> <<"selector">>, filters |-> Renamed, add |-> <<>>,
            pref |-> [label |-> NonString], options |-> <<>>, comment |-> <<"renamed">>]

MCGlobalConfigs == {<<Auto, Dups>>}
=============================================================================
