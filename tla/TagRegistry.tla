---------------------------- MODULE TagRegistry ----------------------------
(***************************************************************************)
(* The run-scoped tag registry of core/config/subscription/               *)
(* source_loader.go: the tagCounts map and MakeTagUnique.  A registry is  *)
(* a function from the tags seen so far to their occurrence count; a tag  *)
(* outside its domain reads as 0, as a missing Go map key does.           *)
(***************************************************************************)
EXTENDS Text

EmptyRegistry == <<>>   \* make(map[string]int), the function with domain {}

\* tagCounts[tag]
CountOf(counts, tag) == IF tag \in DOMAIN counts THEN counts[tag] ELSE 0

\* Mutants of MakeTagUnique (see PROJECT.json): the first occurrence is
\* registered with count 0; the incremented count is not stored; the
\* suffix is the count before the increment.
MakeTagUniqueZeroFirst(tag, counts) ==
    IF CountOf(counts, tag) > 0
    THEN [tag |-> tag \o <<"-">> \o Itoa(counts[tag] + 1),
          counts |-> [counts EXCEPT ![tag] = @ + 1]]
    ELSE [tag |-> tag, counts |-> (tag :> 0) @@ counts]

MakeTagUniqueOldCount(tag, counts) ==
    IF CountOf(counts, tag) > 0
    THEN [tag |-> tag \o <<"-">> \o Itoa(counts[tag]),
          counts |-> [counts EXCEPT ![tag] = @ + 1]]
    ELSE [tag |-> tag, counts |-> (tag :> 1) @@ counts]

\* MakeTagUnique(tag, tagCounts, _): the tag it returns and the registry it
\* leaves.  The k-th occurrence (k >= 2) becomes tag + "-" + Itoa(k).
MakeTagUnique(tag, counts) ==
    IF CountOf(counts, tag) > 0
    THEN LET k == counts[tag] + 1
         IN  [tag    |-> tag \o <<"-">> \o Itoa(k),
              counts |-> [counts EXCEPT ![tag] = k]]
    ELSE [tag |-> tag, counts |-> (tag :> 1) @@ counts]
=============================================================================
