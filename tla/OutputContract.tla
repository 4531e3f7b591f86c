--------------------------- MODULE OutputContract ---------------------------
(***************************************************************************)
(* What a generation run must return (spec 4.2, 4.6, 4.7), written from   *)
(* the spec with sets and SelectSeq rather than the code's loops; the     *)
(* filter semantics of one object is MatchesFilter (spec 4.1).  A         *)
(* fragment is [kind, tag, default, outbounds, options, src, idx], the    *)
(* record Generation emits.                                               *)
(***************************************************************************)
EXTENDS FilterMatcher

\* A node passes a selector's filter: any node without a filter, one object
\* ANDs its keys, an array ORs its objects.
Passes(n, f) ==
    CASE f.kind = "nil"   -> TRUE
      [] f.kind = "map"   -> MatchesFilter(n, ConvertFilterToStringMap(f.m))
      [] f.kind = "array" -> \E e \in ToSet(f.elems) :
                               e.kind = "map" /\ MatchesFilter(n, ConvertFilterToStringMap(e.m))
      [] OTHER -> FALSE

FirstOccurrences(s) ==
    LET keep == SelectSeq([k \in 1..Len(s) |-> k],
                          LAMBDA k : \A m \in 1..(k - 1) : s[m] # s[k])
    IN  [j \in 1..Len(keep) |-> s[keep[j]]]

\* addOutbounds first, then the passing nodes' tags, each tag once.
RefMembers(pool, oc) ==
    LET passing == SelectSeq(pool, LAMBDA n : Passes(n, oc.filters))
    IN  FirstOccurrences(oc.add \o [k \in 1..Len(passing) |-> passing[k].tag])

\* The first passing node that satisfies a non-empty preferredDefault.
RefDefault(pool, oc) ==
    LET cand == SelectSeq(pool, LAMBDA n :
                    Passes(n, oc.filters)
                    /\ MatchesFilter(n, ConvertFilterToStringMap(oc.pref)))
    IN  IF DOMAIN oc.pref = {} \/ cand = <<>> THEN <<>> ELSE cand[1].tag

LOCAL InterruptKey == "interrupt_exist_connections"

\* Spec 4.6 step 5: interrupt_exist_connections, then the remaining option
\* keys; byte-stable output (spec 1) fixes their order as the config's.
RefOptions(oc) ==
    (IF \E k \in 1..Len(oc.options) : oc.options[k] = InterruptKey
     THEN <<InterruptKey>> ELSE <<>>)
    \o SelectSeq(oc.options, LAMBDA key : key # InterruptKey)

\* The selectors of a list of outbound configs with at least one member.
RefSelectors(kind, s, pool, ocs) ==
    LET made == SelectSeq([j \in 1..Len(ocs) |-> j],
                          LAMBDA j : RefMembers(pool, ocs[j]) # <<>>)
    IN  [k \in 1..Len(made) |->
            [kind |-> kind, tag |-> ocs[made[k]].tag,
             default |-> RefDefault(pool, ocs[made[k]]),
             outbounds |-> RefMembers(pool, ocs[made[k]]),
             options |-> RefOptions(ocs[made[k]]),
             src |-> s, idx |-> made[k]]]

\* The output contract (spec 4.7): all nodes, then the local selectors of
\* each source over that source's nodes, in source order, then the global
\* selectors in declared order; a selector is emitted whenever it has a
\* member, addOutbounds included (spec 4.6).
ContractOutput(ids, srcs, globs, all, bySource) ==
    [k \in 1..Len(all) |->
        [kind |-> "node", tag |-> all[k].tag, default |-> <<>>, outbounds |-> <<>>,
         options |-> <<>>, src |-> 0, idx |-> 0]]
    \o FlattenSeq([s \in ids |-> RefSelectors("local", s, bySource[s], srcs[s].outbounds)])
    \o RefSelectors("global", 0, all, globs)

ContractCounts(out) ==
    [nodes  |-> Len(SelectSeq(out, LAMBDA f : f.kind = "node")),
     local  |-> Len(SelectSeq(out, LAMBDA f : f.kind = "local")),
     global |-> Len(SelectSeq(out, LAMBDA f : f.kind = "global"))]
==============================================================================
