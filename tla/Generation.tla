---------------------------- MODULE Generation ----------------------------
(***************************************************************************)
(* One run of GenerateOutboundsFromParserConfig (core/config/generator.go) *)
(* with LoadNodesFromSource (core/config/subscription/source_loader.go) as *)
(* its loader: sources are loaded one after another into the shared tag   *)
(* registry, then node JSON, local selectors and global selectors are     *)
(* emitted.  One step is one iteration of a loop of the code.             *)
(*                                                                         *)
(* What the decoder (ParseNode) and the network (FetchSubscription) give  *)
(* is chosen when the loader reaches it: a candidate is a decoded node of *)
(* DecodedNodes or NoNode, which stands for every line or connection that *)
(* yields no node (blank, not a direct link, parse error, skipped by a    *)
(* skip rule); the code treats all of these alike apart from logging.     *)
(***************************************************************************)
EXTENDS SelectorEmitter, NodeEmitter, TagRegistry, Templater, OutputContract

CONSTANTS
    NumSources,      \* len(ParserConfig.Proxies)
    MaxNodes,        \* config.MaxNodesPerSubscription (500 in the code)
    MaxLines,        \* bound: non-empty lines of one fetched subscription
    MaxConns,        \* bound: entries of one source's connections list
    DecodedNodes,    \* ParsedNode values ParseNode may return
    NoNode,          \* a line or connection that yields no node
    Templates,       \* [prefix, postfix, mask] triples a source may carry
    LocalConfigs,    \* outbounds lists a source may carry
    GlobalConfigs    \* ParserConfig.Outbounds lists

ASSUME NumSources >= 1 /\ MaxNodes >= 1
ASSUME NoNode \notin DecodedNodes

Candidates == DecodedNodes \cup {NoNode}
SourceIds  == 1..NumSources

VARIABLES
    sources,        \* the proxies: [tmpl, outbounds] per source (read only)
    globals,        \* the global outbounds (read only)
    pc,             \* the stage of the run
    i,              \* the source (or loop index) being processed
    pos,            \* lines / connections of the current branch consumed
    tagCounts,      \* the shared tag registry
    nodes,          \* LoadNodesFromSource's nodes of the current source
    allNodes,       \* every loaded node, in load order
    nodesBySource,  \* source -> its loaded nodes (<<>> when it has none)
    out,            \* the OutboundsJSON list, as fragment records
    counts,         \* NodesCount, LocalSelectorsCount, GlobalSelectorsCount
    cands,          \* history: decoded candidates each source offered
    preTags         \* history: each loaded node's tag before MakeTagUnique

vars == <<sources, globals, pc, i, pos, tagCounts, nodes, allNodes,
          nodesBySource, out, counts, cands, preTags>>

Init ==
    /\ sources \in [SourceIds -> [tmpl : Templates, outbounds : LocalConfigs]]
    /\ globals \in GlobalConfigs
    /\ pc = "load"
    /\ i = 1
    /\ pos = 0
    /\ tagCounts = EmptyRegistry
    /\ nodes = <<>>
    /\ allNodes = <<>>
    /\ nodesBySource = [s \in SourceIds |-> <<>>]
    /\ out = <<>>
    /\ counts = [nodes |-> 0, local |-> 0, global |-> 0]
    /\ cands = [s \in SourceIds |-> <<>>]
    /\ preTags = [s \in SourceIds |-> <<>>]

-----------------------------------------------------------------------------
(* LoadNodesFromSource                                                     *)

\* Mutant of LoadCandidate: {$num} counts the nodes of the whole run.
LoadCandidateGlobalNum(prev, c) ==
    /\ cands' = [cands EXCEPT ![i] = IF c = NoNode THEN @ ELSE Append(@, c)]
    /\ IF c = NoNode \/ Len(prev) >= MaxNodes
       THEN /\ nodes' = prev
            /\ UNCHANGED <<tagCounts, preTags>>
       ELSE LET pre == ApplyTagPrefixPostfix(c, sources[i].tmpl,
                                             Len(allNodes) + Len(prev) + 1)
                u   == MakeTagUnique(pre, tagCounts)
            IN  /\ nodes' = Append(prev, [c EXCEPT !.tag = u.tag])
                /\ tagCounts' = u.counts
                /\ preTags' = [preTags EXCEPT ![i] = Append(@, pre)]

\* One candidate reaching the cap check: beyond the cap it is only counted
\* as skipped; a decoded node gets its template tag (numbered by its place
\* among this source's nodes), then MakeTagUnique, and is appended.  prev
\* is the source's node list before the step.
LoadCandidate(prev, c) ==
    /\ cands' = [cands EXCEPT ![i] = IF c = NoNode THEN @ ELSE Append(@, c)]
    /\ IF c = NoNode \/ Len(prev) >= MaxNodes
       THEN /\ nodes' = prev
            /\ UNCHANGED <<tagCounts, preTags>>
       ELSE LET pre == ApplyTagPrefixPostfix(c, sources[i].tmpl, Len(prev) + 1)
                u   == MakeTagUnique(pre, tagCounts)
            IN  /\ nodes' = Append(prev, [c EXCEPT !.tag = u.tag])
                /\ tagCounts' = u.counts
                /\ preTags' = [preTags EXCEPT ![i] = Append(@, pre)]

\* Source is a subscription URL: fetch it.  A fetch error and empty content
\* both leave the branch with no lines.
FetchSubscription ==
    /\ pc = "load"
    /\ \E fetched \in BOOLEAN :
          pc' = IF fetched THEN "lines" ELSE "conns"
    /\ nodes' = <<>>
    /\ pos' = 0
    /\ UNCHANGED <<sources, globals, i, tagCounts, allNodes, nodesBySource,
                   out, counts, cands, preTags>>

\* One non-empty line of the fetched subscription.
SubscriptionLine ==
    /\ pc = "lines"
    /\ pos < MaxLines
    /\ \E c \in Candidates : LoadCandidate(nodes, c)
    /\ pos' = pos + 1
    /\ UNCHANGED <<sources, globals, pc, i, allNodes, nodesBySource, out, counts>>

SubscriptionEnd ==
    /\ pc = "lines"
    /\ pc' = "conns"
    /\ pos' = 0
    /\ UNCHANGED <<sources, globals, i, tagCounts, nodes, allNodes,
                   nodesBySource, out, counts, cands, preTags>>

\* Source is a legacy direct link: decode it as the source's first node.
LegacyDirectLink ==
    /\ pc = "load"
    /\ \E c \in Candidates : LoadCandidate(<<>>, c)
    /\ pc' = "conns"
    /\ pos' = 0
    /\ UNCHANGED <<sources, globals, i, allNodes, nodesBySource, out, counts>>

\* Source is empty or neither a URL nor a direct link.
NoSourceField ==
    /\ pc = "load"
    /\ pc' = "conns"
    /\ nodes' = <<>>
    /\ pos' = 0
    /\ UNCHANGED <<sources, globals, i, tagCounts, allNodes, nodesBySource,
                   out, counts, cands, preTags>>

\* One entry of the connections list.
Connection ==
    /\ pc = "conns"
    /\ pos < MaxConns
    /\ \E c \in Candidates : LoadCandidate(nodes, c)
    /\ pos' = pos + 1
    /\ UNCHANGED <<sources, globals, pc, i, allNodes, nodesBySource, out, counts>>

\* LoadNodesFromSource returns; the orchestrator keeps a non-empty result
\* and moves to the next source, or ends loading and fails with no nodes.
SourceLoaded ==
    /\ pc = "conns"
    /\ LET all == allNodes \o nodes
       IN  /\ allNodes' = all
           /\ nodesBySource' = [nodesBySource EXCEPT ![i] = nodes]
           /\ IF i < NumSources
              THEN pc' = "load" /\ i' = i + 1
              ELSE /\ pc' = IF all = <<>> THEN "failed" ELSE "nodes"
                   /\ i' = i
    /\ pos' = 0
    /\ UNCHANGED <<sources, globals, tagCounts, nodes, out, counts, cands, preTags>>

-----------------------------------------------------------------------------
(* Emission                                                                *)

\* A node's fragment: its tag and the text GenerateNodeJSON wrote for it,
\* the headers map ranged over in the order it.
NodeFragment(n, it) ==
    [kind |-> "node", tag |-> n.tag, default |-> <<>>, outbounds |-> <<>>,
     options |-> <<>>, src |-> 0, idx |-> 0, json |-> GenerateNodeJSON(n, it)]

SelectorFragment(kind, s, j, sel) ==
    [kind |-> kind, tag |-> sel.tag, default |-> sel.default,
     outbounds |-> sel.outbounds, options |-> sel.options, src |-> s, idx |-> j,
     json |-> sel.json]

\* An iteration order of the options map for each config of a list.
IterationOrders(ocs) ==
    {it \in [1..Len(ocs) -> UNION {MapOrders(ocs[j]) : j \in 1..Len(ocs)}] :
        \A j \in 1..Len(ocs) : it[j] \in MapOrders(ocs[j])}

\* The selectors a list of outbound configs yields over a pool, in order,
\* with the options maps ranged over in the orders it; a config with no
\* member yields nothing.
Selectors(kind, s, pool, ocs, it) ==
    LET sel(j) == GenerateSelector(pool, ocs[j], it[j])
        made   == SelectSeq([j \in 1..Len(ocs) |-> j], LAMBDA j : sel(j) # NoSelector)
    IN  [k \in 1..Len(made) |-> SelectorFragment(kind, s, made[k], sel(made[k]))]

\* An iteration order of the headers map for each node of a list.
NodeOrders(ns) ==
    {it \in [1..Len(ns) -> UNION {HeaderOrders(ns[k]) : k \in 1..Len(ns)}] :
        \A k \in 1..Len(ns) : it[k] \in HeaderOrders(ns[k])}

\* Step 2: GenerateNodeJSON for every node.  json.Marshal of a string never
\* fails, so every node is emitted.
EmitNodes ==
    /\ pc = "nodes"
    /\ \E it \in NodeOrders(allNodes) :
          out' = out \o [k \in 1..Len(allNodes) |-> NodeFragment(allNodes[k], it[k])]
    /\ counts' = [counts EXCEPT !.nodes = Len(allNodes)]
    /\ pc' = "locals"
    /\ i' = 1
    /\ UNCHANGED <<sources, globals, pos, tagCounts, nodes, allNodes,
                   nodesBySource, cands, preTags>>

\* Mutant of EmitLocalSelectors: local selectors filter the whole node
\* pool.
EmitLocalSelectorsAllNodes ==
    /\ pc = "locals"
    /\ \E it \in IterationOrders(sources[i].outbounds) :
       LET made == IF sources[i].outbounds # <<>> /\ nodesBySource[i] # <<>>
                   THEN Selectors("local", i, allNodes, sources[i].outbounds, it)
                   ELSE <<>>
       IN  /\ out' = out \o made
           /\ counts' = [counts EXCEPT !.local = @ + Len(made)]
    /\ IF i < NumSources THEN pc' = "locals" /\ i' = i + 1
                         ELSE pc' = "globals" /\ i' = i
    /\ UNCHANGED <<sources, globals, pos, tagCounts, nodes, allNodes,
                   nodesBySource, cands, preTags>>

\* Step 3, one source: its local outbounds over its own nodes, skipped when
\* it declares none or loaded none.
EmitLocalSelectors ==
    /\ pc = "locals"
    /\ \E it \in IterationOrders(sources[i].outbounds) :
       LET made == IF sources[i].outbounds # <<>> /\ nodesBySource[i] # <<>>
                   THEN Selectors("local", i, nodesBySource[i], sources[i].outbounds, it)
                   ELSE <<>>
       IN  /\ out' = out \o made
           /\ counts' = [counts EXCEPT !.local = @ + Len(made)]
    /\ IF i < NumSources THEN pc' = "locals" /\ i' = i + 1
                         ELSE pc' = "globals" /\ i' = i
    /\ UNCHANGED <<sources, globals, pos, tagCounts, nodes, allNodes,
                   nodesBySource, cands, preTags>>

\* Step 4: every global outbound over all nodes; the run returns.
EmitGlobalSelectors ==
    /\ pc = "globals"
    /\ \E it \in IterationOrders(globals) :
       LET made == Selectors("global", 0, allNodes, globals, it)
       IN  /\ out' = out \o made
           /\ counts' = [counts EXCEPT !.global = Len(made)]
    /\ pc' = "done"
    /\ UNCHANGED <<sources, globals, i, pos, tagCounts, nodes, allNodes,
                   nodesBySource, cands, preTags>>

Next ==
    \/ FetchSubscription \/ SubscriptionLine \/ SubscriptionEnd
    \/ LegacyDirectLink \/ NoSourceField \/ Connection \/ SourceLoaded
    \/ EmitNodes \/ EmitLocalSelectors \/ EmitGlobalSelectors

\* The run is single-threaded; only its safety is checked, so no fairness
\* is assumed.
Spec == Init /\ [][Next]_vars

-----------------------------------------------------------------------------
(* Properties                                                              *)

Stages == {"load", "lines", "conns", "nodes", "locals", "globals", "done", "failed"}
Str    == Seq(STRING)

\* A decoded node whose tag the loader has rewritten.
IsParsedNode(n) == n.tag \in Str /\ \E d \in DecodedNodes : [d EXCEPT !.tag = n.tag] = n

TypeOK ==
    /\ pc \in Stages
    /\ i \in SourceIds
    /\ pos \in 0..(IF MaxLines > MaxConns THEN MaxLines ELSE MaxConns)
    /\ DOMAIN tagCounts \subseteq Str
    /\ \A t \in DOMAIN tagCounts : tagCounts[t] \in Nat \ {0}
    /\ \A n \in ToSet(allNodes) \cup ToSet(nodes) : IsParsedNode(n)
    /\ nodesBySource \in [SourceIds -> Seq(ToSet(allNodes))]
    /\ counts \in [nodes : Nat, local : Nat, global : Nat]
    /\ cands \in [SourceIds -> Seq(DecodedNodes)]

\* The nodes loaded so far, in load order, and their tags before dedup.
Loaded == allNodes \o (IF pc \in {"lines", "conns"} THEN nodes ELSE <<>>)
PreAll == FlattenSeq(preTags)

SourceFinished(s) == s < i \/ pc \notin {"load", "lines", "conns"}

\* MakeTagUnique over the whole run (spec 4.3): the k-th node whose
\* templated tag is t is named t, then t-2, t-3... in source-then-position
\* order, and the registry holds each tag's number of occurrences.
Occurrences(t, k) == Cardinality({m \in 1..(k - 1) : PreAll[m] = t})

DedupInLoadOrder ==
    /\ Len(PreAll) = Len(Loaded)
    /\ \A k \in 1..Len(Loaded) :
          LET t == PreAll[k]
              n == Occurrences(t, k)
          IN  Loaded[k].tag = IF n = 0 THEN t ELSE t \o <<"-">> \o Itoa(n + 1)
    /\ \A t \in DOMAIN tagCounts : tagCounts[t] = Occurrences(t, Len(PreAll) + 1)

\* LoadNodesFromSource (spec 4.4): a finished source holds exactly the first
\* MaxNodes nodes its subscription, legacy link and connections decoded,
\* counted across the branches; each kept its fields and got the tag its
\* template gives for its 1-based place in this source ({$num}).
FirstUpTo(s, n) == IF Len(s) <= n THEN s ELSE SubSeq(s, 1, n)

LoadedAsConfigured ==
    \A s \in SourceIds : SourceFinished(s) =>
        LET exp == FirstUpTo(cands[s], MaxNodes)
        IN  /\ Len(nodesBySource[s]) = Len(exp)
            /\ \A k \in 1..Len(exp) :
                  /\ preTags[s][k] = ApplyTagPrefixPostfix(exp[k], sources[s].tmpl, k)
                  /\ [nodesBySource[s][k] EXCEPT !.tag = exp[k].tag] = exp[k]

\* Spec 4.3: placeholders are substituted in one pass, with no recursive
\* expansion: each placeholder token of the template becomes its value and
\* the text of a substituted value is left as it is.
Placeholders(n, num) ==
    ("{$tag}" :> n.tag) @@ ("{$scheme}" :> n.scheme) @@ ("{$protocol}" :> n.scheme)
    @@ ("{$server}" :> n.server) @@ ("{$port}" :> Itoa(n.port))
    @@ ("{$label}" :> n.label) @@ ("{$comment}" :> n.comment) @@ ("{$num}" :> Itoa(num))

OnePass(t, n, num) ==
    LET v == Placeholders(n, num)
    IN  FlattenSeq([k \in 1..Len(t) |-> IF t[k] \in DOMAIN v THEN v[t[k]] ELSE <<t[k]>>])

RefTemplate(n, tmpl, num) ==
    IF tmpl.mask # <<>> THEN OnePass(tmpl.mask, n, num)
    ELSE OnePass(tmpl.prefix, n, num) \o n.tag \o OnePass(tmpl.postfix, n, num)

\* Every loaded node's template tag is the one-pass expansion of its
\* source's template (replaceTagVariables runs eight ReplaceAll calls in a
\* row, each over the output of the previous one).
TemplatesExpandOnce ==
    \A s \in SourceIds : \A k \in 1..Len(preTags[s]) :
        preTags[s][k] = RefTemplate(cands[s][k], sources[s].tmpl, k)

RefOutput == ContractOutput(SourceIds, sources, globals, allNodes, nodesBySource)

\* The fragment list without the node text, which the contract leaves to
\* NodeEmitter.
Skeleton(o) == [k \in 1..Len(o) |-> [x \in DOMAIN o[k] \ {"json"} |-> o[k][x]]]

KindCount(k) == Len(SelectSeq(out, LAMBDA f : f.kind = k))

\* A finished run returns exactly the contract's fragment list with its
\* three counters; the run fails, with nothing emitted, only when no
\* source decoded a single node.
RunResult ==
    /\ pc = "done" =>
          /\ Skeleton(out) = RefOutput
          /\ counts = [nodes |-> KindCount("node"), local |-> KindCount("local"),
                       global |-> KindCount("global")]
    /\ pc = "failed" => out = <<>> /\ \A s \in SourceIds : cands[s] = <<>>

\* Spec 4.6 and 4.7: every local outbound of a source is emitted against
\* that source's nodes whenever its member list (addOutbounds included)
\* is non-empty.
LocalSelectorsWithMembersEmitted ==
    pc = "done" =>
        \A s \in SourceIds : \A j \in 1..Len(sources[s].outbounds) :
            RefMembers(nodesBySource[s], sources[s].outbounds[j]) # <<>> =>
                \E k \in 1..Len(out) : out[k].kind = "local" /\ out[k].src = s /\ out[k].idx = j

\* The config a selector fragment was made from.
ConfigOf(f) == IF f.kind = "local" THEN sources[f.src].outbounds[f.idx] ELSE globals[f.idx]

CommentOf(k) == IF out[k].kind = "node" THEN allNodes[k].label ELSE ConfigOf(out[k]).comment

TextRoundTrips ==
    pc = "done" =>
        \A k \in 1..Len(out) :
            LET j == out[k].json
            IN  /\ j.comment # <<>> => ReaderComment(j.comment) = CommentOf(k)
                /\ \A f \in ToSet(j.fields) : f.kind = "str" => JSONValid(f.lit) /\ JSONString(f.lit) = f.val

\* Refinement: one source's loop steps are stutters of the abstract
\* LoadSource, which happens at SourceLoaded; the emission stages are
\* stutters of the abstract Emit, which happens when the run returns.
Abs == INSTANCE GenerationAbstract WITH
           stage  <- IF pc \in {"done", "failed"} THEN pc ELSE "loading",
           loaded <- IF pc \in {"load", "lines", "conns"} THEN i - 1 ELSE NumSources,
           out    <- IF pc = "done" THEN Skeleton(out) ELSE <<>>,
           counts <- IF pc = "done" THEN counts
                     ELSE [nodes |-> 0, local |-> 0, global |-> 0]

\* The loader and orchestrator implement the one-step-per-source
\* specification: sources in order, at most MaxNodes decoded nodes each
\* with tags new to the run (spec 3: a tag is unique across one run after
\* dedup), failure right after loading when nothing was decoded, and the
\* contract's output, no two outbounds sharing a tag, when the run returns.
\* MakeTagUnique's rename to tag-k never looks whether tag-k is taken, and
\* selector tags never enter the registry.
ImplementsAbstract == Abs!SafetySpec
=============================================================================
