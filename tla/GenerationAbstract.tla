------------------------- MODULE GenerationAbstract -------------------------
(***************************************************************************)
(* What GenerateOutboundsFromParserConfig promises (spec 4.4, 4.7, 5),    *)
(* with each source loaded in one step and the output emitted in one:     *)
(* sources are loaded strictly in order, each adds at most MaxNodes       *)
(* decoded nodes whose tags are new to the run, the run fails right after *)
(* loading when no source gave a node, and otherwise returns the output   *)
(* contract with its counters, in which no two outbounds share a tag      *)
(* (glossary "Tag": the unique identifier of a node or a selector).       *)
(***************************************************************************)
EXTENDS OutputContract

CONSTANTS NumSources, MaxNodes, DecodedNodes, Templates, LocalConfigs, GlobalConfigs

SourceIds == 1..NumSources

VARIABLES sources, globals, stage, loaded, allNodes, nodesBySource, out, counts

vars == <<sources, globals, stage, loaded, allNodes, nodesBySource, out, counts>>

NoCounts == [nodes |-> 0, local |-> 0, global |-> 0]

Init ==
    /\ sources \in [SourceIds -> [tmpl : Templates, outbounds : LocalConfigs]]
    /\ globals \in GlobalConfigs
    /\ stage = "loading"
    /\ loaded = 0
    /\ allNodes = <<>>
    /\ nodesBySource = [s \in SourceIds |-> <<>>]
    /\ out = <<>>
    /\ counts = NoCounts

Tags(ns) == {ns[k].tag : k \in DOMAIN ns}

\* A node as the decoder gave it, under a tag of the loader's choosing.
Decoded(n) == \E d \in DecodedNodes : [d EXCEPT !.tag = n.tag] = n

\* The next source is loaded at once: its nodes are stated of the next
\* state (the loader decides them), and must be decoded, at most MaxNodes,
\* and carry pairwise distinct tags that no earlier node has.
LoadSource ==
    /\ stage = "loading"
    /\ loaded < NumSources
    /\ LET s  == loaded + 1
           ns == nodesBySource'[s]
       IN  /\ nodesBySource' = [nodesBySource EXCEPT ![s] = ns]
           /\ Len(ns) <= MaxNodes
           /\ \A k \in 1..Len(ns) : Decoded(ns[k])
           /\ Cardinality(Tags(ns)) = Len(ns)
           /\ Tags(ns) \cap Tags(allNodes) = {}
           /\ allNodes' = allNodes \o ns
           /\ loaded' = s
           /\ stage' = IF s = NumSources /\ allNodes' = <<>> THEN "failed" ELSE "loading"
    /\ UNCHANGED <<sources, globals, out, counts>>

\* All sources loaded with some node: the contract's output and counters,
\* every tag in it naming one outbound.
Emit ==
    /\ stage = "loading"
    /\ loaded = NumSources
    /\ out' = ContractOutput(SourceIds, sources, globals, allNodes, nodesBySource)
    /\ \A a, b \in 1..Len(out') : a # b => out'[a].tag # out'[b].tag
    /\ counts' = ContractCounts(out')
    /\ stage' = "done"
    /\ UNCHANGED <<sources, globals, loaded, allNodes, nodesBySource>>

Next == LoadSource \/ Emit

SafetySpec == Init /\ [][Next]_vars
==============================================================================
