--------------------------- MODULE FilterMatcher ---------------------------
(***************************************************************************)
(* Filter Matcher and Node Filter Engine of core/config/generator.go:     *)
(* matchesPattern, getNodeValue, matchesFilter, convertFilterToStringMap  *)
(* and filterNodesForSelector, as operators over token strings (Text).    *)
(*                                                                         *)
(* Regular expressions: the token alphabet has no metacharacter other     *)
(* than "(", and never ")", so a body compiles iff it has no "(" (an      *)
(* unbalanced group is Go's only compile error here) and it matches a     *)
(* value iff it occurs in it.  The alphabet has no upper case, so the     *)
(* (?i) flag changes nothing.                                              *)
(*                                                                         *)
(* A filter as the code receives it (an interface{} value) is a record:   *)
(*   [kind |-> "nil"]                  no filter                           *)
(*   [kind |-> "map", m |-> f]         one JSON object, f : keys -> values *)
(*   [kind |-> "array", elems |-> s]   a JSON array of such values         *)
(*   [kind |-> "other"]                anything else (array element only)  *)
(* A JSON value in a filter object is a token string or NonString.        *)
(***************************************************************************)
EXTENDS Text

CONSTANT NonString   \* a JSON number, boolean, object... in a filter object

Bang  == <<"!">>
Slash == <<"/">>
NegRe == <<"!", "/">>
ReEnd == <<"/", "i">>

\* regexp.Compile("(?i)" + body) succeeds.
RegexCompiles(body) == ~Contains(body, "(")

\* re.MatchString(value) for a body that compiles.
RegexMatches(body, value) == HasInfix(value, body)

\* The body between the leading marker and the trailing "/i".
RegexBody(pattern, marker) == TrimSuffix(TrimPrefix(pattern, marker), ReEnd)

\* matchesPattern(value, pattern): the four pattern forms, tested in the
\* order of the code; an invalid regex fails closed.
MatchesPattern(value, pattern) ==
    CASE HasPrefix(pattern, Bang) /\ ~HasPrefix(pattern, NegRe) ->
            value # TrimPrefix(pattern, Bang)
      [] HasPrefix(pattern, NegRe) /\ HasSuffix(pattern, ReEnd) ->
            LET body == RegexBody(pattern, NegRe)
            IN  RegexCompiles(body) /\ ~RegexMatches(body, value)
      [] HasPrefix(pattern, Slash) /\ HasSuffix(pattern, ReEnd) ->
            LET body == RegexBody(pattern, Slash)
            IN  RegexCompiles(body) /\ RegexMatches(body, value)
      [] OTHER -> value = pattern

\* getNodeValue: the node attribute a filter key reads; unknown key -> "".
GetNodeValue(node, key) ==
    CASE key = "tag"      -> node.tag
      [] key = "host"     -> node.server
      [] key = "label"    -> node.label
      [] key = "scheme"   -> node.scheme
      [] key = "fragment" -> node.label
      [] key = "comment"  -> node.comment
      [] OTHER            -> <<>>

\* convertFilterToStringMap: keep only the string-valued entries.
ConvertFilterToStringMap(f) ==
    LET keys == {k \in DOMAIN f : f[k] # NonString}
    IN  [k \in keys |-> f[k]]

\* matchesFilter: AND over the keys of a string map.
MatchesFilter(node, sf) ==
    \A k \in DOMAIN sf : MatchesPattern(GetNodeValue(node, k), sf[k])

IsObject(v) == v.kind = "map"

\* The inner loop of the array branch for one node: scan the filter
\* objects in order, skip non-objects, append the node at the first
\* object it matches and break.
RECURSIVE ArrayMatchesOfNode(_, _)
ArrayMatchesOfNode(n, elems) ==
    IF elems = <<>> THEN <<>>
    ELSE IF IsObject(Head(elems))
            /\ MatchesFilter(n, ConvertFilterToStringMap(Head(elems).m))
         THEN <<n>>
         ELSE ArrayMatchesOfNode(n, Tail(elems))

\* filterNodesForSelector(allNodes, filter).
FilterNodesForSelector(nodes, filter) ==
    CASE filter.kind = "nil" -> nodes
      [] filter.kind = "map" /\ DOMAIN filter.m = {} -> nodes
      [] filter.kind = "array" ->
            FlattenSeq([k \in 1..Len(nodes) |->
                            ArrayMatchesOfNode(nodes[k], filter.elems)])
      [] filter.kind = "map" ->
            SelectSeq(nodes, LAMBDA n :
                MatchesFilter(n, ConvertFilterToStringMap(filter.m)))
      [] OTHER -> <<>>
=============================================================================
