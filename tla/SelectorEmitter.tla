-------------------------- MODULE SelectorEmitter --------------------------
(***************************************************************************)
(* Selector JSON Emitter: GenerateSelector of core/config/generator.go.   *)
(* An OutboundConfig is a record [tag, type, filters, add, pref, options, *)
(* comment]: filters is a filter value of FilterMatcher (the code's       *)
(* Filters field), add the addOutbounds list and pref the                 *)
(* preferredDefault object (a function from keys to JSON values).  The    *)
(* selector is returned as the record of what its JSON carries: tag,      *)
(* default (<<>> when the field is omitted), the outbounds list, the      *)
(* option keys in the order the JSON writes them, and its text as leaves  *)
(* of NodeEmitter.  An OutboundConfig's options is the sequence of its    *)
(* keys in the order the config lists them; an option's value is written  *)
(* by json.Marshal of a value json.Unmarshal produced, which never fails, *)
(* and is left out of the text.                                           *)
(***************************************************************************)
EXTENDS FilterMatcher, NodeEmitter

\* The loop that appends tags to outboundsList unless seenTags has them.
RECURSIVE AppendUnseen(_, _)
AppendUnseen(list, tags) ==
    IF tags = <<>> THEN list
    ELSE AppendUnseen(IF Contains(list, Head(tags)) THEN list
                      ELSE Append(list, Head(tags)),
                      Tail(tags))

TagsOf(ns) == [k \in 1..Len(ns) |-> ns[k].tag]

\* The tag of the first filtered node matching preferredDefault, or "".
\* The scan happens only when the preferredDefault object is non-empty.
RECURSIVE FirstMatchingTag(_, _)
FirstMatchingTag(ns, sf) ==
    IF ns = <<>> THEN <<>>
    ELSE IF MatchesFilter(Head(ns), sf) THEN Head(ns).tag
         ELSE FirstMatchingTag(Tail(ns), sf)

DefaultTag(filtered, pref) ==
    IF DOMAIN pref # {}
    THEN FirstMatchingTag(filtered, ConvertFilterToStringMap(pref))
    ELSE <<>>

\* The option written right after outbounds, whatever its position.
Interrupt == "interrupt_exist_connections"

\* The orders in which `range outboundConfig.Options` may visit the other
\* option keys: Go leaves map iteration order unspecified and varies it
\* from one range to the next.
MapOrders(oc) == SetToSeqs(ToSet(oc.options) \ {Interrupt})

\* The option keys as written: interrupt_exist_connections if present, then
\* the others in the iteration order iter.
OptionKeys(oc, iter) ==
    (IF Contains(oc.options, Interrupt) THEN <<Interrupt>> ELSE <<>>) \o iter

\* The text of a fragment that has none.
NoJSON == [comment |-> <<>>, fields |-> <<>>]

\* The empty string GenerateSelector returns for "no selector"; a produced
\* selector always has a member, so it never equals this record.
NoSelector == [tag |-> <<>>, default |-> <<>>, outbounds |-> <<>>, options |-> <<>>,
               json |-> NoJSON]

\* The text GenerateSelector builds: "\t// <comment>\n" when Comment is
\* set, then tag and type with %q, default with %q when found, outbounds
\* with json.Marshal, and each option key with %q in the order keys.
SelectorJSON(oc, default, members, keys) ==
    [comment |-> IF oc.comment # <<>> THEN <<"//">> \o oc.comment \o <<Newline>> ELSE <<>>,
     fields  |-> <<StrLeaf(<<"tag">>, oc.tag), StrLeaf(<<"type">>, oc.type)>>
                 \o If(default # <<>>, <<StrLeaf(<<"default">>, default)>>)
                 \o MarshalArray(<<"outbounds">>, members)
                 \o [k \in 1..Len(keys) |-> StrLeaf(<<keys[k]>>, <<keys[k]>>)]]

\* GenerateSelector(allNodes, outboundConfig): the selector, or NoSelector
\* when neither addOutbounds nor the filtered nodes give a member; iter is
\* the order in which this call's range visits the options map.
GenerateSelector(pool, oc, iter) ==
    LET filtered == FilterNodesForSelector(pool, oc.filters)
        members  == AppendUnseen(AppendUnseen(<<>>, oc.add), TagsOf(filtered))
        default  == DefaultTag(filtered, oc.pref)
    IN  IF members = <<>> THEN NoSelector
        ELSE [tag       |-> oc.tag,
              default   |-> default,
              outbounds |-> members,
              options   |-> OptionKeys(oc, iter),
              json      |-> SelectorJSON(oc, default, members, OptionKeys(oc, iter))]
=============================================================================
