---------------------------- MODULE MCRuleDialog ----------------------------
(* Constants for checking RuleDialog: two custom rules loaded with the     *)
(* wizard, one carrying both ip_cidr and domain and an outbound no longer  *)
(* offered, one whose domain list holds a non-string element.  "sp" is a  *)
(* whitespace-only string.                                                 *)
EXTENDS RuleDialog

MCStrings == {"", "sp", "r", "a", "b"}

MCTrim == [x \in MCStrings |-> IF x = "sp" THEN "" ELSE x]

MCTexts == {<<>>, <<"sp">>, <<"a">>, <<"sp", "b">>}

MCAvailChoices == {<<>>, <<"o1", "direct-out">>}

RuleBoth == [label |-> "r", match |-> ("ip_cidr" :> <<"a">>) @@ ("domain" :> <<"b">>),
             out |-> "o9", enabled |-> TRUE]

RuleMixed == [label |-> "r", match |-> ("domain" :> <<"a", NonString>>),
              out |-> "direct-out", enabled |-> FALSE]

MCInitRules == {<<RuleBoth, RuleMixed>>}
==============================================================================
