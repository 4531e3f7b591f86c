--------------------------- MODULE MCClashAPITab ---------------------------
(* Three groups of sing-box, two of them in the config; proxies overlap    *)
(* between groups so that a name survives a group change.                 *)
EXTENDS ClashAPITab

MCGroups == {"g1", "g2", "g3"}
MCMembers == [g \in MCGroups |->
                 CASE g = "g1" -> <<"x", "y">>
                   [] g = "g2" -> <<"y", "z">>
                   [] g = "g3" -> <<"z">>]
MCConfigGroups == <<"g1", "g2">>
MCNameRank == [n \in {"x", "y", "z"} |->
                 CASE n = "x" -> 1 [] n = "y" -> 2 [] n = "z" -> 3]
MCDelayOf == [n \in {"x", "y", "z"} |->
                 CASE n = "x" -> 30 [] n = "y" -> 10 [] n = "z" -> 20]
====
