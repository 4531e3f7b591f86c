-------------------------- MODULE GenerationValues --------------------------
(***************************************************************************)
(* Values for instantiating Generation: decoded nodes (two sharing the    *)
(* tag "a", so dedup happens within and across sources), templates with   *)
(* and without {$num}, filters and selector configs.  Strings are token   *)
(* sequences as in Text.                                                   *)
(***************************************************************************)
EXTENDS Sequences

\* Character classes of NodeEmitter (repeated here for the values).
QuoteChar == "QUOTE"
NewlineChar == "NL"
CtrlChar == "CTRL"
HighChar == "HIGH"

\* node.Outbound of a vless REALITY node.
RealityTLS == [tls |-> [enabled |-> TRUE, server_name |-> <<"h">>,
                        utls |-> [enabled |-> TRUE, fingerprint |-> <<"chrome">>],
                        reality |-> [enabled |-> TRUE, public_key |-> <<"k">>,
                                     short_id |-> <<"s">>]]]

NodeA == [tag |-> <<"a">>, scheme |-> <<"vless">>, server |-> <<"h">>,
          port |-> 443, label |-> <<"a">>, comment |-> <<>>,
          uuid |-> <<"u">>, flow |-> <<"xtls-rprx-vision">>, ob |-> RealityTLS]
\* A shadowsocks node whose password holds a control byte and a quote.
NodeB == [tag |-> <<"a">>, scheme |-> <<"ss">>, server |-> <<"h">>,
          port |-> 8388, label |-> <<"b">>, comment |-> <<>>,
          uuid |-> <<>>, flow |-> <<>>,
          ob |-> [method |-> <<"aes">>, password |-> <<"p", CtrlChar, QuoteChar>>]]
\* A decoded node whose own tag looks like a renamed duplicate.
NodeDash == [tag |-> <<"a", "-", "2">>, scheme |-> <<"trojan">>, server |-> <<"h">>,
             port |-> 443, label |-> <<"c">>, comment |-> <<>>,
             uuid |-> <<"p">>, flow |-> <<>>, ob |-> <<>>]

\* A node whose label holds the text of a placeholder.
NodeCurly == [tag |-> <<"b">>, scheme |-> <<"ss">>, server |-> <<"h">>,
              port |-> 8388, label |-> <<"n", "{$num}">>, comment |-> <<>>,
              uuid |-> <<>>, flow |-> <<>>, ob |-> [method |-> <<"aes">>]]

\* Nodes whose secrets or label hold bytes a JSON text must escape: a
\* trojan password with a control byte, a shadowsocks password with a byte
\* of invalid UTF-8, and a label with a line break.
NodeTrojanCtrl == [NodeDash EXCEPT !.tag = <<"t">>, !.uuid = <<"p", CtrlChar>>]
NodeSsHigh == [NodeB EXCEPT !.tag = <<"s">>,
                            !.ob = [method |-> <<"aes">>, password |-> <<"p", HighChar>>]]
NodeLabelNl == [NodeA EXCEPT !.tag = <<"l">>, !.label = <<"x", NewlineChar, "y">>]

\* A vmess websocket node with two headers, and a hysteria2 node.
NodeVmess == [tag |-> <<"v">>, scheme |-> <<"vmess">>, server |-> <<"h">>,
              port |-> 443, label |-> <<"v">>, comment |-> <<>>,
              uuid |-> <<"u">>, flow |-> <<>>,
              ob |-> [security |-> <<"auto">>, alter_id |-> 0,
                      transport |-> [type |-> <<"ws">>, path |-> <<"/">>,
                                     headers |-> [Host |-> <<"h">>, Origin |-> <<"o">>]]]]
NodeHy2 == [tag |-> <<"y">>, scheme |-> <<"hysteria2">>, server |-> <<"h">>,
            port |-> 443, label |-> <<"y">>, comment |-> <<>>,
            uuid |-> <<>>, flow |-> <<>>,
            ob |-> [password |-> <<"p">>, server_ports |-> << <<"1:2">> >>,
                    up_mbps |-> 10, down_mbps |-> 0,
                    obfs |-> [type |-> <<"salamander">>, password |-> <<"o">>],
                    tls |-> [enabled |-> TRUE, alpn |-> << <<"h3">> >>, insecure |-> TRUE]]]

MCDecodedNodes     == {NodeA, NodeB}
MCDecodedNodesDash == {NodeA, NodeB, NodeDash}

PlainTag == [prefix |-> <<>>, postfix |-> <<>>, mask |-> <<>>]
NumMask  == [prefix |-> <<>>, postfix |-> <<>>, mask |-> <<"{$num}">>]
MCTemplates == {PlainTag, NumMask}
LabelMask == [prefix |-> <<>>, postfix |-> <<>>, mask |-> <<"{$label}">>]
MCDecodedNodesCurly == {NodeA, NodeCurly}
MCDecodedNodesText  == {NodeTrojanCtrl, NodeSsHigh, NodeLabelNl}
MCDecodedNodesMaps  == {NodeVmess, NodeHy2}
MCLabelTemplates    == {LabelMask}

AllNodes == [kind |-> "map", m |-> <<>>]
SsOnly   == [kind |-> "map", m |-> [scheme |-> <<"ss">>]]
Renamed  == [kind |-> "map", m |-> [tag |-> <<"/", "-", "/", "i">>]]

LocalSs == [tag |-> <<"local">>, type |-> <<"selector">>,
            filters |-> SsOnly, add |-> <<>>, pref |-> <<>>, options |-> <<>>, comment |-> <<>>]
Auto    == [tag |-> <<"auto">>, type |-> <<"urltest">>, filters |-> AllNodes,
            add |-> << <<"d">>, <<"a">> >>, pref |-> [scheme |-> <<"ss">>],
            options |-> <<"url", "interrupt_exist_connections">>, comment |-> <<>>]
\* A global selector whose tag is also a decoded node's tag.
Clash   == [tag |-> <<"a">>, type |-> <<"selector">>,
            filters |-> SsOnly, add |-> <<>>, pref |-> <<>>, options |-> <<>>, comment |-> <<>>]
\* A local selector made of addOutbounds alone.
AddOnly == [tag |-> <<"direct">>, type |-> <<"selector">>,
            filters |-> Renamed, add |-> << <<"d">> >>, pref |-> <<>>, options |-> <<>>,
            comment |-> <<>>]

MCLocalConfigs  == {<<>>, <<LocalSs>>}
MCGlobalClash   == {<<Clash>>}
\* A urltest selector with two options besides the interrupt flag.
Tuned   == [tag |-> <<"tuned">>, type |-> <<"urltest">>, filters |-> AllNodes,
            add |-> <<>>, pref |-> <<>>,
            options |-> <<"interrupt_exist_connections", "url", "interval">>, comment |-> <<>>]
MCGlobalOptions == {<<Tuned>>}
MCLocalAddOnly  == {<<AddOnly>>}
\* A selector whose comment holds a line break.
Commented == [Auto EXCEPT !.tag = <<"c">>, !.comment = <<"x", NewlineChar, "y">>]
MCGlobalCommented == {<<Commented>>}
\* No selectors: the emission loops run over empty lists.
MCNoSelectors   == {<<>>}
==============================================================================
