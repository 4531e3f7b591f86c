---------------------------- MODULE NodeEmitter ----------------------------
(***************************************************************************)
(* Node JSON emitter: GenerateNodeJSON of core/config/generator.go.       *)
(*                                                                         *)
(* A node is [tag, scheme, server, port, label, comment, uuid, flow, ob]: *)
(* ob is node.Outbound, a function from the keys ParseNode set to values  *)
(* of the type the code asserts (ParseNode is outside src/).  Strings are *)
(* token sequences as in Text, and four characters stand for the classes  *)
(* the encoders treat apart from a printable one.                         *)
(*                                                                         *)
(* The emitted object is kept as its sequence of leaves in text order: a  *)
(* leaf is [path, kind, val, lit] with lit the encoded text of val, or the *)
(* opening of a nested object or array.  The leading line comment is a    *)
(* token sequence.  Commas, colons and braces are layout.                 *)
(***************************************************************************)
EXTENDS Text

Quote   == "QUOTE"      \* the character "
Newline == "NL"         \* a line break, e.g. a %0A in a link's fragment
Ctrl    == "CTRL"       \* another control byte, 0x01 .. 0x1f or 0x7f
High    == "HIGH"       \* a byte that is not valid UTF-8, e.g. 0xff

\* U+FFFD, which json.Marshal writes for an invalid byte.
Replacement == "U+FFFD"

\* strconv.Quote (fmt %q) of one character, without the quotes: a control
\* byte or an invalid byte is written \xNN.
GoQuoteChar(c) ==
    CASE c = Quote   -> <<"esc-quote">>
      [] c = Newline -> <<"esc-n">>
      [] c \in {Ctrl, High} -> <<"esc-x">>
      [] OTHER -> <<c>>

\* json.Marshal of one character: a control byte is written \u00NN and an
\* invalid byte is coerced to U+FFFD.
MarshalChar(c) ==
    CASE c = Quote   -> <<"esc-quote">>
      [] c = Newline -> <<"esc-n">>
      [] c = Ctrl    -> <<"esc-u-ctrl">>
      [] c = High    -> <<"esc-u-fffd">>
      [] OTHER -> <<c>>

GoQuote(s) == FlattenSeq([k \in 1..Len(s) |-> GoQuoteChar(s[k])])

Marshal(s) == FlattenSeq([k \in 1..Len(s) |-> MarshalChar(s[k])])

\* Leaves of the emitted object.
StrLeaf(p, s)        == [path |-> p, kind |-> "str", val |-> s, lit |-> GoQuote(s)]
Marshalled(p, s) == [path |-> p, kind |-> "str", val |-> s, lit |-> Marshal(s)]
NumLeaf(p, v)        == [path |-> p, kind |-> "num", val |-> v, lit |-> Itoa(v)]
BoolLeaf(p, v)       == [path |-> p, kind |-> "bool", val |-> v, lit |-> <<v>>]
OpenLeaf(p, kind)    == [path |-> p, kind |-> kind, val |-> <<>>, lit |-> <<>>]

\* `v, ok := m[k].(T); ok`, and the `&& v != ""` / `len(v) > 0` variant.
Has(m, k)      == k \in DOMAIN m
NonEmpty(m, k) == Has(m, k) /\ m[k] # <<>>

If(c, leaves) == IF c THEN leaves ELSE <<>>

\* json.Marshal of a []string: the array, each element marshalled.
MarshalArray(p, a) ==
    <<OpenLeaf(p, "arr")>> \o [k \in 1..Len(a) |-> Marshalled(p \o <<k>>, a[k])]

\* A nested object written only when it has a part.
Nested(p, parts) == If(parts # <<>>, <<OpenLeaf(p, "obj")>> \o parts)

\* The orders in which `range headers` may visit the vmess headers map.
HeaderOrders(n) ==
    IF Has(n.ob, "transport") /\ Has(n.ob["transport"], "headers")
    THEN SetToSeqs(DOMAIN n.ob["transport"]["headers"])
    ELSE {<<>>}

\* vmess: security, alter_id, then the transport object, its headers in
\* the iteration order it.
VmessFields(ob, it) ==
    LET t == ob["transport"]
        h == t["headers"]
    IN  If(NonEmpty(ob, "security"), <<StrLeaf(<<"security">>, ob["security"])>>)
        \o If(Has(ob, "alter_id"), <<NumLeaf(<<"alter_id">>, ob["alter_id"])>>)
        \o If(Has(ob, "transport") /\ DOMAIN t # {},
              Nested(<<"transport">>,
                  If(Has(t, "type"), <<StrLeaf(<<"transport", "type">>, t["type"])>>)
                  \o If(Has(t, "path"), <<StrLeaf(<<"transport", "path">>, t["path"])>>)
                  \o If(Has(t, "headers") /\ DOMAIN h # {},
                        <<OpenLeaf(<<"transport", "headers">>, "obj")>>
                        \o [k \in 1..Len(it) |->
                              StrLeaf(<<"transport", "headers", it[k]>>, h[it[k]])])))

Hysteria2Fields(ob) ==
    LET o == ob["obfs"]
    IN  If(NonEmpty(ob, "password"), <<Marshalled(<<"password">>, ob["password"])>>)
        \o If(NonEmpty(ob, "server_ports"), MarshalArray(<<"server_ports">>, ob["server_ports"]))
        \o If(Has(ob, "up_mbps") /\ ob["up_mbps"] > 0, <<NumLeaf(<<"up_mbps">>, ob["up_mbps"])>>)
        \o If(Has(ob, "down_mbps") /\ ob["down_mbps"] > 0, <<NumLeaf(<<"down_mbps">>, ob["down_mbps"])>>)
        \o If(Has(ob, "obfs") /\ DOMAIN o # {},
              Nested(<<"obfs">>,
                  If(Has(o, "type"), <<StrLeaf(<<"obfs", "type">>, o["type"])>>)
                  \o If(NonEmpty(o, "password"), <<Marshalled(<<"obfs", "password">>, o["password"])>>)))

\* Mutant of ShadowsocksFields: the secrets are written with %q.
ShadowsocksFieldsQuoted(ob) ==
    If(NonEmpty(ob, "method"), <<StrLeaf(<<"method">>, ob["method"])>>)
    \o If(NonEmpty(ob, "password"), <<StrLeaf(<<"password">>, ob["password"])>>)

ShadowsocksFields(ob) ==
    If(NonEmpty(ob, "method"), <<Marshalled(<<"method">>, ob["method"])>>)
    \o If(NonEmpty(ob, "password"), <<Marshalled(<<"password">>, ob["password"])>>)

\* Step 5: the credential fields, by scheme.
Credential(n, it) ==
    CASE n.scheme \in {<<"vless">>, <<"vmess">>} ->
            <<StrLeaf(<<"uuid">>, n.uuid)>>
            \o If(n.scheme = <<"vmess">>, VmessFields(n.ob, it))
      [] n.scheme = <<"trojan">>    -> <<StrLeaf(<<"password">>, n.uuid)>>
      [] n.scheme = <<"hysteria2">> -> Hysteria2Fields(n.ob)
      [] n.scheme = <<"ss">>        -> ShadowsocksFields(n.ob)
      [] OTHER -> <<>>

\* An object of flags and strings (utls, reality) written even when empty.
Flags(p, m, boolKey, strKeys) ==
    <<OpenLeaf(p, "obj")>>
    \o If(Has(m, boolKey), <<BoolLeaf(p \o <<boolKey>>, m[boolKey])>>)
    \o FlattenSeq([k \in 1..Len(strKeys) |->
                     If(Has(m, strKeys[k]), <<StrLeaf(p \o <<strKeys[k]>>, m[strKeys[k]])>>)])

\* Step 7: the tls object, written whenever node.Outbound has one.
TLSFields(ob) ==
    LET t == ob["tls"]
    IN  If(Has(ob, "tls"),
           <<OpenLeaf(<<"tls">>, "obj")>>
           \o If(Has(t, "enabled"), <<BoolLeaf(<<"tls", "enabled">>, t["enabled"])>>)
           \o If(Has(t, "server_name"), <<StrLeaf(<<"tls", "server_name">>, t["server_name"])>>)
           \o If(NonEmpty(t, "alpn"), MarshalArray(<<"tls", "alpn">>, t["alpn"]))
           \o If(Has(t, "utls"), Flags(<<"tls", "utls">>, t["utls"], "enabled", <<"fingerprint">>))
           \o If(Has(t, "insecure") /\ t["insecure"], <<BoolLeaf(<<"tls", "insecure">>, TRUE)>>)
           \o If(Has(t, "reality"), Flags(<<"tls", "reality">>, t["reality"], "enabled",
                                          <<"public_key", "short_id">>)))

\* GenerateNodeJSON(node): "\t// <label>\n" and the object, its fields in
\* the code's order; it is the headers map's iteration order.
GenerateNodeJSON(n, it) ==
    [comment |-> <<"//">> \o n.label \o <<Newline>>,
     fields  |-> <<StrLeaf(<<"tag">>, n.tag),
                   StrLeaf(<<"type">>, IF n.scheme = <<"ss">> THEN <<"shadowsocks">> ELSE n.scheme),
                   StrLeaf(<<"server">>, n.server),
                   NumLeaf(<<"server_port">>, n.port)>>
                 \o Credential(n, it)
                 \o If(n.flow # <<>>, <<StrLeaf(<<"flow">>, n.flow)>>)
                 \o TLSFields(n.ob)]

-----------------------------------------------------------------------------
(* How the engine reads the text back (RFC 8259, with // line comments).  *)

\* A JSON string literal's body is valid when it holds no raw control
\* character and no escape JSON lacks: \" and \n and \uXXXX are escapes,
\* \x is not.  Its value replaces each escape by the character it stands for.
JSONEscapeValue ==
    [t \in {"esc-quote", "esc-n", "esc-u-ctrl", "esc-u-fffd"} |->
        CASE t = "esc-quote" -> Quote [] t = "esc-n" -> Newline
          [] t = "esc-u-ctrl" -> Ctrl [] OTHER -> Replacement]

JSONValid(lit) == \A k \in 1..Len(lit) : lit[k] \notin {"esc-x", Newline, Ctrl, High}

JSONString(lit) ==
    [k \in 1..Len(lit) |->
        IF lit[k] \in DOMAIN JSONEscapeValue THEN JSONEscapeValue[lit[k]] ELSE lit[k]]

\* What a reader skips as the comment of "//" text: up to the first line
\* break.
ReaderComment(text) ==
    LET nl == {k \in 2..Len(text) : text[k] = Newline}
    IN  IF nl = {} THEN SubSeq(text, 2, Len(text))
        ELSE SubSeq(text, 2, Min(nl) - 1)
=============================================================================
