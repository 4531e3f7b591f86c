---------------------------- MODULE ConfigLoader ----------------------------
(***************************************************************************)
(* Loading the @ParserConfig block of config.json (parser/factory.go       *)
(* ExtractParserConfig, parser/block_extractor.go, models.go               *)
(* NormalizeParserConfig).  A document is a sequence of tokens: the       *)
(* markers "/**", "@ParserConfig" and "*/", white space "sp" and "nl", and *)
(* JSON text.  "*/" is also the token of that character pair inside a     *)
(* JSON string, e.g. a filter regex "/.*/i".                              *)
(*                                                                         *)
(* A ParserConfig is abstracted to [version, reload, last, body]: the     *)
(* parser fields the loader touches and the rest of the JSON (proxies and *)
(* outbounds) as one value whose text is BodyText.  json.Unmarshal is the *)
(* inverse of the text a config is written as.  ExtractVersion and the    *)
(* ConfigMigrator are not under src/: they follow spec 4.8.               *)
(***************************************************************************)
EXTENDS Integers, Sequences, FiniteSetsExt, TLC

CONSTANTS
    Versions,       \* version numbers a document may carry; 0 = absent
    Reloads,        \* reload interval strings, "" = absent
    Stamps,         \* last_updated strings, "" = absent
    Bodies,         \* the proxies and outbounds of a config, abstracted
    BodyText,       \* Bodies -> the token sequence they are written as
    Now,            \* time.Now().UTC().Format(time.RFC3339)
    NoConfig        \* a nil *ParserConfig (an error was returned)

\* config.ParserConfigVersion
ParserConfigVersion == 4

Open == "/**"

Close == "*/"

Marker == "@ParserConfig"

Sp == "sp"

Nl == "nl"

Configs == [version : Versions, reload : Reloads, last : Stamps, body : Bodies]

\* The JSON text of a ParserConfig: the struct's fields in declaration
\* order, omitempty fields left out when empty.
ConfigText(c) ==
    <<"{">>
    \o (IF c.version = 0 THEN <<>> ELSE <<"version", ToString(c.version)>>)
    \o BodyText[c.body]
    \o <<"parser">>
    \o (IF c.reload = "" THEN <<>> ELSE <<"reload", c.reload>>)
    \o (IF c.last = "" THEN <<>> ELSE <<"last_updated", c.last>>)
    \o <<"}">>

\* json.Unmarshal into a ParserConfig: the config written as this text.
ParseJSON(text) ==
    IF \E c \in Configs : ConfigText(c) = text
    THEN CHOOSE c \in Configs : ConfigText(c) = text
    ELSE NoConfig

IsSpace(t) == t \in {Sp, Nl}

\* The first position from k on that is not white space (\s*), or past the end.
SkipSpace(d, k) ==
    LET r == {j \in k..Len(d) : ~IsSpace(d[j])}
    IN  IF r = {} THEN Len(d) + 1 ELSE Min(r)

\* Where the capture group starts when the pattern is tried at position i,
\* 0 when `/\*\*\s*@ParserConfig\s*\n` does not match there: the greedy
\* \s* gives back white space up to the last line break of the run.
BodyStart(d, i) ==
    LET m   == SkipSpace(d, i + 1)
        r   == SkipSpace(d, m + 1)
        nls == {j \in (m + 1)..(r - 1) : d[j] = Nl}
    IN  IF d[i] = Open /\ m <= Len(d) /\ d[m] = Marker /\ nls # {}
        THEN Max(nls) + 1 ELSE 0

\* (mutant) a greedy ([\s\S]*) group, ending at the last "*/".
BodyEndGreedy(d, s) ==
    LET cl == {j \in s..Len(d) : d[j] = Close}
    IN  IF cl = {} THEN 0 ELSE Max(cl)

\* The lazy ([\s\S]*?)\*/ ends at the first "*/" from s on, 0 if none.
BodyEnd(d, s) ==
    LET cl == {j \in s..Len(d) : d[j] = Close}
    IN  IF cl = {} THEN 0 ELSE Min(cl)

\* strings.TrimSpace over tokens.
TrimSpace(t) ==
    LET ne == {j \in 1..Len(t) : ~IsSpace(t[j])}
    IN  IF ne = {} THEN <<>> ELSE SubSeq(t, Min(ne), Max(ne))

\* ExtractParserConfigBlock: the leftmost match's group, trimmed, or
\* NoConfig for "block not found".
ExtractParserConfigBlock(d) ==
    LET at == {i \in 1..Len(d) : BodyStart(d, i) > 0 /\ BodyEnd(d, BodyStart(d, i)) > 0}
    IN  IF at = {} THEN NoConfig
        ELSE LET s == BodyStart(d, Min(at))
             IN  TrimSpace(SubSeq(d, s, BodyEnd(d, s) - 1))

\* ExtractVersion (spec 4.8): the version field, 0 when undetectable.
ExtractVersion(json) ==
    IF ParseJSON(json) = NoConfig THEN 0 ELSE ParseJSON(json).version

\* ConfigMigrator.MigrateRaw (spec 4.8): an older or undetectable version
\* becomes the current one with every field kept; a newer one, or text
\* that is not a config, is an error.
MigrateRaw(json, from, to) ==
    IF from > to \/ ParseJSON(json) = NoConfig THEN NoConfig
    ELSE [ParseJSON(json) EXCEPT !.version = to]

\* (mutant) any version at or above the current one is parsed directly.
ParsedOrMigratedAtLeast(json, v) ==
    IF v >= ParserConfigVersion THEN ParseJSON(json)
    ELSE MigrateRaw(json, v, ParserConfigVersion)

\* The version dispatch of ExtractParserConfig.
ParsedOrMigrated(json, v) ==
    IF v = ParserConfigVersion THEN ParseJSON(json)
    ELSE MigrateRaw(json, v, ParserConfigVersion)

\* (mutant) the default reload interval is not filled in.
NormalizeParserConfigNoReload(c, updateLastUpdated) ==
    IF c = NoConfig THEN c
    ELSE [c EXCEPT !.version = ParserConfigVersion,
                   !.last    = IF updateLastUpdated THEN Now ELSE @]

\* NormalizeParserConfig(parserConfig, updateLastUpdated).
NormalizeParserConfig(c, updateLastUpdated) ==
    IF c = NoConfig THEN c
    ELSE [c EXCEPT !.version = ParserConfigVersion,
                   !.reload  = IF @ = "" THEN "4h" ELSE @,
                   !.last    = IF updateLastUpdated THEN Now ELSE @]

\* ExtractParserConfig: read, extract, dispatch on the version, normalise
\* without touching last_updated.  readable = FALSE is a failed ReadFile.
ExtractParserConfig(readable, d) ==
    IF ~readable THEN NoConfig
    ELSE LET json == ExtractParserConfigBlock(d)
         IN  IF json = NoConfig THEN NoConfig
             ELSE NormalizeParserConfig(ParsedOrMigrated(json, ExtractVersion(json)), FALSE)
==============================================================================
