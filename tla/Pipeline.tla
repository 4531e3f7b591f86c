------------------------------ MODULE Pipeline ------------------------------
(***************************************************************************)
(* The configuration pipeline: ExtractParserConfig loads the @ParserConfig *)
(* block of config.json, and only a loaded configuration is handed to     *)
(* GenerateOutboundsFromParserConfig (spec 4.8 and 7: a missing block or  *)
(* an unsupported version stops the pipeline before generation begins).   *)
(* The generator is the Generation module; the sources it reads are drawn *)
(* from its own constants, the config fields the loader touches are this  *)
(* module's.  config.json is written by the launcher as the text of       *)
(* spec 6: other text, the delimited block, other text.                   *)
(***************************************************************************)
EXTENDS ConfigLoader

CONSTANTS
    NumSources, MaxNodes, MaxLines, MaxConns, DecodedNodes, NoNode,
    NonString, Templates, LocalConfigs, GlobalConfigs,
    Leads,          \* text before the block
    Tails           \* text after the block

VARIABLES
    file,           \* config.json: [readable, lead, cfg, tail]
    parserConfig,   \* what ExtractParserConfig returned
    phase,          \* "generate" or "stopped"
    sources, globals, pc, i, pos, tagCounts, nodes, allNodes,
    nodesBySource, out, counts, cands, preTags

genVars == <<sources, globals, pc, i, pos, tagCounts, nodes, allNodes,
             nodesBySource, out, counts, cands, preTags>>

vars == <<file, parserConfig, phase, genVars>>

G == INSTANCE Generation

\* The text of config.json (spec 6): the block opens with its marker and a
\* line break and holds the config's JSON text.
DocumentText(f) ==
    f.lead
    \o (IF f.cfg = NoConfig THEN <<>>
        ELSE <<Open, Sp, Marker, Nl>> \o ConfigText(f.cfg) \o <<Nl, Close>>)
    \o f.tail

Files == [readable : BOOLEAN, lead : Leads, cfg : Configs \cup {NoConfig}, tail : Tails]

\* The state right after ExtractParserConfig(configPath) returned: the
\* config it loaded, and generation started or stopped on its error.
Init ==
    /\ file \in Files
    /\ parserConfig = ExtractParserConfig(file.readable, DocumentText(file))
    /\ phase = IF parserConfig = NoConfig THEN "stopped" ELSE "generate"
    /\ G!Init

Generate ==
    /\ phase = "generate"
    /\ G!Next
    /\ UNCHANGED <<file, parserConfig, phase>>

Next == Generate

Spec == Init /\ [][Next]_vars

-----------------------------------------------------------------------------
LoadedConfigs ==
    [version : {ParserConfigVersion}, reload : (Reloads \ {""}) \cup {"4h"},
     last : Stamps, body : Bodies]

TypeOK ==
    /\ file \in Files
    /\ parserConfig \in LoadedConfigs \cup {NoConfig}
    /\ phase \in {"generate", "stopped"}

\* What a readable config.json written with a config of the current or an
\* older version loads as (spec 4.8): every field kept, the version made
\* current, the reload default filled in and last_updated untouched, since
\* loading is not an update.  A newer version, a missing block or an
\* unreadable file loads nothing.
WrittenConfig(f) ==
    IF ~f.readable \/ f.cfg = NoConfig \/ f.cfg.version > ParserConfigVersion
    THEN NoConfig
    ELSE [f.cfg EXCEPT !.version = ParserConfigVersion,
                       !.reload  = IF @ = "" THEN "4h" ELSE @]

\* ExtractParserConfig returns exactly the written config, whatever other
\* comments surround the block and whatever version dispatch applies.
LoadedAsWritten == parserConfig = WrittenConfig(file)
==============================================================================
