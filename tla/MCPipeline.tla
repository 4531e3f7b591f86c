----------------------------- MODULE MCPipeline -----------------------------
(***************************************************************************)
(* Constants for Pipeline.  The file may hold no block, or a config of     *)
(* version absent (0), current (4) or newer (5), with or without reload;  *)
(* the block may follow a doc comment and precede another comment.  The   *)
(* generator runs on the sources of the generation liveness check (no selectors).      *)
(***************************************************************************)
EXTENDS Pipeline, GenerationValues

\* The body of a config with a filter regex "/.*/i", which holds "*/".
MCBodyText == [b \in {"plain", "star"} |->
                 IF b = "plain" THEN <<"proxies", "outbounds">>
                 ELSE <<"proxies", "outbounds", "filters", "/.", Close, "i">>]

DocComment   == <<Open, Sp, "doc", Sp, Close, Nl>>
LaterComment == <<Nl, "/*", Sp, "note", Sp, Close>>

MCLeads == {<<>>, DocComment}
MCTails == {<<>>, LaterComment}
==============================================================================
