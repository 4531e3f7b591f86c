----------------------------- MODULE Templater -----------------------------
(***************************************************************************)
(* The node tag templater of core/config/subscription/source_loader.go:   *)
(* applyTagPrefixPostfix and replaceTagVariables.  A template and every   *)
(* node attribute are token strings (Text); a placeholder such as "{$num}" *)
(* is one token, so a value that contains the text of a placeholder       *)
(* contains that token.                                                    *)
(***************************************************************************)
EXTENDS Text

\* replaceTagVariables(template, node, nodeNum): one strings.ReplaceAll per
\* placeholder, applied one after another to the running result.
ReplaceTagVariables(template, node, nodeNum) ==
    LET r1 == ReplaceToken(template, "{$tag}", node.tag)
        r2 == ReplaceToken(r1, "{$scheme}", node.scheme)
        r3 == ReplaceToken(r2, "{$protocol}", node.scheme)
        r4 == ReplaceToken(r3, "{$server}", node.server)
        r5 == ReplaceToken(r4, "{$port}", Itoa(node.port))
        r6 == ReplaceToken(r5, "{$label}", node.label)
        r7 == ReplaceToken(r6, "{$comment}", node.comment)
    IN  ReplaceToken(r7, "{$num}", Itoa(nodeNum))

\* applyTagPrefixPostfix(node, prefix, postfix, mask, nodeNum); tmpl is the
\* source's [prefix, postfix, mask].  A set mask replaces the whole tag.
ApplyTagPrefixPostfix(node, tmpl, nodeNum) ==
    IF tmpl.mask # <<>>
    THEN ReplaceTagVariables(tmpl.mask, node, nodeNum)
    ELSE LET pre  == IF tmpl.prefix # <<>>
                     THEN ReplaceTagVariables(tmpl.prefix, node, nodeNum)
                     ELSE <<>>
             post == IF tmpl.postfix # <<>>
                     THEN ReplaceTagVariables(tmpl.postfix, node, nodeNum)
                     ELSE <<>>
         IN  pre \o node.tag \o post
=============================================================================
