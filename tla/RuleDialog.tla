----------------------------- MODULE RuleDialog -----------------------------
(***************************************************************************)
(* The wizard's add/edit rule dialog (ui/config_wizard_rule_dialog.go).   *)
(* Every call of showAddRuleDialog builds a new window; state.            *)
(* openRuleDialogs maps a dialog key (-1 for "Add", the rule's index for  *)
(* "Edit") to the window open for it, and a second dialog for the same    *)
(* key closes the first.  Each window keeps its own entries and its own   *)
(* captured editRule / dialogKey until it is saved, cancelled or closed.  *)
(* Everything runs on the fyne UI thread, so windows interleave only at   *)
(* the granularity of whole event handlers.                                *)
(*                                                                         *)
(* Text is abstracted to what the dialog tells apart: a string is a model *)
(* value whose strings.TrimSpace is given by Trim, and a multi-line entry *)
(* is the sequence of its lines.  A rule's Raw map is its match keys      *)
(* (ip_cidr, domain or any other) plus its outbound.                      *)
(***************************************************************************)
EXTENDS Integers, Sequences, SequencesExt, FiniteSets, TLC

CONSTANTS
    Strings,            \* label and line values, "" included
    Trim,               \* Strings -> Strings: strings.TrimSpace
    NonString,          \* a JSON array element that is not a string
    NonArray,           \* a JSON match value that is not an array
    MatchKeys,          \* keys a rule's Raw may carry besides "outbound"
    InitRules,          \* the possible CustomRules when the wizard opens
    AvailChoices,       \* what getAvailableOutbounds may return
    DefaultOutboundTag, \* "direct-out"
    RejectActionName,   \* "reject"
    Texts,              \* what the user may leave in a multi-line entry
    MaxWindows,         \* bound: dialogs opened in one behaviour
    MaxEdits            \* bound: user edits of dialog fields

ruleTypeIP     == "IP Addresses (CIDR)"
ruleTypeDomain == "Domains/URLs"
AddKey         == -1

VARIABLES
    hasWindow,          \* state.Window # nil
    customRules,        \* state.CustomRules: <<[label, match, out, enabled]>>
    openRuleDialogs,    \* dialog key -> index in wins of its window
    wins,               \* every window built so far, open or closed
    previewNeedsUpdate, \* state.templatePreviewNeedsUpdate
    edits               \* user edits so far (bound)

vars == <<hasWindow, customRules, openRuleDialogs, wins, previewNeedsUpdate, edits>>

\* extractStringArray: the string elements of an array, nothing otherwise.
extractStringArray(v) ==
    IF v = NonArray THEN <<>> ELSE SelectSeq(v, LAMBDA x : x # NonString)

\* parseLines(strings.TrimSpace(text), false): the trimmed non-blank lines.
parseLines(text) ==
    LET kept == SelectSeq(text, LAMBDA l : Trim[l] # "")
    IN  [k \in 1..Len(kept) |-> Trim[kept[k]]]

NonBlank(text) == parseLines(text) # <<>>

\* (mutant) the rule's outbound is selected whether or not it is offered.
initialOutboundAny(r, avail) == IF r.out # "" THEN r.out ELSE avail[1]

\* The outbound select starts at avail[1], or at the edited rule's outbound
\* while it is still offered.
initialOutbound(r, avail) ==
    IF r.out # "" /\ r.out \in ToSet(avail) THEN r.out ELSE avail[1]

\* The entries of a new dialog: empty for "Add", the rule's label, its
\* outbound if still offered and its ip_cidr, else domain, list for "Edit".
LoadedEntries(r, avail) ==
    [label |-> r.label,
     out   |-> initialOutbound(r, avail),
     type  |-> IF "ip_cidr" \in DOMAIN r.match THEN ruleTypeIP ELSE ruleTypeDomain,
     ip    |-> IF "ip_cidr" \in DOMAIN r.match
               THEN extractStringArray(r.match["ip_cidr"]) ELSE <<>>,
     url   |-> IF "ip_cidr" \notin DOMAIN r.match /\ "domain" \in DOMAIN r.match
               THEN extractStringArray(r.match["domain"]) ELSE <<>>]

Init ==
    /\ hasWindow \in BOOLEAN
    /\ customRules \in InitRules
    /\ openRuleDialogs = <<>>
    /\ wins = <<>>
    /\ previewNeedsUpdate = FALSE
    /\ edits = 0

\* (mutant) the lookup of an already open dialog is left out.
existingDialogIgnored(key) == {}

\* The window already registered under a dialog key, if any.
existingDialog(key) ==
    IF key \in DOMAIN openRuleDialogs THEN {openRuleDialogs[key]} ELSE {}

\* showAddRuleDialog(state, editRule, ruleIndex); edit = 0 is "Add".  The
\* window already open for the key is closed and forgotten, the new one
\* registered under it.
showAddRuleDialog(edit) ==
    /\ hasWindow
    /\ Len(wins) < MaxWindows
    /\ \E av \in AvailChoices :
        LET key   == IF edit = 0 THEN AddKey ELSE edit
            avail == IF av = <<>> THEN <<DefaultOutboundTag, RejectActionName>> ELSE av
            e     == IF edit = 0
                     THEN [label |-> "", out |-> avail[1], type |-> ruleTypeDomain,
                           ip |-> <<>>, url |-> <<>>]
                     ELSE LoadedEntries(customRules[edit], avail)
            old   == existingDialog(key)
        IN  /\ wins' = [w \in DOMAIN wins |->
                           IF w \in old THEN [wins[w] EXCEPT !.open = FALSE] ELSE wins[w]]
                       \o <<e @@ [open |-> TRUE, key |-> key, edit |-> edit,
                                  avail |-> avail, touched |-> FALSE]>>
            /\ openRuleDialogs' = (key :> Len(wins') @@ openRuleDialogs)
    /\ UNCHANGED <<hasWindow, customRules, previewNeedsUpdate, edits>>

\* A field change by the user in an open window (OnChanged of an entry, the
\* radio group, the outbound select); touched is a history variable.
Change(w, field, v) ==
    /\ wins[w].open
    /\ wins[w][field] # v
    /\ edits < MaxEdits
    /\ edits' = edits + 1
    /\ wins' = [wins EXCEPT ![w][field] = v, ![w].touched = TRUE]
    /\ UNCHANGED <<hasWindow, customRules, openRuleDialogs, previewNeedsUpdate>>

EditLabel(w) == \E l \in Strings : Change(w, "label", l)
EditIP(w)    == \E t \in Texts : Change(w, "ip", t)
EditURL(w)   == \E t \in Texts : Change(w, "url", t)
SelectOutbound(w) == \E o \in ToSet(wins[w].avail) : Change(w, "out", o)

\* A tap on a radio option: a RadioGroup that is not Required clears its
\* selection when the selected option is tapped again.
TapRuleType(w) ==
    \E t \in {ruleTypeIP, ruleTypeDomain} :
        Change(w, "type", IF wins[w].type = t THEN "" ELSE t)

\* (mutant) the button is enabled when either entry has text, whatever
\* the selected rule type.
validateFieldsAnyEntry(w) ==
    /\ Trim[wins[w].label] # ""
    /\ NonBlank(wins[w].ip) \/ NonBlank(wins[w].url)

\* validateFields, which the confirm button's enabled state follows: every
\* change of an entry or of the radio group calls updateButtonState.
validateFields(w) ==
    /\ Trim[wins[w].label] # ""
    /\ IF wins[w].type = ruleTypeIP THEN NonBlank(wins[w].ip) ELSE NonBlank(wins[w].url)

\* The rule saveRule writes; an empty selection falls back to avail[1].
SavedRule(w, enabled) ==
    LET isIP == wins[w].type = ruleTypeIP
        out  == IF wins[w].out = "" THEN wins[w].avail[1] ELSE wins[w].out
    IN  [label   |-> Trim[wins[w].label],
         match   |-> (IF isIP THEN "ip_cidr" ELSE "domain")
                         :> parseLines(IF isIP THEN wins[w].ip ELSE wins[w].url),
         out     |-> out,
         enabled |-> enabled]

\* delete(state.openRuleDialogs, dialogKey); dialogWindow.Close()
closeDialog(w) ==
    /\ openRuleDialogs' = [k \in DOMAIN openRuleDialogs \ {wins[w].key} |-> openRuleDialogs[k]]
    /\ wins' = [wins EXCEPT ![w].open = FALSE]

\* saveRule: update the edited rule or append a new one, mark the preview
\* stale, forget the key and close the window.
saveRule(w) ==
    /\ wins[w].open
    /\ validateFields(w)
    /\ customRules' =
           IF wins[w].edit = 0
           THEN Append(customRules, SavedRule(w, TRUE))
           ELSE [customRules EXCEPT ![wins[w].edit] =
                     SavedRule(w, customRules[wins[w].edit].enabled)]
    /\ previewNeedsUpdate' = TRUE
    /\ closeDialog(w)
    /\ UNCHANGED <<hasWindow, edits>>

\* The Cancel button.
Cancel(w) ==
    /\ wins[w].open
    /\ closeDialog(w)
    /\ UNCHANGED <<hasWindow, customRules, previewNeedsUpdate, edits>>

\* The window manager's close button, through SetCloseIntercept.
CloseIntercept(w) ==
    /\ wins[w].open
    /\ closeDialog(w)
    /\ UNCHANGED <<hasWindow, customRules, previewNeedsUpdate, edits>>

Next ==
    \/ showAddRuleDialog(0)
    \/ \E r \in 1..Len(customRules) : showAddRuleDialog(r)
    \/ \E w \in DOMAIN wins :
          \/ EditLabel(w) \/ EditIP(w) \/ EditURL(w) \/ SelectOutbound(w) \/ TapRuleType(w)
          \/ saveRule(w) \/ Cancel(w) \/ CloseIntercept(w)

Spec == Init /\ [][Next]_vars

-----------------------------------------------------------------------------
Outbounds == UNION {ToSet(a) : a \in AvailChoices} \cup {DefaultOutboundTag, RejectActionName}

Window == [open : BOOLEAN, key : {AddKey} \cup Nat, edit : Nat, label : Strings,
           out : Outbounds, type : {ruleTypeIP, ruleTypeDomain, ""},
           ip : Seq(Strings), url : Seq(Strings), avail : Seq(Outbounds),
           touched : BOOLEAN]

TypeOK ==
    /\ hasWindow \in BOOLEAN
    /\ wins \in Seq(Window)
    /\ DOMAIN openRuleDialogs \subseteq {AddKey} \cup (1..Len(customRules))
    /\ \A k \in DOMAIN openRuleDialogs : openRuleDialogs[k] \in DOMAIN wins
    /\ previewNeedsUpdate \in BOOLEAN
    /\ edits \in 0..MaxEdits

\* openRuleDialogs is exactly the set of open dialog windows: each key maps
\* to an open window built for that key, and every open window is the one
\* registered under its key.  Reopening a key (showAddRuleDialog closes
\* the old window first) followed by Save/Cancel/close of either window
\* must not leave an open dialog unregistered, or a key pointing at a
\* closed one, so no rule is ever edited by two dialogs at once.
RegistryMatchesOpenWindows ==
    /\ \A k \in DOMAIN openRuleDialogs :
          wins[openRuleDialogs[k]].open /\ wins[openRuleDialogs[k]].key = k
    /\ \A w \in DOMAIN wins :
          wins[w].open => /\ wins[w].key \in DOMAIN openRuleDialogs
                          /\ openRuleDialogs[wins[w].key] = w

\* A rule as saveRule may write it: a trimmed non-empty label, exactly one
\* match key with a non-empty list of trimmed non-blank items.
WellFormedRule(r) ==
    /\ r.label # "" /\ Trim[r.label] = r.label
    /\ Cardinality(DOMAIN r.match) = 1
    /\ \A key \in DOMAIN r.match :
          /\ r.match[key] # <<>>
          /\ \A i \in 1..Len(r.match[key]) :
                r.match[key][i] # "" /\ Trim[r.match[key][i]] = r.match[key][i]

\* Whatever the user did with the entries and the rule-type radio (typing
\* into the hidden entry, clearing the radio selection), a step that adds
\* or rewrites a custom rule writes a well-formed rule whose outbound was
\* offered by the dialog that saved it, and closes that dialog.
SaveWritesValidRule ==
    [][\A k \in DOMAIN customRules' :
          (k \notin DOMAIN customRules \/ customRules'[k] # customRules[k]) =>
              /\ WellFormedRule(customRules'[k])
              /\ \E w \in DOMAIN wins :
                    /\ wins[w].open /\ ~wins'[w].open
                    /\ wins[w].edit \in {0, k}
                    /\ customRules'[k].out \in ToSet(wins[w].avail)]_customRules

\* "Edit Rule" then "Save" without touching any field keeps the rule's
\* match keys and values: saveRule rebuilds Raw from the one entry the
\* dialog showed, so a key it did not show would be dropped.
UntouchedEditKeepsRule ==
    [][\A k \in DOMAIN customRules :
          customRules'[k].match # customRules[k].match =>
              \E w \in DOMAIN wins :
                  wins[w].edit = k /\ wins[w].touched /\ wins[w].open /\ ~wins'[w].open]_customRules
==============================================================================
