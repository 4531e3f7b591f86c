---------------------------- MODULE ClashAPITab ----------------------------
(***************************************************************************)
(* The "Clash API" tab of the launcher (ui/clash_api_tab.go) against a    *)
(* running sing-box.  Every network call (TestAPIConnection,              *)
(* GetProxiesInGroup, SwitchProxy, GetDelay in the ping-all loop) runs in *)
(* a goroutine; its result is handed to the UI thread with fyne.Do, whose *)
(* callbacks run one at a time in the order they were queued.  User       *)
(* events and the launcher's calls (RefreshAPIFunc, ResetAPIStateFunc)    *)
(* run on the UI thread between callbacks.                                *)
(*                                                                         *)
(* calls holds the goroutines still waiting on the API, in any order of   *)
(* completion; uiq is the fyne.Do queue.  Labels and the tray-menu        *)
(* refresh are left out except the list status label, which tells the     *)
(* user whether a load is in progress, and the ping button of each list   *)
(* row, which pingProxy writes to long after the row was bound.  The list *)
(* widget shows every row: row k is bound to proxies[k] by updateItem     *)
(* whenever the list is refreshed.                                        *)
(***************************************************************************)
EXTENDS Integers, Sequences, SequencesExt, FiniteSets, TLC

CONSTANTS
    Groups,         \* selector groups of sing-box
    Members,        \* group -> its proxies, in the order the API lists them
    ConfigGroups,   \* selectorOptions read from the config (a sequence)
    ConfigDefault,  \* defaultSelector read from the config, or NoGroup
    ProxyOut,       \* the fallback group "proxy-out"
    NameRank,       \* proxy name -> its place in string order
    DelayOf,        \* proxy name -> the delay GetDelay measures for it
    NoGroup,        \* the empty group name
    NoName,         \* the empty proxy name
    MaxOps          \* bound: user and launcher events in one behaviour

Names == UNION {ToSet(Members[g]) : g \in Groups}

\* The list widget's row objects.
Rows == 1..Max({Len(Members[g]) : g \in Groups})

VARIABLES
    enabled,        \* ac.ClashAPIEnabled
    running,        \* sing-box is running
    serverNow,      \* sing-box: group -> its selected proxy
    options,        \* groupSelect's options
    selectedGroup,  \* the closure's selectedGroup (= ac.SelectedClashGroup)
    proxies,        \* ac's proxies list: <<[name, delay]>>
    active,         \* ac's active proxy name
    listStatus,     \* ac.ListStatusLabel, abstracted to its kind
    sortNameAsc,    \* sortNameAscending
    sortDelayAsc,   \* sortDelayAscending
    calls,          \* goroutines blocked on the API
    uiq,            \* fyne.Do callbacks not yet run
    selIdx,         \* ac's selected index (-1 for none)
    buttons,        \* row -> the text of its ping button
    ops             \* events so far (bound)

vars == <<enabled, running, serverNow, options, selectedGroup, proxies, active,
          listStatus, sortNameAsc, sortDelayAsc, calls, uiq, selIdx, buttons, ops>>

ProxyNames(list) == [k \in 1..Len(list) |-> list[k].name]

\* The texts of a ping button: "Ping", "...", "Error" or "<d> ms".
Label(t) == [text |-> t, ms |-> 0]
Ms(d)    == [text |-> "ms", ms |-> d]

\* updateItem: the ping button shows a measured delay, or "Ping".
ButtonText(p) == IF p.delay > 0 THEN Ms(p.delay) ELSE Label("Ping")

\* CreateClashAPITab: the options and the initial group.  ac.SelectedClashGroup
\* may already hold a group chosen before the tab was built.
Init ==
    /\ enabled \in BOOLEAN
    /\ running \in BOOLEAN
    /\ serverNow \in [Groups -> Names]
    /\ \A g \in Groups : serverNow[g] \in ToSet(Members[g])
    /\ options = IF ConfigGroups = <<>> THEN <<ProxyOut>> ELSE ConfigGroups
    /\ \E preset \in Groups \cup {NoGroup} :
          selectedGroup = IF preset # NoGroup THEN preset
                          ELSE IF ConfigDefault # NoGroup THEN ConfigDefault
                          ELSE options[1]
    /\ proxies = <<>>
    /\ active = NoName
    /\ listStatus = "idle"
    /\ sortNameAsc = TRUE
    /\ sortDelayAsc = TRUE
    /\ calls = <<>>
    /\ uiq = <<>>
    /\ selIdx = -1
    /\ buttons = [k \in Rows |-> Label("Ping")]
    /\ ops = 0

\* ProxiesListWidget.Refresh(): every shown row is bound to the entry of
\* the list with its index; a row beyond the list is hidden and keeps its
\* objects as they are.
Refreshed(list) ==
    [k \in Rows |-> IF k <= Len(list) THEN ButtonText(list[k]) ELSE buttons[k]]

Spend == ops < MaxOps /\ ops' = ops + 1

\* onLoadAndRefreshProxies for group g: the status label and the goroutine
\* it starts, if any.
LoadStart(g) ==
    IF ~enabled THEN [status |-> "disabled", spawn |-> <<>>]
    ELSE IF g = NoGroup THEN [status |-> listStatus, spawn |-> <<>>]
    ELSE [status |-> "loading", spawn |-> <<[kind |-> "load", group |-> g]>>]

-----------------------------------------------------------------------------
(* Events on the UI thread                                                 *)

\* RefreshAPIFunc = onTestAPIConnection, called by the launcher.
TestAPIConnection ==
    /\ Spend
    /\ calls' = IF enabled THEN Append(calls, [kind |-> "test"]) ELSE calls
    /\ UNCHANGED <<enabled, running, serverNow, options, selectedGroup, proxies,
                   active, listStatus, sortNameAsc, sortDelayAsc, uiq, selIdx, buttons>>

\* groupSelect's OnChanged when the user picks a group: the empty value
\* returns at once, and Options never holds it; suppressSelectCallback is
\* set only around the SetSelected call that builds the tab, so a pick
\* always goes on to onLoadAndRefreshProxies.  AutoLoadProxies, the tray
\* menu and the status text lie outside this tab.
SelectGroup ==
    /\ Spend
    /\ \E v \in ToSet(options) :
          LET st == LoadStart(v) IN
          /\ selectedGroup' = v
          /\ listStatus' = st.status
          /\ calls' = calls \o st.spawn
    /\ UNCHANGED <<enabled, running, serverNow, options, proxies, active,
                   sortNameAsc, sortDelayAsc, uiq, selIdx, buttons>>

\* The launcher stops sing-box and calls ResetAPIStateFunc = onResetAPIState:
\* the list and active proxy are cleared at once, the labels in a callback.
StopSingBox ==
    /\ Spend
    /\ running
    /\ running' = FALSE
    /\ proxies' = <<>>
    /\ active' = NoName
    /\ selIdx' = -1
    /\ uiq' = Append(uiq, [kind |-> "reset"])
    /\ UNCHANGED <<enabled, serverNow, options, selectedGroup, listStatus,
                   sortNameAsc, sortDelayAsc, calls, buttons>>

StartSingBox ==
    /\ Spend
    /\ ~running
    /\ running' = TRUE
    /\ UNCHANGED <<enabled, serverNow, options, selectedGroup, proxies, active,
                   listStatus, sortNameAsc, sortDelayAsc, calls, uiq, selIdx, buttons>>

\* switchButton.OnTapped on row k: the goroutine gets selectedGroup as it is
\* now, the row's proxy name and the row's ping button.
TapSwitch ==
    /\ Spend
    /\ \E k \in 1..Len(proxies) :
          calls' = IF enabled
                   THEN Append(calls, [kind |-> "switch", group |-> selectedGroup,
                                       name |-> proxies[k].name, row |-> k])
                   ELSE calls
    /\ UNCHANGED <<enabled, running, serverNow, options, selectedGroup, proxies,
                   active, listStatus, sortNameAsc, sortDelayAsc, uiq, selIdx, buttons>>

\* pingAllProxies: the goroutine walks a snapshot of the list's names.
PingAll ==
    /\ Spend
    /\ calls' = IF enabled /\ proxies # <<>>
                THEN Append(calls, [kind |-> "pingall", snap |-> ProxyNames(proxies),
                                    k |-> 1])
                ELSE calls
    /\ UNCHANGED <<enabled, running, serverNow, options, selectedGroup, proxies,
                   active, listStatus, sortNameAsc, sortDelayAsc, uiq, selIdx, buttons>>

\* pingButton.OnTapped on row k: pingProxy starts a goroutine for the
\* row's proxy name that will write to the row's button.
TapPing ==
    /\ Spend
    /\ \E k \in 1..Len(proxies) :
          calls' = Append(calls, [kind |-> "ping1", name |-> proxies[k].name, row |-> k])
    /\ UNCHANGED <<enabled, running, serverNow, options, selectedGroup, proxies,
                   active, listStatus, sortNameAsc, sortDelayAsc, uiq, selIdx, buttons>>

\* OnSelected: SetSelectedIndex and a refresh of the list (the status text
\* is left out).
SelectRow ==
    /\ Spend
    /\ \E k \in 1..Len(proxies) : selIdx' = k
    /\ buttons' = Refreshed(proxies)
    /\ UNCHANGED <<enabled, running, serverNow, options, selectedGroup, proxies,
                   active, listStatus, sortNameAsc, sortDelayAsc, calls, uiq>>

\* The orders a list can be put in; sort.Slice is not stable, so equal keys
\* end in an order the caller cannot rely on.
Orderings(list) ==
    {[k \in 1..Len(list) |-> list[p[k]]] : p \in Permutations(1..Len(list))}

NameLess(asc, p, q) ==
    IF asc THEN NameRank[p.name] < NameRank[q.name]
           ELSE NameRank[p.name] > NameRank[q.name]

\* Unmeasured delays (0 or -1) go last when ascending, first when descending.
DelayKeyAsc(d)  == IF d <= 0 THEN 999999 ELSE d
DelayKeyDesc(d) == IF d <= 0 THEN -1 ELSE d

DelayLess(asc, p, q) ==
    IF asc THEN DelayKeyAsc(p.delay) < DelayKeyAsc(q.delay)
           ELSE DelayKeyDesc(p.delay) > DelayKeyDesc(q.delay)

\* sort.Slice with less: no later element is less than an earlier one.
SortedByName(list, asc) ==
    {s \in Orderings(list) : \A a, b \in 1..Len(s) : a < b => ~NameLess(asc, s[b], s[a])}

SortedByDelay(list, asc) ==
    {s \in Orderings(list) : \A a, b \in 1..Len(s) : a < b => ~DelayLess(asc, s[b], s[a])}

\* sortByNameButton: sort with the current direction, then flip it.
SortByName ==
    /\ Spend
    /\ IF proxies = <<>> THEN UNCHANGED <<proxies, buttons>>
       ELSE /\ proxies' \in SortedByName(proxies, sortNameAsc)
            /\ buttons' = Refreshed(proxies')
    /\ sortNameAsc' = ~sortNameAsc
    /\ UNCHANGED <<enabled, running, serverNow, options, selectedGroup, active,
                   listStatus, sortDelayAsc, calls, uiq, selIdx>>

\* Mutant of SortByDelay: the sort key is written into the entries.
SortByDelayNormalising ==
    /\ Spend
    /\ IF proxies = <<>> THEN UNCHANGED <<proxies, buttons>>
       ELSE /\ \E s \in SortedByDelay(proxies, sortDelayAsc) :
                  proxies' = [k \in 1..Len(s) |->
                     [s[k] EXCEPT !.delay = IF sortDelayAsc THEN DelayKeyAsc(@)
                                                            ELSE DelayKeyDesc(@)]]
            /\ buttons' = Refreshed(proxies')
    /\ sortDelayAsc' = ~sortDelayAsc
    /\ UNCHANGED <<enabled, running, serverNow, options, selectedGroup, active,
                   listStatus, sortNameAsc, calls, uiq, selIdx>>

\* sortByDelayButton: sort with the current direction, then flip it.
SortByDelay ==
    /\ Spend
    /\ IF proxies = <<>> THEN UNCHANGED <<proxies, buttons>>
       ELSE /\ proxies' \in SortedByDelay(proxies, sortDelayAsc)
            /\ buttons' = Refreshed(proxies')
    /\ sortDelayAsc' = ~sortDelayAsc
    /\ UNCHANGED <<enabled, running, serverNow, options, selectedGroup, active,
                   listStatus, sortNameAsc, calls, uiq, selIdx>>

-----------------------------------------------------------------------------
(* Goroutines: the API answers and the result is queued with fyne.Do.      *)
(* Every call fails when sing-box is not running and may fail when it is. *)

Outcomes == IF running THEN BOOLEAN ELSE {FALSE}

Finish(j, cb) ==
    /\ calls' = RemoveAt(calls, j)
    /\ uiq' = Append(uiq, cb)

TestReturns ==
    \E j \in 1..Len(calls) : \E ok \in Outcomes :
        /\ calls[j].kind = "test"
        /\ Finish(j, [kind |-> "test", ok |-> ok])
        /\ UNCHANGED <<enabled, running, serverNow, options, selectedGroup,
                       proxies, active, listStatus, sortNameAsc, sortDelayAsc, ops, selIdx, buttons>>

\* GetProxiesInGroup: the group's proxies and its selected one, at the time
\* the API answers.
LoadReturns ==
    \E j \in 1..Len(calls) : \E ok \in Outcomes :
        LET g == calls[j].group IN
        /\ calls[j].kind = "load"
        /\ Finish(j, [kind |-> "load", ok |-> ok, group |-> g,
                      list |-> Members[g], now |-> serverNow[g]])
        /\ UNCHANGED <<enabled, running, serverNow, options, selectedGroup,
                       proxies, active, listStatus, sortNameAsc, sortDelayAsc, ops, selIdx, buttons>>

\* SwitchProxy: sing-box rejects a proxy that is not in the group.
SwitchReturns ==
    \E j \in 1..Len(calls) : \E ok \in Outcomes :
        LET c == calls[j]
            done == ok /\ c.name \in ToSet(Members[c.group])
        IN
        /\ c.kind = "switch"
        /\ serverNow' = IF done THEN [serverNow EXCEPT ![c.group] = c.name]
                        ELSE serverNow
        /\ Finish(j, [kind |-> "switch", ok |-> done, group |-> c.group,
                      name |-> c.name, row |-> c.row])
        /\ UNCHANGED <<enabled, running, options, selectedGroup, proxies, active,
                       listStatus, sortNameAsc, sortDelayAsc, ops, selIdx, buttons>>

\* One iteration of the ping-all loop: GetDelay for the k-th name of the
\* snapshot, its result queued with the loop index.
PingAllStep ==
    \E j \in 1..Len(calls) : \E ok \in Outcomes :
        LET c == calls[j] IN
        /\ c.kind = "pingall"
        /\ c.k <= Len(c.snap)
        /\ calls' = [calls EXCEPT ![j].k = @ + 1]
        /\ uiq' = Append(uiq, [kind |-> "ping", name |-> c.snap[c.k], idx |-> c.k,
                               delay |-> IF ok THEN DelayOf[c.snap[c.k]] ELSE -1])
        /\ UNCHANGED <<enabled, running, serverNow, options, selectedGroup,
                       proxies, active, listStatus, sortNameAsc, sortDelayAsc, ops, selIdx, buttons>>

\* pingProxy's goroutine: fyne.Do of the "..." text for its button, GetDelay,
\* then fyne.Do of the result for the same button.  The two callbacks are
\* queued in one step: the "..." is always overwritten by the result after
\* it, so when it was queued is seen by no property.
PingOneReturns ==
    \E j \in 1..Len(calls) : \E ok \in Outcomes :
        LET c == calls[j] IN
        /\ c.kind = "ping1"
        /\ calls' = RemoveAt(calls, j)
        /\ uiq' = uiq \o <<[kind |-> "dots", row |-> c.row],
                          [kind |-> "ping1", row |-> c.row,
                           text |-> IF ok THEN Ms(DelayOf[c.name]) ELSE Label("Error")]>>
        /\ UNCHANGED <<enabled, running, serverNow, options, selectedGroup,
                       proxies, active, listStatus, sortNameAsc, sortDelayAsc, ops,
                       selIdx, buttons>>

\* The loop ends; its last callback only writes the status text.
PingAllEnd ==
    \E j \in 1..Len(calls) :
        /\ calls[j].kind = "pingall"
        /\ calls[j].k > Len(calls[j].snap)
        /\ calls' = RemoveAt(calls, j)
        /\ UNCHANGED <<enabled, running, serverNow, options, selectedGroup,
                       proxies, active, listStatus, sortNameAsc, sortDelayAsc,
                       uiq, ops, selIdx, buttons>>

-----------------------------------------------------------------------------
(* fyne.Do callbacks, run by the UI thread in queue order                  *)

Callback(kind) == uiq # <<>> /\ Head(uiq).kind = kind /\ uiq' = Tail(uiq)

\* Successful test: updateSelectorList (the current group is replaced by
\* the config's default, or its first option, when the config no longer
\* offers it), then onLoadAndRefreshProxies for the resulting group.
TestCallback ==
    /\ Callback("test")
    /\ IF Head(uiq).ok
       THEN LET keep == ConfigGroups = <<>> \/ selectedGroup \in ToSet(ConfigGroups)
                g    == IF keep THEN selectedGroup
                        ELSE IF ConfigDefault # NoGroup THEN ConfigDefault
                        ELSE ConfigGroups[1]
                st   == LoadStart(g)
            IN  /\ options' = IF ConfigGroups = <<>> THEN options ELSE ConfigGroups
                /\ selectedGroup' = g
                /\ listStatus' = st.status
                /\ calls' = calls \o st.spawn
       ELSE UNCHANGED <<options, selectedGroup, listStatus, calls>>
    /\ UNCHANGED <<enabled, running, serverNow, proxies, active, sortNameAsc,
                   sortDelayAsc, ops, selIdx, buttons>>

\* Mutant of LoadCallback: the error branch leaves the status label alone.
LoadCallbackSilentError ==
    /\ Callback("load")
    /\ LET cb == Head(uiq) IN
       IF cb.ok
       THEN /\ proxies' = [k \in 1..Len(cb.list) |-> [name |-> cb.list[k], delay |-> 0]]
            /\ active' = cb.now
            /\ buttons' = Refreshed(proxies')
            /\ listStatus' = "loaded"
       ELSE UNCHANGED <<proxies, active, buttons, listStatus>>
    /\ UNCHANGED <<enabled, running, serverNow, options, selectedGroup,
                   sortNameAsc, sortDelayAsc, calls, ops, selIdx>>

\* The load goroutine's callback: on success SetProxiesList and
\* SetActiveProxyName with what the API returned, whatever group is selected
\* now, and a refresh of the list; on error only the status label.
LoadCallback ==
    /\ Callback("load")
    /\ LET cb == Head(uiq) IN
       IF cb.ok
       THEN /\ proxies' = [k \in 1..Len(cb.list) |-> [name |-> cb.list[k], delay |-> 0]]
            /\ active' = cb.now
            /\ buttons' = Refreshed(proxies')
            /\ listStatus' = "loaded"
       ELSE /\ listStatus' = "error"
            /\ UNCHANGED <<proxies, active, buttons>>
    /\ UNCHANGED <<enabled, running, serverNow, options, selectedGroup,
                   sortNameAsc, sortDelayAsc, calls, ops, selIdx>>

\* onResetAPIState's callback: the labels, then a refresh of the list.
ResetCallback ==
    /\ Callback("reset")
    /\ listStatus' = "stopped"
    /\ buttons' = Refreshed(proxies)
    /\ UNCHANGED <<enabled, running, serverNow, options, selectedGroup, proxies,
                   active, sortNameAsc, sortDelayAsc, calls, ops, selIdx>>

\* On success SetActiveProxyName with the tapped name, a refresh of the
\* list, and pingProxy for the tapped name and the tapped row's button.
SwitchCallback ==
    /\ Callback("switch")
    /\ LET cb == Head(uiq) IN
       IF cb.ok
       THEN /\ active' = cb.name
            /\ buttons' = Refreshed(proxies)
            /\ calls' = Append(calls, [kind |-> "ping1", name |-> cb.name, row |-> cb.row])
            /\ listStatus' = "switched"
       ELSE UNCHANGED <<active, buttons, calls, listStatus>>
    /\ UNCHANGED <<enabled, running, serverNow, options, selectedGroup, proxies,
                   sortNameAsc, sortDelayAsc, ops, selIdx>>

\* pingProxy's callbacks write to the button they were given, whatever row
\* of the list it shows now.
DotsCallback ==
    /\ Callback("dots")
    /\ buttons' = [buttons EXCEPT ![Head(uiq).row] = Label("...")]
    /\ UNCHANGED <<enabled, running, serverNow, options, selectedGroup, proxies,
                   active, listStatus, sortNameAsc, sortDelayAsc, calls, ops, selIdx>>

PingOneCallback ==
    /\ Callback("ping1")
    /\ buttons' = [buttons EXCEPT ![Head(uiq).row] = Head(uiq).text]
    /\ UNCHANGED <<enabled, running, serverNow, options, selectedGroup, proxies,
                   active, listStatus, sortNameAsc, sortDelayAsc, calls, ops, selIdx>>

FirstNamed(list, n) == SelectInSeq(list, LAMBDA e : e.name = n)

\* Mutant of PingCallback: a name missing from the current list is appended.
PingCallbackUpsert ==
    /\ Callback("ping")
    /\ LET cb == Head(uiq)
           j  == FirstNamed(proxies, cb.name)
       IN  proxies' = IF j > 0 THEN [proxies EXCEPT ![j].delay = cb.delay]
                      ELSE Append(proxies, [name |-> cb.name, delay |-> cb.delay])
    /\ buttons' = Refreshed(proxies')
    /\ UNCHANGED <<enabled, running, serverNow, options, selectedGroup, active,
                   listStatus, sortNameAsc, sortDelayAsc, calls, ops, selIdx>>

\* Mutant of PingCallback: the delay goes to the row with the loop's index.
PingCallbackByIndex ==
    /\ Callback("ping")
    /\ LET cb == Head(uiq) IN
       proxies' = IF cb.idx <= Len(proxies)
                  THEN [proxies EXCEPT ![cb.idx].delay = cb.delay] ELSE proxies
    /\ buttons' = Refreshed(proxies')
    /\ UNCHANGED <<enabled, running, serverNow, options, selectedGroup, active,
                   listStatus, sortNameAsc, sortDelayAsc, calls, ops, selIdx>>

\* The ping-all callback re-reads the list and sets the delay (-1 on error)
\* of the first entry with the pinged name, if there is one, and refreshes
\* the list.
PingCallback ==
    /\ Callback("ping")
    /\ LET cb == Head(uiq)
           j  == FirstNamed(proxies, cb.name)
       IN  proxies' = IF j > 0 THEN [proxies EXCEPT ![j].delay = cb.delay] ELSE proxies
    /\ buttons' = Refreshed(proxies')
    /\ UNCHANGED <<enabled, running, serverNow, options, selectedGroup, active,
                   listStatus, sortNameAsc, sortDelayAsc, calls, ops, selIdx>>

-----------------------------------------------------------------------------

UserEvent ==
    \/ TestAPIConnection \/ SelectGroup \/ StopSingBox \/ StartSingBox
    \/ TapSwitch \/ TapPing \/ SelectRow \/ PingAll \/ SortByName \/ SortByDelay

Goroutine ==
    \/ TestReturns \/ LoadReturns \/ SwitchReturns \/ PingAllStep \/ PingAllEnd
    \/ PingOneReturns

UIThread ==
    \/ TestCallback \/ LoadCallback \/ ResetCallback \/ SwitchCallback
    \/ PingCallback \/ DotsCallback \/ PingOneCallback

Next == UserEvent \/ Goroutine \/ UIThread

\* Users and the launcher need not act; a blocked API call returns (its
\* HTTP client times out) and the fyne event loop drains its queue.
Spec == Init /\ [][Next]_vars /\ WF_vars(Goroutine) /\ WF_vars(UIThread)

-----------------------------------------------------------------------------
(* Properties                                                              *)

Quiescent == calls = <<>> /\ uiq = <<>>

ProxyInfo == [name : Names, delay : {-1, 0} \cup {DelayOf[n] : n \in Names}]

TypeOK ==
    /\ enabled \in BOOLEAN /\ running \in BOOLEAN
    /\ serverNow \in [Groups -> Names]
    /\ selectedGroup \in Groups \cup {ProxyOut}
    /\ proxies \in Seq(ProxyInfo)
    /\ active \in Names \cup {NoName}
    /\ listStatus \in {"idle", "disabled", "loading", "loaded", "error",
                       "stopped", "switched"}
    /\ sortNameAsc \in BOOLEAN /\ sortDelayAsc \in BOOLEAN
    /\ selIdx \in {-1} \cup Rows
    /\ buttons \in [Rows -> {Label(t) : t \in {"Ping", "...", "Error"}}
                            \cup {Ms(DelayOf[n]) : n \in Names}]
    /\ ops \in 0..MaxOps

\* Whatever loads, sorts and ping results interleave, the list is empty or
\* exactly one group's proxies, each once (SetProxiesList, the sorts and
\* the ping-all callback only ever replace, permute or annotate it).
ListIsGroupSnapshot ==
    \/ proxies = <<>>
    \/ \E g \in Groups :
          /\ Len(proxies) = Len(Members[g])
          /\ ToSet(ProxyNames(proxies)) = ToSet(Members[g])

\* A delay shown next to a proxy is one GetDelay measured for that very
\* proxy (or -1 for its failure), even when the list was re-sorted or
\* reloaded while ping-all was running.
DelayShownIsMeasured ==
    \A k \in 1..Len(proxies) :
        proxies[k].delay \in {0, -1, DelayOf[proxies[k].name]}

\* "Loading proxies..." is not left on screen: every load started by a
\* group change or a successful test ends in a callback that rewrites it.
StatusSettles == listStatus = "loading" ~> listStatus # "loading"

\* Once all goroutines and callbacks are done, the tab shows the present:
\* a non-empty list is the one of the group the selector shows, of a
\* sing-box that runs, and the active proxy is one of the listed proxies.
\* Callbacks apply their answer without checking it is still current:
\* onLoadAndRefreshProxies applies any answer, however late (a
\* later-started load may answer first, and a load answered before
\* onResetAPIState still has its callback queued), and the switch callback
\* sets the active proxy of the list the row was tapped on.  Likewise a
\* row's ping button shows a delay measured for the proxy in that row:
\* pingProxy writes to the button object of the row it was tapped on,
\* which a sort or a reload since may have bound to another proxy.
ViewIsCurrent ==
    Quiescent =>
        /\ proxies # <<>> =>
              /\ running
              /\ ToSet(ProxyNames(proxies)) = ToSet(Members[selectedGroup])
        /\ active # NoName => active \in ToSet(ProxyNames(proxies))
        /\ \A k \in 1..Len(proxies) :
              buttons[k].text = "ms" => buttons[k].ms = DelayOf[proxies[k].name]
====
