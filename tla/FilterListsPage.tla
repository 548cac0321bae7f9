-------------------------- MODULE FilterListsPage --------------------------
(***************************************************************************)
(* frontend/src/FilterLists: the page of the filter lists.  It shows what  *)
(* it fetched last; each row keeps a switch of its own, which starts from  *)
(* the list the row was mounted with and is never set from a later fetch.  *)
(* A write is followed by a fetch.  The custom lists are modelled: they    *)
(* can be added, imported and removed as well as switched.                 *)
(***************************************************************************)
EXTENDS Naturals, SequencesExt, FiniteSets

CONSTANTS Urls,
          MaxClicks   \* bound: acts of the user

ASSUME ListsPageAssumption == MaxClicks \in Nat

VARIABLES
  lists,     \* url -> "absent", "on" or "off": Config.Filter.FilterLists
  proxied,   \* isProxyRunning
  visit,     \* which mounting of the page this is
  custom,    \* the type shown is the custom lists
  filterLists, \* url -> what the last fetch said
  row,       \* url -> [checked, busy, deleting, mount]: FilterListItem
  adding, importing,  \* the loading of CreateFilterList and ImportFilterList
  asked,     \* [do, url, value, visit, mount, state], in the order they were made
  clicks,    \* bounded by MaxClicks
  confused   \* history, see ListsTellTruth

pageVars == <<lists, proxied, visit, custom, filterLists, row, adding, importing, asked, clicks, confused>>

States == {"absent", "on", "off"}
NoRow(n) == [checked |-> "absent", busy |-> FALSE, deleting |-> FALSE, mount |-> n]
Flipped(s) == IF s = "on" THEN "off" ELSE "on"
Nothing == [u \in Urls |-> "absent"]

Ask(do, u, value) ==
  [do |-> do, url |-> u, value |-> value, visit |-> visit, mount |-> row[u].mount, state |-> "sent"]

Fetch(n) ==
  [do |-> "fetch", url |-> "", value |-> Nothing, visit |-> n, mount |-> 0, state |-> "sent"]

\* A row that is mounted from a list which is out of date, or is about to be.
OutOfDate(u, s) ==
  s # "absent" /\ (s # lists[u] \/ \E i \in DOMAIN asked : asked[i].do = "toggle" /\ asked[i].url = u)

\* React keeps the row of a url that is listed before and after.
Rows(fetched) ==
  [u \in Urls |-> IF ~custom \/ fetched[u] = "absent" THEN NoRow(row[u].mount)
                  ELSE IF row[u].checked # "absent" THEN row[u]
                  ELSE [NoRow(row[u].mount + 1) EXCEPT !.checked = fetched[u]]]

-----------------------------------------------------------------------------
\* The user.

Click == clicks < MaxClicks /\ clicks' = clicks + 1

Toggle(u) ==
  /\ row[u].checked # "absent" /\ ~row[u].busy /\ ~proxied
  /\ asked' = Append(asked, Ask("toggle", u, Flipped(row[u].checked)))
  /\ row' = [row EXCEPT ![u].checked = Flipped(row[u].checked), ![u].busy = TRUE]
  /\ UNCHANGED <<adding, importing>>

Delete(u) ==
  /\ row[u].checked # "absent" /\ ~row[u].deleting /\ ~proxied
  /\ asked' = Append(asked, Ask("remove", u, "absent"))
  /\ row' = [row EXCEPT ![u].deleting = TRUE]
  /\ UNCHANGED <<adding, importing>>

CreateFilterList(u) ==
  /\ custom /\ ~adding /\ ~proxied
  /\ asked' = Append(asked, Ask("add", u, "on")) /\ adding' = TRUE
  /\ UNCHANGED <<row, importing>>

\* The menu does not look at the proxy.  (A file that lists a url which is
\* already there adds it a second time: not modelled.)
ImportFilterList(u) ==
  /\ custom /\ ~importing
  /\ \E s \in {"on", "off"} : asked' = Append(asked, Ask("import", u, s))
  /\ importing' = TRUE
  /\ UNCHANGED <<row, adding>>

ListsClicked ==
  /\ Click
  /\ \E u \in Urls : Toggle(u) \/ Delete(u) \/ CreateFilterList(u) \/ ImportFilterList(u)
  /\ UNCHANGED <<lists, proxied, visit, custom, filterLists, confused>>

\* Another type, or this one again: the rows are mounted anew.
SetType ==
  /\ Click
  /\ custom' = ~custom /\ adding' = FALSE /\ importing' = FALSE
  /\ row' = [u \in Urls |-> IF custom \/ filterLists[u] = "absent" THEN NoRow(row[u].mount)
                            ELSE [NoRow(row[u].mount + 1) EXCEPT !.checked = filterLists[u]]]
  /\ confused' = (confused \/ (custom' /\ \E u \in Urls : OutOfDate(u, filterLists[u])))
  /\ UNCHANGED <<lists, proxied, visit, filterLists, asked>>

\* Another tab and back: the page is mounted anew, and fetches.
Revisit ==
  /\ Click
  /\ visit' = visit + 1 /\ filterLists' = Nothing
  /\ row' = [u \in Urls |-> NoRow(row[u].mount)] /\ adding' = FALSE /\ importing' = FALSE
  /\ asked' = Append(asked, Fetch(visit + 1)) /\ confused' = FALSE
  /\ UNCHANGED <<lists, proxied, custom>>

ProxyFlips ==
  /\ Click
  /\ proxied' = ~proxied
  /\ UNCHANGED <<lists, visit, custom, filterLists, row, adding, importing, asked, confused>>

-----------------------------------------------------------------------------
\* The configuration, whose lock orders the calls; then what awaited them.

\* Config.update: the memory changes before the file, and stays when the
\* file cannot be written.
Write(i) ==
  LET call == asked[i]
      refused == call.do = "add" /\ lists[call.url] # "absent"
      listed == call.do # "toggle" \/ lists[call.url] # "absent"
  IN \/ /\ ~refused
        /\ call.do = "import" => lists[call.url] = "absent"
        /\ lists' = (IF listed THEN [lists EXCEPT ![call.url] = call.value] ELSE lists)
        /\ \E state \in {"done", "failed"} :
             /\ asked' = [asked EXCEPT ![i].state = state]
             /\ confused' = (confused \/ state = "failed"
                             \/ (call.do \in {"add", "import"} /\ row[call.url].checked # "absent"))
     \/ /\ refused \/ call.do = "import"    \* the dialog is cancelled, or the file is bad
        /\ asked' = [asked EXCEPT ![i].state = "failed"]
        /\ UNCHANGED <<lists, confused>>

\* In order. The dialog of an import is taken to be modal to its window:
\* what was called after it waits until it is closed.
ConfigServes(i) ==
  /\ asked[i].state = "sent"
  /\ \A j \in 1 .. i - 1 : asked[j].state # "sent"
  /\ \/ asked[i].do # "fetch" /\ Write(i)
     \/ /\ asked[i].do = "fetch"
        /\ asked' = [asked EXCEPT ![i].state = "done", ![i].value = lists]
        /\ UNCHANGED <<lists, confused>>
  /\ UNCHANGED <<proxied, visit, custom, filterLists, row, adding, importing, clicks>>

\* Faulty: only a switch is followed by a fetch.
FetchAfterSwitch(i) ==
  asked' = IF asked[i].do = "toggle"
           THEN Append(RemoveAt(asked, i), Fetch(asked[i].visit)) ELSE RemoveAt(asked, i)

\* onToggled, onRemoved, onAdd: after an error too, but for an import.
FetchAfter(i) ==
  asked' = IF asked[i].do = "import" /\ asked[i].state = "failed" THEN RemoveAt(asked, i)
           ELSE Append(RemoveAt(asked, i), Fetch(asked[i].visit))

\* The row that asked, when it is still mounted.
SettleRow(i) ==
  LET call == asked[i] IN
  row' = IF call.visit # visit \/ row[call.url].mount # call.mount \/ row[call.url].checked = "absent" THEN row
         ELSE CASE call.do = "toggle" ->
                     [row EXCEPT ![call.url].busy = FALSE,
                                 ![call.url].checked = IF call.state = "failed" THEN Flipped(call.value) ELSE @]
                [] call.do = "remove" -> [row EXCEPT ![call.url].deleting = FALSE]
                [] OTHER -> row

WriteReturns(i) ==
  /\ asked[i].state # "sent" /\ asked[i].do # "fetch"
  /\ SettleRow(i) /\ FetchAfter(i)
  /\ adding' = (adding /\ ~(asked[i].do = "add" /\ asked[i].visit = visit))
  /\ importing' = (importing /\ ~(asked[i].do = "import" /\ asked[i].visit = visit))
  /\ UNCHANGED <<lists, proxied, visit, custom, filterLists, clicks, confused>>

\* fetchLists after its await: the answer of an earlier fetch may come later.
FetchReturns(i) ==
  /\ asked[i].state = "done" /\ asked[i].do = "fetch"
  /\ asked' = RemoveAt(asked, i)
  /\ IF asked[i].visit # visit THEN UNCHANGED <<filterLists, row, confused>>
     ELSE /\ filterLists' = asked[i].value
          /\ row' = Rows(asked[i].value)
          /\ confused' = \/ confused
                         \/ \E j \in 1 .. i - 1 : asked[j].do = "fetch" /\ asked[j].visit = visit
                         \/ /\ custom
                            /\ \E u \in Urls : row[u].checked = "absent" /\ OutOfDate(u, asked[i].value[u])
  /\ UNCHANGED <<lists, proxied, visit, custom, adding, importing, clicks>>

-----------------------------------------------------------------------------

FreshPage ==
  /\ proxied = FALSE /\ visit = 1 /\ custom = TRUE
  /\ filterLists = Nothing /\ row = [u \in Urls |-> NoRow(0)]
  /\ adding = FALSE /\ importing = FALSE /\ clicks = 0 /\ confused = FALSE

PageInit ==
  /\ lists \in [Urls -> States] /\ FreshPage
  /\ asked = <<Fetch(1)>>

NoPage == lists = Nothing /\ FreshPage /\ asked = <<>>

PageNext ==
  \/ ListsClicked \/ SetType \/ Revisit \/ ProxyFlips
  \/ \E i \in DOMAIN asked : ConfigServes(i) \/ WriteReturns(i) \/ FetchReturns(i)

-----------------------------------------------------------------------------
\* Properties.

\* When every call has been answered, the page lists what the configuration
\* lists, and every switch stands where its list does: after toggles, removals,
\* additions and imports that overlapped, after visits to other tabs and types.
\* (Excepted: a save that failed and is in force all the same, an answer that
\* an older one overwrote, a list that was removed and added again under the
\* same row, and a row mounted while its list was being switched. A dialog that
\* were not modal could be left open and the page revisited: a list it imports
\* then is fetched for the old page only, and the new one lacks it.)
ListsTellTruth ==
  asked = <<>> /\ ~confused =>
    /\ filterLists = lists
    /\ custom => \A u \in Urls : row[u].checked = lists[u]

=============================================================================
