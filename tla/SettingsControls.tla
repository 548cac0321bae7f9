-------------------------- MODULE SettingsControls --------------------------
(***************************************************************************)
(* frontend: the controls of the settings and rules pages.  One control is *)
(* on the page or not; it reads its setting when it is mounted, and writes *)
(* it at once or when the user has not typed for half a second.  Every     *)
(* binding is a promise: the backend performs the call, and then the       *)
(* window is told.                                                         *)
(*                                                                         *)
(* A setting is a set: {} or {"on"} for a switch, the one text of a field, *)
(* the libraries listed as enabled, the chosen applications with           *)
(* "allowlist" when that is the mode.  A typed text is saved without the   *)
(* blanks around it, and what is no number as port 0.  (SetRouting trims   *)
(* its paths too: no application has a path with blanks around it.)        *)
(***************************************************************************)
EXTENDS Naturals, SequencesExt, FiniteSets

CONSTANTS Texts, Libraries, Apps,
          SavedAs,   \* of each text, the one it is saved as
          MaxActs    \* bound: acts of the user

ASSUME ControlsAssumption ==
  /\ MaxActs \in Nat
  /\ SavedAs \in [Texts -> Texts] /\ \A t \in Texts : SavedAs[SavedAs[t]] = SavedAs[t]

VARIABLES
  control,   \* the control of this behaviour
  config,    \* its setting in the memory of the backend
  running,   \* isProxyRunning
  mount,     \* which mounting of the control this is, 0: it is not on the page
  shown,     \* what it shows
  loading,   \* state.loading; for the routing, that it shows nothing yet
  open,      \* the dialog of CAKeyStorageSwitch
  timer,     \* of useDebouncedCallback: what it will save
  calls,     \* [do, value, before, mount, state], in the order they were made
  mounts, acts,  \* counters, the second bounded by MaxActs
  muddled,   \* history: since the mounting, something the control cannot know
  unread     \* history: the question of this mounting has failed

controlVars == <<control, config, running, mount, shown, loading, open, timer, calls,
                 mounts, acts, muddled, unread>>

Fields == {"Rules", "IgnoredHostsInput", "PortInput", "PACPortInput", "CustomResourceDir"}
Switches == {"EnableToggle", "BlockMissingToggle", "AutostartSwitch", "AutoupdateSwitch"}
Controls == Fields \union Switches \union {"LibraryList", "AppRoutingSettings", "CAKeyStorageSwitch"}

Settings(c) ==
  CASE c \in Fields -> {{t} : t \in Texts}
    [] c = "LibraryList" -> SUBSET Libraries
    [] c = "AppRoutingSettings" -> SUBSET (Apps \union {"allowlist"})
    [] OTHER -> {{}, {"on"}}

\* What is saved of a setting.  PACPortInput passes over what is no number.
Saved(setting) ==
  IF control \in Fields \ {"PACPortInput"} THEN {SavedAs[t] : t \in setting \intersect Texts}
  ELSE setting

\* The setters and getters of these take the lock of the configuration and
\* nothing else, so that it performs them in turn.
InTurn == control \notin {"AutostartSwitch", "CAKeyStorageSwitch"}

\* An empty list of libraries stands for all of them (LibraryInfos).
InEffect(setting) == IF control = "LibraryList" /\ setting = {} THEN Libraries ELSE setting

Call(do, value, before) ==
  [do |-> do, value |-> value, before |-> before, mount |-> mount, state |-> "sent"]

On(c) == control = c /\ mount > 0
Disabled == loading \/ running
InFlight(do) == \E i \in DOMAIN calls : calls[i].do = do

-----------------------------------------------------------------------------
\* What the user does.  The dialog that selects an application is modal.

Act ==
  /\ acts < MaxActs /\ acts' = acts + 1
  /\ ~InFlight("select")

\* A control that acts before it has read its setting may be overwritten; so
\* may the switch that is never disabled, by the answer to an earlier click.
Edited ==
  muddled' = (muddled \/ \E i \in DOMAIN calls :
                calls[i].mount = mount /\ (calls[i].do = "get" \/ control = "AutoupdateSwitch"))

Edit(value) ==
  /\ shown' = value /\ timer' = <<value>>
  /\ Edited /\ UNCHANGED <<loading, open, calls>>

Send(call, nowLoading) ==
  /\ calls' = Append(calls, call) /\ loading' = nowLoading
  /\ Edited /\ UNCHANGED <<open, timer>>

Flip == Send(Call("set", {"on"} \ shown, shown), TRUE) /\ UNCHANGED shown

\* Every text can be typed while the list of rules is still being read.
Rules == On("Rules") /\ ~running /\ \E v \in Settings("Rules") : Edit(v)

IgnoredHostsInput == On("IgnoredHostsInput") /\ ~Disabled /\ \E v \in Settings(control) : Edit(v)
PortInput == On("PortInput") /\ ~Disabled /\ \E v \in Settings(control) : Edit(v)
PACPortInput == On("PACPortInput") /\ ~Disabled /\ \E v \in Settings(control) : Edit(v)
CustomResourceDir == On("CustomResourceDir") /\ ~Disabled /\ \E v \in Settings(control) : Edit(v)

EnableToggle == On("EnableToggle") /\ ~Disabled /\ Flip
BlockMissingToggle == On("BlockMissingToggle") /\ ~Disabled /\ Flip
AutostartSwitch == On("AutostartSwitch") /\ ~loading /\ Flip
\* Never disabled: not while it reads its setting, nor while it writes it.
AutoupdateSwitch == On("AutoupdateSwitch") /\ Flip

LibraryList ==
  /\ On("LibraryList") /\ ~Disabled
  /\ \E lib \in Libraries : Send(Call("set", {lib}, shown), TRUE)
  /\ UNCHANGED shown

\* saveRouting: shown before it is saved; before: what the handler closed over.
SaveRouting(next, before) == shown' = next /\ Send(Call("set", next, before), FALSE)

Toggled(x) == IF x \in shown THEN shown \ {x} ELSE shown \union {x}

AppRoutingSettings ==
  /\ On("AppRoutingSettings") /\ ~Disabled
  /\ \/ SaveRouting(Toggled("allowlist"), shown)
     \/ \E app \in shown \intersect Apps : SaveRouting(shown \ {app}, shown)
     \/ Send(Call("select", {}, shown), FALSE) /\ UNCHANGED shown

\* The switch opens a dialog; the dialog does not look at the proxy again.
CAKeyStorageSwitch ==
  /\ On("CAKeyStorageSwitch") /\ UNCHANGED shown
  /\ \/ ~Disabled /\ ~open /\ open' = TRUE /\ UNCHANGED <<timer, loading, calls, muddled>>
     \/ open /\ ~loading /\ Flip
     \/ open /\ open' = FALSE /\ UNCHANGED <<timer, loading, calls, muddled>>

UserActs ==
  /\ Act
  /\ \/ Rules \/ IgnoredHostsInput \/ PortInput \/ PACPortInput \/ CustomResourceDir
     \/ EnableToggle \/ BlockMissingToggle \/ AutostartSwitch \/ AutoupdateSwitch
     \/ LibraryList \/ AppRoutingSettings \/ CAKeyStorageSwitch
  /\ UNCHANGED <<control, config, running, mount, mounts, unread>>

\* What a control shows before it has read its setting.
AtFirst == IF control = "EnableToggle" THEN {"on"} ELSE {}

\* The calls of an earlier mounting may still be under way.
Mount ==
  /\ Act /\ mount = 0
  /\ mounts' = mounts + 1 /\ mount' = mounts + 1
  /\ shown' = AtFirst /\ loading' = (control # "AutoupdateSwitch") /\ open' = FALSE /\ timer' = <<>>
  /\ calls' = Append(calls, [Call("get", {}, {}) EXCEPT !.mount = mounts + 1])
  /\ muddled' = (~InTurn /\ calls # <<>>) /\ unread' = FALSE
  /\ UNCHANGED <<control, config, running>>

\* useDebouncedCallback drops what it would have saved.
Unmount ==
  /\ Act /\ mount > 0
  /\ mount' = 0 /\ shown' = {} /\ loading' = FALSE /\ open' = FALSE /\ timer' = <<>>
  /\ unread' = FALSE
  /\ UNCHANGED <<control, config, running, calls, mounts, muddled>>

\* Through the button, the hotkey or the tray.
ProxyTurns ==
  /\ Act
  /\ running' = ~running
  /\ UNCHANGED <<control, config, mount, shown, loading, open, timer, calls, mounts, muddled,
                 unread>>

-----------------------------------------------------------------------------
\* The debounced save, the backend, and the handlers after their await.

TimerFires ==
  /\ timer # <<>>
  /\ timer' = <<>> /\ calls' = Append(calls, Call("set", timer[1], {}))
  /\ UNCHANGED <<control, config, running, mount, shown, loading, open, mounts, acts, muddled,
                 unread>>

\* SetLocalResourcesLibraryEnabled rewrites the list of the enabled ones.
Written(call) ==
  IF control # "LibraryList" THEN Saved(call.value)
  ELSE IF call.value \subseteq call.before THEN config \ call.value ELSE config \union call.value

\* SetPACPort checks the range; Enable and Disable, and the certificate store,
\* do what may fail; SetCAKeyStorage wants the proxy to be off.
MayRefuse == control \in {"PACPortInput", "AutostartSwitch", "CAKeyStorageSwitch"}
Refuses == control = "CAKeyStorageSwitch" /\ running

\* A setting that cannot be saved is in force all the same (Config.update), and
\* so is the entry that Enable has made and cannot write to the end.
PerformSet(i) ==
  \/ /\ ~Refuses /\ config' = Written(calls[i])
     /\ \/ calls' = [calls EXCEPT ![i].state = "done"] /\ UNCHANGED muddled
        \/ /\ control = "AutostartSwitch" => calls[i].value = {"on"}
           /\ calls' = [calls EXCEPT ![i].state = "failed"] /\ muddled' = TRUE
  \/ /\ MayRefuse \/ Refuses
     /\ calls' = [calls EXCEPT ![i].state = "failed"]
     /\ muddled' = (muddled \/ control \in Fields)
     /\ UNCHANGED config

Perform(i) ==
  /\ calls[i].state = "sent"
  /\ InTurn => \A j \in 1 .. i - 1 : calls[j].state # "sent"
  /\ \/ calls[i].do = "set" /\ PerformSet(i)
     \/ /\ calls[i].do \in {"get", "reread"}
        /\ calls' = [calls EXCEPT ![i].state = "done", ![i].value = InEffect(config)]
        /\ UNCHANGED <<config, muddled>>
     \/ /\ calls[i].do = "get" /\ control = "AutostartSwitch"   \* IsEnabled
        /\ calls' = [calls EXCEPT ![i].state = "failed"]
        /\ UNCHANGED <<config, muddled>>
     \/ /\ calls[i].do = "select"
        /\ \E chosen \in {{}} \union {{app} : app \in Apps} :
             calls' = [calls EXCEPT ![i].state = "done", ![i].value = chosen]
        /\ UNCHANGED <<config, muddled>>
  /\ UNCHANGED <<control, running, mount, shown, loading, open, timer, mounts, acts, unread>>

Without(i) == RemoveAt(calls, i)

\* Faulty: the switch is set after an error too.
HastySwitch(call) == shown' = call.value /\ loading' = FALSE

\* Faulty: an error leaves the switch as if it were still being written.
StuckSwitch(call) ==
  /\ shown' = (IF call.state = "done" THEN call.value ELSE shown)
  /\ loading' = (call.state = "failed")

\* enable and disable, setEnabled, setBlockMissing.
SwitchSet(call) ==
  /\ shown' = (IF call.state = "done" THEN call.value ELSE shown)
  /\ loading' = FALSE

LibrarySet(call) ==
  /\ shown' = (IF call.state # "done" THEN shown
               ELSE IF call.value \subseteq call.before THEN shown \ call.value ELSE shown \union call.value)
  /\ loading' = FALSE

\* Of a set that has returned, for the mounting that made it.
AfterSet(call, i) ==
  \/ control \in Switches /\ SwitchSet(call) /\ calls' = Without(i)
  \/ control = "LibraryList" /\ LibrarySet(call) /\ calls' = Without(i)
  \/ control \in Fields /\ calls' = Without(i) /\ UNCHANGED <<shown, loading>>
  \/ /\ control = "AppRoutingSettings" /\ calls' = Without(i)
     /\ shown' = (IF call.state = "failed" THEN call.before ELSE shown)
     /\ UNCHANGED loading
  \/ /\ control = "CAKeyStorageSwitch"
     /\ calls' = Append(Without(i), Call("reread", {}, {}))
     /\ UNCHANGED <<shown, loading>>

\* addApp after its await: what it closed over, with the application chosen.
AfterSelect(call, i) ==
  IF call.value \subseteq call.before THEN calls' = Without(i) /\ UNCHANGED shown
  ELSE /\ calls' = Append(Without(i), Call("set", call.before \union call.value, call.before))
       /\ shown' = call.before \union call.value

\* A first read that fails is caught by nobody.
AfterRead(call) ==
  IF call.state = "done"
  THEN /\ shown' = call.value /\ loading' = FALSE
       /\ open' = (open /\ call.do = "get") /\ UNCHANGED unread
  ELSE unread' = TRUE /\ UNCHANGED <<shown, loading, open>>

Return(i) ==
  /\ calls[i].state # "sent"
  /\ IF calls[i].mount # mount
     THEN calls' = Without(i) /\ UNCHANGED <<shown, loading, open, unread>>
     ELSE \/ calls[i].do \in {"get", "reread"} /\ AfterRead(calls[i]) /\ calls' = Without(i)
          \/ calls[i].do = "set" /\ AfterSet(calls[i], i) /\ UNCHANGED <<open, unread>>
          \/ /\ calls[i].do = "select" /\ AfterSelect(calls[i], i)
             /\ UNCHANGED <<loading, open, unread>>
  /\ UNCHANGED <<control, config, running, mount, timer, mounts, acts, muddled>>

-----------------------------------------------------------------------------

Idle ==
  /\ running = FALSE /\ mount = 0 /\ shown = {} /\ loading = FALSE /\ open = FALSE /\ timer = <<>>
  /\ calls = <<>> /\ mounts = 0 /\ acts = 0 /\ muddled = FALSE
  /\ unread = FALSE

ControlsInit == control \in Controls /\ config \in {Saved(v) : v \in Settings(control)} /\ Idle
NoControls == control = "Rules" /\ config = {} /\ Idle

Proceeds == TimerFires \/ \E i \in DOMAIN calls : Perform(i) \/ Return(i)

ControlsNext == UserActs \/ Mount \/ Unmount \/ ProxyTurns \/ Proceeds

\* Timers fire, the backend performs its calls, and every promise is settled.
ControlsFairness == WF_controlVars(Proceeds)

-----------------------------------------------------------------------------
\* Properties.

Quiet == mount > 0 /\ ~loading /\ timer = <<>> /\ calls = <<>>

\* What a control at rest shows is, but for blanks around a text and for a port
\* that is no number, the setting that is in force, whatever was typed,
\* switched, refused or left half-way before, in this mounting or an earlier
\* one.  (Excepted are what a control cannot know: a failed save that is in
\* force all the same, and an answer to a question that was overtaken; and
\* LibraryList, of which it is false: LibrariesAsShown.)
ControlsTellTruth == Quiet /\ ~muddled /\ control # "LibraryList" => config = Saved(shown)

\* No control stays disabled by its own loading, after an error of a save or an
\* interruption either.  (Excepted is AutostartSwitch after its first read has
\* failed: nothing catches that, and it is disabled until it is mounted again.)
ControlsSettle == loading ~> ~loading \/ unread

\* "SetLocalResourcesLibraryEnabled enables or disables a single library"
\* (internal/config/config.go): what the list shows as enabled is enabled.
LibrariesAsShown == Quiet /\ ~muddled => shown = InEffect(config)

=============================================================================
