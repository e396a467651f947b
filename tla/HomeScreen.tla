------------------------------- MODULE HomeScreen -------------------------------
(***************************************************************************)
(* What the PWA's home screen shows: the machines in the settings, the     *)
(* status each link reports, the workspaces the aggregator holds, the      *)
(* grace clock that tells "Connecting" from "Can't reach", and the folder  *)
(* filter with its pruning.                                                *)
(*                                                                         *)
(* A link is seen through the statuses MachineConnection emits: a new one  *)
(* starts with `connecting`, and one replaced by setMachines ends without  *)
(* an `offline`.  All workspaces of a machine lie in one folder.           *)
(***************************************************************************)
EXTENDS Naturals, FiniteSets

CONSTANTS
  Machines,      \* machine configurations
  Folders,       \* project folders
  FolderOf,      \* the folder of each machine's workspaces
  MaxRefocus     \* bound: how often the app is reloaded or brought back to the front

Windows == {"none", "short", "long"}

VARIABLES
  config,     \* settings: "absent", "off" or "on"
  status,     \* PerchStore.statuses
  reached,    \* PerchStore.reachedOnce
  listed,     \* machines whose workspaces the aggregator holds
  elapsed,    \* PerchStore.graceElapsed
  grace,      \* the grace timer: not armed, or armed for GRACE_MS or longer
  filter,     \* PerchStore.folderFilter
  populated,  \* the agents that have a workspace
  refocuses   \* bound counter

vars == <<config, status, reached, listed, elapsed, grace, filter, populated, refocuses>>

Enabled(c) == {m \in Machines : c[m] = "on"}
AnyOnline(c, s) == \E m \in Enabled(c) : s[m] = "online"

TypeOK ==
  /\ config \in [Machines -> {"absent", "off", "on"}]
  /\ status \in [Machines -> {"unset", "connecting", "online", "offline"}]
  /\ reached \subseteq Machines /\ listed \subseteq Machines /\ populated \subseteq Machines
  /\ elapsed \in BOOLEAN /\ grace \in Windows
  /\ filter \subseteq Folders /\ refocuses \in 0..MaxRefocus

-----------------------------------------------------------------------------
(* The grace clock *)

\* Faulty variant: the timer is left running when a machine comes online.
RegraceLazily(c, s, r, over, armed) ==
  IF Enabled(c) = {} \/ AnyOnline(c, s) THEN elapsed' = FALSE /\ grace' = armed
  ELSE /\ elapsed' = over
       /\ grace' = IF over \/ armed # "none" THEN armed
                   ELSE IF r \cap Enabled(c) # {} THEN "long" ELSE "short"

\* Faulty variant: each call arms the timer afresh, and an elapsed grace with it.
RegraceAnew(c, s, r, over, armed) ==
  IF Enabled(c) = {} \/ AnyOnline(c, s) THEN elapsed' = FALSE /\ grace' = "none"
  ELSE elapsed' = FALSE /\ grace' = IF r \cap Enabled(c) # {} THEN "long" ELSE "short"

\* Faulty variant: a machine that was reached before needs no timer.
RegraceForNew(c, s, r, over, armed) ==
  IF Enabled(c) = {} \/ AnyOnline(c, s) THEN elapsed' = FALSE /\ grace' = "none"
  ELSE /\ elapsed' = over
       /\ grace' = IF over \/ armed # "none" \/ r \cap Enabled(c) # {} THEN armed ELSE "short"

\* recomputeGrace, after a change to the machines `c`, their statuses `s` and
\* those once reached `r`; `over` and `armed` are the clock before it.
Regrace(c, s, r, over, armed) ==
  IF Enabled(c) = {} \/ AnyOnline(c, s) THEN elapsed' = FALSE /\ grace' = "none"
  ELSE /\ elapsed' = over
       /\ grace' = IF over \/ armed # "none" THEN armed
                   ELSE IF r \cap Enabled(c) # {} THEN "long" ELSE "short"

GraceExpires ==
  /\ grace # "none"
  /\ elapsed' = TRUE /\ grace' = "none"
  /\ UNCHANGED <<config, status, reached, listed, filter, populated, refocuses>>

\* deriveHomeView.
HomeView ==
  IF Enabled(config) = {} THEN "add-machine"
  ELSE IF listed # {} THEN "list"
  ELSE IF AnyOnline(config, status) THEN "create"
  ELSE IF elapsed THEN "unreachable"
  ELSE IF Enabled(config) \cap reached # {} THEN "reconnecting" ELSE "connecting"

-----------------------------------------------------------------------------
(* The folder filter *)

FoldersOf(ms) == {FolderOf[m] : m \in ms}

\* Faulty variant: the filter ends up with machines instead of folders.
PrunedToMachines(keys, ms) == IF ms = {} THEN keys ELSE ms

\* Faulty variant: a filter is never pruned.
PrunedNever(keys, ms) == keys

\* pruneStaleFilter, once any workspace is shown.
Pruned(keys, ms) == IF ms = {} THEN keys ELSE keys \cap FoldersOf(ms)

\* filterWorkspaces: the machines whose workspaces the list shows.
Visible == IF filter = {} THEN listed ELSE {m \in listed : FolderOf[m] \in filter}

\* The aggregator's change and the list's effect that prunes the filter.
List(ms) == listed' = ms /\ filter' = Pruned(filter, ms)

\* The filter is offered when there is more than one folder.
ToggleFolder(f) ==
  /\ HomeView = "list" /\ Cardinality(FoldersOf(listed)) > 1 /\ f \in FoldersOf(listed)
  /\ filter' = IF f \in filter THEN filter \ {f} ELSE filter \cup {f}
  /\ UNCHANGED <<config, status, reached, listed, elapsed, grace, populated, refocuses>>

-----------------------------------------------------------------------------
(* Settings *)

\* The clock after setMachines: each link's `connecting` recomputes it on the way, and
\* one may do so while a machine made anew after it still counts as online, as the last
\* status of one that was switched off does.
Restarted(c) ==
  \/ Regrace(c, status', reached, elapsed, grace)
  \/ /\ \E m, n \in Enabled(c) : m # n /\ status[n] = "online"
     /\ Regrace(c, status', reached, FALSE, "none")

\* Faulty variant: a machine that is switched off keeps its workspaces.
SetMachinesKeepingRows(c) ==
  /\ config' = c
  /\ status' = [m \in Machines |-> IF c[m] = "on" THEN "connecting" ELSE status[m]]
  /\ List(listed) /\ Restarted(c)
  /\ UNCHANGED <<reached, populated, refocuses>>

\* ConnectionManager.setMachines: the links of machines no longer wanted close
\* and their workspaces go; every other link is closed and made anew, and says
\* `connecting` at once.
SetMachines(c) ==
  /\ config' = c
  /\ status' = [m \in Machines |-> IF c[m] = "on" THEN "connecting" ELSE status[m]]
  /\ List(listed \cap Enabled(c)) /\ Restarted(c)
  /\ UNCHANGED <<reached, populated, refocuses>>

\* A machine of the same name is replaced.
AddMachine(m) == SetMachines([config EXCEPT ![m] = "on"])
UpdateMachine(m) == config[m] # "absent" /\ SetMachines(config)
RemoveMachine(m) == config[m] # "absent" /\ SetMachines([config EXCEPT ![m] = "absent"])
ToggleMachine(m) ==
  /\ config[m] # "absent"
  /\ SetMachines([config EXCEPT ![m] = IF @ = "on" THEN "off" ELSE "on"])

-----------------------------------------------------------------------------
(* The links *)

\* setStatus; the aggregator has dropped the rows of a machine gone offline.
SetStatus(m, s) ==
  LET r == IF s = "online" THEN reached \cup {m} ELSE reached IN
  /\ status' = [status EXCEPT ![m] = s]
  /\ reached' = r
  /\ IF s = "offline" THEN List(listed \ {m}) ELSE UNCHANGED <<listed, filter>>
  /\ Regrace(config, status', r, elapsed, grace)
  /\ UNCHANGED <<config, populated, refocuses>>

Retry(m) == m \in Enabled(config) /\ status[m] = "offline" /\ SetStatus(m, "connecting")
Online(m) == m \in Enabled(config) /\ status[m] = "connecting" /\ SetStatus(m, "online")
Drop(m) ==
  /\ m \in Enabled(config) /\ status[m] \in {"connecting", "online"}
  /\ SetStatus(m, "offline")

\* The answer to `list`, or a later change, on a link that is online.
ListArrives(m) ==
  /\ m \in Enabled(config) /\ status[m] = "online"
  /\ List(IF m \in populated THEN listed \cup {m} ELSE listed \ {m})
  /\ UNCHANGED <<config, status, reached, elapsed, grace, populated, refocuses>>

\* An agent's first workspace is created, or its last one closed.
AgentChanges(m) ==
  /\ populated' = IF m \in populated THEN populated \ {m} ELSE populated \cup {m}
  /\ UNCHANGED <<config, status, reached, listed, elapsed, grace, filter, refocuses>>

\* reconnectAll: a fresh grace, and a new attempt for each idle-offline machine.
ReconnectAll ==
  /\ refocuses < MaxRefocus /\ refocuses' = refocuses + 1
  /\ status' = [m \in Machines |->
                  IF m \in Enabled(config) /\ status[m] \notin {"online", "connecting"}
                  THEN "connecting" ELSE status[m]]
  /\ Regrace(config, status', reached, FALSE, "none")
  /\ UNCHANGED <<config, reached, listed, filter, populated>>

\* The Reconnect button of one machine in the settings.
ReconnectMachine(m) ==
  /\ m \in Enabled(config) /\ status[m] \notin {"online"}
  /\ SetStatus(m, "connecting")

\* The app is loaded again: settings and filter were stored, the rest was not.
Reload ==
  /\ refocuses < MaxRefocus /\ refocuses' = refocuses + 1
  /\ status' = [m \in Machines |-> IF config[m] = "on" THEN "connecting" ELSE "unset"]
  /\ reached' = {} /\ listed' = {}
  /\ Regrace(config, status', {}, FALSE, "none")
  /\ UNCHANGED <<config, filter, populated>>

Init ==
  /\ config = [m \in Machines |-> "absent"]
  /\ status = [m \in Machines |-> "unset"]
  /\ reached = {} /\ listed = {} /\ populated = {} /\ filter = {}
  /\ elapsed = FALSE /\ grace = "none" /\ refocuses = 0

Next ==
  \/ GraceExpires \/ ReconnectAll \/ Reload
  \/ \E f \in Folders : ToggleFolder(f)
  \/ \E m \in Machines :
       \/ AddMachine(m) \/ UpdateMachine(m) \/ RemoveMachine(m) \/ ToggleMachine(m)
       \/ Retry(m) \/ Online(m) \/ Drop(m) \/ ListArrives(m) \/ AgentChanges(m)
       \/ ReconnectMachine(m)

Spec == Init /\ [][Next]_vars

\* The grace timer fires, as setTimeout promises; nothing else is needed.
LiveSpec == Spec /\ WF_vars(GraceExpires)

-----------------------------------------------------------------------------
(* Properties *)

Waiting == {"connecting", "reconnecting"}

\* The clock runs exactly while machines are wanted, none is online and the
\* grace is not over: no screen spins without a timer to end it, and none runs
\* on into the next drop.
ClockMatchesLinks ==
  (grace # "none") <=> (Enabled(config) # {} /\ ~AnyOnline(config, status) /\ ~elapsed)

\* The workspaces on screen belong to machines that are switched on and were
\* not seen dropping.
NoOrphanRows == \A m \in listed : config[m] = "on" /\ status[m] # "offline"

\* However machines come and go, the filter never empties a list that has rows.
FilterShowsSomething == listed # {} => Visible # {}

\* Links that retry and fail do not make the home screen flicker: without a row
\* to lose, only the clock, the user or an answer changes it.
NoFlicker ==
  \A m \in Machines :
       (/\ {status[m], status'[m]} = {"connecting", "offline"}
        /\ \A n \in Machines \ {m} : status'[n] = status[n]
        /\ config' = config /\ m \notin listed /\ refocuses' = refocuses)
       => HomeView' = HomeView

\* A spinner gives way: to a list, the create screen or the reconnect screen.
Spins == HomeView \in Waiting
SpinnerEnds == Spins ~> ~Spins

\* The alarming screen is only for machines that never connected.
UnreachableOnlyIfNeverConnected ==
  HomeView = "unreachable" => Enabled(config) \cap reached = {}

\* A stored filter outlives a reload: no folder is dropped from it while a
\* machine that has workspaces in it has not connected yet.
FilterAwaitsItsMachines ==
  [][\A m \in populated \cap Enabled(config) :
       (/\ m \notin reached' /\ config' = config
        /\ FolderOf[m] \in filter /\ FolderOf[m] \notin filter')
       => listed' = listed]_vars
================================================================================
