----------------------------- MODULE TerminalSession -----------------------------
(***************************************************************************)
(* The phone's open terminal against the attachment the agent holds for    *)
(* it: PerchStore.active, view and terminalState, the TerminalView that    *)
(* mounts, refreshes and re-attaches, the machine's link, and a rival      *)
(* device that opens the same workspaces.  The agent's pty and registry    *)
(* are in Viewers; here an attachment is the workspace it shows.           *)
(*                                                                         *)
(* `Faults` names the orders of events in which the code is known to leave *)
(* a live-looking terminal without an attachment:                          *)
(*   "reopen"   the open workspace is tapped again in the wide layout      *)
(*   "restart"  settings replace every MachineConnection                   *)
(*   "slow"     an attach waits on the agent and is overtaken              *)
(*   "exit"     the attachment's pty exits alone (the detach key of tmux)  *)
(*   "park"     a device, this one included, parks the workspace shown     *)
(* In the last two the agent says `detached` with reason closed, which the *)
(* store ignores.                                                          *)
(***************************************************************************)
EXTENDS Naturals, Sequences

CONSTANTS
  Ids,      \* workspaces of the one machine
  None,     \* no workspace
  Faults,   \* subset of {"reopen", "restart", "slow", "exit", "park"}
  MaxMsgs   \* bound: messages in flight each way

VARIABLES
  view,          \* "list", "terminal", or "away": another view over the terminal
  active,        \* PerchStore.active
  shown,         \* PerchStore.terminalState
  healed,        \* history: attached on a quiet link; nothing of ours, no exit, no park since
  link,          \* status of the machine: "offline", "dialing", "open", "online"
  dead,          \* the socket has died and the phone has not noticed
  disconnected,  \* the machine is in PerchStore.disconnected
  toAgent, toPhone,  \* messages in flight, in order
  waiting,       \* attaches of the live connection still awaiting
  viewing,       \* ConnectionHandler.attachment of the phone's live connection
  ghosts,        \* attachments and waits of connections the phone has lost
  rival,         \* the other device's attachment
  alive,         \* workspaces with a tmux session, or parked
  parked         \* those with a record and no session

phone == <<view, active, shown, healed>>
agent == <<waiting, viewing, ghosts, rival, alive, parked>>
vars == <<phone, link, dead, disconnected, toAgent, toPhone, agent>>

Mounted == view = "terminal" /\ active # None

TypeOK ==
  /\ view \in {"list", "terminal", "away"} /\ active \in Ids \cup {None}
  /\ shown \in {"live", "moved"} /\ healed \in BOOLEAN
  /\ link \in {"offline", "dialing", "open", "online"}
  /\ dead \in BOOLEAN /\ disconnected \in BOOLEAN
  /\ toAgent \in Seq({"attach", "detach", "close"} \X Ids) /\ Len(toAgent) <= MaxMsgs
  /\ toPhone \in Seq({"moved", "closed"} \X Ids)
  /\ waiting \subseteq Ids /\ viewing \in Ids \cup {None}
  /\ ghosts \subseteq {"held", "awaiting"} \X Ids
  /\ rival \in Ids \cup {None} /\ alive \subseteq Ids /\ parked \subseteq alive

Init ==
  /\ view = "list" /\ active = None /\ shown = "live" /\ healed = FALSE
  /\ link = "online" /\ dead = FALSE /\ disconnected = FALSE
  /\ toAgent = <<>> /\ toPhone = <<>>
  /\ waiting = {} /\ viewing = None /\ ghosts = {} /\ rival = None
  /\ alive = Ids /\ parked = {}

-----------------------------------------------------------------------------
(* The phone *)

\* Whether a message reaches the wire: a socket that is missing or CONNECTING
\* swallows it, a dead one too.
Reaches == link \in {"open", "online"} /\ ~dead

Sent(msgs, new) == IF Reaches THEN msgs \o new ELSE msgs

Post(new) == Len(toAgent) + Len(new) <= MaxMsgs /\ toAgent' = Sent(toAgent, new)

\* PerchStore.attach for the terminal in view.
Attach(w) == Post(<<<<"attach", w>>>>)

\* A tap in the list, or in the sidebar of the wide layout: open() and, when the
\* view is keyed on another id or was not there, a new TerminalView that attaches.
Open(w) ==
  /\ w \in alive
  /\ (Mounted /\ active = w) => "reopen" \in Faults
  /\ view' = "terminal" /\ active' = w /\ shown' = "live" /\ healed' = FALSE
  /\ IF Mounted /\ active = w THEN UNCHANGED toAgent ELSE Attach(w)
  /\ UNCHANGED <<link, dead, disconnected, toPhone, agent>>

\* Files, settings or the create form over the terminal: it unmounts, no detach.
Leave ==
  /\ Mounted
  /\ view' = "away" /\ healed' = FALSE
  /\ UNCHANGED <<active, shown, link, dead, disconnected, toAgent, toPhone, agent>>

\* closeBrowser, closeViewer, cancelCreate: back over the same workspace.
Return ==
  /\ view = "away" /\ active # None
  /\ view' = "terminal" /\ Attach(active)
  /\ UNCHANGED <<healed, active, shown, link, dead, disconnected, toPhone, agent>>

\* Faulty variant: the workspace is forgotten before the detach names it.
BackForgetting ==
  /\ active # None
  /\ active' = None /\ view' = "list" /\ healed' = FALSE
  /\ UNCHANGED <<shown, link, dead, disconnected, toAgent, toPhone, agent>>

\* Back to the list.
Back ==
  /\ active # None
  /\ Post(<<<<"detach", active>>>>)
  /\ active' = None /\ view' = "list" /\ healed' = FALSE
  /\ UNCHANGED <<shown, link, dead, disconnected, toPhone, agent>>

\* closeActive: the workspace is closed from its own terminal.
CloseActive ==
  /\ Mounted
  /\ Post(<<<<"close", active>>>>)
  /\ active' = None /\ view' = "list" /\ healed' = FALSE
  /\ UNCHANGED <<shown, link, dead, disconnected, toPhone, agent>>

\* Nothing of this connection is on its way or awaited.
Quiet == Reaches /\ toAgent = <<>> /\ waiting = {}

\* Faulty variant: refresh only clears xterm.
RefreshScreen ==
  /\ Mounted
  /\ healed' = (healed \/ Quiet)
  /\ UNCHANGED <<view, active, shown, link, dead, disconnected, toAgent, toPhone, agent>>

\* The refresh button, or the app comes back to the foreground: attach again.
Refresh ==
  /\ Mounted /\ Attach(active)
  /\ healed' = (healed \/ Quiet)
  /\ UNCHANGED <<view, active, shown, link, dead, disconnected, toPhone, agent>>

\* The overlay's button: the same with the overlay gone.
TakeOver ==
  /\ Mounted /\ shown = "moved"
  /\ shown' = "live" /\ Attach(active) /\ healed' = (healed \/ Quiet)
  /\ UNCHANGED <<view, active, link, dead, disconnected, toPhone, agent>>

\* `detached` with reason opened-elsewhere.
HearMoved ==
  /\ toPhone # <<>> /\ Head(toPhone)[1] = "moved"
  /\ toPhone' = Tail(toPhone)
  /\ shown' = IF active = Head(toPhone)[2] THEN "moved" ELSE shown
  /\ UNCHANGED <<view, active, healed, link, dead, disconnected, toAgent, agent>>

\* `closed`: back() when it is the open workspace.
HearClosed ==
  /\ toPhone # <<>> /\ Head(toPhone)[1] = "closed"
  /\ toPhone' = Tail(toPhone)
  /\ IF active = Head(toPhone)[2]
     THEN /\ Post(<<<<"detach", active>>>>)
          /\ active' = None /\ view' = "list" /\ healed' = FALSE
     ELSE UNCHANGED <<toAgent, view, active, healed>>
  /\ UNCHANGED <<shown, link, dead, disconnected, agent>>

-----------------------------------------------------------------------------
(* The link *)

\* What the agent keeps of a connection until it sees it close.
Orphans == ghosts \cup ({"held"} \X ({viewing} \ {None})) \cup ({"awaiting"} \X waiting)

\* The wire dies silently: what is in flight is lost.
WireDies ==
  /\ link \in {"open", "online"} /\ ~dead
  /\ dead' = TRUE /\ toAgent' = <<>> /\ toPhone' = <<>>
  /\ UNCHANGED <<phone, link, disconnected, agent>>

\* The phone notices (close event, missed pong): setStatus offline.
LinkDrops ==
  /\ link # "offline"
  /\ link' = "offline" /\ dead' = FALSE /\ disconnected' = TRUE
  /\ toAgent' = <<>> /\ toPhone' = <<>>
  /\ ghosts' = Orphans /\ viewing' = None /\ waiting' = {} /\ healed' = FALSE
  /\ UNCHANGED <<view, active, shown, rival, alive, parked>>

\* Save in settings: setMachines replaces every connection, without `offline`.
Restart ==
  /\ "restart" \in Faults /\ view # "terminal"
  /\ link' = "dialing" /\ dead' = FALSE
  /\ toAgent' = <<>> /\ toPhone' = <<>>
  /\ ghosts' = Orphans /\ viewing' = None /\ waiting' = {} /\ healed' = FALSE
  /\ UNCHANGED <<view, active, shown, disconnected, rival, alive, parked>>

Dial ==
  /\ link = "offline" /\ link' = "dialing"
  /\ UNCHANGED <<phone, dead, disconnected, toAgent, toPhone, agent>>

LinkOpens ==
  /\ link = "dialing" /\ link' = "open"
  /\ UNCHANGED <<phone, dead, disconnected, toAgent, toPhone, agent>>

\* Faulty variant: the machine is online again and the terminal is not re-attached.
LinkOnlineQuietly ==
  /\ link = "open" /\ ~dead
  /\ link' = "online" /\ disconnected' = FALSE
  /\ UNCHANGED <<phone, dead, toAgent, toPhone, agent>>

\* setStatus online: after a drop the mounted terminal attaches again.
LinkOnline ==
  /\ link = "open" /\ ~dead
  /\ link' = "online" /\ disconnected' = FALSE
  /\ IF disconnected /\ Mounted THEN Attach(active) ELSE UNCHANGED toAgent
  /\ UNCHANGED <<phone, dead, toPhone, agent>>

-----------------------------------------------------------------------------
(* The agent *)

\* What is said to the phone's live connection; a dead wire or none swallows it.
Tell(what, w) == toPhone' = IF Reaches THEN Append(toPhone, <<what, w>>) ELSE toPhone

Room == Len(toPhone) < MaxMsgs

\* The registry hands w to its newest viewer, and everyone else who held it is out.
\* A parked workspace is opened again, one that has ended shows nothing.
Grant(w) ==
  /\ viewing' = IF w \in alive THEN w ELSE None
  /\ ghosts' = ghosts \ {<<"held", w>>}
  /\ rival' = IF rival = w THEN None ELSE rival
  /\ parked' = parked \ {w}

\* The phone's `attach` is taken from the wire: served at once, or left waiting
\* on the unpark and on tmux.
AgentAttaches ==
  /\ toAgent # <<>> /\ Head(toAgent)[1] = "attach"
  /\ toAgent' = Tail(toAgent)
  /\ LET w == Head(toAgent)[2] IN
     \/ Grant(w) /\ UNCHANGED waiting
     \/ /\ "slow" \in Faults /\ waiting' = waiting \cup {w} /\ parked' = parked \ {w}
        /\ UNCHANGED <<viewing, ghosts, rival>>
  /\ UNCHANGED <<phone, link, dead, disconnected, toPhone, alive>>

\* It gets its turn; w parked again since its unpark has no session to show.
AttachLate(w) ==
  /\ w \in waiting /\ waiting' = waiting \ {w}
  /\ \/ Grant(w)
     \/ w \in parked /\ viewing' = None /\ UNCHANGED <<ghosts, rival, parked>>
  /\ UNCHANGED <<phone, link, dead, disconnected, toAgent, toPhone, alive>>

\* detach: a no-op unless it names the attachment.
AgentDetaches ==
  /\ toAgent # <<>> /\ Head(toAgent)[1] = "detach"
  /\ toAgent' = Tail(toAgent)
  /\ viewing' = IF viewing = Head(toAgent)[2] THEN None ELSE viewing
  /\ UNCHANGED <<phone, link, dead, disconnected, toPhone, waiting, ghosts, rival, alive,
                 parked>>

\* The session is killed: every pty on it ends.
Killed(w) ==
  /\ viewing' = IF viewing = w THEN None ELSE viewing
  /\ ghosts' = ghosts \ {<<"held", w>>}
  /\ rival' = IF rival = w THEN None ELSE rival

\* A workspace is closed, or the program in it ends.
Ends(w) ==
  /\ alive' = alive \ {w} /\ parked' = parked \ {w} /\ Killed(w)
  /\ UNCHANGED <<phone, link, dead, disconnected, toPhone, waiting>>

AgentCloses ==
  /\ toAgent # <<>> /\ Head(toAgent)[1] = "close"
  /\ toAgent' = Tail(toAgent) /\ Ends(Head(toAgent)[2])

RivalCloses(w) == w \in alive /\ Ends(w) /\ UNCHANGED toAgent

\* Every device is told, by the close (its own twice) or by the sweep of the poll.
SaysClosed(w) ==
  /\ w \notin alive /\ Room /\ Tell("closed", w)
  /\ UNCHANGED <<phone, link, dead, disconnected, toAgent, agent>>

\* The phone's pty exits and the session stays; an attach on its way makes up for it.
PtyExits ==
  /\ "exit" \in Faults
  /\ viewing # None /\ viewing' = None
  /\ healed' = (healed /\ ~Quiet)
  /\ UNCHANGED <<view, active, shown, link, dead, disconnected, toAgent, toPhone, waiting,
                 ghosts, rival, alive, parked>>

\* setStatus `parked`: the record is written and the session killed.
Parks(w) ==
  /\ "park" \in Faults
  /\ w \in alive \ parked /\ parked' = parked \cup {w} /\ Killed(w)
  /\ healed' = (healed /\ active # w)
  /\ UNCHANGED <<view, active, shown, link, dead, disconnected, toAgent, toPhone, waiting,
                 alive>>

\* A viewer that is not the phone's live connection takes w.
Evict(w) ==
  /\ Room
  /\ IF viewing = w THEN viewing' = None /\ Tell("moved", w)
                    ELSE UNCHANGED <<viewing, toPhone>>

RivalOpens(w) ==
  /\ w \in alive /\ rival' = w /\ Evict(w)
  /\ ghosts' = ghosts \ {<<"held", w>>} /\ parked' = parked \ {w}
  /\ UNCHANGED <<phone, link, dead, disconnected, toAgent, waiting, alive>>

RivalLeaves ==
  /\ rival # None /\ rival' = None
  /\ UNCHANGED <<phone, link, dead, disconnected, toAgent, toPhone, waiting, viewing,
                 ghosts, alive, parked>>

\* The agent sees a lost connection close: its attachment goes.
GhostGoes(w) ==
  /\ <<"held", w>> \in ghosts /\ ghosts' = ghosts \ {<<"held", w>>}
  /\ UNCHANGED <<phone, link, dead, disconnected, toAgent, toPhone, waiting, viewing,
                 rival, alive, parked>>

\* An attach of a lost connection gets its turn after all.
GhostAttaches(w) ==
  /\ <<"awaiting", w>> \in ghosts
  /\ Evict(w)
  /\ \/ /\ ghosts' = (ghosts \ {<<"awaiting", w>>})
                     \cup (IF w \in alive THEN {<<"held", w>>} ELSE {})
        /\ rival' = IF rival = w THEN None ELSE rival
        /\ parked' = parked \ {w}
     \/ w \in parked /\ ghosts' = ghosts \ {<<"awaiting", w>>} /\ UNCHANGED <<rival, parked>>
  /\ UNCHANGED <<phone, link, dead, disconnected, toAgent, waiting, alive>>

Next ==
  \/ \E w \in Ids : Open(w) \/ AttachLate(w) \/ RivalOpens(w) \/ RivalCloses(w)
                    \/ SaysClosed(w) \/ Parks(w) \/ GhostGoes(w) \/ GhostAttaches(w)
  \/ Leave \/ Return \/ Back \/ CloseActive \/ Refresh \/ TakeOver
  \/ HearMoved \/ HearClosed
  \/ WireDies \/ LinkDrops \/ Restart \/ Dial \/ LinkOpens \/ LinkOnline
  \/ AgentAttaches \/ AgentDetaches \/ AgentCloses \/ PtyExits
  \/ RivalLeaves

Spec == Init /\ [][Next]_vars

-----------------------------------------------------------------------------
(* Properties *)

\* Nothing in flight on a working link.
Settled ==
  /\ link = "online" /\ ~dead
  /\ toAgent = <<>> /\ toPhone = <<>> /\ waiting = {}

\* A terminal that shows no overlay is not frozen: once the messages have settled,
\* the agent's attachment is the workspace on the screen, however views, drops,
\* rivals and refreshes were ordered (the self-heal of setStatus and onReattach).  True
\* without the faults only, each of which freezes it: the pty exits or the workspace is
\* parked, and the store ignores the `detached` that says so.
LiveMeansAttached ==
  (Settled /\ Mounted /\ shown = "live" /\ active \in alive) => viewing = active

\* The refresh button heals, whatever went before: attached again on a quiet link
\* and left alone, the terminal is live on the agent or says it has moved.
RefreshHeals ==
  (Settled /\ Mounted /\ healed /\ shown = "live" /\ active \in alive)
    => viewing = active

\* Leaving a terminal leaves no attachment behind on the agent, which would keep
\* streaming to the phone and hold the workspace in the registry.
LeftMeansDetached == (Settled /\ active = None) => viewing = None

\* What the overlay says is so: the workspace is open elsewhere.  Not true of the
\* code: refresh() re-attaches under the overlay.
OverlayMeansMoved == (Settled /\ Mounted /\ shown = "moved") => viewing # active
===============================================================================
