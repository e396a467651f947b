---------------------------- MODULE Announcements ----------------------------
(***************************************************************************)
(* How devices learn what workspaces there are: the `list` request, the    *)
(* broadcast after each status change, the title poll with its sweep of    *)
(* sessions that disappeared, and the PWA's aggregator applying them.      *)
(*                                                                         *)
(* A listing is not a snapshot.  listWorkspaces awaits tmux, then the      *)
(* parked store, then what stamps each entry; nothing keeps two listings   *)
(* apart, and a tick of the poll does not wait for the previous one.  The  *)
(* WebSocket delivers in order, so a message is applied as it is sent.     *)
(*                                                                         *)
(* What moves a workspace (park, unpark, close) is here at one await per   *)
(* step too, but one at a time for each workspace: module Workspaces has   *)
(* the requests that cross.                                                *)
(***************************************************************************)
EXTENDS Naturals, FiniteSets

CONSTANTS
  Ids,         \* workspace ids, each minted at most once
  Clients,     \* devices
  Listings,    \* bound: listings in flight at once
  Names,       \* what a workspace may be called
  Hides,       \* whether folders may be hidden while the agent runs
  Absent       \* no workspace of that id, and no name

Statuses == {"idle", "working", "parked"}
\* An entry of a listing; "unread" until its status is stamped on it.
Entries == [status : Statuses \cup {"unread"}, name : Names]
Kinds == {"none", "tick", "broadcast", "list"}
Steps == {"start", "sessions", "records", "stamped", "tail"}
Stages == {"none", "add", "kill", "label", "remove", "relabel",
           "closeRecord", "closeKill", "closeSay"}

VARIABLES
  tmux,        \* ids with a live session
  title,       \* the name each session's pane title gives it
  parked,      \* parked.json: the name recorded, or Absent
  status,      \* the status store
  hidden,      \* ids whose folder is hidden
  snapshot,    \* the name the park under way read, or Absent
  move,        \* where the park, unpark or close of each id has got to
  minted,      \* the ids created so far
  known,       \* WsServer.lastWorkspaces: the name last polled, or Absent
  lst,         \* the listings in flight
  online,      \* the devices connected and authenticated
  view,        \* the PWA's entries for this machine, on each device
  creating,    \* the device each create is still to be answered to, or Absent
  unwatched,   \* history: ids that went away while the poll did not know them
  late,        \* history: ids some device was shown after they had gone
  outdated     \* history: ids each device shows as a late answer to a create told it

vars == <<tmux, title, parked, status, hidden, snapshot, move, minted, known, lst, online,
          view, creating, unwatched, late, outdated>>
world == <<tmux, title, parked, status, hidden, snapshot, move, minted, creating>>

\* The name a project's folder gives its workspace until the pane has a title.
FolderName == CHOOSE n \in Names : TRUE

Nothing == [w \in Ids |-> Absent]
Idle == [kind |-> "none", about |-> Absent, step |-> "start", seen |-> Nothing,
         hide |-> {}, moved |-> {}]

TypeOK ==
  /\ tmux \subseteq Ids /\ minted \subseteq Ids /\ hidden \subseteq Ids
  /\ title \in [Ids -> Names]
  /\ parked \in [Ids -> Names \cup {Absent}]
  /\ snapshot \in [Ids -> Names \cup {Absent}]
  /\ known \in [Ids -> Names \cup {Absent}]
  /\ status \in [Ids -> Statuses]
  /\ move \in [Ids -> Stages]
  /\ lst \in [Listings -> [kind : Kinds, about : Ids \cup Clients \cup {Absent},
                           step : Steps, seen : [Ids -> Entries \cup {Absent}],
                           hide : SUBSET Ids, moved : SUBSET Ids]]
  /\ online \subseteq Clients
  /\ view \in [Clients -> [Ids -> [status : Statuses, name : Names] \cup {Absent}]]
  /\ creating \in [Ids -> Clients \cup {Absent}]
  /\ unwatched \subseteq Ids /\ late \subseteq Ids
  /\ outdated \in [Clients -> SUBSET Ids]

Init ==
  /\ tmux = {} /\ minted = {} /\ hidden = {} /\ online = {}
  /\ title = [w \in Ids |-> FolderName]
  /\ parked = Nothing /\ known = Nothing /\ snapshot = Nothing /\ creating = Nothing
  /\ status = [w \in Ids |-> "idle"]
  /\ move = [w \in Ids |-> "none"]
  /\ lst = [l \in Listings |-> Idle]
  /\ view = [c \in Clients |-> Nothing]
  /\ unwatched = {} /\ late = {} /\ outdated = [c \in Clients |-> {}]

-----------------------------------------------------------------------------
(* The devices: WorkspaceAggregator *)

Recorded == {w \in Ids : parked[w] # Absent}
Alive == tmux \cup Recorded
Gone == minted \ Alive

\* pushWorkspaceUpdated on every handler; those not authenticated drop it.
Shown(w, e) ==
  view' = [c \in Clients |-> IF c \in online THEN [view[c] EXCEPT ![w] = e] ELSE view[c]]

\* pushClosed on every handler.
Unshown(w) == Shown(w, Absent)

Lately(ws) == late' = late \cup (ws \cap Gone)

\* The label a listing of w gives.
Label(w) == IF parked[w] # Absent THEN "parked" ELSE status[w]

\* What was pushed, or taken away, is no longer what the answer to a create said.
Refreshed(ws) ==
  outdated' = [c \in Clients |-> IF c \in online THEN outdated[c] \ ws ELSE outdated[c]]

\* A device connects and authenticates, and ConnectionManager asks for `list`;
\* ConnectionHandler reads the hidden folders before it lists.
Connect(c, l) ==
  /\ c \notin online
  /\ lst[l].kind = "none"
  /\ online' = online \cup {c}
  /\ lst' = [lst EXCEPT ![l] = [Idle EXCEPT !.kind = "list", !.about = c, !.hide = hidden]]
  /\ UNCHANGED <<world, known, view, unwatched, late, outdated>>

\* The link drops: the aggregator forgets the machine, and what the agent still
\* lists or creates for that connection is answered to nobody.
Disconnect(c) ==
  /\ c \in online
  /\ online' = online \ {c}
  /\ view' = [view EXCEPT ![c] = Nothing]
  /\ lst' = [l \in Listings |-> IF lst[l].kind = "list" /\ lst[l].about = c
                                THEN Idle ELSE lst[l]]
  /\ creating' = [w \in Ids |-> IF creating[w] = c THEN Absent ELSE creating[w]]
  /\ outdated' = [outdated EXCEPT ![c] = {}]
  /\ UNCHANGED <<tmux, title, parked, status, hidden, snapshot, move, minted, known,
                 unwatched, late>>

-----------------------------------------------------------------------------
(* listWorkspaces: three awaits *)

Lists(l, step) == lst[l].kind # "none" /\ lst[l].step = step

\* tmux list-sessions: ids and titles.
ListSessions(l) ==
  /\ Lists(l, "start")
  /\ lst' = [lst EXCEPT ![l].step = "sessions", ![l].seen =
       [w \in Ids |-> IF w \in tmux THEN [status |-> "unread", name |-> title[w]] ELSE Absent]]
  /\ UNCHANGED <<world, known, online, view, unwatched, late, outdated>>

\* Faulty variant: a session shadows the record of the same id, and a record
\* without a session is left out.
ListOnlySessions(l) ==
  /\ Lists(l, "sessions")
  /\ lst' = [lst EXCEPT ![l].step = "records"]
  /\ UNCHANGED <<world, known, online, view, unwatched, late, outdated>>

\* The parked store: a record shadows a session of the same id.
ListRecords(l) ==
  /\ Lists(l, "sessions")
  /\ lst' = [lst EXCEPT ![l].step = "records", ![l].seen =
       [w \in Ids |-> IF w \in Recorded THEN [status |-> "parked", name |-> parked[w]]
                      ELSE lst[l].seen[w]]]
  /\ UNCHANGED <<world, known, online, view, unwatched, late, outdated>>

\* Faulty variant: the entries go out without a status.
StampNothing(l) ==
  /\ Lists(l, "records")
  /\ lst' = [lst EXCEPT ![l].step = "stamped"]
  /\ UNCHANGED <<world, known, online, view, unwatched, late, outdated>>

\* The statuses, once the addresses and remotes are in.
Stamp(l) ==
  /\ Lists(l, "records")
  /\ lst' = [lst EXCEPT ![l].step = "stamped", ![l].seen =
       [w \in Ids |-> IF lst[l].seen[w] # Absent /\ lst[l].seen[w].status = "unread"
                      THEN [lst[l].seen[w] EXCEPT !.status = status[w]]
                      ELSE lst[l].seen[w]]]
  /\ UNCHANGED <<world, known, online, view, unwatched, late, outdated>>

Without(seen, ws) == [w \in Ids |-> IF w \in ws THEN Absent ELSE seen[w]]

\* `list` answered: the aggregator replaces all it had.
ListAnswered(l) ==
  LET shown == Without(lst[l].seen, lst[l].hide) IN
  /\ Lists(l, "stamped") /\ lst[l].kind = "list"
  /\ view' = [view EXCEPT ![lst[l].about] = shown]
  /\ lst' = [lst EXCEPT ![l] = Idle]
  /\ Lately({w \in Ids : shown[w] # Absent})
  /\ outdated' = [outdated EXCEPT ![lst[l].about] = {}]
  /\ UNCHANGED <<world, known, online, unwatched>>

\* broadcastWorkspace: the one workspace it is about, if listed and not hidden.
Broadcast(l) ==
  LET w == lst[l].about
      pushed == lst[l].seen[w] # Absent /\ w \notin hidden
  IN
  /\ Lists(l, "stamped") /\ lst[l].kind = "broadcast"
  /\ IF pushed THEN /\ Shown(w, lst[l].seen[w]) /\ Refreshed({w})
                    /\ Lately(IF online # {} THEN {w} ELSE {})
               ELSE UNCHANGED <<view, late, outdated>>
  /\ lst' = [lst EXCEPT ![l] = Idle]
  /\ UNCHANGED <<world, known, online, unwatched>>

-----------------------------------------------------------------------------
(* pollTitles *)

\* setInterval fires whatever the previous tick is doing.
Tick(l) ==
  /\ lst[l].kind = "none"
  /\ online # {}
  /\ lst' = [lst EXCEPT ![l] = [Idle EXCEPT !.kind = "tick"]]
  /\ UNCHANGED <<world, known, online, view, unwatched, late, outdated>>

\* Faulty variant: the swept workspace is forgotten without telling the devices.
SweepSilently(l, knows, views, present) ==
  LET stale == {w \in Ids : knows[w] # Absent /\ present[w] = Absent} IN
  IF stale = {}
  THEN known' = knows /\ view' = views /\ lst' = [lst EXCEPT ![l] = Idle]
  ELSE \E w \in stale :
         /\ known' = [knows EXCEPT ![w] = Absent]
         /\ view' = views
         /\ lst' = [lst EXCEPT ![l].step = "tail", ![l].seen = present]

\* The walk over the map for ids the listing had not: the next one is forgotten,
\* announced as closed, logged as `exited` and its browser sessions closed.  The
\* last two are awaited before the walk goes on over the map as it is by then.
Sweep(l, knows, views, present) ==
  LET stale == {w \in Ids : knows[w] # Absent /\ present[w] = Absent}
      learned == {w \in Ids : known[w] = Absent /\ knows[w] # Absent}
      told == [m \in Listings |-> IF lst[m].kind = "tick"
                                  THEN [lst[m] EXCEPT !.moved = @ \cup learned] ELSE lst[m]]
  IN
  IF stale = {}
  THEN known' = knows /\ view' = views /\ lst' = [told EXCEPT ![l] = Idle]
  ELSE \E w \in stale :
         /\ known' = [knows EXCEPT ![w] = Absent]
         /\ view' = [c \in Clients |-> [views[c] EXCEPT ![w] = Absent]]
         /\ lst' = [told EXCEPT ![l] = [lst[l] EXCEPT !.step = "tail", !.seen = present,
                                                      !.moved = @ \cup hidden]]

\* What a sweep has just forgotten.
Forgotten == {w \in Ids : known[w] # Absent /\ known'[w] = Absent}

\* Faulty variant: a new name is recorded and not pushed.
NoRenames(present) == {}

Renames(present) ==
  {w \in Ids : present[w] # Absent /\ known[w] # Absent /\ known[w] # present[w].name}

\* The walk over the listing: every sighting is recorded, and a name that
\* changed since the last one is pushed; a first sighting pushes nothing.  The
\* sweep follows at once.
TickNotes(l) ==
  LET present == Without(lst[l].seen, hidden)
      sighted == {w \in Ids : present[w] # Absent}
      renamed == Renames(present)
  IN
  /\ Lists(l, "stamped") /\ lst[l].kind = "tick"
  /\ Sweep(l,
       [w \in Ids |-> IF w \in sighted THEN present[w].name ELSE known[w]],
       [c \in Clients |-> [w \in Ids |-> IF c \in online /\ w \in renamed
                                         THEN present[w] ELSE view[c][w]]],
       present)
  /\ Lately(renamed)
  /\ Refreshed(renamed \cup Forgotten)
  /\ UNCHANGED <<world, online, unwatched>>

SweepGoesOn(l) ==
  /\ Lists(l, "tail")
  /\ Sweep(l, known, view, lst[l].seen)
  /\ Refreshed(Forgotten)
  /\ UNCHANGED <<world, online, unwatched, late>>

-----------------------------------------------------------------------------
(* What happens to workspaces *)

\* What these steps leave alone unless they say otherwise.
names == <<title, parked, snapshot>>
others == <<hidden, minted, creating, online, late>>

\* Faulty variant: the store changes and its listeners are not called.
SetStatusSilently(l, w, s) ==
  /\ lst[l].kind = "none"
  /\ status' = [status EXCEPT ![w] = s]
  /\ UNCHANGED lst

\* status.set and the listing its onChange starts.
SetStatus(l, w, s) ==
  /\ lst[l].kind = "none"
  /\ status' = [status EXCEPT ![w] = s]
  /\ lst' = [lst EXCEPT ![l] = [Idle EXCEPT !.kind = "broadcast", !.about = w]]

\* createWorkspace has its session, and awaits the record of the recent path.
Create(w, c) ==
  /\ w \notin minted /\ c \in online
  /\ minted' = minted \cup {w}
  /\ tmux' = tmux \cup {w}
  /\ creating' = [creating EXCEPT ![w] = c]
  /\ UNCHANGED <<names, status, hidden, move, known, lst, online, view, unwatched, late,
                 outdated>>

\* Then the answer to the device that asked: idle, whatever the workspace has
\* become meanwhile.
CreateAnswered(w) ==
  LET c == creating[w] IN
  /\ creating[w] # Absent
  /\ creating' = [creating EXCEPT ![w] = Absent]
  /\ view' = [view EXCEPT ![c][w] = [status |-> "idle", name |-> FolderName]]
  /\ Lately({w})
  /\ outdated' = IF Label(w) = "idle" THEN outdated
                 ELSE [outdated EXCEPT ![c] = @ \cup {w}]
  /\ UNCHANGED <<tmux, names, status, hidden, move, minted, known, lst, online, unwatched>>

\* Or the record of the path fails: an error, and the session runs on.
CreateFails(w) ==
  /\ creating[w] # Absent
  /\ creating' = [creating EXCEPT ![w] = Absent]
  /\ UNCHANGED <<tmux, names, status, hidden, move, minted, known, lst, online, view,
                 unwatched, late, outdated>>

\* A hook or a device sets the status of a live workspace.
StatusChanges(l, w, s) ==
  /\ w \in tmux /\ s # "parked" /\ status[w] # s
  /\ SetStatus(l, w, s)
  /\ UNCHANGED <<tmux, names, move, known, view, unwatched, others, outdated>>

\* The program in the pane sets its title; no hook tells.
Rename(w, n) ==
  /\ w \in tmux /\ title[w] # n
  /\ title' = [title EXCEPT ![w] = n]
  /\ UNCHANGED <<tmux, parked, snapshot, status, move, known, lst, view, unwatched, others,
                 outdated>>

\* Edits of hidden-folders.json.
HideOrShow(w) ==
  /\ Hides
  /\ hidden' = IF w \in hidden THEN hidden \ {w} ELSE hidden \cup {w}
  /\ UNCHANGED <<tmux, names, status, move, minted, known, lst, online, view, creating,
                 unwatched, late, outdated>>

\* The inner process ends and tmux destroys the session.
SessionExits(w) ==
  /\ w \in tmux
  /\ tmux' = tmux \ {w}
  /\ unwatched' = IF known[w] = Absent /\ parked[w] = Absent
                  THEN unwatched \cup {w} ELSE unwatched
  /\ UNCHANGED <<names, status, move, known, lst, view, others, outdated>>

\* The next await of the park, unpark or close of w.
Moves(w, from, to) == move[w] = from /\ move' = [move EXCEPT ![w] = to]

\* The snapshot a park records: what forgetWorkspace returns, or a fresh listing.
SnapshotName(w) == IF known[w] # Absent THEN known[w] ELSE title[w]

\* Park makes the poll forget the workspace; without a conversation id nothing
\* else happens.
Park(w, restorable) ==
  /\ parked[w] = Absent
  /\ known[w] # Absent \/ w \in tmux
  /\ Moves(w, "none", IF restorable THEN "add" ELSE "none")
  /\ snapshot' = IF ~restorable THEN snapshot
                 ELSE [snapshot EXCEPT ![w] = SnapshotName(w)]
  /\ known' = [known EXCEPT ![w] = Absent]
  /\ unwatched' = IF w \in Gone THEN unwatched \cup {w} ELSE unwatched
  /\ UNCHANGED <<tmux, title, parked, status, lst, view, others, outdated>>

\* Then the record, the kill, and the label, whose broadcast announces it all.
\* A session that ended meanwhile is back as a record, behind any listing's back.
ParkAdd(w) ==
  /\ Moves(w, "add", "kill")
  /\ parked' = [parked EXCEPT ![w] = snapshot[w]]
  /\ snapshot' = [snapshot EXCEPT ![w] = Absent]
  /\ lst' = [l \in Listings |-> IF w \in Gone THEN [lst[l] EXCEPT !.moved = @ \cup {w}]
                                ELSE lst[l]]
  /\ UNCHANGED <<tmux, title, status, known, view, unwatched, others, outdated>>

ParkKill(w) ==
  /\ Moves(w, "kill", "label")
  /\ tmux' = tmux \ {w}
  /\ UNCHANGED <<names, status, known, lst, view, unwatched, others, outdated>>

ParkLabel(l, w) ==
  /\ Moves(w, "label", "none")
  /\ SetStatus(l, w, "parked")
  /\ UNCHANGED <<tmux, names, known, view, unwatched, others, outdated>>

\* Unpark, inside an attach: the session, then the record, then the status.
\* A listing that has its sessions and not yet its records will miss it.
Unpark(w) ==
  /\ parked[w] # Absent
  /\ Moves(w, "none", "remove")
  /\ tmux' = tmux \cup {w}
  /\ lst' = [l \in Listings |-> IF Lists(l, "sessions")
                                THEN [lst[l] EXCEPT !.moved = @ \cup {w}] ELSE lst[l]]
  /\ UNCHANGED <<names, status, known, view, unwatched, others, outdated>>

UnparkRemove(w) ==
  /\ Moves(w, "remove", "relabel")
  /\ parked' = [parked EXCEPT ![w] = Absent]
  /\ unwatched' = IF w \notin tmux /\ known[w] = Absent THEN unwatched \cup {w} ELSE unwatched
  /\ UNCHANGED <<tmux, title, snapshot, status, known, lst, view, others, outdated>>

UnparkLabel(l, w) ==
  /\ Moves(w, "relabel", "none")
  /\ SetStatus(l, w, "idle")
  /\ UNCHANGED <<tmux, names, known, view, unwatched, others, outdated>>

\* Close: the record is looked up and the poll made to forget the id; then the
\* record goes, the session goes, and the devices are told.
Close(w) ==
  /\ \E c \in online : view[c][w] # Absent
  /\ Moves(w, "none", IF parked[w] # Absent THEN "closeRecord" ELSE "closeKill")
  /\ known' = [known EXCEPT ![w] = Absent]
  /\ UNCHANGED <<tmux, names, status, lst, view, unwatched, others, outdated>>

CloseRecord(w) ==
  /\ Moves(w, "closeRecord", "closeKill")
  /\ parked' = [parked EXCEPT ![w] = Absent]
  /\ UNCHANGED <<tmux, title, snapshot, status, known, lst, view, unwatched, others, outdated>>

CloseKill(w) ==
  /\ Moves(w, "closeKill", "closeSay")
  /\ tmux' = tmux \ {w}
  /\ UNCHANGED <<names, status, known, lst, view, unwatched, others, outdated>>

\* Faulty variant: only the device that asked is told.
CloseSaysToOne(w) ==
  /\ Moves(w, "closeSay", "none")
  /\ \E c \in online : view' = [view EXCEPT ![c][w] = Absent]
  /\ UNCHANGED <<tmux, names, status, known, lst, unwatched, others, outdated>>

\* recordWorkspaceClosed done: `closed` to the requester and to everyone.
CloseSay(w) ==
  /\ Moves(w, "closeSay", "none")
  /\ Unshown(w) /\ Refreshed({w})
  /\ UNCHANGED <<tmux, names, status, known, lst, unwatched, others>>

-----------------------------------------------------------------------------
ListingStep(l) ==
  \/ ListSessions(l) \/ ListRecords(l) \/ Stamp(l) \/ ListAnswered(l) \/ Broadcast(l)
  \/ TickNotes(l) \/ SweepGoesOn(l)

MoveStep(w) ==
  \/ ParkAdd(w) \/ ParkKill(w) \/ (\E l \in Listings : ParkLabel(l, w))
  \/ UnparkRemove(w) \/ (\E l \in Listings : UnparkLabel(l, w))
  \/ CloseRecord(w) \/ CloseKill(w) \/ CloseSay(w)

Next ==
  \/ \E l \in Listings : ListingStep(l) \/ Tick(l)
  \/ \E w \in Ids : MoveStep(w)
  \/ \E c \in Clients, l \in Listings : Connect(c, l)
  \/ \E c \in Clients : Disconnect(c)
  \/ \E w \in Ids, c \in Clients : Create(w, c)
  \/ \E l \in Listings, w \in Ids, s \in Statuses : StatusChanges(l, w, s)
  \/ \E w \in Ids, n \in Names : Rename(w, n)
  \/ \E w \in Ids : CreateAnswered(w) \/ CreateFails(w)
  \/ \E w \in Ids : HideOrShow(w) \/ SessionExits(w) \/ Unpark(w) \/ Close(w)
  \/ \E w \in Ids, restorable \in BOOLEAN : Park(w, restorable)

Spec == Init /\ [][Next]_vars

\* Timers and awaits: the interval fires however busy the agent is (the bound on
\* Listings must not starve it, hence SF), and every await answers.
FairSpec ==
  /\ Spec
  /\ \A l \in Listings : WF_vars(ListingStep(l))
  /\ \A w \in Ids : WF_vars(MoveStep(w))
  /\ SF_vars(\E l \in Listings : Tick(l))

-----------------------------------------------------------------------------
(* Properties *)

Swept(l, w) == /\ TickNotes(l) \/ SweepGoesOn(l)
               /\ known[w] # Absent /\ known'[w] = Absent

\* A session that runs, in a folder that is not hidden, is never announced as
\* closed, logged as exited and stripped of its browser sessions by the poll
\* (ws-server.ts:345-347; list-workspaces.ts:17-19 "no spurious `exited`").
NoLiveSessionSwept == \A l \in Listings, w \in Ids :
  Swept(l, w) => w \notin tmux \ hidden

\* The poll sweeps only what is gone or hidden, but for three ways round: an
\* unpark between the listing's two reads, a session that ended while being
\* parked, and a workspace another tick learned of (or a folder shown again)
\* after this tick had listed.
SweepsOnlyTheMissed == \A l \in Listings, w \in Ids :
  Swept(l, w) => w \in Gone \cup hidden \cup lst[l].moved

Ghost(c, w) == c \in online /\ w \in Gone /\ view[c][w] # Absent

\* A workspace that is gone and still shown is on its way out (the poll knows
\* it, or its close is being announced), unless it went while the poll did not
\* know it or an answer listed before it went was delivered after.
GhostsAreDoomed == \A c \in Clients, w \in Ids :
  Ghost(c, w) => known[w] # Absent \/ move[w] # "none" \/ w \in unwatched \cup late

\* "so the workspace stops lingering as a ghost in connected clients"
\* (ws-server.ts:347): every ghost is on its way out.
NoLingeringGhost == \A c \in Clients, w \in Ids :
  Ghost(c, w) => known[w] # Absent \/ move[w] # "none"

\* With no listing in flight, a device shows each live workspace with its latest
\* status: the status change was broadcast to it (connection-handler.ts:286-287).
\* False of the code even where listings do not overlap: a create awaits the record
\* of its path before it is answered (create-workspace.ts:36-37), and the `idle` of
\* that answer may come after a hook's status.
NoStaleStatus ==
  (\A l \in Listings : lst[l].kind = "none") =>
    \A c \in online, w \in Alive :
      move[w] = "none" /\ view[c][w] # Absent => view[c][w].status = Label(w)

\* But for the device that created the workspace, and there until the next push or
\* list, it holds: no status is lost between a change and its broadcast.
LatestStatusShown ==
  (\A l \in Listings : lst[l].kind = "none") =>
    \A c \in online, w \in Alive :
      move[w] = "none" /\ view[c][w] # Absent /\ w \notin outdated[c]
        => view[c][w].status = Label(w)

\* A ghost the poll knows is taken from every device that stays connected, unless
\* a park makes the poll forget it first.
Haunts(c, w) == Ghost(c, w) /\ known[w] # Absent
Laid(c, w) == ~Ghost(c, w) \/ w \in unwatched
GhostsGo == \A c \in Clients, w \in Ids : Haunts(c, w) ~> Laid(c, w)

\* A live workspace whose title is not the one last polled gets its new name on
\* every device that shows it, unless it is forgotten, swept or renamed first.
Renamed(c, w, n) ==
  w \in tmux /\ c \in online /\ title[w] = n /\ known[w] \notin {Absent, n}
Arrived(c, w, n) ==
  \/ w \notin tmux \/ c \notin online \/ title[w] # n \/ w \in Recorded
  \/ known[w] = Absent \/ view[c][w] = Absent \/ view[c][w].name = n
RenamesArrive ==
  \A c \in Clients, w \in Ids, n \in Names : Renamed(c, w, n) ~> Arrived(c, w, n)

=============================================================================
