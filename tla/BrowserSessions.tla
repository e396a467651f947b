----------------------------- MODULE BrowserSessions -----------------------------
(***************************************************************************)
(* The names of the machine's agent-browser sessions: the sessions that    *)
(* live, what the agent last broadcast, what the phone shows as chips, and *)
(* the stopping of a closed workspace's own sessions.                      *)
(*                                                                         *)
(* The phone learns names in two ways that do not know of each other: the  *)
(* reply to its own `list` or `startBrowser`, and the poll's broadcast,    *)
(* which is sent only when the names differ from the last broadcast.  Both *)
(* read the sidecar files first and send after an await.                   *)
(***************************************************************************)
EXTENDS Naturals, FiniteSets

CONSTANTS
  Ids,      \* workspaces; ids hold no `__`, so a name has one owner at most
  Slugs,    \* the slugs after `<id>__`; "main" is the bare name
  Sites,    \* names of sessions that belong to no workspace
  None,     \* nothing read
  MaxPolls  \* bound: polls of the session names in flight

Names == (Ids \X Slugs) \cup ({None} \X Sites)

VARIABLES
  live,      \* sessions with a stream file and a running browser
  alive,     \* workspaces not closed
  online,    \* the phone's connection is up: the agent has a handler
  polls,     \* names read by pollBrowserSessions and not yet compared, each once
  asked,     \* a list or startBrowser has its names still to read
  reply,     \* names read for the phone and not sent yet
  last,      \* WsServer.lastBrowserNames
  shown,     \* PerchStore.browserSessions of the machine
  starting,  \* startBrowser requests waiting for the CLI
  stopping,  \* sessions the viewer asked to close, the CLI still to run
  cascade,   \* of a closed workspace: sessions still to stop, or None
  excused    \* history: sessions started late, or whose stop failed

machine == <<live, alive, starting, stopping, cascade, excused>>
news == <<online, polls, asked, reply, last, shown>>
vars == <<machine, news>>

TypeOK ==
  /\ live \subseteq Names /\ alive \subseteq Ids /\ online \in BOOLEAN
  /\ polls \subseteq SUBSET Names /\ Cardinality(polls) <= MaxPolls
  /\ asked \in BOOLEAN /\ reply \in (SUBSET Names) \cup {None}
  /\ last \subseteq Names /\ shown \subseteq Names
  /\ starting \subseteq Ids /\ stopping \subseteq Names
  /\ cascade \in [Ids -> (SUBSET Names) \cup {None}] /\ excused \subseteq Names

Init ==
  /\ live = {} /\ alive = Ids /\ online = TRUE
  /\ polls = {} /\ asked = FALSE /\ reply = None /\ last = {} /\ shown = {}
  /\ starting = {} /\ stopping = {} /\ cascade = [w \in Ids |-> None] /\ excused = {}

\* Faulty variant: only the bare name counts as the workspace's.
OwnBareOnly(names, w) == names \cap {<<w, "main">>}

\* The sessions a workspace owns: `<id>` and `<id>__slug`.
Own(names, w) == {n \in names : n[1] = w}

-----------------------------------------------------------------------------
(* Sessions come and go *)

Started(n) ==
  /\ live' = live \cup {n}
  /\ excused' = IF n[1] = None \/ cascade[n[1]] = None THEN excused ELSE excused \cup {n}

\* `agent-browser open`, typed by hand or by a program in a pane.
StartsByHand(n) ==
  /\ n \notin live /\ Started(n)
  /\ UNCHANGED <<alive, starting, stopping, cascade, news>>

StopsByItself(n) ==
  /\ n \in live /\ live' = live \ {n}
  /\ UNCHANGED <<alive, starting, stopping, cascade, excused, news>>

\* The picker offers a start when the workspace shows no session.
StartBrowser(w) ==
  /\ online /\ w \in alive \ starting /\ Own(shown, w) = {}
  /\ starting' = starting \cup {w}
  /\ UNCHANGED <<live, alive, stopping, cascade, excused, news>>

\* The CLI is done: the names are sent to the phone, read afresh.
CliStarts(w) ==
  /\ w \in starting /\ starting' = starting \ {w}
  /\ Started(<<w, "main">>)
  /\ asked' = (asked \/ online)
  /\ UNCHANGED <<alive, stopping, cascade, online, polls, reply, last, shown>>

CliFails(w) ==
  /\ w \in starting /\ starting' = starting \ {w}
  /\ UNCHANGED <<live, alive, stopping, cascade, excused, news>>

\* The viewer's close button: closeSession goes to the relay, `list` to the agent's
\* main connection, and nothing orders them.
CloseSession(n) ==
  /\ online /\ n \in shown \ stopping
  /\ stopping' = stopping \cup {n} /\ asked' = TRUE
  /\ UNCHANGED <<live, alive, starting, cascade, excused, online, polls, reply, last,
                 shown>>

CliStops(n) ==
  /\ n \in stopping /\ stopping' = stopping \ {n} /\ live' = live \ {n}
  /\ UNCHANGED <<alive, starting, cascade, excused, news>>

-----------------------------------------------------------------------------
(* A workspace closes *)

\* Closed by a user or exited: its sessions are listed and stopped one by one.
\* What the CLI is still starting for it will come too late to be listed.
WorkspaceCloses(w) ==
  /\ w \in alive /\ alive' = alive \ {w}
  /\ UNCHANGED <<live, starting, stopping, cascade, excused, news>>

CascadeLists(w) ==
  /\ w \notin alive /\ cascade[w] = None
  /\ cascade' = [cascade EXCEPT ![w] = Own(live, w)]
  /\ UNCHANGED <<live, alive, starting, stopping, excused, news>>

CascadeStops(w, n) ==
  /\ cascade[w] # None /\ n \in cascade[w]
  /\ cascade' = [cascade EXCEPT ![w] = @ \ {n}]
  /\ \/ live' = live \ {n} /\ UNCHANGED excused
     \/ live' = live /\ excused' = excused \cup {n}   \* the failure is swallowed
  /\ UNCHANGED <<alive, starting, stopping, news>>

-----------------------------------------------------------------------------
(* The phone hears *)

Disconnect ==
  /\ online /\ online' = FALSE /\ asked' = FALSE /\ reply' = None
  /\ UNCHANGED <<machine, polls, last, shown>>

\* Back online, the phone asks for the list.
Connect ==
  /\ ~online /\ online' = TRUE /\ asked' = TRUE
  /\ UNCHANGED <<machine, polls, reply, last, shown>>

\* sendBrowserSessions: listSessions, then the send.
ReadReply ==
  /\ asked /\ reply = None
  /\ asked' = FALSE /\ reply' = live
  /\ UNCHANGED <<machine, online, polls, last, shown>>

SendReply ==
  /\ reply # None /\ shown' = reply /\ reply' = None
  /\ UNCHANGED <<machine, online, polls, asked, last>>

\* The poll does nothing without a handler; its ticks do not wait for each other.
PollReads ==
  /\ online /\ live \notin polls /\ Cardinality(polls) < MaxPolls
  /\ polls' = polls \cup {live}
  /\ UNCHANGED <<machine, online, asked, reply, last, shown>>

PollCompares(names) ==
  /\ names \in polls /\ polls' = polls \ {names}
  /\ last' = names
  /\ shown' = IF names # last /\ online THEN names ELSE shown
  /\ UNCHANGED <<machine, online, asked, reply>>

Next ==
  \/ \E n \in Names : StartsByHand(n) \/ StopsByItself(n) \/ CloseSession(n) \/ CliStops(n)
  \/ \E w \in Ids : \/ StartBrowser(w) \/ CliStarts(w) \/ CliFails(w)
                    \/ WorkspaceCloses(w) \/ CascadeLists(w)
                    \/ \E n \in Names : CascadeStops(w, n)
  \/ Disconnect \/ Connect \/ ReadReply \/ SendReply \/ PollReads
  \/ \E names \in polls : PollCompares(names)

Spec == Init /\ [][Next]_vars

-----------------------------------------------------------------------------
(* Properties *)

\* closeWorkspaceBrowserSessions leaves no browser running for a closed workspace:
\* what survives its stops was started after they were listed, or refused to stop.
OrphansAreLate ==
  \A w \in Ids :
    (w \notin alive /\ cascade[w] = {}) => {n \in live : n[1] = w} \subseteq excused

\* The agent has broadcast the live names and nothing is on its way.
Settled ==
  /\ online /\ ~asked /\ reply = None /\ polls = {} /\ last = live

\* "when the live set of session names changes, push the fresh list to every
\* connected client": a phone shows what the agent last broadcast.  Not true of
\* the code: a reply read earlier, or to another question, is not in lastBrowserNames.
ChipsCatchUp == Settled => shown = live
===============================================================================
