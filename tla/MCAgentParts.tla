------------------------ MODULE MCAgentParts ------------------------
(***************************************************************************)
(* Small instances of the parts of the agent that share no state with each *)
(* other: a behaviour is one of one part, named by `part`, and the          *)
(* variables of the rest stay 0.                                           *)
(***************************************************************************)
EXTENDS TLC

CONSTANTS
  Ids, Clients, Devices, Listings, Titles, \* of the agent's clients and listings
  Twins,                                   \* listings, sockets or workspaces, each in its own part
  Sessions, Choices,                       \* of the hooks
  Slugs, Sites, MaxPolls,                  \* of the browser sessions
  Pastes, Huge, Last,                      \* of the attached files
  Requests, Inodes, Cap, MaxSize,          \* of the files served
  None

VARIABLES
  part,  \* the part a behaviour is of
  tmux, title, parked, status, hidden, snapshot, move, minted, known, lst, online,
  view, creating, unwatched, late, outdated,
  up, entry, file, deferred, phase, task, idleDue, note, heard, byHand, pin, blind,
  tardy, mislaid, torn,
  shown, terminal, sock, retries, ousted, owner, client, relay, gone, upstream,
  down, holder, session,
  live, running, connected, polls, asked, reply, last, chips, starting, stopping,
  cascade, excused,
  active, alive, upload, from, target, try, files, seen, typed,
  at, size, allowed, stage, stat, fd, body, touched

TwoListings == INSTANCE AnnouncementsProofs WITH
  Listings <- Twins, Hides <- FALSE, Names <- Titles, Absent <- None
TwoDevices == INSTANCE AnnouncementsProofs WITH
  Clients <- Devices, Hides <- FALSE, Names <- Titles, Absent <- None
Hiding == INSTANCE AnnouncementsProofs WITH
  Hides <- TRUE, Names <- Titles, Absent <- None
Hooks == INSTANCE Attention
Relay == INSTANCE BrowserRelayProofs WITH
  Socks <- Twins
Chips == INSTANCE BrowserSessions WITH
  alive <- running, online <- connected, shown <- chips
Attach == INSTANCE Uploads WITH
  Ids <- Twins, phase <- upload
Serve == INSTANCE FileServe

announcements == <<tmux, title, parked, status, hidden, snapshot, move, minted,
                   known, lst, online, view, creating, unwatched, late, outdated>>
attention == <<up, entry, file, deferred, phase, task, idleDue, note, heard, byHand,
               pin, blind, tardy, mislaid, torn>>
relaying == <<shown, terminal, sock, retries, ousted, owner, client, relay, gone,
              upstream, down, holder, session>>
browsers == <<live, running, connected, polls, asked, reply, last, chips, starting,
              stopping, cascade, excused>>
uploads == <<active, alive, upload, from, target, try, files, seen, typed>>
serving == <<at, size, allowed, stage, stat, fd, body, touched>>
vars == <<part, announcements, attention, relaying, browsers, uploads, serving>>

\* Nothing of a part that is not the one under way.
NoAnnouncements ==
  /\ tmux = 0 /\ title = 0 /\ parked = 0 /\ status = 0 /\ hidden = 0
  /\ snapshot = 0 /\ move = 0 /\ minted = 0 /\ known = 0 /\ lst = 0 /\ online = 0
  /\ view = 0 /\ creating = 0 /\ unwatched = 0 /\ late = 0 /\ outdated = 0
NoAttention ==
  /\ up = 0 /\ entry = 0 /\ file = 0 /\ deferred = 0 /\ phase = 0 /\ task = 0
  /\ idleDue = 0 /\ note = 0 /\ heard = 0 /\ byHand = 0 /\ pin = 0 /\ blind = 0
  /\ tardy = 0 /\ mislaid = 0 /\ torn = 0
NoRelaying ==
  /\ shown = 0 /\ terminal = 0 /\ sock = 0 /\ retries = 0 /\ ousted = 0
  /\ owner = 0 /\ client = 0 /\ relay = 0 /\ gone = 0 /\ upstream = 0 /\ down = 0
  /\ holder = 0 /\ session = 0
NoBrowsers ==
  /\ live = 0 /\ running = 0 /\ connected = 0 /\ polls = 0 /\ asked = 0
  /\ reply = 0 /\ last = 0 /\ chips = 0 /\ starting = 0 /\ stopping = 0
  /\ cascade = 0 /\ excused = 0
NoUploads ==
  /\ active = 0 /\ alive = 0 /\ upload = 0 /\ from = 0 /\ target = 0 /\ try = 0
  /\ files = 0 /\ seen = 0 /\ typed = 0
NoServing ==
  /\ at = 0 /\ size = 0 /\ allowed = 0 /\ stage = 0 /\ stat = 0 /\ fd = 0
  /\ body = 0 /\ touched = 0

Init ==
  \/ /\ part = "listings" /\ TwoListings!Init
     /\ NoAttention /\ NoRelaying /\ NoBrowsers /\ NoUploads /\ NoServing
  \/ /\ part = "devices" /\ TwoDevices!Init
     /\ NoAttention /\ NoRelaying /\ NoBrowsers /\ NoUploads /\ NoServing
  \/ /\ part = "hiding" /\ Hiding!Init
     /\ NoAttention /\ NoRelaying /\ NoBrowsers /\ NoUploads /\ NoServing
  \/ /\ part = "attention" /\ Hooks!Init
     /\ NoAnnouncements /\ NoRelaying /\ NoBrowsers /\ NoUploads /\ NoServing
  \/ /\ part = "relay" /\ Relay!Init
     /\ NoAnnouncements /\ NoAttention /\ NoBrowsers /\ NoUploads /\ NoServing
  \/ /\ part = "browsers" /\ Chips!Init
     /\ NoAnnouncements /\ NoAttention /\ NoRelaying /\ NoUploads /\ NoServing
  \/ /\ part = "uploads" /\ Attach!Init
     /\ NoAnnouncements /\ NoAttention /\ NoRelaying /\ NoBrowsers /\ NoServing
  \/ /\ part = "files" /\ Serve!Init
     /\ NoAnnouncements /\ NoAttention /\ NoRelaying /\ NoBrowsers /\ NoUploads

Next ==
  \/ /\ part = "listings" /\ TwoListings!Next
     /\ UNCHANGED <<part, attention, relaying, browsers, uploads, serving>>
  \/ /\ part = "devices" /\ TwoDevices!Next
     /\ UNCHANGED <<part, attention, relaying, browsers, uploads, serving>>
  \/ /\ part = "hiding" /\ Hiding!Next
     /\ UNCHANGED <<part, attention, relaying, browsers, uploads, serving>>
  \/ /\ part = "attention" /\ Hooks!Next
     /\ UNCHANGED <<part, announcements, relaying, browsers, uploads, serving>>
  \/ /\ part = "relay" /\ Relay!Next
     /\ UNCHANGED <<part, announcements, attention, browsers, uploads, serving>>
  \/ /\ part = "browsers" /\ Chips!Next
     /\ UNCHANGED <<part, announcements, attention, relaying, uploads, serving>>
  \/ /\ part = "uploads" /\ Attach!Next
     /\ UNCHANGED <<part, announcements, attention, relaying, browsers, serving>>
  \/ /\ part = "files" /\ Serve!Next
     /\ UNCHANGED <<part, announcements, attention, relaying, browsers, uploads>>

Spec == Init /\ [][Next]_vars

Symmetry == Permutations(Twins) \cup Permutations(Pastes)

-----------------------------------------------------------------------------
(* Properties *)

\* Each workspace that is gone and still shown is on its way out, or went while
\* the poll did not know it, or was in an answer delivered after it went: with
\* two listings in flight, with two devices, and with folders hidden and shown.
\* While listings do not overlap, every device ends up with the latest status of
\* each workspace it shows, but for one whose create was answered late to it
\* (ws-server.ts, pollTitles and broadcastWorkspace).
ListingsSettle ==
  /\ part = "listings" => TwoListings!TypeOK /\ TwoListings!GhostsAreDoomed
  /\ part = "hiding" => Hiding!TypeOK /\ Hiding!GhostsAreDoomed
  /\ part = "devices" => /\ TwoDevices!TypeOK /\ TwoDevices!GhostsAreDoomed
                         /\ TwoDevices!LatestStatusShown

\* The poll sweeps only what is gone or hidden, or what it missed: revived between
\* the two reads of its listing, or learned by another tick (pollTitles).
SweepsOnlyTheMissed ==
  [][/\ part = "listings" => TwoListings!SweepsOnlyTheMissed
     /\ part = "devices" => TwoDevices!SweepsOnlyTheMissed
     /\ part = "hiding" => Hiding!SweepsOnlyTheMissed]_vars

\* A workspace that waits for the user says so until it is answered, it is not said
\* over background work but for a reason that is named, and a pin is kept, whatever
\* events, restarts and cut writes come in between (attention-decision.ts,
\* apply-hook-event.ts, file-status-store.ts).
AttentionKept ==
  [][part = "attention" => /\ Hooks!TypeOK'
                           /\ Hooks!NeverMissed'
                           /\ Hooks!QuestionStaysShown'
                           /\ Hooks!PinKept'
                           /\ Hooks!AlarmHasCause]_vars

\* A browser session has one upstream, that of its registered viewer, and a device
\* one stream, which does not come back by itself after a takeover
\* (browser-relay-handler.ts, browser-stream.ts).
OneBrowserViewer ==
  part = "relay" => Relay!TypeOK /\ Relay!OneUpstream /\ Relay!OneStream

\* Closing a workspace leaves none of its browsers running but those started after
\* they were listed, or that refused to stop (close-workspace-browser-sessions.ts).
OrphansAreLate == part = "browsers" => Chips!TypeOK /\ Chips!OrphansAreLate

\* An attached file replaces none stored before it, and its path is typed only in
\* the terminal it is relative to (store-pasted-file.ts, store.svelte.ts).
UploadsLand ==
  [][part = "uploads" => /\ Attach!OlderFilesSurvive
                         /\ Attach!TypeOK' /\ Attach!TypedAtHome']_vars

\* A file served as whole is whole, unless it changed while it was read
\* (read-servable-file.ts, fs-file-reader.ts).
WholeOrMarked == part = "files" => Serve!TypeOK /\ Serve!WholeOrMarked
=====================================================================
