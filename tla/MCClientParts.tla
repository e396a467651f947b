------------------------ MODULE MCClientParts ------------------------
(***************************************************************************)
(* Small instances of the parts of the PWA that share no state with each   *)
(* other: a behaviour is one of one part, named by `part`, and the         *)
(* variables of the rest stay 0.                                           *)
(***************************************************************************)
EXTENDS Sequences, TLC

CONSTANTS
  Machines, m1, d1, d2,                         \* machines, the first one, project folders
  Ones, Twins,                                  \* a workspace, a window or an object URL, and two
  Files, Huge,                                  \* of the shared files
  Pointers, Keys, Repeating, Editing, MaxFires, \* of the key bar
  Notch, Span,                                  \* of the cursor pad
  Letters, Space, MaxLine,                      \* of the Android keyboard
  Takes,                                        \* of dictation
  MaxRefocus,                                   \* of the home screen
  None

VARIABLES
  part,  \* the part a behaviour is of
  maker, alive, link, up, down, known, listed, page, active, pending, picker,
  browsing, unseen,
  online, dirs, recents, asked, formPage, machineId, path, pathEdited, selected,
  entries, failed, calls, picked,
  at, visit, root, rows, fileView, viewFailed, wanted, current, minted, loads,
  reads, twice,
  store, mem, posts, agent, pushed, excused,
  shared, cache, boot, arriving, open, deleting, given, replaced, swept,
  view, inTerminal, shown, healed, wire, dead, disconnected, toAgent, toPhone,
  waiting, viewing, ghosts, rival, sessions, parked,
  press, origin, fired, held, running, suppress, due, mods, keyed, cancelled, spent,
  gesture, ref, axis, finger, arrows,
  line, context, composing, composed, opening, armed, rest, before, disturbed,
  state, starts, used, mics, recorder, stream, jobs, raced, broken,
  config, status, reached, homeListed, elapsed, grace, filter, populated, refocuses

A == <<"a">>
AB == <<"ab">>
B == <<"b">>

\* One machine has its projects under two roots and its folders where a default is
\* set, the other has neither.
Defaults == [m \in Machines |-> IF m = m1 THEN A ELSE None]
Projects == [m \in Machines |-> IF m = m1 THEN {A, AB} ELSE {}]
Folders == [m \in Machines |-> IF m = m1 THEN {A, AB} ELSE {A}]

Create == INSTANCE CreateFlow WITH
  Ids <- Twins, Wide <- TRUE, MaxMsgs <- 1
Form == INSTANCE CreateForm WITH
  Default <- Defaults, Roots <- Projects, Start <- Folders, Names <- {"x"},
  Hidden <- {}, Longer <- {<<"a", "ab">>}, MaxDepth <- 2, MaxCalls <- 1,
  page <- formPage
Blobs == INSTANCE FileViews WITH
  Roots <- {A}, Subs <- {}, Texts <- {"txt"}, Media <- <<"img1", "img2">>,
  Urls <- Twins, MaxDepth <- 1, MaxVisits <- 1, MaxCalls <- 2, entries <- rows,
  failed <- viewFailed, asked <- wanted, calls <- reads
Browsing == INSTANCE FileViews WITH
  Roots <- {A, B}, Subs <- {"sub"}, Texts <- {}, Media <- <<>>, Urls <- Ones,
  MaxDepth <- 2, MaxVisits <- 2, MaxCalls <- 2, entries <- rows,
  failed <- viewFailed, asked <- wanted, calls <- reads
Flush == INSTANCE ConnectionLogProofs WITH
  Windows <- Ones, Everyone <- None, Cap <- 2, MaxSeq <- 3, MaxPosts <- 2
TwoWindows == INSTANCE ConnectionLogProofs WITH
  Windows <- Twins, Everyone <- None, Cap <- 1, MaxSeq <- 2, MaxPosts <- 1,
  Machines <- Ones
Shared == INSTANCE SharedFile WITH
  Windows <- Twins, pending <- arriving, sent <- given
Terminal == INSTANCE TerminalSession WITH
  Ids <- Twins, Faults <- {}, MaxMsgs <- 2, active <- inTerminal, link <- wire,
  alive <- sessions
Faulty == INSTANCE TerminalSession WITH
  Ids <- Twins, Faults <- {"slow", "restart", "reopen", "exit", "park"},
  MaxMsgs <- 2, active <- inTerminal, link <- wire, alive <- sessions
KeyBar == INSTANCE KeyPress WITH
  at <- press, sent <- keyed, used <- spent
Pad == INSTANCE CursorPad
Typing == INSTANCE AndroidInput WITH
  Lines <- {<<>>, <<"a", "b">>}
Speech == INSTANCE Dictation
Home == INSTANCE HomeScreen WITH
  Folders <- {d1, d2}, FolderOf <- [m \in Machines |-> IF m = m1 THEN d1 ELSE d2],
  listed <- homeListed

creating == <<maker, alive, link, up, down, known, listed, page, active, pending,
              picker, browsing, unseen>>
form == <<online, dirs, recents, asked, formPage, machineId, path, pathEdited,
          selected, entries, failed, calls, picked>>
fileViews == <<at, visit, root, rows, fileView, viewFailed, wanted, current, minted,
               loads, reads, twice>>
logging == <<store, mem, posts, agent, pushed, excused>>
sharing == <<shared, cache, boot, arriving, open, deleting, given, replaced, swept>>
attaching == <<view, inTerminal, shown, healed, wire, dead, disconnected, toAgent,
               toPhone, waiting, viewing, ghosts, rival, sessions, parked>>
pressing == <<press, origin, fired, held, running, suppress, due, mods, keyed,
              cancelled, spent>>
swiping == <<gesture, ref, axis, finger, arrows>>
typing == <<line, context, composing, composed, opening, armed, rest, before,
            disturbed>>
dictating == <<state, starts, used, mics, recorder, stream, jobs, raced, broken>>
home == <<config, status, reached, homeListed, elapsed, grace, filter, populated,
          refocuses>>
vars == <<part, creating, form, fileViews, logging, sharing, attaching, pressing, swiping,
         typing, dictating, home>>

\* Nothing of a part that is not the one under way.
NoCreating ==
  /\ maker = 0 /\ alive = 0 /\ link = 0 /\ up = 0 /\ down = 0 /\ known = 0
  /\ listed = 0 /\ page = 0 /\ active = 0 /\ pending = 0 /\ picker = 0
  /\ browsing = 0 /\ unseen = 0
NoForm ==
  /\ online = 0 /\ dirs = 0 /\ recents = 0 /\ asked = 0 /\ formPage = 0
  /\ machineId = 0 /\ path = 0 /\ pathEdited = 0 /\ selected = 0 /\ entries = 0
  /\ failed = 0 /\ calls = 0 /\ picked = 0
NoFileViews ==
  /\ at = 0 /\ visit = 0 /\ root = 0 /\ rows = 0 /\ fileView = 0 /\ viewFailed = 0
  /\ wanted = 0 /\ current = 0 /\ minted = 0 /\ loads = 0 /\ reads = 0
  /\ twice = 0
NoLogging ==
  /\ store = 0 /\ mem = 0 /\ posts = 0 /\ agent = 0 /\ pushed = 0 /\ excused = 0
NoSharing ==
  /\ shared = 0 /\ cache = 0 /\ boot = 0 /\ arriving = 0 /\ open = 0
  /\ deleting = 0 /\ given = 0 /\ replaced = 0 /\ swept = 0
NoAttaching ==
  /\ view = 0 /\ inTerminal = 0 /\ shown = 0 /\ healed = 0 /\ wire = 0 /\ dead = 0
  /\ disconnected = 0 /\ toAgent = 0 /\ toPhone = 0 /\ waiting = 0 /\ viewing = 0
  /\ ghosts = 0 /\ rival = 0 /\ sessions = 0 /\ parked = 0
NoPressing ==
  /\ press = 0 /\ origin = 0 /\ fired = 0 /\ held = 0 /\ running = 0
  /\ suppress = 0 /\ due = 0 /\ mods = 0 /\ keyed = 0 /\ cancelled = 0
  /\ spent = 0
NoSwiping ==
  /\ gesture = 0 /\ ref = 0 /\ axis = 0 /\ finger = 0 /\ arrows = 0
NoTyping ==
  /\ line = 0 /\ context = 0 /\ composing = 0 /\ composed = 0 /\ opening = 0
  /\ armed = 0 /\ rest = 0 /\ before = 0 /\ disturbed = 0
NoDictating ==
  /\ state = 0 /\ starts = 0 /\ used = 0 /\ mics = 0 /\ recorder = 0 /\ stream = 0
  /\ jobs = 0 /\ raced = 0 /\ broken = 0
NoHome ==
  /\ config = 0 /\ status = 0 /\ reached = 0 /\ homeListed = 0 /\ elapsed = 0
  /\ grace = 0 /\ filter = 0 /\ populated = 0 /\ refocuses = 0

Init ==
  \/ /\ part = "create" /\ Create!Init
     /\ NoForm /\ NoFileViews /\ NoLogging /\ NoSharing /\ NoAttaching
     /\ NoPressing /\ NoSwiping /\ NoTyping /\ NoDictating /\ NoHome
  \/ /\ part = "form" /\ Form!Init
     /\ NoCreating /\ NoFileViews /\ NoLogging /\ NoSharing /\ NoAttaching
     /\ NoPressing /\ NoSwiping /\ NoTyping /\ NoDictating /\ NoHome
  \/ /\ part = "media" /\ Blobs!Init
     /\ NoCreating /\ NoForm /\ NoLogging /\ NoSharing /\ NoAttaching
     /\ NoPressing /\ NoSwiping /\ NoTyping /\ NoDictating /\ NoHome
  \/ /\ part = "folders" /\ Browsing!Init
     /\ NoCreating /\ NoForm /\ NoLogging /\ NoSharing /\ NoAttaching
     /\ NoPressing /\ NoSwiping /\ NoTyping /\ NoDictating /\ NoHome
  \/ /\ part = "flush" /\ Flush!Init
     /\ NoCreating /\ NoForm /\ NoFileViews /\ NoSharing /\ NoAttaching
     /\ NoPressing /\ NoSwiping /\ NoTyping /\ NoDictating /\ NoHome
  \/ /\ part = "windows" /\ TwoWindows!Init
     /\ NoCreating /\ NoForm /\ NoFileViews /\ NoSharing /\ NoAttaching
     /\ NoPressing /\ NoSwiping /\ NoTyping /\ NoDictating /\ NoHome
  \/ /\ part = "shared" /\ Shared!Init
     /\ NoCreating /\ NoForm /\ NoFileViews /\ NoLogging /\ NoAttaching
     /\ NoPressing /\ NoSwiping /\ NoTyping /\ NoDictating /\ NoHome
  \/ /\ part = "terminal" /\ Terminal!Init
     /\ NoCreating /\ NoForm /\ NoFileViews /\ NoLogging /\ NoSharing
     /\ NoPressing /\ NoSwiping /\ NoTyping /\ NoDictating /\ NoHome
  \/ /\ part = "faults" /\ Faulty!Init
     /\ NoCreating /\ NoForm /\ NoFileViews /\ NoLogging /\ NoSharing
     /\ NoPressing /\ NoSwiping /\ NoTyping /\ NoDictating /\ NoHome
  \/ /\ part = "keys" /\ KeyBar!Init
     /\ NoCreating /\ NoForm /\ NoFileViews /\ NoLogging /\ NoSharing
     /\ NoAttaching /\ NoSwiping /\ NoTyping /\ NoDictating /\ NoHome
  \/ /\ part = "pad" /\ Pad!Init
     /\ NoCreating /\ NoForm /\ NoFileViews /\ NoLogging /\ NoSharing
     /\ NoAttaching /\ NoPressing /\ NoTyping /\ NoDictating /\ NoHome
  \/ /\ part = "typing" /\ Typing!Init
     /\ NoCreating /\ NoForm /\ NoFileViews /\ NoLogging /\ NoSharing
     /\ NoAttaching /\ NoPressing /\ NoSwiping /\ NoDictating /\ NoHome
  \/ /\ part = "dictation" /\ Speech!Init
     /\ NoCreating /\ NoForm /\ NoFileViews /\ NoLogging /\ NoSharing
     /\ NoAttaching /\ NoPressing /\ NoSwiping /\ NoTyping /\ NoHome
  \/ /\ part = "home" /\ Home!Init
     /\ NoCreating /\ NoForm /\ NoFileViews /\ NoLogging /\ NoSharing
     /\ NoAttaching /\ NoPressing /\ NoSwiping /\ NoTyping /\ NoDictating

Next ==
  \/ /\ part = "create" /\ Create!Next
     /\ UNCHANGED <<part, form, fileViews, logging, sharing, attaching, pressing, swiping,
                    typing, dictating, home>>
  \/ /\ part = "form" /\ Form!Next
     /\ UNCHANGED <<part, creating, fileViews, logging, sharing, attaching, pressing,
                    swiping, typing, dictating, home>>
  \/ /\ part = "media" /\ Blobs!Next
     /\ UNCHANGED <<part, creating, form, logging, sharing, attaching, pressing, swiping,
                    typing, dictating, home>>
  \/ /\ part = "folders" /\ Browsing!Next
     /\ UNCHANGED <<part, creating, form, logging, sharing, attaching, pressing, swiping,
                    typing, dictating, home>>
  \/ /\ part = "flush" /\ Flush!Next
     /\ UNCHANGED <<part, creating, form, fileViews, sharing, attaching, pressing,
                    swiping, typing, dictating, home>>
  \/ /\ part = "windows" /\ TwoWindows!Next
     /\ UNCHANGED <<part, creating, form, fileViews, sharing, attaching, pressing,
                    swiping, typing, dictating, home>>
  \/ /\ part = "shared" /\ Shared!Next
     /\ UNCHANGED <<part, creating, form, fileViews, logging, attaching, pressing,
                    swiping, typing, dictating, home>>
  \/ /\ part = "terminal" /\ Terminal!Next
     /\ UNCHANGED <<part, creating, form, fileViews, logging, sharing, pressing, swiping,
                    typing, dictating, home>>
  \/ /\ part = "faults" /\ Faulty!Next
     /\ UNCHANGED <<part, creating, form, fileViews, logging, sharing, pressing, swiping,
                    typing, dictating, home>>
  \/ /\ part = "keys" /\ KeyBar!Next
     /\ UNCHANGED <<part, creating, form, fileViews, logging, sharing, attaching, swiping,
                    typing, dictating, home>>
  \/ /\ part = "pad" /\ Pad!Next
     /\ UNCHANGED <<part, creating, form, fileViews, logging, sharing, attaching,
                    pressing, typing, dictating, home>>
  \/ /\ part = "typing" /\ Typing!Next
     /\ UNCHANGED <<part, creating, form, fileViews, logging, sharing, attaching,
                    pressing, swiping, dictating, home>>
  \/ /\ part = "dictation" /\ Speech!Next
     /\ UNCHANGED <<part, creating, form, fileViews, logging, sharing, attaching,
                    pressing, swiping, typing, home>>
  \/ /\ part = "home" /\ Home!Next
     /\ UNCHANGED <<part, creating, form, fileViews, logging, sharing, attaching,
                    pressing, swiping, typing, dictating>>

Spec == Init /\ [][Next]_vars

Symmetry == Permutations(Twins)

-----------------------------------------------------------------------------
(* Properties *)

\* What opens by itself is what this device asked for, and the page shows an
\* agent's error unless the form was left with its picker open (store.svelte.ts).
CreateKeepsItsWord ==
  [][part = "create" => /\ Create!TypeOK'
                        /\ Create!OpensOnlyTheNew /\ Create!ErrorsAreSeen]_vars

\* What the form would create on the machine a folder was picked for is that
\* folder, until the user writes something else (CreateWorkspace.svelte).
KeepsThePick == part = "form" => Form!TypeOK /\ Form!KeepsThePick

\* The media on show is the file asked for and not revoked, no object URL is
\* forgotten unless one file was fetched twice at once, and the browser stays in
\* its project folder but for a late answer (store.svelte.ts, FileBrowser.svelte).
FileViewsSound ==
  /\ part = "media" => Blobs!TypeOK /\ Blobs!BlobsAreKept
  /\ part = "folders" => Browsing!TypeOK /\ Browsing!Confined

\* A logged event is in the file of every agent it is for, or still pending in a
\* ring, but for the ring's capacity, a refused write and another window's save
\* (connection-log.ts, connection-log-flush.ts).
EventsSurvive ==
  /\ part = "flush" => Flush!TypeOK /\ Flush!EventsSurvive
  /\ part = "windows" => TwoWindows!TypeOK /\ TwoWindows!EventsSurvive

\* A shared file is stashed until it is attached, replaced by a later share, or
\* swept with an older one (shared-file.ts).
ShareSurvives == part = "shared" => Shared!TypeOK /\ Shared!ShareSurvives

\* On a link that drops and reconnects, a terminal without an overlay is attached
\* and one that was left is not; and with agents that restart, sessions that are
\* opened again and late answers, the refresh button still heals the terminal
\* (store.svelte.ts, TerminalView.svelte, connection-handler.ts).
TerminalFollowsAgent ==
  /\ part = "terminal" => /\ Terminal!TypeOK
                          /\ Terminal!LiveMeansAttached
                          /\ Terminal!LeftMeansDetached
  /\ part = "faults" => Faulty!TypeOK /\ Faulty!RefreshHeals

\* A press called off sends nothing, any other key that does not repeat fires once,
\* a key repeats only while held, and an armed modifier changes one key; the pad
\* sends the arrows of the finger's travel along the locked axis, to within a notch
\* (KeyboardBar.svelte, keyboard-modifiers.ts, key-repeat.ts, cursor-pad.ts).
KeysCount ==
  /\ part = "keys" => /\ KeyBar!TypeOK
                      /\ KeyBar!OnePress /\ KeyBar!StopsWhenReleased /\ KeyBar!OneShot
  /\ part = "pad" => Pad!PadFollows

\* What the Android keyboard holds is what is on the line, until the line changes
\* behind its back (android-input.ts).
InStep == part = "typing" => Typing!TypeOK /\ Typing!InStep

\* The microphone is on only while a recording is shown or its stop is under way,
\* unless the button was tapped before the permission came; the microphone of a recorder
\* that failed to start is left out (speech-to-text.ts, media-recorder-audio.ts).
MicIsReleased == part = "dictation" => Speech!TypeOK /\ Speech!MicIsReleased

\* The grace clock runs exactly while machines are wanted and none is online, no
\* row outlives its link, the filter never empties the list, and links that retry
\* and fail do not make the screen flicker (store.svelte.ts, home-view.ts).
HomeHolds ==
  [][part = "home" => /\ Home!TypeOK' /\ Home!ClockMatchesLinks' /\ Home!NoOrphanRows'
                      /\ Home!FilterShowsSomething' /\ Home!NoFlicker]_vars
======================================================================
