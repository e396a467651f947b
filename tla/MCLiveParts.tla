------------------------ MODULE MCLiveParts ------------------------
(***************************************************************************)
(* Small instances of the parts something must eventually happen in, each  *)
(* with the fairness its code justifies.  They share no state: a behaviour *)
(* is one of one part, named by `part`, and the variables of the rest stay *)
(* 0.                                                                      *)
(***************************************************************************)
EXTENDS TLC

CONSTANTS
  Ids, Clients, Listings, Names,  \* of the poll
  Machines, m1, d1, d2,           \* machines, the first one, project folders
  MaxRefocus,                     \* of the home screen
  Takes,                          \* of dictation
  None

VARIABLES
  part,  \* the part a behaviour is of
  tmux, title, parked, status, hidden, snapshot, move, minted, known, lst, online,
  view, creating, unwatched, late, outdated,
  config, linked, reached, homeListed, elapsed, grace, filter, populated, refocuses,
  state, starts, used, mics, recorder, stream, jobs, raced, broken,
  made, held, congested, wire, seq, decoding, drawn

Poll == INSTANCE Announcements WITH
  Hides <- FALSE, Absent <- None
Home == INSTANCE HomeScreen WITH
  Folders <- {d1, d2}, FolderOf <- [m \in Machines |-> IF m = m1 THEN d1 ELSE d2],
  status <- linked, listed <- homeListed
Speech == INSTANCE Dictation
Screen == INSTANCE Frames WITH
  MaxFrame <- 4, MaxWire <- 2

announcements == <<tmux, title, parked, status, hidden, snapshot, move, minted,
                   known, lst, online, view, creating, unwatched, late, outdated>>
home == <<config, linked, reached, homeListed, elapsed, grace, filter, populated,
          refocuses>>
dictating == <<state, starts, used, mics, recorder, stream, jobs, raced, broken>>
frames == <<made, held, congested, wire, seq, decoding, drawn>>
vars == <<part, announcements, home, dictating, frames>>

\* Nothing of a part that is not the one under way.
NoAnnouncements ==
  /\ tmux = 0 /\ title = 0 /\ parked = 0 /\ status = 0 /\ hidden = 0
  /\ snapshot = 0 /\ move = 0 /\ minted = 0 /\ known = 0 /\ lst = 0 /\ online = 0
  /\ view = 0 /\ creating = 0 /\ unwatched = 0 /\ late = 0 /\ outdated = 0
NoHome ==
  /\ config = 0 /\ linked = 0 /\ reached = 0 /\ homeListed = 0 /\ elapsed = 0
  /\ grace = 0 /\ filter = 0 /\ populated = 0 /\ refocuses = 0
NoDictating ==
  /\ state = 0 /\ starts = 0 /\ used = 0 /\ mics = 0 /\ recorder = 0 /\ stream = 0
  /\ jobs = 0 /\ raced = 0 /\ broken = 0
NoFrames ==
  /\ made = 0 /\ held = 0 /\ congested = 0 /\ wire = 0 /\ seq = 0 /\ decoding = 0
  /\ drawn = 0

Init ==
  \/ /\ part = "poll" /\ Poll!Init
     /\ NoHome /\ NoDictating /\ NoFrames
  \/ /\ part = "home" /\ Home!Init
     /\ NoAnnouncements /\ NoDictating /\ NoFrames
  \/ /\ part = "dictation" /\ Speech!Init
     /\ NoAnnouncements /\ NoHome /\ NoFrames
  \/ /\ part = "screen" /\ Screen!Init
     /\ NoAnnouncements /\ NoHome /\ NoDictating

Next ==
  \/ /\ part = "poll" /\ Poll!Next
     /\ UNCHANGED <<part, home, dictating, frames>>
  \/ /\ part = "home" /\ Home!Next
     /\ UNCHANGED <<part, announcements, dictating, frames>>
  \/ /\ part = "dictation" /\ Speech!Next
     /\ UNCHANGED <<part, announcements, home, frames>>
  \/ /\ part = "screen" /\ Screen!Next
     /\ UNCHANGED <<part, announcements, home, dictating>>

Spec == Init /\ [][Next]_vars

Listing(l) == part = "poll" /\ Poll!ListingStep(l) /\ UNCHANGED <<part, home, dictating, frames>>
Moving(w) == part = "poll" /\ Poll!MoveStep(w) /\ UNCHANGED <<part, home, dictating, frames>>
Ticking == /\ part = "poll" /\ \E l \in Listings : Poll!Tick(l)
           /\ UNCHANGED <<part, home, dictating, frames>>
Grace == /\ part = "home" /\ Home!GraceExpires
         /\ UNCHANGED <<part, announcements, dictating, frames>>

Dictates(A) == part = "dictation" /\ A /\ UNCHANGED <<part, announcements, home, frames>>
Stopped == Dictates(\E j \in Speech!At("stop") : Speech!OnStop(j))
Fetched == Dictates(\E j \in Speech!At("fetch") : Speech!Fetch(j))

Paints(A) == part = "screen" /\ A /\ UNCHANGED <<part, announcements, home, dictating>>
Draining == Paints(Screen!Drains)
Receiving == Paints(Screen!Receive)
Decoding == Paints(\E x \in decoding : Screen!Decoded(x))

\* Timers fire and awaits answer; what a user, a program or a network may do has
\* no fairness.
LiveSpec ==
  /\ Spec
  /\ \A l \in Listings : WF_vars(Listing(l))
  /\ \A w \in Ids : WF_vars(Moving(w))
  /\ SF_vars(Ticking)
  /\ WF_vars(Grace)
  /\ WF_vars(Stopped) /\ WF_vars(Fetched)
  /\ WF_vars(Draining) /\ WF_vars(Receiving) /\ WF_vars(Decoding)

-----------------------------------------------------------------------------
(* Properties *)

\* A ghost the poll knows leaves every device that stays connected, and a new title
\* reaches every device that shows the workspace, unless it is forgotten, swept or
\* renamed first (ws-server.ts, pollTitles).
NewsArrives ==
  \A c \in Clients, w \in Ids :
    /\ (part = "poll" /\ Poll!Haunts(c, w)) ~> (part = "poll" /\ Poll!Laid(c, w))
    /\ \A n \in Names :
         (part = "poll" /\ Poll!Renamed(c, w, n)) ~> (part = "poll" /\ Poll!Arrived(c, w, n))

\* A spinner gives way to a list, the create screen or the reconnect screen
\* (store.svelte.ts, recomputeGrace).
SpinnerEnds == (part = "home" /\ Home!Spins) ~> (part = "home" /\ ~Home!Spins)

\* Dictation does not stay transcribing, but on a recorder whose microphone the platform
\* took away and on an answer whose body does not come (speech-to-text.ts,
\* elevenlabs-transcriber.ts).
TranscribingEnds ==
  (part = "dictation" /\ Speech!Transcribes)
    ~> (part = "dictation" /\ (~Speech!Transcribes \/ Speech!Hangs))

\* The canvas never goes back to an older frame, and when the page rests its last
\* frame is drawn, or held back for want of another message (relayUpstreamMessage).
FramesSettle ==
  /\ [][part = "screen" => Screen!NeverBackwards]_vars
  /\ []<>(part = "screen" => Screen!DrawnOrHeld)
====================================================================
