--------------------------------- MODULE Uploads ---------------------------------
(***************************************************************************)
(* Files attached to a terminal: pasted images and picked files, from the  *)
(* tap to the path typed back at the cursor.  The phone reads the bytes,   *)
(* sends putFile, the agent finds the workspace, looks for a free name in  *)
(* its .tmp/files and writes, and fileStored comes back.  Every step is an *)
(* await, so pastes overlap each other and the user's navigation.          *)
(*                                                                         *)
(* All files here have the same name, as pasted images do: a stored file   *)
(* is the workspace and the number uniqueName gave it.                     *)
(***************************************************************************)
EXTENDS Naturals

CONSTANTS
  Ids,     \* workspaces
  Pastes,  \* bound: the files attached, each once
  Huge,    \* those over the upload limit
  None,    \* no workspace, no file
  Last     \* bound: the numbers uniqueName tries

VARIABLES
  active,   \* PerchStore.active
  alive,    \* workspaces with a tmux session
  phase,    \* of each paste
  from,     \* workspace in whose terminal it was attached
  target,   \* workspace named by its putFile
  try,      \* the number uniqueName is at
  files,    \* content of each name in each workspace's .tmp/files
  seen,     \* history: files already stored when its putFile was handled
  typed     \* history: paths typed, as terminal, workspace and number

paste == <<phase, from, target, try>>
vars == <<active, alive, paste, files, seen, typed>>

Slots == Ids \X (0..Last)
Phases == {"new", "reading", "sent", "choosing", "writing", "stored", "done"}

TypeOK ==
  /\ active \in Ids \cup {None} /\ alive \subseteq Ids
  /\ phase \in [Pastes -> Phases]
  /\ from \in [Pastes -> Ids \cup {None}] /\ target \in [Pastes -> Ids \cup {None}]
  /\ try \in [Pastes -> 0..Last]
  /\ files \in [Slots -> Pastes \cup {None}]
  /\ seen \in [Pastes -> SUBSET Pastes] /\ typed \subseteq Ids \X Slots

Init ==
  /\ active = None /\ alive = Ids
  /\ phase = [p \in Pastes |-> "new"]
  /\ from = [p \in Pastes |-> None] /\ target = from /\ try = [p \in Pastes |-> 0]
  /\ files = [s \in Slots |-> None]
  /\ seen = [p \in Pastes |-> {}] /\ typed = {}

Moves(p, a, b) == phase[p] = a /\ phase' = [phase EXCEPT ![p] = b]

-----------------------------------------------------------------------------
(* The phone *)

Open(w) ==
  /\ w \in alive /\ active # w /\ active' = w
  /\ UNCHANGED <<alive, paste, files, seen, typed>>

Leave ==
  /\ active # None /\ active' = None
  /\ UNCHANGED <<alive, paste, files, seen, typed>>

\* The paste button, or a file chosen in the picker: reading it is an await.
Attach(p) ==
  /\ active # None /\ Moves(p, "new", "reading")
  /\ from' = [from EXCEPT ![p] = active]
  /\ UNCHANGED <<active, alive, target, try, files, seen, typed>>

\* sendPutFile: to whatever workspace is open by now.
SendPutFile(p) ==
  /\ active # None /\ p \notin Huge /\ Moves(p, "reading", "sent")
  /\ target' = [target EXCEPT ![p] = active]
  /\ UNCHANGED <<active, alive, from, try, files, seen, typed>>

\* No workspace is open any more, the file is too large, or the clipboard refuses.
NotSent(p) ==
  /\ Moves(p, "reading", "done")
  /\ UNCHANGED <<active, alive, from, target, try, files, seen, typed>>

\* Faulty variant: the path is typed into whatever terminal is open.
TypeAnywhere(p) ==
  /\ Moves(p, "stored", "done")
  /\ typed' = IF active # None THEN typed \cup {<<active, <<target[p], try[p]>>>>}
              ELSE typed
  /\ UNCHANGED <<active, alive, from, target, try, files, seen>>

\* fileStored: the path is typed if its workspace is the open one, else dropped.
FileStored(p) ==
  /\ Moves(p, "stored", "done")
  /\ typed' = IF active = target[p] THEN typed \cup {<<active, <<target[p], try[p]>>>>}
              ELSE typed
  /\ UNCHANGED <<active, alive, from, target, try, files, seen>>

-----------------------------------------------------------------------------
(* The agent *)

WorkspaceEnds(w) ==
  /\ w \in alive /\ alive' = alive \ {w}
  /\ UNCHANGED <<active, paste, files, seen, typed>>

\* putFile: the workspace's path is asked of tmux; without one it is an error.
Locate(p) ==
  /\ \/ target[p] \in alive /\ Moves(p, "sent", "choosing")
        /\ seen' = [seen EXCEPT ![p] = {files[s] : s \in Slots} \ {None}]
     \/ target[p] \notin alive /\ Moves(p, "sent", "done") /\ seen' = seen
  /\ UNCHANGED <<active, alive, from, target, try, files, typed>>

\* Faulty variant: only the plain name is checked, `-1` is taken for free.
ExistsUnchecked(p) ==
  /\ phase[p] = "choosing"
  /\ \/ /\ files[<<target[p], try[p]>>] = None \/ try[p] > 0
        /\ Moves(p, "choosing", "writing") /\ try' = try
     \/ /\ files[<<target[p], try[p]>>] # None /\ try[p] = 0
        /\ phase' = phase /\ try' = [try EXCEPT ![p] = @ + 1]
  /\ UNCHANGED <<active, alive, from, target, files, seen, typed>>

\* uniqueName: one exists() at a time.
Exists(p) ==
  /\ phase[p] = "choosing"
  /\ \/ /\ files[<<target[p], try[p]>>] = None
        /\ Moves(p, "choosing", "writing") /\ try' = try
     \/ /\ files[<<target[p], try[p]>>] # None /\ try[p] < Last
        /\ phase' = phase /\ try' = [try EXCEPT ![p] = @ + 1]
  /\ UNCHANGED <<active, alive, from, target, files, seen, typed>>

WriteFile(p) ==
  /\ Moves(p, "writing", "stored")
  /\ files' = [files EXCEPT ![<<target[p], try[p]>>] = p]
  /\ UNCHANGED <<active, alive, from, target, try, seen, typed>>

Next ==
  \/ \E w \in Ids : Open(w) \/ WorkspaceEnds(w)
  \/ Leave
  \/ \E p \in Pastes : Attach(p) \/ SendPutFile(p) \/ NotSent(p) \/ FileStored(p)
                       \/ Locate(p) \/ Exists(p) \/ WriteFile(p)

Spec == Init /\ [][Next]_vars

-----------------------------------------------------------------------------
(* Properties *)

\* uniqueName keeps an attached file from replacing one that was already there when
\* its putFile was handled, whatever else is being stored at the time.
OlderFilesSurvive ==
  \A s \in Slots : (files[s] # None /\ files'[s] # files[s])
                        => files[s] \notin seen[files'[s]]

\* A path is typed only into the terminal whose folder it is relative to, however
\* the user moved while the file was on its way, and there is a file behind it.
TypedAtHome == \A t \in typed : t[2][1] = t[1] /\ files[t[2]] # None

\* Every stored file is still there.  Not true of the code: two putFiles at once can
\* both find the same name free.
AllSurvive ==
  \A p \in Pastes : phase[p] \in {"stored"} => files[<<target[p], try[p]>>] = p

\* A file goes to the workspace it was attached in.  Not true of the code: the
\* workspace is read after the clipboard was.
GoesHome == \A p \in Pastes : target[p] \in {None, from[p]}
===============================================================================
