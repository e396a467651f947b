------------------------------ MODULE CreateForm ------------------------------
(* The fields of the New-workspace form (CreateWorkspace.svelte) and its      *)
(* folder picker (FolderPicker.svelte, browse-dir.ts, make-dir.ts): machine   *)
(* and path, which the form also fills by itself, and the folder the picker   *)
(* returns.  A path is the sequence of its segments; the path field holds an  *)
(* absolute one or one relative to the default folder of the machine.         *)
EXTENDS Integers, Sequences, FiniteSets, SequencesExt

CONSTANTS Machines, None,
          Default,   \* machine |-> its default folder, or None
          Roots,     \* machine |-> its project roots
          Start,     \* machine |-> the folders it starts with
          Names,     \* names a folder can have
          Hidden,    \* the names the agent hides
          Longer,    \* pairs of names, the second spelled as the first and more
          MaxDepth,  \* bound on the depth of the folders made
          MaxCalls   \* bound on the requests under way

VARIABLES online,    \* machines whose link is online
          dirs,      \* machine |-> its folders
          recents,   \* store.recentPaths: machine |-> its last folder, or None
          asked,     \* machines that owe the list of recent folders
          page,      \* "list", "form", "picker"
          machineId, path, pathEdited,
          selected,  \* the root chosen from a list of several
          entries,   \* store.dirEntries, with the machine it came from
          failed,    \* store.browseError is set
          calls,     \* browse and makeDir requests the agents have not answered
          picked     \* history: the folder the user picked last, and for which machine

fields == <<machineId, path, pathEdited, picked>>
picker == <<selected, entries, failed>>
vars == <<online, dirs, recents, asked, page, fields, picker, calls>>

DefaultOf(m) == IF m = None THEN None ELSE Default[m]
Under(p, roots) == \E r \in roots : IsPrefix(r, p)
Empty == [abs |-> FALSE, segs |-> <<>>]
Absolute(p) == [abs |-> TRUE, segs |-> p]

(* What the path field stands for on a machine, None if nothing is sent.     *)
resolveProjectPath(d, f) ==
  IF f.abs THEN f.segs
  ELSE IF d # None THEN d \o f.segs ELSE None

(* Faulty variant: a default that is only a prefix of the spelling is cut.   *)
relativeBySpelling(d, p) ==
  IF d # None /\ Len(p) = Len(d) /\ <<Last(d), Last(p)>> \in Longer
    THEN Empty
  ELSE IF d # None /\ IsPrefix(d, p)
    THEN [abs |-> FALSE, segs |-> SubSeq(p, Len(d) + 1, Len(p))]
    ELSE Absolute(p)

(* The field's value for a folder.                                           *)
relativeProjectPath(d, p) ==
  IF d # None /\ IsPrefix(d, p)
    THEN [abs |-> FALSE, segs |-> SubSeq(p, Len(d) + 1, Len(p))]
    ELSE Absolute(p)

TypeOK ==
  /\ online \subseteq Machines /\ asked \subseteq Machines
  /\ machineId \in Machines \union {None}
  /\ {pathEdited, failed} \subseteq BOOLEAN
  /\ page \in {"list", "form", "picker"}
  /\ Cardinality(calls) <= MaxCalls

Init ==
  /\ online = Machines /\ dirs = Start /\ asked = {}
  /\ recents = [m \in Machines |-> None]
  /\ page = "list" /\ machineId = None /\ path = Empty /\ pathEdited = FALSE
  /\ selected = None /\ entries = None /\ failed = FALSE
  /\ calls = {} /\ picked = None

(* The two effects of the form: a machine that is online stays selected, and *)
(* until the user edits it the path is the machine's most recent one.        *)
KeepMachine(m, up) == IF m \in up THEN {m} ELSE IF up = {} THEN {None} ELSE up

Recent(rec, m) == IF m = None \/ rec[m] = None THEN Empty ELSE Absolute(rec[m])

(* Faulty variant: the recent path fills the field whoever wrote it.         *)
FillPathAlways(rec, m) == path' = Recent(rec, m)

FillPath(rec, m) == path' = IF pathEdited THEN path ELSE Recent(rec, m)

(* store.goCreate, and the form is mounted.                                  *)
GoCreate ==
  /\ page = "list" /\ page' = "form"
  /\ asked' = online /\ entries' = None
  /\ \E m \in KeepMachine(None, online) : machineId' = m /\ path' = Recent(recents, m)
  /\ pathEdited' = FALSE /\ picked' = None
  /\ UNCHANGED <<online, dirs, recents, selected, failed, calls>>

(* Leaving the form, its fields are gone.                                    *)
CancelCreate == /\ page = "form" /\ page' = "list"
                /\ machineId' = None /\ path' = Empty /\ pathEdited' = FALSE
                /\ picked' = None
                /\ UNCHANGED <<online, dirs, recents, asked, picker, calls>>

Mounted == page \in {"form", "picker"}

ReceiveRecents(m) ==
  /\ m \in asked /\ asked' = asked \ {m}
  /\ \E p \in dirs[m] : recents' = [recents EXCEPT ![m] = p]
  /\ IF Mounted /\ machineId = m THEN FillPath(recents', m) ELSE UNCHANGED path
  /\ UNCHANGED <<online, dirs, page, machineId, pathEdited, picked, picker, calls>>

(* A link comes or goes; a request that was under way is lost with it.       *)
SetStatus(m) ==
  /\ online' = IF m \in online THEN online \ {m} ELSE online \union {m}
  /\ calls' = {c \in calls : c.machine # m}
  /\ asked' = asked \ {m}
  /\ IF Mounted
       THEN \E n \in KeepMachine(machineId, online') :
              /\ machineId' = n
              /\ IF n # machineId THEN FillPath(recents, n) ELSE UNCHANGED path
       ELSE UNCHANGED <<machineId, path>>
  /\ UNCHANGED <<dirs, recents, page, pathEdited, picked, picker>>

ChooseMachine(m) ==
  /\ page = "form" /\ m \in online \ {machineId}
  /\ machineId' = m /\ FillPath(recents, m)
  /\ UNCHANGED <<online, dirs, recents, asked, page, pathEdited, picked, picker, calls>>

(* The user types a path.                                                    *)
Type == /\ page = "form" /\ path' = Empty /\ pathEdited' = TRUE /\ picked' = None
        /\ UNCHANGED <<online, dirs, recents, asked, page, machineId, picker, calls>>

(* A recent path is copied into the field, which does not count as an edit.  *)
ChooseRecent ==
  /\ page = "form" /\ machineId # None /\ recents[machineId] # None
  /\ path' = Absolute(recents[machineId]) /\ picked' = None
  /\ UNCHANGED <<online, dirs, recents, asked, page, machineId, pathEdited,
                 picker, calls>>

(* A request for no machine goes nowhere.                                    *)
Call(type, p) ==
  IF machineId = None THEN UNCHANGED calls
  ELSE /\ Cardinality(calls) < MaxCalls
       /\ calls' = calls \union {[machine |-> machineId, type |-> type, path |-> p]}
BrowseDir(p) == Call("browseDir", p)

openFolderPicker == page' = "picker" /\ entries' = None /\ failed' = FALSE

OpenPicker ==
  /\ page = "form" /\ machineId # None /\ Roots[machineId] # {}
  /\ openFolderPicker /\ UNCHANGED selected
  /\ IF Cardinality(Roots[machineId]) = 1
       THEN \E r \in Roots[machineId] : BrowseDir(r) ELSE UNCHANGED calls
  /\ UNCHANGED <<online, dirs, recents, asked, fields>>

RootsHere == IF machineId = None THEN {} ELSE Roots[machineId]
confinedRoot == IF Cardinality(RootsHere) = 1
                  THEN CHOOSE r \in RootsHere : TRUE ELSE selected

Ask(p) == /\ BrowseDir(p) /\ failed' = FALSE
          /\ UNCHANGED <<online, dirs, recents, asked, page, fields, entries>>

SelectRoot(r) == /\ page = "picker" /\ confinedRoot = None /\ r \in RootsHere
                 /\ selected' = r /\ Ask(r)

Enter(d) == /\ page = "picker" /\ confinedRoot # None /\ ~failed
            /\ entries # None /\ d \in entries.subdirs
            /\ Ask(d) /\ UNCHANGED selected

Parent(p) == IF p = <<>> THEN p ELSE Front(p)

Close == /\ page' = "form" /\ selected' = None
         /\ UNCHANGED <<online, dirs, recents, asked, entries, failed, calls>>

(* The arrow: up a folder, from a root to the list of roots, or away.        *)
BackUp ==
  /\ page = "picker"
  /\ IF entries = None \/ confinedRoot = None THEN Close /\ UNCHANGED fields
     ELSE IF entries.path # confinedRoot
       THEN Ask(Parent(entries.path)) /\ UNCHANGED selected
     ELSE IF Cardinality(RootsHere) > 1
       THEN /\ selected' = None
            /\ UNCHANGED <<online, dirs, recents, asked, page, fields, entries, failed, calls>>
     ELSE Close /\ UNCHANGED fields

MakeDir(name) ==
  /\ page = "picker" /\ confinedRoot # None /\ entries # None /\ ~failed
  /\ Len(entries.path) < MaxDepth /\ Append(entries.path, name) \notin entries.subdirs
  /\ Call("makeDir", Append(entries.path, name))
  /\ failed' = FALSE
  /\ UNCHANGED <<online, dirs, recents, asked, page, fields, selected, entries>>

(* The agent lists a folder within the allowed roots, without the hidden     *)
(* ones; makeDir makes it first, and fails if it is there.                   *)
Visible(m, p) == {d \in dirs[m] : /\ Len(d) = Len(p) + 1 /\ IsPrefix(p, d)
                                  /\ Range(d) \intersect Hidden = {}}

Answer(c) ==
  LET m == c.machine
      made == IF c.type = "makeDir" /\ c.path \notin dirs[m] /\ Under(c.path, Roots[m])
                THEN {c.path} ELSE {}
      fails == \/ ~Under(c.path, Roots[m])
               \/ c.type = "browseDir" /\ c.path \notin dirs[m]
               \/ c.type = "makeDir" /\ made = {}
  IN /\ c \in calls /\ calls' = calls \ {c}
     /\ dirs' = [dirs EXCEPT ![m] = @ \union made]
     /\ IF fails THEN failed' = (failed \/ page = "picker") /\ UNCHANGED entries
        ELSE /\ entries' = [path |-> c.path, from |-> m,
                            subdirs |-> Visible(m, c.path)]
             /\ failed' = FALSE
     /\ UNCHANGED <<online, recents, asked, page, fields, selected>>

(* Use this folder.                                                          *)
Pick ==
  /\ page = "picker" /\ confinedRoot # None /\ entries # None
  /\ path' = relativeProjectPath(DefaultOf(machineId), entries.path)
  /\ pathEdited' = TRUE
  /\ picked' = [machine |-> machineId, from |-> entries.from, path |-> entries.path]
  /\ UNCHANGED machineId /\ Close

Next ==
  \/ GoCreate \/ CancelCreate \/ Type \/ ChooseRecent \/ OpenPicker \/ BackUp \/ Pick
  \/ \E m \in Machines : ReceiveRecents(m) \/ SetStatus(m) \/ ChooseMachine(m)
  \/ \E r \in RootsHere : SelectRoot(r)
  \/ \E d \in (IF entries = None THEN {} ELSE entries.subdirs) : Enter(d)
  \/ \E n \in Names : MakeDir(n)
  \/ \E c \in calls : Answer(c)

Spec == Init /\ [][Next]_vars

(* What the form would create on the machine a folder was picked for is that *)
(* folder, until the user writes something else: neither the recent paths    *)
(* that arrive late, nor a change of machine and back, nor the default       *)
(* folder the field is relative to, turns it into another one.               *)
KeepsThePick ==
  page = "form" /\ picked # None /\ machineId = picked.machine
    => resolveProjectPath(DefaultOf(machineId), path) = picked.path

(* The folder picked for a machine is one that this machine listed.          *)
PickedWhereListed == picked # None => picked.machine \in {picked.from, None}
=============================================================================
