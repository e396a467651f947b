------------------------------- MODULE FileViews -------------------------------
(***************************************************************************)
(* The file browser and the file viewers of the PWA: folders and text files *)
(* asked of the agent over the socket, media fetched over HTTP into object   *)
(* URLs, answers in any order.  A path is the sequence of its segments; the  *)
(* last segment of a file is its name.                                       *)
(***************************************************************************)
EXTENDS Integers, Sequences, FiniteSets, SequencesExt

CONSTANTS Roots,   \* project folders of the workspaces the user visits
          Subs,    \* names of subfolders
          Texts,   \* names of text files, in every folder
          Media,   \* names of media files, in every folder, in order
          Urls,    \* object URLs the browser can mint
          None,
          MaxDepth, MaxVisits, MaxCalls \* bounds

VARIABLES at,       \* store.view: "terminal", "browser" or "viewer"
          visit,    \* how many times the browser has been opened
          root,     \* store.browserRoot
          entries,  \* store.dirEntries: the path, and the visit it descends from
          fileView, \* store.fileView: path and blobUrl
          failed,   \* store.viewError
          asked,    \* the file the user opened last
          current,  \* store.currentBlobUrl
          minted,   \* object URLs not yet revoked
          loads,    \* media being fetched
          calls,    \* requests the agent has not answered
          twice     \* one media file was being fetched twice at once

vars == <<at, visit, root, entries, fileView, failed, asked, current, minted, loads, calls, twice>>

MediaNames == ToSet(Media)
Name(path) == Last(path)
Folder(path) == Front(path)
NoFile == [path |-> None, url |-> None]

TypeOK == /\ at \in {"terminal", "browser", "viewer"} /\ visit \in 0 .. MaxVisits
          /\ root \in Roots \cup {None} /\ current \in Urls \cup {None}
          /\ minted \subseteq Urls /\ fileView.url \in Urls \cup {None}
          /\ Cardinality(calls) <= MaxCalls /\ {failed, twice} \subseteq BOOLEAN

Init == /\ at = "terminal" /\ visit = 0 /\ root = None /\ entries = None
        /\ fileView = NoFile /\ failed = FALSE /\ asked = None
        /\ current = None /\ minted = {} /\ loads = <<>> /\ calls = {} /\ twice = FALSE

Call(kind, path, v) == /\ Cardinality(calls) < MaxCalls
                       /\ calls' = calls \cup {[kind |-> kind, path |-> path, visit |-> v]}

files == <<fileView, failed, asked, current, minted, loads, twice>>

OpenBrowser(r) == /\ at = "terminal" /\ visit < MaxVisits /\ visit' = visit + 1
                  /\ root' = r /\ entries' = None /\ at' = "browser" /\ Call("browse", r, visit + 1)
                  /\ UNCHANGED files

Browse(path) == Call("browse", path, entries.visit) /\ UNCHANGED <<at, visit, root, entries, files>>

BrowseInto(sub) == /\ at = "browser" /\ entries # None /\ Len(entries.path) < MaxDepth
                   /\ Browse(Append(entries.path, sub))

CloseBrowser == at = "browser" /\ at' = "terminal" /\ UNCHANGED <<visit, root, entries, calls, files>>

Parent(path) == IF path = <<>> THEN path ELSE Front(path)
AtRoot == entries # None /\ entries.path = root

\* Faulty variant: the arrow goes up wherever there is a listing.
BrowserBackUp == /\ at = "browser"
                 /\ IF entries = None THEN CloseBrowser ELSE Browse(Parent(entries.path))

BrowserBack == /\ at = "browser"
               /\ IF entries = None \/ AtRoot THEN CloseBrowser ELSE Browse(Parent(entries.path))

(* openFile and its load.                                                    *)
Revoked == IF current = None THEN minted ELSE minted \ {current}

\* Faulty variant: the URL on show is left behind.
OpenKeeping(path) ==
    /\ asked' = path /\ failed' = FALSE /\ at' = "viewer" /\ UNCHANGED <<visit, root, entries>>
    /\ minted' = minted /\ current' = None
    /\ IF Name(path) \in MediaNames
       THEN /\ fileView' = [path |-> path, url |-> None] /\ Len(loads) < 2
            /\ loads' = Append(loads, path) /\ twice' = (twice \/ Contains(loads, path))
            /\ UNCHANGED calls
       ELSE fileView' = NoFile /\ Call("read", path, visit) /\ UNCHANGED <<loads, twice>>

Open(path) ==
    /\ asked' = path /\ failed' = FALSE /\ at' = "viewer" /\ UNCHANGED <<visit, root, entries>>
    /\ minted' = Revoked /\ current' = None
    /\ IF Name(path) \in MediaNames
       THEN /\ fileView' = [path |-> path, url |-> None] /\ Len(loads) < 2
            /\ loads' = Append(loads, path) /\ twice' = (twice \/ Contains(loads, path))
            /\ UNCHANGED calls
       ELSE fileView' = NoFile /\ Call("read", path, visit) /\ UNCHANGED <<loads, twice>>

OpenFile(name) == at = "browser" /\ entries # None /\ Open(Append(entries.path, name))

\* The neighbour among the media of a folder, none past either end.
Neighbors(name, dir) ==
    {Media[i + dir] : i \in {j \in DOMAIN Media : Media[j] = name /\ j + dir \in DOMAIN Media}}

ShowNeighbor(dir) ==
    /\ at = "viewer" /\ entries # None /\ fileView.path # None
    /\ Folder(fileView.path) = entries.path
    /\ \E n \in Neighbors(Name(fileView.path), dir) : Open(Append(entries.path, n))

\* Faulty variant: an answer is shown whichever file is open.
LoadedAnyway(i) ==
    /\ loads' = RemoveAt(loads, i)
    /\ \E u \in Urls \ minted : /\ minted' = minted \cup {u} /\ current' = u
                                /\ fileView' = [fileView EXCEPT !.url = u]
    /\ UNCHANGED <<at, visit, root, entries, failed, asked, calls, twice>>

Loaded(i) ==
    /\ loads' = RemoveAt(loads, i)
    /\ IF fileView.path # loads[i] THEN UNCHANGED <<minted, current, fileView>>
       ELSE \E u \in Urls \ minted : /\ minted' = minted \cup {u} /\ current' = u
                                     /\ fileView' = [fileView EXCEPT !.url = u]
    /\ UNCHANGED <<at, visit, root, entries, failed, asked, calls, twice>>

LoadTooLarge(i) ==
    /\ loads' = RemoveAt(loads, i)
    /\ fileView' = IF fileView.path = loads[i] THEN [fileView EXCEPT !.url = None] ELSE fileView
    /\ UNCHANGED <<at, visit, root, entries, failed, asked, current, minted, calls, twice>>

LoadFails(i) == /\ loads' = RemoveAt(loads, i) /\ failed' = (failed \/ fileView.path = loads[i])
                /\ UNCHANGED <<at, visit, root, entries, fileView, asked, current, minted, calls, twice>>

CloseViewer == /\ at = "viewer" /\ at' = "browser" /\ minted' = Revoked /\ current' = None
               /\ UNCHANGED <<visit, root, entries, fileView, failed, asked, loads, calls, twice>>

\* A workspace picked in the sidebar, or closed elsewhere: the page is simply left.
Leave == /\ at # "terminal" /\ at' = "terminal"
         /\ UNCHANGED <<visit, root, entries, calls, files>>

(* The agent answers the requests of a connection in any order.              *)
Entries(c) == /\ c.kind = "browse" /\ entries' = [path |-> c.path, visit |-> c.visit]
              /\ UNCHANGED <<fileView, failed>>
Contents(c) == /\ c.kind = "read" /\ fileView' = [path |-> c.path, url |-> None]
               /\ failed' = FALSE /\ UNCHANGED entries
Refused == failed' = (failed \/ at = "viewer") /\ UNCHANGED <<entries, fileView>>

Answer(c) == /\ calls' = calls \ {c} /\ (Entries(c) \/ Contents(c) \/ Refused)
             /\ UNCHANGED <<at, visit, root, asked, current, minted, loads, twice>>

Next == \/ \E r \in Roots : OpenBrowser(r)
        \/ \E s \in Subs : BrowseInto(s)
        \/ BrowserBack \/ CloseBrowser \/ CloseViewer \/ Leave
        \/ \E n \in Texts \cup MediaNames : OpenFile(n)
        \/ \E dir \in {1, -1} : ShowNeighbor(dir)
        \/ \E i \in DOMAIN loads : Loaded(i) \/ LoadTooLarge(i) \/ LoadFails(i)
        \/ \E c \in calls : Answer(c)

Spec == Init /\ [][Next]_vars

(* Blob bookkeeping (openFile, loadBlobFile, revokeBlobUrl): the media on    *)
(* show has not been revoked, it is the file the user asked for, and no      *)
(* object URL is forgotten unless one file was fetched twice at once.        *)
MediaOnShow == at = "viewer" /\ fileView.url # None
BlobsAreKept == /\ MediaOnShow => fileView.url \in minted /\ fileView.path = asked
                /\ minted \subseteq {current} \/ twice

(* The browser never lists a folder above its project folder, except from *)
(* a late answer to an earlier visit (openBrowser, FileBrowser.back).         *)
Confined == at = "browser" /\ entries # None /\ entries.visit = visit => IsPrefix(root, entries.path)

(* The comment on currentBlobUrl: an object URL is revoked when the viewer   *)
(* closes or another file is opened.                                         *)
NoBlobLeaks == minted \subseteq {current}

(* The comment on browserRoot: the browser is confined to the project folder. *)
AlwaysConfined == at = "browser" /\ entries # None => IsPrefix(root, entries.path)

=============================================================================
