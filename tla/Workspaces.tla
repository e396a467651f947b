------------------------------ MODULE Workspaces ------------------------------
(***************************************************************************)
(* The life of a workspace inside one agent: its tmux session, its record  *)
(* in parked.json, its entry in status.json, and the requests (park,       *)
(* attach with its implicit unpark, close) that move it between them.      *)
(*                                                                         *)
(* The agent handles every client message in its own async function and    *)
(* never queues them (connection-handler.ts:77), so two requests interleave *)
(* at every await.  FileParkedStore rewrites the whole file on each change *)
(* with no lock: read, truncate, write are three separate steps here, and  *)
(* a process crash may fall between any two of them.                       *)
(***************************************************************************)
EXTENDS Naturals, FiniteSets

CONSTANTS
  Ids,        \* workspace ids the agent may mint; each is minted at most once
  None,       \* no workspace
  Requests,   \* slots for the client requests that can be in flight at once
  MaxConv,    \* bound: how many Claude conversation ids a workspace reports
  Crashes     \* whether the agent process may die and be restarted

ASSUME NoneIsNoId == None \notin Ids
ASSUME ConvBound == MaxConv \in Nat \ {0}
ASSUME CrashesFlag == Crashes \in BOOLEAN

Conv == 0 .. MaxConv               \* 0: no Claude session id known
Records == [Ids -> Conv]           \* parked.json: 0 where an id has no record
NoRecords == [w \in Ids |-> 0]

\* What is on disk.  An "empty" file is one a writer has truncated and not yet
\* filled; "garbage" is a short write over a longer one.  Both parse to [].
Files == [state : {"whole", "empty", "garbage"}, recs : Records]

Ops == {"none", "park", "attach", "close"}
Steps == {"idle", "get", "read", "truncate", "write", "session", "finish"}
Fates == {"unborn", "open", "exited", "closing", "closed"}

VARIABLES
  tmux,            \* ids with a live tmux session
  file,            \* parked.json
  conv,            \* status.json: the last Claude session id each id reported
  parkedLabel,     \* status.json: the ids whose status string is `parked`
  lastWorkspaces,  \* WsServer's map: the ids the last poll saw
  req,             \* the requests in flight
  up,              \* is the agent process running
  fate,            \* history: what the outside world did to each workspace
  disturbed,       \* history: a rewrite of parked.json was torn or overlapped
  crossed          \* history: ids with overlapping or post-close requests

vars == <<tmux, file, conv, parkedLabel, lastWorkspaces, req, up, fate,
          disturbed, crossed>>

NoRequest == [op |-> "none", step |-> "idle", id |-> None, rec |-> 0,
              base |-> NoRecords]

TypeOK ==
  /\ tmux \subseteq Ids
  /\ file \in Files
  /\ conv \in [Ids -> Conv]
  /\ parkedLabel \subseteq Ids
  /\ lastWorkspaces \subseteq Ids
  /\ req \in [Requests -> [op : Ops, step : Steps, id : Ids \cup {None},
                           rec : Conv, base : Records]]
  /\ up \in BOOLEAN
  /\ fate \in [Ids -> Fates]
  /\ disturbed \in BOOLEAN
  /\ crossed \subseteq Ids

Init ==
  /\ tmux = {}
  /\ file = [state |-> "whole", recs |-> NoRecords]
  /\ conv = [w \in Ids |-> 0]
  /\ parkedLabel = {}
  /\ lastWorkspaces = {}
  /\ req = [r \in Requests |-> NoRequest]
  /\ up = TRUE
  /\ fate = [w \in Ids |-> "unborn"]
  /\ disturbed = FALSE
  /\ crossed = {}

-----------------------------------------------------------------------------
(* parked.json *)

\* FileParkedStore.list: an unreadable or malformed file is an empty list.
Contents == IF file.state = "whole" THEN file.recs ELSE NoRecords

Recorded(recs) == {w \in Ids : recs[w] # 0}

\* What a request asks FileParkedStore to write: its snapshot plus its record
\* (add), or minus the record (remove).
NewRecords(r) ==
  [req[r].base EXCEPT ![req[r].id] = IF req[r].op = "park" THEN req[r].rec ELSE 0]

\* The file after `recs` is written from offset 0 through a descriptor whose
\* open truncated the file earlier.  If another writer's bytes have landed since
\* and are longer, their tail survives behind the new text.
Landed(recs) ==
  LET old == Recorded(file.recs)
      new == Recorded(recs)
      garbage == [state |-> "garbage", recs |-> NoRecords]
      whole == [state |-> "whole", recs |-> recs]
  IN CASE file.state = "garbage" -> {whole, garbage}
       [] file.state # "garbage" /\ old \subseteq new -> {whole}
       [] OTHER -> IF new \subseteq old THEN {garbage} ELSE {whole, garbage}

\* Every id listWorkspaces returns: a record shadows a session of the same id,
\* an id in neither place is not listed.
Listed == tmux \cup Recorded(Contents)

-----------------------------------------------------------------------------
(* Request bookkeeping *)

InFlight(w) == {r \in Requests : req[r].op # "none" /\ req[r].id = w}

At(r, op, step) == up /\ req[r].op = op /\ req[r].step = step

GoTo(r, step) == req' = [req EXCEPT ![r].step = step]

Done(r) == req' = [req EXCEPT ![r] = NoRequest]

\* A message for `w` reaches route() and a handler starts.
Begin(r, op, w) ==
  /\ up
  /\ req[r].op = "none"
  /\ fate[w] # "unborn"
  /\ req' = [req EXCEPT ![r] = [NoRequest EXCEPT !.op = op, !.step = "get", !.id = w]]
  /\ crossed' = IF InFlight(w) # {} \/ fate[w] \in {"closing", "closed"}
                THEN crossed \cup {w} ELSE crossed

-----------------------------------------------------------------------------
(* create *)

\* createWorkspace: a fresh random id, so createSession cannot collide.
Create(w) ==
  /\ up
  /\ fate[w] = "unborn"
  /\ tmux' = tmux \cup {w}
  /\ fate' = [fate EXCEPT ![w] = "open"]
  /\ UNCHANGED <<file, conv, parkedLabel, lastWorkspaces, req, up, disturbed, crossed>>

-----------------------------------------------------------------------------
(* park: setStatus `parked` *)

\* The snapshot comes from the poll's map, or from tmux when the poll has not
\* seen the id (snapshotWorkspace lists without the parked store); with neither
\* the message is dropped.
ParkStart(r, w) ==
  /\ w \in lastWorkspaces \cup tmux
  /\ Begin(r, "park", w)
  /\ lastWorkspaces' = lastWorkspaces \ {w}
  /\ UNCHANGED <<tmux, file, conv, parkedLabel, up, fate, disturbed>>

\* Faulty variant: the session is killed before its record is on disk.
ParkGetKillingFirst(r) ==
  LET w == req[r].id IN
  /\ At(r, "park", "get")
  /\ disturbed' = (disturbed \/ file.state # "whole")
  /\ IF Contents[w] # 0 \/ conv[w] = 0
     THEN Done(r) /\ UNCHANGED tmux
     ELSE /\ req' = [req EXCEPT ![r].rec = conv[w], ![r].step = "read"]
          /\ tmux' = tmux \ {w}
  /\ UNCHANGED <<file, conv, parkedLabel, lastWorkspaces, up, fate, crossed>>

\* parked.get, then the synchronous getClaudeSessionId: `already-parked`,
\* `not-restorable`, or on to the rewrite with the conversation id captured.
ParkGet(r) ==
  LET w == req[r].id IN
  /\ At(r, "park", "get")
  /\ disturbed' = (disturbed \/ file.state # "whole")
  /\ IF Contents[w] # 0 \/ conv[w] = 0
     THEN Done(r)
     ELSE req' = [req EXCEPT ![r].rec = conv[w], ![r].step = "read"]
  /\ UNCHANGED <<tmux, file, conv, parkedLabel, lastWorkspaces, up, fate, crossed>>

\* killSession after the record is on disk; idempotent.
ParkKill(r) ==
  /\ At(r, "park", "session")
  /\ tmux' = tmux \ {req[r].id}
  /\ GoTo(r, "finish")
  /\ UNCHANGED <<file, conv, parkedLabel, lastWorkspaces, up, fate, disturbed, crossed>>

\* status.set(id, 'parked'), last.
ParkFinish(r) ==
  /\ At(r, "park", "finish")
  /\ parkedLabel' = parkedLabel \cup {req[r].id}
  /\ Done(r)
  /\ UNCHANGED <<tmux, file, conv, lastWorkspaces, up, fate, disturbed, crossed>>

-----------------------------------------------------------------------------
(* attach, and the unpark it implies *)

AttachStart(r, w) ==
  /\ Begin(r, "attach", w)
  /\ UNCHANGED <<tmux, file, conv, parkedLabel, lastWorkspaces, up, fate, disturbed>>

\* No record: a normal attach, which changes nothing here.  A record whose
\* project directory is gone: the error reply, the record stays.
AttachGet(r) ==
  LET w == req[r].id IN
  /\ At(r, "attach", "get")
  /\ disturbed' = (disturbed \/ file.state # "whole")
  /\ \/ Done(r)
     \/ /\ Contents[w] # 0
        /\ req' = [req EXCEPT ![r].rec = Contents[w], ![r].step = "session"]
  /\ UNCHANGED <<tmux, file, conv, parkedLabel, lastWorkspaces, up, fate, crossed>>

\* createSession under the same id.  tmux refuses a duplicate name; the throw
\* ends the handler with an `internal` error and the record untouched.
AttachCreate(r) ==
  LET w == req[r].id IN
  /\ At(r, "attach", "session")
  /\ IF w \in tmux
     THEN Done(r) /\ UNCHANGED <<tmux, fate>>
     ELSE /\ tmux' = tmux \cup {w}
          /\ fate' = [fate EXCEPT ![w] = IF @ = "exited" THEN "open" ELSE @]
          /\ GoTo(r, "read")
  /\ UNCHANGED <<file, conv, parkedLabel, lastWorkspaces, up, disturbed, crossed>>

\* Faulty variant: the status is left as it was.
AttachFinishKeepingLabel(r) ==
  /\ At(r, "attach", "finish")
  /\ Done(r)
  /\ UNCHANGED <<tmux, file, conv, parkedLabel, lastWorkspaces, up, fate, disturbed, crossed>>

\* status.set(id, 'idle').
AttachFinish(r) ==
  /\ At(r, "attach", "finish")
  /\ parkedLabel' = parkedLabel \ {req[r].id}
  /\ Done(r)
  /\ UNCHANGED <<tmux, file, conv, lastWorkspaces, up, fate, disturbed, crossed>>

-----------------------------------------------------------------------------
(* close *)

CloseStart(r, w) ==
  /\ Begin(r, "close", w)
  /\ fate' = [fate EXCEPT ![w] = IF @ = "closed" THEN @ ELSE "closing"]
  /\ UNCHANGED <<tmux, file, conv, parkedLabel, lastWorkspaces, up, disturbed>>

\* Faulty variant: a parked workspace is closed like a live one.
CloseGetKeepingRecord(r) ==
  LET w == req[r].id IN
  /\ At(r, "close", "get")
  /\ disturbed' = (disturbed \/ file.state # "whole")
  /\ lastWorkspaces' = lastWorkspaces \ {w}
  /\ req' = [req EXCEPT ![r].rec = Contents[w], ![r].step = "session"]
  /\ UNCHANGED <<tmux, file, conv, parkedLabel, up, fate, crossed>>

\* parked.get, then forgetWorkspace; only a recorded workspace goes through remove.
CloseGet(r) ==
  LET w == req[r].id IN
  /\ At(r, "close", "get")
  /\ disturbed' = (disturbed \/ file.state # "whole")
  /\ lastWorkspaces' = lastWorkspaces \ {w}
  /\ req' = [req EXCEPT ![r].rec = Contents[w],
                        ![r].step = IF Contents[w] # 0 THEN "read" ELSE "session"]
  /\ UNCHANGED <<tmux, file, conv, parkedLabel, up, fate, crossed>>

CloseKill(r) ==
  /\ At(r, "close", "session")
  /\ tmux' = tmux \ {req[r].id}
  /\ GoTo(r, "finish")
  /\ UNCHANGED <<file, conv, parkedLabel, lastWorkspaces, up, fate, disturbed, crossed>>

\* The log entry, then `closed` to every device.
CloseFinish(r) ==
  /\ At(r, "close", "finish")
  /\ fate' = [fate EXCEPT ![req[r].id] = "closed"]
  /\ Done(r)
  /\ UNCHANGED <<tmux, file, conv, parkedLabel, lastWorkspaces, up, disturbed, crossed>>

-----------------------------------------------------------------------------
(* FileParkedStore.add / remove, on behalf of the request that called it *)

\* Where the caller resumes once the store's promise resolves.
AfterStore(op) == IF op = "attach" THEN "finish" ELSE "session"

\* The readFile of add and remove.  remove returns at once when the id is not in
\* what it read.
StoreRead(r) ==
  /\ up
  /\ req[r].step = "read"
  /\ disturbed' = (disturbed \/ file.state # "whole")
  /\ req' = [req EXCEPT
       ![r].base = Contents,
       ![r].step = IF req[r].op # "park" /\ Contents[req[r].id] = 0
                   THEN AfterStore(req[r].op) ELSE "truncate"]
  /\ UNCHANGED <<tmux, file, conv, parkedLabel, lastWorkspaces, up, fate, crossed>>

\* writeFile opens the file with O_TRUNC ...
StoreTruncate(r) ==
  /\ up
  /\ req[r].step = "truncate"
  /\ disturbed' = (disturbed \/ file.state # "whole" \/ file.recs # req[r].base)
  /\ file' = [state |-> "empty", recs |-> NoRecords]
  /\ GoTo(r, "write")
  /\ UNCHANGED <<tmux, conv, parkedLabel, lastWorkspaces, up, fate, crossed>>

\* ... and then writes the text.
StoreWrite(r) ==
  /\ up
  /\ req[r].step = "write"
  /\ file' \in Landed(NewRecords(r))
  /\ GoTo(r, AfterStore(req[r].op))
  /\ UNCHANGED <<tmux, conv, parkedLabel, lastWorkspaces, up, fate, disturbed, crossed>>

-----------------------------------------------------------------------------
(* What happens around the requests *)

\* POST /hooks for a session of this agent, possibly late: a new conversation id,
\* and a status other than `parked` or none.
Hook(w) ==
  /\ up
  /\ fate[w] # "unborn"
  /\ \E c \in {conv[w], conv[w] + 1} \cap Conv : conv' = [conv EXCEPT ![w] = c]
  /\ parkedLabel' \in {parkedLabel, parkedLabel \ {w}}
  /\ UNCHANGED <<tmux, file, lastWorkspaces, req, up, fate, disturbed, crossed>>

\* The inner process ends and tmux destroys the session.
SessionExit(w) ==
  /\ w \in tmux
  /\ tmux' = tmux \ {w}
  /\ fate' = [fate EXCEPT ![w] = IF @ = "open" THEN "exited" ELSE @]
  /\ UNCHANGED <<file, conv, parkedLabel, lastWorkspaces, req, up, disturbed, crossed>>

\* One pollTitles tick: the map becomes what is listed.  (TitlePoll has the tick
\* step by step.)
Poll ==
  /\ up
  /\ lastWorkspaces' = Listed
  /\ UNCHANGED <<tmux, file, conv, parkedLabel, req, up, fate, disturbed, crossed>>

\* The agent process dies: handlers and in-memory maps are gone, files stay as
\* they are, which may be half written.  status.json is written synchronously
\* after each change and starts empty when it was torn.
Crash ==
  /\ Crashes
  /\ up
  /\ up' = FALSE
  /\ req' = [r \in Requests |-> NoRequest]
  /\ lastWorkspaces' = {}
  /\ \/ /\ disturbed' = (disturbed \/ file.state # "whole")
        /\ UNCHANGED <<conv, parkedLabel>>
     \/ /\ disturbed' = TRUE
        /\ conv' = [w \in Ids |-> 0]
        /\ parkedLabel' = {}
  /\ UNCHANGED <<tmux, file, fate, crossed>>

\* The machine reboots while the agent is down: the tmux server is gone and
\* tmux-continuum recreates some sessions, parked ids among them.
TmuxRestored ==
  /\ ~up
  /\ \E back \in SUBSET (tmux \cup Recorded(Contents)) :
       /\ tmux' = back
       /\ fate' = [w \in Ids |->
            IF w \in tmux \ (back \cup Recorded(Contents)) /\ fate[w] = "open"
            THEN "exited" ELSE fate[w]]
  /\ UNCHANGED <<file, conv, parkedLabel, lastWorkspaces, req, up, disturbed, crossed>>

\* Faulty variants: no reconciliation; a prune that forgets the parked ids.
NoReconcile == tmux
LiveOnly == tmux \ Recorded(Contents)

\* reconcileParked: a record wins over a session resurrected under its id.
ReconcileParked == tmux \ Recorded(Contents)

\* FileStatusStore.prune keeps the entries of live and of parked ids.
Kept == ReconcileParked \cup Recorded(Contents)

\* serve.ts: reconcile, prune, then start serving.  Nothing else runs in the
\* process meanwhile.
Restart ==
  /\ ~up
  /\ up' = TRUE
  /\ tmux' = ReconcileParked
  /\ conv' = [w \in Ids |-> IF w \in Kept THEN conv[w] ELSE 0]
  /\ parkedLabel' = parkedLabel \cap Kept
  /\ UNCHANGED <<file, lastWorkspaces, req, fate, disturbed, crossed>>

-----------------------------------------------------------------------------

Client(r) ==
  \E w \in Ids : ParkStart(r, w) \/ AttachStart(r, w) \/ CloseStart(r, w)

Park(r) == ParkGet(r) \/ ParkKill(r) \/ ParkFinish(r)
Attach(r) == AttachGet(r) \/ AttachCreate(r) \/ AttachFinish(r)
Close(r) == CloseGet(r) \/ CloseKill(r) \/ CloseFinish(r)
Store(r) == StoreRead(r) \/ StoreTruncate(r) \/ StoreWrite(r)

Environment ==
  \/ \E w \in Ids : Create(w) \/ Hook(w) \/ SessionExit(w)
  \/ Poll \/ Crash \/ TmuxRestored \/ Restart

Next ==
  \/ \E r \in Requests : Client(r) \/ Park(r) \/ Attach(r) \/ Close(r) \/ Store(r)
  \/ Environment

Spec == Init /\ [][Next]_vars

-----------------------------------------------------------------------------
(* Properties *)

Undisturbed(w) == ~disturbed /\ w \notin crossed

\* A writer has truncated parked.json and still holds the text with w's record.
BeingWritten(w) == \E r \in Requests : req[r].step = "write" /\ NewRecords(r)[w] # 0

\* A workspace nobody closed and whose process did not end is never lost: at
\* every instant, crashes included, it has a session, a record, or a record the
\* one rewrite in progress is about to put back (park-workspace.ts:34-43).  The
\* only ways out are a torn or overlapping rewrite of parked.json and crossed
\* requests for that same workspace.
NoWorkspaceLost ==
  \A w \in Ids :
    fate[w] = "open" /\ Undisturbed(w) =>
      w \in tmux \/ file.recs[w] # 0 \/ BeingWritten(w)

\* Once the agent is idle on a workspace, a record and a live session never
\* coexist: a shadowed session could neither be reached nor unparked
\* (reconcile-parked.ts:10-17).
RecordOrSession ==
  \A w \in Ids :
    up /\ InFlight(w) = {} /\ Undisturbed(w) => ~(w \in tmux /\ file.recs[w] # 0)

\* A closed workspace stays closed: neither its session nor its record is left
\* to bring it back into a listing (connection-handler.ts:243-244).
ClosedStaysClosed ==
  \A w \in Ids :
    fate[w] = "closed" /\ Undisturbed(w) => w \notin tmux /\ file.recs[w] = 0

\* A step never forgets the Claude session id of a workspace that is still open,
\* whatever the restart prunes (serve.ts:41-43): without it the workspace could
\* not be parked again.
ConversationKept ==
  [][\A w \in Ids : fate'[w] = "open" /\ w \notin crossed /\ ~disturbed'
       => conv'[w] >= conv[w]]_vars

\* While the agent does not crash, a live workspace with no request in flight is
\* not left labelled `parked` (unpark-workspace.ts:45-46).
LiveIsNotLabelledParked ==
  \A w \in Ids :
    ~Crashes /\ InFlight(w) = {} /\ Undisturbed(w) /\ w \in tmux => w \notin parkedLabel

\* What park-workspace.ts:20 says of parking, with no exception for other
\* requests: the workspace stays "listed and revivable".  Refuted: two parks of
\* different workspaces both read parked.json before either writes it.
ParkKeepsListed ==
  \A w \in Ids :
    fate[w] = "open" /\ w \notin crossed =>
      w \in tmux \/ file.recs[w] # 0 \/ BeingWritten(w)

\* What connection-handler.ts:243-244 says when it answers a close: the workspace
\* is closed as far as any device is concerned.  Refuted: a park or an attach of
\* the same workspace, begun by another device before the close, finishes after it.
ClosedForEveryDevice ==
  \A w \in Ids : fate[w] = "closed" /\ ~disturbed => w \notin Listed

=============================================================================
