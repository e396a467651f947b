# Perch in TLA+

Perch puts terminal *workspaces* on a phone. Each development machine runs an
**agent** (Node) that keeps every workspace in a tmux session and streams its
terminal through node-pty over WebSocket; a **PWA** connects to all the agents
at once. Claude Code, running in a workspace, reports to its agent with HTTP
hooks. This directory holds TLA+ models of the parts whose correctness depends
on order: what may run between two awaits, what a crash leaves behind, which
timer may still fire. Paths below are relative to `src/packages/`.

## Inventory

| component | state | operations | what is hard | what makes it correct | module |
|---|---|---|---|---|---|
| Workspace life cycle (`agent/src/application/*workspace*`, `server/connection-handler.ts`, `infrastructure/file-parked-store.ts`, `file-status-store.ts`, `serve.ts`) | tmux sessions, `parked.json`, `status.json`, the poll's map `lastWorkspaces` | create, park (`setStatus parked`), unpark (inside attach), close, startup reconciliation and prune | each message runs in its own async function and nothing orders them; `parked.json` is rewritten whole, without a lock; crashes; tmux-continuum resurrects sessions | no workspace lost, no record beside its session, a close is final, the conversation id survives | `Workspaces` |
| Terminal viewers (`connection-handler.ts`, `viewer-registry.ts`) | one attachment per connection, one holder per workspace, ptys | auth, attach, takeover, detach, exit, disconnect | an attach waits before it touches the pty; late exits; evictions | one viewer per workspace, clients informed, no stray pty | `Viewers`, `ViewerLock` |
| Title poll, listings, broadcasts (`ws-server.ts`, `list-workspaces.ts`) and the client view (`workspace-aggregator.ts`) | `lastWorkspaces`, listings in flight, each device's map | poll tick with its sweep, broadcast on status change, `list`; replace, update, prune, clear | ticks overlap, a listing is no snapshot, broadcasts reorder | ghosts go, renames arrive, only what is gone is swept | `Announcements` |
| Attention (`apply-hook-event.ts`, `attention-decision.ts`, `file-status-store.ts`) | status, pin, deferred set, `status.json` | every hook event, user choices, restart | idle notifications after deferred Stops, subagents' tool calls, lost posts | "needs you" neither missed nor unexplained, pins kept | `Attention` |
| Browser relay and stream (`browser-relay-handler.ts`, `pwa/src/core/browser-stream.ts`, `BrowserView.svelte`) | relay phase, upstream, viewer; stream socket, reconnects; frames held and drawn | auth, discovery, dial, takeover, end; open, retry, close; frames | dialling races the client's leaving; a takeover must not be answered by a reconnect; backpressure | one upstream and one stream, frames never go back | `BrowserRelay`, `Frames` |
| Browser sessions (`ws-server.ts`, `close-workspace-browsers.ts`, `browser-sessions.ts`) | names last polled, chips shown, CLI calls in flight | poll, list, start, stop, the cascade of a close | each reads the names at another moment | a closed workspace leaves no browser | `BrowserSessions` |
| Pasted files and files served (`store-pasted-file.ts`, `read-servable-file.ts`, `fs-file-reader.ts`) | the file system, uploads in flight | attach, putFile, fileStored; authorize, stat, open, read | a name is chosen before it is written; a file changes between stat and read | older files survive, a path is typed at home, a whole file is whole | `Uploads`, `FileServe` |
| Machine link (`pwa/src/core/machine-connection.ts`) | socket, deadline, heartbeat, backoff, generation, counters | connect, the socket's events, four timers, reconnect, checkLiveness, close | timers that cannot be cancelled, superseded sockets, half-open TCP | one chain, never stranded, close is final, a dead link is noticed | `MachineConnection` |
| Home screen (`store.svelte.ts`, `connection-manager.ts`, `home-view.ts`, `project-folders.ts`) | machine settings, statuses, grace clock, folder filter | add, edit, switch, remove; status changes; reload | links flip while a timer runs; lists arrive one by one | the clock runs when it should, the spinner ends, no orphan rows | `HomeScreen` |
| Terminal view (`store.svelte.ts`, `TerminalView.svelte`) | view, overlay, pending re-attach | open, leave, back, refresh, take over, re-attach | every message may meet a drop, a rival or a restart | what is shown as live is attached | `TerminalSession` |
| Create (`store.svelte.ts`, `CreateWorkspace.svelte`, `FolderPicker.svelte`, `create-workspace.ts`, `browse-dir.ts`, `make-dir.ts`) | pending create, form, picker, requests in flight | form, pick, request, answer | the answer is recognised by what is new in a list; replies arrive late | opens only the new, keeps the folder picked | `CreateFlow`, `CreateForm` |
| File views (`store.svelte.ts`, `FileBrowser.svelte`, viewers) | view, entries, object URL, loads in flight | browse, open, neighbours, close | a load answers after the user moved on | URLs revoked, the file shown is the one asked for | `FileViews` |
| Shares (`shared-file.ts`, `share-target-sw.js`) and connection log (`connection-log.ts`, `connection-log-flush.ts`) | the Cache entry; the ring in localStorage | share, boot, attach; log, save, flush | windows share one store; answers are lost | a share survives, an event reaches its agents | `SharedFile`, `ConnectionLog` |
| Dictation (`speech-to-text.ts`, `media-recorder-audio.ts`, `elevenlabs-transcriber.ts`) | phase, recorder, microphone, request | toggle, permission, stop event, answer | taps during awaits; the platform takes the microphone | the microphone is released, transcribing ends | `Dictation` |
| Keyboard (`KeyboardBar.svelte`, `keyboard-modifiers.ts`, `key-repeat.ts`, `cursor-pad.ts`, `android-input.ts`) | press, timer, modifiers, gesture, IME context | pointers, clicks, repeats, drags, composition | a press, its timer and its click are three events; the context may differ from the line | a press counts once, corrections hit their letters | `KeyPress`, `CursorPad`, `AndroidInput` |
| Protocol schemas, stateless helpers, rendering, deployment scripts | - | - | - | not modelled, see below | |

They interact as follows. The PWA's `ConnectionManager` owns one
`MachineConnection` per machine; its frames reach the agent's
`ConnectionHandler`, one per connection, which calls the application functions
and the `ViewerRegistry` shared by all handlers. Those change tmux, the parked
store and the status store; the status store calls `WsServer.broadcastWorkspace`
on every change, hooks arrive over HTTP in the same process, and the title poll
runs beside everything. `WsServer` pushes to every handler; the PWA's aggregator
applies what arrives.

## Modules

| module | models | state and actions |
|---|---|---|
| `Workspaces` | the life cycle inside one agent | `tmux`, `file`, `conv`, `parkedLabel`, `lastWorkspaces` are the program's stores; `req` holds the suspended handlers (operation, where it resumes, what it read). One action per stretch of code between two awaits: `ParkStart .. ParkFinish`, `AttachStart .. AttachFinish`, `CloseStart .. CloseFinish`, and `StoreRead/Truncate/Write` for `FileParkedStore`. Around them `Create`, `Hook`, `SessionExit`, `Poll`, `Crash`, `TmuxRestored`, `Restart` |
| `ViewerLock` | what the agent promises about viewers | `viewer`; `Take`, `Leave` |
| `Viewers` | handlers, ptys and registry | `conn`, `pending` (attaches that wait), `attachment`, `pty`, `of`, `holder`, `told`; one action per handler, `AttachNow` being the synchronous `attach()` with the teardown and takeover it performs. Implements `ViewerLock` through `View` |
| `MachineConnection` | the PWA's link | one variable per field of the class, `sock`, `silent` and `auth` for the browser and the network, `deadlines` and `retries` for the timers that outlive their socket; one action per event, timer and method |
| `Announcements` | poll, listings, broadcasts and the devices' maps | `lst` holds each listing in flight and how far it has read (`ListSessions`, `ListRecords`, `Stamp`); `Tick`, `Sweep`, `SweepGoesOn` the poll, `Broadcast` and `ListAnswered` what is sent, `move` the park, unpark or close under way, one await per step; `Create` and its answer are two steps, with the record of the recent path between them (`creating`) |
| `Attention` | hooks, the decision and the status store | `phase`, `task`, `note` stand for Claude Code; one action per hook event, whose post is handled in time (`Handled`) or given up by the script (`Missed`) and then lost or handled late (`LateArrives`); `SetStatus`, `SetUrgent`, `Crash`, `Restart` |
| `BrowserRelay`, `Frames` | the stream, the relay and its registry; the frames between them | one action per handler and timer; `Dialed` is where the relay looks again whether its client has left |
| `BrowserSessions` | session names as the poll, a reply, the phone and the CLI know them | each read of the names and each use of it is an action |
| `Uploads`, `FileServe` | attached files on both sides; a served file beside its writers | one action per await |
| `HomeScreen` | settings, statuses, grace clock, filter | every store call that changes one of them, `recomputeGrace` and the pruning inside each |
| `TerminalSession` | the open terminal, its link, the agent's attachment and a rival | store and view handlers, messages each way, drops, restarts; on the agent the end of a session (`Ends`), the `closed` that follows (`SaysClosed`), a pty's own exit (`PtyExits`) and a park (`Parks`) are separate |
| `CreateFlow`, `CreateForm` | the pending create; the form and its picker | requests, answers, lists and status changes |
| `FileViews`, `SharedFile`, `ConnectionLog`, `Dictation` | as in the inventory | one action per handler or continuation |
| `KeyPress`, `CursorPad`, `AndroidInput` | as in the inventory | one action per DOM event or timer |
| `WorkspacesProofs`, `ViewersProofs`, `MachineConnectionProofs`, `BrowserRelayProofs`, `AnnouncementsProofs`, `ConnectionLogProofs` | the theorems about one module each | |
| `MCAgentPartsProofs`, `MCClientPartsProofs` | the theorems about the parts the two instances join | |
| `MCWorkspaces`, `MCViewers`, `MCMachineConnection` | instances for TLC | symmetry sets, one state constraint |
| `MCAgentParts`, `MCClientParts`, `MCLiveParts` | instances of all the other modules, side by side | `part` names the module a behaviour is of; that module's variables move and those of the rest stay 0. The parts share nothing, so this is what a run of each would be; a property says which part it is about. A constant set such as `Twins` gives several parts their two of something (workspaces, windows, sockets, URLs) |

Definitions marked *Faulty variant* are never used by a specification. They are
the plausible slips (a dropped guard, swapped steps) that show a property can
fail: put in place of the definition that follows them, TLC finds the property
violated. PROJECT.json pairs each property with one; the others break the other
conjuncts of the same property.

### History variables

The stores alone cannot say what ought to be there. `fate` records what users
and processes did to a workspace (open, exited, closing, closed); `crossed` the
workspaces with overlapping requests, or requests after their close;
`disturbed` that two rewrites of `parked.json` overlapped or a crash tore one;
`overtaken` the connections that closed while an attach was waiting. No guard
reads them except `fate` where it stands for an id that has not been minted.

The other modules do the same where a property holds but for named reasons: `unwatched`,
`late` and `outdated` (`Announcements`: the poll did not know a workspace when it ended;
it was in an answer delivered later; a late answer to its create gave a device a status
that was over), `blind`, `mislaid` and `torn` (`Attention`: the deferral may be lost or
stale; the agent missed the last Stop while up; a write of status.json was cut),
`excused` (`ConnectionLog`, `BrowserSessions`), `replaced` and `swept` (`SharedFile`),
`twice` (`FileViews`: one file fetched twice at once), `raced` and `broken`
(`Dictation`: a second tap before the permission; a recorder that failed to start),
`touched` (`FileServe`), `disturbed` (`AndroidInput`), `cancelled` and `used`
(`KeyPress`). `healed` (`TerminalSession`) is the other way round: the phone has
attached on a quiet link and nothing has happened since that would undo it.

An excuse leaves a hazard outside the property it is named in. Of the hazards that
PROJECT.json lists, the properties exclude rather than settle: a line changed past the
Android adapter (`disturbed`), a second finger (one finger is assumed), a file
changed between its stat and its read (`touched`), a share stashed before the delete by
key (`swept`), a browser started after the listing of the cascade (`excused`), two
uploads that find one name free. What the code does in these cases is below, under what
is known not to hold; what the property says is that nothing else goes wrong.

## Runs

| run | bounds | shows |
|---|---|---|
| `MCWorkspaces.cfg` | 2 ids, 2 requests in flight, 1 conversation id, no crash | without crashes and with requests for *one* workspace not crossing, nothing is reopened or left labelled parked, although requests for *different* workspaces interleave at every await |
| `MCWorkspacesCrash.cfg` | the same, with crashes; states after `disturbed` are not explored (every property is then true) | step orders, reconciliation and prune survive a crash anywhere |
| `MCWorkspacesLost.cfg` | | violation: overlapping parks lose a record |
| `MCWorkspacesReopened.cfg` | | violation: a park or attach outruns a close |
| `MCViewers.cfg` | 2 ids, 3 connections, 3 ptys | one viewer, informed clients, no stray pty, refinement of `ViewerLock` |
| `MCViewersLeak.cfg` | 2 connections | violation: an attach after its connection's close |
| `MCMachineConnection.cfg` | 3 sockets, 3 generations, 2 attempts, 2 doublings, `reconnect()` in any status | the link's safety |
| `MCMachineConnectionLive.cfg` | 2 sockets, 2 generations, a path may die once authenticated | liveness |
| `MCMachineConnectionStuck.cfg` | the same, a path may die before the auth reply | violation: connecting for ever |
| `MCAgentParts.cfg` | `Announcements` three times: 2 listings in flight; 2 devices; folders hidden and shown. 1 session and 1 late post at a time for `Attention`; 2 devices and 2 sockets for `BrowserRelay`; 2 slugs and 1 poll in flight for `BrowserSessions`; 3 files in 2 workspaces for `Uploads`, none over the size limit (such a file is only ever refused, as any file may be); files of 3 bytes for `FileServe` | safety of the agent's other parts |
| `MCClientParts.cfg` | 2 workspaces, 2 machines, 2 windows, 3 shares, 3 recordings, 2 messages each way; `TerminalSession` without faults and with all five; `FileViews` with media and with folders; `ConnectionLog` with two machines and with two windows; `HomeScreen` with 2 machines in 2 folders | safety of the PWA's other parts |
| `MCLiveParts.cfg` | 1 workspace with 2 names, 2 machines, 3 recordings, 4 frames | what must eventually happen: ghosts go and renames arrive, the spinner ends, transcribing ends but for what no timer bounds, the last frame is drawn |

Two requests and two ids are enough for every pairwise race: the properties
speak of one workspace, and a lost update needs one other writer. Three ptys
give a takeover of a takeover; a third connection gives an eviction beside a
disconnect. Three sockets give a current one, a superseded one closing late and
one being retried. `MaxConv`, `Ptys`, `MaxGen`, `MaxAttempts`, `MaxBackoff` are
the bounds; `failCount` saturates at `MaxAttempts` because the code only
compares it; an attach already waiting for a workspace is not asked for again on
the same connection. The code's `MAX_CONNECT_ATTEMPTS` is 4; the instance uses
2, the proofs any positive number.

In the other modules: two listings are a tick that overlaps a tick, a broadcast
or a reply; the notes of `Announcements` are about one workspace and one device,
so a second adds nothing but a second recipient. Sockets of `BrowserRelay` are used again once closed at both
ends, so two make reconnects and takeovers without end. Three files of one name are needed for a name taken twice.
Two windows are a save over another's; two machines an event one agent has and
the other has not. Three shares are one shown, one that replaced it and one
deleted in its place. The one word of two letters of `AndroidInput` is long
enough for a correction that keeps a prefix. `MaxMsgs`, `MaxPolls`, `MaxVisits`,
`MaxCalls`, `MaxDepth`, `MaxSeq`, `MaxPosts`, `Cap`, `Last`, `MaxFires`, `Span`,
`MaxLine`, `MaxFrame`, `MaxWire`, `MaxRefocus` are bounds; each is named where
it is declared.

Deadlock is checked where the system never stops (`Workspaces`: the poll always
runs). `Viewers` stops when every connection has closed and every pty of the
bound is spent, `MachineConnection` after `close()`, `Uploads`, `CreateFlow`,
`Dictation` and `Frames` when their bounds are used up.

### Fairness

JavaScript timers fire and awaits answer; nothing else is assumed, in particular
nothing of users, programs in a terminal, or links.

* `MachineConnection`: the timers (`DeadlineFires`, `PingDue`, `ReplyDue`,
  `RetryFires`). `checkLiveness()` cancels the reply deadline and arms a new one, so
  the two are different timers to the model (`ReplyTimers`), each fair on its own:
  one that is cancelled and replaced for ever need not fire, and `DeadLinkNoticed`
  is claimed only where that does not go on for ever. Further, the close event of a
  socket the code closed (`ClosingEnds`; the WebSocket standard bounds the closing
  handshake), and the answer to `auth` of an agent that can be heard
  (`connection-handler.ts:121-129` gives it before any await). The network owes
  nothing: a socket may hang in CONNECTING and a path may die without a close.
  `Collect` only makes a socket's name available again. In the live runs the
  application calls `reconnect()` only when offline, as `PerchStore.reconnectAll`
  does.
* `Announcements`: weak fairness of the steps of a listing and of a move (tmux
  and the file system answer), strong fairness of `Tick`: the interval fires
  however busy the agent is, and the bound on listings must not starve it.
* `HomeScreen`: the grace timer fires.
* `Dictation`: an active recorder fires its stop event, and the request answers or
  runs into its timeout (`TimedSpec`). Of the body of the answer nothing is assumed,
  for the timer is off by then; nor of the microphone, which the platform may take
  away. `TranscribingEnds` names both as what may last (`Hangs`).
* `Frames`: what was sent over the socket arrives and is decoded. Of the page
  nothing is assumed, hence the frame that may stay held back.

### What the violations say

* `ParkKeepsListed`: `FileParkedStore.add` reads, then rewrites the file. Two
  parks that overlap keep one record; the other session is killed all the same.
* `ClosedForEveryDevice`: `close` looks for a record once. A park whose record is
  not written yet, or an attach about to create the session, finishes later.
* `ClosedHoldsNothing`: `onClose` tears down the attachment of that moment; an
  attach still waiting makes a new one, which holds the workspace until another
  device takes it over.
* `ConnectingSettles`: `onOpen` cancels the deadline, `authResult` starts the
  heartbeat; between them no timer is armed. `reconnectAll` skips machines that
  are connecting, so only the machine's own switch recovers it.

### What else is known not to hold

Each of these is a definition of its module, false of the code, which TLC
refutes when it is put into a configuration in place of the weaker property the
runs check:

* `Announcements`: `NoLingeringGhost` (a workspace that ended before the poll
  first saw it stays listed, against the comment at `ws-server.ts:345-347`);
  `NoLiveSessionSwept` (an unpark between the two reads of
  `list-workspaces.ts:27-28` has a running workspace announced as closed);
  `NoStaleStatus` (a create awaits the record of its path before it is answered, so its
  `idle` may follow a newer status, even where listings do not overlap), and
  `LatestStatusShown` with two listings (the older answer may arrive last).
* `MachineConnection`: `AlwaysNoticed` (an app that keeps coming back to the foreground
  within ten seconds puts the verdict on a dead link off for ever).
* `Attention`: `IdleNoticeHeeded` (a Stop that deferred, then a plain Stop whose post the
  agent missed: the deferral is stale, and the idle notification is swallowed although
  nothing runs).
* `HomeScreen`: `UnreachableOnlyIfNeverConnected` and `FilterAwaitsItsMachines`
  (the first list to arrive prunes the folders of machines still connecting).
* `TerminalSession`: `LiveMeansAttached` once sessions are opened again, settings
  replace the connections, attaches answer late, the pty exits alone (the detach key of
  tmux) or a device parks the workspace. In the last two the agent says `detached` with
  reason `closed`, the store heeds `opened-elsewhere` only (`store.svelte.ts:355-359`),
  and the terminal shown as live stays frozen until it is refreshed.
  `LeftMeansDetached` once attaches answer late; `OverlayMeansMoved` (`refresh()`
  re-attaches under the overlay).
* `Dictation`: `NoMicIsForgotten` (`media-recorder-audio.ts:13-20` opens the microphone
  before it makes and starts the recorder; when that throws, nothing stops the tracks)
  and `NeverStuck` (`elevenlabs-transcriber.ts:8-10`, "rather than leaving dictation
  stuck": a recorder whose microphone was taken away fires no stop event, and no timer
  runs over the body of the answer).
* `CreateFlow`: `NoErrorDropped` (a form left with its picker open keeps
  `pickerActive`). `CreateForm`: `PickedWhereListed` when two machines have
  project roots and the one that listed drops while the picker is open. A recent
  path that was tapped does not count as an edit, so a late answer replaces it.
* `FileViews`: `NoBlobLeaks` (one file fetched twice at once), `AlwaysConfined` (a
  late answer to an earlier visit). `SharedFile`: `NeverSwept` (the entry is deleted
  by key, whatever was stashed meanwhile).
* `Uploads`: `AllSurvive` (two uploads find the same name free), `GoesHome` (the
  workspace is read after the clipboard). `FileServe`: `NeverPartial` (a file that
  grows between stat and read). `BrowserSessions`: `ChipsCatchUp` (a list reply
  read earlier arrives after the poll's news).
* `Frames`: `LastFrameDrawn` (a frame held back waits for another message).
  `KeyPress`: `StopsWhenReleased` with two pointers (a second finger on a
  repeating key overwrites the first one's timer). `AndroidInput`: `NeverDrifts`.

## Proofs

Every property the passing runs check is proved but for liveness. The theorems hold
for every value of the constants that meets their assumptions. Those of
`Workspaces`, `Viewers` and `MachineConnection` are the modules' own named ASSUMEs
(`NoneIsNoId`, `ConvBound`, `CrashesFlag`; `NoneIsNothing`; `NoneIsNoSocket`,
`Bounds`, `Flags`). The theorems about the parts state theirs as a hypothesis, named
after the part:

* the listings have at least one title, and `None` is none of them nor an entry
  (`ListingsConstants`; `ConstantsOK` in `AnnouncementsProofs`);
* `None` is no device, socket, file, recording, key, URL or path
  (`SharedConstants`, `SpeechConstants`, `BlobConstants`, ...);
* bounds and sizes are numbers (`ServeSizes`, `HomeConstants`, `Bounded`), and the
  pad's notch is positive (`PadConstants`);
* one finger on the key bar (`KeysConstants`): with two, `StopsWhenReleased` is
  false, see above;
* `"main" \in Slugs` (`ChipsConstants`), the slug that stands for a bare session
  name; the letters of the recalled line can be typed (`TypingConstants`);
* `OneListing` for `LatestStatusShown` alone, which is false when listings overlap,
  see above. What else is said of listings is proved for any number of them.

What the instances fix stays fixed in the theorems about the parts: the bounds on
messages and calls given in their INSTANCE statements, the three segments of a folder's
name, the two kinds of `ConnectionLog`. The sets a configuration supplies do not.

Theorems of `MCAgentPartsProofs` and `MCClientPartsProofs` are about the joined
specification: a behaviour keeps to the part it began as, a step of the join is a
step of that part, and the part has its own inductive invariant. A module that is
instantiated twice or has a long proof (`Announcements`, `ConnectionLog`,
`BrowserRelay`) has a proof module of its own, and the instance names that one, so
that its lemmas come with it.

### One module each

* `MachineConnectionProofs`: type correctness, then `OneChain`, `NeverStranded`,
  `ClosedForGood` and `OnlineIsWatched`. They are not inductive apart: that a
  retry may connect needs `OneChain` (nothing else alive), which after a
  reconnect needs that retries never come from a later generation
  (`RetriesInv`), and what a rejection leaves behind needs the handshake of the
  current socket (`HandshakeInv`). `IInv` is their conjunction.
  `ConnectRestores` states once what every path through `connect()` establishes.
* `ViewersProofs`: type correctness, `OneViewer`, `ClientKnows`, `NoStrayPty` and
  the refinement `Spec => ImplementsLock`. The heart is `Agreed`: attachment, live
  pty and holder name each other. `Takeover` works out `attach()` place by place;
  `ViewEnds` reduces detach, close and exit to one shape, `Ended`.
  `ViewIsHolder` turns the abstract viewer, defined from live ptys, into the
  registry's holder, after which a takeover is `Take` and an `Ended` is `Leave`.
* `WorkspacesProofs`: type correctness, then `NoWorkspaceLost`, `ClosedStaysClosed`
  and `RecordOrSession`, crashes included. None is inductive: whether killing a
  session loses its workspace depends on what its request established steps ago.
  `Stage(r)` says, for every step of every handler, what the request relies on
  there (before `parked.get` has answered, that session and record exclude each
  other; before the kill, that the record is there; ...), and `Place(w)` says
  where the workspace is by what the outside world did to it. Both are claimed
  only of a workspace whose requests did not cross, while no rewrite was torn or
  overlapped; `OneWriter` says what that buys for the file: one writer at a time,
  the file empty exactly while one holds the text. `Rec(w)` counts that text as a
  record, so `truncate` and `write` change `Rec` for no workspace but the
  writer's own (`TruncateIsSafe`, `WriteIsSafe`). `Elsewhere` and `Others` settle
  once that a step leaves the other workspaces placed, and `Before` and `After`
  reduce each handler step to its own workspace.

  On top of it `LiveIsNotLabelledParked` and `ConversationKept`. The first
  needs to know who will reset a label that outlives its park: `Told(w)` says that
  a labelled workspace has no session, or an unpark of it that has created the
  session and is still on its way (`Waking`). The second rests on
  `PruneSparesOpen`: an open workspace is in `Kept` at startup, because by `Place`
  it has a session or a record and by `OneWriter` the record can be read.
* `BrowserRelayProofs`: type correctness, `OneStream` and `OneUpstream`. The two ends
  share a socket but no invariant: `StreamInv` is about the devices, `RelayInv` about
  the agent, and each survives whatever the other does. `OneStream` needs that a
  device's socket is live and its own (`Owned`: then a loss is always that of
  somebody's current socket) and that a device which was taken over has no reconnect
  scheduled (`OustedWaits`). Every stream step is one of two: the device dials
  (`DialingKeepsOne`) or gives its socket up (`DroppingKeepsOne`).
* `AnnouncementsProofs`: type correctness, `GhostsAreDoomed`, the action property
  `SweepsOnlyTheMissed`, and `LatestStatusShown`. `MissedInv` follows each tick: of a
  workspace the poll knows and the tick has not seen, after `list-sessions` it has no
  session, and after the records it is gone, unless the tick's `moved` names it; the
  two halves exist because the listing reads twice. `DoomedInv` is `GhostsAreDoomed`
  with only the stages of a close left as an escape: a park and an unpark put a
  workspace they lose into `unwatched` themselves. `WorldInv` has what each stage of
  a park, unpark or close finds (`Moving`) and that nothing is said of an id before it
  is minted. `Turn` is what one turn of the sweep does, whether it opens the walk
  (`TickEffect`) or goes on with it (`TailEffect`). For `LatestStatusShown`,
  `ReadRight` says what a listing has read of a workspace nobody is moving, step by
  step up to its label, and that a broadcast about it will find it; then every entry
  shown has the right label, or a broadcast about it is in flight, or it is `outdated`
  (`SettledInv`). `CreatesInv` is what the wait of a create relies on: its workspace is
  minted, and the device it is answered to is connected.
* `ConnectionLogProofs`: type correctness and `EventsSurvive`, for any machines,
  windows and capacity. `LogInv`: every ring, that of the storage and that of each
  window, holds numbered events up to its marker, and what a ring has marked as flushed
  for a machine is in that machine's file (`Sound`); of what its window's log
  holds for the machine, a post on its way leaves nothing out between the mark and the
  newest event it carries (`Complete`), so that moving the mark when it is answered
  skips nothing; and every event not excused is in the storage's ring.

### The parts of the agent

`MCAgentPartsProofs`, beside `OneBrowserViewer` (of the relay's theorems),
`ListingsSettle` and `SweepsOnlyTheMissed` (of the announcements'):

* `WholeOrMarked`: a request whose file was not touched still holds what its stat
  promised, at the same inode (`Promised`).
* `OrphansAreLate`: from the listing on, each browser of a closed workspace is still
  to be stopped by the cascade, or excused (`Stopping`).
* `AttentionKept`: the file is what the store holds unless a cut write emptied it, and
  then the agent is down (`FileAsStore`); a wait the agent has heard of is shown
  (`WaitShown`); and a stopped session over background work whose idle notification
  may still come is deferred, unless it is `blind` (`Deferral`), which is what keeps that
  notification from raising an alarm. The other half of it, that only background work defers,
  excepts the `mislaid`: a Stop the agent missed leaves the deferral of the one before.
* `UploadsLand`: a name found free may since have been given away, but to no file
  that was stored when this one's putFile was handled (`UnderWay`).

### The parts of the PWA

`MCClientPartsProofs`:

* `ShareSurvives`: what a window holds was shared, what it deletes was sent (`Held`).
* `MicIsReleased`: unless a second tap raced the permission, one recording at a time:
  only the one shown or being stopped has a microphone, those of recorders that failed
  to start apart, and its stream is the one that `onstop` releases (`OneRecording`,
  `HeldMics`).
* `KeysCount`: a key has a timer exactly while it is held, and its press has sent
  nothing as long as it may still commit (`KeyCounts`); the click a press owes comes
  before the next press (`UnderFinger`). For the pad, the arrows sent are the way to
  the reference point, within a notch of the finger (`PadInv`).
* `HomeHolds`: clock, rows and filter are inductive together, once it is added that a
  filter names only folders of rows while there is a row.
* `CreateKeepsItsWord`: a workspace that was there all along is on the list from the
  first list on, so a create knows it, and the messages under way tell of it in an
  order that keeps it so (`OldIsKnown`).
* `KeepsThePick`: after a pick the field is edited, which no effect overwrites, and
  resolves to the folder picked (`Kept`); `FieldsResolve` is the lemma that what a
  folder leaves in the field stands for that folder.
* `InStep`: within a word the context is what stands before it on the line.
* `FileViewsSound`: a URL belongs to the media under view, the current one is not
  revoked (`Viewed`), and unless one file was fetched twice at once an answer finds no
  earlier URL (`NoSecondUrl`); in the browser, listings and requests of the current
  visit lie under its folder (`Belongs`).
* `TerminalFollowsAgent`: without faults, the last order on its way is about the
  terminal shown, or there is none and the agent has it (`AskedLast`), and after a leave
  the last word was a detach or close (`EndsLast`); with the live view these are
  inductive (`Follows`). With faults, a refresh leaves only attaches of this terminal
  on the way, and until an exit or a park of it nothing undoes them (`Healed`,
  `FaultsHealed`). Types are proved once, for the faulty instance: a step without
  faults is one of its steps (`Orderly`).
* `EventsSurvive`: from `ConnectionLogProofs`, in both instances.

### What proving changed in the models

Little, and the wording rather than the behaviour: `asked' = (asked \/ online)` in
`BrowserSessions` has the parentheses it needs, `TypeOK` of `Dictation` quantifies over
the jobs alone, and `NoteArrives` of `Attention` and `HomeView` of `HomeScreen` are plain
conditionals, which the provers take apart.

### Only model-checked

Liveness, which is out of the prover's reach: `DeadLinkNoticed`,
`ConnectingSettles`, `NewsArrives`, `SpinnerEnds`, `TranscribingEnds` and
`FramesSettle`. `Frames` has no safety property of its own on a passing run, so nothing
is proved of it.

## Not modelled

* Rendering: colours, scrolling, zoom, gestures other than the cursor pad's. The
  Svelte views that keep state of their own are in the modules of their flows.
* Schema validation (`contracts/src/protocol`): the messages appear as actions.
* Stateless helpers (`sort-by-status`, `resume-command`, `markdown`,
  `github-links`, `zoom-pan`): functions of one input with table tests.
* Deployment scripts and git hooks: sequential shell.
* Wording of diagnostics, terminal bytes, the escape sequences of keys.
* The `postponed` to `parked` rename left live workspaces labelled `parked` without a
  record (`connection-handler.ts:298-301`): `Workspaces` starts with no status, so these
  are outside its initial states, and `LiveIsNotLabelledParked` says nothing of them.
* `TerminalSession` leaves out a workspace that ends while the phone's link is down
  (`ListAnswered` of `Announcements` is how the phone learns of it) and an unpark whose
  directory is missing.
* In the modelled parts: the reaping of a closed workspace's systemd scope, the
  transcription key, transition times. The flows of the PWA store each keep the
  open view for themselves; they are not composed with each other.
