--------------------------- MODULE MCAgentPartsProofs ---------------------------
(***************************************************************************)
(* Proofs about the smaller parts of the agent, for any values of their    *)
(* constants: the invariant of each part, and that a behaviour of the      *)
(* instances MCAgentParts joins keeps to the part it began as.             *)
(***************************************************************************)
EXTENDS MCAgentParts, Integers, FiniteSets, FiniteSetTheorems, TLAPS

-----------------------------------------------------------------------------
(* A browser session has one viewer *)

\* The behaviour is of the browser relay.
IsRelay == part = "relay"

\* One viewer per browser session and one stream per device, for any devices and
\* sockets (browser-relay-handler.ts, browser-stream.ts).
THEOREM OneBrowserViewerAlways ==
  None \notin Devices \cup Twins => (Spec => []OneBrowserViewer)
<1>. SUFFICES ASSUME None \notin Devices \cup Twins PROVE Spec => []OneBrowserViewer
  OBVIOUS
<1>1. IsRelay /\ Init => Relay!Init
  BY DEF Init, IsRelay
<1>2. IsRelay /\ [Next]_vars => [Relay!Next]_(Relay!vars)
  BY DEF Next, vars, relaying, IsRelay, Relay!vars, Relay!streams, Relay!relays
<1>3. IsRelay /\ [Next]_vars => IsRelay'
  BY DEF Next, vars, IsRelay
<1>4. ~IsRelay /\ [Next]_vars => ~IsRelay'
  BY DEF Next, vars, IsRelay
<1>5. Relay!NoneIsNothing
  BY DEF Relay!NoneIsNothing
<1>6. Relay!Spec => []Relay!TypeOK
  BY <1>5, Relay!TypeCorrect
<1>7. Relay!Spec => []Relay!OneUpstream
  BY <1>5, Relay!OneUpstreamAlways
<1>8. Relay!Spec => []Relay!OneStream
  BY <1>5, Relay!OneStreamAlways
<1>9. /\ Relay!TypeOK /\ Relay!OneUpstream /\ Relay!OneStream => OneBrowserViewer
      /\ ~IsRelay => OneBrowserViewer
  BY DEF OneBrowserViewer, IsRelay
<1>10. IsRelay /\ Init /\ [][Next]_vars => [][Relay!Next]_(Relay!vars)
  BY <1>2, <1>3, PTL
<1>11. IsRelay /\ Spec => Relay!Spec
  BY <1>1, <1>10, PTL DEF Spec, Relay!Spec
<1>12. ~IsRelay /\ Spec => []OneBrowserViewer
  BY <1>4, <1>9, PTL DEF Spec
<1>. QED  BY <1>6, <1>7, <1>8, <1>9, <1>11, <1>12, PTL

-----------------------------------------------------------------------------
(* A file served as whole is whole *)

\* The sizes are numbers.
ServeSizes == Cap \in Int /\ MaxSize \in Nat

\* What a stat of a file of n bytes promises.
Promises(p, n) == /\ p.truncated = (n > Cap)
                  /\ p.toRead = IF n > Cap THEN Cap ELSE n

\* A request whose file has not changed since its stat still holds its promise, and
\* the inode it has opened is the one at the path.
Promised(r) ==
  /\ stage[r].at = "statted" => at \in Inodes /\ Promises(stat[r], size[at])
  /\ stage[r].at = "opened" => /\ at \in Inodes /\ fd[r] = at
                               /\ Promises(stat[r], size[at])
  /\ stage[r].at = "answered" => (body[r].cut <=> body[r].length < body[r].of)

ServeInv ==
  /\ Serve!TypeOK
  /\ stage \in [Requests -> [at : Serve!Stages, kind : Serve!Kinds]]
  /\ DOMAIN stat = Requests /\ DOMAIN fd = Requests /\ DOMAIN body = Requests
  /\ \A r \in Requests \ touched : Promised(r)

\* A program that changes the file touches every request that is reading it.
LEMMA ServeWrites ==
  ASSUME ServeInv, NEW n \in 0..MaxSize,
         Serve!Write(n) \/ (\E i \in Inodes \cup {None} : Serve!Replace(i)) \/ Serve!RootsChange
  PROVE  ServeInv'
<1>1. /\ stage \in [Requests -> [at : Serve!Stages, kind : Serve!Kinds]]
      /\ UNCHANGED <<stage, stat, fd, body>>
  BY DEF ServeInv, Serve!Write, Serve!Replace, Serve!RootsChange
<1>2. Serve!TypeOK'
  BY DEF ServeInv, Serve!TypeOK, Serve!Write, Serve!Replace, Serve!RootsChange, Serve!Reading
<1>3. ASSUME NEW r \in Requests \ touched' PROVE Promised(r)'
  BY <1>1, <1>3 DEF ServeInv, Promised, Promises, Serve!Write, Serve!Replace,
     Serve!RootsChange, Serve!Reading
<1>. QED  BY <1>1, <1>2, <1>3 DEF ServeInv

\* The steps of a request: stat promises, open takes the inode at the path, and the
\* read of an unchanged file gives what was promised.
LEMMA ServeRequests ==
  ASSUME ServeSizes, ServeInv, NEW r \in Requests,
         Serve!Authorize(r) \/ Serve!Stat(r) \/ Serve!Open(r) \/ Serve!Read(r)
  PROVE  ServeInv'
<1>1. /\ stage \in [Requests -> [at : Serve!Stages, kind : Serve!Kinds]]
      /\ DOMAIN stat = Requests /\ DOMAIN fd = Requests /\ DOMAIN body = Requests
      /\ UNCHANGED <<at, size, touched>>
      /\ at \in Inodes \cup {None} /\ size \in [Inodes -> 0..MaxSize] /\ touched \subseteq Requests
  BY DEF ServeInv, Serve!TypeOK, Serve!Authorize, Serve!Stat, Serve!Open, Serve!Read, Serve!disk
<1>2. \E s \in Serve!Stages : stage' = [stage EXCEPT ![r].at = s]
  BY DEF Serve!Authorize, Serve!Stat, Serve!Open, Serve!Read, Serve!Reached, Serve!Stages
<1>3. /\ stage' \in [Requests -> [at : Serve!Stages, kind : Serve!Kinds]]
      /\ \A q \in Requests : q # r => stage'[q] = stage[q]
  BY <1>1, <1>2
<1>4. /\ DOMAIN stat' = Requests /\ DOMAIN fd' = Requests /\ DOMAIN body' = Requests
      /\ \A q \in Requests : q # r => stat'[q] = stat[q] /\ fd'[q] = fd[q] /\ body'[q] = body[q]
  BY <1>1 DEF Serve!Authorize, Serve!Stat, Serve!Open, Serve!Read
<1>5. Serve!TypeOK'
  BY <1>1, <1>3 DEF Serve!TypeOK
<1>6. ASSUME NEW q \in Requests \ touched', q # r PROVE Promised(q)'
  BY <1>1, <1>3, <1>4, <1>6 DEF ServeInv, Promised, Promises
<1>7. ASSUME r \notin touched PROVE Promised(r)'
  <2>1. Promised(r)
    BY <1>7 DEF ServeInv
  <2>2. CASE Serve!Authorize(r)
    BY <1>1, <2>2 DEF Serve!Authorize, Serve!Reached, Promised
  <2>3. CASE Serve!Stat(r)
    <3>1. CASE at = None
      BY <1>1, <2>3, <3>1 DEF Serve!Stat, Serve!Reached, Promised
    <3>2. CASE at # None
      <4>1. /\ at' \in Inodes /\ size'[at'] = size[at] /\ stage'[r].at = "statted"
            /\ stat'[r] = [truncated |-> size[at] > Cap,
                           toRead |-> IF size[at] > Cap THEN Cap ELSE size[at]]
        BY <1>1, <2>3, <3>2 DEF Serve!Stat, Serve!Reached, Serve!Truncated
      <4>2. Promises(stat'[r], size'[at'])
        BY <4>1 DEF Promises
      <4>. QED  BY <4>1, <4>2 DEF Promised
    <3>. QED  BY <3>1, <3>2
  <2>4. CASE Serve!Open(r)
    BY <1>1, <2>1, <2>4 DEF Serve!Open, Serve!Reached, Promised, Promises
  <2>5. CASE Serve!Read(r)
    <3>1. fd[r] \in Inodes /\ size[fd[r]] \in Int /\ Promises(stat[r], size[fd[r]])
      BY <1>1, <2>1, <2>5 DEF Serve!Read, Promised
    <3>2. stage'[r].at \in {"too-large", "answered"}
      <4>1. \E s \in {"too-large", "answered"} : stage' = [stage EXCEPT ![r].at = s]
        BY <2>5 DEF Serve!Read, Serve!Reached
      <4>. QED  BY <1>1, <4>1
    <3>3. ASSUME stage'[r].at = "answered" PROVE body'[r].cut <=> body'[r].length < body'[r].of
      <4>1. /\ body'[r].of = size[fd[r]] /\ body'[r].cut = stat[r].truncated
            /\ body'[r].length = IF size[fd[r]] < stat[r].toRead THEN size[fd[r]]
                                                                ELSE stat[r].toRead
        BY <1>1, <2>5, <3>3 DEF ServeInv, Serve!Read, Serve!Reached
      <4>2. body'[r].cut = (size[fd[r]] > Cap)
        BY <3>1, <4>1, Zenon DEF Promises
      <4>3. body'[r].length < body'[r].of <=> size[fd[r]] > Cap
        BY <3>1, <4>1 DEF ServeSizes, Promises
      <4>. QED  BY <4>2, <4>3, Zenon
    <3>. QED  BY <3>2, <3>3 DEF Promised
  <2>. QED  BY <2>2, <2>3, <2>4, <2>5
<1>. QED  BY <1>1, <1>3, <1>4, <1>5, <1>6, <1>7 DEF ServeInv

LEMMA ServeStep == ServeSizes /\ ServeInv /\ [Serve!Next]_(Serve!vars) => ServeInv'
<1>. SUFFICES ASSUME ServeSizes, ServeInv, [Serve!Next]_(Serve!vars) PROVE ServeInv'
  OBVIOUS
<1>1. CASE UNCHANGED Serve!vars
  BY <1>1 DEF Serve!vars, ServeInv, Serve!TypeOK, Promised, Promises
<1>2. 0 \in 0..MaxSize
  BY DEF ServeSizes
<1>. QED  BY <1>1, <1>2, ServeWrites, ServeRequests DEF Serve!Next

LEMMA ServeInit == Serve!Init => ServeInv
BY DEF Serve!Init, ServeInv, Serve!TypeOK, Serve!Stages, Serve!Kinds, Promised

\* A promise that is kept is what the browser is told.
LEMMA ServePromises == ServeInv => Serve!TypeOK /\ Serve!WholeOrMarked
BY DEF ServeInv, Promised, Serve!WholeOrMarked, Serve!Answered


\* A file that did not change while it was read is answered as cut exactly when a
\* part of it is missing (read-servable-file.ts, fs-file-reader.ts).
THEOREM WholeOrMarkedAlways == ServeSizes => (Spec => []WholeOrMarked)
<1>. SUFFICES ASSUME ServeSizes PROVE Spec => []WholeOrMarked
  OBVIOUS
<1>. DEFINE Inv == part = "files" => ServeInv
<1>1. Init => Inv
  BY ServeInit DEF Init
<1>2. Inv /\ [Next]_vars => Inv'
  <2>1. CASE part = "files"
    <3>1. [Next]_vars => part' = part /\ [Serve!Next]_(Serve!vars)
      BY <2>1 DEF Next, vars, serving, Serve!vars
    <3>. QED  BY <2>1, <3>1, ServeStep
  <2>2. CASE part # "files"
    BY <2>2 DEF Next, vars
  <2>. QED  BY <2>1, <2>2
<1>3. Inv => WholeOrMarked
  BY ServePromises DEF WholeOrMarked
<1>. QED  BY <1>1, <1>2, <1>3, PTL DEF Spec

-----------------------------------------------------------------------------
(* The browsers of a closed workspace are stopped *)

\* None is nothing else, a session may have the bare name, and polls are counted.
ChipsConstants ==
  /\ None \notin Ids /\ None \notin SUBSET Chips!Names
  /\ "main" \in Slugs /\ MaxPolls \in Nat

\* Once they are listed, the browsers of a closed workspace are to be stopped, or
\* are excused.
Stopping(w) ==
  cascade[w] # None => /\ w \notin running
                       /\ \A n \in live : n[1] = w => n \in cascade[w] \cup excused

ChipsInv ==
  /\ Chips!TypeOK /\ IsFiniteSet(polls)
  /\ \A w \in Ids : Stopping(w)

\* The size of a set is the same to the instance.
LEMMA ChipsCardinality == ASSUME NEW S PROVE Chips!Cardinality(S) = Cardinality(S)
BY DEF Chips!Cardinality, Cardinality

\* The polls in flight stay few.
LEMMA ChipsPolls ==
  ASSUME ChipsConstants, ChipsInv, Chips!PollReads \/ \E names \in polls : Chips!PollCompares(names)
  PROVE  ChipsInv'
<1>1. CASE Chips!PollReads
  <2>1. IsFiniteSet(polls') /\ Cardinality(polls') = Cardinality(polls) + 1
    BY <1>1, FS_AddElement DEF ChipsInv, Chips!PollReads
  <2>2. Cardinality(polls) \in Nat
    BY FS_CardinalityType DEF ChipsInv
  <2>3. polls' \subseteq SUBSET Chips!Names /\ Cardinality(polls') <= MaxPolls
    BY <1>1, <2>1, <2>2, ChipsCardinality
       DEF ChipsConstants, ChipsInv, Chips!TypeOK, Chips!PollReads
  <2>. QED  BY <1>1, <2>1, <2>3, ChipsCardinality DEF ChipsInv, Stopping, Chips!TypeOK, Chips!PollReads,
            Chips!machine
<1>2. ASSUME NEW names \in polls, Chips!PollCompares(names) PROVE ChipsInv'
  <2>1. IsFiniteSet(polls') /\ Cardinality(polls') = Cardinality(polls) - 1
    BY <1>2, FS_RemoveElement DEF ChipsInv, Chips!PollCompares
  <2>2. Cardinality(polls) \in Nat
    BY FS_CardinalityType DEF ChipsInv
  <2>3. polls' \subseteq SUBSET Chips!Names /\ Cardinality(polls') <= MaxPolls
    BY <1>2, <2>1, <2>2, ChipsCardinality
       DEF ChipsConstants, ChipsInv, Chips!TypeOK, Chips!PollCompares
  <2>. QED  BY <1>2, <2>1, <2>3, ChipsCardinality DEF ChipsInv, Stopping, Chips!TypeOK,
            Chips!PollCompares, Chips!machine
<1>. QED  BY <1>1, <1>2

\* A session that is started late is excused.
LEMMA ChipsStart ==
  ASSUME ChipsConstants, ChipsInv, NEW n \in Chips!Names, Chips!Started(n),
         UNCHANGED <<running, cascade>>
  PROVE  live' \subseteq Chips!Names /\ excused' \subseteq Chips!Names /\ \A w \in Ids : Stopping(w)'
<1>1. live \subseteq Chips!Names /\ excused \subseteq Chips!Names
  BY DEF ChipsInv, Chips!TypeOK
<1>2. ASSUME NEW w \in Ids PROVE Stopping(w)'
  BY DEF ChipsConstants, ChipsInv, Stopping, Chips!Started
<1>. QED  BY <1>1, <1>2 DEF Chips!Started

\* What happens to a session.
LEMMA ChipsSessions ==
  ASSUME ChipsConstants, ChipsInv, NEW n \in Chips!Names,
         \/ Chips!StartsByHand(n) \/ Chips!StopsByItself(n) \/ Chips!CloseSession(n)
         \/ Chips!CliStops(n)
  PROVE  ChipsInv'
<1>. USE DEF ChipsInv, Chips!TypeOK
<1>1. CASE Chips!StartsByHand(n)
  BY <1>1, ChipsStart DEF Chips!StartsByHand, Chips!news
<1>2. CASE Chips!StopsByItself(n)
  BY <1>2 DEF Chips!StopsByItself, Chips!news, Stopping
<1>3. CASE Chips!CloseSession(n)
  BY <1>3 DEF Chips!CloseSession, Stopping
<1>4. CASE Chips!CliStops(n)
  BY <1>4 DEF Chips!CliStops, Chips!news, Stopping
<1>. QED  BY <1>1, <1>2, <1>3, <1>4

\* What happens to a workspace.
LEMMA ChipsWorkspaces ==
  ASSUME ChipsConstants, ChipsInv, NEW w \in Ids,
         \/ Chips!StartBrowser(w) \/ Chips!CliStarts(w) \/ Chips!CliFails(w)
         \/ Chips!WorkspaceCloses(w) \/ Chips!CascadeLists(w)
         \/ \E n \in Chips!Names : Chips!CascadeStops(w, n)
  PROVE  ChipsInv'
<1>. USE DEF ChipsInv, Chips!TypeOK
<1>1. CASE Chips!StartBrowser(w)
  BY <1>1 DEF Chips!StartBrowser, Chips!news, Stopping
<1>2. CASE Chips!CliStarts(w)
  <2>1. Chips!Started(<<w, "main">>) /\ UNCHANGED <<running, cascade>>
    BY <1>2 DEF Chips!CliStarts
  <2>2. <<w, "main">> \in Chips!Names
    BY DEF ChipsConstants, Chips!Names
  <2>. QED  BY <1>2, <2>1, <2>2, ChipsStart DEF Chips!CliStarts
<1>3. CASE Chips!CliFails(w)
  BY <1>3 DEF Chips!CliFails, Chips!news, Stopping
<1>4. CASE Chips!WorkspaceCloses(w)
  BY <1>4 DEF Chips!WorkspaceCloses, Chips!news, Stopping
<1>5. CASE Chips!CascadeLists(w)
  <2>1. cascade' \in [Ids -> (SUBSET Chips!Names) \cup {None}]
    BY <1>5 DEF Chips!CascadeLists, Chips!Own
  <2>2. ASSUME NEW v \in Ids PROVE Stopping(v)'
    BY <1>5 DEF Chips!CascadeLists, Chips!Own, Stopping
  <2>. QED  BY <1>5, <2>1, <2>2 DEF Chips!CascadeLists, Chips!news
<1>6. ASSUME NEW n \in Chips!Names, Chips!CascadeStops(w, n) PROVE ChipsInv'
  <2>1. cascade' \in [Ids -> (SUBSET Chips!Names) \cup {None}]
    BY <1>6 DEF Chips!CascadeStops
  <2>2. ASSUME NEW v \in Ids PROVE Stopping(v)'
    BY <1>6 DEF Chips!CascadeStops, Stopping
  <2>. QED  BY <1>6, <2>1, <2>2 DEF Chips!CascadeStops, Chips!news
<1>. QED  BY <1>1, <1>2, <1>3, <1>4, <1>5, <1>6

\* What the phone hears changes no session.
LEMMA ChipsNews ==
  ASSUME ChipsInv,
         Chips!Disconnect \/ Chips!Connect \/ Chips!ReadReply \/ Chips!SendReply
  PROVE  ChipsInv'
BY DEF ChipsInv, Chips!TypeOK, Stopping, Chips!Disconnect, Chips!Connect, Chips!ReadReply,
   Chips!SendReply, Chips!machine

LEMMA ChipsStep == ChipsConstants /\ ChipsInv /\ [Chips!Next]_(Chips!vars) => ChipsInv'
<1>. SUFFICES ASSUME ChipsConstants, ChipsInv, [Chips!Next]_(Chips!vars) PROVE ChipsInv'
  OBVIOUS
<1>1. CASE UNCHANGED Chips!vars
  BY <1>1 DEF Chips!vars, Chips!machine, Chips!news, ChipsInv, Chips!TypeOK, Stopping
<1>. QED  BY <1>1, ChipsPolls, ChipsSessions, ChipsWorkspaces, ChipsNews DEF Chips!Next

LEMMA ChipsInit == ChipsConstants /\ Chips!Init => ChipsInv
<1>1. IsFiniteSet({}) /\ Chips!Cardinality({}) = 0
  BY FS_EmptySet, ChipsCardinality
<1>2. ASSUME ChipsConstants, Chips!Init PROVE Chips!TypeOK
  <2>1. polls \subseteq SUBSET Chips!Names /\ Chips!Cardinality(polls) <= MaxPolls
    BY <1>1, <1>2 DEF ChipsConstants, Chips!Init
  <2>2. cascade \in [Ids -> (SUBSET Chips!Names) \cup {None}]
    BY <1>2 DEF Chips!Init
  <2>. QED  BY <1>2, <2>1, <2>2 DEF Chips!Init, Chips!TypeOK
<1>. QED  BY <1>1, <1>2 DEF Chips!Init, ChipsInv, Stopping

\* A browser that survives its workspace's close was started after the close listed
\* them, or refused to stop (close-workspace-browser-sessions.ts).
THEOREM OrphansAreLateAlways == ChipsConstants => (Spec => []OrphansAreLate)
<1>. SUFFICES ASSUME ChipsConstants PROVE Spec => []OrphansAreLate
  OBVIOUS
<1>. DEFINE Inv == part = "browsers" => ChipsInv
<1>1. Init => Inv
  BY ChipsInit DEF Init
<1>2. Inv /\ [Next]_vars => Inv'
  <2>1. CASE part = "browsers"
    <3>1. [Next]_vars => part' = part /\ [Chips!Next]_(Chips!vars)
      BY <2>1 DEF Next, vars, browsers, Chips!vars, Chips!machine, Chips!news
    <3>. QED  BY <2>1, <3>1, ChipsStep
  <2>2. CASE part # "browsers"
    BY <2>2 DEF Next, vars
  <2>. QED  BY <2>1, <2>2
<1>3. Inv => OrphansAreLate
  <2>1. ChipsConstants /\ ChipsInv => Chips!OrphansAreLate
    BY DEF ChipsConstants, ChipsInv, Stopping, Chips!OrphansAreLate
  <2>. QED  BY <2>1 DEF OrphansAreLate, ChipsInv
<1>. QED  BY <1>1, <1>2, <1>3, PTL DEF Spec

-----------------------------------------------------------------------------
(* What waits for the user says so *)

\* Users choose among the statuses, and None is no status, no notification and
\* nothing a hook tells.
AttentionConstants ==
  /\ Choices \subseteq Hooks!Statuses
  /\ None \notin Hooks!Statuses \cup {"idle_prompt", "permission_prompt", "task",
                                     "subagent", "blocking"}

\* What the agent makes of an event of session s.
Verdict(s, event, kind) == Hooks!Decide(event, kind, s \in deferred)

\* The file of a store whose write was cut short is taken for empty.
NoEntries == [s \in Sessions |-> Hooks!NoEntry]

\* While the file is whole it holds what the store holds, and a torn one is found
\* by the next start only.
FileAsStore ==
  /\ torn => ~up /\ file = NoEntries
  /\ ~torn => file = entry

\* A wait the agent has heard of, that no user has overridden, is shown.
WaitShown(s) ==
  (/\ ~torn /\ s \in heard /\ s \notin byHand
   /\ phase[s] = "asking" \/ (phase[s] = "stopped" /\ s \notin task))
  => entry[s].status = "needs-feedback"

\* The pin of the store is the one the users set.
PinShown(s) == ~torn => (entry[s].urgent <=> s \in pin)

\* A stopped session is deferred only over background work, unless its Stop was missed,
\* and over background work an idle notification that may still come finds it deferred.
Deferral(s) ==
  up /\ phase[s] = "stopped" =>
    /\ s \in deferred => s \in task \cup mislaid
    /\ (s \in task /\ s \notin blind /\ (s \in idleDue \/ note[s] = "idle_prompt"))
         => s \in deferred

AttentionInv ==
  /\ Hooks!TypeOK /\ FileAsStore
  /\ \A s \in Sessions : WaitShown(s) /\ PinShown(s) /\ Deferral(s)

\* The store after a change: what it holds, and what a cut write leaves.
Stored(new) ==
  /\ up' \in BOOLEAN /\ torn' \in BOOLEAN
  /\ entry' = new /\ file' \in [Sessions -> Hooks!Entries]
  /\ FileAsStore' /\ (~torn' => up' /\ ~torn)

LEMMA AttentionStore ==
  ASSUME AttentionInv, up, NEW new \in [Sessions -> Hooks!Entries], Hooks!Store(new)
  PROVE  Stored(new)
<1>1. /\ ~torn /\ file = entry /\ NoEntries \in [Sessions -> Hooks!Entries]
      /\ up \in BOOLEAN /\ torn \in BOOLEAN /\ file \in [Sessions -> Hooks!Entries]
  BY DEF AttentionInv, FileAsStore, NoEntries, Hooks!Entries, Hooks!NoEntry, Hooks!TypeOK
<1>2. CASE new = entry
  BY <1>1, <1>2 DEF Hooks!Store, Stored, FileAsStore
<1>3. CASE new # entry
  BY <1>1, <1>3 DEF Hooks!Store, Stored, FileAsStore, NoEntries
<1>. QED  BY <1>2, <1>3

\* What handling an event of session s with the decision d does.
Heeded(s, d) ==
  /\ up' \in BOOLEAN /\ torn' \in BOOLEAN /\ FileAsStore' /\ (~torn' => up' /\ ~torn)
  /\ entry' \in [Sessions -> Hooks!Entries] /\ file' \in [Sessions -> Hooks!Entries]
  /\ deferred' \subseteq Sessions /\ byHand' \subseteq Sessions
  /\ \A q \in Sessions : entry'[q].urgent = entry[q].urgent
  /\ \A q \in Sessions \ {s} : /\ entry'[q].status = entry[q].status
                               /\ q \in deferred' <=> q \in deferred
                               /\ q \in byHand' <=> q \in byHand
  /\ d.status = None => entry'[s].status = entry[s].status /\ (s \in byHand' <=> s \in byHand)
  /\ d.status # None => entry'[s].status = d.status /\ s \notin byHand'
  /\ s \in deferred' <=> (d.deferral = "set" \/ (d.deferral = "keep" /\ s \in deferred))

LEMMA AttentionApply ==
  ASSUME AttentionConstants, AttentionInv, up, NEW s \in Sessions, NEW event, NEW kind, NEW d,
         d = Verdict(s, event, kind),
         d.status \in {None, "needs-feedback", "working"},
         d.deferral \in {"set", "clear", "keep"},
         Hooks!Apply(s, event, kind)
  PROVE  Heeded(s, d)
<1>1. /\ ~torn /\ entry \in [Sessions -> Hooks!Entries] /\ file \in [Sessions -> Hooks!Entries]
      /\ deferred \subseteq Sessions /\ byHand \subseteq Sessions
  BY DEF AttentionInv, FileAsStore, Hooks!TypeOK
<1>2. /\ deferred' \subseteq Sessions
      /\ \A q \in Sessions \ {s} : q \in deferred' <=> q \in deferred
      /\ s \in deferred' <=> (d.deferral = "set" \/ (d.deferral = "keep" /\ s \in deferred))
  BY <1>1 DEF Hooks!Apply, Verdict
<1>3. CASE d.status = None
  <2>1. UNCHANGED <<up, entry, file, byHand, torn>>
    BY <1>3 DEF Hooks!Apply, Verdict
  <2>2. up' \in BOOLEAN /\ torn' \in BOOLEAN /\ FileAsStore' /\ (~torn' => up' /\ ~torn)
    BY <1>1, <2>1 DEF AttentionInv, FileAsStore, Hooks!TypeOK, NoEntries
  <2>. QED  BY <1>1, <1>2, <1>3, <2>1, <2>2 DEF Heeded
<1>4. CASE d.status # None
  <2>. DEFINE new == Hooks!Set(s, d.status)
  <2>1. byHand' = byHand \ {s} /\ Hooks!Store(new)
    BY <1>4 DEF Hooks!Apply, Verdict
  <2>2. new \in [Sessions -> Hooks!Entries]
    BY <1>1, <1>4 DEF Hooks!Set, Hooks!Entries, Hooks!Statuses
  <2>3. /\ \A q \in Sessions : new[q].urgent = entry[q].urgent
        /\ \A q \in Sessions \ {s} : new[q].status = entry[q].status
        /\ new[s].status = d.status
    BY <1>1 DEF Hooks!Set, Hooks!Entries
  <2>. HIDE DEF new
  <2>4. Stored(new)
    BY <2>1, <2>2, AttentionStore
  <2>. QED  BY <1>1, <1>2, <1>4, <2>1, <2>2, <2>3, <2>4 DEF Heeded, Stored
<1>. QED  BY <1>3, <1>4

\* What Claude does and what is recorded of session q stay as they are.
Untouched(q) ==
  /\ phase'[q] = phase[q] /\ note'[q] = note[q]
  /\ q \in task' <=> q \in task
  /\ q \in idleDue' <=> q \in idleDue
  /\ q \in heard' <=> q \in heard
  /\ q \in blind' <=> q \in blind
  /\ q \in mislaid' <=> q \in mislaid

\* The variables of Claude and of the histories have their types after the step.
TypedAfter ==
  /\ phase' \in [Sessions -> Hooks!Phases]
  /\ note' \in [Sessions -> {None, "idle_prompt", "permission_prompt"}]
  /\ task' \subseteq Sessions /\ idleDue' \subseteq Sessions
  /\ heard' \subseteq Sessions /\ blind' \subseteq Sessions /\ mislaid' \subseteq Sessions
  /\ tardy' \in [Sessions -> Hooks!Posts \cup {None}]

Unheeded == UNCHANGED <<up, entry, file, deferred, byHand, torn>>

\* A step of one session has that session to answer for.
LEMMA AttentionOfOne ==
  ASSUME AttentionInv, NEW s \in Sessions, NEW d, Unheeded \/ (up /\ Heeded(s, d)),
         TypedAfter, pin' = pin, \A q \in Sessions \ {s} : Untouched(q),
         WaitShown(s)', Deferral(s)'
  PROVE  AttentionInv'
<1>1. Hooks!TypeOK' /\ FileAsStore' /\ (~torn' => ~torn)
  BY DEF AttentionInv, Unheeded, Heeded, TypedAfter, Hooks!TypeOK, FileAsStore, NoEntries
<1>2. ASSUME NEW q \in Sessions PROVE PinShown(q)'
  <2>1. entry'[q].urgent = entry[q].urgent
    BY DEF Unheeded, Heeded
  <2>2. ~torn' => (entry[q].urgent <=> q \in pin)
    BY <1>1 DEF AttentionInv, PinShown
  <2>. QED  BY <2>1, <2>2, Zenon DEF PinShown
<1>3. ASSUME NEW q \in Sessions \ {s} PROVE WaitShown(q)' /\ Deferral(q)'
  <2>1. /\ entry'[q].status = entry[q].status /\ (up' => up)
        /\ q \in deferred' <=> q \in deferred
        /\ q \in byHand' <=> q \in byHand
    BY DEF AttentionInv, Hooks!TypeOK, Unheeded, Heeded
  <2>2. Untouched(q) /\ WaitShown(q) /\ Deferral(q)
    BY DEF AttentionInv
  <2>. QED  BY <1>1, <2>1, <2>2 DEF Untouched, WaitShown, Deferral
<1>. QED  BY <1>1, <1>2, <1>3 DEF AttentionInv

\* Only a decision that says so raises "Needs you", and of a stopped session none
\* but a notification's does.
LEMMA AlarmOfOne ==
  ASSUME NEW s \in Sessions, NEW d, Unheeded \/ (up /\ Heeded(s, d)),
         phase[s] # "stopped" \/ d.status # "needs-feedback"
  PROVE  Hooks!AlarmHasCause
BY DEF Unheeded, Heeded, Hooks!AlarmHasCause

\* A post of Claude's own turn is handled in time or missed.
Answered(s, event, d, waits) ==
  /\ Unheeded \/ (up /\ Heeded(s, d))
  /\ s \in heard' => waits /\ up /\ Heeded(s, d)
  /\ event = "Stop" => (up /\ Heeded(s, d)) \/ (Unheeded /\ s \in blind' /\ s \in mislaid')
  /\ heard' \subseteq Sessions /\ blind' \subseteq Sessions /\ mislaid' \subseteq Sessions
  /\ tardy' \in [Sessions -> Hooks!Posts \cup {None}]
  /\ \A q \in Sessions \ {s} : /\ q \in heard' <=> q \in heard
                               /\ q \in blind' <=> q \in blind
                               /\ q \in mislaid' <=> q \in mislaid

LEMMA AttentionHook ==
  ASSUME AttentionConstants, AttentionInv, NEW s \in Sessions,
         NEW event \in {"Stop", "UserPromptSubmit", "ToolUse"},
         NEW kind \in {None, "task", "blocking"}, NEW d, NEW waits,
         d = Verdict(s, event, kind),
         d.status \in {None, "needs-feedback", "working"},
         d.deferral \in {"set", "clear", "keep"},
         Hooks!Hook(s, event, kind, waits)
  PROVE  Answered(s, event, d, waits)
<1>1. /\ heard \subseteq Sessions /\ blind \subseteq Sessions /\ mislaid \subseteq Sessions
      /\ tardy \in [Sessions -> Hooks!Posts \cup {None}]
  BY DEF AttentionInv, Hooks!TypeOK
<1>2. CASE Hooks!Handled(s, event, kind, waits)
  <2>1. up /\ Heeded(s, d)
    BY <1>2, AttentionApply DEF Hooks!Handled
  <2>. QED  BY <1>1, <1>2, <2>1 DEF Hooks!Handled, Hooks!Since, Answered
<1>3. CASE Hooks!Missed(s, event, kind)
  <2>1. Unheeded /\ heard' = heard \ {s}
    BY <1>3 DEF Hooks!Missed, Hooks!store, Unheeded
  <2>2. [event |-> event, kind |-> kind] \in Hooks!Posts
    BY DEF Hooks!Posts
  <2>3. tardy' \in [Sessions -> Hooks!Posts \cup {None}]
    BY <1>1, <1>3, <2>2 DEF Hooks!Missed
  <2>. QED  BY <1>1, <1>3, <2>1, <2>3 DEF Hooks!Missed, Hooks!Without, Answered
<1>. QED  BY <1>2, <1>3 DEF Hooks!Hook

\* The steps of a turn, each with its hook.
LEMMA AttentionTurn ==
  ASSUME AttentionConstants, AttentionInv, NEW s \in Sessions,
         Hooks!Prompt(s) \/ Hooks!Tool(s) \/ Hooks!Ask(s) \/ Hooks!Stop(s)
  PROVE  AttentionInv' /\ Hooks!AlarmHasCause
<1>. DEFINE Working == Hooks!Decision("working", "clear")
            StillWorking == Hooks!Decision("working", "keep")
            Deferred == Hooks!Decision(None, "set")
<1>1. /\ phase \in [Sessions -> Hooks!Phases] /\ task \subseteq Sessions
      /\ note \in [Sessions -> {None, "idle_prompt", "permission_prompt"}]
      /\ idleDue \subseteq Sessions /\ blind \subseteq Sessions /\ up \in BOOLEAN
  BY DEF AttentionInv, Hooks!TypeOK
<1>2. ~ up' => Deferral(s)'
  BY DEF Deferral
<1>3. s \notin heard' => WaitShown(s)'
  BY DEF WaitShown
<1>4. CASE Hooks!Prompt(s)
  <2>1. Working = Verdict(s, "UserPromptSubmit", None)
    BY DEF Verdict, Hooks!Decide
  <2>2. Working.status = "working" /\ Working.deferral = "clear"
    BY DEF Hooks!Decision
  <2>. HIDE DEF Working
  <2>3. Answered(s, "UserPromptSubmit", Working, FALSE)
    <3>1. Hooks!Hook(s, "UserPromptSubmit", None, FALSE)
      BY <1>4 DEF Hooks!Prompt
    <3>. QED  BY <2>1, <2>2, <3>1, AttentionHook
  <2>4. phase'[s] = "turn" /\ pin' = pin
    BY <1>1, <1>4 DEF Hooks!Prompt
  <2>5. TypedAfter /\ \A q \in Sessions \ {s} : Untouched(q)
    BY <1>1, <1>4, <2>3 DEF Hooks!Prompt, Answered, TypedAfter, Untouched, Hooks!Phases
  <2>6. Deferral(s)'
    BY <2>4 DEF Deferral
  <2>8. Hooks!AlarmHasCause
    BY <2>2, <2>3, AlarmOfOne DEF Answered
  <2>. QED  BY <1>3, <2>3, <2>4, <2>5, <2>6, <2>8, AttentionOfOne DEF Answered
<1>5. CASE Hooks!Tool(s)
  <2>1. StillWorking = Verdict(s, "ToolUse", None)
    BY DEF Verdict, Hooks!Decide, Hooks!OnToolUse, Hooks!Statuses, AttentionConstants
  <2>2. StillWorking.status = "working" /\ StillWorking.deferral = "keep"
    BY DEF Hooks!Decision
  <2>. HIDE DEF StillWorking
  <2>3. Answered(s, "ToolUse", StillWorking, FALSE)
    <3>1. Hooks!Hook(s, "ToolUse", None, FALSE)
      BY <1>5 DEF Hooks!Tool
    <3>. QED  BY <2>1, <2>2, <3>1, AttentionHook
  <2>4. phase'[s] = "turn" /\ pin' = pin
    BY <1>1, <1>5 DEF Hooks!Tool
  <2>5. TypedAfter /\ \A q \in Sessions \ {s} : Untouched(q)
    BY <1>1, <1>5, <2>3 DEF Hooks!Tool, Answered, TypedAfter, Untouched, Hooks!Phases
  <2>6. Deferral(s)'
    BY <2>4 DEF Deferral
  <2>8. Hooks!AlarmHasCause
    BY <2>2, <2>3, AlarmOfOne DEF Answered
  <2>. QED  BY <1>3, <2>3, <2>4, <2>5, <2>6, <2>8, AttentionOfOne DEF Answered
<1>6. CASE Hooks!Ask(s)
  <2>1. Hooks!NeedsYou = Verdict(s, "ToolUse", "blocking")
    BY DEF Verdict, Hooks!Decide, Hooks!OnToolUse
  <2>2. /\ Hooks!NeedsYou.status = "needs-feedback" /\ Hooks!NeedsYou.deferral = "clear"
        /\ Hooks!NeedsYou.status # None
    BY DEF Hooks!NeedsYou, Hooks!Decision, Hooks!Statuses, AttentionConstants
  <2>3. Answered(s, "ToolUse", Hooks!NeedsYou, TRUE)
    <3>1. Hooks!Hook(s, "ToolUse", "blocking", TRUE)
      BY <1>6 DEF Hooks!Ask
    <3>. QED  BY <2>1, <2>2, <3>1, AttentionHook
  <2>4. phase'[s] = "asking" /\ pin' = pin
    BY <1>1, <1>6 DEF Hooks!Ask
  <2>5. TypedAfter /\ \A q \in Sessions \ {s} : Untouched(q)
    BY <1>1, <1>6, <2>3 DEF Hooks!Ask, Answered, TypedAfter, Untouched, Hooks!Phases
  <2>6. Deferral(s)'
    BY <2>4 DEF Deferral
  <2>7. WaitShown(s)'
    BY <2>2, <2>3 DEF Answered, WaitShown, Heeded
  <2>8. Hooks!AlarmHasCause
    <3>1. phase[s] # "stopped"
      BY <1>6 DEF Hooks!Ask
    <3>. QED  BY <2>3, <3>1, AlarmOfOne DEF Answered
  <2>. QED  BY <2>3, <2>4, <2>5, <2>6, <2>7, <2>8, AttentionOfOne DEF Answered
<1>7. CASE Hooks!Stop(s)
  <2>. DEFINE d == IF s \in task THEN Deferred ELSE Hooks!NeedsYou
  <2>1. d = Verdict(s, "Stop", IF s \in task THEN "task" ELSE None)
    BY DEF Verdict, Hooks!Decide, Hooks!Statuses, AttentionConstants
  <2>2. /\ s \in task => d.status = None /\ d.deferral = "set"
        /\ s \notin task => d.status = "needs-feedback" /\ d.deferral = "clear"
        /\ s \notin task => d.status # None
    BY DEF Hooks!NeedsYou, Hooks!Decision, Hooks!Statuses, AttentionConstants
  <2>. HIDE DEF d
  <2>3. Answered(s, "Stop", d, TRUE)
    <3>1. Hooks!Hook(s, "Stop", IF s \in task THEN "task" ELSE None, TRUE)
      BY <1>7 DEF Hooks!Stop
    <3>. QED  BY <2>1, <2>2, <3>1, AttentionHook
  <2>4. task' = task /\ pin' = pin
    BY <1>7 DEF Hooks!Stop
  <2>5. TypedAfter /\ \A q \in Sessions \ {s} : Untouched(q)
    BY <1>1, <1>7, <2>3 DEF Hooks!Stop, Answered, TypedAfter, Untouched, Hooks!Phases
  <2>6. Deferral(s)'
    BY <2>2, <2>3, <2>4 DEF Answered, Deferral, Heeded, Unheeded
  <2>7. WaitShown(s)'
    <3>1. ASSUME s \in heard', s \notin task PROVE entry'[s].status = "needs-feedback"
      BY <2>2, <2>3, <3>1 DEF Answered, Heeded
    <3>2. phase'[s] = "stopped"
      BY <1>1, <1>7 DEF Hooks!Stop
    <3>. QED  BY <2>4, <3>1, <3>2 DEF WaitShown
  <2>8. Hooks!AlarmHasCause
    <3>1. phase[s] # "stopped"
      BY <1>7 DEF Hooks!Stop
    <3>. QED  BY <2>3, <3>1, AlarmOfOne DEF Answered
  <2>. QED  BY <2>3, <2>4, <2>5, <2>6, <2>7, <2>8, AttentionOfOne DEF Answered
<1>. QED  BY <1>4, <1>5, <1>6, <1>7

\* The steps of Claude and of its background work that the agent does not hear of.
LEMMA AttentionUnheard ==
  ASSUME AttentionConstants, AttentionInv, NEW s \in Sessions,
         \/ Hooks!AskPermission(s) \/ Hooks!SubagentAsksPermission(s)
         \/ Hooks!StartTask(s) \/ Hooks!TaskEnds(s) \/ Hooks!IdleNotice(s)
  PROVE  AttentionInv' /\ Hooks!AlarmHasCause
<1>1. /\ phase \in [Sessions -> Hooks!Phases] /\ task \subseteq Sessions
      /\ note \in [Sessions -> {None, "idle_prompt", "permission_prompt"}]
      /\ idleDue \subseteq Sessions /\ blind \subseteq Sessions /\ heard \subseteq Sessions
      /\ mislaid \subseteq Sessions /\ tardy \in [Sessions -> Hooks!Posts \cup {None}]
      /\ WaitShown(s) /\ Deferral(s)
  BY DEF AttentionInv, Hooks!TypeOK
<1>2. Unheeded /\ pin' = pin
  BY DEF Hooks!AskPermission, Hooks!SubagentAsksPermission, Hooks!StartTask,
     Hooks!TaskEnds, Hooks!IdleNotice, Unheeded, Hooks!store, Hooks!history
<1>3. TypedAfter /\ \A q \in Sessions \ {s} : Untouched(q)
  BY <1>1 DEF Hooks!AskPermission, Hooks!SubagentAsksPermission, Hooks!StartTask,
     Hooks!TaskEnds, Hooks!IdleNotice, TypedAfter, Untouched, Hooks!history, Hooks!Phases
<1>4. WaitShown(s)'
  BY <1>1, <1>2 DEF Hooks!AskPermission, Hooks!SubagentAsksPermission, Hooks!StartTask,
     Hooks!TaskEnds, Hooks!IdleNotice, Hooks!history, Hooks!Phases, WaitShown, Unheeded
<1>5. Deferral(s)'
  BY <1>1, <1>2 DEF Hooks!AskPermission, Hooks!SubagentAsksPermission, Hooks!StartTask,
     Hooks!TaskEnds, Hooks!IdleNotice, Hooks!history, Hooks!Phases, Deferral, Unheeded,
     AttentionConstants
<1>6. Hooks!AlarmHasCause
  BY <1>2 DEF Unheeded, Hooks!AlarmHasCause
<1>. QED  BY <1>2, <1>3, <1>4, <1>5, <1>6, AttentionOfOne

\* A tool call of a background subagent says nothing of the session.
LEMMA AttentionSubagent ==
  ASSUME AttentionConstants, AttentionInv, NEW s \in Sessions, Hooks!SubagentTool(s)
  PROVE  AttentionInv' /\ Hooks!AlarmHasCause
<1>. DEFINE d == Hooks!Decision(None, "keep")
<1>1. d = Verdict(s, "ToolUse", "subagent")
  BY DEF Verdict, Hooks!Decide, Hooks!OnToolUse
<1>2. d.status = None /\ d.deferral = "keep"
  BY DEF Hooks!Decision
<1>. HIDE DEF d
<1>3. Unheeded \/ (up /\ Heeded(s, d))
  BY <1>1, <1>2, AttentionApply DEF Hooks!SubagentTool, Unheeded, Hooks!store
<1>4. /\ phase \in [Sessions -> Hooks!Phases] /\ task \subseteq Sessions
      /\ note \in [Sessions -> {None, "idle_prompt", "permission_prompt"}]
      /\ idleDue \subseteq Sessions /\ blind \subseteq Sessions /\ heard \subseteq Sessions
      /\ mislaid \subseteq Sessions /\ tardy \in [Sessions -> Hooks!Posts \cup {None}]
      /\ WaitShown(s) /\ Deferral(s)
  BY DEF AttentionInv, Hooks!TypeOK
<1>5. UNCHANGED <<phase, task, idleDue, note, heard, pin, blind, tardy, mislaid>>
  BY DEF Hooks!SubagentTool, Hooks!claude
<1>6. TypedAfter /\ \A q \in Sessions \ {s} : Untouched(q)
  BY <1>4, <1>5 DEF TypedAfter, Untouched
<1>7. WaitShown(s)' /\ Deferral(s)'
  BY <1>2, <1>3, <1>4, <1>5 DEF Heeded, Unheeded, WaitShown, Deferral
<1>8. Hooks!AlarmHasCause
  BY <1>2, <1>3, AlarmOfOne DEF AttentionConstants, Hooks!Statuses
<1>. QED  BY <1>3, <1>5, <1>6, <1>7, <1>8, AttentionOfOne

\* A notification raises "Needs you", but for the idle notification of a Stop that
\* was deferred.
LEMMA AttentionNote ==
  ASSUME AttentionConstants, AttentionInv, NEW s \in Sessions, Hooks!NoteArrives(s)
  PROVE  AttentionInv' /\ Hooks!AlarmHasCause
<1>. DEFINE swallowed == note[s] = "idle_prompt" /\ s \in deferred
            d == IF swallowed THEN Hooks!Decision(None, "keep") ELSE Hooks!NeedsYou
<1>1. d = Verdict(s, "Notification", note[s])
  BY DEF Verdict, Hooks!Decide, Hooks!OnNotification
<1>2. /\ swallowed => d.status = None /\ d.deferral = "keep"
      /\ ~swallowed => d.status = "needs-feedback" /\ d.deferral = "clear"
      /\ ~swallowed => d.status # None
  BY DEF Hooks!NeedsYou, Hooks!Decision, Hooks!Statuses, AttentionConstants
<1>. HIDE DEF d
<1>3. up /\ Heeded(s, d)
  BY <1>1, <1>2, AttentionApply DEF Hooks!NoteArrives
<1>4. /\ phase \in [Sessions -> Hooks!Phases] /\ task \subseteq Sessions
      /\ note \in [Sessions -> {None, "idle_prompt", "permission_prompt"}]
      /\ idleDue \subseteq Sessions /\ blind \subseteq Sessions /\ heard \subseteq Sessions
      /\ mislaid \subseteq Sessions /\ tardy \in [Sessions -> Hooks!Posts \cup {None}]
      /\ WaitShown(s) /\ Deferral(s)
  BY DEF AttentionInv, Hooks!TypeOK
<1>5. /\ UNCHANGED <<phase, task, idleDue, pin, tardy, mislaid>> /\ note[s] # None
      /\ note' = [note EXCEPT ![s] = None]
      /\ blind' = IF note[s] = "permission_prompt" THEN blind \cup {s}
                  ELSE IF s \in idleDue THEN blind ELSE blind \ {s}
      /\ heard' = heard \/ heard' = heard \cup {s}
  BY <1>4 DEF Hooks!NoteArrives, Hooks!NoteOver
<1>7. TypedAfter /\ \A q \in Sessions \ {s} : Untouched(q)
  BY <1>4, <1>5 DEF TypedAfter, Untouched
<1>8. WaitShown(s)'
  <2>1. CASE ~swallowed
    BY <1>2, <1>3, <2>1 DEF Heeded, WaitShown
  <2>2. CASE swallowed
    <3>1. phase[s] = "stopped" /\ s \notin mislaid => s \in task
      BY <1>3, <1>4, <2>2 DEF Deferral
    <3>2. phase[s] # "stopped" \/ s \in mislaid => heard' = heard
      BY <2>2 DEF Hooks!NoteArrives, Hooks!Waits
    <3>3. /\ entry'[s].status = entry[s].status /\ (s \in byHand' <=> s \in byHand)
          /\ (~torn' => ~torn)
      BY <1>2, <1>3, <2>2 DEF Heeded
    <3>. QED  BY <1>4, <1>5, <3>1, <3>2, <3>3 DEF WaitShown
  <2>. QED  BY <2>1, <2>2
<1>9. up /\ up' /\ phase[s] = "stopped" /\ s \in deferred' => s \in task \cup mislaid
  BY <1>2, <1>3, <1>4 DEF Heeded, Deferral
<1>10. ASSUME up', phase[s] = "stopped", s \in task, s \notin blind', s \in idleDue
       PROVE  s \in deferred'
  <2>1. up /\ note[s] = "idle_prompt" /\ s \notin blind
    <3>1. up
      BY <1>3, <1>10 DEF Unheeded
    <3>2. note[s] # "permission_prompt"
      BY <1>5, <1>10
    <3>. QED  BY <1>4, <1>5, <1>10, <3>1, <3>2
  <2>2. s \in deferred
    BY <1>4, <1>10, <2>1 DEF Deferral
  <2>. QED  BY <1>2, <1>3, <2>1, <2>2 DEF Heeded
<1>11. Deferral(s)'
  BY <1>3, <1>4, <1>5, <1>9, <1>10 DEF Deferral, Unheeded, AttentionConstants
<1>12. AttentionInv'
  BY <1>3, <1>5, <1>7, <1>8, <1>11, AttentionOfOne
<1>13. ASSUME NEW q \in Sessions, phase[q] = "stopped", q \in task,
              entry[q].status # "needs-feedback", entry'[q].status = "needs-feedback"
       PROVE  q \in blind \/ note[q] = "permission_prompt"
  <2>1. up /\ q = s /\ ~swallowed
    BY <1>2, <1>3, <1>13 DEF Heeded, Unheeded
  <2>2. CASE note[s] = "idle_prompt"
    BY <1>4, <1>13, <2>1, <2>2 DEF Deferral
  <2>. QED  BY <1>4, <1>5, <2>1, <2>2
<1>. QED  BY <1>12, <1>13 DEF Hooks!AlarmHasCause

\* A notification that is lost leaves the agent as it was.
LEMMA AttentionNoteLost ==
  ASSUME AttentionConstants, AttentionInv, NEW s \in Sessions, Hooks!NoteLost(s)
  PROVE  AttentionInv' /\ Hooks!AlarmHasCause
<1>1. /\ phase \in [Sessions -> Hooks!Phases] /\ task \subseteq Sessions
      /\ note \in [Sessions -> {None, "idle_prompt", "permission_prompt"}]
      /\ idleDue \subseteq Sessions /\ blind \subseteq Sessions /\ heard \subseteq Sessions
      /\ mislaid \subseteq Sessions /\ tardy \in [Sessions -> Hooks!Posts \cup {None}]
      /\ WaitShown(s) /\ Deferral(s)
  BY DEF AttentionInv, Hooks!TypeOK
<1>2. /\ Unheeded /\ UNCHANGED <<phase, task, idleDue, heard, pin, tardy, mislaid>>
      /\ note' = [note EXCEPT ![s] = None] /\ note[s] # None
      /\ blind' = IF note[s] = "idle_prompt" /\ s \notin idleDue THEN blind \ {s} ELSE blind
  BY DEF Hooks!NoteLost, Hooks!NoteOver, Hooks!store, Unheeded
<1>3. TypedAfter /\ \A q \in Sessions \ {s} : Untouched(q)
  BY <1>1, <1>2 DEF TypedAfter, Untouched
<1>4. WaitShown(s)'
  BY <1>1, <1>2 DEF WaitShown, Unheeded
<1>5. Deferral(s)'
  BY <1>1, <1>2 DEF Deferral, Unheeded, AttentionConstants
<1>6. Hooks!AlarmHasCause
  BY <1>2 DEF Unheeded, Hooks!AlarmHasCause
<1>. QED  BY <1>2, <1>3, <1>4, <1>5, <1>6, AttentionOfOne

\* What a post handled late says may be over, and a Stop may defer what no longer runs.
LEMMA AttentionLate ==
  ASSUME AttentionConstants, AttentionInv, NEW s \in Sessions, Hooks!LateArrives(s)
  PROVE  AttentionInv' /\ Hooks!AlarmHasCause
<1>. DEFINE event == tardy[s].event
            kind == tardy[s].kind
            d == Verdict(s, event, kind)
<1>1. /\ phase \in [Sessions -> Hooks!Phases] /\ task \subseteq Sessions
      /\ note \in [Sessions -> {None, "idle_prompt", "permission_prompt"}]
      /\ idleDue \subseteq Sessions /\ blind \subseteq Sessions /\ heard \subseteq Sessions
      /\ mislaid \subseteq Sessions /\ tardy \in [Sessions -> Hooks!Posts \cup {None}]
      /\ WaitShown(s) /\ Deferral(s)
  BY DEF AttentionInv, Hooks!TypeOK
<1>2. /\ up /\ tardy[s] # None /\ tardy' = [tardy EXCEPT ![s] = None]
      /\ Hooks!Apply(s, event, kind) /\ heard' = heard \ {s} /\ blind' = blind \cup {s}
      /\ mislaid' = (IF event = "Stop" THEN mislaid \cup {s} ELSE mislaid)
      /\ UNCHANGED <<phase, task, idleDue, note, pin>>
  BY DEF Hooks!LateArrives, Hooks!Without, Hooks!claude
<1>3. event \in {"Stop", "UserPromptSubmit", "ToolUse"} /\ kind \in {None, "task", "blocking"}
  BY <1>1, <1>2 DEF Hooks!Posts
<1>4. /\ d.status \in {None, "needs-feedback", "working"}
      /\ d.deferral \in {"set", "clear", "keep"}
      /\ d.deferral = "set" => event = "Stop"
  <2>. HIDE DEF event, kind
  <2>1. CASE event = "Stop"
    BY <2>1 DEF Verdict, Hooks!Decide, Hooks!Decision, Hooks!NeedsYou
  <2>2. CASE event = "UserPromptSubmit"
    BY <2>2 DEF Verdict, Hooks!Decide, Hooks!Decision
  <2>3. CASE event = "ToolUse"
    BY <1>3, <2>3 DEF Verdict, Hooks!Decide, Hooks!OnToolUse, Hooks!Decision, Hooks!NeedsYou,
       AttentionConstants
  <2>. QED  BY <1>3, <2>1, <2>2, <2>3
<1>. HIDE DEF d, event, kind
<1>5. Heeded(s, d)
  BY <1>2, <1>4, AttentionApply DEF d
<1>6. TypedAfter /\ \A q \in Sessions \ {s} : Untouched(q)
  BY <1>1, <1>2 DEF TypedAfter, Untouched
<1>7. WaitShown(s)'
  BY <1>1, <1>2 DEF WaitShown
<1>8. Deferral(s)'
  BY <1>1, <1>2, <1>4, <1>5 DEF Deferral, Heeded
<1>9. Hooks!AlarmHasCause
  <2>1. tardy'[s] # tardy[s]
    BY <1>1, <1>2
  <2>2. \A q \in Sessions \ {s} : entry'[q].status = entry[q].status
    BY <1>5 DEF Heeded
  <2>. QED  BY <2>1, <2>2 DEF Hooks!AlarmHasCause
<1>. QED  BY <1>2, <1>5, <1>6, <1>7, <1>8, <1>9, AttentionOfOne

\* A user writes a status or a pin.
LEMMA AttentionUsers ==
  ASSUME AttentionConstants, AttentionInv, NEW s \in Sessions,
         \/ \E choice \in Choices : Hooks!SetStatus(s, choice)
         \/ \E urgent \in BOOLEAN : Hooks!SetUrgent(s, urgent)
  PROVE  AttentionInv' /\ Hooks!AlarmHasCause
<1>1. /\ entry \in [Sessions -> Hooks!Entries] /\ byHand \subseteq Sessions
      /\ pin \subseteq Sessions /\ file \in [Sessions -> Hooks!Entries]
  BY DEF AttentionInv, Hooks!TypeOK
<1>2. ASSUME NEW new \in [Sessions -> Hooks!Entries], Stored(new),
             up, UNCHANGED <<deferred, phase, task, idleDue, note, heard, blind, tardy, mislaid>>,
             byHand' \subseteq Sessions, byHand \subseteq byHand', pin' \subseteq Sessions,
             \A q \in Sessions : \/ new[q].status = entry[q].status
                                 \/ q \in byHand'
                                 \/ entry[q].status = None /\ new[q].status = "idle",
             \A q \in Sessions : ~torn => (new[q].urgent <=> q \in pin')
      PROVE  AttentionInv' /\ Hooks!AlarmHasCause
  <2>1. Hooks!TypeOK' /\ FileAsStore' /\ entry' = new /\ (~torn' => up' /\ ~torn)
    BY <1>2 DEF AttentionInv, Hooks!TypeOK, Stored
  <2>2. ASSUME NEW q \in Sessions PROVE WaitShown(q)'
    <3>1. WaitShown(q)
      BY DEF AttentionInv
    <3>. QED  BY <1>2, <2>1, <3>1 DEF WaitShown, AttentionConstants, Hooks!Statuses
  <2>3. ASSUME NEW q \in Sessions PROVE PinShown(q)'
    BY <1>2, <2>1, Zenon DEF PinShown
  <2>4. ASSUME NEW q \in Sessions PROVE Deferral(q)'
    <3>1. Deferral(q)
      BY DEF AttentionInv
    <3>. QED  BY <1>2, <3>1 DEF Deferral
  <2>5. Hooks!AlarmHasCause
    BY <1>2, <2>1 DEF Hooks!AlarmHasCause
  <2>. QED  BY <2>1, <2>2, <2>3, <2>4, <2>5 DEF AttentionInv
<1>3. ASSUME NEW choice \in Choices, Hooks!SetStatus(s, choice) PROVE AttentionInv' /\ Hooks!AlarmHasCause
  <2>. DEFINE new == Hooks!Set(s, choice)
  <2>1. /\ new \in [Sessions -> Hooks!Entries]
        /\ \A q \in Sessions \ {s} : new[q].status = entry[q].status
    BY <1>1 DEF Hooks!Set, Hooks!Entries, AttentionConstants
  <2>2. ASSUME NEW q \in Sessions PROVE new[q].urgent = entry[q].urgent
    BY <1>1 DEF Hooks!Set, Hooks!Entries
  <2>3. ASSUME NEW q \in Sessions, ~torn PROVE new[q].urgent <=> q \in pin'
    <3>1. (entry[q].urgent <=> q \in pin) /\ pin' = pin
      BY <1>3, <2>3 DEF AttentionInv, PinShown, Hooks!SetStatus
    <3>2. new[q].urgent = entry[q].urgent
      BY <2>2
    <3>. QED  BY <3>1, <3>2, Zenon
  <2>4. /\ UNCHANGED <<deferred, phase, task, idleDue, note, heard, blind, pin, tardy, mislaid>>
        /\ byHand' = byHand \cup {s} /\ up
    BY <1>3 DEF Hooks!SetStatus, Hooks!claude
  <2>5. CASE entry[s].status # choice
    <3>1. Hooks!Store(new)
      BY <1>3, <2>5 DEF Hooks!SetStatus
    <3>2. Stored(new)
      BY <2>1, <2>4, <3>1, AttentionStore
    <3>. HIDE DEF new
    <3>. QED  BY <1>1, <1>2, <2>1, <2>3, <2>4, <3>2
  <2>6. CASE entry[s].status = choice
    <3>1. UNCHANGED <<up, entry, file, torn>>
      BY <1>3, <2>6 DEF Hooks!SetStatus
    <3>2. Stored(entry)
      BY <1>1, <2>4, <3>1 DEF Stored, AttentionInv, FileAsStore, Hooks!TypeOK, NoEntries
    <3>3. \A q \in Sessions : ~torn => (entry[q].urgent <=> q \in pin')
      BY <2>4 DEF AttentionInv, PinShown
    <3>. QED  BY <1>1, <1>2, <2>4, <3>2, <3>3
  <2>. QED  BY <2>5, <2>6
<1>4. ASSUME NEW urgent \in BOOLEAN, Hooks!SetUrgent(s, urgent) PROVE AttentionInv' /\ Hooks!AlarmHasCause
  <2>. DEFINE new == Hooks!SetPin(s, urgent)
  <2>1. /\ UNCHANGED <<deferred, phase, task, idleDue, note, heard, blind, byHand, tardy, mislaid>>
        /\ pin' = (IF urgent THEN pin \cup {s} ELSE pin \ {s}) /\ up
        /\ Hooks!Store(new)
    BY <1>4 DEF Hooks!SetUrgent, Hooks!claude
  <2>2. /\ new \in [Sessions -> Hooks!Entries]
        /\ \A q \in Sessions : \/ new[q].status = entry[q].status
                               \/ entry[q].status = None /\ new[q].status = "idle"
    BY <1>1 DEF Hooks!SetPin, Hooks!Entries, Hooks!Statuses
  <2>3. new[s].urgent = urgent
    BY <1>1, Zenon DEF Hooks!SetPin, Hooks!Entries
  <2>4. ASSUME NEW q \in Sessions, q # s PROVE new[q] = entry[q]
    BY <1>1, <2>4 DEF Hooks!SetPin
  <2>5. ASSUME NEW q \in Sessions, ~torn PROVE new[q].urgent <=> q \in pin'
    <3>1. entry[q].urgent <=> q \in pin
      BY <2>5 DEF AttentionInv, PinShown
    <3>2. CASE q = s
      BY <2>1, <2>3, <3>2, Zenon
    <3>3. CASE q # s
      <4>1. new[q] = entry[q] /\ (q \in pin' <=> q \in pin)
        BY <1>1, <2>1, <2>4, <3>3
      <4>. QED  BY <3>1, <4>1, Zenon
    <3>. QED  BY <3>2, <3>3
  <2>6. Stored(new)
    BY <2>1, <2>2, AttentionStore
  <2>. HIDE DEF new
  <2>7. pin' \subseteq Sessions
    BY <1>1, <2>1
  <2>. QED  BY <1>1, <1>2, <2>1, <2>2, <2>5, <2>6, <2>7
<1>. QED  BY <1>3, <1>4

\* The agent dies and starts again with what the file holds, if it is whole.
LEMMA AttentionRestarts ==
  ASSUME AttentionConstants, AttentionInv, Hooks!Crash \/ Hooks!Restart
  PROVE  AttentionInv' /\ Hooks!AlarmHasCause
<1>1. /\ entry \in [Sessions -> Hooks!Entries] /\ file \in [Sessions -> Hooks!Entries]
      /\ pin \subseteq Sessions
  BY DEF AttentionInv, Hooks!TypeOK
<1>2. CASE Hooks!Crash
  <2>1. UNCHANGED <<entry, file, deferred, phase, task, idleDue, note, heard, byHand, pin,
                    blind, tardy, mislaid, torn>> /\ up' = FALSE
    BY <1>2 DEF Hooks!Crash, Hooks!claude, Hooks!history
  <2>. QED  BY <2>1 DEF AttentionInv, Hooks!TypeOK, FileAsStore, WaitShown, PinShown,
            Deferral, NoEntries, Hooks!AlarmHasCause
<1>3. CASE Hooks!Restart
  <2>1. /\ up' = TRUE /\ torn' = FALSE /\ entry' = file /\ deferred' = {}
        /\ blind' = Sessions /\ mislaid' = {} /\ tardy' = [q \in Sessions |-> None]
        /\ UNCHANGED <<file, phase, task, idleDue, note, byHand>>
        /\ torn => heard' = {} /\ pin' = {}
        /\ ~torn => heard' = heard /\ pin' = pin
    BY <1>3 DEF Hooks!Restart, Hooks!FreshDeferred, Hooks!claude
  <2>2. Hooks!TypeOK' /\ FileAsStore'
    BY <1>1, <2>1 DEF AttentionInv, Hooks!TypeOK, FileAsStore
  <2>3. ASSUME NEW q \in Sessions PROVE WaitShown(q)' /\ Deferral(q)'
    BY <2>1 DEF AttentionInv, FileAsStore, WaitShown, Deferral
  <2>4. ASSUME NEW q \in Sessions PROVE PinShown(q)'
    <3>1. CASE ~torn
      BY <2>1, <3>1 DEF AttentionInv, FileAsStore, PinShown
    <3>2. CASE torn
      <4>1. entry'[q].urgent = FALSE /\ q \notin pin'
        BY <2>1, <3>2 DEF AttentionInv, FileAsStore, NoEntries, Hooks!NoEntry
      <4>. QED  BY <4>1, Zenon DEF PinShown
    <3>. QED  BY <3>1, <3>2
  <2>5. ASSUME NEW q \in Sessions, entry[q].status # "needs-feedback",
               entry'[q].status = "needs-feedback"
        PROVE  FALSE
    BY <2>1, <2>5 DEF AttentionInv, FileAsStore, NoEntries, Hooks!NoEntry,
       AttentionConstants, Hooks!Statuses
  <2>. QED  BY <2>2, <2>3, <2>4, <2>5 DEF AttentionInv, Hooks!AlarmHasCause
<1>. QED  BY <1>2, <1>3

LEMMA AttentionStep ==
  AttentionConstants /\ AttentionInv /\ [Hooks!Next]_(Hooks!vars)
    => AttentionInv' /\ (Hooks!AlarmHasCause \/ UNCHANGED Hooks!vars)
<1>. SUFFICES ASSUME AttentionConstants, AttentionInv, [Hooks!Next]_(Hooks!vars)
              PROVE  AttentionInv' /\ (Hooks!AlarmHasCause \/ UNCHANGED Hooks!vars)
  OBVIOUS
<1>1. CASE UNCHANGED Hooks!vars
  <2>1. UNCHANGED <<up, entry, file, deferred, phase, task, idleDue, note, heard, byHand,
                    pin, blind, tardy, mislaid, torn>>
    BY <1>1 DEF Hooks!vars, Hooks!store, Hooks!claude, Hooks!history
  <2>2. AttentionInv'
    BY <2>1 DEF AttentionInv, Hooks!TypeOK, FileAsStore, NoEntries, WaitShown, PinShown,
       Deferral
  <2>. QED  BY <1>1, <2>2
<1>. QED  BY <1>1, AttentionTurn, AttentionUnheard, AttentionSubagent, AttentionNote,
          AttentionNoteLost, AttentionLate,
          AttentionUsers, AttentionRestarts DEF Hooks!Next

LEMMA AttentionInit == AttentionConstants /\ Hooks!Init => AttentionInv
<1>. SUFFICES ASSUME AttentionConstants, Hooks!Init PROVE AttentionInv
  OBVIOUS
<1>1. Hooks!TypeOK /\ FileAsStore
  BY DEF Hooks!Init, Hooks!TypeOK, Hooks!Entries, Hooks!NoEntry, Hooks!Phases, FileAsStore
<1>2. ASSUME NEW s \in Sessions PROVE WaitShown(s) /\ PinShown(s) /\ Deferral(s)
  <2>1. entry[s].urgent = FALSE /\ s \notin pin
    BY DEF Hooks!Init, Hooks!NoEntry
  <2>2. PinShown(s)
    BY <2>1, Zenon DEF PinShown
  <2>. QED  BY <2>2 DEF Hooks!Init, WaitShown, Deferral
<1>. QED  BY <1>1, <1>2 DEF AttentionInv

\* A wait the agent has heard of is shown until it is answered, the pin is the one
\* the users set, and "Needs you" is raised over background work only for a cause that
\* is named, for any sessions and whatever restarts and cut writes come in between
\* (attention-decision.ts, apply-hook-event.ts, file-status-store.ts).
THEOREM AttentionIsKept == AttentionConstants => (Spec => AttentionKept)
<1>. SUFFICES ASSUME AttentionConstants PROVE Spec => AttentionKept
  OBVIOUS
<1>. DEFINE Inv == part = "attention" => AttentionInv
<1>1. Init => Inv
  BY AttentionInit DEF Init
<1>2. part = "attention" /\ [Next]_vars => part' = part /\ [Hooks!Next]_(Hooks!vars)
  BY DEF Next, vars, attention, Hooks!vars, Hooks!store, Hooks!claude, Hooks!history
<1>3. Inv /\ [Next]_vars => Inv'
  <2>1. CASE part = "attention"
    BY <1>2, <2>1, AttentionStep
  <2>2. CASE part # "attention"
    BY <2>2 DEF Next, vars
  <2>. QED  BY <2>1, <2>2
<1>4. AttentionInv => /\ Hooks!TypeOK /\ Hooks!NeverMissed /\ Hooks!QuestionStaysShown
                      /\ Hooks!PinKept
  <2>. SUFFICES ASSUME AttentionInv PROVE Hooks!NeverMissed /\ Hooks!QuestionStaysShown
                                          /\ Hooks!PinKept
    BY DEF AttentionInv
  <2>1. \A s \in Sessions : WaitShown(s) /\ PinShown(s)
    BY DEF AttentionInv
  <2>2. heard \subseteq Sessions /\ (up => ~torn)
    BY DEF AttentionInv, Hooks!TypeOK, FileAsStore
  <2>3. Hooks!NeverMissed /\ Hooks!QuestionStaysShown
    BY <2>1, <2>2 DEF Hooks!NeverMissed, Hooks!QuestionStaysShown, WaitShown
  <2>4. Hooks!PinKept
    BY <2>1, <2>2, Zenon DEF Hooks!PinKept, PinShown
  <2>. QED  BY <2>3, <2>4
<1>5. Inv /\ [Next]_vars =>
        [part = "attention" => /\ Hooks!TypeOK' /\ Hooks!NeverMissed'
                               /\ Hooks!QuestionStaysShown' /\ Hooks!PinKept'
                               /\ Hooks!AlarmHasCause]_vars
  <2>. SUFFICES ASSUME AttentionInv, [Next]_vars, part = "attention", ~ UNCHANGED vars
                PROVE  /\ Hooks!TypeOK' /\ Hooks!NeverMissed' /\ Hooks!QuestionStaysShown'
                       /\ Hooks!PinKept' /\ Hooks!AlarmHasCause
    OBVIOUS
  <2>1. AttentionInv' /\ (Hooks!AlarmHasCause \/ UNCHANGED Hooks!vars)
    BY <1>2, AttentionStep
  <2>2. UNCHANGED Hooks!vars => Hooks!AlarmHasCause
    BY DEF Hooks!vars, Hooks!store, Hooks!AlarmHasCause
  <2>3. (AttentionInv => /\ Hooks!TypeOK /\ Hooks!NeverMissed /\ Hooks!QuestionStaysShown
                         /\ Hooks!PinKept)'
    BY <1>4, PTL
  <2>. QED  BY <2>1, <2>2, <2>3
<1>. QED  BY <1>1, <1>3, <1>5, PTL DEF Spec, AttentionKept

-----------------------------------------------------------------------------
(* Attached files *)

\* No file is named None.
UploadsConstants == None \notin Pastes /\ Last \in Nat

\* Where a file goes once its putFile is sent.
Slot(p) == <<target[p], try[p]>>

\* What a file relies on between two awaits: under way it has a workspace; a name
\* found free may since have been given to a file, but to none that was stored when
\* this one's putFile was handled; once stored there is a file under its name.
UnderWay(p) ==
  /\ upload[p] \in {"sent", "choosing", "writing", "stored"} => target[p] \in Twins
  /\ upload[p] = "writing" => files[Slot(p)] = None \/ files[Slot(p)] \notin seen[p]
  /\ upload[p] = "stored" => files[Slot(p)] # None
  /\ \A q \in seen[p] : upload[q] \in {"stored", "done"}

UploadsInv ==
  /\ Attach!TypeOK
  /\ \A p \in Pastes : UnderWay(p)
  /\ \A s \in Attach!Slots : files[s] # None => upload[files[s]] \in {"stored", "done"}
  /\ Attach!TypedAtHome

\* What the user does to the terminals moves no file.
LEMMA UploadsAround ==
  ASSUME UploadsInv,
         Attach!Leave \/ \E w \in Twins : Attach!Open(w) \/ Attach!WorkspaceEnds(w)
  PROVE  UploadsInv' /\ Attach!OlderFilesSurvive
<1>1. /\ UNCHANGED <<upload, from, target, try, files, seen, typed>>
      /\ active' \in Twins \cup {None} /\ alive' \subseteq Twins
  BY DEF UploadsInv, Attach!TypeOK, Attach!Open, Attach!WorkspaceEnds, Attach!Leave,
         Attach!paste
<1>2. Attach!TypeOK'
  BY <1>1 DEF UploadsInv, Attach!TypeOK
<1>3. \A p \in Pastes : UnderWay(p)'
  BY <1>1 DEF UploadsInv, UnderWay, Slot
<1>4. Attach!TypedAtHome' /\ Attach!OlderFilesSurvive
  BY <1>1 DEF UploadsInv, Attach!TypedAtHome, Attach!OlderFilesSurvive
<1>. QED  BY <1>1, <1>2, <1>3, <1>4 DEF UploadsInv

\* The phone's steps give a file a workspace, or give it up.
LEMMA UploadsPhone ==
  ASSUME UploadsInv,
         NEW p \in Pastes,
         Attach!Attach(p) \/ Attach!SendPutFile(p) \/ Attach!NotSent(p)
  PROVE  UploadsInv' /\ Attach!OlderFilesSurvive
<1>1. /\ upload' = [upload EXCEPT ![p] = upload'[p]]
      /\ upload[p] \in {"new", "reading"} /\ upload'[p] \in {"reading", "sent", "done"}
      /\ upload'[p] = "sent" => target'[p] \in Twins
      /\ \A q \in Pastes : q # p => target'[q] = target[q]
      /\ target' \in [Pastes -> Twins \cup {None}] /\ from' \in [Pastes -> Twins \cup {None}]
      /\ UNCHANGED <<active, alive, try, files, seen, typed>>
  BY DEF UploadsInv, Attach!TypeOK, Attach!Attach, Attach!SendPutFile, Attach!NotSent,
         Attach!Moves
<1>2. Attach!TypeOK'
  BY <1>1 DEF UploadsInv, Attach!TypeOK, Attach!Phases
<1>3. ASSUME NEW q \in Pastes PROVE UnderWay(q)'
  <2>1. \A r \in seen'[q] : r # p /\ upload'[r] \in {"stored", "done"}
    BY <1>1, <1>3 DEF UploadsInv, UnderWay, Attach!TypeOK
  <2>2. CASE q = p
    BY <1>1, <2>1, <2>2 DEF UploadsInv, UnderWay, Slot, Attach!TypeOK
  <2>3. CASE q # p
    BY <1>1, <2>1, <2>3 DEF UploadsInv, UnderWay, Slot, Attach!TypeOK
  <2>. QED  BY <2>2, <2>3
<1>4. \A s \in Attach!Slots : files'[s] # None => upload'[files'[s]] \in {"stored", "done"}
  BY <1>1 DEF UploadsInv, Attach!TypeOK
<1>5. Attach!TypedAtHome' /\ Attach!OlderFilesSurvive
  BY <1>1 DEF UploadsInv, Attach!TypedAtHome, Attach!OlderFilesSurvive
<1>. QED  BY <1>2, <1>3, <1>4, <1>5 DEF UploadsInv

\* Locating a file's workspace, or looking for a free name.
LEMMA UploadsPlace ==
  ASSUME UploadsConstants, UploadsInv,
         NEW p \in Pastes,
         Attach!Locate(p) \/ Attach!Exists(p)
  PROVE  UploadsInv' /\ Attach!OlderFilesSurvive
<1>1. /\ upload' = [upload EXCEPT ![p] = upload'[p]]
      /\ upload[p] \in {"sent", "choosing"} /\ upload'[p] \in {"choosing", "writing", "done"}
      /\ \A q \in Pastes : q # p => seen'[q] = seen[q] /\ try'[q] = try[q]
      /\ UNCHANGED <<active, alive, target, from, files, typed>>
  BY DEF UploadsInv, Attach!TypeOK, Attach!Locate, Attach!Exists, Attach!Moves
<1>2. \A s \in Attach!Slots : files[s] \in Pastes \cup {None}
  BY DEF UploadsInv, Attach!TypeOK
<1>3. /\ seen' \in [Pastes -> SUBSET Pastes]
      /\ seen'[p] = seen[p] \/ seen'[p] = {files[s] : s \in Attach!Slots} \ {None}
  BY <1>2 DEF UploadsInv, Attach!TypeOK, Attach!Locate, Attach!Exists
<1>4. try' \in [Pastes -> 0..Last]
  BY DEF UploadsConstants, UploadsInv, Attach!TypeOK, Attach!Locate, Attach!Exists
<1>5. upload'[p] = "writing" => files[Slot(p)] = None /\ try' = try
  BY DEF UploadsInv, Attach!TypeOK, Attach!Locate, Attach!Exists, Attach!Moves, Slot
<1>6. Attach!TypeOK'
  <2>1. upload' \in [Pastes -> Attach!Phases]
    BY <1>1 DEF UploadsInv, Attach!TypeOK, Attach!Phases
  <2>. QED  BY <1>1, <1>3, <1>4, <2>1 DEF UploadsInv, Attach!TypeOK
<1>7. \A q \in Pastes : upload[q] \in {"stored", "done"} => upload'[q] = upload[q]
  BY <1>1 DEF UploadsInv, Attach!TypeOK
<1>8. \A s \in Attach!Slots : files'[s] # None => upload'[files'[s]] \in {"stored", "done"}
  BY <1>1, <1>2, <1>7 DEF UploadsInv
<1>9. ASSUME NEW q \in Pastes PROVE UnderWay(q)'
  <2>1. \A r \in seen'[q] : upload'[r] \in {"stored", "done"}
    BY <1>1, <1>2, <1>3, <1>7 DEF UploadsInv, UnderWay, Attach!TypeOK
  <2>2. CASE q = p
    BY <1>1, <1>5, <2>1, <2>2 DEF UploadsInv, UnderWay, Slot
  <2>3. CASE q # p
    BY <1>1, <2>1, <2>3 DEF UploadsInv, UnderWay, Slot, Attach!TypeOK
  <2>. QED  BY <2>2, <2>3
<1>10. Attach!TypedAtHome' /\ Attach!OlderFilesSurvive
  BY <1>1 DEF UploadsInv, Attach!TypedAtHome, Attach!OlderFilesSurvive
<1>. QED  BY <1>6, <1>8, <1>9, <1>10 DEF UploadsInv

\* The write may replace a file, but none that was stored when this one came.
LEMMA UploadsWrite ==
  ASSUME UploadsConstants, UploadsInv,
         NEW p \in Pastes,
         Attach!WriteFile(p)
  PROVE  UploadsInv' /\ Attach!OlderFilesSurvive
<1>1. /\ upload' = [upload EXCEPT ![p] = "stored"] /\ upload[p] = "writing"
      /\ files' = [files EXCEPT ![Slot(p)] = p]
      /\ UNCHANGED <<active, alive, from, target, try, seen, typed>>
  BY DEF Attach!WriteFile, Attach!Moves, Slot
<1>2. Slot(p) \in Attach!Slots /\ p # None
  BY <1>1 DEF UploadsConstants, UploadsInv, UnderWay, Attach!TypeOK, Attach!Slots, Slot
<1>3. /\ files'[Slot(p)] = p
      /\ \A s \in Attach!Slots : s # Slot(p) => files'[s] = files[s]
      /\ files' \in [Attach!Slots -> Pastes \cup {None}]
  BY <1>1, <1>2 DEF UploadsInv, Attach!TypeOK
<1>4. upload'[p] = "stored" /\ \A q \in Pastes : q # p => upload'[q] = upload[q]
  BY <1>1 DEF UploadsInv, Attach!TypeOK
<1>5. Attach!TypeOK'
  BY <1>1, <1>3 DEF UploadsInv, Attach!TypeOK, Attach!Phases
<1>6. \A s \in Attach!Slots : files'[s] # None => upload'[files'[s]] \in {"stored", "done"}
  BY <1>3, <1>4 DEF UploadsInv, Attach!TypeOK
<1>7. ASSUME NEW q \in Pastes PROVE UnderWay(q)'
  <2>1. p \notin seen[q] /\ \A r \in seen[q] : upload'[r] \in {"stored", "done"}
    BY <1>1, <1>4 DEF UploadsInv, UnderWay, Attach!TypeOK
  <2>2. Slot(q)' = Slot(q)
    BY <1>1 DEF Slot
  <2>3. upload[q] \in {"sent", "choosing", "writing", "stored"} => Slot(q) \in Attach!Slots
    BY DEF UploadsInv, UnderWay, Attach!TypeOK, Attach!Slots, Slot
  <2>4. CASE q = p
    BY <1>1, <1>2, <1>3, <1>4, <2>1, <2>2, <2>4 DEF UploadsInv, UnderWay
  <2>5. CASE q # p /\ Slot(q) = Slot(p)
    BY <1>1, <1>2, <1>3, <1>4, <2>1, <2>2, <2>5 DEF UploadsInv, UnderWay
  <2>6. CASE q # p /\ Slot(q) # Slot(p)
    BY <1>1, <1>3, <1>4, <2>1, <2>2, <2>3, <2>6 DEF UploadsInv, UnderWay
  <2>. QED  BY <2>4, <2>5, <2>6
<1>8. Attach!TypedAtHome'
  <2>1. \A t \in typed : t[2] \in Attach!Slots
    BY DEF UploadsInv, Attach!TypeOK
  <2>. QED  BY <1>1, <1>2, <1>3, <2>1 DEF UploadsInv, Attach!TypedAtHome
<1>9. Attach!OlderFilesSurvive
  <2>. SUFFICES ASSUME NEW s \in Attach!Slots, files[s] # None, files'[s] # files[s]
                PROVE  files[s] \notin seen[files'[s]]
    BY DEF Attach!OlderFilesSurvive
  <2>. QED  BY <1>1, <1>3 DEF UploadsInv, UnderWay
<1>. QED  BY <1>5, <1>6, <1>7, <1>8, <1>9 DEF UploadsInv

\* The path of a stored file is typed in its own terminal.
LEMMA UploadsTyped ==
  ASSUME UploadsInv,
         NEW p \in Pastes,
         Attach!FileStored(p)
  PROVE  UploadsInv' /\ Attach!OlderFilesSurvive
<1>1. /\ upload' = [upload EXCEPT ![p] = "done"] /\ upload[p] = "stored"
      /\ typed' = typed \/ (/\ active = target[p]
                            /\ typed' = typed \cup {<<active, Slot(p)>>})
      /\ UNCHANGED <<active, alive, from, target, try, files, seen>>
  BY DEF Attach!FileStored, Attach!Moves, Slot
<1>2. target[p] \in Twins /\ Slot(p) \in Attach!Slots /\ files[Slot(p)] # None
  BY <1>1 DEF UploadsInv, UnderWay, Attach!TypeOK, Attach!Slots, Slot
<1>3. \A t \in typed' : \/ t \in typed
                        \/ t = <<target[p], Slot(p)>> /\ active = target[p]
  BY <1>1
<1>4. typed' \subseteq Twins \X Attach!Slots
  BY <1>2, <1>3 DEF UploadsInv, Attach!TypeOK
<1>5. Attach!TypeOK'
  BY <1>1, <1>4 DEF UploadsInv, Attach!TypeOK, Attach!Phases
<1>6. \A q \in Pastes : upload[q] \in {"stored", "done"} => upload'[q] \in {"stored", "done"}
  BY <1>1 DEF UploadsInv, Attach!TypeOK
<1>7. \A s \in Attach!Slots : files'[s] # None => upload'[files'[s]] \in {"stored", "done"}
  BY <1>1, <1>6 DEF UploadsInv, Attach!TypeOK
<1>8. ASSUME NEW q \in Pastes PROVE UnderWay(q)'
  <2>1. \A r \in seen'[q] : upload'[r] \in {"stored", "done"}
    BY <1>1, <1>6 DEF UploadsInv, UnderWay, Attach!TypeOK
  <2>. QED  BY <1>1, <2>1 DEF UploadsInv, UnderWay, Slot, Attach!TypeOK
<1>9. Attach!TypedAtHome'
  <2>1. Slot(p)[1] = target[p]
    BY DEF Slot
  <2>. QED  BY <1>1, <1>2, <1>3, <2>1 DEF UploadsInv, Attach!TypedAtHome
<1>10. Attach!OlderFilesSurvive
  BY <1>1 DEF Attach!OlderFilesSurvive
<1>. QED  BY <1>5, <1>7, <1>8, <1>9, <1>10 DEF UploadsInv

LEMMA UploadsStep ==
  UploadsConstants /\ UploadsInv /\ [Attach!Next]_(Attach!vars)
    => UploadsInv' /\ (Attach!OlderFilesSurvive)
<1>1. CASE UNCHANGED Attach!vars
  <2>1. UNCHANGED <<active, alive, upload, from, target, try, files, seen, typed>>
    BY <1>1 DEF Attach!vars, Attach!paste
  <2>2. UploadsInv => UploadsInv'
    BY <2>1 DEF UploadsInv, UnderWay, Slot, Attach!TypeOK, Attach!TypedAtHome
  <2>. QED  BY <2>1, <2>2 DEF Attach!OlderFilesSurvive
<1>2. CASE Attach!Next
  <2>1. CASE \E w \in Twins : Attach!Open(w) \/ Attach!WorkspaceEnds(w)
    BY <2>1, UploadsAround
  <2>2. CASE Attach!Leave
    BY <2>2, UploadsAround
  <2>3. CASE \E p \in Pastes : Attach!Attach(p) \/ Attach!SendPutFile(p) \/ Attach!NotSent(p)
    BY <2>3, UploadsPhone
  <2>4. CASE \E p \in Pastes : Attach!Locate(p) \/ Attach!Exists(p)
    BY <2>4, UploadsPlace
  <2>5. CASE \E p \in Pastes : Attach!WriteFile(p) \/ Attach!FileStored(p)
    BY <2>5, UploadsWrite, UploadsTyped
  <2>. QED  BY <1>2, <2>1, <2>2, <2>3, <2>4, <2>5 DEF Attach!Next
<1>. QED  BY <1>1, <1>2

LEMMA UploadsInit == UploadsConstants /\ Attach!Init => UploadsInv
BY DEF UploadsConstants, Attach!Init, UploadsInv, UnderWay, Slot, Attach!TypeOK,
       Attach!Phases, Attach!TypedAtHome

\* An attached file replaces none that was stored when its putFile was handled, and
\* its path is typed only in the terminal it is relative to, for any files and
\* workspaces and however the uploads interleave (store-pasted-file.ts,
\* store.svelte.ts).
THEOREM UploadsLandAlways == UploadsConstants => (Spec => UploadsLand)
<1>. SUFFICES ASSUME UploadsConstants PROVE Spec => UploadsLand
  OBVIOUS
<1>. DEFINE Inv == part = "uploads" => UploadsInv
<1>1. Init => Inv
  BY UploadsInit DEF Init
<1>2. part = "uploads" /\ [Next]_vars => part' = part /\ [Attach!Next]_(Attach!vars)
  BY DEF Next, vars, uploads, Attach!vars, Attach!paste
<1>3. Inv /\ [Next]_vars => Inv'
  <2>1. CASE part = "uploads"
    BY <1>2, <2>1, UploadsStep
  <2>2. CASE part # "uploads"
    BY <2>2 DEF Next, vars
  <2>. QED  BY <2>1, <2>2
<1>4. (UploadsInv => Attach!TypeOK /\ Attach!TypedAtHome)'
  BY DEF UploadsInv
<1>5. Inv /\ [Next]_vars =>
        [part = "uploads" => /\ Attach!OlderFilesSurvive
                             /\ Attach!TypeOK' /\ Attach!TypedAtHome']_vars
  BY <1>2, <1>4, UploadsStep
<1>. QED  BY <1>1, <1>3, <1>5, PTL DEF Spec, UploadsLand

-----------------------------------------------------------------------------
(* The listings *)

\* There is a name, and what stands for no workspace is no name and no entry.
ListingsConstants == Titles # {} /\ None \notin Titles \cup TwoListings!Entries

\* Only one listing is in flight at a time where two devices are watched.
OneListing == \E l : Listings = {l}

ListingsInv ==
  /\ part = "listings" => TwoListings!IInv
  /\ part = "devices" => TwoDevices!IInv /\ TwoDevices!SettledInv
  /\ part = "hiding" => Hiding!IInv

LEMMA ListingsAssumed ==
  ASSUME ListingsConstants
  PROVE  TwoListings!ConstantsOK /\ TwoDevices!ConstantsOK /\ Hiding!ConstantsOK
<1>1. TwoDevices!Entries = TwoListings!Entries /\ Hiding!Entries = TwoListings!Entries
  BY DEF TwoListings!Entries, TwoDevices!Entries, Hiding!Entries, TwoListings!Statuses,
         TwoDevices!Statuses, Hiding!Statuses
<1>. QED  BY <1>1 DEF ListingsConstants, TwoListings!ConstantsOK,
                      TwoDevices!ConstantsOK, Hiding!ConstantsOK

LEMMA ListingsInit == ListingsConstants /\ Init => ListingsInv
<1>. SUFFICES ASSUME ListingsConstants, Init PROVE ListingsInv
  OBVIOUS
<1>1. CASE part = "listings"
  BY <1>1, ListingsAssumed, TwoListings!InitInv DEF Init, ListingsInv
<1>2. CASE part = "devices"
  BY <1>2, ListingsAssumed, TwoDevices!InitInv DEF Init, ListingsInv
<1>3. CASE part = "hiding"
  BY <1>3, ListingsAssumed, Hiding!InitInv DEF Init, ListingsInv
<1>4. CASE part \notin {"listings", "devices", "hiding"}
  BY <1>4 DEF ListingsInv
<1>. QED  BY <1>1, <1>2, <1>3, <1>4

\* The instances take the same steps as their parts.
LEMMA ListingsSteps ==
  [Next]_vars =>
    /\ part' = part
    /\ part = "listings" => [TwoListings!Next]_(TwoListings!vars)
    /\ part = "devices" => [TwoDevices!Next]_(TwoDevices!vars)
    /\ part = "hiding" => [Hiding!Next]_(Hiding!vars)
<1>. SUFFICES ASSUME [Next]_vars
              PROVE  /\ part' = part
                     /\ part = "listings" => [TwoListings!Next]_(TwoListings!vars)
                     /\ part = "devices" => [TwoDevices!Next]_(TwoDevices!vars)
                     /\ part = "hiding" => [Hiding!Next]_(Hiding!vars)
  OBVIOUS
<1>1. part' = part
  BY DEF Next, vars
<1>2. CASE part = "listings"
  BY <1>1, <1>2 DEF Next, vars, announcements, TwoListings!vars
<1>3. CASE part = "devices"
  BY <1>1, <1>3 DEF Next, vars, announcements, TwoDevices!vars
<1>4. CASE part = "hiding"
  BY <1>1, <1>4 DEF Next, vars, announcements, Hiding!vars
<1>. QED  BY <1>1, <1>2, <1>3, <1>4

LEMMA TypedListingsStep ==
  ASSUME ListingsConstants, [Next]_vars
  PROVE  /\ part = "listings" /\ TwoListings!IInv => TwoListings!IInv'
         /\ part = "devices" /\ TwoDevices!IInv => TwoDevices!IInv'
         /\ part = "hiding" /\ Hiding!IInv => Hiding!IInv'
<1>1. CASE part = "listings"
  <2>1. [TwoListings!Next]_(TwoListings!vars)
    BY <1>1, ListingsSteps
  <2>. QED  BY <1>1, <2>1, ListingsAssumed, TwoListings!IInvStep
<1>2. CASE part = "devices"
  <2>1. [TwoDevices!Next]_(TwoDevices!vars)
    BY <1>2, ListingsSteps
  <2>. QED  BY <1>2, <2>1, ListingsAssumed, TwoDevices!IInvStep
<1>3. CASE part = "hiding"
  <2>1. [Hiding!Next]_(Hiding!vars)
    BY <1>3, ListingsSteps
  <2>. QED  BY <1>3, <2>1, ListingsAssumed, Hiding!IInvStep
<1>. QED  BY <1>1, <1>2, <1>3

\* Each workspace that is gone and still shown is on its way out or went unnoticed, for any
\* workspaces, devices and listings in flight; and while listings do not overlap, every
\* device ends up with the latest status of what it shows, late answers to its creates
\* excepted (ws-server.ts, pollTitles and broadcastWorkspace).
THEOREM ListingsSettleAlways ==
  ListingsConstants /\ OneListing => (Spec => []ListingsSettle)
<1>. SUFFICES ASSUME ListingsConstants, OneListing PROVE Spec => []ListingsSettle
  OBVIOUS
<1>1. Init => ListingsInv
  BY ListingsInit
<1>2. ListingsInv /\ [Next]_vars => ListingsInv'
  <2>. SUFFICES ASSUME ListingsInv, [Next]_vars PROVE ListingsInv'
    OBVIOUS
  <2>1. part' = part /\ (part = "devices" => [TwoDevices!Next]_(TwoDevices!vars))
    BY ListingsSteps
  <2>2. /\ part = "listings" => TwoListings!IInv'
        /\ part = "devices" => TwoDevices!IInv'
        /\ part = "hiding" => Hiding!IInv'
    BY TypedListingsStep DEF ListingsInv
  <2>3. part = "devices" => TwoDevices!SettledInv'
    <3>1. ASSUME part = "devices" PROVE TwoDevices!SettledInv'
      <4>1. PICK l \in Listings : Listings = {l}
        BY DEF OneListing
      <4>2. /\ TwoDevices!WorldInv /\ TwoDevices!ListsInv /\ TwoDevices!KnownInv /\ TwoDevices!CreatesInv
            /\ TwoDevices!SettledInv /\ TwoDevices!ConstantsOK
        BY <3>1, ListingsAssumed DEF ListingsInv, TwoDevices!IInv
      <4>. QED  BY <2>1, <3>1, <4>1, <4>2, TwoDevices!SettledStep
    <3>. QED  BY <3>1
  <2>. QED  BY <2>1, <2>2, <2>3 DEF ListingsInv
<1>3. ListingsInv => ListingsSettle
  BY TwoListings!IInvHolds, TwoDevices!IInvHolds, Hiding!IInvHolds, TwoDevices!SettledHolds
     DEF ListingsInv, ListingsSettle
<1>. QED  BY <1>1, <1>2, <1>3, PTL DEF Spec

\* The poll sweeps only what is gone or hidden, or what it missed in one of three ways,
\* however many listings overlap (pollTitles).
THEOREM SweepsOnlyTheMissedAlways == ListingsConstants => (Spec => SweepsOnlyTheMissed)
<1>. SUFFICES ASSUME ListingsConstants PROVE Spec => SweepsOnlyTheMissed
  OBVIOUS
<1>. DEFINE Inv == /\ part = "listings" => TwoListings!IInv
                   /\ part = "devices" => TwoDevices!IInv
                   /\ part = "hiding" => Hiding!IInv
<1>1. Init => Inv
  BY ListingsInit DEF ListingsInv
<1>2. Inv /\ [Next]_vars => Inv'
  BY TypedListingsStep, ListingsSteps
<1>3. Inv =>
        /\ part = "listings" => TwoListings!SweepsOnlyTheMissed
        /\ part = "devices" => TwoDevices!SweepsOnlyTheMissed
        /\ part = "hiding" => Hiding!SweepsOnlyTheMissed
  BY ListingsAssumed, TwoListings!SweepsOnly, TwoDevices!SweepsOnly, Hiding!SweepsOnly
     DEF TwoListings!IInv, TwoDevices!IInv, Hiding!IInv
<1>4. Inv => [/\ part = "listings" => TwoListings!SweepsOnlyTheMissed
              /\ part = "devices" => TwoDevices!SweepsOnlyTheMissed
              /\ part = "hiding" => Hiding!SweepsOnlyTheMissed]_vars
  BY <1>3
<1>. QED  BY <1>1, <1>2, <1>4, PTL DEF Spec, SweepsOnlyTheMissed
=================================================================================
