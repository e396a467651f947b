-------------------------------- MODULE Viewers --------------------------------
(***************************************************************************)
(* Terminal viewers inside one agent: the client connections, the pty each *)
(* attach spawns (`tmux attach-session`), the ConnectionHandler's single   *)
(* attachment, and the ViewerRegistry that makes a workspace's last        *)
(* attacher its only viewer.                                               *)
(*                                                                         *)
(* An attach awaits the unpark and ensureHyperlinks before it touches the  *)
(* pty, and nothing orders it against the connection's other messages or   *)
(* against its close: the wait is the set `pending`.                       *)
(***************************************************************************)
EXTENDS Naturals, FiniteSets

CONSTANTS
  Ids,    \* workspaces
  Conns,  \* connections; one that has closed never comes back
  Ptys,   \* bound: the ptys that can be spawned, each once
  None    \* no pty, no connection

ASSUME NoneIsNothing == None \notin Ids \cup Conns \cup Ptys

ConnStates == {"absent", "connected", "authed", "closed"}

\* running: alive; gone: the process ended, onExit not delivered yet;
\* terminated: the handler killed it, so onExit will be ignored; ended: onExit
\* was handled.
PtyStates == {"unspawned", "running", "gone", "terminated", "ended"}

VARIABLES
  conn,        \* state of each connection
  pending,     \* attach requests past their guards, still awaiting
  attachment,  \* ConnectionHandler.attachment of each connection
  pty,         \* state of each pty
  of,          \* connection and workspace each pty was spawned for
  holder,      \* ViewerRegistry.holders, a viewer named by its pty
  told,        \* the workspaces each client was told it is attached to
  overtaken    \* history: connections that closed while an attach was pending

vars == <<conn, pending, attachment, pty, of, holder, told, overtaken>>

Owner(p) == of[p][1]
Of(p) == of[p][2]

TypeOK ==
  /\ conn \in [Conns -> ConnStates]
  /\ pending \subseteq Conns \X Ids
  /\ attachment \in [Conns -> Ptys \cup {None}]
  /\ pty \in [Ptys -> PtyStates]
  /\ of \in [Ptys -> (Conns \cup {None}) \X (Ids \cup {None})]
  /\ holder \in [Ids -> Ptys \cup {None}]
  /\ told \in [Conns -> SUBSET Ids]
  /\ overtaken \subseteq Conns

Init ==
  /\ conn = [c \in Conns |-> "absent"]
  /\ pending = {}
  /\ attachment = [c \in Conns |-> None]
  /\ pty = [p \in Ptys |-> "unspawned"]
  /\ of = [p \in Ptys |-> <<None, None>>]
  /\ holder = [w \in Ids |-> None]
  /\ told = [c \in Conns |-> {}]
  /\ overtaken = {}

-----------------------------------------------------------------------------
(* Connections *)

\* The terminal socket is accepted and gets its handler.
Connect(c) ==
  /\ conn[c] = "absent"
  /\ conn' = [conn EXCEPT ![c] = "connected"]
  /\ UNCHANGED <<pending, attachment, pty, of, holder, told, overtaken>>

\* `auth` with the right token.
Authenticate(c) ==
  /\ conn[c] = "connected"
  /\ conn' = [conn EXCEPT ![c] = "authed"]
  /\ UNCHANGED <<pending, attachment, pty, of, holder, told, overtaken>>

\* ViewerRegistry.release: only the holder itself can let go.
Release(w, p) ==
  holder' = IF holder[w] = p THEN [holder EXCEPT ![w] = None] ELSE holder

\* Faulty variant: the socket's close leaves the attachment alone.
CloseKeepingAttachment(c) ==
  /\ conn[c] \in {"connected", "authed"}
  /\ conn' = [conn EXCEPT ![c] = "closed"]
  /\ overtaken' = IF \E w \in Ids : <<c, w>> \in pending
                  THEN overtaken \cup {c} ELSE overtaken
  /\ UNCHANGED <<pending, attachment, pty, of, holder, told>>

\* The socket's close event: onClose kills the pty and lets go of the workspace.
\* Nothing is sent any more.  A pending attach is not cancelled.
Close(c) ==
  LET p == attachment[c] IN
  /\ conn[c] \in {"connected", "authed"}
  /\ conn' = [conn EXCEPT ![c] = "closed"]
  /\ overtaken' = IF \E w \in Ids : <<c, w>> \in pending
                  THEN overtaken \cup {c} ELSE overtaken
  /\ IF p = None
     THEN UNCHANGED <<attachment, pty, holder>>
     ELSE /\ pty' = [pty EXCEPT ![p] = "terminated"]
          /\ Release(Of(p), p)
          /\ attachment' = [attachment EXCEPT ![c] = None]
  /\ UNCHANGED <<pending, of, told>>

-----------------------------------------------------------------------------
(* attach *)

\* An `attach` message passes the authed check and starts to wait.
AttachRequest(c, w) ==
  /\ conn[c] = "authed"
  /\ <<c, w>> \notin pending
  /\ pending' = pending \cup {<<c, w>>}
  /\ UNCHANGED <<conn, attachment, pty, of, holder, told, overtaken>>

\* The unpark found its directory missing, or failed: an error, no attach.
AttachRefused(c, w) ==
  /\ <<c, w>> \in pending
  /\ pending' = pending \ {<<c, w>>}
  /\ UNCHANGED <<conn, attachment, pty, of, holder, told, overtaken>>

\* Faulty variant: acquire overwrites the holder without detaching it.
EvictNobody(c, w, p) == None

\* The viewer ViewerRegistry.acquire must put out: w's holder, other than p,
\* unless teardownAttachment released it just before.  Its detach() is a no-op
\* when its handler has moved on to another session.
Evicted(c, w, p) ==
  LET h == IF holder[w] = attachment[c] THEN None ELSE holder[w]
  IN IF h # None /\ h # p /\ attachment[Owner(h)] = h THEN h ELSE None

\* Faulty variant: the detached message to the evicted client is forgotten.
TellOnlyNewcomer(view, c, gone, now) ==
  IF conn[c] = "authed" /\ now # {} THEN [view EXCEPT ![c] = (@ \ gone) \cup now]
  ELSE view

\* What a client hears: an open socket drops nothing, a closed one everything.
Tell(view, c, gone, now) ==
  IF conn[c] = "authed" THEN [view EXCEPT ![c] = (@ \ gone) \cup now] ELSE view

\* attach(), synchronous: tear down this connection's previous attachment, spawn
\* the pty, take the workspace over from its holder, and say `attached`.  It runs
\* even when the connection has closed during the wait.
AttachNow(c, w, p) ==
  LET old == attachment[c]
      out == Evicted(c, w, p)
      stopped == {old, out} \ {None}
      released == IF old # None /\ holder[Of(old)] = old
                  THEN [holder EXCEPT ![Of(old)] = None] ELSE holder
      left == IF old = None THEN {} ELSE {Of(old)}
      toldOut == IF out = None THEN told ELSE Tell(told, Owner(out), {w}, {})
  IN /\ <<c, w>> \in pending
     /\ pty[p] = "unspawned"
     /\ pending' = pending \ {<<c, w>>}
     /\ pty' = [q \in Ptys |-> IF q = p THEN "running"
                               ELSE IF q \in stopped THEN "terminated" ELSE pty[q]]
     /\ of' = [of EXCEPT ![p] = <<c, w>>]
     /\ holder' = [released EXCEPT ![w] = p]
     /\ attachment' = [d \in Conns |-> IF d = c THEN p
                                       ELSE IF out # None /\ d = Owner(out) THEN None
                                       ELSE attachment[d]]
     /\ told' = Tell(toldOut, c, left, {w})
     /\ UNCHANGED <<conn, overtaken>>

-----------------------------------------------------------------------------
(* The ways a view ends *)

\* `detach`, honoured only for the workspace that is attached.
Detach(c, w) ==
  LET p == attachment[c] IN
  /\ conn[c] = "authed"
  /\ p # None /\ Of(p) = w
  /\ pty' = [pty EXCEPT ![p] = "terminated"]
  /\ Release(w, p)
  /\ attachment' = [attachment EXCEPT ![c] = None]
  /\ told' = Tell(told, c, {w}, {})
  /\ UNCHANGED <<conn, pending, of, overtaken>>

\* The `tmux attach` process ends on its own: its session was killed, or tmux
\* died.  The handler hears of it later.
PtyEnds(p) ==
  /\ pty[p] = "running"
  /\ pty' = [pty EXCEPT ![p] = "gone"]
  /\ UNCHANGED <<conn, pending, attachment, of, holder, told, overtaken>>

\* onExit of a pty the handler has not terminated itself.
OnExit(p) ==
  LET c == Owner(p) IN
  /\ pty[p] = "gone"
  /\ pty' = [pty EXCEPT ![p] = "ended"]
  /\ attachment' = [attachment EXCEPT ![c] = IF @ = p THEN None ELSE @]
  /\ Release(Of(p), p)
  /\ told' = Tell(told, c, {Of(p)}, {})
  /\ UNCHANGED <<conn, pending, of, overtaken>>

-----------------------------------------------------------------------------

Next ==
  \/ \E c \in Conns : Connect(c) \/ Authenticate(c) \/ Close(c)
  \/ \E c \in Conns, w \in Ids :
       \/ AttachRequest(c, w) \/ AttachRefused(c, w) \/ Detach(c, w)
       \/ \E p \in Ptys : AttachNow(c, w, p)
  \/ \E p \in Ptys : PtyEnds(p) \/ OnExit(p)

Spec == Init /\ [][Next]_vars

-----------------------------------------------------------------------------
(* Properties *)

\* Not yet seen to end: its output still reaches its client.
Alive(p) == pty[p] \in {"running", "gone"}

\* Two devices never drive one workspace: at most one pty per workspace is alive,
\* and the registry knows it (viewer-registry.ts:8-14), whatever closes, exits
\* and overlapping attaches have come before.
OneViewer ==
  /\ \A p, q \in Ptys : Alive(p) /\ Alive(q) /\ Of(p) = Of(q) => p = q
  /\ \A p \in Ptys : Alive(p) => holder[Of(p)] = p

\* A client always knows its view: the last messages an open connection was sent
\* say it is attached to w exactly when its handler is (connection-handler.ts:437-487),
\* through evictions, exits and re-attaches.
ClientKnows ==
  \A c \in Conns : conn[c] = "authed" =>
    told[c] = IF attachment[c] = None THEN {} ELSE {Of(attachment[c])}

\* No pty outlives its viewer: every one that is alive is the attachment of a
\* connection that is open, or that closed with an attach still waiting.
NoStrayPty ==
  \A p \in Ptys : Alive(p) =>
    /\ attachment[Owner(p)] = p
    /\ conn[Owner(p)] = "authed" \/ Owner(p) \in overtaken

\* What connection-handler.test.ts:959 calls "tears down the pty when the
\* connection closes", for any close: a closed connection holds no pty.  Refuted:
\* an attach still awaiting its unpark attaches after the close.
ClosedHoldsNothing ==
  \A c \in Conns : conn[c] = "closed" => attachment[c] = None

\* The viewer of each workspace: the owner of its live pty.
View == [w \in Ids |->
  IF \E p \in Ptys : Alive(p) /\ Of(p) = w
  THEN Owner(CHOOSE p \in Ptys : Alive(p) /\ Of(p) = w) ELSE None]

Lock == INSTANCE ViewerLock WITH viewer <- View

\* The handlers and the registry implement the abstract lock: every step takes
\* one workspace over, ends one view, or changes no view at all.
ImplementsLock == Lock!Spec

=============================================================================
