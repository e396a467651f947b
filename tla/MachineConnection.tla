--------------------------- MODULE MachineConnection ---------------------------
(***************************************************************************)
(* The PWA's link to one agent (core/machine-connection.ts): the current   *)
(* WebSocket, the connect deadline, the heartbeat, the backoff retry that  *)
(* cannot be cancelled and is disarmed by a generation counter, and the    *)
(* rules for giving up and for being told to try again.                    *)
(*                                                                         *)
(* The network opens, drops and silently kills sockets; a socket the code  *)
(* has closed still owes it a close event, which may come after the next   *)
(* socket is already in use.                                               *)
(***************************************************************************)
EXTENDS Integers, FiniteSets

CONSTANTS
  Socks,         \* WebSocket objects; one nothing refers to any more is reused
  None,          \* no socket
  MaxGen,        \* bound: how many times the generation is bumped
  MaxAttempts,   \* MAX_CONNECT_ATTEMPTS
  MaxBackoff,    \* doublings until MAX_BACKOFF_MS
  ReconnectIn,   \* the statuses in which the app calls reconnect()
  SilentAuth     \* may the path die between the open and the auth reply

ASSUME NoneIsNoSocket == None \notin Socks
ASSUME Bounds == /\ MaxGen \in Nat
                 /\ MaxAttempts \in Nat \ {0}
                 /\ MaxBackoff \in Nat
ASSUME Flags == ReconnectIn \subseteq {"offline", "connecting", "online"}
                /\ SilentAuth \in BOOLEAN

VARIABLES
  sock,          \* each socket as the browser knows it
  silent,        \* half-open sockets: no frame and no close event will come
  auth,          \* the handshake on each socket
  current,       \* this.socket
  opened,        \* this.opened, of the latest attempt
  deadlines,     \* sockets whose connect deadline is armed
  hb,            \* what the heartbeat timer waits for; "spent": fired, not re-armed;
                 \* "again": a reply, on a timer that took a running one's place
  pongSeen,      \* a frame came since the last ping
  generation,
  retries,       \* pending backoff timers: the generation and the socket that failed
  backoff,       \* doublings so far
  failCount,     \* saturates at MaxAttempts: only the comparison matters
  everConnected,
  rejected,
  closedByUser,
  status         \* the last onStatus

vars == <<sock, silent, auth, current, opened, deadlines, hb, pongSeen, generation,
          retries, backoff, failCount, everConnected, rejected, closedByUser, status>>

\* What the heartbeat timer may be when it waits for a reply.
ReplyTimers == {"reply", "again"}

net == <<silent, auth>>
chain == <<generation, retries, backoff, failCount, everConnected, rejected, closedByUser>>

TypeOK ==
  /\ sock \in [Socks -> {"unused", "connecting", "open", "closing", "closed"}]
  /\ silent \subseteq Socks
  /\ auth \in [Socks -> {"unsent", "sent", "answered"}]
  /\ current \in Socks \cup {None}
  /\ opened \in BOOLEAN
  /\ deadlines \subseteq Socks
  /\ hb \in {"none", "idle", "spent"} \cup ReplyTimers
  /\ pongSeen \in BOOLEAN
  /\ generation \in 0 .. MaxGen
  /\ retries \subseteq (0 .. MaxGen) \X Socks
  /\ backoff \in 0 .. MaxBackoff
  /\ failCount \in 0 .. MaxAttempts
  /\ everConnected \in BOOLEAN
  /\ rejected \in BOOLEAN
  /\ closedByUser \in BOOLEAN
  /\ status \in {"none", "connecting", "online", "offline"}

Init ==
  /\ sock = [s \in Socks |-> "unused"]
  /\ silent = {}
  /\ auth = [s \in Socks |-> "unsent"]
  /\ current = None
  /\ opened = FALSE
  /\ deadlines = {}
  /\ hb = "none"
  /\ pongSeen = FALSE
  /\ generation = 0
  /\ retries = {}
  /\ backoff = 0
  /\ failCount = 0
  /\ everConnected = FALSE
  /\ rejected = FALSE
  /\ closedByUser = FALSE
  /\ status = "none"

-----------------------------------------------------------------------------
(* Connecting *)

\* connect(): a new socket becomes the current one, with its deadline armed.
\* `socks` is the sockets' state once the caller has closed what it supersedes.
Connect(socks) ==
  \E s \in Socks :
    /\ socks[s] = "unused"
    /\ sock' = [socks EXCEPT ![s] = "connecting"]
    /\ auth' = [auth EXCEPT ![s] = "unsent"]
    /\ silent' = silent \ {s}
    /\ current' = s
    /\ opened' = FALSE
    /\ deadlines' = deadlines \cup {s}
    /\ hb' = "none"
    /\ status' = "connecting"

\* ConnectionManager.setMachines: a fresh object, connected at once.
Start ==
  /\ status = "none"
  /\ ~closedByUser
  /\ Connect(sock)
  /\ UNCHANGED <<pongSeen, chain>>

\* The open event.  A superseded socket's late open is ignored; the current
\* one's cancels the deadline and sends the token.
Opens(s) ==
  /\ sock[s] = "connecting"
  /\ sock' = [sock EXCEPT ![s] = "open"]
  /\ IF current = s
     THEN /\ deadlines' = deadlines \ {s}
          /\ opened' = TRUE
          /\ auth' = [auth EXCEPT ![s] = "sent"]
     ELSE UNCHANGED <<deadlines, opened, auth>>
  /\ UNCHANGED <<silent, current, hb, pongSeen, status, chain>>

\* Faulty variant: the deadline only records that it passed.
DeadlineFiresInVain(s) ==
  /\ s \in deadlines
  /\ deadlines' = deadlines \ {s}
  /\ UNCHANGED <<sock, net, current, opened, hb, pongSeen, status, chain>>

\* CONNECT_TIMEOUT_MS after connect().
DeadlineFires(s) ==
  /\ s \in deadlines
  /\ deadlines' = deadlines \ {s}
  /\ sock' = IF current = s /\ ~opened THEN [sock EXCEPT ![s] = "closing"] ELSE sock
  /\ UNCHANGED <<net, current, opened, hb, pongSeen, status, chain>>

-----------------------------------------------------------------------------
(* Frames from the agent *)

CanReceive(s) == sock[s] = "open" /\ s \notin silent

\* Faulty variant: the heartbeat is not started.
AuthAcceptedUnwatched(s) ==
  /\ CanReceive(s)
  /\ auth[s] = "sent"
  /\ current = s
  /\ auth' = [auth EXCEPT ![s] = "answered"]
  /\ pongSeen' = TRUE
  /\ backoff' = 0
  /\ failCount' = 0
  /\ everConnected' = TRUE
  /\ status' = "online"
  /\ UNCHANGED <<sock, silent, current, opened, deadlines, hb, generation, retries,
                 rejected, closedByUser>>

\* authResult ok: the link is up, its counters reset, its heartbeat started.
AuthAccepted(s) ==
  /\ CanReceive(s)
  /\ auth[s] = "sent"
  /\ current = s
  /\ auth' = [auth EXCEPT ![s] = "answered"]
  /\ pongSeen' = TRUE
  /\ backoff' = 0
  /\ failCount' = 0
  /\ everConnected' = TRUE
  /\ hb' = "idle"
  /\ status' = "online"
  /\ UNCHANGED <<sock, silent, current, opened, deadlines, generation, retries,
                 rejected, closedByUser>>

\* authResult not ok: reported, and no retry until someone reconnects.
AuthRejected(s) ==
  /\ CanReceive(s)
  /\ auth[s] = "sent"
  /\ current = s
  /\ auth' = [auth EXCEPT ![s] = "answered"]
  /\ pongSeen' = TRUE
  /\ rejected' = TRUE
  /\ status' = "offline"
  /\ sock' = [sock EXCEPT ![s] = "closing"]
  /\ UNCHANGED <<silent, current, opened, deadlines, hb, generation, retries, backoff,
                 failCount, everConnected, closedByUser>>

\* Any other frame, a pong included, is proof of life; one on a superseded
\* socket is dropped.
Frame(s) ==
  /\ CanReceive(s)
  /\ pongSeen' = (pongSeen \/ current = s)
  /\ UNCHANGED <<sock, net, current, opened, deadlines, hb, status, chain>>

-----------------------------------------------------------------------------
(* The end of a socket *)

\* Faulty variant: the doubling has no ceiling.
UncappedBackoff == backoff + 1

\* Math.min(backoff * 2, MAX_BACKOFF_MS)
NextBackoff == IF backoff < MaxBackoff THEN backoff + 1 ELSE backoff

\* Faulty variant: the give-up rule forgets that the machine has been reached.
GiveUpAlways == TRUE

\* MAX_CONNECT_ATTEMPTS applies only to a machine that has never connected.
MayGiveUp == ~everConnected

\* The close event, from the network or in answer to our own close().  For the
\* current socket: offline, and a retry unless this machine has never connected
\* and has used up its attempts.
Closes(s) ==
  LET tried == IF failCount < MaxAttempts THEN failCount + 1 ELSE failCount
      quiet == closedByUser \/ rejected
      giveUp == MayGiveUp /\ tried >= MaxAttempts
  IN /\ sock[s] = "closing" \/ (sock[s] \in {"connecting", "open"} /\ s \notin silent)
     /\ sock' = [sock EXCEPT ![s] = "closed"]
     /\ deadlines' = deadlines \ {s}
     /\ IF current # s
        THEN UNCHANGED <<current, hb, status, failCount, backoff, retries>>
        ELSE /\ current' = None
             /\ hb' = "none"
             /\ IF quiet
                THEN UNCHANGED <<status, failCount, backoff, retries>>
                ELSE /\ status' = "offline"
                     /\ failCount' = tried
                     /\ IF giveUp
                        THEN UNCHANGED <<backoff, retries>>
                        ELSE /\ retries' = retries \cup {<<generation, s>>}
                             /\ backoff' = NextBackoff
     /\ UNCHANGED <<net, opened, pongSeen, generation, everConnected, rejected,
                    closedByUser>>

\* Faulty variant: a retry from before a reconnect still connects.
RetryFiresAnyway(g, s) ==
  /\ <<g, s>> \in retries
  /\ retries' = retries \ {<<g, s>>}
  /\ ~closedByUser
  /\ Connect(sock)
  /\ UNCHANGED <<pongSeen, generation, backoff, failCount, everConnected, rejected,
                 closedByUser>>

\* The backoff timer: a no-op when its generation is not the current one.
RetryFires(g, s) ==
  /\ <<g, s>> \in retries
  /\ retries' = retries \ {<<g, s>>}
  /\ IF g = generation
     THEN Connect(sock)
     ELSE UNCHANGED <<sock, net, current, opened, deadlines, hb, status>>
  /\ UNCHANGED <<pongSeen, generation, backoff, failCount, everConnected, rejected,
                 closedByUser>>

-----------------------------------------------------------------------------
(* The heartbeat *)

\* HEARTBEAT_INTERVAL_MS of quiet: ping, and wait for any frame.
PingDue ==
  /\ hb = "idle"
  /\ hb' = "reply"
  /\ pongSeen' = FALSE
  /\ UNCHANGED <<sock, net, current, opened, deadlines, status, chain>>

\* Faulty variant: a missed reply re-arms the ping.
ReplyDueForgiving(t) ==
  /\ hb = t
  /\ hb' = "idle"
  /\ UNCHANGED <<sock, net, current, opened, deadlines, pongSeen, status, chain>>

\* HEARTBEAT_TIMEOUT_MS after the ping: alive, or closed by us.  `t` is the timer:
\* one that was cancelled never fires.
ReplyDue(t) ==
  /\ hb = t
  /\ IF pongSeen
     THEN hb' = "idle" /\ UNCHANGED sock
     ELSE hb' = "spent" /\ sock' = [sock EXCEPT ![current] = "closing"]
  /\ UNCHANGED <<net, current, opened, deadlines, pongSeen, status, chain>>

\* checkLiveness(), on return to the foreground: ping now.  The timer that runs is
\* cancelled, the reply deadline of an earlier ping included, and a new one armed.
CheckLiveness ==
  /\ current # None
  /\ hb # "none"
  /\ hb' = IF hb = "reply" THEN "again" ELSE "reply"
  /\ pongSeen' = FALSE
  /\ UNCHANGED <<sock, net, current, opened, deadlines, status, chain>>

-----------------------------------------------------------------------------
(* The app *)

Superseded == IF current = None THEN sock ELSE [sock EXCEPT ![current] = "closing"]

\* reconnect(): a new generation disarms pending retries, the old socket is
\* closed, and the counters start over.
Reconnect ==
  /\ status \in ReconnectIn
  /\ ~closedByUser
  /\ generation < MaxGen
  /\ generation' = generation + 1
  /\ rejected' = FALSE
  /\ failCount' = 0
  /\ backoff' = 0
  /\ Connect(Superseded)
  /\ UNCHANGED <<pongSeen, retries, everConnected, closedByUser>>

\* Faulty variant: close() leaves the generation as it is.
CloseSameGeneration ==
  /\ ~closedByUser
  /\ closedByUser' = TRUE
  /\ hb' = "none"
  /\ sock' = Superseded
  /\ current' = None
  /\ UNCHANGED <<net, opened, deadlines, pongSeen, generation, retries, backoff, failCount,
                 everConnected, rejected, status>>

\* close(): the machine was disabled, removed or its settings changed; the
\* object is dropped and no one calls it again.
Close ==
  /\ ~closedByUser
  /\ generation < MaxGen
  /\ generation' = generation + 1
  /\ closedByUser' = TRUE
  /\ hb' = "none"
  /\ sock' = Superseded
  /\ current' = None
  /\ UNCHANGED <<net, opened, deadlines, pongSeen, retries, backoff, failCount,
                 everConnected, rejected, status>>

-----------------------------------------------------------------------------
(* The network and the browser *)

\* The path dies under an open socket without a close.
GoesSilent(s) ==
  /\ sock[s] = "open"
  /\ auth[s] = "answered" \/ SilentAuth
  /\ silent' = silent \cup {s}
  /\ UNCHANGED <<sock, auth, current, opened, deadlines, hb, pongSeen, status, chain>>

\* A closed socket that no timer refers to is garbage: its name can be reused.
Collect(s) ==
  /\ sock[s] = "closed"
  /\ \A g \in 0 .. MaxGen : <<g, s>> \notin retries
  /\ sock' = [sock EXCEPT ![s] = "unused"]
  /\ UNCHANGED <<net, current, opened, deadlines, hb, pongSeen, status, chain>>

-----------------------------------------------------------------------------

Socket(s) ==
  \/ Opens(s) \/ DeadlineFires(s) \/ Closes(s)
  \/ AuthAccepted(s) \/ AuthRejected(s) \/ Frame(s)
  \/ GoesSilent(s) \/ Collect(s)
  \/ \E g \in 0 .. MaxGen : RetryFires(g, s)

Next ==
  \/ \E s \in Socks : Socket(s)
  \/ \E t \in ReplyTimers : ReplyDue(t)
  \/ Start \/ PingDue \/ CheckLiveness \/ Reconnect \/ Close

Spec == Init /\ [][Next]_vars

\* A timer fires unless it is cancelled first, which for the reply deadline every
\* checkLiveness() does: hence one condition per timer.  A socket we closed gets
\* its close event; an agent that can be heard answers `auth` (at once:
\* connection-handler.ts:121-129).  The network owes nothing else: a socket may
\* hang in CONNECTING for ever.
AuthAnswered(s) == AuthAccepted(s) \/ AuthRejected(s)
ClosingEnds(s) == sock[s] = "closing" /\ Closes(s)

Fairness ==
  /\ \A s \in Socks :
       /\ WF_vars(DeadlineFires(s))
       /\ WF_vars(ClosingEnds(s))
       /\ WF_vars(AuthAnswered(s))
       /\ WF_vars(Collect(s))
       /\ \A g \in 0 .. MaxGen : WF_vars(RetryFires(g, s))
  /\ WF_vars(PingDue)
  /\ \A t \in ReplyTimers : WF_vars(ReplyDue(t))

FairSpec == Spec /\ Fairness

-----------------------------------------------------------------------------
(* Properties *)

Armed == {t \in retries : t[1] = generation}

\* Connect chains never stack (machine-connection.ts:63-67): besides the current
\* socket there is neither an armed retry nor another socket left connecting or
\* open, and there is never a second armed retry.
OneChain ==
  /\ current # None => Armed = {}
  /\ \A t, u \in Armed : t = u
  /\ \A s \in Socks : sock[s] \in {"connecting", "open"} => s = current

\* A machine is never silently abandoned: with no current socket it is closed,
\* rejected, waiting on an armed retry, or given up on, and giving up is only for
\* a machine that never connected (machine-connection.ts:58-61, 137-142).
NeverStranded ==
  status # "none" /\ current = None =>
    \/ closedByUser \/ rejected \/ Armed # {}
    \/ ~everConnected /\ failCount = MaxAttempts

\* close() is final: no timer can resurrect the link afterwards.
ClosedForGood ==
  closedByUser => /\ current = None
                  /\ Armed = {}
                  /\ \A s \in Socks : sock[s] \notin {"connecting", "open"}

\* Online is never claimed of a link that is not authenticated and watched: the
\* heartbeat is running on the current socket, or has just condemned it.
OnlineIsWatched ==
  status = "online" /\ ~closedByUser =>
    /\ current # None /\ auth[current] = "answered"
    /\ hb \in {"idle"} \cup ReplyTimers \/ (hb = "spent" /\ sock[current] = "closing")

\* A half-open link does not stay online: the heartbeat finds out
\* (machine-connection.ts:40-45).  False of the code: returns to the foreground
\* within each other's ten seconds put the reply deadline off for ever.
AlwaysNoticed ==
  \A s \in Socks :
    (status = "online" /\ current = s /\ s \in silent)
      ~> (status # "online" \/ closedByUser)

\* checkLiveness() cancels a reply deadline that is running.
ReplyPutOff == hb \in ReplyTimers /\ CheckLiveness

\* A half-open link does not stay online (machine-connection.ts:40-45) unless the
\* app comes back to the foreground without end, each time while the reply to the
\* last ping is still waited for (175-180): any other use of checkLiveness(), before
\* a ping, after the verdict, or finitely often, delays the verdict and no more.
DeadLinkNoticed == []<><<ReplyPutOff>>_vars \/ AlwaysNoticed

\* "connecting" is a passing state (machine-connection.ts:31-33).
ConnectingSettles == (status = "connecting") ~> (status # "connecting" \/ closedByUser)

=============================================================================
