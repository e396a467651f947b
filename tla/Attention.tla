------------------------------- MODULE Attention -------------------------------
(***************************************************************************)
(* From Claude Code's hook events to the "Needs you" of a workspace: what  *)
(* Claude does in its session (external), the hook script that posts each  *)
(* event, attentionDecision with the in-memory set of deferred sessions,   *)
(* and the status store with its file.                                     *)
(*                                                                         *)
(* Claude waits for the hooks of its own turn, so event and handling are   *)
(* one step, unless the post is missed: the agent is down, or does not     *)
(* answer within the two seconds the script gives it and handles the post  *)
(* late (`tardy`) or never.  A Notification is not waited for: it is in    *)
(* flight in `note`.  Conversation ids are in Workspaces; the times of the *)
(* transitions are left out.                                               *)
(***************************************************************************)
EXTENDS Naturals, FiniteSets

CONSTANTS
  Sessions,  \* the tmux sessions Claude runs in
  Choices,   \* bound: the statuses users choose by hand
  None       \* no notification, no status

Statuses == {"needs-feedback", "working", "idle", "to-check", "parked"}

\* What Claude does: turn: it works; asking: it waits for an answer or a
\* permission within its turn; stopped: its turn has ended.
Phases == {"turn", "asking", "stopped"}

VARIABLES
  up,        \* the agent runs
  entry,     \* FileStatusStore.statuses
  file,      \* status.json
  deferred,  \* the deferred set: sessions that stopped on background work
  phase,     \* what Claude does in each session
  task,      \* background work runs in the session
  idleDue,   \* Claude's idle notification for the last Stop is still to come
  note,      \* the Notification in flight
  heard,     \* history: the agent has handled an event of the current wait
  byHand,    \* history: a user has chosen the status since
  pin,       \* history: the pin as users last set it
  tardy,     \* the post the script has given up on and the agent has yet to handle
  blind,     \* history: since its Stop the agent missed it, handled another post late,
             \* was down, or heard of a permission
  mislaid,   \* history: the agent missed the last Stop, and has not restarted since
  torn       \* history: a write of status.json was cut short

store == <<up, entry, file, deferred>>
claude == <<phase, task, idleDue, note>>
history == <<heard, byHand, pin, blind, mislaid, torn>>
vars == <<store, claude, tardy, history>>

Entries == [status : Statuses \cup {None}, urgent : BOOLEAN]
NoEntry == [status |-> None, urgent |-> FALSE]
Posts == [event : {"Stop", "UserPromptSubmit", "ToolUse"}, kind : {None, "task", "blocking"}]

TypeOK ==
  /\ up \in BOOLEAN /\ torn \in BOOLEAN
  /\ entry \in [Sessions -> Entries] /\ file \in [Sessions -> Entries]
  /\ deferred \subseteq Sessions /\ heard \subseteq Sessions
  /\ byHand \subseteq Sessions /\ pin \subseteq Sessions
  /\ blind \subseteq Sessions /\ mislaid \subseteq Sessions /\ task \subseteq Sessions
  /\ idleDue \subseteq Sessions
  /\ phase \in [Sessions -> Phases]
  /\ note \in [Sessions -> {None, "idle_prompt", "permission_prompt"}]
  /\ tardy \in [Sessions -> Posts \cup {None}]

Init ==
  /\ up = TRUE /\ torn = FALSE
  /\ entry = [s \in Sessions |-> NoEntry] /\ file = entry
  /\ deferred = {} /\ heard = {} /\ byHand = {} /\ pin = {} /\ blind = {}
  /\ mislaid = {} /\ tardy = [s \in Sessions |-> None]
  /\ task = {} /\ idleDue = {}
  /\ phase = [s \in Sessions |-> "stopped"]
  /\ note = [s \in Sessions |-> None]

-----------------------------------------------------------------------------
(* The status store *)

\* Faulty variant: a status change writes a fresh entry.
SetFresh(s, status) == [entry EXCEPT ![s] = [status |-> status, urgent |-> FALSE]]

\* set: the status alone changes; the pin is kept.
Set(s, status) == [entry EXCEPT ![s].status = status]

\* setUrgent: a workspace without an entry gets `idle` with its pin.
SetPin(s, urgent) ==
  IF entry[s].urgent = urgent THEN entry
  ELSE [entry EXCEPT ![s] = [status |-> IF @.status = None THEN "idle" ELSE @.status,
                             urgent |-> urgent]]

\* The listeners hear of the change, then all of it is written.  The agent may
\* die in the write, which leaves a file the next load takes for empty.
Store(new) ==
  /\ entry' = new
  /\ IF new = entry THEN UNCHANGED <<up, file, torn>>
     ELSE \/ file' = new /\ UNCHANGED <<up, torn>>
          \/ up' = FALSE /\ torn' = TRUE /\ file' = [s \in Sessions |-> NoEntry]

-----------------------------------------------------------------------------
(* Hook events *)

Decision(status, deferral) == [status |-> status, deferral |-> deferral]
NeedsYou == Decision("needs-feedback", "clear")

\* Faulty variant: the idle notification always gets through.
OnEveryNotification(kind, wasDeferred) == NeedsYou

\* Faulty variant: the type of the notification is taken for the status.
OnNotificationRaw(kind, wasDeferred) == Decision(kind, "clear")

\* The idle notification of a Stop with work in the background is swallowed.
OnNotification(kind, wasDeferred) ==
  IF kind = "idle_prompt" /\ wasDeferred THEN Decision(None, "keep") ELSE NeedsYou

\* Faulty variant: a subagent's tool call counts as its parent working.
OnAnyToolUse(kind) == IF kind = "blocking" THEN NeedsYou ELSE Decision("working", "keep")

\* A subagent's call says nothing about its parent.
OnToolUse(kind) ==
  CASE kind = "subagent" -> Decision(None, "keep")
    [] kind = "blocking" -> NeedsYou
    [] OTHER -> Decision("working", "keep")

\* attentionDecision.  `kind` is what the payload tells: a Stop with a running
\* task, the type of a notification, the caller or the tool of a tool call.
Decide(event, kind, wasDeferred) ==
  CASE event = "Stop" -> IF kind = "task" THEN Decision(None, "set") ELSE NeedsYou
    [] event = "Notification" -> OnNotification(kind, wasDeferred)
    [] event = "UserPromptSubmit" -> Decision("working", "clear")
    [] event = "ToolUse" -> OnToolUse(kind)

\* applyHookEvent.
Apply(s, event, kind) ==
  LET d == Decide(event, kind, s \in deferred) IN
  /\ deferred' = CASE d.deferral = "set" -> deferred \cup {s}
                   [] d.deferral = "clear" -> deferred \ {s}
                   [] OTHER -> deferred
  /\ IF d.status = None THEN UNCHANGED <<up, entry, file, byHand, torn>>
     ELSE byHand' = byHand \ {s} /\ Store(Set(s, d.status))

\* A Stop decides what the agent has missed since.
Since(s, event, missed) == IF event = "Stop" THEN missed \ {s} ELSE missed
Without(s, event, missed) == IF event = "Stop" THEN missed \cup {s} ELSE missed

\* The agent handles a post in time.  `waits`: Claude waits for its user after it.
Handled(s, event, kind, waits) ==
  /\ up
  /\ Apply(s, event, kind)
  /\ heard' = IF waits THEN heard \cup {s} ELSE heard \ {s}
  /\ blind' = Since(s, event, blind) /\ mislaid' = Since(s, event, mislaid)
  /\ UNCHANGED tardy

\* `curl -m 2 ... || true`: the post is lost, or the agent has it and is behind
\* (bound: one such post of a session at a time).
Missed(s, event, kind) ==
  /\ \/ UNCHANGED tardy
     \/ /\ up /\ tardy[s] = None
        /\ tardy' = [tardy EXCEPT ![s] = [event |-> event, kind |-> kind]]
  /\ heard' = heard \ {s}
  /\ blind' = Without(s, event, blind) /\ mislaid' = Without(s, event, mislaid)
  /\ UNCHANGED <<store, byHand, torn>>

\* The script posts an event of Claude's own turn.
Hook(s, event, kind, waits) == Handled(s, event, kind, waits) \/ Missed(s, event, kind)

\* The agent gets round to a post whose script has given up: what it says may be over.
LateArrives(s) ==
  /\ up /\ tardy[s] # None
  /\ tardy' = [tardy EXCEPT ![s] = None]
  /\ Apply(s, tardy[s].event, tardy[s].kind)
  /\ heard' = heard \ {s}
  /\ blind' = blind \cup {s} /\ mislaid' = Without(s, tardy[s].event, mislaid)
  /\ UNCHANGED <<claude, pin>>

-----------------------------------------------------------------------------
(* Claude in its session (external) *)

Prompt(s) ==
  /\ phase[s] = "stopped"
  /\ phase' = [phase EXCEPT ![s] = "turn"]
  /\ idleDue' = idleDue \ {s}
  /\ Hook(s, "UserPromptSubmit", None, FALSE)
  /\ UNCHANGED <<task, note, pin>>

\* A tool call of the turn, or the answer to what it asked.
Tool(s) ==
  /\ phase[s] # "stopped"
  /\ phase' = [phase EXCEPT ![s] = "turn"]
  /\ Hook(s, "ToolUse", None, FALSE)
  /\ UNCHANGED <<task, idleDue, note, pin>>

\* AskUserQuestion or ExitPlanMode.
Ask(s) ==
  /\ phase[s] = "turn"
  /\ phase' = [phase EXCEPT ![s] = "asking"]
  /\ Hook(s, "ToolUse", "blocking", TRUE)
  /\ UNCHANGED <<task, idleDue, note, pin>>

\* The turn needs a permission; the Notification is on its way.
AskPermission(s) ==
  /\ phase[s] = "turn" /\ note[s] = None
  /\ phase' = [phase EXCEPT ![s] = "asking"]
  /\ note' = [note EXCEPT ![s] = "permission_prompt"]
  /\ heard' = heard \ {s}
  /\ UNCHANGED <<store, tardy, task, idleDue, byHand, pin, blind, mislaid, torn>>

\* A background subagent needs one; its parent goes on.
SubagentAsksPermission(s) ==
  /\ s \in task /\ note[s] = None
  /\ note' = [note EXCEPT ![s] = "permission_prompt"]
  /\ UNCHANGED <<store, tardy, phase, task, idleDue, history>>

StartTask(s) ==
  /\ phase[s] = "turn" /\ task' = task \cup {s}
  /\ UNCHANGED <<store, tardy, phase, idleDue, note, history>>

\* A background subagent calls a tool, in the parent's session; it changes nothing,
\* early, late or lost.
SubagentTool(s) ==
  /\ s \in task
  /\ IF up THEN Apply(s, "ToolUse", "subagent") ELSE UNCHANGED <<store, byHand, torn>>
  /\ UNCHANGED <<claude, tardy, heard, pin, blind, mislaid>>

\* Background work ends, and Claude takes a turn on its result.
TaskEnds(s) ==
  /\ s \in task /\ task' = task \ {s}
  /\ phase' = [phase EXCEPT ![s] = IF @ = "stopped" THEN "turn" ELSE @]
  /\ idleDue' = idleDue \ {s}
  /\ heard' = IF phase[s] = "stopped" THEN heard \ {s} ELSE heard
  /\ UNCHANGED <<store, tardy, note, byHand, pin, blind, mislaid, torn>>

Stop(s) ==
  /\ phase[s] = "turn"
  /\ phase' = [phase EXCEPT ![s] = "stopped"]
  /\ idleDue' = idleDue \cup {s}
  /\ Hook(s, "Stop", IF s \in task THEN "task" ELSE None, TRUE)
  /\ UNCHANGED <<task, note, pin>>

\* A minute after the Stop, whatever still runs in the background.
IdleNotice(s) ==
  /\ s \in idleDue /\ note[s] = None
  /\ idleDue' = idleDue \ {s}
  /\ note' = [note EXCEPT ![s] = "idle_prompt"]
  /\ UNCHANGED <<store, tardy, phase, task, history>>

\* There is one idle notification to a Stop, so none is left for the deferral to hold back.
NoteOver(s) == IF note[s] = "idle_prompt" /\ s \notin idleDue THEN blind \ {s} ELSE blind

\* Claude waits still, and the agent did not miss the Stop that began it.
Waits(s) == IF note[s] = "idle_prompt" THEN phase[s] = "stopped" /\ s \notin mislaid
            ELSE phase[s] = "asking"

\* The Notification reaches the agent.
NoteArrives(s) ==
  /\ up /\ note[s] # None
  /\ note' = [note EXCEPT ![s] = None]
  /\ Apply(s, "Notification", note[s])
  /\ heard' = IF Waits(s) THEN heard \cup {s} ELSE heard
  /\ blind' = IF note[s] = "permission_prompt" THEN blind \cup {s} ELSE NoteOver(s)
  /\ UNCHANGED <<tardy, phase, task, idleDue, pin, mislaid>>

\* Or fails to.
NoteLost(s) ==
  /\ note[s] # None
  /\ note' = [note EXCEPT ![s] = None]
  /\ blind' = NoteOver(s)
  /\ UNCHANGED <<store, tardy, phase, task, idleDue, heard, byHand, pin, mislaid, torn>>

-----------------------------------------------------------------------------
(* Users, and the agent's life *)

SetStatus(s, status) ==
  /\ up
  /\ IF entry[s].status = status THEN UNCHANGED <<up, entry, file, torn>>
     ELSE Store(Set(s, status))
  /\ byHand' = byHand \cup {s}
  /\ UNCHANGED <<deferred, tardy, claude, heard, pin, blind, mislaid>>

SetUrgent(s, urgent) ==
  /\ up
  /\ pin' = IF urgent THEN pin \cup {s} ELSE pin \ {s}
  /\ Store(SetPin(s, urgent))
  /\ UNCHANGED <<deferred, tardy, claude, heard, byHand, blind, mislaid>>

Crash ==
  /\ up /\ up' = FALSE
  /\ UNCHANGED <<entry, file, deferred, tardy, claude, history>>

\* Faulty variant: the deferred set survives a restart.
RestartDeferred == deferred

\* A new WsServer starts with no session deferred.
FreshDeferred == {}

\* The store is loaded from the file; what was still to be handled is gone.
Restart ==
  /\ ~up /\ up' = TRUE
  /\ entry' = file /\ deferred' = FreshDeferred
  /\ tardy' = [s \in Sessions |-> None]
  /\ blind' = Sessions /\ mislaid' = {}
  /\ IF torn THEN heard' = {} /\ pin' = {} ELSE UNCHANGED <<heard, pin>>
  /\ torn' = FALSE
  /\ UNCHANGED <<file, claude, byHand>>

Next ==
  \/ \E s \in Sessions :
       \/ Prompt(s) \/ Tool(s) \/ Ask(s) \/ AskPermission(s) \/ StartTask(s)
       \/ SubagentTool(s) \/ SubagentAsksPermission(s) \/ TaskEnds(s) \/ Stop(s) \/ IdleNotice(s)
       \/ NoteArrives(s) \/ NoteLost(s) \/ LateArrives(s)
       \/ \E status \in Choices : SetStatus(s, status)
       \/ \E urgent \in BOOLEAN : SetUrgent(s, urgent)
  \/ Crash \/ Restart

Spec == Init /\ [][Next]_vars

-----------------------------------------------------------------------------
(* Properties *)

\* Claude has stopped with nothing running, and the agent has handled its Stop or, not
\* having missed it while up, the notification that follows it, and no older post since:
\* the workspace says "Needs you" unless a user chose otherwise.  Losing the deferred
\* set in a restart never costs one.
NeverMissed ==
  \A s \in heard : (up /\ phase[s] = "stopped" /\ s \notin task /\ s \notin byHand)
                     => entry[s].status = "needs-feedback"

\* False of the code: when a Stop that deferred is followed by one the agent missed
\* while up, the deferral is stale and the idle notification is swallowed, though
\* nothing runs (perch-hook.sh:21; attention-decision.ts).
IdleNoticeHeeded ==
  \A s \in Sessions :
       (/\ NoteArrives(s) /\ note[s] = "idle_prompt"
        /\ phase[s] = "stopped" /\ s \notin task)
       => s \in byHand' \/ entry'[s].status = "needs-feedback"

\* A question stays raised until it is answered, however many tools background
\* subagents call in the meantime.
QuestionStaysShown ==
  \A s \in heard : (up /\ phase[s] = "asking" /\ s \notin byHand)
                     => entry[s].status = "needs-feedback"

\* "Needs you" is raised over running background work only by a user, for a
\* permission, by a post handled late, or once after the deferral was lost: to a
\* restart, a missed Stop, a late post, or a permission asked for since the Stop.
AlarmHasCause ==
  \A s \in Sessions :
       (/\ phase[s] = "stopped" /\ s \in task
        /\ entry[s].status # "needs-feedback" /\ entry'[s].status = "needs-feedback"
        /\ s \notin byHand')
       => s \in blind \/ note[s] = "permission_prompt" \/ tardy'[s] # tardy[s]

\* The pin a user set is the pin shown, whatever events and restarts follow,
\* until a write of status.json is cut short.
PinKept == up => \A s \in Sessions : entry[s].urgent <=> s \in pin
================================================================================
