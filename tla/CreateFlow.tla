------------------------------- MODULE CreateFlow -------------------------------
(***************************************************************************)
(* The New-workspace form of the PWA (CreateWorkspace.svelte, the folder    *)
(* picker inside it and the store behind both) against one agent: a create  *)
(* is sent, and the store opens what it takes for the workspace it asked    *)
(* for when the agent reports it.  All workspaces modelled lie in the one   *)
(* folder of the form, so that only their ids tell them apart; a path the   *)
(* agent resolves to another spelling is the case canonical = FALSE.        *)
(***************************************************************************)
EXTENDS Naturals, Sequences, SequencesExt

CONSTANTS Ids,     \* workspace ids of the folder
          None,    \* no workspace, no pending create
          Wide,    \* TRUE: the list stays beside the open view (>= 980px)
          MaxMsgs  \* bound on the messages under way, each direction

VARIABLES maker,   \* id |-> who created it: "nobody", "old", "mine", "other"
          alive,   \* the sessions of the agent
          link,    \* "online" or "offline"
          up,      \* messages to the agent
          down,    \* messages to the client
          known,   \* store.workspaces
          listed,  \* the list has arrived since the link is online
          page,    \* store.view
          active,  \* id of store.active
          pending, \* store.pendingCreate
          picker,  \* store.pickerActive
          browsing,\* CreateWorkspace shows the folder picker
          unseen   \* an agent's error was put where the open view does not show it

agentVars == <<maker, alive>>
wire == <<link, up, down>>
form == <<pending, picker, browsing>>
vars == <<agentVars, wire, known, listed, page, active, form, unseen>>

Views == {"list", "create", "terminal"}
Requests == {"list", "create", "setStatus"}

TypeOK == /\ maker \in [Ids -> {"nobody", "old", "mine", "other"}]
          /\ alive \subseteq {w \in Ids : maker[w] # "nobody"} /\ known \subseteq Ids
          /\ link \in {"online", "offline"} /\ up \in Seq(Requests)
          /\ page \in Views /\ active \in Ids \cup {None}
          /\ pending = None \/ pending.existing \subseteq Ids
          /\ {listed, picker, browsing, unseen} \subseteq BOOLEAN

Init == /\ \E old \in SUBSET Ids :
             /\ maker = [w \in Ids |-> IF w \in old THEN "old" ELSE "nobody"]
             /\ alive = old
        /\ link = "offline" /\ up = <<>> /\ down = <<>> /\ known = {} /\ listed = FALSE
        /\ page = "list" /\ active = None /\ pending = None
        /\ picker = FALSE /\ browsing = FALSE /\ unseen = FALSE

\* manager.send: a message reaches the socket only while the link is online.
Send(m) == up' = IF link = "online" THEN Append(up, m) ELSE up
Reply(m) == down' = IF link = "online" THEN Append(down, m) ELSE down
Room(q) == Len(q) < MaxMsgs

(* Navigation.  Leaving the create page unmounts the form, and with it the   *)
(* picker's component, but nothing resets store.pickerActive.                *)
Show(p) == page' = p /\ browsing' = FALSE

GoCreate == /\ page \in {"list", "terminal"} /\ Show("create")
            /\ UNCHANGED <<agentVars, wire, known, listed, active, pending, picker, unseen>>

CancelCreate == /\ page = "create" /\ ~browsing
                /\ Show(IF active # None THEN "terminal" ELSE "list")
                /\ UNCHANGED <<agentVars, wire, known, listed, active, pending, picker, unseen>>

Open(w) == /\ w \in known /\ (page = "list" \/ Wide)
           /\ active' = w /\ Show("terminal")
           /\ UNCHANGED <<agentVars, wire, known, listed, pending, picker, unseen>>

Back == /\ page = "terminal" /\ active' = None /\ Show("list")
        /\ UNCHANGED <<agentVars, wire, known, listed, pending, picker, unseen>>

OpenPicker == /\ page = "create" /\ ~browsing /\ picker' = TRUE /\ browsing' = TRUE
              /\ UNCHANGED <<agentVars, wire, known, listed, page, active, pending, unseen>>

LeavePicker == /\ browsing /\ picker' = FALSE /\ browsing' = FALSE
               /\ UNCHANGED <<agentVars, wire, known, listed, page, active, pending, unseen>>

(* Only a machine that is online can be chosen in the form.                  *)
\* Faulty variant: the ids already there are not remembered.
RequestCreateBlind(canonical) ==
    /\ page = "create" /\ ~browsing /\ link = "online" /\ Room(up)
    /\ pending' = [existing |-> {}, canonical |-> canonical, listed |-> listed]
    /\ Send("create")
    /\ UNCHANGED <<agentVars, link, down, known, listed, page, active, picker, browsing, unseen>>

RequestCreate(canonical) ==
    /\ page = "create" /\ ~browsing /\ link = "online" /\ Room(up)
    /\ pending' = [existing |-> known, canonical |-> canonical, listed |-> listed]
    /\ Send("create")
    /\ UNCHANGED <<agentVars, link, down, known, listed, page, active, picker, browsing, unseen>>

\* Another request of the terminal page, which the agent may refuse.
SetStatus == /\ page = "terminal" /\ Room(up) /\ Send("setStatus")
             /\ UNCHANGED <<agentVars, link, down, known, listed, page, active, form, unseen>>

(* maybeOpenCreated, run on every change of the list.                        *)
Created(seen) == IF pending = None \/ ~pending.canonical THEN {} ELSE seen \ pending.existing

Settle(seen) ==
    /\ known' = seen /\ picker' = picker
    /\ \/ Created(seen) = {} /\ UNCHANGED <<page, active, pending, browsing>>
       \/ \E w \in Created(seen) :
            /\ pending' = None
            /\ IF page \in {"list", "create"}
               THEN active' = w /\ Show("terminal")
               ELSE UNCHANGED <<page, active, browsing>>

(* Where handleMessage puts an error, and where a page shows one.  The       *)
(* action error's banner is on every page.                                   *)
ErrorPlace == IF picker THEN "browse"
              ELSE IF page = "create" /\ pending # None THEN "form" ELSE "banner"
Shown(place) == \/ place = "banner"
                \/ place = "form" /\ page = "create" /\ ~browsing
                \/ place = "browse" /\ browsing

\* Faulty variant: every error of the create page is left to the form.
ReceiveErrorInForm ==
    /\ down # <<>> /\ Head(down).type = "error" /\ down' = Tail(down)
    /\ LET place == IF page = "create" THEN "form" ELSE ErrorPlace
       IN unseen' = (unseen \/ ~Shown(place))
    /\ pending' = IF page = "create" THEN None ELSE pending
    /\ UNCHANGED <<agentVars, link, up, known, listed, page, active, picker, browsing>>

ReceiveError ==
    /\ down # <<>> /\ Head(down).type = "error" /\ down' = Tail(down)
    /\ unseen' = (unseen \/ ~Shown(ErrorPlace))
    /\ pending' = IF ErrorPlace = "form" THEN None ELSE pending
    /\ UNCHANGED <<agentVars, link, up, known, listed, page, active, picker, browsing>>

ReceiveList == /\ down # <<>> /\ Head(down).type = "workspaces" /\ down' = Tail(down)
               /\ Settle(Head(down).ids) /\ listed' = TRUE
               /\ UNCHANGED <<agentVars, link, up, unseen>>

ReceiveUpdate == /\ down # <<>> /\ Head(down).type = "workspaceUpdated" /\ down' = Tail(down)
                 /\ Settle(known \cup Head(down).ids)
                 /\ UNCHANGED <<agentVars, link, up, listed, unseen>>

ReceiveClosed == /\ down # <<>> /\ Head(down).type = "closed" /\ down' = Tail(down)
                 /\ known' = known \ Head(down).ids
                 /\ IF active \in Head(down).ids THEN active' = None /\ Show("list")
                                                 ELSE UNCHANGED <<active, page, browsing>>
                 /\ UNCHANGED <<agentVars, link, up, listed, pending, picker, unseen>>

(* The link: its loss drops what is under way and the machine's rows.        *)
LinkDrops == /\ link = "online" /\ link' = "offline" /\ up' = <<>> /\ down' = <<>>
             /\ listed' = FALSE /\ Settle({}) /\ UNCHANGED <<agentVars, unseen>>

LinkReturns == /\ link = "offline" /\ link' = "online" /\ up' = <<"list">>
               /\ UNCHANGED <<agentVars, down, known, listed, page, active, form, unseen>>

(* The agent.  createWorkspace starts the session before it records the      *)
(* folder as recent, so an error may leave a session behind.                 *)
Message(t, ids) == [type |-> t, ids |-> ids]
client == <<known, listed, page, active, form, unseen>>

AgentLists == /\ up # <<>> /\ Head(up) = "list" /\ Room(down) /\ up' = Tail(up)
              /\ Reply(Message("workspaces", alive)) /\ UNCHANGED <<agentVars, link, client>>

AgentCreates == /\ up # <<>> /\ Head(up) = "create" /\ Room(down) /\ up' = Tail(up)
                /\ \/ \E w \in {i \in Ids : maker[i] = "nobody"} :
                        /\ maker' = [maker EXCEPT ![w] = "mine"] /\ alive' = alive \cup {w}
                        /\ \E m \in {Message("workspaceUpdated", {w}), Message("error", {})} : Reply(m)
                   \/ UNCHANGED agentVars /\ Reply(Message("error", {}))
                /\ UNCHANGED <<link, client>>

AgentSetsStatus == /\ up # <<>> /\ Head(up) = "setStatus" /\ Room(down) /\ up' = Tail(up)
                   /\ \/ Reply(Message("error", {}))
                      \/ \E w \in alive : Reply(Message("workspaceUpdated", {w}))
                      \/ UNCHANGED down
                   /\ UNCHANGED <<agentVars, link, client>>

OtherCreates(w) == /\ maker[w] = "nobody" /\ Room(down) /\ maker' = [maker EXCEPT ![w] = "other"]
                   /\ alive' = alive \cup {w} /\ Reply(Message("workspaceUpdated", {w}))
                   /\ UNCHANGED <<link, up, client>>

OtherCloses(w) == /\ w \in alive /\ Room(down) /\ alive' = alive \ {w}
                  /\ Reply(Message("closed", {w})) /\ UNCHANGED <<maker, link, up, client>>

Next == \/ GoCreate \/ CancelCreate \/ Back \/ OpenPicker \/ LeavePicker \/ SetStatus
        \/ \E w \in Ids : Open(w) \/ OtherCreates(w) \/ OtherCloses(w)
        \/ \E c \in BOOLEAN : RequestCreate(c)
        \/ ReceiveError \/ ReceiveList \/ ReceiveUpdate \/ ReceiveClosed
        \/ LinkDrops \/ LinkReturns \/ AgentLists \/ AgentCreates \/ AgentSetsStatus

Spec == Init /\ [][Next]_vars

(* What the store opens by itself is a workspace this device asked for, or   *)
(* one another device made in the same folder meanwhile; only a create sent  *)
(* before the first list arrived can open a workspace that was there all     *)
(* along (maybeOpenCreated, store.svelte.ts).                                *)
OpensOnlyTheNew ==
    (pending # None /\ pending' = None /\ active' # active)
      => (active' = None \/ maker[active'] # "old" \/ ~pending.listed)

(* An error of the agent is shown by the page it finds, unless an earlier
   leaving of the form left pickerActive set (handleMessage, store.svelte.ts). *)
ErrorsAreSeen == unseen' # unseen => (picker /\ ~browsing)

(* The comment on actionError: an agent's error is not dropped.              *)
NoErrorDropped == ~unseen

=============================================================================
