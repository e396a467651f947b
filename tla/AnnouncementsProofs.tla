-------------------------- MODULE AnnouncementsProofs --------------------------
(***************************************************************************)
(* Proofs about Announcements, for any workspaces, devices and listings in *)
(* flight: a workspace that is gone is on its way off every screen, the    *)
(* poll sweeps only what it missed, and with one listing at a time every   *)
(* device ends up with the latest status.                                  *)
(***************************************************************************)
EXTENDS Announcements, TLAPS

ConstantsOK == Names # {} /\ Absent \notin Names \cup Entries

-----------------------------------------------------------------------------
(* The invariant *)

InFlight == [kind : Kinds, about : Ids \cup Clients \cup {Absent}, step : Steps,
             seen : [Ids -> Entries \cup {Absent}], hide : SUBSET Ids, moved : SUBSET Ids]

\* What there is: nothing is said of a workspace before it is created, and each step of a
\* park, unpark or close finds the record or the session its last one left.
WorldTypes ==
  /\ tmux \subseteq Ids /\ minted \subseteq Ids /\ hidden \subseteq Ids
  /\ title \in [Ids -> Names] /\ status \in [Ids -> Statuses] /\ move \in [Ids -> Stages]
  /\ parked \in [Ids -> Names \cup {Absent}] /\ snapshot \in [Ids -> Names \cup {Absent}]

Moving(w) ==
  /\ move[w] = "add" => snapshot[w] # Absent
  /\ move[w] \in {"kill", "label", "remove"} => parked[w] # Absent
  /\ move[w] = "closeKill" => parked[w] = Absent
  /\ move[w] = "closeSay" => parked[w] = Absent /\ w \notin tmux

Unborn(w) ==
  /\ w \notin tmux /\ parked[w] = Absent /\ snapshot[w] = Absent
  /\ status[w] = "idle" /\ move[w] = "none"

WorldInv == /\ WorldTypes
            /\ \A w \in Ids : Moving(w) /\ (w \notin minted => Unborn(w))

\* What is read of it: a listing that is ready has a status on every entry.
ListsInv ==
  /\ lst \in [Listings -> InFlight]
  /\ \A l \in Listings : /\ lst[l].step \in {"stamped", "tail"} =>
                              \A w \in Ids : lst[l].seen[w] # Absent
                                               => lst[l].seen[w].status \in Statuses
                         /\ \A w \in Ids : lst[l].seen[w] # Absent => w \in minted
                         /\ lst[l].kind = "list" => lst[l].about \in online
                         /\ lst[l].step = "tail" => lst[l].kind = "tick"

\* What is known of it: nothing is shown on a device that is not connected.
KnownInv ==
  /\ known \in [Ids -> Names \cup {Absent}] /\ online \subseteq Clients
  /\ view \in [Clients -> [Ids -> [status : Statuses, name : Names] \cup {Absent}]]
  /\ unwatched \subseteq Ids /\ late \subseteq Ids
  /\ \A w \in Ids : known[w] # Absent => w \in minted
  /\ \A c \in Clients, w \in Ids : view[c][w] # Absent => w \in minted /\ c \in online

\* A create still to be answered is that of a device that is connected.
CreatesInv ==
  /\ creating \in [Ids -> Clients \cup {Absent}] /\ outdated \in [Clients -> SUBSET Ids]
  /\ \A w \in Ids : creating[w] # Absent => w \in minted /\ creating[w] \in online

\* What a tick has not seen of a workspace the poll knows is gone, or came back after it
\* was looked for: between the two reads it has to have been without a session.
MissedInv == \A l \in Listings, w \in Ids :
  lst[l].kind = "tick" /\ known[w] # Absent /\ lst[l].seen[w] = Absent =>
    /\ lst[l].step = "sessions" => w \notin tmux \/ w \in lst[l].moved
    /\ lst[l].step \in {"records", "stamped", "tail"} => w \in Gone \cup lst[l].moved

\* A ghost is known to the poll, being closed, or excused.
DoomedInv == \A c \in Clients, w \in Ids :
  Ghost(c, w) => \/ known[w] # Absent \/ w \in unwatched \cup late
                 \/ move[w] \in {"closeRecord", "closeKill", "closeSay"}

IInv == WorldInv /\ ListsInv /\ KnownInv /\ CreatesInv /\ MissedInv /\ DoomedInv

-----------------------------------------------------------------------------
(* What there is *)

LEMMA MoveEffect ==
  ASSUME WorldTypes, NEW w \in Ids, NEW from \in Stages, NEW to \in Stages,
         Moves(w, from, to)
  PROVE  /\ move' \in [Ids -> Stages] /\ move[w] = from /\ move'[w] = to
         /\ \A v \in Ids : v # w => move'[v] = move[v]
BY DEF WorldTypes, Moves

LEMMA ParkWorld ==
  ASSUME ConstantsOK, WorldInv, KnownInv, NEW w \in Ids,
         \/ \E restorable \in BOOLEAN : Park(w, restorable)
         \/ ParkAdd(w) \/ ParkKill(w) \/ \E l \in Listings : ParkLabel(l, w)
  PROVE  WorldInv'
<1>. USE DEF Stages
<1>1. ASSUME NEW restorable \in BOOLEAN, Park(w, restorable) PROVE WorldInv'
  <2>1. /\ move' \in [Ids -> Stages] /\ move[w] = "none"
        /\ move'[w] = IF restorable THEN "add" ELSE "none"
        /\ \A v \in Ids : v # w => move'[v] = move[v]
    BY <1>1, MoveEffect DEF Park, WorldInv
  <2>2. SnapshotName(w) \in Names
    BY DEF SnapshotName, KnownInv, WorldInv, WorldTypes
  <2>3. w \in minted
    BY <1>1 DEF Park, KnownInv, WorldInv, Unborn
  <2>4. UNCHANGED <<tmux, title, parked, status, hidden, minted>>
    BY <1>1 DEF Park, others
  <2>5. /\ snapshot' \in [Ids -> Names \cup {Absent}]
        /\ restorable => snapshot'[w] # Absent
        /\ \A v \in Ids : v # w => snapshot'[v] = snapshot[v]
    BY <1>1, <2>2 DEF Park, WorldInv, WorldTypes, ConstantsOK
  <2>. QED  BY <2>1, <2>3, <2>4, <2>5 DEF WorldInv, WorldTypes, Moving, Unborn
<1>2. CASE ParkAdd(w)
  <2>1. /\ move' \in [Ids -> Stages] /\ move[w] = "add" /\ move'[w] = "kill"
        /\ \A v \in Ids : v # w => move'[v] = move[v]
    BY <1>2, MoveEffect DEF ParkAdd, WorldInv
  <2>2. UNCHANGED <<tmux, title, status, hidden, minted>>
    BY <1>2 DEF ParkAdd, others
  <2>3. w \in minted /\ snapshot[w] # Absent
    BY <2>1 DEF WorldInv, Moving, Unborn
  <2>4. /\ parked' \in [Ids -> Names \cup {Absent}] /\ parked'[w] # Absent
        /\ snapshot' \in [Ids -> Names \cup {Absent}]
        /\ \A v \in Ids : v # w => snapshot'[v] = snapshot[v] /\ parked'[v] = parked[v]
    BY <1>2, <2>3 DEF ParkAdd, WorldInv, WorldTypes
  <2>. QED  BY <2>1, <2>2, <2>3, <2>4 DEF WorldInv, WorldTypes, Moving, Unborn
<1>3. CASE ParkKill(w)
  <2>1. /\ move' \in [Ids -> Stages] /\ move[w] = "kill" /\ move'[w] = "label"
        /\ \A v \in Ids : v # w => move'[v] = move[v]
    BY <1>3, MoveEffect DEF ParkKill, WorldInv
  <2>2. UNCHANGED <<title, parked, snapshot, status, hidden, minted>> /\ tmux' = tmux \ {w}
    BY <1>3 DEF ParkKill, others, names
  <2>. QED  BY <2>1, <2>2 DEF WorldInv, WorldTypes, Moving, Unborn
<1>4. ASSUME NEW l \in Listings, ParkLabel(l, w) PROVE WorldInv'
  <2>1. /\ move' \in [Ids -> Stages] /\ move[w] = "label" /\ move'[w] = "none"
        /\ \A v \in Ids : v # w => move'[v] = move[v]
    BY <1>4, MoveEffect DEF ParkLabel, WorldInv
  <2>2. UNCHANGED <<tmux, title, parked, snapshot, hidden, minted>>
    BY <1>4 DEF ParkLabel, others, names
  <2>3. /\ status' \in [Ids -> Statuses]
        /\ \A v \in Ids : v # w => status'[v] = status[v]
    BY <1>4 DEF ParkLabel, SetStatus, WorldInv, WorldTypes, Statuses
  <2>. QED  BY <2>1, <2>2, <2>3 DEF WorldInv, WorldTypes, Moving, Unborn
<1>. QED  BY <1>1, <1>2, <1>3, <1>4

LEMMA UnparkWorld ==
  ASSUME WorldInv, NEW w \in Ids,
         Unpark(w) \/ UnparkRemove(w) \/ \E l \in Listings : UnparkLabel(l, w)
  PROVE  WorldInv'
<1>. USE DEF Stages
<1>1. CASE Unpark(w)
  <2>1. /\ move' \in [Ids -> Stages] /\ move[w] = "none" /\ move'[w] = "remove"
        /\ \A v \in Ids : v # w => move'[v] = move[v]
    BY <1>1, MoveEffect DEF Unpark, WorldInv
  <2>2. UNCHANGED <<title, parked, snapshot, status, hidden, minted>> /\ tmux' = tmux \cup {w}
    BY <1>1 DEF Unpark, others, names
  <2>3. parked[w] # Absent /\ w \in minted
    BY <1>1 DEF Unpark, WorldInv, Unborn
  <2>. QED  BY <2>1, <2>2, <2>3 DEF WorldInv, WorldTypes, Moving, Unborn
<1>2. CASE UnparkRemove(w)
  <2>1. /\ move' \in [Ids -> Stages] /\ move[w] = "remove" /\ move'[w] = "relabel"
        /\ \A v \in Ids : v # w => move'[v] = move[v]
    BY <1>2, MoveEffect DEF UnparkRemove, WorldInv
  <2>2. UNCHANGED <<tmux, title, snapshot, status, hidden, minted>>
    BY <1>2 DEF UnparkRemove, others
  <2>3. /\ parked' \in [Ids -> Names \cup {Absent}] /\ parked'[w] = Absent
        /\ \A v \in Ids : v # w => parked'[v] = parked[v]
    BY <1>2 DEF UnparkRemove, WorldInv, WorldTypes
  <2>. QED  BY <2>1, <2>2, <2>3 DEF WorldInv, WorldTypes, Moving, Unborn
<1>3. ASSUME NEW l \in Listings, UnparkLabel(l, w) PROVE WorldInv'
  <2>1. /\ move' \in [Ids -> Stages] /\ move[w] = "relabel" /\ move'[w] = "none"
        /\ \A v \in Ids : v # w => move'[v] = move[v]
    BY <1>3, MoveEffect DEF UnparkLabel, WorldInv
  <2>2. UNCHANGED <<tmux, title, parked, snapshot, hidden, minted>>
    BY <1>3 DEF UnparkLabel, others, names
  <2>3. /\ status' \in [Ids -> Statuses]
        /\ \A v \in Ids : v # w => status'[v] = status[v]
    BY <1>3 DEF UnparkLabel, SetStatus, WorldInv, WorldTypes, Statuses
  <2>. QED  BY <2>1, <2>2, <2>3 DEF WorldInv, WorldTypes, Moving, Unborn
<1>. QED  BY <1>1, <1>2, <1>3

LEMMA CloseWorld ==
  ASSUME WorldInv, KnownInv, NEW w \in Ids,
         Close(w) \/ CloseRecord(w) \/ CloseKill(w) \/ CloseSay(w)
  PROVE  WorldInv'
<1>. USE DEF Stages
<1>1. CASE Close(w)
  <2>1. /\ move' \in [Ids -> Stages] /\ move[w] = "none"
        /\ move'[w] = IF parked[w] # Absent THEN "closeRecord" ELSE "closeKill"
        /\ \A v \in Ids : v # w => move'[v] = move[v]
    BY <1>1, MoveEffect DEF Close, WorldInv
  <2>2. UNCHANGED <<tmux, title, parked, snapshot, status, hidden, minted>>
    BY <1>1 DEF Close, others, names
  <2>3. w \in minted
    BY <1>1 DEF Close, KnownInv
  <2>. QED  BY <2>1, <2>2, <2>3 DEF WorldInv, WorldTypes, Moving, Unborn
<1>2. CASE CloseRecord(w)
  <2>1. /\ move' \in [Ids -> Stages] /\ move[w] = "closeRecord" /\ move'[w] = "closeKill"
        /\ \A v \in Ids : v # w => move'[v] = move[v]
    BY <1>2, MoveEffect DEF CloseRecord, WorldInv
  <2>2. UNCHANGED <<tmux, title, snapshot, status, hidden, minted>>
    BY <1>2 DEF CloseRecord, others
  <2>3. /\ parked' \in [Ids -> Names \cup {Absent}] /\ parked'[w] = Absent
        /\ \A v \in Ids : v # w => parked'[v] = parked[v]
    BY <1>2 DEF CloseRecord, WorldInv, WorldTypes
  <2>. QED  BY <2>1, <2>2, <2>3 DEF WorldInv, WorldTypes, Moving, Unborn
<1>3. CASE CloseKill(w)
  <2>1. /\ move' \in [Ids -> Stages] /\ move[w] = "closeKill" /\ move'[w] = "closeSay"
        /\ \A v \in Ids : v # w => move'[v] = move[v]
    BY <1>3, MoveEffect DEF CloseKill, WorldInv
  <2>2. UNCHANGED <<title, parked, snapshot, status, hidden, minted>> /\ tmux' = tmux \ {w}
    BY <1>3 DEF CloseKill, others, names
  <2>. QED  BY <2>1, <2>2 DEF WorldInv, WorldTypes, Moving, Unborn
<1>4. CASE CloseSay(w)
  <2>1. /\ move' \in [Ids -> Stages] /\ move[w] = "closeSay" /\ move'[w] = "none"
        /\ \A v \in Ids : v # w => move'[v] = move[v]
    BY <1>4, MoveEffect DEF CloseSay, WorldInv
  <2>2. UNCHANGED <<tmux, title, parked, snapshot, status, hidden, minted>>
    BY <1>4 DEF CloseSay, others, names
  <2>. QED  BY <2>1, <2>2 DEF WorldInv, WorldTypes, Moving, Unborn
<1>. QED  BY <1>1, <1>2, <1>3, <1>4

LEMMA OutsideWorld ==
  ASSUME WorldInv, NEW w \in Ids,
         \/ \E c \in Clients : Create(w, c)
         \/ \E l \in Listings, s \in Statuses : StatusChanges(l, w, s)
         \/ \E n \in Names : Rename(w, n)
         \/ HideOrShow(w) \/ SessionExits(w) \/ CreateAnswered(w) \/ CreateFails(w)
  PROVE  WorldInv'
<1>1. ASSUME NEW c \in Clients, Create(w, c) PROVE WorldInv'
  <2>1. /\ minted' = minted \cup {w} /\ tmux' = tmux \cup {w} /\ w \notin minted
        /\ UNCHANGED <<title, parked, snapshot, status, hidden, move>>
    BY <1>1 DEF Create, names
  <2>. QED  BY <2>1 DEF WorldInv, WorldTypes, Moving, Unborn
<1>2. ASSUME NEW l \in Listings, NEW s \in Statuses, StatusChanges(l, w, s) PROVE WorldInv'
  <2>1. /\ w \in minted /\ status' = [status EXCEPT ![w] = s]
        /\ UNCHANGED <<tmux, title, parked, snapshot, hidden, minted, move>>
    BY <1>2 DEF StatusChanges, SetStatus, names, others, WorldInv, Unborn
  <2>. QED  BY <2>1 DEF WorldInv, WorldTypes, Moving, Unborn
<1>3. ASSUME NEW n \in Names, Rename(w, n) PROVE WorldInv'
  BY <1>3 DEF Rename, others, WorldInv, WorldTypes, Moving, Unborn
<1>4. CASE HideOrShow(w)
  BY <1>4 DEF HideOrShow, names, WorldInv, WorldTypes, Moving, Unborn
<1>5. CASE SessionExits(w)
  BY <1>5 DEF SessionExits, names, others, WorldInv, WorldTypes, Moving, Unborn
<1>6. CASE CreateAnswered(w) \/ CreateFails(w)
  BY <1>6 DEF CreateAnswered, CreateFails, names, WorldInv, WorldTypes, Moving, Unborn
<1>. QED  BY <1>1, <1>2, <1>3, <1>4, <1>5, <1>6

LEMMA WorldStep ==
  ASSUME ConstantsOK, WorldInv, KnownInv, [Next]_vars
  PROVE  WorldInv'
<1>1. CASE UNCHANGED <<tmux, title, parked, status, hidden, snapshot, move, minted>>
  BY <1>1 DEF WorldInv, WorldTypes, Moving, Unborn
<1>2. CASE \/ UNCHANGED vars
           \/ \E l \in Listings : ListingStep(l) \/ Tick(l)
           \/ \E c \in Clients, l \in Listings : Connect(c, l)
           \/ \E c \in Clients : Disconnect(c)
  <2>1. UNCHANGED <<tmux, title, parked, status, hidden, snapshot, move, minted>>
    BY <1>2 DEF vars, world, ListingStep, ListSessions, ListRecords, Stamp, ListAnswered,
       Broadcast, TickNotes, SweepGoesOn, Tick, Connect, Disconnect
  <2>. QED  BY <1>1, <2>1
<1>3. CASE \E w \in Ids : \/ \E c \in Clients : Create(w, c)
                          \/ \E l \in Listings, s \in Statuses : StatusChanges(l, w, s)
                          \/ \E n \in Names : Rename(w, n)
                          \/ HideOrShow(w) \/ SessionExits(w) \/ CreateAnswered(w) \/ CreateFails(w)
  BY <1>3, OutsideWorld
<1>4. CASE \E w \in Ids : MoveStep(w) \/ Unpark(w) \/ Close(w)
                          \/ \E restorable \in BOOLEAN : Park(w, restorable)
  BY <1>4, ParkWorld, UnparkWorld, CloseWorld DEF MoveStep
<1>. QED  BY <1>2, <1>3, <1>4 DEF Next

-----------------------------------------------------------------------------
(* What a listing has read *)

\* One listing reads on, all others stay.
LEMMA ReadEffect ==
  ASSUME lst \in [Listings -> InFlight], NEW l \in Listings, NEW step \in Steps,
         NEW seen \in [Ids -> Entries \cup {Absent}],
         lst' = [lst EXCEPT ![l].step = step, ![l].seen = seen]
  PROVE  /\ lst' \in [Listings -> InFlight]
         /\ lst'[l].step = step /\ lst'[l].seen = seen
         /\ lst'[l].kind = lst[l].kind /\ lst'[l].about = lst[l].about
         /\ lst'[l].moved = lst[l].moved /\ lst'[l].hide = lst[l].hide
         /\ \A m \in Listings : m # l => lst'[m] = lst[m]
BY DEF InFlight

LEMMA IdleType ==
  /\ Idle \in InFlight /\ Idle.kind = "none" /\ Idle.step = "start"
  /\ \A w \in Ids : Idle.seen[w] = Absent
BY DEF Idle, InFlight, Kinds, Steps, Nothing

\* What a new listing starts as.
Fresh(entry) == /\ entry \in InFlight /\ entry.step = "start"
                /\ \A w \in Ids : entry.seen[w] = Absent

\* A listing that is replaced starts afresh or is free.
LEMMA StartEffect ==
  ASSUME lst \in [Listings -> InFlight], NEW l \in Listings, NEW entry, Fresh(entry),
         lst' = [lst EXCEPT ![l] = entry]
  PROVE  /\ lst' \in [Listings -> InFlight] /\ lst'[l] = entry
         /\ \A m \in Listings : m # l => lst'[m] = lst[m]
BY DEF Fresh

LEMMA Starts ==
  /\ Fresh(Idle) /\ Fresh([Idle EXCEPT !.kind = "tick"])
  /\ \A w \in Ids : /\ Fresh([Idle EXCEPT !.kind = "broadcast", !.about = w])
                    /\ [Idle EXCEPT !.kind = "broadcast", !.about = w].kind = "broadcast"
                    /\ [Idle EXCEPT !.kind = "broadcast", !.about = w].about = w
  /\ \A c \in Clients, ws \in SUBSET Ids :
       LET entry == [Idle EXCEPT !.kind = "list", !.about = c, !.hide = ws]
       IN Fresh(entry) /\ entry.kind = "list" /\ entry.about = c
  /\ [Idle EXCEPT !.kind = "tick"].kind = "tick" /\ Idle.kind = "none"
BY DEF Fresh, Idle, InFlight, Kinds, Steps, Nothing

LEMMA ListSessionsEffect ==
  ASSUME ConstantsOK, WorldInv, ListsInv, NEW l \in Listings, ListSessions(l)
  PROVE  /\ lst' \in [Listings -> InFlight]
         /\ lst'[l].step = "sessions" /\ lst[l].step = "start"
         /\ lst'[l].kind = lst[l].kind /\ lst'[l].about = lst[l].about
         /\ lst'[l].moved = lst[l].moved /\ lst'[l].kind # "none"
         /\ \A m \in Listings : m # l => lst'[m] = lst[m]
         /\ \A w \in Ids : /\ lst'[l].seen[w] # Absent <=> w \in tmux
                           /\ w \in tmux => lst'[l].seen[w].status = "unread"
<1>. DEFINE seen == [w \in Ids |-> IF w \in tmux THEN [status |-> "unread", name |-> title[w]]
                                                ELSE Absent]
<1>1. seen \in [Ids -> Entries \cup {Absent}]
  BY DEF WorldInv, WorldTypes, Entries
<1>2. \A w \in Ids : w \in tmux => seen[w] \in Entries /\ seen[w].status = "unread"
  BY DEF WorldInv, WorldTypes, Entries
<1>3. \A w \in Ids : w \notin tmux => seen[w] = Absent
  OBVIOUS
<1>4. lst' = [lst EXCEPT ![l].step = "sessions", ![l].seen = seen] /\ Lists(l, "start")
  BY DEF ListSessions
<1>. HIDE DEF seen
<1>5. /\ lst' \in [Listings -> InFlight]
      /\ lst'[l].step = "sessions" /\ lst'[l].seen = seen
      /\ lst'[l].kind = lst[l].kind /\ lst'[l].about = lst[l].about
      /\ lst'[l].moved = lst[l].moved
      /\ \A m \in Listings : m # l => lst'[m] = lst[m]
  BY <1>1, <1>4, ReadEffect DEF Steps, ListsInv
<1>. QED  BY <1>2, <1>3, <1>4, <1>5 DEF ConstantsOK, Lists

LEMMA ListRecordsEffect ==
  ASSUME ConstantsOK, WorldInv, ListsInv, NEW l \in Listings, ListRecords(l)
  PROVE  /\ lst' \in [Listings -> InFlight]
         /\ lst'[l].step = "records" /\ lst[l].step = "sessions"
         /\ lst'[l].kind = lst[l].kind /\ lst'[l].about = lst[l].about
         /\ lst'[l].moved = lst[l].moved /\ lst'[l].kind # "none"
         /\ \A m \in Listings : m # l => lst'[m] = lst[m]
         /\ \A w \in Ids :
              /\ w \in Recorded => lst'[l].seen[w] # Absent /\ lst'[l].seen[w].status = "parked"
              /\ w \notin Recorded => lst'[l].seen[w] = lst[l].seen[w]
<1>. DEFINE seen == [w \in Ids |-> IF w \in Recorded THEN [status |-> "parked", name |-> parked[w]]
                                                    ELSE lst[l].seen[w]]
<1>0. lst[l].seen \in [Ids -> Entries \cup {Absent}]
  BY DEF ListsInv, InFlight
<1>1. \A w \in Ids : w \in Recorded => seen[w] \in Entries /\ seen[w].status = "parked"
  BY DEF WorldInv, WorldTypes, Entries, Recorded, Statuses
<1>2. \A w \in Ids : w \notin Recorded => seen[w] = lst[l].seen[w]
  OBVIOUS
<1>3. seen \in [Ids -> Entries \cup {Absent}]
  BY <1>0, <1>1, <1>2
<1>4. lst' = [lst EXCEPT ![l].step = "records", ![l].seen = seen] /\ Lists(l, "sessions")
  BY DEF ListRecords
<1>. HIDE DEF seen
<1>5. /\ lst' \in [Listings -> InFlight]
      /\ lst'[l].step = "records" /\ lst'[l].seen = seen
      /\ lst'[l].kind = lst[l].kind /\ lst'[l].about = lst[l].about
      /\ lst'[l].moved = lst[l].moved
      /\ \A m \in Listings : m # l => lst'[m] = lst[m]
  BY <1>3, <1>4, ReadEffect DEF Steps, ListsInv
<1>. QED  BY <1>1, <1>2, <1>4, <1>5 DEF ConstantsOK, Lists

LEMMA StampEffect ==
  ASSUME ConstantsOK, WorldInv, ListsInv, NEW l \in Listings, Stamp(l)
  PROVE  /\ lst' \in [Listings -> InFlight]
         /\ lst'[l].step = "stamped" /\ lst[l].step = "records"
         /\ lst'[l].kind = lst[l].kind /\ lst'[l].about = lst[l].about
         /\ lst'[l].moved = lst[l].moved /\ lst'[l].kind # "none"
         /\ \A m \in Listings : m # l => lst'[m] = lst[m]
         /\ \A w \in Ids :
              /\ lst'[l].seen[w] = Absent <=> lst[l].seen[w] = Absent
              /\ lst[l].seen[w] # Absent =>
                   /\ lst'[l].seen[w].status \in Statuses
                   /\ lst'[l].seen[w].status = IF lst[l].seen[w].status = "unread"
                                               THEN status[w] ELSE lst[l].seen[w].status
<1>. DEFINE old == lst[l].seen
            seen == [w \in Ids |-> IF old[w] # Absent /\ old[w].status = "unread"
                                   THEN [old[w] EXCEPT !.status = status[w]] ELSE old[w]]
<1>0. old \in [Ids -> Entries \cup {Absent}]
  BY DEF ListsInv, InFlight
<1>1. ASSUME NEW w \in Ids, old[w] # Absent
      PROVE  /\ seen[w] \in Entries /\ seen[w].status \in Statuses
             /\ seen[w].status = IF old[w].status = "unread" THEN status[w] ELSE old[w].status
  <2>1. old[w] \in Entries /\ status[w] \in Statuses
    BY <1>0, <1>1 DEF WorldInv, WorldTypes
  <2>. HIDE DEF old
  <2>2. CASE old[w].status = "unread"
    BY <1>1, <2>1, <2>2 DEF Entries
  <2>3. CASE old[w].status # "unread"
    BY <1>1, <2>1, <2>3 DEF Entries
  <2>. QED  BY <2>2, <2>3
<1>2. \A w \in Ids : old[w] = Absent => seen[w] = Absent
  OBVIOUS
<1>3. seen \in [Ids -> Entries \cup {Absent}]
  <2>1. \A w \in Ids : seen[w] \in Entries \cup {Absent}
    BY <1>1, <1>2
  <2>. QED  BY <2>1
<1>4. lst' = [lst EXCEPT ![l].step = "stamped", ![l].seen = seen] /\ Lists(l, "records")
  BY DEF Stamp
<1>. HIDE DEF seen
<1>5. /\ lst' \in [Listings -> InFlight]
      /\ lst'[l].step = "stamped" /\ lst'[l].seen = seen
      /\ lst'[l].kind = lst[l].kind /\ lst'[l].about = lst[l].about
      /\ lst'[l].moved = lst[l].moved
      /\ \A m \in Listings : m # l => lst'[m] = lst[m]
  BY <1>3, <1>4, ReadEffect DEF Steps, ListsInv
<1>. QED  BY <1>1, <1>2, <1>4, <1>5 DEF ConstantsOK, Lists

-----------------------------------------------------------------------------
(* A tick of the poll *)

\* What one turn of the sweep does, whatever the tick has noted: the walk ends, or one more
\* workspace it did not see is forgotten and taken off every device.
Turn(l, knows, views, present) ==
  /\ lst' \in [Listings -> InFlight]
  /\ \A m \in Listings : m # l =>
       /\ lst'[m].kind = lst[m].kind /\ lst'[m].about = lst[m].about
       /\ lst'[m].step = lst[m].step /\ lst'[m].seen = lst[m].seen
       /\ lst[m].moved \subseteq lst'[m].moved
       /\ lst[m].kind = "tick" =>
            \A w \in Ids : known[w] = Absent /\ knows[w] # Absent => w \in lst'[m].moved
  /\ \/ /\ known' = knows /\ view' = views /\ lst'[l] = Idle
     \/ \E w \in Ids :
          /\ knows[w] # Absent /\ present[w] = Absent
          /\ known' = [knows EXCEPT ![w] = Absent]
          /\ view' = [c \in Clients |-> [views[c] EXCEPT ![w] = Absent]]
          /\ lst'[l].step = "tail" /\ lst'[l].seen = present /\ lst'[l].kind = lst[l].kind
          /\ lst'[l].about = lst[l].about /\ lst'[l].moved = lst[l].moved \cup hidden

LEMMA SweepEffect ==
  ASSUME WorldInv, lst \in [Listings -> InFlight], NEW l \in Listings, NEW knows, NEW views,
         NEW present \in [Ids -> Entries \cup {Absent}], Sweep(l, knows, views, present)
  PROVE  Turn(l, knows, views, present)
<1>. DEFINE stale == {w \in Ids : knows[w] # Absent /\ present[w] = Absent}
            learned == {w \in Ids : known[w] = Absent /\ knows[w] # Absent}
            told == [m \in Listings |-> IF lst[m].kind = "tick"
                                        THEN [lst[m] EXCEPT !.moved = @ \cup learned] ELSE lst[m]]
            tail == [lst[l] EXCEPT !.step = "tail", !.seen = present, !.moved = @ \cup hidden]
<1>1. learned \subseteq Ids /\ hidden \subseteq Ids
  BY DEF WorldInv, WorldTypes
<1>2. \/ stale = {} /\ known' = knows /\ view' = views /\ lst' = [told EXCEPT ![l] = Idle]
      \/ \E w \in stale : /\ known' = [knows EXCEPT ![w] = Absent]
                          /\ view' = [c \in Clients |-> [views[c] EXCEPT ![w] = Absent]]
                          /\ lst' = [told EXCEPT ![l] = tail]
  BY DEF Sweep
<1>3. ASSUME NEW m \in Listings
      PROVE  /\ told[m] \in InFlight
             /\ told[m].kind = lst[m].kind /\ told[m].about = lst[m].about
             /\ told[m].step = lst[m].step /\ told[m].seen = lst[m].seen
             /\ lst[m].moved \subseteq told[m].moved
             /\ lst[m].kind = "tick" => learned \subseteq told[m].moved
  <2>1. lst[m] \in InFlight
    OBVIOUS
  <2>. HIDE DEF learned
  <2>2. CASE lst[m].kind = "tick"
    BY <1>1, <2>1, <2>2 DEF InFlight
  <2>3. CASE lst[m].kind # "tick"
    BY <2>1, <2>3
  <2>. QED  BY <2>2, <2>3
<1>4. /\ tail \in InFlight /\ tail.step = "tail" /\ tail.seen = present
      /\ tail.kind = lst[l].kind /\ tail.about = lst[l].about
      /\ tail.moved = lst[l].moved \cup hidden
  BY <1>1 DEF InFlight, Steps
<1>5. told \in [Listings -> InFlight] /\ DOMAIN told = Listings
  <2>1. \A m \in Listings : told[m] \in InFlight
    BY <1>3
  <2>. QED  BY <2>1
<1>. HIDE DEF told, tail
<1>6. \A x \in InFlight : lst' = [told EXCEPT ![l] = x] =>
        /\ lst' \in [Listings -> InFlight] /\ lst'[l] = x
        /\ \A m \in Listings : m # l => lst'[m] = told[m]
  BY <1>5
<1>7. /\ lst' \in [Listings -> InFlight] /\ lst'[l] \in {Idle, tail}
      /\ \A m \in Listings : m # l => lst'[m] = told[m]
  BY <1>2, <1>4, <1>6, IdleType
<1>8. \A w \in Ids : known[w] = Absent /\ knows[w] # Absent => w \in learned
  OBVIOUS
<1>9. \A w \in stale : w \in Ids /\ knows[w] # Absent /\ present[w] = Absent
  OBVIOUS
<1>10. \/ known' = knows /\ view' = views /\ lst'[l] = Idle
       \/ \E w \in Ids : /\ knows[w] # Absent /\ present[w] = Absent
                         /\ known' = [knows EXCEPT ![w] = Absent]
                         /\ view' = [c \in Clients |-> [views[c] EXCEPT ![w] = Absent]]
                         /\ lst'[l] = tail
  <2>. HIDE DEF stale
  <2>. QED  BY <1>2, <1>4, <1>6, <1>9, IdleType
<1>. HIDE DEF learned
<1>. QED  BY <1>3, <1>4, <1>7, <1>8, <1>10 DEF Turn

\* A tick notes what it saw, then sweeps.
Present(l) == Without(lst[l].seen, hidden)
Noted(l) == [w \in Ids |-> IF Present(l)[w] # Absent THEN Present(l)[w].name ELSE known[w]]
Pushed(l) == [c \in Clients |-> [w \in Ids |-> IF c \in online /\ w \in Renames(Present(l))
                                               THEN Present(l)[w] ELSE view[c][w]]]

LEMMA PresentType ==
  ASSUME ListsInv, NEW l \in Listings
  PROVE  /\ Present(l) \in [Ids -> Entries \cup {Absent}]
         /\ \A w \in Ids : Present(l)[w] # Absent
                             => Present(l)[w] = lst[l].seen[w] /\ w \notin hidden
         /\ \A w \in Ids : Present(l)[w] = Absent => w \in hidden \/ lst[l].seen[w] = Absent
<1>1. lst[l].seen \in [Ids -> Entries \cup {Absent}]
  BY DEF ListsInv, InFlight
<1>. QED  BY <1>1 DEF Present, Without

LEMMA TickEffect ==
  ASSUME WorldInv, ListsInv, NEW l \in Listings, TickNotes(l)
  PROVE  /\ Turn(l, Noted(l), Pushed(l), Present(l))
         /\ lst[l].step = "stamped" /\ lst[l].kind = "tick"
         /\ Lately(Renames(Present(l)))
<1>1. /\ Lists(l, "stamped") /\ lst[l].kind = "tick" /\ Lately(Renames(Present(l)))
      /\ Sweep(l, [w \in Ids |-> IF w \in {v \in Ids : Present(l)[v] # Absent}
                                 THEN Present(l)[w].name ELSE known[w]], Pushed(l), Present(l))
  BY DEF TickNotes, Present, Pushed
<1>2. [w \in Ids |-> IF w \in {v \in Ids : Present(l)[v] # Absent}
                     THEN Present(l)[w].name ELSE known[w]] = Noted(l)
  BY DEF Noted
<1>3. Sweep(l, Noted(l), Pushed(l), Present(l))
  BY <1>1, <1>2
<1>4. Present(l) \in [Ids -> Entries \cup {Absent}] /\ lst \in [Listings -> InFlight]
  BY PresentType DEF ListsInv
<1>. QED  BY <1>1, <1>3, <1>4, SweepEffect DEF Lists

LEMMA TailEffect ==
  ASSUME WorldInv, ListsInv, NEW l \in Listings, SweepGoesOn(l)
  PROVE  Turn(l, known, view, lst[l].seen) /\ lst[l].step = "tail"
<1>1. lst[l].seen \in [Ids -> Entries \cup {Absent}] /\ lst \in [Listings -> InFlight]
  BY DEF ListsInv, InFlight
<1>. QED  BY <1>1, SweepEffect DEF SweepGoesOn, Lists

-----------------------------------------------------------------------------
(* Listings stay as they were read *)

\* The listings stay, but for what they may have missed.
Kept(l) ==
  /\ lst'[l].kind = lst[l].kind /\ lst'[l].about = lst[l].about
  /\ lst'[l].step = lst[l].step /\ lst'[l].seen = lst[l].seen
  /\ lst[l].moved \subseteq lst'[l].moved

\* What a workspace goes through leaves the listings, or starts one about it.
LEMMA MovesLeave ==
  ASSUME ListsInv, NEW w \in Ids,
         \/ \E restorable \in BOOLEAN : Park(w, restorable)
         \/ ParkAdd(w) \/ ParkKill(w) \/ Unpark(w) \/ UnparkRemove(w)
         \/ Close(w) \/ CloseRecord(w) \/ CloseKill(w) \/ CloseSay(w)
         \/ \E c \in Clients : Create(w, c)
         \/ \E n \in Names : Rename(w, n)
         \/ HideOrShow(w) \/ SessionExits(w) \/ CreateAnswered(w) \/ CreateFails(w)
  PROVE  /\ lst' \in [Listings -> InFlight] /\ \A l \in Listings : Kept(l)
         /\ ParkAdd(w) /\ w \in Gone => \A l \in Listings : w \in lst'[l].moved
         /\ Unpark(w) => \A l \in Listings :
              lst[l].kind # "none" /\ lst[l].step = "sessions" => w \in lst'[l].moved
<1>1. lst \in [Listings -> InFlight]
  BY DEF ListsInv
<1>2. ASSUME NEW l \in Listings
      PROVE  LET more == [lst[l] EXCEPT !.moved = @ \cup {w}]
             IN /\ more \in InFlight /\ w \in more.moved /\ lst[l].moved \subseteq more.moved
                /\ more.kind = lst[l].kind /\ more.about = lst[l].about
                /\ more.step = lst[l].step /\ more.seen = lst[l].seen
  BY <1>1 DEF InFlight
<1>3. CASE ParkAdd(w)
  <2>1. lst' = [l \in Listings |-> IF w \in Gone THEN [lst[l] EXCEPT !.moved = @ \cup {w}]
                                   ELSE lst[l]]
    BY <1>3 DEF ParkAdd
  <2>2. ~ Unpark(w)
    BY <1>3 DEF ParkAdd, Unpark, Moves
  <2>. QED  BY <1>1, <1>2, <2>1, <2>2 DEF Kept
<1>4. CASE Unpark(w)
  <2>1. lst' = [l \in Listings |-> IF Lists(l, "sessions")
                                   THEN [lst[l] EXCEPT !.moved = @ \cup {w}] ELSE lst[l]]
    BY <1>4 DEF Unpark
  <2>2. ~ ParkAdd(w)
    BY <1>4 DEF ParkAdd, Unpark, Moves
  <2>. QED  BY <1>1, <1>2, <2>1, <2>2 DEF Kept, Lists
<1>5. CASE ~ ParkAdd(w) /\ ~ Unpark(w)
  <2>1. lst' = lst
    BY <1>5 DEF Park, ParkKill, UnparkRemove, Close, CloseRecord, CloseKill, CloseSay, Create,
       Rename, HideOrShow, SessionExits, CreateAnswered, CreateFails
  <2>. QED  BY <1>1, <1>5, <2>1 DEF Kept
<1>. QED  BY <1>3, <1>4, <1>5

\* A status change starts the listing its broadcast needs; a tick and a `list` start theirs.
LEMMA NewListing ==
  ASSUME WorldInv, ListsInv,
         \/ \E l \in Listings : Tick(l)
         \/ \E c \in Clients, l \in Listings : Connect(c, l)
         \/ \E l \in Listings, w \in Ids, s \in Statuses : StatusChanges(l, w, s)
         \/ \E l \in Listings, w \in Ids : ParkLabel(l, w) \/ UnparkLabel(l, w)
  PROVE  /\ lst' \in [Listings -> InFlight]
         /\ \E l \in Listings :
              /\ lst[l].kind = "none"
              /\ Fresh(lst'[l])
              /\ lst'[l].kind = "list" => lst'[l].about \in online'
              /\ lst'[l].kind = "broadcast" => lst'[l].about \in minted
              /\ \A m \in Listings : m # l => lst'[m] = lst[m]
<1>1. lst \in [Listings -> InFlight] /\ hidden \subseteq Ids
  BY DEF ListsInv, WorldInv, WorldTypes
<1>. DEFINE New(l, entry) == /\ Fresh(entry) /\ lst[l].kind = "none"
                             /\ lst' = [lst EXCEPT ![l] = entry]
                             /\ entry.kind = "list" => entry.about \in online'
                             /\ entry.kind = "broadcast" => entry.about \in minted
<1>2. \E l \in Listings : \E entry : New(l, entry)
  <2>1. CASE \E l \in Listings : Tick(l)
    BY <2>1, Starts DEF Tick
  <2>2. ASSUME NEW c \in Clients, NEW l \in Listings, Connect(c, l)
        PROVE  \E entry : New(l, entry)
    <3>1. /\ lst' = [lst EXCEPT ![l] = [Idle EXCEPT !.kind = "list", !.about = c, !.hide = hidden]]
          /\ lst[l].kind = "none" /\ c \in online'
      BY <2>2 DEF Connect
    <3>2. LET entry == [Idle EXCEPT !.kind = "list", !.about = c, !.hide = hidden]
          IN Fresh(entry) /\ entry.kind = "list" /\ entry.about = c
      BY <1>1, Starts
    <3>. QED  BY <3>1, <3>2
  <2>3. ASSUME NEW l \in Listings, NEW w \in Ids, NEW s, SetStatus(l, w, s), w \in minted
        PROVE  \E entry : New(l, entry)
    <3>1. /\ lst' = [lst EXCEPT ![l] = [Idle EXCEPT !.kind = "broadcast", !.about = w]]
          /\ lst[l].kind = "none"
      BY <2>3 DEF SetStatus
    <3>2. LET entry == [Idle EXCEPT !.kind = "broadcast", !.about = w]
          IN Fresh(entry) /\ entry.kind = "broadcast" /\ entry.about = w
      BY Starts
    <3>. QED  BY <2>3, <3>1, <3>2
  <2>4. \A w \in Ids : w \in tmux \/ move[w] # "none" => w \in minted
    BY DEF WorldInv, Unborn
  <2>5. \A w \in Ids : move[w] \in {"label", "relabel"} => w \in minted
    BY <2>4
  <2>. QED  BY <2>1, <2>2, <2>3, <2>4, <2>5 DEF StatusChanges, ParkLabel, UnparkLabel, Moves
<1>3. PICK l \in Listings : \E entry : New(l, entry)
  BY <1>2
<1>4. PICK entry : New(l, entry)
  BY <1>3
<1>5. /\ lst' \in [Listings -> InFlight] /\ lst'[l] = entry
      /\ \A m \in Listings : m # l => lst'[m] = lst[m]
  BY <1>1, <1>4, StartEffect
<1>. QED  BY <1>4, <1>5

\* A listing that was delivered is free again, and so are those of a lost device.
LEMMA DoneListing ==
  ASSUME ListsInv,
         \/ \E l \in Listings : ListAnswered(l) \/ Broadcast(l)
         \/ \E c \in Clients : Disconnect(c)
  PROVE  /\ lst' \in [Listings -> InFlight]
         /\ \A l \in Listings : lst'[l] = lst[l] \/ lst'[l] = Idle
<1>1. lst \in [Listings -> InFlight]
  BY DEF ListsInv
<1>. QED  BY <1>1, IdleType DEF ListAnswered, Broadcast, Disconnect

LEMMA MintedGrows ==
  ASSUME [Next]_vars
  PROVE  minted \subseteq minted'
BY DEF Next, vars, ListingStep, ListSessions, ListRecords, Stamp, ListAnswered, Broadcast,
   TickNotes, SweepGoesOn, Tick, MoveStep, ParkAdd, ParkKill, ParkLabel, UnparkRemove,
   UnparkLabel, CloseRecord, CloseKill, CloseSay, Connect, Disconnect, Create, StatusChanges,
   Rename, HideOrShow, SessionExits, CreateAnswered, CreateFails, Unpark, Close, Park, world, others

LEMMA OnlineStays ==
  ASSUME [Next]_vars
  PROVE  \/ online \subseteq online'
         \/ \E c \in Clients : Disconnect(c)
BY DEF Next, vars, ListingStep, ListSessions, ListRecords, Stamp, ListAnswered, Broadcast,
   TickNotes, SweepGoesOn, Tick, MoveStep, ParkAdd, ParkKill, ParkLabel, UnparkRemove,
   UnparkLabel, CloseRecord, CloseKill, CloseSay, Connect, Create, StatusChanges,
   Rename, HideOrShow, SessionExits, CreateAnswered, CreateFails, Unpark, Close, Park, others

LEMMA ListsStep ==
  ASSUME ConstantsOK, WorldInv, ListsInv, KnownInv, [Next]_vars
  PROVE  ListsInv'
<1>. DEFINE Good(x) == /\ x.step \in {"stamped", "tail"} =>
                            \A w \in Ids : x.seen[w] # Absent => x.seen[w].status \in Statuses
                       /\ \A w \in Ids : x.seen[w] # Absent => w \in minted'
                       /\ x.kind = "list" => x.about \in online'
                       /\ x.step = "tail" => x.kind = "tick"
<1>1. minted \subseteq minted'
  BY MintedGrows
<1>2. online \subseteq online' \/ \E c \in Clients : Disconnect(c)
  BY OnlineStays
<1>3. ASSUME NEW l \in Listings, online \subseteq online' PROVE Good(lst[l])
  BY <1>1, <1>3 DEF ListsInv
<1>4. Good(Idle)
  BY IdleType
<1>5. SUFFICES lst' \in [Listings -> InFlight] /\ \A l \in Listings : Good(lst'[l])
  BY DEF ListsInv
<1>6. CASE UNCHANGED vars
  BY <1>3, <1>6 DEF vars, ListsInv
<1>7. CASE \E c \in Clients : Disconnect(c)
  <2>1. PICK c \in Clients : Disconnect(c)
    BY <1>7
  <2>2. lst' \in [Listings -> InFlight]
    BY <2>1, DoneListing
  <2>3. ASSUME NEW l \in Listings, lst'[l] # Idle PROVE Good(lst'[l])
    <3>1. lst'[l] = lst[l] /\ ~ (lst[l].kind = "list" /\ lst[l].about = c)
      BY <2>1, <2>3 DEF Disconnect
    <3>2. lst[l].kind = "list" => lst[l].about \in online'
      BY <2>1, <3>1 DEF Disconnect, ListsInv
    <3>. QED  BY <1>1, <3>1, <3>2 DEF ListsInv
  <2>. QED  BY <1>4, <2>2, <2>3
<1>8. CASE \E l \in Listings : ListAnswered(l) \/ Broadcast(l)
  <2>1. online' = online
    BY <1>8 DEF ListAnswered, Broadcast
  <2>. HIDE DEF Good
  <2>. QED  BY <1>3, <1>4, <1>8, <2>1, DoneListing
<1>9. ASSUME NEW l \in Listings, ListSessions(l) \/ ListRecords(l) \/ Stamp(l)
      PROVE  lst' \in [Listings -> InFlight] /\ \A m \in Listings : Good(lst'[m])
  <2>1. UNCHANGED <<online, minted>>
    BY <1>9 DEF ListSessions, ListRecords, Stamp, world
  <2>2. lst[l].kind = "list" => lst[l].about \in online'
    BY <2>1 DEF ListsInv
  <2>3. \A w \in Ids : lst[l].seen[w] # Absent \/ w \in tmux \/ w \in Recorded => w \in minted
    BY DEF ListsInv, WorldInv, Unborn, Recorded
  <2>4. CASE ListSessions(l)
    <3>1. Good(lst'[l])
      BY <2>1, <2>2, <2>3, <2>4, ListSessionsEffect
    <3>. HIDE DEF Good
    <3>. QED  BY <1>3, <2>1, <2>4, <3>1, ListSessionsEffect
  <2>5. CASE ListRecords(l)
    <3>1. Good(lst'[l])
      BY <2>1, <2>2, <2>3, <2>5, ListRecordsEffect
    <3>. HIDE DEF Good
    <3>. QED  BY <1>3, <2>1, <2>5, <3>1, ListRecordsEffect
  <2>6. CASE Stamp(l)
    <3>1. Good(lst'[l])
      BY <2>1, <2>2, <2>3, <2>6, StampEffect
    <3>. HIDE DEF Good
    <3>. QED  BY <1>3, <2>1, <2>6, <3>1, StampEffect
  <2>. QED  BY <1>9, <2>4, <2>5, <2>6
<1>10. ASSUME NEW l \in Listings, TickNotes(l) \/ SweepGoesOn(l)
       PROVE  lst' \in [Listings -> InFlight] /\ \A m \in Listings : Good(lst'[m])
  <2>1. UNCHANGED <<online, minted>>
    BY <1>10 DEF TickNotes, SweepGoesOn, world
  <2>2. \E knows, views, present :
          /\ Turn(l, knows, views, present) /\ lst[l].kind = "tick"
          /\ \A w \in Ids : present[w] # Absent =>
               w \in minted /\ present[w].status \in Statuses
    <3>1. CASE TickNotes(l)
      <4>1. \A w \in Ids : Present(l)[w] # Absent =>
              w \in minted /\ Present(l)[w].status \in Statuses
        BY <3>1, PresentType, TickEffect DEF ListsInv
      <4>. QED  BY <3>1, <4>1, TickEffect
    <3>2. CASE SweepGoesOn(l)
      <4>1. lst[l].step = "tail" /\ Turn(l, known, view, lst[l].seen)
        BY <3>2, TailEffect
      <4>. QED  BY <4>1 DEF ListsInv
    <3>. QED  BY <1>10, <3>1, <3>2
  <2>3. PICK knows, views, present :
          /\ Turn(l, knows, views, present) /\ lst[l].kind = "tick"
          /\ \A w \in Ids : present[w] # Absent =>
               w \in minted /\ present[w].status \in Statuses
    BY <2>2
  <2>4. lst'[l] # Idle => /\ lst'[l].step = "tail" /\ lst'[l].seen = present
                          /\ lst'[l].kind = "tick"
    BY <2>3 DEF Turn
  <2>5. Good(lst'[l])
    <3>1. CASE lst'[l] = Idle
      <4>. HIDE DEF Good
      <4>. QED  BY <1>4, <3>1
    <3>2. CASE lst'[l] # Idle
      BY <2>1, <2>3, <2>4, <3>2
    <3>. QED  BY <3>1, <3>2
  <2>6. ASSUME NEW m \in Listings, m # l PROVE Good(lst'[m])
    <3>1. /\ lst'[m].kind = lst[m].kind /\ lst'[m].about = lst[m].about
          /\ lst'[m].step = lst[m].step /\ lst'[m].seen = lst[m].seen
      BY <2>3, <2>6 DEF Turn
    <3>. QED  BY <1>3, <2>1, <3>1
  <2>7. lst' \in [Listings -> InFlight]
    BY <2>3 DEF Turn
  <2>. HIDE DEF Good
  <2>. QED  BY <2>5, <2>6, <2>7
<1>11. CASE \/ \E l \in Listings : Tick(l)
            \/ \E c \in Clients, l \in Listings : Connect(c, l)
            \/ \E l \in Listings, w \in Ids, s \in Statuses : StatusChanges(l, w, s)
            \/ \E l \in Listings, w \in Ids : ParkLabel(l, w) \/ UnparkLabel(l, w)
  <2>1. online \subseteq online'
    BY <1>11 DEF Tick, Connect, StatusChanges, ParkLabel, UnparkLabel, others
  <2>2. PICK l \in Listings :
          /\ Fresh(lst'[l])
          /\ lst'[l].kind = "list" => lst'[l].about \in online'
          /\ \A m \in Listings : m # l => lst'[m] = lst[m]
    BY <1>11, NewListing
  <2>3. Good(lst'[l])
    BY <2>2 DEF Fresh
  <2>4. lst' \in [Listings -> InFlight]
    BY <1>11, NewListing
  <2>. HIDE DEF Good
  <2>. QED  BY <1>3, <2>1, <2>2, <2>3, <2>4
<1>12. ASSUME NEW w \in Ids,
              \/ \E restorable \in BOOLEAN : Park(w, restorable)
              \/ ParkAdd(w) \/ ParkKill(w) \/ Unpark(w) \/ UnparkRemove(w)
              \/ Close(w) \/ CloseRecord(w) \/ CloseKill(w) \/ CloseSay(w)
              \/ \E c \in Clients : Create(w, c)
              \/ \E n \in Names : Rename(w, n)
              \/ HideOrShow(w) \/ SessionExits(w) \/ CreateAnswered(w) \/ CreateFails(w)
       PROVE  lst' \in [Listings -> InFlight] /\ \A l \in Listings : Good(lst'[l])
  <2>1. online' = online
    BY <1>12 DEF Park, ParkAdd, ParkKill, Unpark, UnparkRemove, Close, CloseRecord, CloseKill,
       CloseSay, Create, Rename, HideOrShow, SessionExits, CreateAnswered, CreateFails, others
  <2>2. lst' \in [Listings -> InFlight] /\ \A l \in Listings : Kept(l)
    BY <1>12, MovesLeave
  <2>. QED  BY <1>3, <2>1, <2>2 DEF Kept
<1>13. CASE Next
  <2>1. CASE \E l \in Listings : ListingStep(l) \/ Tick(l)
    BY <1>8, <1>9, <1>10, <1>11, <2>1 DEF ListingStep
  <2>2. CASE \E w \in Ids : MoveStep(w)
    BY <1>11, <1>12, <2>2 DEF MoveStep
  <2>3. CASE \/ \E c \in Clients, l \in Listings : Connect(c, l)
             \/ \E c \in Clients : Disconnect(c)
             \/ \E l \in Listings, w \in Ids, s \in Statuses : StatusChanges(l, w, s)
    BY <1>7, <1>11, <2>3
  <2>4. CASE \/ \E w \in Ids, c \in Clients : Create(w, c)
             \/ \E w \in Ids, n \in Names : Rename(w, n)
             \/ \E w \in Ids : HideOrShow(w) \/ SessionExits(w) \/ Unpark(w) \/ Close(w)
             \/ \E w \in Ids : CreateAnswered(w) \/ CreateFails(w)
             \/ \E w \in Ids, restorable \in BOOLEAN : Park(w, restorable)
    BY <1>12, <2>4
  <2>. QED  BY <1>13, <2>1, <2>2, <2>3, <2>4 DEF Next
<1>. QED  BY <1>6, <1>13

-----------------------------------------------------------------------------
(* What the poll knows and the devices show *)

Rows == [status : Statuses, name : Names] \cup {Absent}
Screens == [Clients -> [Ids -> Rows]]

LEMMA ShownEffect ==
  ASSUME view \in Screens, NEW w \in Ids, NEW e \in Rows, Shown(w, e)
  PROVE  /\ view' \in Screens
         /\ \A c \in Clients, v \in Ids :
              view'[c][v] = IF c \in online /\ v = w THEN e ELSE view[c][v]
<1>1. \A c \in Clients : view[c] \in [Ids -> Rows]
  BY DEF Screens
<1>2. view' = [c \in Clients |-> IF c \in online THEN [view[c] EXCEPT ![w] = e] ELSE view[c]]
  BY DEF Shown
<1>3. \A c \in Clients : view'[c] \in [Ids -> Rows]
  BY <1>1, <1>2
<1>4. view' \in Screens
  BY <1>2, <1>3 DEF Screens
<1>. QED  BY <1>1, <1>2, <1>4

\* An entry that is ready can be shown.
LEMMA ReadyRows ==
  ASSUME ListsInv, NEW l \in Listings, lst[l].step = "stamped", NEW w \in Ids
  PROVE  lst[l].seen[w] \in Rows
<1>1. lst[l].seen[w] \in Entries \cup {Absent}
  BY DEF ListsInv, InFlight
<1>2. lst[l].seen[w] # Absent => lst[l].seen[w].status \in Statuses
  BY DEF ListsInv
<1>. QED  BY <1>1, <1>2 DEF Entries, Rows

\* What a turn of the sweep leaves of what the tick had noted.
LEMMA TurnEffect ==
  ASSUME NEW knows \in [Ids -> Names \cup {Absent}], NEW views \in Screens,
         NEW l \in Listings, NEW present, Turn(l, knows, views, present)
  PROVE  /\ known' \in [Ids -> Names \cup {Absent}] /\ view' \in Screens
         /\ \A w \in Ids : known'[w] \in {knows[w], Absent}
         /\ \A w \in Ids, c \in Clients : view'[c][w] \in {views[c][w], Absent}
         /\ \A w \in Ids : known'[w] # knows[w] =>
              /\ present[w] = Absent
              /\ \A c \in Clients : view'[c][w] = Absent
<1>1. CASE known' = knows /\ view' = views
  BY <1>1
<1>2. ASSUME NEW w \in Ids, present[w] = Absent, known' = [knows EXCEPT ![w] = Absent],
             view' = [c \in Clients |-> [views[c] EXCEPT ![w] = Absent]]
      PROVE  /\ known' \in [Ids -> Names \cup {Absent}] /\ view' \in Screens
             /\ \A v \in Ids : known'[v] \in {knows[v], Absent}
             /\ \A v \in Ids, c \in Clients : view'[c][v] \in {views[c][v], Absent}
             /\ \A v \in Ids : known'[v] # knows[v] =>
                  /\ present[v] = Absent
                  /\ \A c \in Clients : view'[c][v] = Absent
  <2>1. \A c \in Clients : views[c] \in [Ids -> Rows]
    BY DEF Screens
  <2>2. \A c \in Clients, v \in Ids : view'[c][v] = IF v = w THEN Absent ELSE views[c][v]
    BY <1>2, <2>1
  <2>3. view' \in Screens
    <3>1. \A c \in Clients : view'[c] \in [Ids -> Rows]
      BY <1>2, <2>1 DEF Rows
    <3>. QED  BY <1>2, <3>1 DEF Screens
  <2>. QED  BY <1>2, <2>2, <2>3
<1>. QED  BY <1>1, <1>2 DEF Turn

\* What a tick notes before it sweeps.
LEMMA NotedEffect ==
  ASSUME ConstantsOK, ListsInv, KnownInv, NEW l \in Listings, lst[l].step = "stamped"
  PROVE  /\ Noted(l) \in [Ids -> Names \cup {Absent}] /\ Pushed(l) \in Screens
         /\ \A w \in Ids : /\ Present(l)[w] = Absent => Noted(l)[w] = known[w]
                           /\ Present(l)[w] # Absent => Noted(l)[w] # Absent /\ w \in minted
         /\ \A c \in Clients, w \in Ids :
              Pushed(l)[c][w] # view[c][w] =>
                Present(l)[w] # Absent /\ c \in online /\ w \in minted
<1>1. \A w \in Ids : Present(l)[w] \in Rows
  BY PresentType, ReadyRows DEF Rows
<1>2. \A w \in Ids : Present(l)[w] # Absent => Present(l)[w].name \in Names /\ w \in minted
  <2>1. \A w \in Ids : Present(l)[w] # Absent => Present(l)[w].name \in Names
    BY <1>1 DEF Rows
  <2>. QED  BY <2>1, PresentType DEF ListsInv
<1>3. known \in [Ids -> Names \cup {Absent}] /\ view \in Screens
  BY DEF KnownInv, Screens, Rows
<1>4. \A w \in Ids : /\ Noted(l)[w] \in Names \cup {Absent}
                     /\ Present(l)[w] = Absent => Noted(l)[w] = known[w]
                     /\ Present(l)[w] # Absent => Noted(l)[w] # Absent
  BY <1>2, <1>3 DEF Noted, ConstantsOK
<1>5. Noted(l) \in [Ids -> Names \cup {Absent}]
  BY <1>4 DEF Noted
<1>6. \A w \in Ids : w \in Renames(Present(l)) => Present(l)[w] # Absent
  BY DEF Renames
<1>7. \A c \in Clients, w \in Ids :
        /\ Pushed(l)[c][w] \in Rows
        /\ Pushed(l)[c][w] # view[c][w] => c \in online /\ w \in Renames(Present(l))
  <2>1. \A c \in Clients, w \in Ids : view[c][w] \in Rows
    BY <1>3 DEF Screens
  <2>. QED  BY <1>1, <2>1 DEF Pushed
<1>8. Pushed(l) \in Screens
  BY <1>7 DEF Pushed, Screens
<1>. QED  BY <1>2, <1>4, <1>5, <1>6, <1>7, <1>8

\* A turn of either kind, in one: what it starts from and what it misses.
LEMMA SweepTurn ==
  ASSUME ConstantsOK, WorldInv, ListsInv, KnownInv, NEW l \in Listings,
         TickNotes(l) \/ SweepGoesOn(l)
  PROVE  \E knows \in [Ids -> Names \cup {Absent}], views \in Screens :
           \E present \in [Ids -> Entries \cup {Absent}] :
             /\ Turn(l, knows, views, present)
             /\ \A w \in Ids :
                  /\ present[w] = Absent => /\ knows[w] = known[w]
                                            /\ w \in hidden \/ lst[l].seen[w] = Absent
                  /\ known[w] # Absent => knows[w] # Absent
                  /\ knows[w] # Absent => w \in minted
             /\ \A c \in Clients, w \in Ids :
                  views[c][w] # view[c][w] => /\ knows[w] # Absent
                                              /\ c \in online /\ w \in minted
<1>0. known \in [Ids -> Names \cup {Absent}] /\ view \in Screens
  BY DEF KnownInv, Screens, Rows
<1>1. CASE TickNotes(l)
  <2>1. Turn(l, Noted(l), Pushed(l), Present(l)) /\ lst[l].step = "stamped"
    BY <1>1, TickEffect
  <2>2. /\ Noted(l) \in [Ids -> Names \cup {Absent}] /\ Pushed(l) \in Screens
        /\ \A w \in Ids : /\ Present(l)[w] = Absent => Noted(l)[w] = known[w]
                          /\ Present(l)[w] # Absent => Noted(l)[w] # Absent /\ w \in minted
        /\ \A c \in Clients, w \in Ids :
             Pushed(l)[c][w] # view[c][w] =>
               Present(l)[w] # Absent /\ c \in online /\ w \in minted
    BY <2>1, NotedEffect
  <2>3. /\ Present(l) \in [Ids -> Entries \cup {Absent}]
        /\ \A w \in Ids : Present(l)[w] = Absent => w \in hidden \/ lst[l].seen[w] = Absent
    BY PresentType
  <2>4. \A w \in Ids : known[w] # Absent => w \in minted
    BY DEF KnownInv
  <2>. QED  BY <2>1, <2>2, <2>3, <2>4
<1>2. CASE SweepGoesOn(l)
  <2>1. Turn(l, known, view, lst[l].seen)
    BY <1>2, TailEffect
  <2>2. lst[l].seen \in [Ids -> Entries \cup {Absent}]
    BY DEF ListsInv, InFlight
  <2>3. \A w \in Ids : known[w] # Absent => w \in minted
    BY DEF KnownInv
  <2>. QED  BY <1>0, <2>1, <2>2, <2>3
<1>. QED  BY <1>1, <1>2

\* The listings that only read, or start.
Reading ==
  \/ \E l \in Listings : ListSessions(l) \/ ListRecords(l) \/ Stamp(l)
  \/ UNCHANGED vars

Starting ==
  \/ \E l \in Listings : Tick(l)
  \/ \E c \in Clients, l \in Listings : Connect(c, l)
  \/ \E l \in Listings, w \in Ids, s \in Statuses : StatusChanges(l, w, s)
  \/ \E l \in Listings, w \in Ids : ParkLabel(l, w) \/ UnparkLabel(l, w)

\* What a workspace goes through without a listing of its own.
Going(w) ==
  \/ \E restorable \in BOOLEAN : Park(w, restorable)
  \/ ParkAdd(w) \/ ParkKill(w) \/ Unpark(w) \/ UnparkRemove(w)
  \/ Close(w) \/ CloseRecord(w) \/ CloseKill(w) \/ CloseSay(w)
  \/ \E c \in Clients : Create(w, c)
  \/ \E n \in Names : Rename(w, n)
  \/ HideOrShow(w) \/ SessionExits(w) \/ CreateAnswered(w) \/ CreateFails(w)

LEMMA EachStep ==
  ASSUME [Next]_vars
  PROVE  \/ Reading \/ Starting
         \/ \E l \in Listings : ListAnswered(l) \/ Broadcast(l)
         \/ \E l \in Listings : TickNotes(l) \/ SweepGoesOn(l)
         \/ \E c \in Clients : Disconnect(c)
         \/ \E w \in Ids : Going(w)
BY DEF Next, ListingStep, MoveStep, Reading, Starting, Going

\* Reading and starting change no screen, and start no session and end none.
LEMMA StartingLeaves ==
  ASSUME Reading \/ Starting
  PROVE  /\ UNCHANGED <<tmux, title, parked, snapshot, hidden, minted, known, view, unwatched, late,
                         creating, outdated>>
         /\ online \subseteq online'
BY DEF Reading, Starting, ListSessions, ListRecords, Stamp, vars, world, names, others, Tick,
   Connect, StatusChanges, ParkLabel, UnparkLabel

LEMMA HistoryStep ==
  ASSUME WorldInv, KnownInv, [Next]_vars
  PROVE  /\ unwatched \subseteq unwatched' /\ unwatched' \subseteq Ids
         /\ late \subseteq late' /\ late' \subseteq Ids
         /\ online' \subseteq Clients
<1>1. \A ws : Lately(ws) => late \subseteq late' /\ late' \subseteq late \cup minted
  BY DEF Lately, Gone
<1>2. minted \subseteq Ids /\ unwatched \subseteq Ids /\ late \subseteq Ids /\ online \subseteq Clients
  BY DEF WorldInv, WorldTypes, KnownInv
<1>3. CASE Reading \/ Starting
  <2>1. online' \subseteq Clients
    BY <1>2, <1>3 DEF Reading, Starting, ListSessions, ListRecords, Stamp, vars, Tick,
       Connect, StatusChanges, ParkLabel, UnparkLabel, others
  <2>. QED  BY <1>2, <1>3, <2>1, StartingLeaves
<1>4. CASE \E l \in Listings : ListAnswered(l) \/ Broadcast(l)
  BY <1>1, <1>2, <1>4 DEF ListAnswered, Broadcast
<1>5. CASE \E l \in Listings : TickNotes(l) \/ SweepGoesOn(l)
  BY <1>1, <1>2, <1>5 DEF TickNotes, SweepGoesOn
<1>6. CASE \E c \in Clients : Disconnect(c)
  BY <1>2, <1>6 DEF Disconnect
<1>7. CASE \E w \in Ids : Going(w)
  <2>1. PICK w \in Ids : Going(w)
    BY <1>7
  <2>2. CASE CreateAnswered(w)
    BY <1>1, <1>2, <2>2 DEF CreateAnswered
  <2>3. CASE ~ CreateAnswered(w)
    BY <1>2, <2>1, <2>3 DEF Going, Park, ParkAdd, ParkKill, Unpark, UnparkRemove, Close,
       CloseRecord, CloseKill, CloseSay, Create, Rename, HideOrShow, SessionExits, CreateFails,
       others
  <2>. QED  BY <2>2, <2>3
<1>. QED  BY <1>3, <1>4, <1>5, <1>6, <1>7, EachStep

\* What the devices show after each step that changes a screen.
LEMMA ScreenStep ==
  ASSUME ConstantsOK, WorldInv, ListsInv, KnownInv, CreatesInv, NEW w \in Ids, Going(w)
  PROVE  /\ view' \in Screens /\ online' = online
         /\ \A c \in Clients, v \in Ids : view'[c][v] # view[c][v] =>
              v = w /\ ((CreateAnswered(w) /\ c = creating[w]) \/ CloseSay(w))
         /\ CloseSay(w) => \A c \in Clients : view'[c][w] = Absent
         /\ CreateAnswered(w) => view'[creating[w]][w] = [status |-> "idle", name |-> FolderName]
<1>1. view \in Screens /\ online \subseteq Clients
  BY DEF KnownInv, Screens, Rows
<1>2. online' = online
  BY DEF Going, Park, ParkAdd, ParkKill, Unpark, UnparkRemove, Close, CloseRecord, CloseKill,
     CloseSay, Create, Rename, HideOrShow, SessionExits, CreateAnswered, CreateFails, others
<1>0. CloseSay(w) => ~ CreateAnswered(w)
  BY DEF CloseSay, CreateAnswered, Moves, WorldInv, WorldTypes
<1>3. CASE CloseSay(w)
  <2>1. Shown(w, Absent) /\ Absent \in Rows
    BY <1>3 DEF CloseSay, Unshown, Rows
  <2>2. \A c \in Clients : c \notin online => view[c][w] = Absent
    BY DEF KnownInv
  <2>. QED  BY <1>0, <1>1, <1>2, <1>3, <2>1, <2>2, ShownEffect
<1>4. CASE CreateAnswered(w)
  <2>. DEFINE row == [status |-> "idle", name |-> FolderName]
              c == creating[w]
  <2>1. view' = [view EXCEPT ![c][w] = row] /\ c \in Clients
    BY <1>4 DEF CreateAnswered, CreatesInv
  <2>2. row \in Rows
    <3>1. FolderName \in Names
      BY DEF FolderName, ConstantsOK
    <3>. QED  BY <3>1 DEF Rows, Statuses
  <2>. HIDE DEF row, c
  <2>3. \A d \in Clients : view[d] \in [Ids -> Rows]
    BY <1>1 DEF Screens
  <2>4. \A d \in Clients : view'[d] \in [Ids -> Rows] /\ (d # c => view'[d] = view[d])
    BY <1>1, <2>1, <2>2, <2>3 DEF Screens
  <2>5. view'[c] = [view[c] EXCEPT ![w] = row]
    BY <1>1, <2>1 DEF Screens
  <2>6. view' \in Screens
    BY <1>1, <2>1, <2>4 DEF Screens
  <2>7. view'[c][w] = row /\ \A d \in Clients, v \in Ids : view'[d][v] # view[d][v] => v = w /\ d = c
    BY <2>1, <2>3, <2>4, <2>5
  <2>. QED  BY <1>0, <1>2, <1>4, <2>6, <2>7 DEF c, row
<1>5. CASE ~ CloseSay(w) /\ ~ CreateAnswered(w)
  <2>1. view' = view
    BY <1>5 DEF Going, Park, ParkAdd, ParkKill, Unpark, UnparkRemove, Close, CloseRecord,
       CloseKill, Create, Rename, HideOrShow, SessionExits, CreateFails
  <2>. QED  BY <1>1, <1>2, <1>5, <2>1
<1>. QED  BY <1>2, <1>3, <1>4, <1>5

\* What a listing that is delivered shows.
LEMMA DeliveredEffect ==
  ASSUME WorldInv, ListsInv, KnownInv, NEW l \in Listings, ListAnswered(l) \/ Broadcast(l)
  PROVE  /\ view' \in Screens
         /\ lst[l].step = "stamped" /\ lst[l].kind \in {"list", "broadcast"}
         /\ \A c \in Clients, w \in Ids : view'[c][w] \notin {view[c][w], Absent} =>
              /\ c \in online /\ lst[l].seen[w] # Absent /\ view'[c][w] = lst[l].seen[w]
              /\ w \in Gone => w \in late'
              /\ lst[l].about = IF lst[l].kind = "list" THEN c ELSE w
<1>1. view \in Screens /\ \A w \in Ids : lst[l].step = "stamped" => lst[l].seen[w] \in Rows
  BY ReadyRows DEF KnownInv, Screens, Rows
<1>2. CASE ListAnswered(l)
  <2>. DEFINE shown == Without(lst[l].seen, lst[l].hide)
              a == lst[l].about
  <2>1. /\ lst[l].step = "stamped" /\ lst[l].kind = "list"
        /\ view' = [view EXCEPT ![a] = shown]
        /\ Lately({w \in Ids : shown[w] # Absent})
    BY <1>2 DEF ListAnswered, Lists
  <2>2. \A w \in Ids : shown[w] \in {lst[l].seen[w], Absent} /\ shown[w] \in Rows
    BY <1>1, <2>1 DEF Without, Rows
  <2>3. a \in online
    BY <2>1 DEF ListsInv
  <2>4. shown \in [Ids -> Rows]
    BY <2>2 DEF Without
  <2>5. \A w \in Ids : shown[w] # Absent /\ w \in Gone => w \in late'
    <3>. HIDE DEF shown
    <3>. QED  BY <2>1 DEF Lately
  <2>. HIDE DEF shown, a
  <2>6. view' \in Screens /\ \A c \in Clients : view'[c] = IF c = a THEN shown ELSE view[c]
    BY <1>1, <2>1, <2>4 DEF Screens
  <2>7. ASSUME NEW c \in Clients, NEW w \in Ids, view'[c][w] \notin {view[c][w], Absent}
        PROVE  c = a /\ view'[c][w] = shown[w] /\ shown[w] = lst[l].seen[w] /\ shown[w] # Absent
    BY <2>2, <2>6, <2>7
  <2>. QED  BY <2>1, <2>3, <2>5, <2>6, <2>7 DEF a
<1>3. CASE Broadcast(l)
  <2>. DEFINE a == lst[l].about
  <2>1. /\ lst[l].step = "stamped" /\ lst[l].kind = "broadcast"
        /\ \/ /\ lst[l].seen[a] # Absent
              /\ Shown(a, lst[l].seen[a]) /\ Lately(IF online # {} THEN {a} ELSE {})
           \/ view' = view
    BY <1>3 DEF Broadcast, Lists
  <2>2. CASE view' = view
    BY <1>1, <2>1, <2>2
  <2>3. CASE /\ lst[l].seen[a] # Absent
             /\ Shown(a, lst[l].seen[a]) /\ Lately(IF online # {} THEN {a} ELSE {})
    <3>0. \A c \in Clients : view'[c] =
            IF c \in online THEN [view[c] EXCEPT ![a] = lst[l].seen[a]] ELSE view[c]
      BY <2>3 DEF Shown
    <3>1. CASE a \in Ids
      <4>1. /\ view' \in Screens
            /\ \A c \in Clients, v \in Ids :
                 view'[c][v] = IF c \in online /\ v = a THEN lst[l].seen[a] ELSE view[c][v]
        BY <1>1, <2>1, <2>3, <3>1, ShownEffect
      <4>2. online # {} /\ a \in Gone => a \in late'
        BY <2>3 DEF Lately
      <4>. HIDE DEF a
      <4>. QED  BY <2>1, <2>3, <3>1, <4>1, <4>2 DEF a
    <3>2. CASE a \notin Ids
      <4>1. \A c \in Clients : view[c] \in [Ids -> Rows]
        BY <1>1 DEF Screens
      <4>2. \A c \in Clients : view'[c] = view[c]
        BY <3>0, <3>2, <4>1
      <4>3. view' \in Screens
        BY <1>1, <2>3, <4>2 DEF Shown, Screens
      <4>. QED  BY <2>1, <4>2, <4>3
    <3>. QED  BY <3>1, <3>2
  <2>. QED  BY <2>1, <2>2, <2>3
<1>. QED  BY <1>2, <1>3

LEMMA KnownStep ==
  ASSUME ConstantsOK, WorldInv, ListsInv, KnownInv, CreatesInv, [Next]_vars
  PROVE  KnownInv'
<1>1. view \in Screens
  BY DEF KnownInv, Screens, Rows
<1>2. minted \subseteq minted' /\ unwatched' \subseteq Ids /\ late' \subseteq Ids /\ online' \subseteq Clients
  BY MintedGrows, HistoryStep
<1>3. SUFFICES /\ known' \in [Ids -> Names \cup {Absent}] /\ view' \in Screens
               /\ \A w \in Ids : known'[w] # Absent => w \in minted'
               /\ \A c \in Clients, w \in Ids : view'[c][w] # Absent => w \in minted' /\ c \in online'
  BY <1>2 DEF KnownInv, Screens, Rows
<1>4. CASE Reading \/ Starting
  BY <1>1, <1>2, <1>4, StartingLeaves DEF KnownInv
<1>5. ASSUME NEW l \in Listings, ListAnswered(l) \/ Broadcast(l)
      PROVE  /\ known' \in [Ids -> Names \cup {Absent}] /\ view' \in Screens
             /\ \A w \in Ids : known'[w] # Absent => w \in minted'
             /\ \A c \in Clients, w \in Ids : view'[c][w] # Absent => w \in minted' /\ c \in online'
  <2>1. UNCHANGED <<known, online>>
    BY <1>5 DEF ListAnswered, Broadcast
  <2>. QED  BY <1>2, <1>5, <2>1, DeliveredEffect DEF KnownInv, ListsInv
<1>6. ASSUME NEW l \in Listings, TickNotes(l) \/ SweepGoesOn(l)
      PROVE  /\ known' \in [Ids -> Names \cup {Absent}] /\ view' \in Screens
             /\ \A w \in Ids : known'[w] # Absent => w \in minted'
             /\ \A c \in Clients, w \in Ids : view'[c][w] # Absent => w \in minted' /\ c \in online'
  <2>1. online' = online
    BY <1>6 DEF TickNotes, SweepGoesOn
  <2>2. PICK knows \in [Ids -> Names \cup {Absent}], views \in Screens :
          \E present \in [Ids -> Entries \cup {Absent}] :
             /\ Turn(l, knows, views, present)
             /\ \A w \in Ids : knows[w] # Absent => w \in minted
             /\ \A c \in Clients, w \in Ids :
                  views[c][w] # view[c][w] => c \in online /\ w \in minted
    BY <1>6, SweepTurn
  <2>3. /\ known' \in [Ids -> Names \cup {Absent}] /\ view' \in Screens
        /\ \A w \in Ids : known'[w] \in {knows[w], Absent}
        /\ \A w \in Ids, c \in Clients : view'[c][w] \in {views[c][w], Absent}
    BY <2>2, TurnEffect
  <2>. QED  BY <1>2, <2>1, <2>2, <2>3 DEF KnownInv
<1>7. CASE \E c \in Clients : Disconnect(c)
  <2>1. PICK c \in Clients : Disconnect(c)
    BY <1>7
  <2>2. Nothing \in [Ids -> Rows] /\ \A w \in Ids : Nothing[w] = Absent
    BY DEF Nothing, Rows
  <2>3. UNCHANGED known /\ online' = online \ {c} /\ view' = [view EXCEPT ![c] = Nothing]
    BY <2>1 DEF Disconnect
  <2>4. view' \in Screens /\ \A d \in Clients : view'[d] = IF d = c THEN Nothing ELSE view[d]
    BY <1>1, <2>2, <2>3 DEF Screens
  <2>. QED  BY <1>2, <2>2, <2>3, <2>4 DEF KnownInv
<1>8. ASSUME NEW w \in Ids, Going(w)
      PROVE  /\ known' \in [Ids -> Names \cup {Absent}] /\ view' \in Screens
             /\ \A v \in Ids : known'[v] # Absent => v \in minted'
             /\ \A c \in Clients, v \in Ids : view'[c][v] # Absent => v \in minted' /\ c \in online'
  <2>1. known' = known \/ known' = [known EXCEPT ![w] = Absent]
    BY <1>8 DEF Going, Park, ParkAdd, ParkKill, Unpark, UnparkRemove, Close, CloseRecord,
       CloseKill, CloseSay, Create, Rename, HideOrShow, SessionExits, CreateAnswered, CreateFails
  <2>2. /\ view' \in Screens /\ online' = online
        /\ \A c \in Clients, v \in Ids : view'[c][v] # view[c][v] =>
             v = w /\ ((CreateAnswered(w) /\ c = creating[w]) \/ CloseSay(w))
        /\ CloseSay(w) => \A c \in Clients : view'[c][w] = Absent
    BY <1>8, ScreenStep
  <2>3. CreateAnswered(w) => w \in minted /\ creating[w] \in online
    BY DEF CreateAnswered, CreatesInv
  <2>. QED  BY <1>2, <2>1, <2>2, <2>3 DEF KnownInv
<1>. QED  BY <1>4, <1>5, <1>6, <1>7, <1>8, EachStep

LEMMA RefreshedEffect ==
  ASSUME outdated \in [Clients -> SUBSET Ids], NEW ws, Refreshed(ws)
  PROVE  /\ outdated' \in [Clients -> SUBSET Ids]
         /\ \A c \in Clients, w \in Ids : w \in outdated[c] /\ w \notin ws => w \in outdated'[c]
BY DEF Refreshed

LEMMA CreatesStep ==
  ASSUME KnownInv, CreatesInv, [Next]_vars
  PROVE  CreatesInv'
<1>0. minted \subseteq minted'
  BY MintedGrows
<1>1. CASE Reading \/ Starting
  BY <1>0, <1>1, StartingLeaves DEF CreatesInv
<1>2. ASSUME NEW l \in Listings,
             ListAnswered(l) \/ Broadcast(l) \/ TickNotes(l) \/ SweepGoesOn(l)
      PROVE  CreatesInv'
  <2>1. UNCHANGED <<creating, minted, online>>
    BY <1>2 DEF ListAnswered, Broadcast, TickNotes, SweepGoesOn, world
  <2>2. \/ \E ws : Refreshed(ws)
        \/ UNCHANGED outdated
        \/ outdated' = [outdated EXCEPT ![lst[l].about] = {}]
    BY <1>2 DEF ListAnswered, Broadcast, TickNotes, SweepGoesOn
  <2>3. outdated' \in [Clients -> SUBSET Ids]
    BY <2>2, RefreshedEffect DEF CreatesInv
  <2>. QED  BY <2>1, <2>3 DEF CreatesInv
<1>3. ASSUME NEW c \in Clients, Disconnect(c) PROVE CreatesInv'
  <2>1. /\ UNCHANGED minted /\ online' = online \ {c}
        /\ creating' = [w \in Ids |-> IF creating[w] = c THEN Absent ELSE creating[w]]
        /\ outdated' = [outdated EXCEPT ![c] = {}]
    BY <1>3 DEF Disconnect
  <2>. QED  BY <2>1 DEF CreatesInv
<1>4. ASSUME NEW w \in Ids, NEW c \in Clients, Create(w, c) PROVE CreatesInv'
  <2>1. /\ creating' = [creating EXCEPT ![w] = c] /\ w \in minted' /\ c \in online
        /\ UNCHANGED <<online, outdated>>
    BY <1>4 DEF Create
  <2>. QED  BY <1>0, <2>1 DEF CreatesInv
<1>5. ASSUME NEW w \in Ids, CreateAnswered(w) \/ CreateFails(w) PROVE CreatesInv'
  <2>1. creating' = [creating EXCEPT ![w] = Absent] /\ UNCHANGED <<minted, online>>
    BY <1>5 DEF CreateAnswered, CreateFails
  <2>2. \/ UNCHANGED outdated
        \/ outdated' = [outdated EXCEPT ![creating[w]] = @ \cup {w}]
    BY <1>5 DEF CreateAnswered, CreateFails
  <2>3. outdated' \in [Clients -> SUBSET Ids]
    BY <2>2 DEF CreatesInv
  <2>. QED  BY <2>1, <2>3 DEF CreatesInv
<1>6. ASSUME NEW w \in Ids, Going(w), ~ (CreateAnswered(w) \/ CreateFails(w)),
             ~ \E c \in Clients : Create(w, c)
      PROVE  CreatesInv'
  <2>1. UNCHANGED <<creating, minted, online>>
    BY <1>6 DEF Going, Park, ParkAdd, ParkKill, Unpark, UnparkRemove, Close, CloseRecord,
       CloseKill, CloseSay, Rename, HideOrShow, SessionExits, others
  <2>2. UNCHANGED outdated \/ Refreshed({w})
    BY <1>6 DEF Going, Park, ParkAdd, ParkKill, Unpark, UnparkRemove, Close, CloseRecord,
       CloseKill, CloseSay, Rename, HideOrShow, SessionExits
  <2>3. outdated' \in [Clients -> SUBSET Ids]
    BY <2>2, RefreshedEffect DEF CreatesInv
  <2>. QED  BY <2>1, <2>3 DEF CreatesInv
<1>. QED  BY <1>1, <1>2, <1>3, <1>4, <1>5, <1>6, EachStep

-----------------------------------------------------------------------------
(* The poll sweeps only what it missed *)

\* What has moved on behind the listings' back, a workspace the poll knows and has not seen
\* is gone still, or the tick has been told.
LEMMA MissedKept ==
  ASSUME MissedInv, \A l \in Listings : Kept(l),
         \A w \in Ids : known'[w] # Absent => known[w] # Absent,
         \A w \in Ids, l \in Listings : known'[w] # Absent /\ lst[l].kind = "tick" =>
           /\ w \in tmux' => w \in tmux \/ (lst[l].step = "sessions" => w \in lst'[l].moved)
           /\ w \in Gone => w \in Gone' \/ w \in lst'[l].moved
  PROVE  MissedInv'
<1>1. SUFFICES ASSUME NEW l \in Listings, NEW w \in Ids,
                      lst'[l].kind = "tick", known'[w] # Absent, lst'[l].seen[w] = Absent
               PROVE  /\ lst'[l].step = "sessions" => w \notin tmux' \/ w \in lst'[l].moved
                      /\ lst'[l].step \in {"records", "stamped", "tail"}
                           => w \in Gone' \cup lst'[l].moved
  BY DEF MissedInv
<1>2. /\ lst[l].kind = "tick" /\ known[w] # Absent /\ lst[l].seen[w] = Absent
      /\ lst[l].step = lst'[l].step /\ lst[l].moved \subseteq lst'[l].moved
  BY <1>1 DEF Kept
<1>3. /\ lst[l].step = "sessions" => w \notin tmux \/ w \in lst[l].moved
      /\ lst[l].step \in {"records", "stamped", "tail"} => w \in Gone \cup lst[l].moved
  BY <1>2 DEF MissedInv
<1>. QED  BY <1>1, <1>2, <1>3

\* A listing that starts or is free again has missed nothing yet.
LEMMA MissedElse ==
  ASSUME MissedInv, UNCHANGED <<tmux, parked, minted, known>>,
         \A l \in Listings : lst'[l] = lst[l] \/ lst'[l].step = "start"
  PROVE  MissedInv'
BY DEF MissedInv, Gone, Alive, Recorded

LEMMA MissedReading ==
  ASSUME ConstantsOK, WorldInv, ListsInv, KnownInv, MissedInv, NEW l \in Listings,
         ListSessions(l) \/ ListRecords(l) \/ Stamp(l)
  PROVE  MissedInv'
<1>1. UNCHANGED <<tmux, parked, minted, known>>
  BY DEF ListSessions, ListRecords, Stamp, world
<1>2. Gone' = Gone
  BY <1>1 DEF Gone, Alive, Recorded
<1>3. /\ \A m \in Listings : m # l => lst'[m] = lst[m]
      /\ lst'[l].kind = lst[l].kind /\ lst'[l].moved = lst[l].moved
  BY ListSessionsEffect, ListRecordsEffect, StampEffect
<1>4. ASSUME NEW w \in Ids, lst'[l].kind = "tick", known[w] # Absent, lst'[l].seen[w] = Absent
      PROVE  /\ lst'[l].step = "sessions" => w \notin tmux \/ w \in lst'[l].moved
             /\ lst'[l].step \in {"records", "stamped", "tail"} => w \in Gone \cup lst'[l].moved
  <2>0. w \in minted
    BY <1>4 DEF KnownInv
  <2>1. CASE ListSessions(l)
    BY <1>4, <2>1, ListSessionsEffect
  <2>2. CASE ListRecords(l)
    <3>1. /\ lst'[l].step = "records" /\ lst[l].step = "sessions"
          /\ w \notin Recorded /\ lst[l].seen[w] = Absent
      BY <1>4, <2>2, ListRecordsEffect
    <3>2. w \notin tmux \/ w \in lst[l].moved
      BY <1>3, <1>4, <3>1 DEF MissedInv
    <3>. QED  BY <1>3, <2>0, <3>1, <3>2 DEF Gone, Alive
  <2>3. CASE Stamp(l)
    <3>1. /\ lst'[l].step = "stamped" /\ lst[l].step = "records" /\ lst[l].seen[w] = Absent
      BY <1>4, <2>3, StampEffect
    <3>. QED  BY <1>3, <1>4, <3>1 DEF MissedInv
  <2>. QED  BY <2>1, <2>2, <2>3
<1>5. ASSUME NEW m \in Listings, NEW w \in Ids, m # l,
             lst'[m].kind = "tick", known[w] # Absent, lst'[m].seen[w] = Absent
      PROVE  /\ lst'[m].step = "sessions" => w \notin tmux \/ w \in lst'[m].moved
             /\ lst'[m].step \in {"records", "stamped", "tail"} => w \in Gone \cup lst'[m].moved
  BY <1>3, <1>5 DEF MissedInv
<1>6. ASSUME NEW m \in Listings, NEW w \in Ids,
             lst'[m].kind = "tick", known'[w] # Absent, lst'[m].seen[w] = Absent
      PROVE  /\ lst'[m].step = "sessions" => w \notin tmux' \/ w \in lst'[m].moved
             /\ lst'[m].step \in {"records", "stamped", "tail"} => w \in Gone' \cup lst'[m].moved
  BY <1>1, <1>2, <1>4, <1>5, <1>6
<1>. QED  BY <1>6 DEF MissedInv

LEMMA MissedSweep ==
  ASSUME ConstantsOK, WorldInv, ListsInv, KnownInv, MissedInv, NEW l \in Listings,
         TickNotes(l) \/ SweepGoesOn(l)
  PROVE  MissedInv'
<1>1. UNCHANGED <<tmux, parked, minted>>
  BY DEF TickNotes, SweepGoesOn, world
<1>2. Gone' = Gone
  BY <1>1 DEF Gone, Alive, Recorded
<1>3. PICK knows \in [Ids -> Names \cup {Absent}], views \in Screens :
        \E present \in [Ids -> Entries \cup {Absent}] :
             /\ Turn(l, knows, views, present)
             /\ \A w \in Ids : present[w] = Absent => /\ knows[w] = known[w]
                                                      /\ w \in hidden \/ lst[l].seen[w] = Absent
  BY SweepTurn
<1>4. PICK present \in [Ids -> Entries \cup {Absent}] :
             /\ Turn(l, knows, views, present)
             /\ \A w \in Ids : present[w] = Absent => /\ knows[w] = known[w]
                                                      /\ w \in hidden \/ lst[l].seen[w] = Absent
  BY <1>3
<1>5. \A w \in Ids : known'[w] \in {knows[w], Absent}
  BY <1>4, TurnEffect
<1>6. lst[l].kind = "tick" /\ lst[l].step \in {"stamped", "tail"}
  BY TickEffect, TailEffect DEF ListsInv
<1>7. ASSUME NEW w \in Ids, lst'[l].kind = "tick", known'[w] # Absent, lst'[l].seen[w] = Absent
      PROVE  /\ lst'[l].step = "sessions" => w \notin tmux' \/ w \in lst'[l].moved
             /\ lst'[l].step \in {"records", "stamped", "tail"} => w \in Gone' \cup lst'[l].moved
  <2>1. /\ lst'[l].step = "tail" /\ lst'[l].seen = present
        /\ lst'[l].moved = lst[l].moved \cup hidden
    BY <1>4, <1>7, IdleType DEF Turn
  <2>2. known[w] # Absent /\ (w \in hidden \/ lst[l].seen[w] = Absent)
    BY <1>4, <1>5, <1>7, <2>1
  <2>3. lst[l].seen[w] = Absent => w \in Gone \cup lst[l].moved
    BY <1>6, <2>2 DEF MissedInv
  <2>. QED  BY <1>2, <2>1, <2>2, <2>3
<1>8. ASSUME NEW m \in Listings, NEW w \in Ids, m # l,
             lst'[m].kind = "tick", known'[w] # Absent, lst'[m].seen[w] = Absent
      PROVE  /\ lst'[m].step = "sessions" => w \notin tmux' \/ w \in lst'[m].moved
             /\ lst'[m].step \in {"records", "stamped", "tail"} => w \in Gone' \cup lst'[m].moved
  <2>1. /\ lst[m].kind = "tick" /\ lst'[m].step = lst[m].step /\ lst[m].seen[w] = Absent
        /\ lst[m].moved \subseteq lst'[m].moved
        /\ known[w] = Absent /\ knows[w] # Absent => w \in lst'[m].moved
    BY <1>4, <1>8 DEF Turn
  <2>2. known[w] # Absent => /\ lst[m].step = "sessions" => w \notin tmux \/ w \in lst[m].moved
                             /\ lst[m].step \in {"records", "stamped", "tail"}
                                  => w \in Gone \cup lst[m].moved
    BY <2>1 DEF MissedInv
  <2>. QED  BY <1>1, <1>2, <1>5, <1>8, <2>1, <2>2
<1>9. ASSUME NEW m \in Listings, NEW w \in Ids,
             lst'[m].kind = "tick", known'[w] # Absent, lst'[m].seen[w] = Absent
      PROVE  /\ lst'[m].step = "sessions" => w \notin tmux' \/ w \in lst'[m].moved
             /\ lst'[m].step \in {"records", "stamped", "tail"} => w \in Gone' \cup lst'[m].moved
  BY <1>7, <1>8, <1>9
<1>. QED  BY <1>9 DEF MissedInv

\* A session that starts, or a record that comes back, is told to the ticks it passes.
LEMMA MissedGoing ==
  ASSUME ConstantsOK, WorldInv, ListsInv, KnownInv, MissedInv, NEW w \in Ids, Going(w)
  PROVE  MissedInv'
<1>1. /\ \A l \in Listings : Kept(l)
      /\ ParkAdd(w) /\ w \in Gone => \A l \in Listings : w \in lst'[l].moved
      /\ Unpark(w) => \A l \in Listings :
              lst[l].kind # "none" /\ lst[l].step = "sessions" => w \in lst'[l].moved
  BY MovesLeave DEF Going
<1>2. \A v \in Ids : known'[v] # Absent => known[v] # Absent
  <2>1. known' = known \/ known' = [known EXCEPT ![w] = Absent]
    BY DEF Going, Park, ParkAdd, ParkKill, Unpark, UnparkRemove, Close, CloseRecord,
       CloseKill, CloseSay, Create, Rename, HideOrShow, SessionExits, CreateAnswered, CreateFails
  <2>. QED  BY <2>1 DEF KnownInv
<1>3. parked \in [Ids -> Names \cup {Absent}]
  BY DEF WorldInv, WorldTypes
<1>4. CASE ParkAdd(w)
  <2>1. UNCHANGED <<tmux, minted>> /\ parked' = [parked EXCEPT ![w] = snapshot[w]]
    BY <1>4 DEF ParkAdd, others
  <2>2. \A v \in Ids : v \in Gone => v \in Gone' \/ (v = w /\ w \in Gone)
    BY <1>3, <2>1 DEF Gone, Alive, Recorded
  <2>. QED  BY <1>1, <1>2, <1>4, <2>1, <2>2, MissedKept
<1>5. CASE Unpark(w)
  <2>1. UNCHANGED <<minted, parked>> /\ tmux' = tmux \cup {w} /\ parked[w] # Absent
    BY <1>5 DEF Unpark, names, others
  <2>2. \A v \in Ids : v \in Gone => v \in Gone'
    BY <2>1 DEF Gone, Alive, Recorded
  <2>3. \A v \in Ids : v \in tmux' => v \in tmux \/ v = w
    BY <2>1
  <2>. QED  BY <1>1, <1>2, <1>5, <2>2, <2>3, MissedKept
<1>6. CASE \E c \in Clients : Create(w, c)
  <2>1. UNCHANGED parked /\ minted' = minted \cup {w} /\ tmux' = tmux \cup {w} /\ w \notin minted
    BY <1>6 DEF Create, names
  <2>2. known[w] = Absent
    BY <2>1 DEF KnownInv
  <2>3. \A v \in Ids : known[v] # Absent => /\ v \in tmux' => v \in tmux
                                            /\ v \in Gone => v \in Gone'
    BY <2>1, <2>2 DEF Gone, Alive, Recorded
  <2>. QED  BY <1>1, <1>2, <2>3, MissedKept
<1>7. CASE ~ ParkAdd(w) /\ ~ Unpark(w) /\ ~ \E c \in Clients : Create(w, c)
  <2>1. minted' = minted /\ tmux' \subseteq tmux /\ (parked' = parked \/ parked' = [parked EXCEPT ![w] = Absent])
    BY <1>7 DEF Going, Park, ParkKill, UnparkRemove, Close, CloseRecord, CloseKill, CloseSay,
       Rename, HideOrShow, SessionExits, CreateAnswered, CreateFails, names, others
  <2>2. \A v \in Ids : v \in Gone => v \in Gone'
    BY <1>3, <2>1 DEF Gone, Alive, Recorded
  <2>. QED  BY <1>1, <1>2, <2>1, <2>2, MissedKept
<1>. QED  BY <1>4, <1>5, <1>6, <1>7

LEMMA MissedStep ==
  ASSUME ConstantsOK, WorldInv, ListsInv, KnownInv, MissedInv, [Next]_vars
  PROVE  MissedInv'
<1>1. CASE UNCHANGED vars
  BY <1>1, MissedElse DEF vars
<1>2. CASE \E l \in Listings : ListSessions(l) \/ ListRecords(l) \/ Stamp(l)
  BY <1>2, MissedReading
<1>3. CASE Starting
  <2>1. UNCHANGED <<tmux, parked, minted, known>>
    BY <1>3, StartingLeaves
  <2>2. \A l \in Listings : lst'[l] = lst[l] \/ lst'[l].step = "start"
    BY <1>3, NewListing DEF Starting, Fresh
  <2>. QED  BY <2>1, <2>2, MissedElse
<1>4. CASE \E l \in Listings : ListAnswered(l) \/ Broadcast(l)
  <2>1. UNCHANGED <<tmux, parked, minted, known>>
    BY <1>4 DEF ListAnswered, Broadcast, world
  <2>2. \A l \in Listings : lst'[l] = lst[l] \/ lst'[l].step = "start"
    BY <1>4, DoneListing, IdleType
  <2>. QED  BY <2>1, <2>2, MissedElse
<1>5. CASE \E c \in Clients : Disconnect(c)
  <2>1. UNCHANGED <<tmux, parked, minted, known>>
    BY <1>5 DEF Disconnect, world
  <2>2. \A l \in Listings : lst'[l] = lst[l] \/ lst'[l].step = "start"
    BY <1>5, DoneListing, IdleType
  <2>. QED  BY <2>1, <2>2, MissedElse
<1>. QED  BY <1>1, <1>2, <1>3, <1>4, <1>5, EachStep, MissedSweep, MissedGoing DEF Reading

\* What a turn of the sweep forgets, it has missed.
LEMMA SweepsOnly ==
  ASSUME ConstantsOK, WorldInv, ListsInv, KnownInv, MissedInv
  PROVE  SweepsOnlyTheMissed
<1>1. SUFFICES ASSUME NEW l \in Listings, NEW w \in Ids, Swept(l, w)
               PROVE  w \in Gone \cup hidden \cup lst[l].moved
  BY DEF SweepsOnlyTheMissed
<1>2. TickNotes(l) \/ SweepGoesOn(l)
  BY <1>1 DEF Swept
<1>3. PICK knows \in [Ids -> Names \cup {Absent}], views \in Screens :
        \E present \in [Ids -> Entries \cup {Absent}] :
             /\ Turn(l, knows, views, present)
             /\ \A v \in Ids : /\ present[v] = Absent => v \in hidden \/ lst[l].seen[v] = Absent
                               /\ known[v] # Absent => knows[v] # Absent
  BY <1>2, SweepTurn
<1>4. PICK present \in [Ids -> Entries \cup {Absent}] :
             /\ Turn(l, knows, views, present)
             /\ \A v \in Ids : /\ present[v] = Absent => v \in hidden \/ lst[l].seen[v] = Absent
                               /\ known[v] # Absent => knows[v] # Absent
  BY <1>3
<1>5. present[w] = Absent /\ known[w] # Absent
  <2>1. known'[w] = Absent /\ known[w] # Absent
    BY <1>1 DEF Swept
  <2>2. known'[w] # knows[w]
    BY <1>4, <2>1
  <2>. QED  BY <1>4, <2>1, <2>2, TurnEffect
<1>6. lst[l].kind = "tick" /\ lst[l].step \in {"stamped", "tail"}
  BY <1>2, TickEffect, TailEffect DEF ListsInv
<1>. QED  BY <1>4, <1>5, <1>6 DEF MissedInv

-----------------------------------------------------------------------------
(* A ghost is on its way out *)

LEMMA DoomedStep ==
  ASSUME ConstantsOK, WorldInv, ListsInv, KnownInv, CreatesInv, DoomedInv, [Next]_vars
  PROVE  DoomedInv'
<1>0. /\ unwatched \subseteq unwatched' /\ late \subseteq late'
      /\ parked \in [Ids -> Names \cup {Absent}] /\ known \in [Ids -> Names \cup {Absent}]
      /\ move \in [Ids -> Stages]
  BY HistoryStep DEF WorldInv, WorldTypes, KnownInv
<1>. DEFINE Doomed(w) == \/ known[w] # Absent \/ w \in unwatched \cup late
                         \/ move[w] \in {"closeRecord", "closeKill", "closeSay"}
            Will(w) == \/ known'[w] # Absent \/ w \in unwatched' \cup late'
                       \/ move'[w] \in {"closeRecord", "closeKill", "closeSay"}
<1>1. \A c \in Clients, w \in Ids : w \in Gone /\ view[c][w] # Absent => Doomed(w)
  BY DEF DoomedInv, Ghost, KnownInv
<1>2. SUFFICES \A c \in Clients, w \in Ids :
                 c \in online' /\ w \in Gone' /\ view'[c][w] # Absent => Will(w)
  BY DEF DoomedInv, Ghost
<1>3. CASE Reading \/ Starting
  <2>1. UNCHANGED <<known, view, tmux, parked, minted>>
    BY <1>3, StartingLeaves
  <2>2. \A w \in Ids : move'[w] = move[w] \/ move[w] \in {"label", "relabel"}
    BY <1>0, <1>3 DEF Reading, Starting, ListSessions, ListRecords, Stamp, vars, world, Tick, Connect,
       StatusChanges, ParkLabel, UnparkLabel, Moves
  <2>3. Gone' = Gone
    BY <2>1 DEF Gone, Alive, Recorded
  <2>. QED  BY <1>0, <1>1, <2>1, <2>2, <2>3
<1>4. CASE \E l \in Listings : ListAnswered(l) \/ Broadcast(l)
  <2>1. UNCHANGED <<known, tmux, parked, minted, move>>
    BY <1>4 DEF ListAnswered, Broadcast, world
  <2>2. Gone' = Gone
    BY <2>1 DEF Gone, Alive, Recorded
  <2>3. \A c \in Clients, w \in Ids : view'[c][w] \notin {view[c][w], Absent} /\ w \in Gone => w \in late'
    BY <1>4, DeliveredEffect
  <2>. QED  BY <1>0, <1>1, <2>1, <2>2, <2>3
<1>5. ASSUME NEW l \in Listings, TickNotes(l) \/ SweepGoesOn(l)
      PROVE  \A c \in Clients, w \in Ids :
                 c \in online' /\ w \in Gone' /\ view'[c][w] # Absent => Will(w)
  <2>1. UNCHANGED <<tmux, parked, minted, move>>
    BY <1>5 DEF TickNotes, SweepGoesOn, world
  <2>2. Gone' = Gone
    BY <2>1 DEF Gone, Alive, Recorded
  <2>3. PICK knows \in [Ids -> Names \cup {Absent}], views \in Screens :
          \E present \in [Ids -> Entries \cup {Absent}] :
             /\ Turn(l, knows, views, present)
             /\ \A w \in Ids : known[w] # Absent => knows[w] # Absent
             /\ \A c \in Clients, w \in Ids : views[c][w] # view[c][w] => knows[w] # Absent
    BY <1>5, SweepTurn
  <2>4. /\ \A w \in Ids, c \in Clients : view'[c][w] \in {views[c][w], Absent}
        /\ \A w \in Ids : known'[w] # knows[w] => \A c \in Clients : view'[c][w] = Absent
    BY <2>3, TurnEffect
  <2>. QED  BY <1>0, <1>1, <2>1, <2>2, <2>3, <2>4
<1>6. CASE \E c \in Clients : Disconnect(c)
  <2>1. UNCHANGED <<known, tmux, parked, minted, move>>
    BY <1>6 DEF Disconnect, world
  <2>2. Gone' = Gone
    BY <2>1 DEF Gone, Alive, Recorded
  <2>3. \A c \in Clients, w \in Ids : view'[c][w] \in {view[c][w], Absent}
    BY <1>6 DEF Disconnect, KnownInv, Nothing
  <2>. QED  BY <1>0, <1>1, <2>1, <2>2, <2>3
<1>7. ASSUME NEW w \in Ids, Going(w)
      PROVE  \A c \in Clients, v \in Ids :
                 c \in online' /\ v \in Gone' /\ view'[c][v] # Absent => Will(v)
  <2>1. /\ online' = online
        /\ \A c \in Clients, v \in Ids : view'[c][v] # view[c][v] => v = w
        /\ CloseSay(w) => \A c \in Clients : view'[c][w] = Absent
    BY <1>7, ScreenStep
  <2>2. /\ \A v \in Ids : v # w => move'[v] = move[v] /\ known'[v] = known[v]
        /\ tmux' \cup {w} = tmux \cup {w} /\ minted' \cup {w} = minted \cup {w}
        /\ \A v \in Ids : v # w => parked'[v] = parked[v]
    BY <1>0, <1>7 DEF Going, Park, ParkAdd, ParkKill, Unpark, UnparkRemove, Close, CloseRecord,
       CloseKill, CloseSay, Create, Rename, HideOrShow, SessionExits, CreateAnswered,
       CreateFails, Moves, names, others
  <2>3. ASSUME NEW v \in Ids, v # w PROVE v \in Gone' <=> v \in Gone
    BY <2>2, <2>3 DEF Gone, Alive, Recorded
  <2>4. \A c \in Clients, v \in Ids : v # w /\ v \in Gone' /\ view'[c][v] # Absent => Will(v)
    BY <1>0, <1>1, <2>1, <2>2, <2>3
  <2>5. ASSUME NEW c \in Clients, w \in Gone', view'[c][w] # Absent PROVE Will(w)
    <3>1. CASE \E restorable \in BOOLEAN : Park(w, restorable)
      <4>1. UNCHANGED <<tmux, parked, minted, view>> /\ (w \in Gone => w \in unwatched')
        BY <3>1 DEF Park, others
      <4>2. w \in Gone
        BY <2>5, <4>1 DEF Gone, Alive, Recorded
      <4>. QED  BY <4>1, <4>2
    <3>2. CASE ParkAdd(w)
      <4>1. UNCHANGED <<tmux, minted, view, known>> /\ parked' = [parked EXCEPT ![w] = snapshot[w]]
            /\ move[w] = "add"
        BY <3>2 DEF ParkAdd, others, Moves
      <4>2. parked'[w] # Absent
        BY <1>0, <4>1 DEF WorldInv, Moving
      <4>. QED  BY <2>5, <4>2 DEF Gone, Alive, Recorded
    <3>3. CASE ParkKill(w)
      <4>1. parked' = parked /\ parked[w] # Absent
        BY <3>3 DEF ParkKill, names, Moves, WorldInv, Moving
      <4>. QED  BY <2>5, <4>1 DEF Gone, Alive, Recorded
    <3>4. CASE Unpark(w) \/ \E d \in Clients : Create(w, d)
      <4>1. w \in tmux'
        BY <3>4 DEF Unpark, Create
      <4>. QED  BY <2>5, <4>1 DEF Gone, Alive
    <3>5. CASE UnparkRemove(w)
      <4>1. /\ w \notin tmux /\ known[w] = Absent => w \in unwatched'
            /\ UNCHANGED <<tmux, known>>
        BY <3>5 DEF UnparkRemove
      <4>. QED  BY <2>5, <4>1 DEF Gone, Alive
    <3>6. CASE Close(w) \/ CloseRecord(w) \/ CloseKill(w)
      <4>1. move'[w] \in {"closeRecord", "closeKill", "closeSay"}
        BY <1>0, <3>6 DEF Close, CloseRecord, CloseKill, Moves
      <4>. QED  BY <4>1
    <3>7. CASE CloseSay(w)
      BY <2>1, <2>5, <3>7
    <3>8. CASE (\E n \in Names : Rename(w, n)) \/ HideOrShow(w)
      <4>1. UNCHANGED <<tmux, parked, minted, view, known, move>>
        BY <3>8 DEF Rename, HideOrShow, names, others
      <4>2. w \in Gone
        BY <2>5, <4>1 DEF Gone, Alive, Recorded
      <4>. QED  BY <1>0, <1>1, <2>5, <4>1, <4>2
    <3>9. CASE SessionExits(w)
      <4>1. /\ known[w] = Absent /\ parked[w] = Absent => w \in unwatched'
            /\ UNCHANGED <<parked, known>>
        BY <3>9 DEF SessionExits, names
      <4>. QED  BY <2>5, <4>1 DEF Gone, Alive, Recorded
    <3>10. CASE CreateAnswered(w) \/ CreateFails(w)
      <4>1. UNCHANGED <<tmux, parked, minted, known, move>>
        BY <3>10 DEF CreateAnswered, CreateFails, names
      <4>2. w \in Gone
        BY <2>5, <4>1 DEF Gone, Alive, Recorded
      <4>3. view' = view \/ w \in late'
        BY <3>10, <4>2 DEF CreateAnswered, CreateFails, Lately
      <4>. QED  BY <1>0, <1>1, <2>5, <4>1, <4>2, <4>3
    <3>. QED  BY <1>7, <3>1, <3>2, <3>3, <3>4, <3>5, <3>6, <3>7, <3>8, <3>9, <3>10 DEF Going
  <2>. QED  BY <2>4, <2>5
<1>. QED  BY <1>3, <1>4, <1>5, <1>6, <1>7, EachStep

-----------------------------------------------------------------------------
(* The latest status is shown *)

\* What a workspace nothing is being done to is labelled.
Steady(w) == w \in Alive /\ move[w] = "none"

AnswerAwaited(w) == \E l \in Listings : lst[l].kind = "broadcast" /\ lst[l].about = w

\* What a listing has of such a workspace is its label, or will be; a broadcast about it
\* finds it.
ReadRight(l, w) ==
  /\ lst[l].step = "sessions" /\ lst[l].seen[w] # Absent => lst[l].seen[w].status = "unread"
  /\ lst[l].kind = "broadcast" /\ lst[l].about = w => w \in minted
  /\ Steady(w) =>
       /\ lst[l].step = "records" /\ lst[l].seen[w] # Absent =>
            lst[l].seen[w].status = IF parked[w] # Absent THEN "parked" ELSE "unread"
       /\ lst[l].step = "stamped" /\ lst[l].seen[w] # Absent => lst[l].seen[w].status = Label(w)
       /\ lst[l].kind = "broadcast" /\ lst[l].about = w =>
            \/ lst[l].step = "start" \/ lst[l].seen[w] # Absent
            \/ lst[l].step = "sessions" /\ parked[w] # Absent

SettledInv ==
  /\ hidden = {}
  /\ \A l \in Listings, w \in Ids : ReadRight(l, w)
  /\ \A c \in online, w \in Ids : Steady(w) /\ view[c][w] # Absent =>
       view[c][w].status = Label(w) \/ AnswerAwaited(w) \/ w \in outdated[c]

\* A label changes with a broadcast about it, or the workspace is new.
LEMMA SteadyStep ==
  ASSUME WorldInv, lst \in [Listings -> InFlight], [Next]_vars, NEW w \in Ids, Steady(w)'
  PROVE  \/ /\ Steady(w) /\ Label(w)' = Label(w)
            /\ parked'[w] # Absent <=> parked[w] # Absent
         \/ /\ UNCHANGED view /\ w \in minted
            /\ \E l \in Listings : /\ Fresh(lst'[l])
                                   /\ lst'[l].kind = "broadcast" /\ lst'[l].about = w
         \/ \E c \in Clients : Create(w, c)
<1>0. /\ parked \in [Ids -> Names \cup {Absent}] /\ move \in [Ids -> Stages]
      /\ status \in [Ids -> Statuses] /\ Moving(w) /\ (w \notin minted => Unborn(w))
  BY DEF WorldInv, WorldTypes
<1>1. CASE /\ w \in Alive /\ move'[w] = move[w] /\ status'[w] = status[w]
           /\ parked'[w] = parked[w]
  BY <1>1 DEF Steady, Label
<1>2. ASSUME NEW l \in Listings, NEW v \in Ids, NEW s, SetStatus(l, v, s),
             UNCHANGED <<tmux, parked, view, minted>>, move'[w] = move[w] \/ (v = w /\ w \in minted)
      PROVE  \/ /\ w \in Alive /\ move'[w] = move[w] /\ status'[w] = status[w]
                /\ parked'[w] = parked[w]
             \/ /\ UNCHANGED view /\ w \in minted
                /\ \E m \in Listings : /\ Fresh(lst'[m])
                                       /\ lst'[m].kind = "broadcast" /\ lst'[m].about = w
  <2>1. w \in Alive
    BY <1>2 DEF Steady, Alive, Recorded
  <2>2. CASE v = w
    <3>1. w \in minted
      BY <1>0, <2>1 DEF Alive, Recorded, Unborn
    <3>2. lst' = [lst EXCEPT ![l] = [Idle EXCEPT !.kind = "broadcast", !.about = w]]
      BY <1>2, <2>2 DEF SetStatus
    <3>. QED  BY <1>2, <3>1, <3>2, Starts
  <2>3. CASE v # w
    BY <1>0, <1>2, <2>1, <2>3 DEF SetStatus
  <2>. QED  BY <2>2, <2>3
<1>3. ASSUME UNCHANGED <<tmux, parked, status, move>>
      PROVE  Steady(w) /\ Label(w)' = Label(w) /\ parked' = parked
  BY <1>3 DEF Steady, Label, Alive, Recorded
<1>4. CASE Reading \/ \E l \in Listings : Tick(l) \/ \E c \in Clients : Connect(c, l)
  BY <1>3, <1>4 DEF Reading, ListSessions, ListRecords, Stamp, Tick, Connect, vars, world
<1>5. CASE \/ \E l \in Listings : ListAnswered(l) \/ Broadcast(l) \/ TickNotes(l) \/ SweepGoesOn(l)
           \/ \E c \in Clients : Disconnect(c)
  BY <1>3, <1>5 DEF ListAnswered, Broadcast, TickNotes, SweepGoesOn, Disconnect, world
<1>6. ASSUME NEW l \in Listings, NEW v \in Ids,
             (\E s \in Statuses : StatusChanges(l, v, s)) \/ ParkLabel(l, v) \/ UnparkLabel(l, v)
      PROVE  \/ /\ w \in Alive /\ move'[w] = move[w] /\ status'[w] = status[w]
                /\ parked'[w] = parked[w]
             \/ /\ UNCHANGED view /\ w \in minted
                /\ \E m \in Listings : /\ Fresh(lst'[m])
                                       /\ lst'[m].kind = "broadcast" /\ lst'[m].about = w
  <2>1. UNCHANGED <<tmux, parked, view, minted>>
    BY <1>6 DEF StatusChanges, ParkLabel, UnparkLabel, names, others
  <2>2. move'[w] = move[w] \/ (v = w /\ w \in minted)
    BY <1>0, <1>6 DEF StatusChanges, ParkLabel, UnparkLabel, Moves, Unborn
  <2>3. \E s : SetStatus(l, v, s)
    BY <1>6 DEF StatusChanges, ParkLabel, UnparkLabel
  <2>. QED  BY <1>2, <2>1, <2>2, <2>3
<1>7. ASSUME NEW v \in Ids, Going(v), ~ \E c \in Clients : Create(v, c)
      PROVE  /\ w \in Alive /\ move'[w] = move[w] /\ status'[w] = status[w]
             /\ parked'[w] = parked[w]
  <2>1. status' = status
    BY <1>7 DEF Going, Park, ParkAdd, ParkKill, Unpark, UnparkRemove, Close, CloseRecord,
       CloseKill, CloseSay, Rename, HideOrShow, SessionExits, CreateAnswered, CreateFails, names
  <2>2. CASE v # w
    BY <1>0, <1>7, <2>1, <2>2 DEF Going, Park, ParkAdd, ParkKill, Unpark, UnparkRemove, Close,
       CloseRecord, CloseKill, CloseSay, Rename, HideOrShow, SessionExits, CreateAnswered,
       CreateFails, Moves, names, others,
       Steady, Alive, Recorded
  <2>3. CASE v = w
    <3>1. CASE ParkAdd(w) \/ ParkKill(w) \/ Unpark(w) \/ UnparkRemove(w) \/ CloseRecord(w) \/ CloseKill(w) \/ Close(w)
      <4>1. move'[w] # "none"
        BY <1>0, <3>1 DEF ParkAdd, ParkKill, Unpark, UnparkRemove, CloseRecord, CloseKill, Close, Moves
      <4>. QED  BY <4>1 DEF Steady
    <3>2. CASE CloseSay(w)
      BY <1>0, <3>2 DEF CloseSay, Moves, Moving, Steady, Alive, Recorded, names
    <3>3. CASE \E restorable \in BOOLEAN : Park(w, restorable)
      BY <1>0, <2>1, <3>3 DEF Park, Moves, Steady, Alive, Recorded, names
    <3>4. CASE \/ SessionExits(w) \/ HideOrShow(w) \/ CreateAnswered(w) \/ CreateFails(w)
               \/ \E n \in Names : Rename(w, n)
      BY <1>0, <2>1, <3>4 DEF SessionExits, HideOrShow, CreateAnswered, CreateFails, Rename,
         Steady, Alive, Recorded, names
    <3>. QED  BY <1>7, <2>3, <3>1, <3>2, <3>3, <3>4 DEF Going
  <2>. QED  BY <2>2, <2>3
<1>8. ASSUME NEW v \in Ids, NEW c \in Clients, Create(v, c), v # w
      PROVE  /\ w \in Alive /\ move'[w] = move[w] /\ status'[w] = status[w]
             /\ parked'[w] = parked[w]
  BY <1>8 DEF Create, names, Steady, Alive, Recorded
<1>. QED
  <2>1. CASE Reading \/ Starting
    BY <1>1, <1>4, <1>6, <2>1 DEF Starting
  <2>2. CASE \E v \in Ids : Going(v)
    BY <1>1, <1>7, <1>8, <2>2
  <2>. QED  BY <1>5, <2>1, <2>2, EachStep

\* What a broadcast shows.
LEMMA BroadcastEffect ==
  ASSUME KnownInv, hidden = {}, NEW l \in Listings, Broadcast(l), NEW w \in Ids,
         lst[l].about = w, lst[l].seen[w] # Absent
  PROVE  \A c \in online : view'[c][w] = lst[l].seen[w]
<1>1. Shown(w, lst[l].seen[w]) /\ online \subseteq Clients
  BY DEF Broadcast, KnownInv
<1>2. \A c \in Clients : view[c] \in [Ids -> Rows]
  BY DEF KnownInv, Rows
<1>. QED  BY <1>1, <1>2 DEF Shown

LEMMA ReadStep ==
  ASSUME ConstantsOK, WorldInv, ListsInv, KnownInv, SettledInv, [Next]_vars,
         NEW l \in Listings, Listings = {l}, NEW w \in Ids
  PROVE  ReadRight(l, w)'
<1>0. /\ ReadRight(l, w) /\ lst \in [Listings -> InFlight] /\ minted \subseteq minted'
      /\ lst[l].seen[w] # Absent => w \in minted
  BY MintedGrows DEF SettledInv, ListsInv
<1>1. Steady(w)' => \/ /\ Steady(w) /\ Label(w)' = Label(w)
                       /\ parked'[w] # Absent <=> parked[w] # Absent
                    \/ Fresh(lst'[l]) /\ w \in minted
                    \/ \E c \in Clients : Create(w, c)
  <2>1. \A m \in Listings : m = l
    OBVIOUS
  <2>. QED  BY <1>0, <2>1, SteadyStep
<1>2. CASE Fresh(lst'[l]) /\ (lst'[l].kind = "broadcast" /\ lst'[l].about = w => w \in minted')
  BY <1>2 DEF ReadRight, Fresh
<1>3. CASE \E c \in Clients : Create(w, c)
  <2>1. lst' = lst /\ w \notin minted /\ w \in minted'
    BY <1>3 DEF Create
  <2>2. lst[l].seen[w] = Absent /\ ~ (lst[l].kind = "broadcast" /\ lst[l].about = w)
    BY <1>0, <2>1 DEF ReadRight
  <2>. QED  BY <2>1, <2>2 DEF ReadRight
<1>4. SUFFICES ASSUME ~ (Fresh(lst'[l]) /\ w \in minted'), ~ \E c \in Clients : Create(w, c)
               PROVE  ReadRight(l, w)'
  BY <1>2, <1>3
<1>5. Steady(w)' => /\ Steady(w) /\ Label(w)' = Label(w)
                    /\ parked'[w] # Absent <=> parked[w] # Absent
  BY <1>0, <1>1, <1>4
<1>6. CASE Kept(l)
  BY <1>0, <1>5, <1>6 DEF Kept, ReadRight
<1>7. CASE Reading
  <2>1. CASE UNCHANGED vars
    BY <1>6, <2>1 DEF vars, Kept
  <2>2. CASE ListSessions(l)
    <3>1. /\ lst'[l].step = "sessions" /\ lst'[l].kind = lst[l].kind /\ lst'[l].about = lst[l].about
          /\ lst'[l].seen[w] # Absent <=> w \in tmux
          /\ w \in tmux => lst'[l].seen[w].status = "unread"
      BY <2>2, ListSessionsEffect
    <3>2. Steady(w) /\ w \notin tmux => parked[w] # Absent
      BY DEF Steady, Alive, Recorded
    <3>. QED  BY <1>0, <1>5, <3>1, <3>2 DEF ReadRight
  <2>3. CASE ListRecords(l)
    <3>1. /\ lst'[l].step = "records" /\ lst[l].step = "sessions"
          /\ lst'[l].kind = lst[l].kind /\ lst'[l].about = lst[l].about
          /\ parked[w] # Absent => lst'[l].seen[w] # Absent /\ lst'[l].seen[w].status = "parked"
          /\ parked[w] = Absent => lst'[l].seen[w] = lst[l].seen[w]
      BY <2>3, ListRecordsEffect DEF Recorded
    <3>. QED  BY <1>0, <1>5, <3>1 DEF ReadRight
  <2>4. CASE Stamp(l)
    <3>1. /\ lst'[l].step = "stamped" /\ lst[l].step = "records"
          /\ lst'[l].kind = lst[l].kind /\ lst'[l].about = lst[l].about
          /\ lst'[l].seen[w] = Absent <=> lst[l].seen[w] = Absent
          /\ lst[l].seen[w] # Absent =>
                lst'[l].seen[w].status = IF lst[l].seen[w].status = "unread"
                                         THEN status[w] ELSE lst[l].seen[w].status
      BY <2>4, StampEffect
    <3>. QED  BY <1>0, <1>5, <3>1 DEF ReadRight, Label
  <2>. QED  BY <1>7, <2>1, <2>2, <2>3, <2>4 DEF Reading
<1>8. CASE \E m \in Listings : TickNotes(m) \/ SweepGoesOn(m)
  <2>1. TickNotes(l) \/ SweepGoesOn(l)
    BY <1>8
  <2>2. lst[l].kind = "tick"
    BY <2>1, TickEffect, TailEffect DEF ListsInv
  <2>3. lst'[l] = Idle \/ (lst'[l].kind = "tick" /\ lst'[l].step = "tail")
    <3>1. \E knows, views, present : Turn(l, knows, views, present)
      BY <2>1, SweepTurn
    <3>. QED  BY <2>2, <3>1 DEF Turn
  <2>4. CASE lst'[l] = Idle
    BY <1>2, <2>4, Starts
  <2>. QED  BY <2>3, <2>4 DEF ReadRight
<1>9. CASE Starting
  <2>1. Fresh(lst'[l]) /\ (lst'[l].kind = "broadcast" => lst'[l].about \in minted)
    BY <1>9, NewListing DEF Starting
  <2>. QED  BY <1>0, <1>2, <2>1
<1>10. CASE \/ \E m \in Listings : ListAnswered(m) \/ Broadcast(m)
            \/ \E c \in Clients : Disconnect(c)
  <2>1. lst'[l] = lst[l] \/ lst'[l] = Idle
    BY <1>10, DoneListing
  <2>2. CASE lst'[l] = Idle
    BY <1>2, <2>2, Starts
  <2>. QED  BY <1>6, <2>1, <2>2 DEF Kept
<1>11. CASE \E v \in Ids : Going(v)
  BY <1>6, <1>11, MovesLeave DEF Going
<1>. QED  BY <1>7, <1>8, <1>9, <1>10, <1>11, EachStep

LEMMA SettledStep ==
  ASSUME ConstantsOK, WorldInv, ListsInv, KnownInv, CreatesInv, SettledInv, ~ Hides, [Next]_vars,
         NEW l \in Listings, Listings = {l}
  PROVE  SettledInv'
<1>0. /\ view \in Screens /\ online \subseteq Clients /\ lst \in [Listings -> InFlight]
      /\ \A c \in Clients, w \in Ids : view[c][w] # Absent => c \in online /\ w \in minted
      /\ \A w \in Ids : ReadRight(l, w)
      /\ outdated \in [Clients -> SUBSET Ids]
  BY DEF KnownInv, Screens, Rows, SettledInv, ListsInv, CreatesInv
<1>1. hidden' = {}
  <2>1. CASE Reading \/ Starting
    BY <2>1, StartingLeaves DEF SettledInv
  <2>2. CASE \/ \E m \in Listings : ListAnswered(m) \/ Broadcast(m)
             \/ \E m \in Listings : TickNotes(m) \/ SweepGoesOn(m)
             \/ \E c \in Clients : Disconnect(c)
    BY <2>2 DEF ListAnswered, Broadcast, TickNotes, SweepGoesOn, Disconnect, world, SettledInv
  <2>3. CASE \E w \in Ids : Going(w)
    BY <2>3 DEF Going, Park, ParkAdd, ParkKill, Unpark, UnparkRemove, Close, CloseRecord,
       CloseKill, CloseSay, Create, Rename, HideOrShow, SessionExits, CreateAnswered,
       CreateFails, others, SettledInv
  <2>. QED  BY <2>1, <2>2, <2>3, EachStep
<1>2. \A w \in Ids : ReadRight(l, w)'
  BY ReadStep
<1>3. SUFFICES ASSUME NEW c \in online', NEW w \in Ids, Steady(w)', view'[c][w] # Absent
               PROVE  view'[c][w].status = Label(w)' \/ AnswerAwaited(w)' \/ w \in outdated'[c]
  BY <1>1, <1>2 DEF SettledInv
<1>4. c \in Clients
  BY HistoryStep
\* A new workspace is shown nowhere yet.
<1>5. ~ \E d \in Clients : Create(w, d)
  <2>1. ASSUME NEW d \in Clients, Create(w, d) PROVE FALSE
    <3>1. w \notin minted /\ view' = view
      BY <2>1 DEF Create
    <3>. QED  BY <1>0, <1>3, <1>4, <3>1
  <2>. QED  BY <2>1
\* A label that changes starts a broadcast.
<1>6. CASE \E m \in Listings : lst'[m].kind = "broadcast" /\ lst'[m].about = w
  BY <1>6 DEF AnswerAwaited
<1>7. SUFFICES ASSUME /\ Steady(w) /\ Label(w)' = Label(w)
                      /\ ~ \E m \in Listings : lst'[m].kind = "broadcast" /\ lst'[m].about = w
               PROVE  view'[c][w].status = Label(w) \/ w \in outdated'[c]
  BY <1>0, <1>3, <1>5, <1>6, SteadyStep
\* Any other step shows what was shown, or what the listing has.
<1>8. view[c][w] # Absent /\ ~ (lst[l].kind = "broadcast" /\ lst[l].about = w)
        => view[c][w].status = Label(w) \/ w \in outdated[c]
  BY <1>0, <1>4, <1>7 DEF SettledInv, AnswerAwaited
<1>9. lst[l].step = "stamped" /\ lst[l].seen[w] # Absent => lst[l].seen[w].status = Label(w)
  BY <1>0, <1>7 DEF ReadRight
<1>10. CASE Reading \/ Starting
  <2>1. view' = view /\ outdated' = outdated
    BY <1>10, StartingLeaves
  <2>2. lst[l].kind # "broadcast" \/ (lst'[l].kind = lst[l].kind /\ lst'[l].about = lst[l].about)
    <3>1. CASE Reading
      BY <3>1, ListSessionsEffect, ListRecordsEffect, StampEffect DEF Reading, vars
    <3>2. CASE Starting
      BY <3>2, NewListing DEF Starting
    <3>. QED  BY <1>10, <3>1, <3>2
  <2>. QED  BY <1>3, <1>7, <1>8, <2>1, <2>2
<1>11. CASE \E m \in Listings : ListAnswered(m)
  <2>. DEFINE a == lst[l].about
              shown == Without(lst[l].seen, lst[l].hide)
  <2>1. ListAnswered(l)
    BY <1>11
  <2>2. /\ lst[l].step = "stamped" /\ lst[l].kind = "list" /\ a \in online
        /\ view' = [view EXCEPT ![a] = shown] /\ outdated' = [outdated EXCEPT ![a] = {}]
    BY <2>1 DEF ListAnswered, Lists, ListsInv
  <2>3. shown[w] \in {lst[l].seen[w], Absent}
    BY DEF Without
  <2>. HIDE DEF a, shown
  <2>4. CASE c = a
    <3>1. view'[c][w] = shown[w]
      BY <1>0, <2>2, <2>4 DEF Screens
    <3>. QED  BY <1>3, <1>9, <2>2, <2>3, <3>1
  <2>5. CASE c # a
    <3>1. view'[c] = view[c] /\ outdated'[c] = outdated[c]
      BY <1>0, <1>4, <2>2, <2>5 DEF Screens
    <3>. QED  BY <1>3, <1>8, <2>2, <3>1
  <2>. QED  BY <2>4, <2>5
<1>12. CASE \E m \in Listings : Broadcast(m)
  <2>. DEFINE a == lst[l].about
  <2>1. Broadcast(l)
    BY <1>12
  <2>2. /\ lst[l].step = "stamped" /\ c \in online
        /\ view'[c][w] # view[c][w] => lst[l].seen[w] # Absent /\ view'[c][w] = lst[l].seen[w]
    BY <1>3, <1>4, <2>1, DeliveredEffect DEF Broadcast
  <2>3. CASE a = w
    <3>1. lst[l].seen[w] # Absent
      BY <1>0, <1>7, <2>1, <2>2, <2>3 DEF Broadcast, ReadRight
    <3>2. view'[c][w] = lst[l].seen[w]
      BY <2>1, <2>2, <2>3, <3>1, BroadcastEffect DEF SettledInv
    <3>. QED  BY <1>9, <2>2, <3>1, <3>2
  <2>4. CASE a # w
    <3>1. Refreshed({a}) \/ outdated' = outdated
      BY <2>1 DEF Broadcast
    <3>2. w \in outdated[c] => w \in outdated'[c]
      BY <1>0, <1>4, <2>4, <3>1, RefreshedEffect
    <3>. QED  BY <1>3, <1>8, <1>9, <2>2, <2>4, <3>2
  <2>. QED  BY <2>3, <2>4
<1>13. CASE \E m \in Listings : TickNotes(m)
  <2>1. TickNotes(l)
    BY <1>13
  <2>2. lst[l].step = "stamped" /\ lst[l].kind = "tick" /\ Turn(l, Noted(l), Pushed(l), Present(l))
    BY <2>1, TickEffect
  <2>3. /\ Noted(l) \in [Ids -> Names \cup {Absent}] /\ Pushed(l) \in Screens
        /\ Present(l)[w] = Absent => Noted(l)[w] = known[w]
        /\ Present(l)[w] # Absent => Noted(l)[w] # Absent
    BY <2>2, NotedEffect
  <2>4. view'[c][w] = Pushed(l)[c][w]
    BY <1>3, <1>4, <2>2, <2>3, TurnEffect
  <2>5. CASE w \in Renames(Present(l))
    <3>1. c \in online
      BY <1>3, <2>1 DEF TickNotes
    <3>2. Present(l)[w] # Absent /\ Present(l)[w] = lst[l].seen[w]
      BY <2>5, PresentType DEF Renames
    <3>3. view'[c][w] = lst[l].seen[w]
      BY <1>4, <2>4, <2>5, <3>1, <3>2 DEF Pushed
    <3>. QED  BY <1>9, <2>2, <3>2, <3>3
  <2>6. CASE w \notin Renames(Present(l))
    <3>1. view'[c][w] = view[c][w]
      BY <1>4, <2>4, <2>6 DEF Pushed
    <3>2. w \notin Forgotten
      <4>1. known'[w] = Noted(l)[w]
        BY <1>3, <1>4, <2>2, <2>3, TurnEffect
      <4>. QED  BY <2>3, <4>1 DEF Forgotten
    <3>3. Refreshed(Renames(Present(l)) \cup Forgotten)
      BY <2>1 DEF TickNotes, Present
    <3>4. w \in outdated[c] => w \in outdated'[c]
      BY <1>0, <1>4, <2>6, <3>2, <3>3, RefreshedEffect
    <3>. QED  BY <1>3, <1>8, <2>2, <3>1, <3>4
  <2>. QED  BY <2>5, <2>6
<1>14. CASE \E m \in Listings : SweepGoesOn(m)
  <2>1. SweepGoesOn(l) /\ known \in [Ids -> Names \cup {Absent}]
    BY <1>14 DEF KnownInv
  <2>2. Turn(l, known, view, lst[l].seen) /\ lst[l].kind = "tick"
    BY <2>1, TailEffect DEF ListsInv
  <2>3. view'[c][w] = view[c][w] /\ known'[w] = known[w]
    BY <1>0, <1>3, <1>4, <2>1, <2>2, TurnEffect
  <2>4. Refreshed(Forgotten) /\ w \notin Forgotten
    BY <2>1, <2>3 DEF SweepGoesOn, Forgotten
  <2>5. w \in outdated[c] => w \in outdated'[c]
    BY <1>0, <1>4, <2>4, RefreshedEffect
  <2>. QED  BY <1>3, <1>8, <2>2, <2>3, <2>5
<1>15. CASE \E d \in Clients : Disconnect(d)
  <2>1. view'[c][w] = view[c][w] /\ outdated'[c] = outdated[c]
    BY <1>0, <1>3, <1>4, <1>15 DEF Disconnect, Nothing, Screens
  <2>2. lst[l].kind = "broadcast" => lst'[l] = lst[l]
    BY <1>15 DEF Disconnect
  <2>. QED  BY <1>3, <1>7, <1>8, <2>1, <2>2
<1>16. ASSUME NEW v \in Ids, Going(v)
       PROVE  view'[c][w].status = Label(w) \/ w \in outdated'[c]
  <2>1. lst'[l].kind = lst[l].kind /\ lst'[l].about = lst[l].about
    BY <1>16, MovesLeave DEF Going, Kept
  <2>2. CASE CreateAnswered(v) /\ v = w /\ c = creating[w]
    <3>1. view'[c][w].status = "idle"
      BY <1>16, <2>2, ScreenStep
    <3>2. Label(w) # "idle" => w \in outdated'[c]
      BY <1>0, <1>4, <2>2 DEF CreateAnswered
    <3>. QED  BY <3>1, <3>2
  <2>3. CASE ~ (CreateAnswered(v) /\ v = w /\ c = creating[w])
    <3>1. view'[c][w] = view[c][w] /\ ~ (CloseSay(v) /\ v = w)
      BY <1>3, <1>4, <1>16, <2>3, ScreenStep
    <3>2. \/ outdated' = outdated
          \/ CreateAnswered(v) /\ outdated' = [outdated EXCEPT ![creating[v]] = @ \cup {v}]
          \/ CloseSay(v) /\ Refreshed({v})
      BY <1>16 DEF Going, Park, ParkAdd, ParkKill, Unpark, UnparkRemove, Close, CloseRecord,
         CloseKill, CloseSay, Create, Rename, HideOrShow, SessionExits, CreateAnswered,
         CreateFails
    <3>3. w \in outdated[c] => w \in outdated'[c]
      BY <1>0, <1>4, <3>1, <3>2, RefreshedEffect
    <3>. QED  BY <1>3, <1>7, <1>8, <2>1, <3>1, <3>3
  <2>. QED  BY <2>2, <2>3
<1>. QED  BY <1>10, <1>11, <1>12, <1>13, <1>15, <1>16, <1>14, EachStep

-----------------------------------------------------------------------------
(* The theorems *)

LEMMA InitInv ==
  ASSUME ConstantsOK, Init
  PROVE  IInv /\ SettledInv
<1>1. \A w \in Ids : /\ Nothing[w] = Absent
                     /\ move[w] = "none" /\ status[w] = "idle" /\ known[w] = Absent
                     /\ parked[w] = Absent /\ snapshot[w] = Absent
  BY DEF Init, Nothing
<1>0. FolderName \in Names
  BY DEF FolderName, ConstantsOK
<1>2. WorldInv
  BY <1>0, <1>1 DEF Init, WorldInv, WorldTypes, Moving, Unborn, Nothing, Statuses, Stages
<1>3. /\ lst \in [Listings -> InFlight]
      /\ \A l \in Listings : lst[l] = Idle
  BY IdleType DEF Init
<1>4. ListsInv
  BY <1>3, IdleType DEF ListsInv
<1>5. KnownInv
  BY <1>1 DEF Init, KnownInv, Nothing
<1>6. MissedInv
  BY <1>1 DEF MissedInv
<1>7. DoomedInv
  BY DEF Init, DoomedInv, Ghost
<1>8. SettledInv
  BY <1>1, <1>3, IdleType DEF Init, SettledInv, ReadRight
<1>9. CreatesInv
  BY <1>1 DEF Init, CreatesInv, Nothing
<1>. QED  BY <1>2, <1>4, <1>5, <1>6, <1>7, <1>8, <1>9 DEF IInv

LEMMA IInvStep ==
  ASSUME ConstantsOK, IInv, [Next]_vars
  PROVE  IInv'
BY WorldStep, ListsStep, KnownStep, CreatesStep, MissedStep, DoomedStep DEF IInv

LEMMA IInvHolds ==
  ASSUME IInv
  PROVE  TypeOK /\ GhostsAreDoomed
<1>1. TypeOK
  BY DEF IInv, WorldInv, WorldTypes, ListsInv, InFlight, KnownInv, CreatesInv, TypeOK
<1>2. GhostsAreDoomed
  BY DEF IInv, DoomedInv, GhostsAreDoomed
<1>. QED  BY <1>1, <1>2

THEOREM TypeCorrect == ConstantsOK => (Spec => []TypeOK)
<1>. SUFFICES ASSUME ConstantsOK PROVE Spec => []TypeOK
  OBVIOUS
<1>. QED  BY InitInv, IInvStep, IInvHolds, PTL DEF Spec

\* A workspace that is gone and still shown is known to the poll or being closed, unless
\* it went unwatched or was answered for late (ws-server.ts:347).
THEOREM GhostsAreDoomedAlways == ConstantsOK => (Spec => []GhostsAreDoomed)
<1>. SUFFICES ASSUME ConstantsOK PROVE Spec => []GhostsAreDoomed
  OBVIOUS
<1>. QED  BY InitInv, IInvStep, IInvHolds, PTL DEF Spec

\* The poll sweeps what is gone, hidden, or missed in one of three ways (pollTitles).
THEOREM SweepsOnlyTheMissedAlways == ConstantsOK => (Spec => [][SweepsOnlyTheMissed]_vars)
<1>. SUFFICES ASSUME ConstantsOK PROVE Spec => [][SweepsOnlyTheMissed]_vars
  OBVIOUS
<1>1. IInv /\ [Next]_vars => [SweepsOnlyTheMissed]_vars
  BY SweepsOnly DEF IInv
<1>. QED  BY <1>1, InitInv, IInvStep, PTL DEF Spec

\* With one listing at a time and no folder hidden, every device ends up with the latest
\* status (connection-handler.ts:286-287) of each workspace but those whose create was
\* answered to it with a status they no longer had (create-workspace.ts:36-37).
OneAtATime == (\E l : Listings = {l}) /\ ~ Hides

LEMMA SettledHolds ==
  ASSUME IInv, SettledInv
  PROVE  LatestStatusShown
<1>1. Alive \subseteq Ids
  BY DEF IInv, WorldInv, WorldTypes, Alive, Recorded
<1>2. (\A l \in Listings : lst[l].kind = "none") => \A w : ~ AnswerAwaited(w)
  BY DEF AnswerAwaited
<1>. QED  BY <1>1, <1>2 DEF SettledInv, LatestStatusShown, Steady, Label

THEOREM LatestStatusAlways ==
  ConstantsOK /\ OneAtATime => (Spec => []LatestStatusShown)
<1>. SUFFICES ASSUME ConstantsOK, OneAtATime PROVE Spec => []LatestStatusShown
  OBVIOUS
<1>1. IInv /\ SettledInv /\ [Next]_vars => SettledInv'
  BY SettledStep DEF IInv, OneAtATime
<1>. QED  BY <1>1, InitInv, IInvStep, SettledHolds, PTL DEF Spec
================================================================================
