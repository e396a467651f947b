--------------------------- MODULE WorkspacesProofs ---------------------------
(***************************************************************************)
(* Proofs about Workspaces, for any ids and request slots: the types; that *)
(* no workspace is lost, a closed one stays closed, and a record never     *)
(* outlasts the work on a live session, with the agent crashing at any     *)
(* point; that a workspace that runs again is not left labelled `parked`,  *)
(* and that the conversation it would resume is never an older one.        *)
(***************************************************************************)
EXTENDS Workspaces, TLAPS

-----------------------------------------------------------------------------
(* Types *)

Req == [op : Ops, step : Steps, id : Ids \cup {None}, rec : Conv, base : Records]

\* A request in flight names a workspace.
Named == \A r \in Requests : req[r].op # "none" => req[r].id \in Ids

LEMMA ConvFacts == /\ 0 \in Conv /\ Conv \subseteq Nat
                   /\ NoRecords \in Records /\ NoRequest \in Req
  BY ConvBound DEF ConvBound, Conv, NoRecords, Records, NoRequest, Ops, Steps, Req

\* What the store holds, and what a request makes of it, are records.
LEMMA StoreTypes ==
  ASSUME TypeOK
  PROVE  /\ Contents \in Records
         /\ \A r \in Requests : NewRecords(r) \in Records
         /\ \A recs \in Records : Landed(recs) \subseteq Files
<1> USE ConvFacts
<1>1. Contents \in Records
  BY DEF TypeOK, Files, Contents
<1>2. ASSUME NEW r \in Requests PROVE NewRecords(r) \in Records
  BY DEF TypeOK, NewRecords, Records
<1>3. ASSUME NEW recs \in Records PROVE Landed(recs) \subseteq Files
  BY DEF Landed, Files
<1>4. QED
  BY <1>1, <1>2, <1>3

\* The ways a request changes keep it a request.
LEMMA RequestTypes ==
  ASSUME TypeOK, Named, NEW r \in Requests
  PROVE  /\ \A step \in Steps : GoTo(r, step) => req' \in [Requests -> Req] /\ Named'
         /\ Done(r) => req' \in [Requests -> Req] /\ Named'
         /\ \A rec \in Conv, step \in Steps :
              req' = [req EXCEPT ![r].rec = rec, ![r].step = step]
                => req' \in [Requests -> Req] /\ Named'
         /\ \A base \in Records, step \in Steps :
              req' = [req EXCEPT ![r].base = base, ![r].step = step]
                => req' \in [Requests -> Req] /\ Named'
         /\ \A op \in Ops, w \in Ids : Begin(r, op, w)
              => req' \in [Requests -> Req] /\ Named' /\ crossed' \subseteq Ids
<1> USE ConvFacts DEF TypeOK, Named, Req
<1>1. ASSUME NEW step \in Steps, GoTo(r, step) PROVE req' \in [Requests -> Req] /\ Named'
  BY <1>1 DEF GoTo
<1>2. ASSUME Done(r) PROVE req' \in [Requests -> Req] /\ Named'
  BY <1>2 DEF Done, NoRequest
<1>3. ASSUME NEW rec \in Conv, NEW step \in Steps,
             req' = [req EXCEPT ![r].rec = rec, ![r].step = step]
      PROVE  req' \in [Requests -> Req] /\ Named'
  BY <1>3
<1>4. ASSUME NEW base \in Records, NEW step \in Steps,
             req' = [req EXCEPT ![r].base = base, ![r].step = step]
      PROVE  req' \in [Requests -> Req] /\ Named'
  BY <1>4
<1>5. ASSUME NEW op \in Ops, NEW w \in Ids, Begin(r, op, w)
      PROVE  req' \in [Requests -> Req] /\ Named' /\ crossed' \subseteq Ids
  <2>1. [NoRequest EXCEPT !.op = op, !.step = "get", !.id = w] \in Req
    BY DEF Steps
  <2>2. QED
    BY <1>5, <2>1 DEF Begin, NoRequest
<1>6. QED
  BY <1>1, <1>2, <1>3, <1>4, <1>5

-----------------------------------------------------------------------------

TypeInv == TypeOK /\ Named

LEMMA TypeStep == TypeInv /\ [Next]_vars => TypeInv'
<1> SUFFICES ASSUME TypeOK, Named, [Next]_vars PROVE TypeOK' /\ Named'
  BY DEF TypeInv
<1>1. ASSUME NEW r \in Requests, NEW w \in Ids,
             ParkStart(r, w) \/ AttachStart(r, w) \/ CloseStart(r, w)
      PROVE  TypeOK' /\ Named'
  <2>1. req' \in [Requests -> Req] /\ Named' /\ crossed' \subseteq Ids
    BY <1>1, RequestTypes DEF ParkStart, AttachStart, CloseStart, Ops
  <2>2. fate' \in [Ids -> Fates]
    BY <1>1 DEF ParkStart, AttachStart, CloseStart, TypeOK, Fates
  <2>3. UNCHANGED <<tmux, file, conv, parkedLabel, up, disturbed>> /\ lastWorkspaces' \subseteq Ids
    BY <1>1 DEF ParkStart, AttachStart, CloseStart, TypeOK
  <2>4. QED
    BY <2>1, <2>2, <2>3 DEF TypeOK, Req
<1>2. ASSUME NEW r \in Requests, Park(r) PROVE TypeOK' /\ Named'
  <2>1. /\ UNCHANGED <<file, conv, lastWorkspaces, up, fate, crossed>>
        /\ disturbed' \in BOOLEAN /\ tmux' \subseteq Ids
    BY <1>2 DEF Park, ParkGet, ParkKill, ParkFinish, TypeOK
  <2>2. CASE ParkGet(r)
    <3>1. conv[req[r].id] \in Conv
      BY <2>2 DEF ParkGet, At, TypeOK, Named
    <3>2. req' \in [Requests -> Req] /\ Named'
      BY <2>2, <3>1, RequestTypes DEF ParkGet, Steps
    <3>3. QED
      BY <2>1, <2>2, <3>2 DEF TypeOK, Req, ParkGet
  <2>3. CASE ParkKill(r)
    <3>1. req' \in [Requests -> Req] /\ Named'
      BY <2>3, RequestTypes DEF ParkKill, Steps
    <3>2. QED
      BY <2>1, <2>3, <3>1 DEF TypeOK, Req, ParkKill
  <2>4. CASE ParkFinish(r)
    <3>1. req' \in [Requests -> Req] /\ Named'
      BY <2>4, RequestTypes DEF ParkFinish
    <3>2. parkedLabel' \subseteq Ids
      BY <2>4 DEF ParkFinish, At, TypeOK, Named
    <3>3. QED
      BY <2>1, <3>1, <3>2 DEF TypeOK, Req
  <2>5. QED
    BY <1>2, <2>2, <2>3, <2>4 DEF Park
<1>3. ASSUME NEW r \in Requests, Attach(r) PROVE TypeOK' /\ Named'
  <2>1. /\ UNCHANGED <<file, conv, lastWorkspaces, up, crossed>>
        /\ disturbed' \in BOOLEAN /\ parkedLabel' \subseteq Ids
    BY <1>3 DEF Attach, AttachGet, AttachCreate, AttachFinish, TypeOK
  <2>2. CASE AttachGet(r)
    <3>1. Contents[req[r].id] \in Conv
      BY <2>2, StoreTypes DEF AttachGet, At, Named, Records
    <3>2. req' \in [Requests -> Req] /\ Named'
      BY <2>2, <3>1, RequestTypes DEF AttachGet, Steps
    <3>3. QED
      BY <2>1, <2>2, <3>2 DEF TypeOK, Req, AttachGet
  <2>3. CASE AttachCreate(r)
    <3>1. req' \in [Requests -> Req] /\ Named'
      BY <2>3, RequestTypes DEF AttachCreate, Steps
    <3>2. tmux' \subseteq Ids /\ fate' \in [Ids -> Fates]
      BY <2>3 DEF AttachCreate, At, TypeOK, Named, Fates
    <3>3. QED
      BY <2>1, <3>1, <3>2 DEF TypeOK, Req
  <2>4. CASE AttachFinish(r)
    <3>1. req' \in [Requests -> Req] /\ Named'
      BY <2>4, RequestTypes DEF AttachFinish
    <3>2. QED
      BY <2>1, <2>4, <3>1 DEF TypeOK, Req, AttachFinish
  <2>5. QED
    BY <1>3, <2>2, <2>3, <2>4 DEF Attach
<1>4. ASSUME NEW r \in Requests, Close(r) PROVE TypeOK' /\ Named'
  <2>1. /\ UNCHANGED <<file, conv, parkedLabel, up, crossed>>
        /\ disturbed' \in BOOLEAN /\ lastWorkspaces' \subseteq Ids /\ tmux' \subseteq Ids
    BY <1>4 DEF Close, CloseGet, CloseKill, CloseFinish, TypeOK
  <2>2. fate' \in [Ids -> Fates]
    BY <1>4 DEF Close, CloseGet, CloseKill, CloseFinish, TypeOK, Fates
  <2>3. CASE CloseGet(r)
    <3>1. Contents[req[r].id] \in Conv
      BY <2>3, StoreTypes DEF CloseGet, At, Named, Records
    <3>2. req' \in [Requests -> Req] /\ Named'
      BY <2>3, <3>1, RequestTypes DEF CloseGet, Steps
    <3>3. QED
      BY <2>1, <2>2, <3>2 DEF TypeOK, Req
  <2>4. CASE CloseKill(r) \/ CloseFinish(r)
    <3>1. req' \in [Requests -> Req] /\ Named'
      BY <2>4, RequestTypes DEF CloseKill, CloseFinish, Steps
    <3>2. QED
      BY <2>1, <2>2, <3>1 DEF TypeOK, Req
  <2>5. QED
    BY <1>4, <2>3, <2>4 DEF Close
<1>5. ASSUME NEW r \in Requests, Store(r) PROVE TypeOK' /\ Named'
  <2>1. UNCHANGED <<tmux, conv, parkedLabel, lastWorkspaces, up, fate, crossed>>
        /\ disturbed' \in BOOLEAN
    BY <1>5 DEF Store, StoreRead, StoreTruncate, StoreWrite, TypeOK
  <2>2. req' \in [Requests -> Req] /\ Named'
    <3>1. \A op : AfterStore(op) \in Steps
      BY DEF AfterStore, Steps
    <3>2. QED
      BY <1>5, <3>1, StoreTypes, RequestTypes
      DEF Store, StoreRead, StoreTruncate, StoreWrite, Steps
  <2>3. file' \in Files
    BY <1>5, StoreTypes, ConvFacts
    DEF Store, StoreRead, StoreTruncate, StoreWrite, TypeOK, Files
  <2>4. QED
    BY <2>1, <2>2, <2>3 DEF TypeOK, Req
<1>6. CASE Environment
  <2>1. /\ tmux' \subseteq Ids /\ parkedLabel' \subseteq Ids /\ lastWorkspaces' \subseteq Ids
        /\ up' \in BOOLEAN /\ disturbed' \in BOOLEAN /\ crossed' = crossed /\ file' = file
    BY <1>6 DEF Environment, Create, Hook, SessionExit, Poll, Crash, TmuxRestored, Restart,
       TypeOK, Listed, Recorded, ReconcileParked
  <2>2. conv' \in [Ids -> Conv]
    BY <1>6, ConvFacts DEF Environment, Create, Hook, SessionExit, Poll, Crash, TmuxRestored,
       Restart, TypeOK
  <2>3. fate' \in [Ids -> Fates]
    BY <1>6 DEF Environment, Create, Hook, SessionExit, Poll, Crash, TmuxRestored, Restart,
       TypeOK, Fates
  <2>4. req' \in [Requests -> Req] /\ Named'
    BY <1>6, ConvFacts DEF Environment, Create, Hook, SessionExit, Poll, Crash, TmuxRestored,
       Restart, TypeOK, Named, Req, NoRequest
  <2>5. QED
    BY <2>1, <2>2, <2>3, <2>4 DEF TypeOK, Req
<1>7. CASE UNCHANGED vars
  BY <1>7 DEF vars, TypeOK, Named
<1>8. QED
  BY <1>1, <1>2, <1>3, <1>4, <1>5, <1>6, <1>7 DEF Next, Client

LEMMA TypeInit == Init => TypeInv
<1> SUFFICES ASSUME Init PROVE TypeOK /\ Named
  BY DEF TypeInv
<1>1. file \in Files /\ conv \in [Ids -> Conv] /\ fate \in [Ids -> Fates]
  BY ConvFacts DEF Init, Files, Fates
<1>2. req \in [Requests -> Req] /\ Named
  BY ConvFacts DEF Init, Named, NoRequest
<1>3. QED
  BY <1>1, <1>2 DEF Init, TypeOK, Req

\* Every variable keeps its type: parked.json in particular is whole, empty or
\* garbage, and every request in flight names a workspace.
THEOREM TypeCorrect == Spec => []TypeOK
<1>1. TypeInv => TypeOK
  BY DEF TypeInv
<1>2. QED
  BY <1>1, TypeInit, TypeStep, PTL DEF Spec

-----------------------------------------------------------------------------
(* Records and sessions *)

\* w has a record, on disk or in the text of the rewrite in progress.
Rec(w) == file.recs[w] # 0 \/ BeingWritten(w)

Quiet(w) == ~(w \in tmux /\ Rec(w))

During(r, op, steps) == req[r].op = op /\ req[r].step \in steps

\* A slot is idle or names a workspace; none survives the process; two requests
\* for one workspace have crossed.
Shape ==
  /\ \A r \in Requests : /\ req[r].op = "none" <=> req[r].step = "idle"
                         /\ req[r].op # "none" => req[r].id \in Ids
  /\ ~up => \A r \in Requests : req[r].op = "none"
  /\ \A r, s \in Requests :
       req[r].op # "none" /\ req[s].op # "none" /\ req[r].id = req[s].id /\ r # s
         => req[r].id \in crossed

\* Until parked.json is disturbed its rewrites are one after the other.
OneWriter ==
  ~disturbed =>
    /\ \A r, s \in Requests : req[r].step = "write" /\ req[s].step = "write" => r = s
    /\ file.state = "whole" <=> \A r \in Requests : req[r].step # "write"
    /\ file.state # "whole" => file.state = "empty" /\ file.recs = NoRecords

\* Where a request has got to, and what it relies on there.
Stage(r) ==
  LET w == req[r].id IN
  /\ During(r, "park", {"get"}) \/ During(r, "attach", {"get", "session"}) => Quiet(w)
  /\ During(r, "park", {"read", "truncate", "write"}) => req[r].rec # 0
  /\ During(r, "park", {"read", "truncate"}) => ~Rec(w)
  /\ During(r, "park", {"session", "finish"}) => Rec(w)
  /\ During(r, "park", {"finish"}) => w \notin tmux
  /\ During(r, "attach", {"read", "truncate", "write"}) /\ fate[w] = "open" => w \in tmux
  /\ During(r, "attach", {"finish"}) => ~Rec(w)
  /\ req[r].op = "close" => fate[w] = "closing"
  /\ During(r, "close", {"session", "finish"}) => ~Rec(w)
  /\ During(r, "close", {"finish"}) => w \notin tmux

\* Where a workspace is, by what the world has done to it and what is under way.
Place(w) ==
  /\ fate[w] \in {"unborn", "closed"} => InFlight(w) = {} /\ w \notin tmux /\ ~Rec(w)
  /\ fate[w] = "open" => w \in tmux \/ Rec(w)
  /\ up /\ InFlight(w) = {} => Quiet(w)
  /\ \A r \in InFlight(w) : Stage(r)

Placed(w) == Undisturbed(w) => Place(w)

Safe == Shape /\ OneWriter /\ \A w \in Ids : Placed(w)

IInv == TypeInv /\ Safe

-----------------------------------------------------------------------------
(* Steps that leave parked.json alone *)

\* No text is begun, finished or changed.
SameTexts == \A r \in Requests :
  req[r].step = "write" \/ req'[r].step = "write" => req'[r] = req[r]

LEMMA SameFile ==
  ASSUME file' = file, SameTexts, disturbed => disturbed', OneWriter
  PROVE  OneWriter' /\ \A w \in Ids : Rec(w)' <=> Rec(w)
<1>1. OneWriter'
  BY DEF SameTexts, OneWriter
<1>2. ASSUME NEW w \in Ids PROVE BeingWritten(w)' <=> BeingWritten(w)
  BY DEF SameTexts, BeingWritten, NewRecords
<1>3. QED
  BY <1>1, <1>2 DEF Rec

\* A workspace that a step does not concern stays placed.
LEMMA Elsewhere ==
  ASSUME NEW w \in Ids, Placed(w), Rec(w)' <=> Rec(w), w \in tmux' <=> w \in tmux,
         fate'[w] = fate[w], up' = up, disturbed => disturbed', crossed \subseteq crossed',
         \A r \in Requests : r \in InFlight(w) \/ r \in InFlight(w)' => req'[r] = req[r]
  PROVE  Placed(w)'
<1> SUFFICES ASSUME Undisturbed(w)' PROVE Place(w)'
  BY DEF Placed
<1>1. Place(w)
  BY DEF Placed, Undisturbed
<1>2. InFlight(w)' = InFlight(w)
  BY DEF InFlight
<1>3. ASSUME NEW r \in InFlight(w) PROVE Stage(r)'
  <2>1. req'[r] = req[r] /\ req[r].id = w /\ Stage(r)
    BY <1>1, <1>3 DEF InFlight, Place
  <2>2. QED
    BY <2>1 DEF Stage, During, Quiet, Rec
<1>4. QED
  BY <1>1, <1>2, <1>3 DEF Place, Quiet

\* A request moves on, or ends.
Moves(r) ==
  /\ up /\ up' = up
  /\ req[r].op # "none"
  /\ \A x \in Requests \ {r} : req'[x] = req[x]
  /\ \/ req'[r] = NoRequest
     \/ req'[r].op = req[r].op /\ req'[r].id = req[r].id /\ req'[r].step # "idle"
  /\ crossed' = crossed
  /\ disturbed => disturbed'

\* r is now at `step` with this record and snapshot, and no other slot changed.
Onto(r, step, rec, base) ==
  /\ \A x \in Requests \ {r} : req'[x] = req[x]
  /\ req'[r].op = req[r].op /\ req'[r].id = req[r].id
  /\ req'[r].step = step /\ req'[r].rec = rec /\ req'[r].base = base

LEMMA Slots ==
  ASSUME TypeOK, NEW r \in Requests
  PROVE  /\ Done(r) => /\ \A x \in Requests \ {r} : req'[x] = req[x]
                       /\ req'[r] = NoRequest
         /\ \A step : GoTo(r, step) => Onto(r, step, req[r].rec, req[r].base)
         /\ \A rec, step : req' = [req EXCEPT ![r].rec = rec, ![r].step = step]
                            => Onto(r, step, rec, req[r].base)
         /\ \A base, step : req' = [req EXCEPT ![r].base = base, ![r].step = step]
                             => Onto(r, step, req[r].rec, base)
  BY DEF TypeOK, Done, GoTo, Onto

LEMMA ShapeMoves ==
  ASSUME Shape, NEW r \in Requests, Moves(r)
  PROVE  Shape'
<1>1. NoRequest.op = "none" /\ NoRequest.step = "idle"
  BY DEF NoRequest
<1>2. \A x \in Requests : req'[x] = req[x] \/ (x = r /\ req'[x] = NoRequest)
        \/ (x = r /\ req'[x].op = req[x].op /\ req'[x].id = req[x].id
            /\ req'[x].step # "idle")
  BY DEF Moves
<1>3. req[r].step # "idle" /\ req[r].id \in Ids
  BY DEF Shape, Moves
<1>4. \A x \in Requests : /\ req'[x].op = "none" <=> req'[x].step = "idle"
                          /\ req'[x].op # "none" => req'[x].id \in Ids
  BY <1>1, <1>2, <1>3 DEF Shape, Moves
<1>5. \A x, y \in Requests :
        req'[x].op # "none" /\ req'[y].op # "none" /\ req'[x].id = req'[y].id /\ x # y
          => req'[x].id \in crossed'
  <2>1. \A x \in Requests : req'[x].op # "none" => req[x].op # "none" /\ req'[x].id = req[x].id
    BY <1>1, <1>2
  <2>2. QED
    BY <2>1 DEF Shape, Moves
<1>6. QED
  BY <1>4, <1>5 DEF Shape, Moves

\* Until requests cross there is one for each workspace.
LEMMA Sole ==
  ASSUME Shape, NEW r \in Requests, Moves(r), NEW w \in Ids, w = req[r].id, w \notin crossed
  PROVE  /\ InFlight(w) = {r}
         /\ InFlight(w)' = IF req'[r] = NoRequest THEN {} ELSE {r}
<1>1. NoRequest.op = "none"
  BY DEF NoRequest
<1>2. req[r].id \in Ids /\ req[r].op # "none"
  BY DEF Shape, Moves
<1>3. \A x \in Requests \ {r} : req[x].op = "none" \/ req[x].id # req[r].id
  BY <1>2 DEF Shape
<1>4. \A x \in Requests \ {r} : req'[x] = req[x]
  BY DEF Moves
<1>5. InFlight(w) = {r}
  BY <1>2, <1>3 DEF InFlight
<1>6. (req'[r].op # "none" /\ req'[r].id = req[r].id) <=> req'[r] # NoRequest
  BY <1>1, <1>2 DEF Moves
<1>7. {x \in Requests : req'[x].op # "none" /\ req'[x].id = req[r].id}
        = IF req'[r] = NoRequest THEN {} ELSE {r}
  BY <1>2, <1>3, <1>4, <1>6
<1>8. QED
  BY <1>2, <1>5, <1>7 DEF InFlight

\* ... so a step of that one request concerns only its own workspace.
LEMMA Others ==
  ASSUME Shape, NEW r \in Requests, Moves(r), NEW w \in Ids, w # req[r].id, Placed(w),
         Rec(w)' <=> Rec(w), w \in tmux' <=> w \in tmux, fate'[w] = fate[w]
  PROVE  Placed(w)'
<1>1. \A x \in Requests : x \in InFlight(w) \/ x \in InFlight(w)' => req'[x] = req[x]
  BY DEF Moves, InFlight, NoRequest
<1>2. QED
  BY <1>1, Elsewhere DEF Moves

\* What the request knows before it moves, if nothing is disturbed by the move.
LEMMA Before ==
  ASSUME Shape, NEW r \in Requests, Moves(r), NEW w \in Ids, w = req[r].id, Placed(w),
         Undisturbed(w)'
  PROVE  /\ Undisturbed(w) /\ Place(w) /\ Stage(r)
         /\ fate[w] # "unborn" /\ fate[w] # "closed"
<1>1. Undisturbed(w)
  BY DEF Moves, Undisturbed
<1>2. Place(w) /\ InFlight(w) = {r}
  BY <1>1, Sole DEF Placed, Undisturbed
<1>3. QED
  BY <1>1, <1>2 DEF Place

\* A moving request leaves its workspace placed if its new stage is justified.
LEMMA After ==
  ASSUME Shape, NEW r \in Requests, Moves(r), NEW w \in Ids, w = req[r].id, w \notin crossed,
         fate'[w] = "unborn" \/ fate'[w] = "closed"
           => req'[r] = NoRequest /\ w \notin tmux' /\ ~Rec(w)',
         fate'[w] = "open" => w \in tmux' \/ Rec(w)',
         req'[r] = NoRequest => ~(w \in tmux' /\ Rec(w)'),
         req'[r] # NoRequest => Stage(r)'
  PROVE  Place(w)'
<1>1. InFlight(w)' = IF req'[r] = NoRequest THEN {} ELSE {r}
  BY Sole
<1>2. QED
  BY <1>1 DEF Place, Quiet

\* A whole file is what the store reads, and nobody holds a text to write.
LEMMA WholeFile ==
  ASSUME OneWriter, ~disturbed, file.state = "whole"
  PROVE  /\ Contents = file.recs
         /\ \A w \in Ids : Rec(w) <=> file.recs[w] # 0
  BY DEF OneWriter, Contents, Rec, BeingWritten

\* A request that moves without touching parked.json: what is left to show of it
\* is where it puts its own workspace.
LEMMA MoveIsSafe ==
  ASSUME Safe, NEW r \in Requests, Moves(r), NEW w \in Ids, w = req[r].id,
         file' = file, req[r].step # "write", req'[r].step # "write",
         \A x \in Ids \ {w} : (x \in tmux' <=> x \in tmux) /\ fate'[x] = fate[x],
         Undisturbed(w)' => Place(w)'
  PROVE  Safe'
<1>1. SameTexts
  BY DEF SameTexts, Moves
<1>2. OneWriter' /\ \A x \in Ids : Rec(x)' <=> Rec(x)
  BY <1>1, SameFile DEF Safe, Moves
<1>3. Shape'
  BY ShapeMoves DEF Safe
<1>4. \A x \in Ids : Placed(x)'
  <2>1. ASSUME NEW x \in Ids, x # w PROVE Placed(x)'
    BY <1>2, <2>1, Others DEF Safe
  <2>2. Placed(w)'
    BY DEF Placed
  <2>3. QED
    BY <2>1, <2>2
<1>5. QED
  BY <1>2, <1>3, <1>4 DEF Safe

-----------------------------------------------------------------------------
(* park, attach and close, outside the store *)

\* Reading the file is harmless: undisturbed, it was whole.
LEMMA ParkIsSafe ==
  ASSUME TypeInv, Safe, NEW r \in Requests, Park(r)
  PROVE  Safe'
<1> DEFINE w == req[r].id
<1>1. up /\ req[r].op = "park" /\ w \in Ids
  BY DEF Park, ParkGet, ParkKill, ParkFinish, At, TypeInv, Named
<1>2. TypeOK
  BY DEF TypeInv
<1>3. /\ UNCHANGED <<file, up, fate, crossed>> /\ (disturbed => disturbed')
      /\ \A x \in Ids \ {w} : x \in tmux' <=> x \in tmux
      /\ req[r].step # "write"
  <2>1. CASE ParkGet(r)
    BY <2>1 DEF ParkGet, At
  <2>2. CASE ParkKill(r)
    BY <2>2 DEF ParkKill, At
  <2>3. CASE ParkFinish(r)
    BY <2>3 DEF ParkFinish, At
  <2>4. QED
    BY <2>1, <2>2, <2>3 DEF Park
<1>4. \/ ParkGet(r) /\ Onto(r, "read", conv[w], req[r].base) /\ conv[w] # 0 /\ Contents[w] = 0
      \/ ParkKill(r) /\ Onto(r, "finish", req[r].rec, req[r].base)
      \/ /\ ParkGet(r) \/ ParkFinish(r)
         /\ \A x \in Requests \ {r} : req'[x] = req[x]
         /\ req'[r] = NoRequest
  BY <1>2, Slots DEF Park, ParkGet, ParkKill, ParkFinish
<1>5. Moves(r) /\ req'[r].step # "write"
  BY <1>1, <1>3, <1>4 DEF Moves, Onto, NoRequest
<1>6. ASSUME NEW x \in Ids, x = w, Undisturbed(x)' PROVE Place(x)'
  <2>1. Undisturbed(x) /\ Place(x) /\ Stage(r) /\ fate[x] # "unborn" /\ fate[x] # "closed"
    BY <1>5, <1>6, Before DEF Safe
  <2>2. Rec(x)' <=> Rec(x)
    BY <1>3, <1>5, SameFile DEF Safe, SameTexts, Moves
  <2>3. fate'[x] = fate[x] /\ ~disturbed /\ x \notin crossed /\ ~disturbed'
    BY <1>3, <1>6, <2>1 DEF Undisturbed
  <2>4. CASE ParkGet(r)
    <3>1. tmux' = tmux /\ Quiet(x)
      BY <2>1, <2>4, <1>6 DEF ParkGet, At, Stage, During
    <3>2. Contents = file.recs /\ (Rec(x) <=> file.recs[x] # 0)
      BY <2>3, <2>4, WholeFile DEF ParkGet, Safe
    <3>3. req'[r] # NoRequest => Stage(r)'
      BY <1>1, <1>4, <1>6, <2>2, <2>4, <3>2 DEF Stage, During, Onto, ParkGet, ParkKill, At
    <3>4. QED
      BY <1>5, <1>6, <2>1, <2>2, <2>3, <3>1, <3>3, After DEF Place, Quiet, Safe
  <2>5. CASE ParkKill(r)
    <3>1. Rec(x) /\ x \notin tmux'
      BY <1>6, <2>1, <2>5 DEF ParkKill, At, Stage, During
    <3>2. Stage(r)'
      BY <1>1, <1>4, <1>6, <2>2, <2>5, <3>1
      DEF Stage, During, Onto, ParkGet, ParkKill, ParkFinish, At
    <3>3. QED
      BY <1>5, <1>6, <2>1, <2>2, <2>3, <3>1, <3>2, After DEF Safe
  <2>6. CASE ParkFinish(r)
    <3>1. tmux' = tmux /\ x \notin tmux
      BY <1>6, <2>1, <2>6 DEF ParkFinish, At, Stage, During
    <3>2. req'[r] = NoRequest
      BY <1>4, <2>6 DEF ParkFinish, ParkGet, ParkKill, At
    <3>3. QED
      BY <1>5, <1>6, <2>1, <2>2, <2>3, <3>1, <3>2, After DEF Place, Safe
  <2>7. QED
    BY <2>4, <2>5, <2>6 DEF Park
<1>7. QED
  BY <1>1, <1>3, <1>5, <1>6, MoveIsSafe

LEMMA AttachIsSafe ==
  ASSUME TypeInv, Safe, NEW r \in Requests, Attach(r)
  PROVE  Safe'
<1> DEFINE w == req[r].id
<1>1. up /\ req[r].op = "attach" /\ w \in Ids
  BY DEF Attach, AttachGet, AttachCreate, AttachFinish, At, TypeInv, Named
<1>2. TypeOK
  BY DEF TypeInv
<1>3. /\ UNCHANGED <<file, up, crossed>> /\ (disturbed => disturbed')
      /\ \A x \in Ids \ {w} : (x \in tmux' <=> x \in tmux) /\ fate'[x] = fate[x]
      /\ req[r].step # "write"
  <2>1. CASE AttachGet(r)
    BY <2>1 DEF AttachGet, At
  <2>2. CASE AttachCreate(r)
    BY <1>2, <2>2 DEF AttachCreate, At, TypeOK
  <2>3. CASE AttachFinish(r)
    BY <2>3 DEF AttachFinish, At
  <2>4. QED
    BY <2>1, <2>2, <2>3 DEF Attach
<1>4. \/ AttachGet(r) /\ Onto(r, "session", Contents[w], req[r].base)
      \/ AttachCreate(r) /\ Onto(r, "read", req[r].rec, req[r].base) /\ w \notin tmux
      \/ /\ AttachGet(r) \/ (AttachCreate(r) /\ w \in tmux) \/ AttachFinish(r)
         /\ \A x \in Requests \ {r} : req'[x] = req[x]
         /\ req'[r] = NoRequest
  BY <1>2, Slots DEF Attach, AttachGet, AttachCreate, AttachFinish
<1>5. Moves(r) /\ req'[r].step # "write"
  BY <1>1, <1>3, <1>4 DEF Moves, Onto, NoRequest
<1>6. ASSUME NEW x \in Ids, x = w, Undisturbed(x)' PROVE Place(x)'
  <2>1. Undisturbed(x) /\ Place(x) /\ Stage(r) /\ fate[x] # "unborn" /\ fate[x] # "closed"
    BY <1>5, <1>6, Before DEF Safe
  <2>2. Rec(x)' <=> Rec(x)
    BY <1>3, <1>5, SameFile DEF Safe, SameTexts, Moves
  <2>3. x \notin crossed
    BY <2>1 DEF Undisturbed
  <2>4. CASE AttachGet(r)
    <3>1. tmux' = tmux /\ fate' = fate /\ Quiet(x)
      BY <1>6, <2>1, <2>4 DEF AttachGet, At, Stage, During
    <3>2. req'[r] # NoRequest => Stage(r)'
      BY <1>1, <1>4, <1>6, <2>2, <2>4, <3>1
      DEF Stage, During, Quiet, Onto, AttachGet, AttachCreate, At
    <3>3. QED
      BY <1>5, <1>6, <2>1, <2>2, <2>3, <3>1, <3>2, After DEF Place, Quiet, Safe
  <2>5. CASE AttachCreate(r) /\ x \in tmux
    <3>1. tmux' = tmux /\ fate' = fate /\ ~Rec(x) /\ req'[r] = NoRequest
      BY <1>2, <1>6, <2>1, <2>5, Slots DEF AttachCreate, At, Stage, During, Quiet
    <3>2. QED
      BY <1>5, <1>6, <2>1, <2>5, <2>2, <2>3, <3>1, After DEF Safe
  <2>6. CASE AttachCreate(r) /\ x \notin tmux
    <3>1. x \in tmux' /\ fate'[x] # "unborn" /\ fate'[x] # "closed"
      BY <1>2, <1>6, <2>1, <2>6 DEF AttachCreate, TypeOK
    <3>2. req'[r].op = "attach" /\ req'[r].step = "read" /\ req'[r].id = x
      BY <1>1, <1>4, <1>6, <2>6 DEF AttachGet, AttachCreate, AttachFinish, At, Onto
    <3>3. Stage(r)'
      BY <3>1, <3>2 DEF Stage, During
    <3>4. QED
      BY <1>5, <1>6, <2>3, <3>1, <3>2, <3>3, After DEF Safe, NoRequest
  <2>7. CASE AttachFinish(r)
    <3>1. tmux' = tmux /\ fate' = fate /\ ~Rec(x) /\ req'[r] = NoRequest
      BY <1>2, <1>6, <2>1, <2>7, Slots DEF AttachFinish, At, Stage, During
    <3>2. QED
      BY <1>5, <1>6, <2>1, <2>2, <2>3, <3>1, After DEF Place, Safe
  <2>8. QED
    BY <2>4, <2>5, <2>6, <2>7 DEF Attach
<1>7. QED
  BY <1>1, <1>3, <1>5, <1>6, MoveIsSafe

LEMMA CloseIsSafe ==
  ASSUME TypeInv, Safe, NEW r \in Requests, Close(r)
  PROVE  Safe'
<1> DEFINE w == req[r].id
<1>1. up /\ req[r].op = "close" /\ w \in Ids
  BY DEF Close, CloseGet, CloseKill, CloseFinish, At, TypeInv, Named
<1>2. TypeOK
  BY DEF TypeInv
<1>3. /\ UNCHANGED <<file, up, crossed>> /\ (disturbed => disturbed')
      /\ \A x \in Ids \ {w} : (x \in tmux' <=> x \in tmux) /\ fate'[x] = fate[x]
      /\ req[r].step # "write"
  <2>1. CASE CloseGet(r)
    BY <2>1 DEF CloseGet, At
  <2>2. CASE CloseKill(r)
    BY <2>2 DEF CloseKill, At
  <2>3. CASE CloseFinish(r)
    BY <1>2, <2>3 DEF CloseFinish, At, TypeOK
  <2>4. QED
    BY <2>1, <2>2, <2>3 DEF Close
<1>4. \/ CloseGet(r) /\ Onto(r, "read", Contents[w], req[r].base)
      \/ CloseGet(r) /\ Onto(r, "session", Contents[w], req[r].base) /\ Contents[w] = 0
      \/ CloseKill(r) /\ Onto(r, "finish", req[r].rec, req[r].base)
      \/ /\ CloseFinish(r)
         /\ \A x \in Requests \ {r} : req'[x] = req[x]
         /\ req'[r] = NoRequest
  BY <1>2, Slots DEF Close, CloseGet, CloseKill, CloseFinish
<1>5. Moves(r) /\ req'[r].step # "write"
  BY <1>1, <1>3, <1>4 DEF Moves, Onto, NoRequest
<1>6. ASSUME NEW x \in Ids, x = w, Undisturbed(x)' PROVE Place(x)'
  <2>1. Undisturbed(x) /\ Place(x) /\ Stage(r) /\ fate[x] = "closing"
    BY <1>1, <1>5, <1>6, Before DEF Safe, Stage
  <2>2. Rec(x)' <=> Rec(x)
    BY <1>3, <1>5, SameFile DEF Safe, SameTexts, Moves
  <2>3. x \notin crossed
    BY <2>1 DEF Undisturbed
  <2>4. CASE CloseGet(r)
    <3>1. fate'[x] = "closing" /\ req'[r].op = "close" /\ req'[r].id = x
      BY <1>1, <1>4, <1>6, <2>1, <2>4 DEF CloseGet, Onto, CloseFinish, CloseKill, At
    <3>2. Contents = file.recs /\ (Rec(x) <=> file.recs[x] # 0)
      BY <1>6, <2>1, <2>4, WholeFile DEF CloseGet, Safe, Undisturbed
    <3>3. req'[r].step = "read" \/ (req'[r].step = "session" /\ ~Rec(x)')
      BY <1>4, <1>6, <2>2, <2>4, <3>2 DEF CloseGet, Onto, CloseFinish, CloseKill, At
    <3>4. Stage(r)'
      BY <3>1, <3>3 DEF Stage, During
    <3>5. QED
      BY <1>5, <1>6, <2>3, <3>1, <3>4, After DEF Safe, NoRequest
  <2>5. CASE CloseKill(r)
    <3>1. fate'[x] = "closing" /\ x \notin tmux' /\ ~Rec(x)
      BY <1>1, <1>6, <2>1, <2>5 DEF CloseKill, At, Stage, During
    <3>2. req'[r].op = "close" /\ req'[r].step = "finish" /\ req'[r].id = x
      BY <1>1, <1>4, <1>6, <2>5 DEF CloseGet, CloseKill, CloseFinish, At, Onto
    <3>3. Stage(r)'
      BY <2>2, <3>1, <3>2 DEF Stage, During
    <3>4. QED
      BY <1>5, <1>6, <2>3, <3>1, <3>2, <3>3, After DEF Safe, NoRequest
  <2>6. CASE CloseFinish(r)
    <3>1. /\ fate'[x] = "closed" /\ req'[r] = NoRequest
          /\ x \notin tmux' /\ ~Rec(x)
      BY <1>1, <1>2, <1>6, <2>1, <2>6, Slots DEF CloseFinish, At, Stage, During, TypeOK
    <3>2. QED
      BY <1>5, <1>6, <2>2, <2>3, <3>1, After DEF Safe
  <2>7. QED
    BY <2>4, <2>5, <2>6 DEF Close
<1>7. QED
  BY <1>1, <1>3, <1>5, <1>6, MoveIsSafe

-----------------------------------------------------------------------------
(* The rewrite of parked.json *)

\* A step of the store concerns the record of its own workspace only.
LEMMA StoreMoveIsSafe ==
  ASSUME Safe, NEW r \in Requests, Moves(r), NEW w \in Ids, w = req[r].id,
         tmux' = tmux, fate' = fate, OneWriter',
         ~disturbed' => \A x \in Ids \ {w} : Rec(x)' <=> Rec(x),
         Undisturbed(w)' => Place(w)'
  PROVE  Safe'
<1>1. Shape'
  BY ShapeMoves DEF Safe
<1>2. ASSUME NEW x \in Ids, x # w, ~disturbed' PROVE Placed(x)'
  BY <1>2, Others DEF Safe
<1>3. ASSUME NEW x \in Ids, disturbed' PROVE Placed(x)'
  BY <1>3 DEF Placed, Undisturbed
<1>4. Placed(w)'
  BY DEF Placed
<1>5. \A x \in Ids : Placed(x)'
  BY <1>2, <1>3, <1>4
<1>6. QED
  BY <1>1, <1>5 DEF Safe

\* What every step of the store has in common.
LEMMA StoreMoves ==
  ASSUME TypeInv, Safe, NEW r \in Requests, Store(r)
  PROVE  /\ req[r].op \in {"park", "attach", "close"} /\ req[r].id \in Ids
         /\ Moves(r)
         /\ tmux' = tmux /\ fate' = fate
         /\ ~disturbed' => ~disturbed
         /\ req'[r].op = req[r].op /\ req'[r].id = req[r].id /\ req'[r].rec = req[r].rec
<1>1. /\ up /\ req[r].step \in {"read", "truncate", "write"}
      /\ tmux' = tmux /\ fate' = fate /\ up' = up /\ crossed' = crossed
      /\ disturbed => disturbed'
  <2>1. CASE StoreRead(r)
    BY <2>1 DEF StoreRead
  <2>2. CASE StoreTruncate(r)
    BY <2>2 DEF StoreTruncate
  <2>3. CASE StoreWrite(r)
    BY <2>3 DEF StoreWrite
  <2>4. QED
    BY <2>1, <2>2, <2>3 DEF Store
<1>2. req[r].op \in {"park", "attach", "close"} /\ req[r].id \in Ids
  BY <1>1 DEF Safe, Shape, TypeInv, TypeOK, Ops
<1>3. /\ \A x \in Requests \ {r} : req'[x] = req[x]
      /\ req'[r].op = req[r].op /\ req'[r].id = req[r].id /\ req'[r].rec = req[r].rec
      /\ req'[r].step # "idle"
  <2>1. \A op : AfterStore(op) # "idle"
    BY DEF AfterStore
  <2>2. TypeOK
    BY DEF TypeInv
  <2>3. CASE StoreRead(r)
    <3> DEFINE step == IF req[r].op # "park" /\ Contents[req[r].id] = 0
                       THEN AfterStore(req[r].op) ELSE "truncate"
    <3>1. Onto(r, step, req[r].rec, Contents)
      BY <2>2, <2>3, Slots DEF StoreRead
    <3>2. step # "idle"
      BY <2>1
    <3>3. QED
      BY <3>1, <3>2 DEF Onto
  <2>4. CASE StoreTruncate(r)
    <3>1. Onto(r, "write", req[r].rec, req[r].base)
      BY <2>2, <2>4, Slots DEF StoreTruncate
    <3>2. QED
      BY <3>1 DEF Onto
  <2>5. CASE StoreWrite(r)
    <3>1. Onto(r, AfterStore(req[r].op), req[r].rec, req[r].base)
      BY <2>2, <2>5, Slots DEF StoreWrite
    <3>2. QED
      BY <2>1, <3>1 DEF Onto
  <2>6. QED
    BY <2>3, <2>4, <2>5 DEF Store
<1>4. QED
  BY <1>1, <1>2, <1>3 DEF Moves

LEMMA ReadIsSafe ==
  ASSUME TypeInv, Safe, NEW r \in Requests, StoreRead(r)
  PROVE  Safe'
<1> DEFINE w == req[r].id
<1> DEFINE step == IF req[r].op # "park" /\ Contents[w] = 0
                   THEN AfterStore(req[r].op) ELSE "truncate"
<1>1. /\ req[r].op \in {"park", "attach", "close"} /\ w \in Ids /\ Moves(r)
      /\ tmux' = tmux /\ fate' = fate /\ (~disturbed' => ~disturbed)
      /\ req'[r].op = req[r].op /\ req'[r].id = w /\ req'[r].rec = req[r].rec
  BY StoreMoves DEF Store
<1>2. file' = file /\ req[r].step = "read" /\ (disturbed' \/ file.state = "whole")
  BY DEF StoreRead
<1>3. Onto(r, step, req[r].rec, Contents)
  <2>1. TypeOK
    BY DEF TypeInv
  <2>2. QED
    BY <2>1, Slots DEF StoreRead
<1>4. req'[r].step = step /\ step # "write"
  BY <1>3 DEF Onto, AfterStore
<1>5. ASSUME NEW x \in Ids, x = w, Undisturbed(x)' PROVE Place(x)'
  <2>1. Undisturbed(x) /\ Place(x) /\ Stage(r) /\ fate[x] # "unborn" /\ fate[x] # "closed"
    BY <1>1, <1>5, Before DEF Safe
  <2>2. ~disturbed /\ ~disturbed' /\ x \notin crossed
    BY <1>5, <2>1 DEF Undisturbed
  <2>3. Contents = file.recs /\ (Rec(x) <=> file.recs[x] # 0)
    BY <1>2, <2>2, WholeFile DEF Safe
  <2>4. Rec(x)' <=> Rec(x)
    BY <1>1, <1>2, <1>4, SameFile DEF Safe, SameTexts, Moves
  <2>5. Stage(r)'
    <3>1. CASE req[r].op = "park"
      BY <1>1, <1>2, <1>4, <1>5, <2>1, <2>4, <3>1 DEF Stage, During
    <3>2. CASE req[r].op = "attach"
      BY <1>1, <1>2, <1>4, <1>5, <2>1, <2>3, <2>4, <3>2 DEF Stage, During, AfterStore
    <3>3. CASE req[r].op = "close"
      BY <1>1, <1>2, <1>4, <1>5, <2>1, <2>3, <2>4, <3>3 DEF Stage, During, AfterStore
    <3>4. QED
      BY <1>1, <3>1, <3>2, <3>3
  <2>6. req'[r] # NoRequest
    BY <1>1 DEF NoRequest
  <2>7. QED
    BY <1>1, <1>5, <2>1, <2>2, <2>4, <2>5, <2>6, After DEF Safe, Place
<1>6. QED
  BY <1>1, <1>2, <1>4, <1>5, MoveIsSafe

\* Undisturbed, the file is what the writer read: its text changes no other record.
LEMMA TruncateIsSafe ==
  ASSUME TypeInv, Safe, NEW r \in Requests, StoreTruncate(r)
  PROVE  Safe'
<1> DEFINE w == req[r].id
<1>1. /\ req[r].op \in {"park", "attach", "close"} /\ w \in Ids /\ Moves(r)
      /\ tmux' = tmux /\ fate' = fate /\ (~disturbed' => ~disturbed)
      /\ req'[r].op = req[r].op /\ req'[r].id = w /\ req'[r].rec = req[r].rec
  BY StoreMoves DEF Store
<1>2. /\ req[r].step = "truncate"
      /\ file' = [state |-> "empty", recs |-> NoRecords]
      /\ ~disturbed' => file.state = "whole" /\ file.recs = req[r].base
  BY DEF StoreTruncate
<1>3. req'[r].step = "write" /\ req'[r].base = req[r].base
  <2>1. TypeOK
    BY DEF TypeInv
  <2>2. QED
    BY <2>1, Slots DEF StoreTruncate, Onto
<1>4. ~disturbed' => \A x \in Requests : req'[x].step = "write" <=> x = r
  BY <1>1, <1>2, <1>3 DEF Safe, OneWriter, Moves
<1>5. OneWriter'
  BY <1>2, <1>4 DEF OneWriter
<1>6. ASSUME ~disturbed', NEW x \in Ids
      PROVE  Rec(x)' <=> IF x = w THEN req[r].op = "park" /\ req[r].rec # 0 ELSE Rec(x)
  <2>1. file'.recs[x] = 0
    BY <1>2 DEF NoRecords
  <2>2. Rec(x) <=> file.recs[x] # 0
    BY <1>1, <1>2, <1>6, WholeFile DEF Safe
  <2>3. Rec(x)' <=> NewRecords(r)'[x] # 0
    BY <1>4, <1>6, <2>1 DEF Rec, BeingWritten
  <2>4. req[r].base \in [Ids -> Conv]
    BY DEF TypeInv, TypeOK, Records
  <2>5. NewRecords(r)'[x] = IF x = w THEN IF req[r].op = "park" THEN req[r].rec ELSE 0
                            ELSE req[r].base[x]
    BY <1>1, <1>3, <2>4 DEF NewRecords
  <2>6. QED
    BY <1>2, <1>6, <2>2, <2>3, <2>5
<1>7. ASSUME NEW x \in Ids, x = w, Undisturbed(x)' PROVE Place(x)'
  <2>1. Undisturbed(x) /\ Place(x) /\ Stage(r) /\ fate[x] # "unborn" /\ fate[x] # "closed"
    BY <1>1, <1>7, Before DEF Safe
  <2>2. ~disturbed' /\ x \notin crossed
    BY <1>7, <2>1 DEF Undisturbed
  <2>3. req[r].op = "park" => req[r].rec # 0 /\ Rec(x)'
    BY <1>2, <1>6, <1>7, <2>1, <2>2 DEF Stage, During
  <2>4. req[r].op # "park" => fate[x] # "open" \/ x \in tmux
    BY <1>1, <1>2, <1>7, <2>1 DEF Stage, During
  <2>5. Stage(r)'
    BY <1>1, <1>2, <1>3, <1>7, <2>1, <2>3 DEF Stage, During
  <2>6. req'[r] # NoRequest
    BY <1>1 DEF NoRequest
  <2>7. QED
    BY <1>1, <1>7, <2>1, <2>2, <2>3, <2>4, <2>5, <2>6, After DEF Safe
<1>8. QED
  BY <1>1, <1>5, <1>6, <1>7, StoreMoveIsSafe

\* Undisturbed, the file is empty and the text lands whole.
LEMMA WriteIsSafe ==
  ASSUME TypeInv, Safe, NEW r \in Requests, StoreWrite(r)
  PROVE  Safe'
<1> DEFINE w == req[r].id
<1>1. /\ req[r].op \in {"park", "attach", "close"} /\ w \in Ids /\ Moves(r)
      /\ tmux' = tmux /\ fate' = fate /\ (~disturbed' => ~disturbed)
      /\ req'[r].op = req[r].op /\ req'[r].id = w /\ req'[r].rec = req[r].rec
  BY StoreMoves DEF Store
<1>2. req[r].step = "write" /\ file' \in Landed(NewRecords(r)) /\ disturbed' = disturbed
  BY DEF StoreWrite
<1>3. req'[r].step = AfterStore(req[r].op)
  <2>1. TypeOK
    BY DEF TypeInv
  <2>2. QED
    BY <2>1, Slots DEF StoreWrite, Onto
<1>4. ~disturbed => /\ \A x \in Requests : req[x].step = "write" <=> x = r
                    /\ file.state = "empty" /\ file.recs = NoRecords
  BY <1>2 DEF Safe, OneWriter
<1>5. ~disturbed => file' = [state |-> "whole", recs |-> NewRecords(r)]
  <2>1. Recorded(NoRecords) = {}
    BY DEF Recorded, NoRecords
  <2>2. QED
    BY <1>2, <1>4, <2>1 DEF Landed
<1>6. ~disturbed => \A x \in Requests : req'[x].step # "write"
  BY <1>1, <1>3, <1>4 DEF Moves, AfterStore
<1>7. OneWriter'
  BY <1>2, <1>5, <1>6 DEF OneWriter
<1>8. ASSUME ~disturbed, NEW x \in Ids
      PROVE  (Rec(x)' <=> NewRecords(r)[x] # 0) /\ (Rec(x) <=> NewRecords(r)[x] # 0)
  <2>1. Rec(x)' <=> NewRecords(r)[x] # 0
    BY <1>5, <1>6, <1>8 DEF Rec, BeingWritten
  <2>2. Rec(x) <=> NewRecords(r)[x] # 0
    BY <1>4, <1>8 DEF Rec, BeingWritten, NoRecords
  <2>3. QED
    BY <2>1, <2>2
<1>9. ASSUME NEW x \in Ids, x = w, Undisturbed(x)' PROVE Place(x)'
  <2>1. Undisturbed(x) /\ Place(x) /\ Stage(r) /\ fate[x] # "unborn" /\ fate[x] # "closed"
    BY <1>1, <1>9, Before DEF Safe
  <2>2. ~disturbed /\ x \notin crossed
    BY <2>1 DEF Undisturbed
  <2>3. NewRecords(r)[x] = IF req[r].op = "park" THEN req[r].rec ELSE 0
    BY <1>9 DEF NewRecords, TypeInv, TypeOK, Records
  <2>4. Rec(x)' <=> req[r].op = "park"
    BY <1>2, <1>8, <1>9, <2>1, <2>2, <2>3 DEF Stage, During
  <2>5. Stage(r)'
    BY <1>1, <1>3, <1>9, <2>1, <2>4 DEF Stage, During, AfterStore
  <2>6. req'[r] # NoRequest
    BY <1>1 DEF NoRequest
  <2>7. QED
    BY <1>1, <1>8, <1>9, <2>1, <2>2, <2>5, <2>6, After DEF Safe, Place
<1>10. QED
  BY <1>1, <1>2, <1>7, <1>8, <1>9, StoreMoveIsSafe

-----------------------------------------------------------------------------
(* A request begins *)

LEMMA BeginIsSafe ==
  ASSUME TypeInv, Safe, NEW r \in Requests, NEW w \in Ids,
         ParkStart(r, w) \/ AttachStart(r, w) \/ CloseStart(r, w)
  PROVE  Safe'
<1>1. PICK op \in {"park", "attach", "close"} :
        /\ Begin(r, op, w) /\ tmux' = tmux /\ file' = file /\ up' = up /\ disturbed' = disturbed
        /\ \A x \in Ids \ {w} : fate'[x] = fate[x]
        /\ IF op # "close" THEN fate' = fate
           ELSE fate'[w] = IF fate[w] = "closed" THEN fate[w] ELSE "closing"
  <2>1. CASE ParkStart(r, w)
    BY <2>1 DEF ParkStart
  <2>2. CASE AttachStart(r, w)
    BY <2>2 DEF AttachStart
  <2>3. CASE CloseStart(r, w)
    BY <2>3 DEF CloseStart, TypeInv, TypeOK
  <2>4. QED
    BY <2>1, <2>2, <2>3
<1>2. /\ req'[r].op = op /\ req'[r].step = "get" /\ req'[r].id = w
      /\ \A x \in Requests \ {r} : req'[x] = req[x]
      /\ up /\ req[r].op = "none" /\ req[r].step = "idle" /\ fate[w] # "unborn"
  BY <1>1 DEF Begin, NoRequest, TypeInv, TypeOK, Safe, Shape
<1>3. /\ crossed \subseteq crossed'
      /\ w \notin crossed' => InFlight(w) = {} /\ fate[w] # "closing" /\ fate[w] # "closed"
  BY <1>1 DEF Begin
<1>4. Shape'
  <2>1. \A x \in Requests : /\ req'[x].op = "none" <=> req'[x].step = "idle"
                            /\ req'[x].op # "none" => req'[x].id \in Ids
    BY <1>1, <1>2 DEF Safe, Shape
  <2>2. ASSUME NEW x \in Requests, NEW y \in Requests, x # y, req'[x].op # "none",
               req'[y].op # "none", req'[x].id = req'[y].id
        PROVE  req'[x].id \in crossed'
    <3>1. CASE x = r \/ y = r
      BY <1>2, <1>3, <2>2, <3>1 DEF InFlight
    <3>2. CASE x # r /\ y # r
      BY <1>2, <1>3, <2>2, <3>2 DEF Safe, Shape
    <3>3. QED
      BY <3>1, <3>2
  <2>3. QED
    BY <1>1, <1>2, <2>1, <2>2 DEF Shape
<1>5. OneWriter' /\ \A x \in Ids : Rec(x)' <=> Rec(x)
  <2>1. SameTexts
    BY <1>2 DEF SameTexts
  <2>2. QED
    BY <1>1, <2>1, SameFile DEF Safe
<1>6. ASSUME NEW x \in Ids, x # w PROVE Placed(x)'
  <2>1. \A s \in Requests : s \in InFlight(x) \/ s \in InFlight(x)' => req'[s] = req[s]
    BY <1>2, <1>6 DEF InFlight
  <2>2. QED
    BY <1>1, <1>3, <1>5, <1>6, <2>1, Elsewhere DEF Safe
<1>7. ASSUME Undisturbed(w)' PROVE Place(w)'
  <2>1. w \notin crossed' /\ ~disturbed'
    BY <1>7 DEF Undisturbed
  <2>2. Undisturbed(w) /\ InFlight(w) = {} /\ fate[w] # "closing" /\ fate[w] # "closed"
    BY <1>1, <1>3, <2>1 DEF Undisturbed
  <2>3. Place(w) /\ Quiet(w)
    BY <1>2, <2>2 DEF Safe, Placed, Place
  <2>4. InFlight(w)' = {r}
    BY <1>1, <1>2, <2>2 DEF InFlight
  <2>5. Stage(r)'
    BY <1>1, <1>2, <1>5, <2>2, <2>3 DEF Stage, During, Quiet
  <2>6. QED
    BY <1>1, <1>2, <1>5, <2>2, <2>3, <2>4, <2>5 DEF Place
<1>8. Placed(w)'
  BY <1>7 DEF Placed
<1>9. QED
  BY <1>4, <1>5, <1>6, <1>8 DEF Safe

-----------------------------------------------------------------------------
(* What happens around the requests *)

\* A step that moves no request and rewrites nothing.
LEMMA AroundIsSafe ==
  ASSUME Safe, UNCHANGED <<file, req, up, disturbed, crossed>>, NEW w \in Ids,
         \A x \in Ids \ {w} : (x \in tmux' <=> x \in tmux) /\ fate'[x] = fate[x],
         Undisturbed(w) /\ (Rec(w)' <=> Rec(w)) => Place(w)'
  PROVE  Safe'
<1>1. OneWriter' /\ \A x \in Ids : Rec(x)' <=> Rec(x)
  BY SameFile DEF Safe, SameTexts
<1>2. Shape'
  BY DEF Safe, Shape
<1>3. ASSUME NEW x \in Ids, x # w PROVE Placed(x)'
  BY <1>1, <1>3, Elsewhere DEF Safe
<1>4. Placed(w)'
  BY <1>1 DEF Placed, Undisturbed
<1>5. QED
  BY <1>1, <1>2, <1>3, <1>4 DEF Safe

LEMMA CreateIsSafe ==
  ASSUME TypeInv, Safe, NEW w \in Ids, Create(w)
  PROVE  Safe'
<1>1. /\ UNCHANGED <<file, req, up, disturbed, crossed>>
      /\ \A x \in Ids \ {w} : (x \in tmux' <=> x \in tmux) /\ fate'[x] = fate[x]
      /\ fate[w] = "unborn" /\ fate'[w] = "open" /\ w \in tmux'
  BY DEF Create, TypeInv, TypeOK
<1>2. ASSUME Undisturbed(w), Rec(w)' <=> Rec(w) PROVE Place(w)'
  <2>1. Place(w) /\ InFlight(w)' = InFlight(w)
    BY <1>1, <1>2 DEF Safe, Placed, InFlight
  <2>2. QED
    BY <1>1, <1>2, <2>1 DEF Place, Quiet
<1>3. QED
  BY <1>1, <1>2, AroundIsSafe

LEMMA ExitIsSafe ==
  ASSUME TypeInv, Safe, NEW w \in Ids, SessionExit(w)
  PROVE  Safe'
<1>1. /\ UNCHANGED <<file, req, up, disturbed, crossed>>
      /\ \A x \in Ids \ {w} : (x \in tmux' <=> x \in tmux) /\ fate'[x] = fate[x]
      /\ fate'[w] = (IF fate[w] = "open" THEN "exited" ELSE fate[w]) /\ w \notin tmux'
  BY DEF SessionExit, TypeInv, TypeOK
<1>2. ASSUME Undisturbed(w), Rec(w)' <=> Rec(w) PROVE Place(w)'
  <2>1. Place(w) /\ InFlight(w)' = InFlight(w)
    BY <1>1, <1>2 DEF Safe, Placed, InFlight
  <2>2. ASSUME NEW r \in InFlight(w) PROVE Stage(r)'
    <3>1. Stage(r) /\ req'[r] = req[r] /\ req[r].id = w
      BY <1>1, <2>1, <2>2 DEF Place, InFlight
    <3>2. QED
      BY <1>1, <1>2, <3>1 DEF Stage, During, Quiet
  <2>3. QED
    BY <1>1, <1>2, <2>1, <2>2 DEF Place, Quiet
<1>3. QED
  BY <1>1, <1>2, AroundIsSafe

\* Steps of the hooks and of the poll are not seen by the invariant.
LEMMA UnseenIsSafe ==
  ASSUME Safe, UNCHANGED <<tmux, file, req, up, fate, disturbed, crossed>>
  PROVE  Safe'
<1>1. OneWriter' /\ \A x \in Ids : Rec(x)' <=> Rec(x)
  BY SameFile DEF Safe, SameTexts
<1>2. Shape'
  BY DEF Safe, Shape
<1>3. ASSUME NEW x \in Ids PROVE Placed(x)'
  BY <1>1, Elsewhere DEF Safe
<1>4. QED
  BY <1>1, <1>2, <1>3 DEF Safe

\* While the process is down, or as it dies, no request is left: what matters is
\* where the sessions and the file leave each workspace.
LEMMA DownIsSafe ==
  ASSUME Safe, file' = file, crossed' = crossed, disturbed => disturbed',
         ~disturbed' => file.state = "whole",
         \A r \in Requests : req'[r].op = "none" /\ req'[r].step = "idle",
         ASSUME NEW w \in Ids, Undisturbed(w), Place(w), Rec(w) <=> file.recs[w] # 0,
                Contents = file.recs
         PROVE  /\ fate'[w] \in {"unborn", "closed"} => w \notin tmux' /\ file.recs[w] = 0
                /\ fate'[w] = "open" => w \in tmux' \/ file.recs[w] # 0
                /\ up' => ~(w \in tmux' /\ file.recs[w] # 0)
  PROVE  Safe'
<1>1. Shape'
  BY DEF Shape
<1>2. OneWriter'
  BY DEF OneWriter
<1>3. ASSUME NEW w \in Ids, Undisturbed(w)' PROVE Place(w)'
  <2>1. Undisturbed(w) /\ ~disturbed /\ file.state = "whole"
    BY <1>3 DEF Undisturbed
  <2>2. Contents = file.recs /\ (Rec(w) <=> file.recs[w] # 0)
    BY <2>1, WholeFile DEF Safe
  <2>3. Place(w)
    BY <2>1 DEF Safe, Placed
  <2>4. Rec(w)' <=> file.recs[w] # 0
    BY DEF Rec, BeingWritten
  <2>5. InFlight(w)' = {}
    BY DEF InFlight
  <2>6. QED
    BY <2>1, <2>2, <2>3, <2>4, <2>5 DEF Place, Quiet
<1>4. QED
  BY <1>1, <1>2, <1>3 DEF Safe, Placed

LEMMA CrashIsSafe ==
  ASSUME TypeInv, Safe, Crash
  PROVE  Safe'
<1>1. /\ file' = file /\ crossed' = crossed /\ tmux' = tmux /\ fate' = fate /\ ~up'
      /\ \A r \in Requests : req'[r].op = "none" /\ req'[r].step = "idle"
  BY DEF Crash, NoRequest
<1>2. (disturbed => disturbed') /\ (~disturbed' => file.state = "whole")
  BY DEF Crash
<1>3. ASSUME NEW w \in Ids, Place(w), Rec(w) <=> file.recs[w] # 0
      PROVE  /\ fate'[w] \in {"unborn", "closed"} => w \notin tmux' /\ file.recs[w] = 0
             /\ fate'[w] = "open" => w \in tmux' \/ file.recs[w] # 0
             /\ up' => ~(w \in tmux' /\ file.recs[w] # 0)
  BY <1>1, <1>3 DEF Place
<1>4. QED
  BY <1>1, <1>2, <1>3, DownIsSafe

\* While the process is down nothing is being written.
LEMMA DownFacts ==
  ASSUME TypeInv, Safe, ~up
  PROVE  /\ \A r \in Requests : req[r].op = "none" /\ req[r].step = "idle"
         /\ ~disturbed => file.state = "whole"
  BY DEF Safe, Shape, OneWriter

LEMMA RestoredIsSafe ==
  ASSUME TypeInv, Safe, TmuxRestored
  PROVE  Safe'
<1>1. /\ file' = file /\ req' = req /\ crossed' = crossed /\ disturbed' = disturbed
      /\ ~up /\ ~up'
  BY DEF TmuxRestored
<1>2. /\ \A r \in Requests : req'[r].op = "none" /\ req'[r].step = "idle"
      /\ ~disturbed' => file.state = "whole"
  BY <1>1, DownFacts
<1>3. ASSUME NEW w \in Ids, Place(w), Rec(w) <=> file.recs[w] # 0, Contents = file.recs
      PROVE  /\ fate'[w] \in {"unborn", "closed"} => w \notin tmux' /\ file.recs[w] = 0
             /\ fate'[w] = "open" => w \in tmux' \/ file.recs[w] # 0
             /\ up' => ~(w \in tmux' /\ file.recs[w] # 0)
  <2>1. /\ w \in tmux' => w \in tmux \/ file.recs[w] # 0
        /\ fate'[w] = IF w \in tmux /\ w \notin tmux' /\ file.recs[w] = 0 /\ fate[w] = "open"
                      THEN "exited" ELSE fate[w]
    BY <1>3 DEF TmuxRestored, Recorded
  <2>2. QED
    BY <1>1, <1>3, <2>1 DEF Place
<1>4. QED
  BY <1>1, <1>2, <1>3, DownIsSafe

\* reconcileParked leaves one of the two to a workspace that has both.
LEMMA RestartIsSafe ==
  ASSUME TypeInv, Safe, Restart
  PROVE  Safe'
<1>1. /\ file' = file /\ req' = req /\ crossed' = crossed /\ disturbed' = disturbed
      /\ fate' = fate /\ ~up
  BY DEF Restart
<1>2. /\ \A r \in Requests : req'[r].op = "none" /\ req'[r].step = "idle"
      /\ ~disturbed' => file.state = "whole"
  BY <1>1, DownFacts
<1>3. ASSUME NEW w \in Ids, Place(w), Rec(w) <=> file.recs[w] # 0, Contents = file.recs
      PROVE  /\ fate'[w] \in {"unborn", "closed"} => w \notin tmux' /\ file.recs[w] = 0
             /\ fate'[w] = "open" => w \in tmux' \/ file.recs[w] # 0
             /\ up' => ~(w \in tmux' /\ file.recs[w] # 0)
  <2>1. w \in tmux' <=> w \in tmux /\ file.recs[w] = 0
    BY <1>3 DEF Restart, ReconcileParked, Recorded
  <2>2. QED
    BY <1>1, <1>3, <2>1 DEF Place
<1>4. QED
  BY <1>1, <1>2, <1>3, DownIsSafe

-----------------------------------------------------------------------------
(* The invariant *)

LEMMA InvStep == IInv /\ [Next]_vars => IInv'
<1> SUFFICES ASSUME TypeInv, Safe, [Next]_vars PROVE TypeInv' /\ Safe'
  BY DEF IInv
<1>1. TypeInv'
  BY TypeStep
<1>2. ASSUME NEW r \in Requests, Client(r) \/ Park(r) \/ Attach(r) \/ Close(r) \/ Store(r)
      PROVE  Safe'
  BY <1>2, BeginIsSafe, ParkIsSafe, AttachIsSafe, CloseIsSafe, ReadIsSafe, TruncateIsSafe,
     WriteIsSafe DEF Client, Store
<1>3. ASSUME NEW w \in Ids, Create(w) \/ Hook(w) \/ SessionExit(w) PROVE Safe'
  <2>1. Hook(w) => Safe'
    BY UnseenIsSafe DEF Hook
  <2>2. QED
    BY <1>3, <2>1, CreateIsSafe, ExitIsSafe
<1>4. Poll => Safe'
  BY UnseenIsSafe DEF Poll
<1>5. UNCHANGED vars => Safe'
  BY UnseenIsSafe DEF vars
<1>6. Environment => Safe'
  BY <1>3, <1>4, CrashIsSafe, RestoredIsSafe, RestartIsSafe DEF Environment
<1>7. QED
  BY <1>1, <1>2, <1>5, <1>6 DEF Next

LEMMA InvInit == Init => IInv
<1> SUFFICES ASSUME Init PROVE TypeInv /\ Safe
  BY DEF IInv
<1>1. \A r \in Requests : req[r].op = "none" /\ req[r].step = "idle"
  BY DEF Init, NoRequest
<1>2. Shape
  BY <1>1 DEF Shape, Init
<1>3. file.state = "whole" /\ \A w \in Ids : file.recs[w] = 0
  BY DEF Init, NoRecords
<1>4. OneWriter
  BY <1>1, <1>3 DEF OneWriter
<1>5. ASSUME NEW w \in Ids PROVE Place(w)
  <2>1. InFlight(w) = {} /\ ~Rec(w)
    BY <1>1, <1>3 DEF InFlight, Rec, BeingWritten
  <2>2. w \notin tmux /\ fate[w] = "unborn"
    BY DEF Init
  <2>3. QED
    BY <2>1, <2>2 DEF Place, Quiet
<1>6. TypeInv
  BY TypeInit
<1>7. QED
  BY <1>2, <1>4, <1>5, <1>6 DEF Safe, Placed

LEMMA InvCorrect == Spec => []IInv
  BY InvInit, InvStep, PTL DEF Spec

\* No open workspace is without a session, a record and a rewrite about to put
\* its record back, whatever crashes, unless a rewrite of parked.json was torn or
\* overlapped, or requests for that workspace crossed.
THEOREM NeverLost == Spec => []NoWorkspaceLost
<1>1. IInv => NoWorkspaceLost
  BY DEF IInv, Safe, Placed, Place, Rec, NoWorkspaceLost
<1>2. QED
  BY <1>1, InvCorrect, PTL

\* Under the same two exceptions, a closed workspace has neither session nor
\* record left.
THEOREM NeverReopened == Spec => []ClosedStaysClosed
<1>1. IInv => ClosedStaysClosed
  BY DEF IInv, Safe, Placed, Place, Rec, ClosedStaysClosed
<1>2. QED
  BY <1>1, InvCorrect, PTL

\* ... and a workspace no request is working on never has both.
THEOREM NeverBoth == Spec => []RecordOrSession
<1>1. IInv => RecordOrSession
  BY DEF IInv, Safe, Placed, Place, Quiet, Rec, RecordOrSession
<1>2. QED
  BY <1>1, InvCorrect, PTL

-----------------------------------------------------------------------------
(* Labels and conversations *)

\* An unpark that has created its session and is still to reset the label.
Unparks(r, w) == /\ During(r, "attach", {"read", "truncate", "write", "finish"})
                 /\ req[r].id = w
Waking(w) == \E r \in Requests : Unparks(r, w)

\* A label is not older than its workspace, and outlasts no unpark.
Told(w) == w \in parkedLabel => fate[w] # "unborn" /\ (w \notin tmux \/ Waking(w))

LabelInv == ~Crashes => up /\ \A w \in Ids : Undisturbed(w) => Told(w)

-----------------------------------------------------------------------------

\* A slot that is no unpark's leaves the unparks alone.
LEMMA StillWaking ==
  ASSUME NEW w \in Ids, Waking(w), NEW r \in Requests, ~Unparks(r, w),
         \A x \in Requests \ {r} : req'[x] = req[x]
  PROVE  Waking(w)'
BY DEF Waking, Unparks, During

\* So does the step of an unpark that does not end it.
LEMMA UnparkGoesOn ==
  ASSUME NEW w \in Ids, Waking(w), NEW r \in Requests,
         \A x \in Requests \ {r} : req'[x] = req[x],
         Unparks(r, w) => Unparks(r, w)'
  PROVE  Waking(w)'
BY StillWaking DEF Waking

\* What a step must not do to a workspace whose label it does not set.
LEMMA StillTold ==
  ASSUME NEW w \in Ids, Undisturbed(w) => Told(w),
         disturbed => disturbed', crossed \subseteq crossed',
         w \in parkedLabel' => w \in parkedLabel,
         fate'[w] = "unborn" => fate[w] = "unborn",
         w \in tmux' => w \in tmux,
         Waking(w) => Waking(w)'
  PROVE  (Undisturbed(w) => Told(w))'
BY DEF Undisturbed, Told

-----------------------------------------------------------------------------

\* A request starts: its slot was idle.
LEMMA BeginKeepsLabels ==
  ASSUME TypeInv, NEW w \in Ids, Undisturbed(w) => Told(w), NEW r \in Requests, Client(r)
  PROVE  (Undisturbed(w) => Told(w))'
<1>1. PICK v \in Ids, op \in Ops : Begin(r, op, v) /\ UNCHANGED <<tmux, parkedLabel, disturbed>>
  <2>1. {"park", "attach", "close"} \subseteq Ops
    BY DEF Ops
  <2>2. PICK v \in Ids : ParkStart(r, v) \/ AttachStart(r, v) \/ CloseStart(r, v)
    BY DEF Client
  <2>3. CASE ParkStart(r, v)
    BY <2>1, <2>3 DEF ParkStart
  <2>4. CASE AttachStart(r, v)
    BY <2>1, <2>4 DEF AttachStart
  <2>5. CASE CloseStart(r, v)
    BY <2>1, <2>5 DEF CloseStart
  <2>. QED  BY <2>2, <2>3, <2>4, <2>5
<1>2. fate' = fate \/ \E u \in Ids : fate' = [fate EXCEPT ![u] = IF @ = "closed" THEN @ ELSE "closing"]
  BY DEF Client, ParkStart, AttachStart, CloseStart
<1>3. \A x \in Requests \ {r} : req'[x] = req[x]
  BY <1>1 DEF Begin, TypeInv, TypeOK
<1>4. ~Unparks(r, w)
  BY <1>1 DEF Begin, Unparks, During
<1>5. crossed \subseteq crossed'
  BY <1>1 DEF Begin
<1>6. fate'[w] = "unborn" => fate[w] = "unborn"
  BY <1>2 DEF TypeInv, TypeOK
<1>. QED  BY <1>1, <1>3, <1>4, <1>5, <1>6, StillWaking, StillTold

\* A park labels a workspace whose session it has killed.
LEMMA ParkKeepsLabels ==
  ASSUME TypeInv, Safe, NEW w \in Ids, Undisturbed(w) => Told(w), NEW r \in Requests, Park(r)
  PROVE  (Undisturbed(w) => Told(w))'
<1>1. req[r].op = "park" /\ ~Unparks(r, w)
  BY DEF Park, ParkGet, ParkKill, ParkFinish, At, Unparks, During
<1>2. \A x \in Requests \ {r} : req'[x] = req[x]
  <2>1. CASE ParkGet(r)
    BY <2>1 DEF ParkGet, Done, GoTo, TypeInv, TypeOK
  <2>2. CASE ParkKill(r)
    BY <2>2 DEF ParkKill, Done, GoTo, TypeInv, TypeOK
  <2>3. CASE ParkFinish(r)
    BY <2>3 DEF ParkFinish, Done, GoTo, TypeInv, TypeOK
  <2>. QED  BY <2>1, <2>2, <2>3 DEF Park
<1>3. Waking(w) => Waking(w)'
  BY <1>1, <1>2, StillWaking
<1>4. UNCHANGED <<fate, crossed>> /\ tmux' \subseteq tmux /\ (disturbed => disturbed')
  <2>1. UNCHANGED <<fate, crossed>> /\ tmux' \subseteq tmux
    BY DEF Park, ParkGet, ParkKill, ParkFinish
  <2>2. disturbed => disturbed'
    BY Zenon DEF Park, ParkGet, ParkKill, ParkFinish
  <2>. QED  BY <2>1, <2>2
<1>5. CASE w \in parkedLabel' => w \in parkedLabel
  BY <1>3, <1>4, <1>5, StillTold
<1>6. CASE w \in parkedLabel' /\ w \notin parkedLabel
  <2>1. ParkFinish(r) /\ req[r].id = w
    BY <1>6 DEF Park, ParkGet, ParkKill, ParkFinish
  <2>2. SUFFICES ASSUME Undisturbed(w)' PROVE fate'[w] # "unborn" /\ w \notin tmux'
    BY DEF Told
  <2>3. Place(w) /\ r \in InFlight(w)
    BY <1>1, <1>4, <2>1, <2>2 DEF Safe, Placed, Undisturbed, InFlight
  <2>4. fate[w] # "unborn" /\ Stage(r)
    BY <2>3 DEF Place
  <2>5. w \notin tmux
    BY <2>1, <2>4 DEF Stage, During, ParkFinish, At
  <2>. QED  BY <1>4, <2>4, <2>5
<1>. QED  BY <1>5, <1>6

\* An unpark that creates a session goes on to reset the label.
LEMMA AttachKeepsLabels ==
  ASSUME TypeInv, Safe, NEW w \in Ids, Undisturbed(w) => Told(w), NEW r \in Requests, Attach(r)
  PROVE  (Undisturbed(w) => Told(w))'
<1>1. \A x \in Requests \ {r} : req'[x] = req[x]
  <2>1. CASE AttachGet(r)
    BY <2>1 DEF AttachGet, Done, GoTo, TypeInv, TypeOK
  <2>2. CASE AttachCreate(r)
    BY <2>2 DEF AttachCreate, Done, GoTo, TypeInv, TypeOK
  <2>3. CASE AttachFinish(r)
    BY <2>3 DEF AttachFinish, Done, GoTo, TypeInv, TypeOK
  <2>. QED  BY <2>1, <2>2, <2>3 DEF Attach
<1>2. UNCHANGED crossed /\ parkedLabel' \subseteq parkedLabel /\ (disturbed => disturbed')
  <2>1. UNCHANGED crossed /\ parkedLabel' \subseteq parkedLabel
    BY DEF Attach, AttachGet, AttachCreate, AttachFinish
  <2>2. disturbed => disturbed'
    BY Zenon DEF Attach, AttachGet, AttachCreate, AttachFinish
  <2>. QED  BY <2>1, <2>2
<1>3. fate'[w] = "unborn" => fate[w] = "unborn"
  BY DEF Attach, AttachGet, AttachCreate, AttachFinish, TypeInv, TypeOK
<1>4. CASE AttachGet(r)
  <2>1. ~Unparks(r, w) /\ tmux' = tmux
    BY <1>4 DEF AttachGet, At, Unparks, During
  <2>. QED  BY <1>1, <1>2, <1>3, <2>1, StillWaking, StillTold
<1>5. CASE AttachCreate(r)
  <2>1. ~Unparks(r, w)
    BY <1>5 DEF AttachCreate, At, Unparks, During
  <2>2. CASE w \in tmux' => w \in tmux
    BY <1>1, <1>2, <1>3, <2>1, <2>2, StillWaking, StillTold
  <2>3. CASE w \in tmux' /\ w \notin tmux
    <3>1. req[r].id = w /\ req[r].op = "attach" /\ GoTo(r, "read")
      BY <1>5, <2>3 DEF AttachCreate, At
    <3>2. req'[r].id = w /\ req'[r].op = "attach" /\ req'[r].step = "read"
      BY <3>1, Slots DEF TypeInv, Onto
    <3>3. Waking(w)'
      BY <3>2 DEF Waking, Unparks, During
    <3>. QED  BY <1>2, <1>3, <3>3 DEF Undisturbed, Told
  <2>. QED  BY <2>2, <2>3
<1>6. CASE AttachFinish(r)
  <2>1. tmux' = tmux /\ parkedLabel' = parkedLabel \ {req[r].id}
    BY <1>6 DEF AttachFinish
  <2>2. CASE req[r].id = w
    BY <2>1, <2>2 DEF Told
  <2>3. CASE req[r].id # w
    <3>1. ~Unparks(r, w)
      BY <2>3 DEF Unparks
    <3>. QED  BY <1>1, <1>2, <1>3, <2>1, <3>1, StillWaking, StillTold
  <2>. QED  BY <2>2, <2>3
<1>. QED  BY <1>4, <1>5, <1>6 DEF Attach

\* A close only takes sessions away.
LEMMA CloseKeepsLabels ==
  ASSUME TypeInv, NEW w \in Ids, Undisturbed(w) => Told(w), NEW r \in Requests, Close(r)
  PROVE  (Undisturbed(w) => Told(w))'
<1>1. ~Unparks(r, w)
  BY DEF Close, CloseGet, CloseKill, CloseFinish, At, Unparks, During
<1>2. \A x \in Requests \ {r} : req'[x] = req[x]
  <2>1. CASE CloseGet(r)
    BY <2>1 DEF CloseGet, Done, GoTo, TypeInv, TypeOK
  <2>2. CASE CloseKill(r)
    BY <2>2 DEF CloseKill, Done, GoTo, TypeInv, TypeOK
  <2>3. CASE CloseFinish(r)
    BY <2>3 DEF CloseFinish, Done, GoTo, TypeInv, TypeOK
  <2>. QED  BY <2>1, <2>2, <2>3 DEF Close
<1>3. UNCHANGED <<crossed, parkedLabel>> /\ tmux' \subseteq tmux /\ (disturbed => disturbed')
  <2>1. UNCHANGED <<crossed, parkedLabel>> /\ tmux' \subseteq tmux
    BY DEF Close, CloseGet, CloseKill, CloseFinish
  <2>2. disturbed => disturbed'
    BY Zenon DEF Close, CloseGet, CloseKill, CloseFinish
  <2>. QED  BY <2>1, <2>2
<1>4. fate'[w] = "unborn" => fate[w] = "unborn"
  BY DEF Close, CloseGet, CloseKill, CloseFinish, TypeInv, TypeOK
<1>. QED  BY <1>1, <1>2, <1>3, <1>4, StillWaking, StillTold

\* The store's steps keep an unpark an unpark.
LEMMA StoreKeepsLabels ==
  ASSUME TypeInv, NEW w \in Ids, Undisturbed(w) => Told(w), NEW r \in Requests, Store(r)
  PROVE  (Undisturbed(w) => Told(w))'
<1>1. \A x \in Requests \ {r} : req'[x] = req[x]
  BY DEF Store, StoreRead, StoreTruncate, StoreWrite, GoTo, TypeInv, TypeOK
<1>2. UNCHANGED <<tmux, parkedLabel, fate, crossed>> /\ (disturbed => disturbed')
  <2>1. UNCHANGED <<tmux, parkedLabel, fate, crossed>>
    BY DEF Store, StoreRead, StoreTruncate, StoreWrite
  <2>2. disturbed => disturbed'
    BY Zenon DEF Store, StoreRead, StoreTruncate, StoreWrite
  <2>. QED  BY <2>1, <2>2
<1>3. ASSUME Unparks(r, w) PROVE Unparks(r, w)'
  <2>1. req[r].op = "attach" /\ req[r].id = w
    BY <1>3 DEF Unparks, During
  <2>2. req'[r].op = "attach" /\ req'[r].id = w /\ req'[r].step \in {"read", "truncate", "write", "finish"}
    <3>1. CASE StoreRead(r)
      BY <2>1, <3>1 DEF StoreRead, AfterStore, TypeInv, TypeOK
    <3>2. CASE StoreTruncate(r)
      BY <2>1, <3>2 DEF StoreTruncate, GoTo, TypeInv, TypeOK
    <3>3. CASE StoreWrite(r)
      BY <2>1, <3>3 DEF StoreWrite, AfterStore, GoTo, TypeInv, TypeOK
    <3>. QED  BY <3>1, <3>2, <3>3 DEF Store
  <2>. QED  BY <2>2 DEF Unparks, During
<1>. QED  BY <1>1, <1>2, <1>3, UnparkGoesOn, StillTold

\* What happens around the requests while the agent runs.
LEMMA WorldKeepsLabels ==
  ASSUME TypeInv, NEW w \in Ids, Undisturbed(w) => Told(w),
         Poll \/ (\E v \in Ids : Create(v) \/ Hook(v) \/ SessionExit(v)) \/ UNCHANGED vars
  PROVE  (Undisturbed(w) => Told(w))'
<1>1. UNCHANGED <<req, crossed, disturbed>> /\ parkedLabel' \subseteq parkedLabel
  BY DEF Poll, Create, Hook, SessionExit, vars
<1>2. Waking(w)' <=> Waking(w)
  BY <1>1 DEF Waking, Unparks, During
<1>3. fate'[w] = "unborn" => fate[w] = "unborn"
  BY DEF Poll, Create, Hook, SessionExit, vars, TypeInv, TypeOK
<1>4. CASE w \in tmux' => w \in tmux
  BY <1>1, <1>2, <1>3, <1>4, StillTold
<1>5. CASE w \in tmux' /\ w \notin tmux
  <2>1. fate[w] = "unborn"
    BY <1>5 DEF Poll, Create, Hook, SessionExit, vars
  <2>. QED  BY <1>1, <2>1 DEF Undisturbed, Told
<1>. QED  BY <1>4, <1>5

\* The labels are told whatever happens next.
LEMMA LabelStep == IInv /\ LabelInv /\ [Next]_vars => LabelInv'
<1> SUFFICES ASSUME TypeInv, Safe, LabelInv, [Next]_vars, ~Crashes
             PROVE  up' /\ \A w \in Ids : (Undisturbed(w) => Told(w))'
  BY DEF IInv, LabelInv
<1>1. up /\ \A w \in Ids : Undisturbed(w) => Told(w)
  BY DEF LabelInv
<1>2. ~Crash /\ ~TmuxRestored /\ ~Restart
  BY <1>1 DEF Crash, TmuxRestored, Restart
<1>3. ASSUME NEW r \in Requests, Client(r) \/ Park(r) \/ Attach(r) \/ Close(r) \/ Store(r)
      PROVE  up' /\ \A w \in Ids : (Undisturbed(w) => Told(w))'
  <2>1. up' = up
    <3>1. CASE Client(r)
      BY <3>1 DEF Client, ParkStart, AttachStart, CloseStart
    <3>2. CASE Park(r)
      BY <3>2 DEF Park, ParkGet, ParkKill, ParkFinish
    <3>3. CASE Attach(r)
      BY <3>3 DEF Attach, AttachGet, AttachCreate, AttachFinish
    <3>4. CASE Close(r)
      BY <3>4 DEF Close, CloseGet, CloseKill, CloseFinish
    <3>5. CASE Store(r)
      BY <3>5 DEF Store, StoreRead, StoreTruncate, StoreWrite
    <3>. QED  BY <1>3, <3>1, <3>2, <3>3, <3>4, <3>5
  <2>. QED  BY <1>1, <1>3, <2>1, BeginKeepsLabels, ParkKeepsLabels, AttachKeepsLabels,
               CloseKeepsLabels, StoreKeepsLabels
<1>4. ASSUME Poll \/ (\E v \in Ids : Create(v) \/ Hook(v) \/ SessionExit(v)) \/ UNCHANGED vars
      PROVE  up' /\ \A w \in Ids : (Undisturbed(w) => Told(w))'
  <2>1. up' = up
    BY <1>4 DEF Poll, Create, Hook, SessionExit, vars
  <2>. QED  BY <1>1, <1>4, <2>1, WorldKeepsLabels
<1>. QED  BY <1>2, <1>3, <1>4 DEF Next, Environment

\* While the agent does not crash, a workspace that runs again, with no request
\* left to work on it, does not keep the label of its park, although parks,
\* unparks, closes and hooks of all workspaces interleave (unpark-workspace.ts:45-46).
THEOREM LabelReset == Spec => []LiveIsNotLabelledParked
<1>1. Init => LabelInv
  BY DEF Init, LabelInv, Told
<1>2. LabelInv => LiveIsNotLabelledParked
  BY DEF LabelInv, Told, Waking, Unparks, During, InFlight, LiveIsNotLabelledParked
<1>. QED  BY <1>1, <1>2, LabelStep, InvCorrect, PTL DEF Spec

-----------------------------------------------------------------------------

\* A step that leaves status.json's conversations alone.
LEMMA SameConversations ==
  ASSUME TypeInv, conv' = conv, NEW w \in Ids
  PROVE  conv'[w] >= conv[w]
<1>1. conv[w] \in Nat
  BY ConvFacts DEF TypeInv, TypeOK
<1>. QED  BY <1>1

\* The prune at startup spares what is open: with nothing in flight it has a
\* session or a record, and the file that holds the record can be read.
LEMMA PruneSparesOpen ==
  ASSUME TypeInv, Safe, NEW w \in Ids, Restart, fate[w] = "open", Undisturbed(w)
  PROVE  w \in Kept
<1>1. \A r \in Requests : req[r].op = "none" /\ req[r].step = "idle"
  BY DEF Safe, Shape, Restart
<1>2. file.state = "whole" /\ ~BeingWritten(w)
  BY <1>1 DEF Safe, OneWriter, Undisturbed, BeingWritten
<1>3. w \in tmux \/ Rec(w)
  BY DEF Safe, Placed, Place
<1>. QED  BY <1>2, <1>3 DEF Kept, ReconcileParked, Recorded, Contents, Rec

\* While a workspace is open, the conversation that park will record for it is
\* never forgotten and never an earlier one, restarts included, unless a rewrite
\* of a store was torn or its own requests crossed (file-status-store.ts).
THEOREM ConversationsKept == Spec => ConversationKept
<1>. DEFINE Grows == \A w \in Ids : fate'[w] = "open" /\ w \notin crossed /\ ~disturbed'
                                     => conv'[w] >= conv[w]
<1>1. ASSUME TypeInv, Safe, Next PROVE Grows
  <2>. SUFFICES ASSUME NEW w \in Ids, fate'[w] = "open", w \notin crossed, ~disturbed'
                PROVE  conv'[w] >= conv[w]
    OBVIOUS
  <2>1. CASE conv' = conv
    BY <1>1, <2>1, SameConversations
  <2>2. ASSUME NEW v \in Ids, Hook(v) PROVE conv'[w] >= conv[w]
    <3>1. PICK c \in {conv[v], conv[v] + 1} : conv' = [conv EXCEPT ![v] = c]
      BY <2>2 DEF Hook
    <3>2. conv[w] \in Nat /\ conv[v] \in Nat
      BY <1>1, ConvFacts DEF TypeInv, TypeOK
    <3>3. conv'[w] = conv[w] \/ (w = v /\ conv'[w] = c)
      BY <1>1, <3>1 DEF TypeInv, TypeOK
    <3>. QED  BY <3>1, <3>2, <3>3
  <2>3. CASE Crash
    <3>1. disturbed' \/ conv' = conv
      BY <2>3 DEF Crash
    <3>. QED  BY <2>1, <3>1
  <2>4. CASE Restart
    <3>1. fate[w] = "open" /\ Undisturbed(w)
      BY <2>4 DEF Restart, Undisturbed
    <3>2. w \in Kept
      BY <1>1, <2>4, <3>1, PruneSparesOpen
    <3>3. conv'[w] = conv[w]
      BY <2>4, <3>2 DEF Restart
    <3>4. conv[w] \in Nat
      BY <1>1, ConvFacts DEF TypeInv, TypeOK
    <3>. QED  BY <3>3, <3>4
  <2>5. ASSUME NEW r \in Requests, Client(r) \/ Park(r) \/ Attach(r) \/ Close(r) \/ Store(r)
        PROVE  conv' = conv
    <3>1. CASE Client(r)
      BY <3>1 DEF Client, ParkStart, AttachStart, CloseStart
    <3>2. CASE Park(r)
      BY <3>2 DEF Park, ParkGet, ParkKill, ParkFinish
    <3>3. CASE Attach(r)
      BY <3>3 DEF Attach, AttachGet, AttachCreate, AttachFinish
    <3>4. CASE Close(r)
      BY <3>4 DEF Close, CloseGet, CloseKill, CloseFinish
    <3>5. CASE Store(r)
      BY <3>5 DEF Store, StoreRead, StoreTruncate, StoreWrite
    <3>. QED  BY <2>5, <3>1, <3>2, <3>3, <3>4, <3>5
  <2>6. ASSUME (\E v \in Ids : Create(v) \/ SessionExit(v)) \/ Poll \/ TmuxRestored
        PROVE  conv' = conv
    BY <2>6 DEF Create, SessionExit, Poll, TmuxRestored
  <2>. QED  BY <1>1, <2>1, <2>2, <2>3, <2>4, <2>5, <2>6 DEF Next, Environment
<1>2. IInv /\ [Next]_vars => [Grows]_vars
  BY <1>1 DEF IInv
<1>. QED  BY <1>2, InvCorrect, PTL DEF Spec, ConversationKept

=============================================================================
