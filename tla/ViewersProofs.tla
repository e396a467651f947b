----------------------------- MODULE ViewersProofs -----------------------------
(***************************************************************************)
(* Proofs about Viewers, for any number of workspaces, connections and     *)
(* ptys: the registry keeps one viewer per workspace, and the handlers     *)
(* implement ViewerLock.                                                   *)
(***************************************************************************)
EXTENDS Viewers, TLAPS

\* The three places a view is kept agree: a handler's attachment, the live pty it
\* spawned, and the registry's holder name each other.
Agreed ==
  /\ \A c \in Conns : attachment[c] # None =>
       Alive(attachment[c]) /\ Owner(attachment[c]) = c
  /\ \A p \in Ptys : Alive(p) =>
       /\ Owner(p) \in Conns /\ Of(p) \in Ids
       /\ attachment[Owner(p)] = p /\ holder[Of(p)] = p
  /\ \A w \in Ids : holder[w] # None => Alive(holder[w]) /\ Of(holder[w]) = w

\* What a connection may have in each of its phases.
Phases ==
  /\ \A c \in Conns : conn[c] \in {"absent", "connected"} => told[c] = {}
  /\ \A c \in Conns : attachment[c] # None => conn[c] = "authed" \/ c \in overtaken
  /\ \A c \in overtaken : conn[c] = "closed"
  /\ \A c \in Conns, w \in Ids : <<c, w>> \in pending => conn[c] = "authed" \/ c \in overtaken

IInv == TypeOK /\ Agreed /\ Phases /\ ClientKnows

-----------------------------------------------------------------------------

\* Every variable keeps its type.
THEOREM TypeCorrect == Spec => []TypeOK
<1>1. Init => TypeOK
  BY DEF Init, TypeOK, ConnStates, PtyStates
<1>2. TypeOK /\ [Next]_vars => TypeOK'
  <2> SUFFICES ASSUME TypeOK, [Next]_vars PROVE TypeOK'
    OBVIOUS
  <2> USE DEF TypeOK, ConnStates, PtyStates, Owner, Of
  <2>1. ASSUME NEW c \in Conns, Connect(c) \/ Authenticate(c) PROVE TypeOK'
    BY <2>1 DEF Connect, Authenticate
  <2>2. ASSUME NEW c \in Conns, Close(c) PROVE TypeOK'
    BY <2>2 DEF Close, Release
  <2>3. ASSUME NEW c \in Conns, NEW w \in Ids, AttachRequest(c, w) \/ AttachRefused(c, w)
        PROVE TypeOK'
    BY <2>3 DEF AttachRequest, AttachRefused
  <2>4. ASSUME NEW c \in Conns, NEW w \in Ids, Detach(c, w) PROVE TypeOK'
    BY <2>4 DEF Detach, Release, Tell
  <2>5. ASSUME NEW c \in Conns, NEW w \in Ids, NEW p \in Ptys, AttachNow(c, w, p)
        PROVE TypeOK'
    <3>1. of' \in [Ptys -> (Conns \cup {None}) \X (Ids \cup {None})]
      BY <2>5 DEF AttachNow
    <3>2. pty' \in [Ptys -> PtyStates] /\ conn' \in [Conns -> ConnStates]
      BY <2>5 DEF AttachNow
    <3>3. holder' \in [Ids -> Ptys \cup {None}]
      BY <2>5 DEF AttachNow
    <3>4. attachment' \in [Conns -> Ptys \cup {None}]
      BY <2>5 DEF AttachNow
    <3>5. \A d : Tell(told, d, {w}, {}) \in [Conns -> SUBSET Ids]
      BY DEF Tell
    <3>6. \A view \in [Conns -> SUBSET Ids] : \A left :
            Tell(view, c, left, {w}) \in [Conns -> SUBSET Ids]
      BY DEF Tell
    <3>7. told' \in [Conns -> SUBSET Ids]
      BY <2>5, <3>5, <3>6 DEF AttachNow
    <3>8. pending' \subseteq Conns \X Ids /\ overtaken' \subseteq Conns
      BY <2>5 DEF AttachNow
    <3>9. QED
      BY <3>1, <3>2, <3>3, <3>4, <3>7, <3>8
  <2>6. ASSUME NEW p \in Ptys, PtyEnds(p) PROVE TypeOK'
    BY <2>6 DEF PtyEnds
  <2>7. ASSUME NEW p \in Ptys, OnExit(p) PROVE TypeOK'
    BY <2>7 DEF OnExit, Release, Tell
  <2>8. CASE UNCHANGED vars
    BY <2>8 DEF vars
  <2>9. QED
    BY <2>1, <2>2, <2>3, <2>4, <2>5, <2>6, <2>7, <2>8 DEF Next
<1>3. QED
  BY <1>1, <1>2, PTL DEF Spec

-----------------------------------------------------------------------------

\* What attach() changes, place by place: the new pty is running, the newcomer's
\* old pty and the evicted one are stopped, and both have left the registry.
LEMMA Takeover ==
  ASSUME TypeOK, Agreed, NEW c \in Conns, NEW w \in Ids, NEW p \in Ptys, AttachNow(c, w, p)
  PROVE  /\ Alive(p)' /\ Owner(p)' = c /\ Of(p)' = w
         /\ \A q \in Ptys \ {p} : /\ Owner(q)' = Owner(q) /\ Of(q)' = Of(q)
                                  /\ Alive(q)' <=> Alive(q) /\ Owner(q) # c /\ Of(q) # w
         /\ holder'[w] = p /\ attachment'[c] = p
         /\ \A q \in Ptys \ {p} : Alive(q)' =>
              attachment'[Owner(q)] = attachment[Owner(q)] /\ holder'[Of(q)] = holder[Of(q)]
         /\ \A d \in Conns \ {c} :
              attachment'[d] = IF attachment[d] # None /\ Of(attachment[d]) = w
                               THEN None ELSE attachment[d]
         /\ \A x \in Ids \ {w} :
              holder'[x] = IF holder[x] # None /\ Owner(holder[x]) = c THEN None ELSE holder[x]
         /\ LET out == Evicted(c, w, p)
            IN \A d \in Conns : out # None /\ d = Owner(out)
                                <=> d # c /\ attachment[d] # None /\ Of(attachment[d]) = w
<1> DEFINE old == attachment[c]
           out == Evicted(c, w, p)
<1> USE NoneIsNothing DEF NoneIsNothing
<1>1. ~Alive(p)
  BY DEF AttachNow, Alive
<1>2. old # None => old \in Ptys /\ Alive(old) /\ Owner(old) = c /\ Of(old) \in Ids
                    /\ holder[Of(old)] = old
  BY DEF TypeOK, Agreed
<1>3. holder[w] # None => holder[w] \in Ptys /\ Alive(holder[w]) /\ Of(holder[w]) = w
                          /\ Owner(holder[w]) \in Conns /\ attachment[Owner(holder[w])] = holder[w]
  BY DEF TypeOK, Agreed
<1>4. out = IF holder[w] # None /\ holder[w] # old THEN holder[w] ELSE None
  BY <1>1, <1>3 DEF Evicted
<1>5. \A q \in Ptys : pty'[q] = IF q = p THEN "running"
                                ELSE IF q \in {old, out} \ {None} THEN "terminated" ELSE pty[q]
  BY DEF AttachNow
<1>6. of' = [of EXCEPT ![p] = <<c, w>>]
  BY DEF AttachNow
<1>7. Alive(p)' /\ Owner(p)' = c /\ Of(p)' = w
  BY <1>5, <1>6 DEF Alive, Owner, Of, TypeOK
<1>8. ASSUME NEW q \in Ptys \ {p}
      PROVE  /\ Owner(q)' = Owner(q) /\ Of(q)' = Of(q)
             /\ Alive(q)' <=> Alive(q) /\ Owner(q) # c /\ Of(q) # w
  <2>1. Owner(q)' = Owner(q) /\ Of(q)' = Of(q)
    BY <1>6 DEF Owner, Of, TypeOK
  <2>2. Alive(q)' <=> Alive(q) /\ q \notin {old, out} \ {None}
    BY <1>5 DEF Alive
  <2>3. Alive(q) => (q = old <=> Owner(q) = c)
    BY <1>2 DEF Agreed
  <2>4. Alive(q) /\ q # old => (q = out <=> Of(q) = w)
    BY <1>3, <1>4 DEF Agreed
  <2>5. Alive(q) => q # None
    OBVIOUS
  <2>6. QED
    BY <2>1, <2>2, <2>3, <2>4, <2>5
<1>9. holder' = [(IF old # None THEN [holder EXCEPT ![Of(old)] = None] ELSE holder) EXCEPT ![w] = p]
  BY <1>2 DEF AttachNow
<1>10. ASSUME NEW x \in Ids \ {w}
       PROVE holder'[x] = IF holder[x] # None /\ Owner(holder[x]) = c THEN None ELSE holder[x]
  <2>1. holder'[x] = IF old # None /\ x = Of(old) THEN None ELSE holder[x]
    BY <1>2, <1>9 DEF TypeOK
  <2>2. holder[x] # None => holder[x] \in Ptys /\ Alive(holder[x]) /\ Of(holder[x]) = x
                            /\ attachment[Owner(holder[x])] = holder[x]
    BY DEF TypeOK, Agreed
  <2>3. QED
    BY <1>2, <2>1, <2>2
<1>11. holder'[w] = p
  BY <1>2, <1>9 DEF TypeOK
<1>12. attachment'[c] = p
  BY DEF AttachNow
<1>13. ASSUME NEW d \in Conns \ {c}
       PROVE attachment'[d] = IF attachment[d] # None /\ Of(attachment[d]) = w
                              THEN None ELSE attachment[d]
  <2>1. attachment'[d] = IF out # None /\ d = Owner(out) THEN None ELSE attachment[d]
    BY DEF AttachNow
  <2>2. attachment[d] # None => /\ attachment[d] \in Ptys /\ Alive(attachment[d])
                                /\ Owner(attachment[d]) = d
                                /\ holder[Of(attachment[d])] = attachment[d]
    BY DEF TypeOK, Agreed
  <2>3. QED
    BY <1>2, <1>3, <1>4, <2>1, <2>2
<1>14. ASSUME NEW q \in Ptys \ {p}, Alive(q)'
       PROVE  attachment'[Owner(q)] = attachment[Owner(q)] /\ holder'[Of(q)] = holder[Of(q)]
  <2>1. Alive(q) /\ Owner(q) \in Conns \ {c} /\ Of(q) \in Ids \ {w}
        /\ attachment[Owner(q)] = q /\ holder[Of(q)] = q
    BY <1>8, <1>14 DEF Agreed
  <2>2. QED
    BY <1>10, <1>13, <2>1
<1>15. ASSUME NEW d \in Conns
       PROVE  out # None /\ d = Owner(out)
                <=> d # c /\ attachment[d] # None /\ Of(attachment[d]) = w
  <2>1. attachment[d] # None => /\ attachment[d] \in Ptys /\ Owner(attachment[d]) = d
                                /\ holder[Of(attachment[d])] = attachment[d]
    BY DEF TypeOK, Agreed
  <2>2. QED
    BY <1>2, <1>3, <1>4, <2>1
<1>16. QED
  BY <1>7, <1>8, <1>10, <1>11, <1>12, <1>13, <1>14, <1>15

\* The end of q's view, in the three places it is kept.
Ended(q) ==
  /\ Alive(q)
  /\ of' = of
  /\ \A r \in Ptys : Alive(r)' <=> Alive(r) /\ r # q
  /\ attachment' = [attachment EXCEPT ![Owner(q)] = None]
  /\ holder' = [holder EXCEPT ![Of(q)] = None]

\* A detach, a close and an exit each end the view of one pty.
LEMMA ViewEnds ==
  ASSUME TypeOK, Agreed
  PROVE  /\ \A c \in Conns, w \in Ids : Detach(c, w) => Ended(attachment[c])
         /\ \A c \in Conns : Close(c) /\ attachment[c] # None => Ended(attachment[c])
         /\ \A p \in Ptys : OnExit(p) => Ended(p)
<1>1. ASSUME NEW c \in Conns, attachment[c] # None
      PROVE  LET p == attachment[c]
             IN p \in Ptys /\ Alive(p) /\ Owner(p) = c /\ Of(p) \in Ids /\ holder[Of(p)] = p
  BY <1>1 DEF TypeOK, Agreed
<1>2. ASSUME NEW c \in Conns, NEW w \in Ids, Detach(c, w) PROVE Ended(attachment[c])
  BY <1>1, <1>2 DEF Detach, Release, Ended, Alive, TypeOK
<1>3. ASSUME NEW c \in Conns, Close(c), attachment[c] # None PROVE Ended(attachment[c])
  BY <1>1, <1>3 DEF Close, Release, Ended, Alive, TypeOK
<1>4. ASSUME NEW p \in Ptys, OnExit(p) PROVE Ended(p)
  <2>1. Alive(p) /\ Owner(p) \in Conns /\ attachment[Owner(p)] = p /\ holder[Of(p)] = p
    BY <1>4 DEF OnExit, Alive, Agreed
  <2>2. attachment' = [attachment EXCEPT ![Owner(p)] = None]
        /\ holder' = [holder EXCEPT ![Of(p)] = None]
    BY <1>4, <2>1 DEF OnExit, Release, TypeOK
  <2>3. of' = of /\ \A r \in Ptys : Alive(r)' <=> Alive(r) /\ r # p
    BY <1>4, <2>1 DEF OnExit, Alive, TypeOK
  <2>4. QED
    BY <2>1, <2>2, <2>3 DEF Ended
<1>5. QED
  BY <1>2, <1>3, <1>4

\* The three places agree again after a view has ended.
LEMMA EndedAgreed ==
  ASSUME TypeOK, Agreed, NEW q \in Ptys, Ended(q)
  PROVE  Agreed'
<1> USE NoneIsNothing DEF NoneIsNothing
<1>1. /\ Owner(q) \in Conns /\ Of(q) \in Ids /\ attachment[Owner(q)] = q /\ holder[Of(q)] = q
  BY DEF Ended, Agreed
<1>2. \A r \in Ptys : Owner(r)' = Owner(r) /\ Of(r)' = Of(r)
  BY DEF Ended, Owner, Of
<1>3. \A c \in Conns : attachment'[c] = IF c = Owner(q) THEN None ELSE attachment[c]
  BY <1>1 DEF Ended, TypeOK
<1>4. \A w \in Ids : holder'[w] = IF w = Of(q) THEN None ELSE holder[w]
  BY <1>1 DEF Ended, TypeOK
<1>5. \A r \in Ptys : Alive(r)' <=> Alive(r) /\ r # q
  BY DEF Ended
<1>6. ASSUME NEW c \in Conns, attachment'[c] # None
      PROVE  Alive(attachment[c])' /\ Owner(attachment[c])' = c
  <2>1. attachment'[c] = attachment[c] /\ attachment[c] \in Ptys /\ attachment[c] # q
        /\ Alive(attachment[c]) /\ Owner(attachment[c]) = c
    BY <1>1, <1>3, <1>6 DEF TypeOK, Agreed
  <2>2. QED
    BY <1>2, <1>5, <2>1 DEF Alive, Owner
<1>7. ASSUME NEW w \in Ids, holder'[w] # None
      PROVE  Alive(holder[w])' /\ Of(holder[w])' = w
  <2>1. holder'[w] = holder[w] /\ holder[w] \in Ptys /\ holder[w] # q
        /\ Alive(holder[w]) /\ Of(holder[w]) = w
    BY <1>1, <1>4, <1>7 DEF TypeOK, Agreed
  <2>2. QED
    BY <1>2, <1>5, <2>1 DEF Alive, Of
<1>8. ASSUME NEW r \in Ptys, Alive(r)'
      PROVE  /\ Owner(r)' \in Conns /\ Of(r)' \in Ids
             /\ attachment'[Owner(r)'] = r /\ holder'[Of(r)'] = r
  <2>1. Alive(r) /\ r # q
    BY <1>5, <1>8
  <2>2. Owner(r) \in Conns /\ Of(r) \in Ids /\ attachment[Owner(r)] = r /\ holder[Of(r)] = r
    BY <2>1 DEF Agreed
  <2>3. Owner(r) # Owner(q) /\ Of(r) # Of(q)
    BY <1>1, <2>1, <2>2
  <2>4. QED
    BY <1>2, <1>3, <1>4, <2>2, <2>3
<1>9. QED
  BY <1>6, <1>7, <1>8 DEF Agreed

\* ... and after a takeover.
LEMMA TakeoverAgreed ==
  ASSUME TypeOK, TypeOK', Agreed, NEW c \in Conns, NEW w \in Ids, NEW p \in Ptys,
         AttachNow(c, w, p)
  PROVE  Agreed'
<1> USE NoneIsNothing DEF NoneIsNothing
<1>1. ASSUME NEW d \in Conns, attachment'[d] # None
      PROVE  Alive(attachment[d])' /\ Owner(attachment[d])' = d
  <2>1. CASE d = c
    BY <2>1, Takeover
  <2>2. CASE d # c
    <3>1. attachment'[d] = attachment[d] /\ attachment[d] \in Ptys /\ Of(attachment[d]) # w
          /\ Alive(attachment[d]) /\ Owner(attachment[d]) = d
      BY <1>1, <2>2, Takeover DEF TypeOK, Agreed
    <3>2. attachment[d] # p
      BY <3>1 DEF AttachNow, Alive
    <3>3. pty'[attachment[d]] \in {"running", "gone"} /\ of'[attachment[d]][1] = d
      BY <2>2, <3>1, <3>2, Takeover DEF Alive, Owner, Of
    <3>4. QED
      BY <3>1, <3>3 DEF Alive, Owner
  <2>3. QED
    BY <2>1, <2>2
<1>2. ASSUME NEW x \in Ids, holder'[x] # None
      PROVE  Alive(holder[x])' /\ Of(holder[x])' = x
  <2>1. CASE x = w
    BY <2>1, Takeover
  <2>2. CASE x # w
    <3>1. holder'[x] = holder[x] /\ holder[x] \in Ptys /\ Owner(holder[x]) # c
          /\ Alive(holder[x]) /\ Of(holder[x]) = x
      BY <1>2, <2>2, Takeover DEF TypeOK, Agreed
    <3>2. holder[x] # p
      BY <3>1 DEF AttachNow, Alive
    <3>3. QED
      BY <2>2, <3>1, <3>2, Takeover
  <2>3. QED
    BY <2>1, <2>2
<1>3. ASSUME NEW r \in Ptys, Alive(r)'
      PROVE  /\ Owner(r)' \in Conns /\ Of(r)' \in Ids
             /\ attachment'[Owner(r)'] = r /\ holder'[Of(r)'] = r
  <2>1. CASE r = p
    BY <2>1, Takeover
  <2>2. CASE r # p
    <3>1. Alive(r) /\ Owner(r)' = Owner(r) /\ Of(r)' = Of(r)
          /\ attachment'[Owner(r)] = attachment[Owner(r)] /\ holder'[Of(r)] = holder[Of(r)]
      BY <1>3, <2>2, Takeover
    <3>2. QED
      BY <3>1 DEF Agreed
  <2>3. QED
    BY <2>1, <2>2
<1>4. QED
  BY <1>1, <1>2, <1>3 DEF Agreed

-----------------------------------------------------------------------------

\* The inductive invariant.
LEMMA Inductive == IInv /\ TypeOK' /\ [Next]_vars => IInv'
<1> SUFFICES ASSUME IInv, TypeOK', [Next]_vars PROVE IInv'
  OBVIOUS
<1> USE NoneIsNothing DEF NoneIsNothing, IInv
<1>1. ASSUME NEW c \in Conns, Connect(c) \/ Authenticate(c) PROVE IInv'
  <2>1. UNCHANGED <<pending, attachment, pty, of, holder, told, overtaken>>
    BY <1>1 DEF Connect, Authenticate
  <2>2. Agreed'
    BY <2>1 DEF Agreed, Alive, Owner, Of
  <2>3. Phases'
    BY <1>1, <2>1 DEF Phases, Connect, Authenticate, TypeOK
  <2>4. ClientKnows'
    BY <1>1, <2>1 DEF ClientKnows, Phases, Connect, Authenticate, TypeOK, Of
  <2>5. QED
    BY <2>2, <2>3, <2>4
<1>2. ASSUME NEW c \in Conns, Close(c) PROVE IInv'
  <2>1. Agreed'
    <3>1. CASE attachment[c] = None
      BY <1>2, <3>1 DEF Close, Agreed, Alive, Owner, Of
    <3>2. CASE attachment[c] # None
      BY <1>2, <3>2, ViewEnds, EndedAgreed DEF TypeOK
    <3>3. QED
      BY <3>1, <3>2
  <2>2. \A d \in Conns \ {c} : conn'[d] = conn[d] /\ attachment'[d] = attachment[d]
    BY <1>2 DEF Close, TypeOK
  <2>3. conn'[c] = "closed" /\ attachment'[c] = None /\ conn[c] \in {"connected", "authed"}
        /\ UNCHANGED <<pending, of, told>>
    BY <1>2 DEF Close, TypeOK
  <2>4. overtaken' = IF \E w \in Ids : <<c, w>> \in pending
                     THEN overtaken \cup {c} ELSE overtaken
    BY <1>2 DEF Close
  <2>5. Phases'
    BY <2>2, <2>3, <2>4 DEF Phases, TypeOK
  <2>6. ClientKnows'
    BY <2>2, <2>3 DEF ClientKnows, Of
  <2>7. QED
    BY <2>1, <2>5, <2>6
<1>3. ASSUME NEW c \in Conns, NEW w \in Ids, AttachRequest(c, w) \/ AttachRefused(c, w)
      PROVE IInv'
  <2>1. UNCHANGED <<conn, attachment, pty, of, holder, told, overtaken>>
        /\ pending' \subseteq pending \cup {<<c, w>>}
        /\ (<<c, w>> \in pending' => conn[c] = "authed" \/ <<c, w>> \in pending)
    BY <1>3 DEF AttachRequest, AttachRefused
  <2>2. Agreed'
    BY <2>1 DEF Agreed, Alive, Owner, Of
  <2>3. Phases'
    BY <2>1 DEF Phases
  <2>4. ClientKnows'
    BY <2>1 DEF ClientKnows, Of
  <2>5. QED
    BY <2>2, <2>3, <2>4
<1>4. ASSUME NEW c \in Conns, NEW w \in Ids, NEW p \in Ptys, AttachNow(c, w, p) PROVE IInv'
  <2>1. Agreed'
    BY <1>4, TakeoverAgreed
  <2>2. UNCHANGED <<conn, overtaken>> /\ pending' = pending \ {<<c, w>>}
        /\ (conn[c] = "authed" \/ c \in overtaken)
    BY <1>4 DEF AttachNow, Phases
  <2>3. DEFINE out == Evicted(c, w, p)
               left == IF attachment[c] = None THEN {} ELSE {Of(attachment[c])}
               toldOut == IF out = None THEN told ELSE Tell(told, Owner(out), {w}, {})
  <2>4. told' = Tell(toldOut, c, left, {w})
    BY <1>4 DEF AttachNow
  <2>5. ASSUME NEW d \in Conns
        PROVE  toldOut[d] = IF d # c /\ attachment[d] # None /\ Of(attachment[d]) = w
                               /\ conn[d] = "authed"
                            THEN told[d] \ {w} ELSE told[d]
    <3>1. out # None /\ d = Owner(out) <=> d # c /\ attachment[d] # None /\ Of(attachment[d]) = w
      BY <1>4, Takeover
    <3>2. toldOut[d] = IF out # None /\ d = Owner(out) /\ conn[d] = "authed"
                       THEN told[d] \ {w} ELSE told[d]
      BY DEF Tell, TypeOK
    <3>3. QED
      BY <3>1, <3>2
  <2>6. DOMAIN toldOut = Conns
    BY DEF Tell, TypeOK
  <2>7. ASSUME NEW d \in Conns
        PROVE told'[d] = IF d = c /\ conn[c] = "authed"
                         THEN (toldOut[c] \ left) \cup {w} ELSE toldOut[d]
    BY <2>4, <2>6 DEF Tell
  <2>8. Phases'
    <3>1. \A d \in Conns : conn[d] \in {"absent", "connected"} => told'[d] = told[d]
      BY <2>5, <2>7
    <3>2. \A d \in Conns : attachment'[d] # None => d = c \/ attachment[d] # None
      BY <1>4, Takeover
    <3>3. QED
      BY <2>2, <3>1, <3>2 DEF Phases
  <2>9. ASSUME NEW d \in Conns, conn'[d] = "authed"
        PROVE  told'[d] = IF attachment'[d] = None THEN {} ELSE {Of(attachment[d])'}
    <3>1. conn[d] = "authed"
          /\ told[d] = IF attachment[d] = None THEN {} ELSE {Of(attachment[d])}
      BY <2>2, <2>9 DEF ClientKnows
    <3>2. CASE d = c
      <4>1. told'[c] = {w}
        BY <2>5, <2>7, <3>1, <3>2
      <4>2. attachment'[c] = p /\ of'[p][2] = w
        BY <1>4, Takeover DEF Of
      <4>3. p # None
        OBVIOUS
      <4>4. QED
        BY <3>2, <4>1, <4>2, <4>3 DEF Of
    <3>3. CASE d # c
      <4>1. attachment'[d] = IF attachment[d] # None /\ Of(attachment[d]) = w
                             THEN None ELSE attachment[d]
        BY <1>4, <3>3, Takeover
      <4>2. told'[d] = IF attachment[d] # None /\ Of(attachment[d]) = w
                       THEN {} ELSE told[d]
        BY <2>5, <2>7, <3>1, <3>3
      <4>3. attachment'[d] # None => of'[attachment[d]][2] = of[attachment[d]][2]
        <5>1. attachment'[d] # None => attachment[d] \in Ptys \ {p}
          BY <1>4, <4>1 DEF TypeOK, Agreed, AttachNow, Alive
        <5>2. QED
          BY <1>4, <5>1, Takeover DEF Of
      <4>4. QED
        BY <3>1, <4>1, <4>2, <4>3 DEF Of
    <3>4. QED
      BY <3>2, <3>3
  <2>10. QED
    BY <2>1, <2>8, <2>9 DEF ClientKnows
<1>5. ASSUME NEW c \in Conns, NEW w \in Ids, Detach(c, w) PROVE IInv'
  <2>1. Agreed'
    <3>1. Ended(attachment[c]) /\ attachment[c] \in Ptys
      BY <1>5, ViewEnds DEF Detach, TypeOK
    <3>2. QED
      BY <3>1, EndedAgreed
  <2>2. /\ UNCHANGED <<conn, pending, of, overtaken>>
        /\ conn[c] = "authed" /\ attachment[c] # None /\ Of(attachment[c]) = w
        /\ \A d \in Conns : attachment'[d] = IF d = c THEN None ELSE attachment[d]
        /\ \A d \in Conns : told'[d] = IF d = c THEN told[c] \ {w} ELSE told[d]
    BY <1>5 DEF Detach, Tell, TypeOK
  <2>3. Phases'
    BY <2>2 DEF Phases
  <2>4. ClientKnows'
    BY <2>2 DEF ClientKnows, Of
  <2>5. QED
    BY <2>1, <2>3, <2>4
<1>6. ASSUME NEW p \in Ptys, PtyEnds(p) PROVE IInv'
  <2>1. UNCHANGED <<conn, pending, attachment, of, holder, told, overtaken>>
        /\ \A q \in Ptys : Alive(q)' <=> Alive(q)
    BY <1>6 DEF PtyEnds, Alive, TypeOK
  <2>2. Agreed'
    <3>1. \A q \in Ptys \cup {None} : q # None => (Alive(q)' <=> Alive(q))
      BY <2>1
    <3>2. QED
      BY <2>1, <3>1 DEF Agreed, Owner, Of, TypeOK, Alive
  <2>3. Phases' /\ ClientKnows'
    BY <2>1 DEF Phases, ClientKnows, Of
  <2>4. QED
    BY <2>2, <2>3
<1>7. ASSUME NEW p \in Ptys, OnExit(p) PROVE IInv'
  <2>1. Agreed'
    BY <1>7, ViewEnds, EndedAgreed
  <2>2. Owner(p) \in Conns /\ attachment[Owner(p)] = p
    BY <1>7 DEF OnExit, Agreed, Alive
  <2>3. DEFINE c == Owner(p)
  <2>4. /\ UNCHANGED <<conn, pending, of, overtaken>>
        /\ \A d \in Conns : attachment'[d] = IF d = c THEN None ELSE attachment[d]
        /\ \A d \in Conns : told'[d] = IF d = c /\ conn[c] = "authed"
                                       THEN told[c] \ {Of(p)} ELSE told[d]
    BY <1>7, <2>2 DEF OnExit, Tell, TypeOK
  <2>5. Phases'
    BY <2>2, <2>4 DEF Phases
  <2>6. ClientKnows'
    BY <2>2, <2>4 DEF ClientKnows, Of
  <2>7. QED
    BY <2>1, <2>5, <2>6
<1>8. CASE UNCHANGED vars
  BY <1>8 DEF vars, Agreed, Phases, ClientKnows, Alive, Owner, Of
<1>9. QED
  BY <1>1, <1>2, <1>3, <1>4, <1>5, <1>6, <1>7, <1>8 DEF Next

\* The invariant holds throughout.
LEMMA Invariant == Spec => []IInv
<1>1. Init /\ TypeOK => IInv
  BY DEF Init, IInv, TypeOK, Agreed, Phases, ClientKnows, Alive
<1>2. QED
  BY <1>1, Inductive, TypeCorrect, PTL DEF Spec

\* At most one live pty per workspace, the one the registry holds
\* (viewer-registry.ts:8-14).
THEOREM OneViewerAlways == Spec => []OneViewer
<1>1. IInv => OneViewer
  BY DEF IInv, Agreed, OneViewer
<1>2. QED
  BY <1>1, Invariant, PTL

\* A client is never wrong about the workspace it is attached to
\* (connection-handler.ts:437-487).
THEOREM ClientKnowsAlways == Spec => []ClientKnows
<1>1. IInv => ClientKnows
  BY DEF IInv
<1>2. QED
  BY <1>1, Invariant, PTL

\* No pty outlives its viewer, but for an attach that its connection's close
\* overtook (connection-handler.ts:103-110, 302-322).
THEOREM NoStrayPtyEver == Spec => []NoStrayPty
<1>1. IInv => NoStrayPty
  BY NoneIsNothing DEF IInv, Agreed, Phases, NoStrayPty, NoneIsNothing
<1>2. QED
  BY <1>1, Invariant, PTL

-----------------------------------------------------------------------------

\* Where the places agree, the abstract viewer of a workspace is the owner of the
\* pty the registry holds.
ViewOfHolder ==
  \A w \in Ids : View[w] = IF holder[w] # None THEN Owner(holder[w]) ELSE None

LEMMA ViewIsHolder == IInv => ViewOfHolder
<1> SUFFICES ASSUME IInv, NEW w \in Ids
             PROVE View[w] = IF holder[w] # None THEN Owner(holder[w]) ELSE None
  BY DEF ViewOfHolder
<1> USE NoneIsNothing DEF NoneIsNothing, IInv
<1>1. \A p \in Ptys : Alive(p) /\ Of(p) = w => holder[w] = p
  BY DEF Agreed
<1>2. CASE holder[w] # None
  <2>1. holder[w] \in Ptys /\ Alive(holder[w]) /\ Of(holder[w]) = w
    BY <1>2 DEF Agreed, TypeOK
  <2>2. (CHOOSE p \in Ptys : Alive(p) /\ Of(p) = w) = holder[w]
    BY <1>1, <2>1
  <2>3. QED
    BY <1>2, <2>1, <2>2 DEF View
<1>3. CASE holder[w] = None
  <2>1. ~ \E p \in Ptys : Alive(p) /\ Of(p) = w
    BY <1>1, <1>3
  <2>2. QED
    BY <1>3, <2>1 DEF View
<1>4. QED
  BY <1>2, <1>3

\* The end of a pty's view is the lock's Leave.
LEMMA EndedLeaves ==
  ASSUME TypeOK, Agreed, ViewOfHolder, ViewOfHolder', NEW q \in Ptys, Ended(q)
  PROVE  \E w \in Ids : Lock!Leave(w)
<1> USE NoneIsNothing DEF NoneIsNothing
<1>1. /\ Owner(q) \in Conns /\ Of(q) \in Ids /\ holder[Of(q)] = q
  BY DEF Ended, Agreed
<1>2. \A w \in Ids : holder'[w] = IF w = Of(q) THEN None ELSE holder[w]
  BY <1>1 DEF Ended, TypeOK
<1>3. \A w \in Ids : View'[w] = IF w = Of(q) THEN None ELSE View[w]
  BY <1>2 DEF ViewOfHolder, Ended, Owner
<1>4. View' = [View EXCEPT ![Of(q)] = None]
  BY <1>3 DEF View
<1>5. View[Of(q)] # None
  BY <1>1 DEF ViewOfHolder
<1>6. QED
  BY <1>1, <1>4, <1>5 DEF Lock!Leave

\* Every step of the handlers is a step of the lock, or changes no view.
LEMMA StepRefines ==
  ASSUME IInv, ViewOfHolder, ViewOfHolder', [Next]_vars
  PROVE  Lock!Next \/ View' = View
<1> USE NoneIsNothing DEF NoneIsNothing, IInv
<1>1. ASSUME NEW c \in Conns, NEW w \in Ids, NEW p \in Ptys, AttachNow(c, w, p)
      PROVE  Lock!Take(c, w)
  <2>1. View'[w] = c
    BY <1>1, Takeover DEF ViewOfHolder, Owner
  <2>2. ASSUME NEW x \in Ids \ {w}
        PROVE  View'[x] = IF View[x] = c THEN None ELSE View[x]
    <3>1. holder'[x] = IF holder[x] # None /\ Owner(holder[x]) = c THEN None ELSE holder[x]
      BY <1>1, Takeover
    <3>2. holder[x] # None => holder[x] \in Ptys \ {p}
      BY <1>1 DEF AttachNow, Agreed, Alive, TypeOK
    <3>3. holder[x] # None => of'[holder[x]][1] = of[holder[x]][1]
      BY <1>1, <3>2, Takeover DEF Owner
    <3>4. QED
      BY <3>1, <3>3 DEF ViewOfHolder, Owner
  <2>3. View' = [x \in Ids |-> IF x = w THEN c ELSE IF View[x] = c THEN None ELSE View[x]]
    BY <2>1, <2>2 DEF View
  <2>4. QED
    BY <2>3 DEF Lock!Take
<1>2. ASSUME NEW q \in Ptys, Ended(q) PROVE Lock!Next
  BY <1>2, EndedLeaves DEF Lock!Next
<1>3. ASSUME UNCHANGED <<of, holder>> PROVE View' = View
  <2>1. \A w \in Ids : View'[w] = View[w]
    BY <1>3 DEF ViewOfHolder, Owner
  <2>2. QED
    BY <2>1 DEF View
<1>4. ASSUME NEW c \in Conns, Connect(c) \/ Authenticate(c) PROVE View' = View
  BY <1>3, <1>4 DEF Connect, Authenticate
<1>5. ASSUME NEW c \in Conns, Close(c) PROVE Lock!Next \/ View' = View
  <2>1. CASE attachment[c] = None
    BY <1>3, <1>5, <2>1 DEF Close
  <2>2. CASE attachment[c] # None
    BY <1>2, <1>5, <2>2, ViewEnds DEF TypeOK
  <2>3. QED
    BY <2>1, <2>2
<1>6. ASSUME NEW c \in Conns, NEW w \in Ids, AttachRequest(c, w) \/ AttachRefused(c, w)
      PROVE  View' = View
  BY <1>3, <1>6 DEF AttachRequest, AttachRefused
<1>7. ASSUME NEW c \in Conns, NEW w \in Ids, Detach(c, w) PROVE Lock!Next
  <2>1. attachment[c] \in Ptys
    BY <1>7 DEF Detach, TypeOK
  <2>2. QED
    BY <1>2, <1>7, <2>1, ViewEnds
<1>8. ASSUME NEW p \in Ptys, PtyEnds(p) PROVE View' = View
  BY <1>3, <1>8 DEF PtyEnds
<1>9. ASSUME NEW p \in Ptys, OnExit(p) PROVE Lock!Next
  BY <1>2, <1>9, ViewEnds
<1>10. CASE UNCHANGED vars
  BY <1>3, <1>10 DEF vars
<1>11. QED
  BY <1>1, <1>4, <1>5, <1>6, <1>7, <1>8, <1>9, <1>10 DEF Next, Lock!Next

\* The connection handlers and the registry together implement the abstract lock
\* of ViewerLock.
THEOREM HandlersImplementLock == Spec => ImplementsLock
<1>1. Init => Lock!Init
  BY DEF Init, View, Alive, Lock!Init
<1>2. IInv /\ ViewOfHolder /\ ViewOfHolder' /\ [Next]_vars => [Lock!Next]_View
  BY StepRefines
<1>3. QED
  BY <1>1, <1>2, Invariant, ViewIsHolder, PTL DEF Spec, ImplementsLock, Lock!Spec

=============================================================================
