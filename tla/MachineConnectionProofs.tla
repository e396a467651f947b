------------------------ MODULE MachineConnectionProofs ------------------------
(***************************************************************************)
(* Proofs about MachineConnection, for any number of sockets, any bounds,  *)
(* and an app that may call reconnect() in any status.                     *)
(***************************************************************************)
EXTENDS MachineConnection, TLAPS

\* A retry is never from the future, and before the first attempt and after
\* close() there is nothing to retry and no current socket.
RetriesInv ==
  /\ \A t \in retries : t[1] <= generation
  /\ status = "none" => current = None /\ retries = {} /\ ~rejected
  /\ rejected => Armed = {}

\* The handshake and the heartbeat belong to the current socket.
HandshakeInv ==
  /\ rejected => status # "online" /\ (current # None => auth[current] = "answered")
  /\ hb # "none" => current # None
  /\ hb = "spent" => sock[current] = "closing"
  /\ current # None /\ auth[current] = "answered" => sock[current] \in {"open", "closing"}

IInv == /\ TypeOK /\ RetriesInv /\ HandshakeInv
        /\ OneChain /\ NeverStranded /\ ClosedForGood /\ OnlineIsWatched

-----------------------------------------------------------------------------

\* Every variable keeps its type.
THEOREM TypeCorrect == Spec => []TypeOK
<1>1. Init => TypeOK
  <2> SUFFICES ASSUME Init PROVE TypeOK
    OBVIOUS
  <2> USE Bounds DEF Bounds, Init
  <2>1. generation \in 0 .. MaxGen /\ backoff \in 0 .. MaxBackoff
        /\ failCount \in 0 .. MaxAttempts
    OBVIOUS
  <2>2. silent \subseteq Socks /\ deadlines \subseteq Socks
        /\ retries \subseteq (0 .. MaxGen) \X Socks
    OBVIOUS
  <2>3. sock \in [Socks -> {"unused", "connecting", "open", "closing", "closed"}]
        /\ auth \in [Socks -> {"unsent", "sent", "answered"}]
    OBVIOUS
  <2>4. QED
    BY <2>1, <2>2, <2>3 DEF TypeOK
<1>2. TypeOK /\ [Next]_vars => TypeOK'
  <2> SUFFICES ASSUME TypeOK, [Next]_vars PROVE TypeOK'
    OBVIOUS
  <2> USE Bounds DEF Bounds, TypeOK, net, chain, ReplyTimers
  <2>1. CASE Start
    BY <2>1 DEF Start, Connect
  <2>2. ASSUME NEW s \in Socks, Opens(s) PROVE TypeOK'
    BY <2>2 DEF Opens
  <2>3. ASSUME NEW s \in Socks, DeadlineFires(s) PROVE TypeOK'
    BY <2>3 DEF DeadlineFires
  <2>4. ASSUME NEW s \in Socks, Closes(s) PROVE TypeOK'
    BY <2>4 DEF Closes, NextBackoff
  <2>5. ASSUME NEW s \in Socks, AuthAccepted(s) PROVE TypeOK'
    BY <2>5 DEF AuthAccepted
  <2>6. ASSUME NEW s \in Socks, AuthRejected(s) PROVE TypeOK'
    BY <2>6 DEF AuthRejected
  <2>7. ASSUME NEW s \in Socks, Frame(s) PROVE TypeOK'
    BY <2>7 DEF Frame
  <2>8. ASSUME NEW s \in Socks, GoesSilent(s) PROVE TypeOK'
    BY <2>8 DEF GoesSilent
  <2>9. ASSUME NEW s \in Socks, Collect(s) PROVE TypeOK'
    BY <2>9 DEF Collect
  <2>10. ASSUME NEW s \in Socks, NEW g \in 0 .. MaxGen, RetryFires(g, s) PROVE TypeOK'
    BY <2>10 DEF RetryFires, Connect
  <2>11. CASE PingDue
    BY <2>11 DEF PingDue
  <2>12. ASSUME NEW t \in ReplyTimers, ReplyDue(t) PROVE TypeOK'
    BY <2>12 DEF ReplyDue
  <2>13. CASE CheckLiveness
    BY <2>13 DEF CheckLiveness
  <2>14. CASE Reconnect
    <3>1. Superseded \in [Socks -> {"unused", "connecting", "open", "closing", "closed"}]
      BY DEF Superseded
    <3>2. Connect(Superseded)
      BY <2>14 DEF Reconnect
    <3>3. PICK s \in Socks :
            /\ sock' = [Superseded EXCEPT ![s] = "connecting"]
            /\ auth' = [auth EXCEPT ![s] = "unsent"]
            /\ silent' = silent \ {s}
            /\ current' = s
            /\ opened' = FALSE
            /\ deadlines' = deadlines \cup {s}
            /\ hb' = "none"
            /\ status' = "connecting"
      BY <3>2 DEF Connect
    <3>4. sock' \in [Socks -> {"unused", "connecting", "open", "closing", "closed"}]
      BY <3>1, <3>3
    <3>5. generation' \in 0 .. MaxGen /\ failCount' \in 0 .. MaxAttempts
          /\ backoff' \in 0 .. MaxBackoff
      BY <2>14 DEF Reconnect
    <3>6. UNCHANGED <<pongSeen, retries, everConnected, closedByUser>> /\ rejected' = FALSE
      BY <2>14 DEF Reconnect
    <3>7. QED
      BY <3>3, <3>4, <3>5, <3>6
  <2>15. CASE Close
    BY <2>15 DEF Close, Superseded
  <2>16. CASE UNCHANGED vars
    BY <2>16 DEF vars
  <2>17. QED
    BY <2>1, <2>2, <2>3, <2>4, <2>5, <2>6, <2>7, <2>8, <2>9, <2>10, <2>11, <2>12,
       <2>13, <2>14, <2>15, <2>16 DEF Next, Socket
<1>3. QED
  BY <1>1, <1>2, PTL DEF Spec

-----------------------------------------------------------------------------

\* A connect() that leaves no other live socket and no armed retry behind it, on
\* a machine neither closed nor rejected, re-establishes the invariant.
LEMMA ConnectRestores ==
  ASSUME TypeOK, TypeOK', NEW STATE socks,
         socks \in [Socks -> {"unused", "connecting", "open", "closing", "closed"}],
         \A x \in Socks : socks[x] \notin {"connecting", "open"},
         Connect(socks), Armed' = {}, \A t \in retries' : t[1] <= generation',
         ~closedByUser', ~rejected'
  PROVE  IInv'
<1>1. PICK s \in Socks :
        /\ sock' = [socks EXCEPT ![s] = "connecting"]
        /\ auth' = [auth EXCEPT ![s] = "unsent"]
        /\ current' = s
        /\ hb' = "none"
        /\ status' = "connecting"
  BY DEF Connect
<1>2. current' # None
  BY <1>1, NoneIsNoSocket DEF NoneIsNoSocket
<1>3. auth'[s] = "unsent"
  BY <1>1 DEF TypeOK
<1>4. \A x \in Socks : sock'[x] \in {"connecting", "open"} => x = s
  BY <1>1
<1>5. RetriesInv'
  BY <1>1 DEF RetriesInv
<1>6. HandshakeInv'
  BY <1>1, <1>3 DEF HandshakeInv
<1>7. OneChain'
  BY <1>1, <1>4 DEF OneChain
<1>8. NeverStranded' /\ ClosedForGood' /\ OnlineIsWatched'
  BY <1>1, <1>2 DEF NeverStranded, ClosedForGood, OnlineIsWatched
<1>9. QED
  BY <1>5, <1>6, <1>7, <1>8 DEF IInv

\* The steps that connect.
LEMMA ConnectingSteps ==
  ASSUME IInv, TypeOK',
         Start \/ Reconnect \/ \E g \in 0 .. MaxGen, s \in Socks : RetryFires(g, s)
  PROVE  IInv'
<1> USE DEF IInv
<1>1. CASE Start
  <2>1. current = None /\ retries = {} /\ ~rejected /\ Connect(sock)
    BY <1>1 DEF Start, RetriesInv
  <2>2. \A x \in Socks : sock[x] \notin {"connecting", "open"}
    BY <2>1, NoneIsNoSocket DEF OneChain, NoneIsNoSocket
  <2>3. retries' = {} /\ ~closedByUser' /\ ~rejected'
    BY <1>1, <2>1 DEF Start, chain
  <2>4. Armed' = {}
    BY <2>3 DEF Armed
  <2>5. sock \in [Socks -> {"unused", "connecting", "open", "closing", "closed"}]
    BY DEF TypeOK
  <2>6. QED
    BY <2>1, <2>2, <2>3, <2>4, <2>5, ConnectRestores
<1>2. CASE Reconnect
  <2>1. Connect(Superseded) /\ generation' = generation + 1 /\ retries' = retries
        /\ ~closedByUser' /\ ~rejected'
    BY <1>2 DEF Reconnect
  <2>2. Superseded \in [Socks -> {"unused", "connecting", "open", "closing", "closed"}]
    BY DEF Superseded, TypeOK
  <2>3. \A x \in Socks : Superseded[x] \notin {"connecting", "open"}
    BY NoneIsNoSocket DEF Superseded, TypeOK, OneChain, NoneIsNoSocket
  <2>4. \A t \in retries : t \in (0 .. MaxGen) \X Socks /\ t[1] <= generation
    BY DEF TypeOK, RetriesInv
  <2>5. generation \in Nat
    BY Bounds DEF TypeOK, Bounds
  <2>6. \A t \in retries' : t[1] < generation'
    BY <2>1, <2>4, <2>5
  <2>7. Armed' = {} /\ \A t \in retries' : t[1] <= generation'
    BY <2>1, <2>4, <2>5 DEF Armed
  <2>8. QED
    BY <2>1, <2>2, <2>3, <2>7, ConnectRestores
<1>3. ASSUME NEW g \in 0 .. MaxGen, NEW s \in Socks, RetryFires(g, s) PROVE IInv'
  <2>1. CASE g = generation
    <3>1. <<g, s>> \in Armed
      BY <1>3, <2>1 DEF RetryFires, Armed
    <3>2. current = None /\ ~closedByUser /\ ~rejected
      BY <3>1 DEF OneChain, ClosedForGood, RetriesInv
    <3>3. \A x \in Socks : sock[x] \notin {"connecting", "open"}
      BY <3>2, NoneIsNoSocket DEF OneChain, NoneIsNoSocket
    <3>4. Connect(sock) /\ retries' = retries \ {<<g, s>>} /\ generation' = generation
          /\ ~closedByUser' /\ ~rejected'
      BY <1>3, <2>1, <3>2 DEF RetryFires
    <3>5. Armed' = Armed \ {<<g, s>>}
      BY <3>4 DEF Armed
    <3>6. Armed' = {}
      BY <3>1, <3>5 DEF OneChain
    <3>7. \A t \in retries' : t[1] <= generation'
      BY <3>4 DEF RetriesInv
    <3>8. sock \in [Socks -> {"unused", "connecting", "open", "closing", "closed"}]
      BY DEF TypeOK
    <3>9. QED
      BY <3>3, <3>4, <3>6, <3>7, <3>8, ConnectRestores
  <2>2. CASE g # generation
    <3>1. Armed' = Armed /\ retries' \subseteq retries
      BY <1>3, <2>2 DEF RetryFires, Armed
    <3>2. /\ UNCHANGED <<sock, auth, current, hb, status>>
          /\ UNCHANGED <<generation, failCount, everConnected, rejected, closedByUser>>
      BY <1>3, <2>2 DEF RetryFires, net
    <3>3. RetriesInv' /\ HandshakeInv'
      BY <3>1, <3>2 DEF RetriesInv, HandshakeInv
    <3>4. OneChain' /\ NeverStranded' /\ ClosedForGood' /\ OnlineIsWatched'
      BY <3>1, <3>2 DEF OneChain, NeverStranded, ClosedForGood, OnlineIsWatched
    <3>5. QED
      BY <3>3, <3>4
  <2>3. QED
    BY <2>1, <2>2
<1>4. QED
  BY <1>1, <1>2, <1>3

\* The steps that end a socket or the whole link.
LEMMA EndingSteps ==
  ASSUME IInv, TypeOK', Close \/ \E s \in Socks : Closes(s)
  PROVE  IInv'
<1> USE DEF IInv
<1>1. CASE Close
  <2>1. /\ current' = None /\ hb' = "none" /\ closedByUser' /\ generation' = generation + 1
        /\ sock' = Superseded
        /\ UNCHANGED <<retries, auth, status, rejected, failCount, everConnected>>
    BY <1>1 DEF Close, net
  <2>2. \A x \in Socks : sock'[x] \notin {"connecting", "open"}
    BY <2>1, NoneIsNoSocket DEF Superseded, TypeOK, OneChain, NoneIsNoSocket
  <2>3. generation \in Nat
    BY Bounds DEF TypeOK, Bounds
  <2>4. \A t \in retries : t \in (0 .. MaxGen) \X Socks /\ t[1] <= generation
    BY DEF TypeOK, RetriesInv
  <2>5. \A t \in retries' : t[1] < generation'
    BY <2>1, <2>3, <2>4
  <2>6. Armed' = {} /\ \A t \in retries' : t[1] <= generation'
    BY <2>1, <2>3, <2>4 DEF Armed
  <2>7. RetriesInv' /\ HandshakeInv'
    BY <2>1, <2>6 DEF RetriesInv, HandshakeInv
  <2>8. OneChain' /\ NeverStranded' /\ ClosedForGood' /\ OnlineIsWatched'
    BY <2>1, <2>2, <2>6 DEF OneChain, NeverStranded, ClosedForGood, OnlineIsWatched
  <2>9. QED
    BY <2>7, <2>8
<1>2. ASSUME NEW s \in Socks, Closes(s), current # s PROVE IInv'
  <2>1. /\ sock' = [sock EXCEPT ![s] = "closed"]
        /\ UNCHANGED <<current, hb, status, failCount, retries, auth, generation>>
        /\ UNCHANGED <<everConnected, rejected, closedByUser>>
    BY <1>2 DEF Closes, net
  <2>2. Armed' = Armed
    BY <2>1 DEF Armed
  <2>3. \A x \in Socks : sock'[x] = IF x = s THEN "closed" ELSE sock[x]
    BY <2>1 DEF TypeOK
  <2>4. current # None => sock'[current] = sock[current]
    BY <1>2, <2>3 DEF TypeOK
  <2>5. RetriesInv' /\ HandshakeInv'
    BY <2>1, <2>2, <2>4 DEF RetriesInv, HandshakeInv
  <2>6. OneChain' /\ NeverStranded' /\ ClosedForGood' /\ OnlineIsWatched'
    BY <2>1, <2>2, <2>3, <2>4
    DEF OneChain, NeverStranded, ClosedForGood, OnlineIsWatched
  <2>7. QED
    BY <2>5, <2>6
<1>3. ASSUME NEW s \in Socks, Closes(s), current = s PROVE IInv'
  <2>1. /\ sock' = [sock EXCEPT ![s] = "closed"]
        /\ current' = None /\ hb' = "none"
        /\ UNCHANGED <<auth, generation, everConnected, rejected, closedByUser>>
    BY <1>3 DEF Closes, net
  <2>2. \A x \in Socks : sock'[x] \notin {"connecting", "open"}
    BY <1>3, <2>1 DEF TypeOK, OneChain
  <2>3. Armed = {} /\ status # "none" /\ ~closedByUser
    BY <1>3, NoneIsNoSocket DEF OneChain, RetriesInv, ClosedForGood, NoneIsNoSocket
  <2>4. CASE rejected
    <3>1. UNCHANGED <<status, failCount, retries>>
      BY <1>3, <2>4 DEF Closes
    <3>2. Armed' = {}
      BY <2>1, <2>3, <3>1 DEF Armed
    <3>3. RetriesInv' /\ HandshakeInv'
      BY <2>1, <2>3, <3>1, <3>2 DEF RetriesInv, HandshakeInv
    <3>4. OneChain' /\ NeverStranded' /\ ClosedForGood' /\ OnlineIsWatched'
      BY <2>1, <2>2, <2>3, <2>4, <3>1, <3>2
      DEF OneChain, NeverStranded, ClosedForGood, OnlineIsWatched, HandshakeInv
    <3>5. QED
      BY <3>3, <3>4
  <2>5. CASE ~rejected
    <3>1. /\ status' = "offline"
          /\ \/ retries' = retries /\ ~everConnected /\ failCount' >= MaxAttempts
             \/ retries' = retries \cup {<<generation, s>>}
      BY <1>3, <2>3, <2>5 DEF Closes, MayGiveUp
    <3>2. failCount' >= MaxAttempts => failCount' = MaxAttempts
      BY Bounds DEF TypeOK, Bounds
    <3>3. Armed' \subseteq {<<generation, s>>}
          /\ (retries' # retries \/ <<generation, s>> \in retries' => Armed' # {})
      BY <2>1, <2>3, <3>1 DEF Armed
    <3>4. \A t \in retries' : t[1] <= generation'
      <4>1. generation \in Nat
        BY Bounds DEF TypeOK, Bounds
      <4>2. QED
        BY <2>1, <3>1, <4>1 DEF RetriesInv
    <3>5. RetriesInv' /\ HandshakeInv'
      BY <2>1, <2>5, <3>1, <3>4 DEF RetriesInv, HandshakeInv
    <3>6. OneChain' /\ ClosedForGood' /\ OnlineIsWatched'
      BY <2>1, <2>2, <2>3, <3>1, <3>3 DEF OneChain, ClosedForGood, OnlineIsWatched
    <3>7. NeverStranded'
      BY <2>1, <3>1, <3>2, <3>3 DEF NeverStranded
    <3>8. QED
      BY <3>5, <3>6, <3>7
  <2>6. QED
    BY <2>4, <2>5
<1>4. QED
  BY <1>1, <1>2, <1>3

-----------------------------------------------------------------------------

\* The inductive invariant.  OneChain is what makes the rest inductive: a retry
\* can connect only when nothing else is alive, and NeverStranded needs the retry
\* that a close arms to be the only one.
LEMMA Inductive == IInv /\ [Next]_vars /\ TypeOK' => IInv'
<1> SUFFICES ASSUME IInv, TypeOK', [Next]_vars PROVE IInv'
  OBVIOUS
<1> USE NoneIsNoSocket DEF NoneIsNoSocket, IInv, TypeOK, net, chain, ReplyTimers, RetriesInv, HandshakeInv,
      OneChain, NeverStranded, ClosedForGood, OnlineIsWatched, Armed
<1>1. ASSUME NEW s \in Socks, Opens(s) PROVE IInv'
  BY <1>1 DEF Opens
<1>2. ASSUME NEW s \in Socks, DeadlineFires(s) PROVE IInv'
  BY <1>2 DEF DeadlineFires
<1>3. ASSUME NEW s \in Socks, AuthAccepted(s) PROVE IInv'
  BY <1>3 DEF AuthAccepted, CanReceive
<1>4. ASSUME NEW s \in Socks, AuthRejected(s) PROVE IInv'
  BY <1>4 DEF AuthRejected, CanReceive
<1>5. ASSUME NEW s \in Socks, Frame(s) PROVE IInv'
  BY <1>5 DEF Frame
<1>6. ASSUME NEW s \in Socks, GoesSilent(s) PROVE IInv'
  BY <1>6 DEF GoesSilent
<1>7. ASSUME NEW s \in Socks, Collect(s) PROVE IInv'
  BY <1>7 DEF Collect
<1>8. CASE PingDue
  BY <1>8 DEF PingDue
<1>9. ASSUME NEW t \in ReplyTimers, ReplyDue(t) PROVE IInv'
  BY <1>9 DEF ReplyDue
<1>10. CASE CheckLiveness
  BY <1>10 DEF CheckLiveness
<1>11. CASE UNCHANGED vars
  BY <1>11 DEF vars
<1>12. QED
  BY <1>1, <1>2, <1>3, <1>4, <1>5, <1>6, <1>7, <1>8, <1>9, <1>10, <1>11,
     ConnectingSteps, EndingSteps DEF Next, Socket

\* The invariant holds throughout.
LEMMA Invariant == Spec => []IInv
<1>1. Init /\ TypeOK => IInv
  BY DEF Init, IInv, RetriesInv, HandshakeInv, OneChain, NeverStranded, ClosedForGood,
     OnlineIsWatched, ReplyTimers, Armed
<1>2. IInv /\ [Next]_vars /\ TypeOK' => IInv'
  BY Inductive
<1>3. QED
  BY <1>1, <1>2, TypeCorrect, PTL DEF Spec

\* Connect chains never stack: the generation counter disarms every retry that a
\* reconnect() has overtaken (machine-connection.ts:63-67).
THEOREM ChainsNeverStack == Spec => []OneChain
<1>1. IInv => OneChain
  BY DEF IInv
<1>2. QED
  BY <1>1, Invariant, PTL

\* A machine that has been reached once is retried for ever
\* (machine-connection.ts:137-142).
THEOREM NeverAbandoned == Spec => []NeverStranded
<1>1. IInv => NeverStranded
  BY DEF IInv
<1>2. QED
  BY <1>1, Invariant, PTL

\* No timer brings a closed link back (machine-connection.ts:209-216).
THEOREM CloseIsFinal == Spec => []ClosedForGood
<1>1. IInv => ClosedForGood
  BY DEF IInv
<1>2. QED
  BY <1>1, Invariant, PTL

\* A link shown as online is authenticated and has its heartbeat running
\* (machine-connection.ts:218-275).
THEOREM OnlineMeansWatched == Spec => []OnlineIsWatched
<1>1. IInv => OnlineIsWatched
  BY DEF IInv
<1>2. QED
  BY <1>1, Invariant, PTL

=============================================================================
