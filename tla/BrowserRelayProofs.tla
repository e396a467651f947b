--------------------------- MODULE BrowserRelayProofs ---------------------------
(***************************************************************************)
(* Proofs about BrowserRelay, for any number of devices and sockets: the   *)
(* session has one upstream, and a device one stream.                      *)
(***************************************************************************)
EXTENDS BrowserRelay, TLAPS

\* What the proofs ask of the constants.
NoneIsNothing == None \notin Socks /\ None \notin Devices

Messages == Reasons \cup {"ok", "refused", "close"}

\* The types, of either end.
StreamTypes ==
  /\ shown \in [Devices -> {"none", "connecting", "online", "ended"}]
  /\ terminal \in [Devices -> BOOLEAN] /\ ousted \in [Devices -> BOOLEAN]
  /\ sock \in [Devices -> Socks \cup {None}] /\ retries \in [Devices -> Nat]
  /\ owner \in [Socks -> Devices \cup {None}]
  /\ client \in [Socks -> {"unused", "connecting", "open", "shut"}]

RelayTypes ==
  /\ relay \in [Socks -> {"none", "fresh", "discover", "dial", "live", "ended"}]
  /\ gone \in [Socks -> BOOLEAN] /\ upstream \in [Socks -> BOOLEAN]
  /\ down \in [Socks -> Seq(Messages)] /\ holder \in Socks \cup {None}

Live(s) == client[s] \in {"connecting", "open"}

\* A stream's socket is live and the device's own, and every live socket has an
\* owner: a loss is then always the loss of somebody's current socket.
Owned ==
  /\ \A d \in Devices : sock[d] # None => owner[sock[d]] = d /\ Live(sock[d])
  /\ \A s \in Socks : Live(s) => owner[s] \in Devices

\* A device that was taken over has no reconnect scheduled.
OustedWaits == \A d \in Devices : ousted[d] => retries[d] = 0

StreamInv == StreamTypes /\ OneStream /\ Owned /\ OustedWaits

-----------------------------------------------------------------------------

\* A message more, or one less, is still a queue of messages.
LEMMA EndedType ==
  ASSUME RelayTypes, NEW s \in Socks, NEW reason \in Messages
  PROVE  Ended(s, reason, down) \in [Socks -> Seq(Messages)]
<1>1. <<reason, "close">> \in Seq(Messages)
  BY DEF Messages
<1>2. down[s] \o <<reason, "close">> \in Seq(Messages)
  BY <1>1 DEF RelayTypes
<1>. QED  BY <1>2 DEF Ended, RelayTypes

\* Closing a socket, or none, keeps the type of client.
LEMMA ShutType ==
  ASSUME StreamTypes, NEW s \in Socks \cup {None}
  PROVE  Shut(s) \in [Socks -> {"unused", "connecting", "open", "shut"}]
BY DEF Shut, StreamTypes

\* Dialling keeps the types.
LEMMA OpenStreamType ==
  ASSUME StreamTypes, NEW d \in Devices, OpenStream(d)
  PROVE  /\ terminal' \in [Devices -> BOOLEAN]
         /\ owner' \in [Socks -> Devices \cup {None}]
         /\ client' \in [Socks -> {"unused", "connecting", "open", "shut"}]
         /\ sock' \in [Devices -> Socks \cup {None}]
         /\ shown' \in [Devices -> {"none", "connecting", "online", "ended"}]
<1>1. PICK s \in Socks : /\ client[s] = "unused" /\ sock' = [sock EXCEPT ![d] = s]
                         /\ owner' = [owner EXCEPT ![s] = d]
                         /\ client' = [Shut(sock[d]) EXCEPT ![s] = "connecting"]
  BY DEF OpenStream
<1>2. sock[d] \in Socks \cup {None}
  BY DEF StreamTypes
<1>. QED  BY <1>1, <1>2, ShutType DEF OpenStream, StreamTypes

\* A live socket that closes is its owner's current one; its place is given up,
\* and one reconnect takes it unless the stream is terminal.
LEMMA OnCloseEffect ==
  ASSUME NoneIsNothing, StreamTypes, OneStream, Owned, NEW s \in Socks, Live(s), OnClose(s)
  PROVE  /\ owner[s] \in Devices /\ sock[owner[s]] = s
         /\ client' = [client EXCEPT ![s] = "shut"]
         /\ sock' = [sock EXCEPT ![owner[s]] = None]
         /\ \/ retries' = retries
            \/ retries' = [retries EXCEPT ![owner[s]] = @ + 1]
<1>1. owner[s] \in Devices
  BY DEF Owned
<1>2. sock[owner[s]] = s
  BY <1>1 DEF OneStream, Live
<1>3. client' = Shut(s) /\ sock' = [sock EXCEPT ![owner[s]] = None]
  BY <1>2 DEF OnClose
<1>4. retries' = IF terminal[owner[s]] THEN retries ELSE [retries EXCEPT ![owner[s]] = @ + 1]
  BY <1>2 DEF OnClose
<1>. QED  BY <1>1, <1>2, <1>3, <1>4 DEF Shut, NoneIsNothing

\* Dialling gives the device a socket that nobody had, and shuts the one it had.
LEMMA OpenStreamEffect ==
  ASSUME NoneIsNothing, StreamTypes, Owned, NEW d \in Devices, OpenStream(d)
  PROVE  \E s \in Socks :
           /\ client[s] = "unused" /\ sock' = [sock EXCEPT ![d] = s]
           /\ \A e \in Devices : sock[e] # s
           /\ owner' = [owner EXCEPT ![s] = d]
           /\ client'[s] = "connecting"
           /\ sock[d] # None => client'[sock[d]] = "shut"
           /\ \A t \in Socks : t # s /\ t # sock[d] => client'[t] = client[t]
<1>1. PICK s \in Socks : /\ client[s] = "unused" /\ sock' = [sock EXCEPT ![d] = s]
                         /\ owner' = [owner EXCEPT ![s] = d]
                         /\ client' = [Shut(sock[d]) EXCEPT ![s] = "connecting"]
  BY DEF OpenStream
<1>2. \A e \in Devices : sock[e] # s
  BY <1>1 DEF Owned, Live, NoneIsNothing
<1>3. sock[d] \in Socks \cup {None}
  BY DEF StreamTypes
<1>4. Shut(sock[d]) \in [Socks -> {"unused", "connecting", "open", "shut"}]
  BY <1>3, ShutType
<1>5. client'[s] = "connecting"
  BY <1>1, <1>4
<1>6. sock[d] # None => client'[sock[d]] = "shut"
  BY <1>1, <1>2, <1>3, <1>4 DEF Shut, StreamTypes
<1>7. \A t \in Socks : t # s /\ t # sock[d] => client'[t] = client[t]
  BY <1>1, <1>4 DEF Shut, StreamTypes
<1>. QED  BY <1>1, <1>2, <1>5, <1>6, <1>7

\* The two ways a stream step may go: the device dials, having no other socket ...
LEMMA DialingKeepsOne ==
  ASSUME NoneIsNothing, StreamInv, NEW d \in Devices, OpenStream(d),
         retries' \in [Devices -> Nat], retries'[d] = 0,
         \A e \in Devices : e # d => retries'[e] = retries[e],
         ousted' \in [Devices -> BOOLEAN], ~ousted'[d],
         \A e \in Devices : e # d => ousted'[e] = ousted[e]
  PROVE  OneStream' /\ Owned' /\ OustedWaits'
<1>1. PICK s \in Socks :
           /\ client[s] = "unused" /\ sock' = [sock EXCEPT ![d] = s]
           /\ \A e \in Devices : sock[e] # s
           /\ owner' = [owner EXCEPT ![s] = d]
           /\ client'[s] = "connecting"
           /\ sock[d] # None => client'[sock[d]] = "shut"
           /\ \A t \in Socks : t # s /\ t # sock[d] => client'[t] = client[t]
  BY OpenStreamEffect DEF StreamInv
<1>2. shown' = [shown EXCEPT ![d] = "connecting"]
  BY DEF OpenStream
<1>3. /\ sock \in [Devices -> Socks \cup {None}] /\ owner \in [Socks -> Devices \cup {None}]
      /\ shown \in [Devices -> {"none", "connecting", "online", "ended"}]
  BY DEF StreamInv, StreamTypes
<1>4. Owned'
  <2>1. ASSUME NEW e \in Devices, sock'[e] # None
        PROVE  owner'[sock'[e]] = e /\ client'[sock'[e]] \in {"connecting", "open"}
    <3>1. CASE e = d
      BY <1>1, <1>3, <3>1
    <3>2. CASE e # d
      <4>1. sock'[e] = sock[e] /\ sock[e] \in Socks /\ sock[e] # s
        BY <1>1, <1>3, <2>1, <3>2
      <4>2. owner[sock[e]] = e /\ Live(sock[e])
        BY <2>1, <4>1 DEF StreamInv, Owned
      <4>3. sock[e] # sock[d]
        BY <2>1, <3>2, <4>1, <4>2 DEF StreamInv, Owned
      <4>. QED  BY <1>1, <1>3, <4>1, <4>2, <4>3 DEF Live
    <3>. QED  BY <3>1, <3>2
  <2>2. ASSUME NEW t \in Socks, client'[t] \in {"connecting", "open"}
        PROVE  owner'[t] \in Devices
    BY <1>1, <1>3, <2>2 DEF StreamInv, Owned, Live, NoneIsNothing
  <2>. QED  BY <2>1, <2>2 DEF Owned, Live
<1>5. OustedWaits'
  <2>1. ASSUME NEW e \in Devices, ousted'[e] PROVE retries'[e] = 0
    <3>1. e # d /\ ousted[e]
      BY <2>1
    <3>. QED  BY <3>1 DEF StreamInv, OustedWaits
  <2>. QED  BY <2>1 DEF OustedWaits
<1>6. OneStream'
  <2>1. ASSUME NEW e \in Devices, e # d
        PROVE  sock'[e] = sock[e] /\ retries'[e] = retries[e] /\ shown'[e] = shown[e] /\ ousted'[e] = ousted[e]
    BY <1>1, <1>2, <1>3, <2>1
  <2>2. sock'[d] = s /\ retries'[d] = 0 /\ shown'[d] = "connecting" /\ ~ousted'[d] /\ s # None
    BY <1>1, <1>2, <1>3 DEF NoneIsNothing
  <2>3. ASSUME NEW e \in Devices, NEW t \in Socks, owner'[t] = e, client'[t] \in {"connecting", "open"}
        PROVE  t = sock'[e]
    BY <1>1, <1>3, <2>3 DEF StreamInv, OneStream, NoneIsNothing
  <2>4. ASSUME NEW e \in Devices
        PROVE  /\ retries'[e] + (IF sock'[e] = None THEN 0 ELSE 1) <= 1
               /\ shown'[e] \in {"none", "ended"} => sock'[e] = None /\ retries'[e] = 0
    BY <2>1, <2>2 DEF StreamInv, OneStream
  <2>5. ASSUME NEW e \in Devices, ousted'[e] PROVE sock'[e] = None
    <3>1. e # d /\ ousted[e]
      BY <2>1, <2>2, <2>5
    <3>. QED  BY <2>1, <3>1 DEF StreamInv, OneStream
  <2>. QED  BY <2>3, <2>4, <2>5 DEF OneStream
<1>. QED  BY <1>4, <1>5, <1>6

\* ... or it gives its socket up, and waits for at most one reconnect, none of
\* them once the view is closed, ended, or told that it was taken over.
LEMMA DroppingKeepsOne ==
  ASSUME NoneIsNothing, StreamInv, NEW d \in Devices,
         sock' = [sock EXCEPT ![d] = None], client' = Shut(sock[d]), UNCHANGED owner,
         retries' \in [Devices -> Nat], retries'[d] <= 1,
         \A e \in Devices : e # d => retries'[e] = retries[e] /\ shown'[e] = shown[e],
         shown'[d] \in {"none", "ended"} => retries'[d] = 0,
         \A e \in Devices : e # d => (ousted'[e] <=> ousted[e]),
         ousted'[d] => retries'[d] = 0
  PROVE  OneStream' /\ Owned' /\ OustedWaits'
<1>1. /\ sock \in [Devices -> Socks \cup {None}] /\ owner \in [Socks -> Devices \cup {None}]
      /\ client \in [Socks -> {"unused", "connecting", "open", "shut"}]
  BY DEF StreamInv, StreamTypes
<1>2. \A t \in Socks : client'[t] = IF t = sock[d] THEN "shut" ELSE client[t]
  BY <1>1 DEF Shut, NoneIsNothing
<1>3. sock'[d] = None /\ \A e \in Devices : e # d => sock'[e] = sock[e]
  BY <1>1
<1>4. Owned'
  <2>1. ASSUME NEW e \in Devices, sock'[e] # None
        PROVE  owner'[sock'[e]] = e /\ client'[sock'[e]] \in {"connecting", "open"}
    <3>1. e # d /\ sock'[e] = sock[e] /\ sock[e] \in Socks
      BY <1>1, <1>3, <2>1
    <3>2. owner[sock[e]] = e /\ Live(sock[e]) /\ sock[e] # sock[d]
      BY <2>1, <3>1 DEF StreamInv, Owned
    <3>. QED  BY <1>2, <3>1, <3>2 DEF Live
  <2>2. ASSUME NEW t \in Socks, client'[t] \in {"connecting", "open"}
        PROVE  owner'[t] \in Devices
    BY <1>2, <2>2 DEF StreamInv, Owned, Live
  <2>. QED  BY <2>1, <2>2 DEF Owned, Live
<1>5. OustedWaits'
  <2>1. ASSUME NEW e \in Devices, ousted'[e] PROVE retries'[e] = 0
    <3>1. CASE e = d
      BY <2>1, <3>1
    <3>2. CASE e # d
      BY <2>1, <3>2 DEF StreamInv, OustedWaits
    <3>. QED  BY <3>1, <3>2
  <2>. QED  BY <2>1 DEF OustedWaits
<1>6. OneStream'
  <2>1. ASSUME NEW e \in Devices, NEW t \in Socks, owner'[t] = e, client'[t] \in {"connecting", "open"}
        PROVE  t = sock'[e]
    <3>1. t # sock[d] /\ owner[t] = e /\ client[t] \in {"connecting", "open"}
      BY <1>2, <2>1
    <3>2. t = sock[e]
      BY <3>1 DEF StreamInv, OneStream
    <3>. QED  BY <1>3, <3>1, <3>2
  <2>2. ASSUME NEW e \in Devices
        PROVE  /\ retries'[e] + (IF sock'[e] = None THEN 0 ELSE 1) <= 1
               /\ shown'[e] \in {"none", "ended"} => sock'[e] = None /\ retries'[e] = 0
    <3>1. CASE e = d
      BY <1>3, <3>1
    <3>2. CASE e # d
      BY <1>3, <3>2 DEF StreamInv, OneStream
    <3>. QED  BY <3>1, <3>2
  <2>3. ASSUME NEW e \in Devices, ousted'[e] PROVE sock'[e] = None
    <3>1. CASE e = d
      BY <1>3, <3>1
    <3>2. CASE e # d
      <4>1. sock[e] = None
        BY <2>3, <3>2 DEF StreamInv, OneStream
      <4>. QED  BY <1>3, <3>2, <4>1
    <3>. QED  BY <3>1, <3>2
  <2>. QED  BY <2>1, <2>2, <2>3 DEF OneStream
<1>. QED  BY <1>4, <1>5, <1>6

-----------------------------------------------------------------------------

\* Dialling: a view mounts, the user retries, or a scheduled reconnect is due.
LEMMA OpeningKeeps ==
  ASSUME NoneIsNothing, StreamInv, NEW d \in Devices, Mount(d) \/ Retry(d) \/ RetryFires(d)
  PROVE  StreamInv'
<1>. USE DEF StreamInv
<1>1. OpenStream(d)
  BY DEF Mount, Retry, RetryFires
<1>2. /\ retries' \in [Devices -> Nat] /\ retries'[d] = 0
      /\ \A e \in Devices : e # d => retries'[e] = retries[e]
  <2>1. CASE Mount(d) \/ Retry(d)
    BY <2>1 DEF Mount, Retry, StreamTypes, OneStream
  <2>2. CASE RetryFires(d)
    <3>1. retries[d] \in Nat /\ retries[d] > 0 /\ retries[d] <= 1
      BY <2>2 DEF RetryFires, StreamTypes, OneStream
    <3>2. retries[d] = 1
      BY <3>1
    <3>. QED  BY <2>2, <3>2 DEF RetryFires, StreamTypes
  <2>. QED  BY <2>1, <2>2
<1>3. /\ ousted' \in [Devices -> BOOLEAN] /\ ~ousted'[d]
      /\ \A e \in Devices : e # d => ousted'[e] = ousted[e]
  <2>1. CASE Mount(d) \/ Retry(d)
    BY <2>1 DEF Mount, Retry, StreamTypes
  <2>2. CASE RetryFires(d)
    <3>1. retries[d] # 0
      BY <2>2 DEF RetryFires
    <3>2. ~ousted[d]
      BY <3>1 DEF OustedWaits
    <3>. QED  BY <2>2, <3>2 DEF RetryFires, StreamTypes
  <2>. QED  BY <2>1, <2>2
<1>4. StreamTypes'
  BY <1>1, <1>2, <1>3, OpenStreamType DEF StreamTypes
<1>. QED  BY <1>1, <1>2, <1>3, <1>4, DialingKeepsOne

\* Leaving the view.
LEMMA UnmountKeeps ==
  ASSUME NoneIsNothing, StreamInv, NEW d \in Devices, Unmount(d)
  PROVE  StreamInv'
<1>. USE DEF StreamInv
<1>1. StreamTypes'
  BY ShutType DEF Unmount, StreamTypes
<1>2. /\ sock' = [sock EXCEPT ![d] = None] /\ client' = Shut(sock[d]) /\ UNCHANGED owner
      /\ retries' \in [Devices -> Nat] /\ retries'[d] = 0 /\ retries'[d] <= 1
      /\ \A e \in Devices : e # d => retries'[e] = retries[e] /\ shown'[e] = shown[e]
  BY <1>1 DEF Unmount, StreamTypes
<1>3. \A e \in Devices : e # d => (ousted'[e] <=> ousted[e])
  BY DEF Unmount
<1>. QED  BY <1>1, <1>2, <1>3, DroppingKeepsOne

\* A live socket that is lost, or closed by the relay.
LEMMA LossKeeps ==
  ASSUME NoneIsNothing, StreamInv, NEW s \in Socks, Live(s), OnClose(s)
  PROVE  StreamInv'
<1>. USE DEF StreamInv
<1>. DEFINE d == owner[s]
<1>1. /\ d \in Devices /\ sock[d] = s /\ client' = [client EXCEPT ![s] = "shut"]
      /\ sock' = [sock EXCEPT ![d] = None]
      /\ retries' = retries \/ retries' = [retries EXCEPT ![d] = @ + 1]
  BY OnCloseEffect
<1>2. UNCHANGED <<shown, terminal, ousted, owner>>
  BY DEF OnClose
<1>3. s # None /\ retries[d] = 0 /\ shown[d] \notin {"none", "ended"} /\ ~ousted[d]
  BY <1>1 DEF OneStream, StreamTypes, NoneIsNothing
<1>4. StreamTypes'
  BY <1>1, <1>2 DEF StreamTypes
<1>5. /\ client' = Shut(sock[d]) /\ retries'[d] <= 1
      /\ \A e \in Devices : e # d => retries'[e] = retries[e]
  BY <1>1, <1>3 DEF Shut, StreamTypes
<1>. HIDE DEF d
<1>. QED  BY <1>1, <1>2, <1>3, <1>4, <1>5, DroppingKeepsOne DEF StreamTypes

\* A terminal reason.
LEMMA EndTerminalKeeps ==
  ASSUME NoneIsNothing, StreamInv, NEW d \in Devices, NEW reason, sock[d] # None, EndTerminal(d, reason)
  PROVE  StreamInv'
<1>. USE DEF StreamInv
<1>1. StreamTypes'
  BY ShutType DEF EndTerminal, StreamTypes
<1>2. retries[d] = 0
  BY DEF OneStream, StreamTypes
<1>3. /\ sock' = [sock EXCEPT ![d] = None] /\ client' = Shut(sock[d]) /\ UNCHANGED owner
      /\ retries' \in [Devices -> Nat] /\ retries'[d] = 0 /\ retries'[d] <= 1
      /\ \A e \in Devices : e # d => retries'[e] = retries[e] /\ shown'[e] = shown[e]
  BY <1>1, <1>2 DEF EndTerminal, StreamTypes
<1>4. \A e \in Devices : e # d => (ousted'[e] <=> ousted[e])
  BY DEF EndTerminal, StreamTypes
<1>. QED  BY <1>1, <1>3, <1>4, DroppingKeepsOne

\* What a stream does with a message.  The reason of a takeover is terminal, so
\* that no stream goes on after it.
LEMMA ReceiveKeeps ==
  ASSUME NoneIsNothing, StreamInv, NEW s \in Socks, Receive(s)
  PROVE  StreamInv'
<1>. USE DEF StreamInv
<1>. DEFINE d == owner[s]
            m == Head(down[s])
<1>1. Live(s)
  BY DEF Receive, Live
<1>2. d \in Devices /\ sock[d] = s /\ s # None
  BY <1>1 DEF Owned, OneStream, Live, NoneIsNothing
<1>3. CASE OnClose(s)
  BY <1>1, <1>3, LossKeeps
<1>4. CASE EndTerminal(d, m)
  BY <1>2, <1>4, EndTerminalKeeps
<1>5. CASE /\ shown' = [shown EXCEPT ![d] = "online"]
           /\ UNCHANGED <<terminal, sock, retries, ousted, owner, client>>
  <2>1. StreamTypes'
    BY <1>5 DEF StreamTypes
  <2>2. Owned' /\ OustedWaits'
    BY <1>5 DEF Owned, OustedWaits, Live
  <2>3. \A e \in Devices : shown'[e] \in {"none", "ended"} => shown'[e] = shown[e]
    BY <1>2, <1>5 DEF StreamTypes
  <2>4. OneStream'
    BY <1>5, <2>3 DEF OneStream
  <2>. QED  BY <2>1, <2>2, <2>4
<1>6. CASE /\ m \in Reasons \ TerminalReasons
           /\ ousted' = [ousted EXCEPT ![d] = @ \/ (sock[d] = s /\ m = "opened-elsewhere")]
           /\ UNCHANGED <<shown, terminal, sock, retries, owner, client>>
  <2>1. m # "opened-elsewhere"
    BY <1>6 DEF TerminalReasons
  <2>2. ousted' = ousted
    BY <1>2, <1>6, <2>1 DEF StreamTypes
  <2>3. UNCHANGED <<shown, terminal, sock, retries, ousted, owner, client>>
    BY <1>6, <2>2
  <2>4. StreamTypes'
    BY <2>3 DEF StreamTypes
  <2>5. OneStream' /\ Owned' /\ OustedWaits'
    BY <2>3 DEF OneStream, Owned, OustedWaits, Live
  <2>. QED  BY <2>4, <2>5
<1>. QED  BY <1>2, <1>3, <1>4, <1>5, <1>6 DEF Receive

\* The relay's side leaves the streams alone.
LEMMA SameStreams ==
  ASSUME StreamInv, UNCHANGED streams
  PROVE  StreamInv'
BY DEF StreamInv, StreamTypes, OneStream, Owned, OustedWaits, Live, streams

\* The stream's invariant is inductive.
LEMMA StreamStep ==
  ASSUME NoneIsNothing, StreamInv, [Next]_vars
  PROVE  StreamInv'
<1>1. CASE UNCHANGED vars
  BY <1>1, SameStreams DEF vars
<1>2. ASSUME NEW d \in Devices, Mount(d) \/ Retry(d) \/ Unmount(d) \/ RetryFires(d)
      PROVE  StreamInv'
  BY <1>2, OpeningKeeps, UnmountKeeps
<1>3. ASSUME NEW s \in Socks, Opens(s)
      PROVE  StreamInv'
  <2>1. StreamTypes' /\ UNCHANGED <<shown, sock, retries, ousted, owner>>
    BY <1>3 DEF Opens, StreamInv, StreamTypes
  <2>2. \A t \in Socks : (client'[t] \in {"connecting", "open"}) <=> Live(t)
    BY <1>3 DEF Opens, StreamInv, StreamTypes, Live
  <2>3. Owned' /\ OneStream' /\ OustedWaits'
    BY <2>1, <2>2 DEF StreamInv, StreamTypes, Owned, OneStream, OustedWaits, Live
  <2>. QED  BY <2>1, <2>3 DEF StreamInv
<1>4. ASSUME NEW s \in Socks, ClientLoses(s)
      PROVE  StreamInv'
  BY <1>4, LossKeeps DEF ClientLoses, Live
<1>5. ASSUME NEW s \in Socks, Receive(s)
      PROVE  StreamInv'
  BY <1>5, ReceiveKeeps
<1>6. ASSUME NEW s \in Socks, Authenticate(s) \/ Discover(s) \/ Dialed(s) \/ UpstreamCloses(s) \/ ClientCloses(s)
      PROVE  StreamInv'
  <2>1. UNCHANGED streams
    BY <1>6 DEF Authenticate, Discover, Dialed, UpstreamCloses, ClientCloses, End, Acquire
  <2>. QED  BY <2>1, SameStreams
<1>7. ASSUME NEW s \in Socks, Collect(s)
      PROVE  StreamInv'
  <2>1. StreamTypes' /\ UNCHANGED <<shown, sock, retries, ousted>>
    BY <1>7 DEF Collect, StreamInv, StreamTypes
  <2>2. ~Live(s) /\ client'[s] = "unused"
    BY <1>7 DEF Collect, StreamInv, StreamTypes, Live
  <2>3. \A t \in Socks : t # s => client'[t] = client[t] /\ owner'[t] = owner[t]
    BY <1>7 DEF Collect, StreamInv, StreamTypes
  <2>4. \A e \in Devices : sock[e] # None => sock[e] # s /\ sock[e] \in Socks
    BY <2>2 DEF StreamInv, StreamTypes, Owned
  <2>5. Owned'
    BY <2>1, <2>2, <2>3, <2>4 DEF StreamInv, Owned, Live
  <2>6. OneStream' /\ OustedWaits'
    BY <2>1, <2>2, <2>3 DEF StreamInv, OneStream, OustedWaits
  <2>. QED  BY <2>1, <2>5, <2>6 DEF StreamInv
<1>8. CASE SessionChanges
  BY <1>8, SameStreams DEF SessionChanges
<1>. QED  BY <1>1, <1>2, <1>3, <1>4, <1>5, <1>6, <1>7, <1>8 DEF Next

\* It holds at the start.
LEMMA StreamInit == NoneIsNothing /\ Init => StreamInv
BY DEF Init, StreamInv, StreamTypes, OneStream, Owned, OustedWaits, Live, NoneIsNothing

\* One stream per device, whatever drops, closes, takeovers and retries interleave:
\* one socket or one scheduled reconnect, neither once the view is closed, and no
\* way back by itself for a device that was taken over (browser-stream.ts).
THEOREM OneStreamAlways == NoneIsNothing => (Spec => []OneStream)
<1>. SUFFICES ASSUME NoneIsNothing PROVE Spec => []OneStream
  OBVIOUS
<1>1. Init => StreamInv
  BY StreamInit
<1>2. StreamInv /\ [Next]_vars => StreamInv'
  BY StreamStep
<1>3. StreamInv => OneStream
  BY DEF StreamInv
<1>. QED  BY <1>1, <1>2, <1>3, PTL DEF Spec

-----------------------------------------------------------------------------

\* The relay: its registered viewer has the only upstream, types included.
RelayInv == RelayTypes /\ OneUpstream

\* Closing a relay keeps the types.
LEMMA EndKeeps ==
  ASSUME RelayInv, NEW s \in Socks, NEW reason \in Messages, End(s, reason)
  PROVE  RelayInv'
<1>1. down' \in [Socks -> Seq(Messages)]
  BY EndedType DEF End, RelayInv
<1>. QED  BY <1>1 DEF End, RelayInv, RelayTypes, OneUpstream

\* A takeover: the holder before, if any, loses the only upstream there was, and
\* the new one's client has not left.
LEMMA AcquireKeeps ==
  ASSUME NoneIsNothing, RelayInv, NEW s \in Socks, ~gone[s], Acquire(s)
  PROVE  RelayInv'
<1>. USE DEF RelayInv
<1>1. CASE holder \in {None, s}
  BY <1>1 DEF Acquire, RelayTypes, OneUpstream, NoneIsNothing
<1>2. CASE holder \notin {None, s}
  <2>1. holder \in Socks
    BY <1>2 DEF RelayTypes
  <2>2. down' \in [Socks -> Seq(Messages)]
    BY <1>2, <2>1, EndedType DEF Acquire, Messages, Reasons
  <2>3. RelayTypes'
    BY <1>2, <2>1, <2>2 DEF Acquire, RelayTypes
  <2>4. OneUpstream'
    BY <1>2, <2>1 DEF Acquire, RelayTypes, OneUpstream, NoneIsNothing
  <2>. QED  BY <2>3, <2>4
<1>. QED  BY <1>1, <1>2

\* The relay's invariant is inductive.
LEMMA RelayStep ==
  ASSUME NoneIsNothing, RelayInv, [Next]_vars
  PROVE  RelayInv'
<1>. USE DEF RelayInv
<1>1. CASE UNCHANGED relays
  BY <1>1 DEF relays, RelayTypes, OneUpstream
<1>2. ASSUME NEW s \in Socks, Opens(s) PROVE RelayInv'
  BY <1>2 DEF Opens, RelayTypes, OneUpstream
<1>3. ASSUME NEW s \in Socks, Receive(s) PROVE RelayInv'
  <2>1. Tail(down[s]) \in Seq(Messages)
    BY <1>3 DEF Receive, RelayTypes
  <2>2. down' \in [Socks -> Seq(Messages)]
    BY <1>3, <2>1 DEF Receive, RelayTypes
  <2>3. UNCHANGED <<relay, gone, upstream, holder>>
    BY <1>3 DEF Receive
  <2>. QED  BY <2>2, <2>3 DEF RelayTypes, OneUpstream
<1>4. ASSUME NEW s \in Socks, Authenticate(s) PROVE RelayInv'
  <2>1. CASE End(s, "refused")
    BY <2>1, EndKeeps DEF Messages
  <2>2. CASE /\ relay' = [relay EXCEPT ![s] = "discover"]
             /\ down' = IF client[s] = "shut" THEN down ELSE [down EXCEPT ![s] = <<"ok">>]
             /\ UNCHANGED <<gone, upstream, holder, streams, session>>
    <3>1. <<"ok">> \in Seq(Messages)
      BY DEF Messages
    <3>. QED  BY <2>2, <3>1 DEF RelayTypes, OneUpstream
  <2>. QED  BY <1>4, <2>1, <2>2 DEF Authenticate
<1>5. ASSUME NEW s \in Socks, Discover(s) PROVE RelayInv'
  <2>1. CASE End(s, "error") \/ End(s, "not-found")
    BY <2>1, EndKeeps DEF Messages, Reasons
  <2>2. CASE /\ relay' = [relay EXCEPT ![s] = "dial"]
             /\ UNCHANGED <<gone, upstream, down, holder, streams, session>>
    BY <2>2 DEF RelayTypes, OneUpstream
  <2>. QED  BY <1>5, <2>1, <2>2 DEF Discover
<1>6. ASSUME NEW s \in Socks, Dialed(s) PROVE RelayInv'
  <2>1. CASE End(s, "error") \/ End(s, "closed")
    BY <2>1, EndKeeps DEF Messages, Reasons
  <2>2. CASE ~gone[s] /\ Acquire(s)
    BY <2>2, AcquireKeeps
  <2>. QED  BY <1>6, <2>1, <2>2 DEF Dialed
<1>7. ASSUME NEW s \in Socks, UpstreamCloses(s) PROVE RelayInv'
  <2>1. down' \in [Socks -> Seq(Messages)]
    BY <1>7, EndedType DEF UpstreamCloses, Messages, Reasons
  <2>. QED  BY <1>7, <2>1 DEF UpstreamCloses, RelayTypes, OneUpstream
<1>8. ASSUME NEW s \in Socks, ClientCloses(s) PROVE RelayInv'
  BY <1>8 DEF ClientCloses, RelayTypes, OneUpstream
<1>9. ASSUME NEW s \in Socks, Collect(s) PROVE RelayInv'
  <2>1. <<>> \in Seq(Messages)
    OBVIOUS
  <2>. QED  BY <1>9, <2>1 DEF Collect, RelayTypes, OneUpstream
<1>10. ASSUME NEW d \in Devices, Mount(d) \/ Retry(d) \/ Unmount(d) \/ RetryFires(d)
       PROVE  UNCHANGED relays
  BY <1>10 DEF Mount, Retry, Unmount, RetryFires
<1>11. ASSUME NEW s \in Socks, ClientLoses(s) PROVE UNCHANGED relays
  BY <1>11 DEF ClientLoses
<1>12. CASE SessionChanges \/ UNCHANGED vars
  BY <1>1, <1>12 DEF SessionChanges, vars, relays
<1>. QED  BY <1>1, <1>2, <1>3, <1>4, <1>5, <1>6, <1>7, <1>8, <1>9, <1>10, <1>11, <1>12 DEF Next

\* It holds at the start.
LEMMA RelayInit == Init => RelayInv
<1>1. <<>> \in Seq(Messages)
  OBVIOUS
<1>. QED  BY <1>1 DEF Init, RelayInv, RelayTypes, OneUpstream

\* One viewer per browser session: only the registered viewer has an upstream, and
\* none whose client has left is registered, however discoveries, dials, takeovers
\* and closes interleave (browser-relay-handler.ts, viewer-registry.ts).
THEOREM OneUpstreamAlways == NoneIsNothing => (Spec => []OneUpstream)
<1>. SUFFICES ASSUME NoneIsNothing PROVE Spec => []OneUpstream
  OBVIOUS
<1>1. Init => RelayInv
  BY RelayInit
<1>2. RelayInv /\ [Next]_vars => RelayInv'
  BY RelayStep
<1>3. RelayInv => OneUpstream
  BY DEF RelayInv
<1>. QED  BY <1>1, <1>2, <1>3, PTL DEF Spec

\* Every variable of either end keeps its type.
THEOREM TypeCorrect == NoneIsNothing => (Spec => []TypeOK)
<1>. SUFFICES ASSUME NoneIsNothing PROVE Spec => []TypeOK
  OBVIOUS
<1>1. Init => StreamInv /\ RelayInv
  BY StreamInit, RelayInit
<1>2. StreamInv /\ RelayInv /\ [Next]_vars => StreamInv' /\ RelayInv'
  BY StreamStep, RelayStep
<1>3. StreamInv /\ RelayInv => TypeOK
  BY DEF StreamInv, StreamTypes, RelayInv, RelayTypes, TypeOK, Messages
<1>. QED  BY <1>1, <1>2, <1>3, PTL DEF Spec

=============================================================================
