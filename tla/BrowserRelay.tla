------------------------------ MODULE BrowserRelay ------------------------------
(***************************************************************************)
(* One agent-browser session watched from several devices: the BrowserStream *)
(* behind each device's BrowserView, the agent's BrowserRelayHandler behind  *)
(* each socket, and the registry that lets one viewer have the session.      *)
(* The two ends of a socket learn of its loss independently; the heartbeat   *)
(* is one of the ways a client learns of it.  Frames are in Frames.          *)
(***************************************************************************)
EXTENDS Naturals, Sequences

CONSTANTS Devices, Socks, None

VARIABLES shown,    \* device |-> "none" (view closed) or the stream's state
          terminal, \* device |-> BrowserStream.terminal
          sock,     \* device |-> BrowserStream.socket
          retries,  \* device |-> reconnects scheduled
          ousted,   \* device |-> told that another one opened the session, not retried since
          owner,    \* socket |-> the device that opened it
          client,   \* socket |-> "unused", "connecting", "open" or "shut"
          relay,    \* socket |-> "none", "fresh", "discover", "dial", "live" or "ended"
          gone,     \* socket |-> the relay saw its client close
          upstream, \* socket |-> the relay has an upstream
          down,     \* socket |-> messages to the client
          holder,   \* the registry's viewer of the session
          session   \* agent-browser runs the session

streams == <<shown, terminal, sock, retries, ousted, owner, client>>
relays == <<relay, gone, upstream, down, holder>>
vars == <<streams, relays, session>>

Reasons == {"opened-elsewhere", "not-found", "closed", "error"}
TypeOK == /\ shown \in [Devices -> {"none", "connecting", "online", "ended"}]
          /\ sock \in [Devices -> Socks \cup {None}] /\ holder \in Socks \cup {None}
          /\ \A s \in Socks : down[s] \in Seq(Reasons \cup {"ok", "refused", "close"})

Init == /\ shown = [d \in Devices |-> "none"] /\ terminal = [d \in Devices |-> FALSE]
        /\ sock = [d \in Devices |-> None] /\ retries = [d \in Devices |-> 0]
        /\ ousted = [d \in Devices |-> FALSE] /\ owner = [s \in Socks |-> None]
        /\ client = [s \in Socks |-> "unused"] /\ relay = [s \in Socks |-> "none"]
        /\ gone = [s \in Socks |-> FALSE] /\ upstream = [s \in Socks |-> FALSE]
        /\ down = [s \in Socks |-> <<>>] /\ holder = None /\ session \in BOOLEAN

Shut(s) == IF s = None THEN client ELSE [client EXCEPT ![s] = "shut"]

(* The stream.  open() drops the previous socket before it dials.            *)
OpenStream(d) == /\ \E s \in Socks :
                      /\ client[s] = "unused" /\ sock' = [sock EXCEPT ![d] = s]
                      /\ owner' = [owner EXCEPT ![s] = d]
                      /\ client' = [Shut(sock[d]) EXCEPT ![s] = "connecting"]
                 /\ terminal' = [terminal EXCEPT ![d] = FALSE]
                 /\ shown' = [shown EXCEPT ![d] = "connecting"]

Mount(d) == /\ shown[d] = "none" /\ OpenStream(d) /\ ousted' = [ousted EXCEPT ![d] = FALSE]
            /\ UNCHANGED <<retries, relays, session>>

Retry(d) == /\ shown[d] = "ended" /\ OpenStream(d) /\ ousted' = [ousted EXCEPT ![d] = FALSE]
            /\ UNCHANGED <<retries, relays, session>>

\* A view mounted later has a stream of its own: what this one scheduled finds
\* it terminal for good.
Unmount(d) == /\ shown[d] # "none" /\ shown' = [shown EXCEPT ![d] = "none"]
              /\ terminal' = [terminal EXCEPT ![d] = TRUE] /\ client' = Shut(sock[d])
              /\ sock' = [sock EXCEPT ![d] = None] /\ retries' = [retries EXCEPT ![d] = 0]
              /\ UNCHANGED <<ousted, owner, relays, session>>

Opens(s) == /\ client[s] = "connecting" /\ client' = [client EXCEPT ![s] = "open"]
            /\ relay' = [relay EXCEPT ![s] = "fresh"]
            /\ UNCHANGED <<shown, terminal, sock, retries, ousted, owner, gone, upstream, down, holder, session>>

\* onClose: only the current socket's close counts, and only it is retried.
OnClose(s) == LET d == owner[s] IN
    /\ client' = Shut(s)
    /\ IF sock[d] # s THEN UNCHANGED <<sock, retries>>
       ELSE /\ sock' = [sock EXCEPT ![d] = None]
            /\ retries' = IF terminal[d] THEN retries ELSE [retries EXCEPT ![d] = @ + 1]
    /\ UNCHANGED <<shown, terminal, ousted, owner>>

\* The dial fails, the path dies, or a ping goes unanswered.
ClientLoses(s) == client[s] \in {"connecting", "open"} /\ OnClose(s) /\ UNCHANGED <<relays, session>>

RetryFires(d) == /\ retries[d] > 0 /\ ~terminal[d] /\ retries' = [retries EXCEPT ![d] = @ - 1]
                 /\ OpenStream(d) /\ UNCHANGED <<ousted, relays, session>>

EndTerminal(d, reason) ==
    /\ terminal' = [terminal EXCEPT ![d] = TRUE] /\ client' = Shut(sock[d])
    /\ sock' = [sock EXCEPT ![d] = None] /\ shown' = [shown EXCEPT ![d] = "ended"]
    /\ ousted' = [ousted EXCEPT ![d] = reason = "opened-elsewhere"]
    /\ UNCHANGED <<retries, owner>>

\* Faulty variant: a takeover is a blip like the others.
TerminalButTakeover == {"not-found", "refused"}
TerminalReasons == {"not-found", "opened-elsewhere", "refused"}

Receive(s) ==
    /\ down[s] # <<>> /\ client[s] = "open" /\ down' = [down EXCEPT ![s] = Tail(@)]
    /\ LET d == owner[s] m == Head(down[s]) IN
         \/ m = "close" /\ OnClose(s)
         \/ sock[d] = s /\ m \in TerminalReasons /\ EndTerminal(d, m)
         \/ /\ sock[d] = s /\ m = "ok" /\ shown' = [shown EXCEPT ![d] = "online"]
            /\ UNCHANGED <<terminal, sock, retries, ousted, owner, client>>
         \/ /\ m # "close" /\ (sock[d] # s \/ m \in Reasons \ TerminalReasons)
            /\ ousted' = [ousted EXCEPT ![d] = @ \/ (sock[d] = s /\ m = "opened-elsewhere")]
            /\ UNCHANGED <<shown, terminal, sock, retries, owner, client>>
    /\ UNCHANGED <<relay, gone, upstream, holder, session>>

(* The relay.  end(): nothing is sent once the client's close was seen, and  *)
(* nothing passes a socket that is being closed, at either end.              *)
Ended(s, reason, msgs) == IF gone[s] \/ relay[s] = "ended" \/ client[s] = "shut" THEN msgs
                          ELSE [msgs EXCEPT ![s] = @ \o <<reason, "close">>]

End(s, reason) == /\ relay' = [relay EXCEPT ![s] = "ended"] /\ down' = Ended(s, reason, down)
                  /\ UNCHANGED <<gone, upstream, holder, streams, session>>

\* The device's token is the agent's, or no longer.
Authenticate(s) == /\ relay[s] = "fresh" /\ ~gone[s]
                   /\ \/ End(s, "refused")
                      \/ /\ relay' = [relay EXCEPT ![s] = "discover"]
                         /\ down' = IF client[s] = "shut" THEN down ELSE [down EXCEPT ![s] = <<"ok">>]
                         /\ UNCHANGED <<gone, upstream, holder, streams, session>>

Discover(s) == /\ relay[s] = "discover"
               /\ \/ End(s, "error")
                  \/ ~session /\ End(s, "not-found")
                  \/ session /\ relay' = [relay EXCEPT ![s] = "dial"]
                     /\ UNCHANGED <<gone, upstream, down, holder, streams, session>>

\* registry.acquire: the viewer before this one is detached.
Acquire(s) ==
    /\ holder' = s
    /\ IF holder \in {None, s}
       THEN relay' = [relay EXCEPT ![s] = "live"] /\ upstream' = [upstream EXCEPT ![s] = TRUE] /\ UNCHANGED down
       ELSE /\ relay' = [relay EXCEPT ![s] = "live", ![holder] = "ended"]
            /\ upstream' = [upstream EXCEPT ![s] = TRUE, ![holder] = FALSE]
            /\ down' = Ended(holder, "opened-elsewhere", down)
    /\ UNCHANGED <<gone, streams, session>>

\* Faulty variant: a client that left during the dial is not noticed.
DialedBlindly(s) == relay[s] = "dial" /\ (End(s, "error") \/ (session /\ Acquire(s)))

Dialed(s) == /\ relay[s] = "dial"
             /\ \/ End(s, "error")
                \/ session /\ ~gone[s] /\ Acquire(s)
                \/ session /\ gone[s] /\ End(s, "closed")

UpstreamCloses(s) == /\ upstream[s] /\ upstream' = [upstream EXCEPT ![s] = FALSE]
                     /\ relay' = [relay EXCEPT ![s] = "ended"] /\ down' = Ended(s, "closed", down)
                     /\ UNCHANGED <<gone, holder, streams, session>>

\* The client's socket closes, at the client's wish or because the path died.
ClientCloses(s) == /\ relay[s] # "none" /\ ~gone[s] /\ gone' = [gone EXCEPT ![s] = TRUE]
                   /\ holder' = IF holder = s THEN None ELSE holder
                   /\ upstream' = [upstream EXCEPT ![s] = FALSE]
                   /\ UNCHANGED <<relay, down, streams, session>>

\* A socket closed at both ends is no more: its place is for another one.
Collect(s) == /\ client[s] = "shut" /\ holder # s
              /\ relay[s] = "none" \/ (gone[s] /\ relay[s] \notin {"discover", "dial"})
              /\ client' = [client EXCEPT ![s] = "unused"] /\ owner' = [owner EXCEPT ![s] = None]
              /\ relay' = [relay EXCEPT ![s] = "none"] /\ gone' = [gone EXCEPT ![s] = FALSE]
              /\ down' = [down EXCEPT ![s] = <<>>]
              /\ UNCHANGED <<shown, terminal, sock, retries, ousted, upstream, holder, session>>

SessionChanges == session' = ~session /\ UNCHANGED <<streams, relays>>

Next == \/ \E d \in Devices : Mount(d) \/ Retry(d) \/ Unmount(d) \/ RetryFires(d)
        \/ \E s \in Socks : \/ Opens(s) \/ ClientLoses(s) \/ Receive(s) \/ Authenticate(s)
                            \/ Discover(s) \/ Dialed(s) \/ UpstreamCloses(s) \/ ClientCloses(s)
                            \/ Collect(s)
        \/ SessionChanges

Spec == Init /\ [][Next]_vars

(* One viewer: the session has one upstream, that of the registered viewer,  *)
(* and no relay whose client has left keeps either, however dials, takeovers *)
(* and closes interleave (browser-relay-handler.ts).                         *)
OneUpstream == /\ \A s \in Socks : upstream[s] => holder = s
               /\ holder # None => ~gone[holder]

(* A stream has one socket or one scheduled reconnect, a closed view has     *)
(* neither, and a device that was told it was taken over does not come back  *)
(* by itself to take the session from the other (browser-stream.ts).         *)
OneStream == \A d \in Devices :
    /\ retries[d] + (IF sock[d] = None THEN 0 ELSE 1) <= 1
    /\ shown[d] \in {"none", "ended"} => sock[d] = None /\ retries[d] = 0
    /\ \A s \in Socks : owner[s] = d /\ client[s] \in {"connecting", "open"} => s = sock[d]
    /\ ousted[d] => sock[d] = None

=============================================================================
