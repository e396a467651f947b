-------------------------------- MODULE Frames --------------------------------
(***************************************************************************)
(* The picture of a browser session on its way to the screen: the relay      *)
(* holds back frames while the client's socket is congested, the latest one  *)
(* replacing the one held, and BrowserView decodes frames at their own pace. *)
(* Frames are numbered in the order in which the page painted them.          *)
(***************************************************************************)
EXTENDS Naturals, Sequences

CONSTANTS MaxFrame, MaxWire \* bounds

VARIABLES made,      \* frames painted by the page
          held,      \* BrowserRelayHandler.pendingFrame, 0 for none
          congested, \* bufferedAmount is over the limit
          wire,      \* frames sent and not yet received
          seq,       \* BrowserView.drawSeq
          decoding,  \* frames being decoded, each with its draw number
          drawn      \* the frame on the canvas

vars == <<made, held, congested, wire, seq, decoding, drawn>>

Init == /\ made = 0 /\ held = 0 /\ congested = FALSE /\ wire = <<>> /\ seq = 0
        /\ decoding = {} /\ drawn = 0

view == <<seq, decoding, drawn>>

\* Faulty variant: the frames held while the socket is congested stay first in line.
FrameKeepingFirst ==
    /\ made < MaxFrame /\ made' = made + 1 /\ Len(wire) < MaxWire
    /\ IF congested THEN held' = (IF held = 0 THEN made' ELSE held) /\ UNCHANGED wire
                    ELSE held' = held /\ wire' = Append(wire, made')
    /\ UNCHANGED <<congested, view>>

Frame == /\ made < MaxFrame /\ made' = made + 1 /\ Len(wire) < MaxWire
         /\ IF congested THEN held' = made' /\ UNCHANGED wire
                         ELSE held' = 0 /\ wire' = Append(wire, made')
         /\ UNCHANGED <<congested, view>>

\* url, tabs and status: a frame held goes first once the socket has drained.
OtherMessage == /\ held # 0 /\ ~congested /\ Len(wire) < MaxWire
                /\ wire' = Append(wire, held) /\ held' = 0 /\ UNCHANGED <<made, congested, view>>

Congests == /\ wire # <<>> /\ ~congested /\ congested' = TRUE /\ UNCHANGED <<made, held, wire, view>>
Drains == congested /\ congested' = FALSE /\ UNCHANGED <<made, held, wire, view>>

Receive == /\ wire # <<>> /\ wire' = Tail(wire) /\ seq' = seq + 1
           /\ decoding' = decoding \cup {[frame |-> Head(wire), seq |-> seq + 1]}
           /\ UNCHANGED <<made, held, congested, drawn>>

\* Faulty variant: whatever is decoded is drawn.
DecodedAnyway(x) == /\ decoding' = decoding \ {x} /\ drawn' = x.frame
                    /\ UNCHANGED <<made, held, congested, wire, seq>>

\* Only the newest frame received is drawn.
Decoded(x) == /\ decoding' = decoding \ {x} /\ drawn' = IF x.seq = seq THEN x.frame ELSE drawn
              /\ UNCHANGED <<made, held, congested, wire, seq>>

Undecodable(x) == /\ decoding' = decoding \ {x} /\ x.seq # seq
                  /\ UNCHANGED <<made, held, congested, wire, seq, drawn>>

Next == \/ Frame \/ OtherMessage \/ Congests \/ Drains \/ Receive
        \/ \E x \in decoding : Decoded(x) \/ Undecodable(x)

Spec == Init /\ [][Next]_vars

\* Data sent over the socket arrives and is decoded.
LiveSpec == /\ Spec /\ WF_vars(Drains) /\ WF_vars(Receive)
            /\ WF_vars(\E x \in decoding : Decoded(x))

(* The canvas never goes back to an older frame (relayUpstreamMessage,       *)
(* drawFrame).                                                               *)
NeverBackwards == drawn' >= drawn

(* When the page rests, its last frame is drawn, or it is the one still held *)
(* back for want of another message (relayUpstreamMessage).                  *)
DrawnOrHeld == drawn = made \/ held = made
LastFrameDrawnOrHeld == []<>DrawnOrHeld

(* "replaced-not-queued until it drains": the last frame is drawn.           *)
LastFrameDrawn == []<>(drawn = made)

=============================================================================
