------------------------------ MODULE CursorPad ------------------------------
(* The cursor pad of the keyboard bar (cursor-pad.ts, padDrag): a drag turns  *)
(* into arrow keys, one for each NOTCH_PX of travel, along the axis that the  *)
(* drag crosses a notch on first.                                             *)
EXTENDS Integers

CONSTANTS Notch,   \* NOTCH_PX
          Span     \* bound: how far from the start a finger gets

Coord == -Span .. Span

VARIABLES gesture,  \* the pad holds a gesture
          ref,      \* its reference point, on each axis
          axis,     \* the axis the gesture is locked to, or "none"
          finger,   \* where the finger is, from where it went down
          arrows    \* history: right and down arrows sent, less left and up

vars == <<gesture, ref, axis, finger, arrows>>

Origin == [x |-> 0, y |-> 0]
Point == [x : Coord, y : Coord]

Abs(n) == IF n < 0 THEN -n ELSE n

Init == /\ gesture = FALSE /\ axis = "none" /\ arrows = 0
        /\ ref = Origin /\ finger = Origin

Down == /\ gesture' = TRUE /\ axis' = "none" /\ arrows' = 0
        /\ ref' = Origin /\ finger' = Origin

Release == /\ gesture' = FALSE
           /\ UNCHANGED <<ref, axis, finger, arrows>>

lockAxis(dx, dy) ==
  IF Abs(dx) >= Notch /\ Abs(dx) >= Abs(dy) THEN "x"
  ELSE IF Abs(dy) >= Notch THEN "y" ELSE "none"

(* Whole notches between the reference and the finger, signed. *)
Notches(delta) == IF delta < 0 THEN -(Abs(delta) \div Notch) ELSE delta \div Notch

(* Faulty variant: the reference jumps to the finger. *)
AdvanceToFinger(delta) == IF Notches(delta) = 0 THEN 0 ELSE delta

(* How far the reference moves: as far as the arrows sent account for. *)
Advance(delta) == Notches(delta) * Notch

moveGesture(p) ==
  LET d == [x |-> p.x - ref.x, y |-> p.y - ref.y]
      a == IF axis = "none" THEN lockAxis(d.x, d.y) ELSE axis
  IN IF a = "none"
       THEN UNCHANGED <<ref, axis, arrows>>
       ELSE /\ axis' = a
            /\ arrows' = arrows + Notches(d[a])
            /\ ref' = [ref EXCEPT ![a] = @ + Advance(d[a])]

Move(p) == /\ gesture
           /\ finger' = p
           /\ moveGesture(p)
           /\ UNCHANGED gesture

Next == Down \/ Release \/ \E p \in Point : Move(p)

Spec == Init /\ [][Next]_vars

(* The arrows a gesture has sent are those of the finger's travel along the  *)
(* locked axis, reversals included, to within a notch; before a lock the     *)
(* finger is within a notch of its start, and the other axis sends nothing.  *)
PadFollows ==
  /\ axis = "none" => arrows = 0
  /\ axis # "none" => Abs(finger[axis] - arrows * Notch) < Notch
  /\ gesture /\ axis = "none" => Abs(finger.x) < Notch /\ Abs(finger.y) < Notch
=============================================================================
