------------------------------ MODULE KeyPress ------------------------------
(* The keys of the terminal's keyboard bar (KeyboardBar.svelte).  A key fires *)
(* when the pointer is released, never when it goes down: the bar scrolls, so *)
(* a press may turn out to be a drag, and then it must send nothing.  A held  *)
(* key of Repeating fires on a timer instead (key-repeat.ts).  The browser    *)
(* adds a click of its own after a press; the bar has to swallow it.  Sticky  *)
(* modifiers (keyboard-modifiers.ts) change the keys that edit.               *)
EXTENDS Integers, FiniteSets

CONSTANTS Pointers, Keys, Repeating, Editing, None, MaxFires

Modifiers == {"ctrl", "alt", "meta"}

VARIABLES at,         \* pointer |-> the key it went down on
          origin,     \* keys whose press may still commit
          fired,      \* keys whose press has repeated
          held,       \* keys whose `repeater` names a timer
          running,    \* key |-> how many of its repeat timers are running
          suppress,   \* suppressClick
          due,        \* keys that owe the click the browser synthesizes
          mods,       \* modifier |-> "off", "armed" or "locked"
          sent,       \* history: key |-> times its last press has fired
          cancelled,  \* history: keys whose last press was called off untouched
          used        \* history: armed modifier |-> keys it has changed

vars == <<at, origin, fired, held, running, suppress, due, mods, sent,
          cancelled, used>>

TypeOK ==
  /\ at \in [Pointers -> Keys \union {None}]
  /\ {origin, fired, held, due, cancelled} \subseteq SUBSET Keys
  /\ running \in [Keys -> 0 .. Cardinality(Pointers) + 1]
  /\ suppress \in BOOLEAN
  /\ mods \in [Modifiers -> {"off", "armed", "locked"}]
  /\ sent \in [Keys -> 0 .. MaxFires]
  /\ used \in [Modifiers -> 0 .. 2]

Init ==
  /\ at = [p \in Pointers |-> None]
  /\ origin = {} /\ fired = {} /\ held = {} /\ due = {} /\ cancelled = {}
  /\ running = [k \in Keys |-> 0]
  /\ suppress = FALSE
  /\ mods = [m \in Modifiers |-> "off"]
  /\ sent = [k \in Keys |-> 0]
  /\ used = [m \in Modifiers |-> 0]

(* Tapping a modifier: off, armed for one key, locked, off. *)
cycleModifier(s) ==
  CASE s = "off" -> "armed" [] s = "armed" -> "locked" [] s = "locked" -> "off"

Cycle(m) ==
  /\ mods' = [mods EXCEPT ![m] = cycleModifier(@)]
  /\ used' = [used EXCEPT ![m] = 0]
  /\ UNCHANGED <<at, origin, fired, held, running, suppress, due, sent,
                 cancelled>>

consume(s) == IF s = "armed" THEN "off" ELSE s

(* Faulty variant: a one-shot modifier stays armed. *)
SpendNothing(ms) ==
  /\ mods' = mods
  /\ used' = [m \in Modifiers |->
                IF m \in ms /\ mods[m] = "armed" /\ used[m] < 2
                  THEN used[m] + 1 ELSE used[m]]

(* The modifiers ms were offered a key: those that were armed are spent. *)
Spend(ms) ==
  /\ mods' = [m \in Modifiers |-> IF m \in ms THEN consume(mods[m]) ELSE mods[m]]
  /\ used' = [m \in Modifiers |->
                IF m \in ms /\ mods[m] = "armed" THEN used[m] + 1 ELSE used[m]]

(* An edit key is changed by alt and meta; any other key ignores them. *)
tapKey(k) == IF k \in Editing THEN Spend({"alt", "meta"}) ELSE UNCHANGED <<mods, used>>

(* A character of the soft keyboard is changed by ctrl and alt. *)
Typed == /\ Spend({"ctrl", "alt"})
         /\ UNCHANGED <<at, origin, fired, held, running, suppress, due, sent,
                        cancelled>>

(* A notch of the cursor pad is a tap on the arrow of its direction. *)
PadNotch(k) ==
  /\ tapKey(k)
  /\ UNCHANGED <<at, origin, fired, held, running, suppress, due, sent, cancelled>>

(* The pointer goes down: nothing is sent yet.  The browser dispatches the   *)
(* click of a press with its release, before any other pointer event.        *)
Arm(p, k) ==
  /\ at[p] = None /\ due = {}
  /\ at' = [at EXCEPT ![p] = k]
  /\ origin' = origin \union {k}
  /\ fired' = fired \ {k}
  /\ suppress' = TRUE
  /\ IF k \in Repeating
       THEN /\ running' = [running EXCEPT ![k] = @ + 1]
            /\ held' = held \union {k}
       ELSE UNCHANGED <<running, held>>
  /\ sent' = [sent EXCEPT ![k] = 0]
  /\ cancelled' = cancelled \ {k}
  /\ UNCHANGED <<due, mods, used>>

(* Faulty variant: the press is forgotten, its timer is not stopped. *)
cancelPress(k) == /\ origin' = origin \ {k} /\ held' = held \ {k}
                  /\ UNCHANGED running

(* Stops the timer `repeater` names and forgets the press. *)
cancel(k) ==
  /\ running' = [running EXCEPT ![k] = IF k \in held THEN @ - 1 ELSE @]
  /\ held' = held \ {k}
  /\ origin' = origin \ {k}

(* The pointer travels further than TAP_SLOP_PX from where it went down. *)
Drag(p) ==
  LET k == at[p] IN
  /\ k # None /\ k \in origin
  /\ cancel(k)
  /\ cancelled' = IF k \in fired THEN cancelled ELSE cancelled \union {k}
  /\ UNCHANGED <<at, fired, suppress, due, mods, sent, used>>

(* Faulty variant: the press fires whatever became of it. *)
CommitsAnyway(k) == k \notin fired

(* Release: the press fires unless it was cancelled or has repeated.  A      *)
(* click follows, also after a drag that ended on the key; a long press may  *)
(* go without.                                                               *)
Commits(k) == k \in origin /\ k \notin fired

commit(p) ==
  LET k == at[p] IN
  /\ k # None
  /\ IF Commits(k)
       THEN sent[k] < MaxFires /\ sent' = [sent EXCEPT ![k] = @ + 1] /\ tapKey(k)
       ELSE UNCHANGED <<sent, mods, used>>
  /\ cancel(k)
  /\ at' = [at EXCEPT ![p] = None]
  /\ due' \in {due, due \union {k}}
  /\ UNCHANGED <<fired, suppress, cancelled>>

(* The browser takes the gesture for a scroll, or the pointer leaves the key: *)
(* no click follows.                                                          *)
PointerCancel(p) ==
  LET k == at[p] IN
  /\ k # None
  /\ cancel(k)
  /\ at' = [at EXCEPT ![p] = None]
  /\ cancelled' = IF k \in origin /\ k \notin fired
                    THEN cancelled \union {k} ELSE cancelled
  /\ UNCHANGED <<fired, suppress, due, mods, sent, used>>

(* Faulty variant: no click is swallowed. *)
SwallowsNone == FALSE

(* The click: one that follows a press is swallowed.  A click that follows   *)
(* none (a keyboard, a screen reader) taps the key; none of those comes in   *)
(* the middle of a press.                                                    *)
Swallows == suppress

Click(k) ==
  /\ due = {k} \/ (due = {} /\ \A p \in Pointers : at[p] = None)
  /\ due' = {}
  /\ suppress' = FALSE
  /\ IF Swallows
       THEN UNCHANGED <<sent, mods, used>>
       ELSE /\ tapKey(k)
            /\ IF k \in due THEN sent[k] < MaxFires /\ sent' = [sent EXCEPT ![k] = @ + 1]
                            ELSE sent' = sent
  /\ UNCHANGED <<at, origin, fired, held, running, cancelled>>

(* A repeat timer of the key fires. *)
Repeat(k) ==
  /\ running[k] > 0 /\ sent[k] < MaxFires
  /\ fired' = fired \union {k}
  /\ sent' = [sent EXCEPT ![k] = @ + 1]
  /\ tapKey(k)
  /\ UNCHANGED <<at, origin, held, running, suppress, due, cancelled>>

(* The bar leaves the page, and another is mounted. *)
Destroy ==
  /\ running' = [k \in Keys |-> IF k \in held THEN running[k] - 1 ELSE running[k]]
  /\ at' = [p \in Pointers |-> None]
  /\ origin' = {} /\ fired' = {} /\ held' = {} /\ due' = {} /\ suppress' = FALSE
  /\ sent' = [k \in Keys |-> 0] /\ cancelled' = {}
  /\ UNCHANGED <<mods, used>>

Next ==
  \/ \E m \in Modifiers : Cycle(m)
  \/ Typed
  \/ \E k \in Editing : PadNotch(k)
  \/ \E p \in Pointers : Drag(p) \/ commit(p) \/ PointerCancel(p)
  \/ \E p \in Pointers, k \in Keys : Arm(p, k)
  \/ \E k \in Keys : Click(k) \/ Repeat(k)
  \/ Destroy

Spec == Init /\ [][Next]_vars

(* A press that was called off before it repeated has sent nothing, neither  *)
(* on release nor by the click that may follow; any other press of a key     *)
(* that does not repeat has fired at most once.                              *)
OnePress == \A k \in Keys : /\ k \in cancelled => sent[k] = 0
                            /\ k \notin Repeating => sent[k] <= 1

(* A key repeats only while a pointer holds it.                              *)
StopsWhenReleased == \A k \in Keys : running[k] > 0 => \E p \in Pointers : at[p] = k

(* A modifier armed for one key changes one: typing, edit keys, repeats and  *)
(* notches of the pad together.                                              *)
OneShot == \A m \in Modifiers : used[m] <= 1 /\ (mods[m] = "armed" => used[m] = 0)
=============================================================================
