-------------------------- MODULE MCClientPartsProofs --------------------------
(***************************************************************************)
(* Proofs about the parts of the PWA, for any values of their constants:   *)
(* the invariant of each part, and that a behaviour of the instances       *)
(* MCClientParts joins keeps to the part it began as.                      *)
(***************************************************************************)
EXTENDS MCClientParts, Integers, FiniteSets, FiniteSetTheorems, SequenceTheorems, TLAPS

-----------------------------------------------------------------------------
(* A shared file waits until it is attached *)

SharedConstants == None \notin Files

\* What a window holds has been shared, and what it consumes has been sent.
Held(w) ==
  /\ arriving[w] \in shared \cup {None}
  /\ deleting[w] \subseteq given

SharedInv ==
  /\ Shared!TypeOK /\ cache \in shared \cup {None}
  /\ DOMAIN deleting = Twins /\ DOMAIN boot = Twins
  /\ \A w \in Twins : Held(w)
  /\ Shared!ShareSurvives

\* A flush sends the file held or keeps it.
LEMMA SharedFlush ==
  ASSUME SharedInv, NEW w \in Twins, NEW f \in shared \cup {None}, NEW can,
         Shared!Flush(w, f, can)
  PROVE  /\ arriving' \in [Twins -> shared \cup {None}] /\ DOMAIN deleting' = Twins
         /\ given \subseteq given' /\ given' \subseteq shared
         /\ \A v \in Twins : deleting'[v] \subseteq given'
<1>1. /\ arriving \in [Twins -> shared \cup {None}] /\ given \subseteq shared
      /\ DOMAIN deleting = Twins /\ \A v \in Twins : deleting[v] \subseteq given
  BY DEF SharedInv, Shared!TypeOK, Held
<1>2. CASE f # None /\ can /\ f \notin Huge
  BY <1>1, <1>2 DEF Shared!Flush
<1>3. CASE ~(f # None /\ can /\ f \notin Huge)
  BY <1>1, <1>3 DEF Shared!Flush
<1>. QED  BY <1>2, <1>3

\* The steps of a window.
LEMMA SharedWindow ==
  ASSUME SharedConstants, SharedInv, NEW w \in Twins,
         \/ Shared!Boot(w) \/ Shared!Close(w) \/ Shared!LoadSharedFile(w)
         \/ Shared!Opens(w) \/ Shared!Leaves(w)
  PROVE  SharedInv'
<1>1. /\ arriving \in [Twins -> shared \cup {None}] /\ open \in [Twins -> BOOLEAN]
      /\ given \cup replaced \cup swept \subseteq shared /\ shared \subseteq Files
  BY DEF SharedInv, Shared!TypeOK, Held
<1>2. CASE Shared!Boot(w) \/ Shared!Close(w)
  BY <1>1, <1>2 DEF SharedInv, Shared!TypeOK, Held, Shared!ShareSurvives, Shared!Boot,
     Shared!Close
<1>3. ASSUME Shared!LoadSharedFile(w) \/ Shared!Opens(w) PROVE SharedInv'
  <2>1. PICK f \in shared \cup {None}, can \in {open[w], TRUE} : Shared!Flush(w, f, can)
    BY <1>1, <1>3 DEF SharedInv, Shared!LoadSharedFile, Shared!Opens, Shared!ReadSharedFile
  <2>2. /\ UNCHANGED <<shared, cache, replaced, swept>> /\ DOMAIN boot' = Twins
        /\ open' \in [Twins -> BOOLEAN]
    BY <1>1, <1>3 DEF SharedInv, Shared!LoadSharedFile, Shared!Opens
  <2>3. /\ arriving' \in [Twins -> shared \cup {None}] /\ DOMAIN deleting' = Twins
        /\ given \subseteq given' /\ given' \subseteq shared
        /\ \A v \in Twins : deleting'[v] \subseteq given'
    BY <2>1, SharedFlush
  <2>. QED  BY <1>1, <2>2, <2>3 DEF SharedInv, Shared!TypeOK, Held, Shared!ShareSurvives
<1>4. CASE Shared!Leaves(w)
  BY <1>1, <1>4 DEF SharedInv, Shared!TypeOK, Held, Shared!ShareSurvives, Shared!Leaves
<1>. QED  BY <1>2, <1>3, <1>4

\* A new share replaces what is stashed, and a consumption takes what it finds.
LEMMA SharedCache ==
  ASSUME SharedConstants, SharedInv,
         \/ \E f \in Files : Shared!Share(f)
         \/ \E w \in Twins : \E f \in deleting[w] : Shared!Consumed(w, f)
  PROVE  SharedInv'
<1>1. ASSUME NEW f \in Files, Shared!Share(f) PROVE SharedInv'
  BY <1>1 DEF SharedConstants, SharedInv, Shared!TypeOK, Held, Shared!ShareSurvives,
     Shared!Share
<1>2. ASSUME NEW w \in Twins, NEW f \in deleting[w], Shared!Consumed(w, f)
      PROVE  SharedInv'
  <2>1. f \in given
    BY DEF SharedInv, Held
  <2>2. Shared!ShareSurvives'
    BY <1>2, <2>1 DEF SharedConstants, SharedInv, Shared!TypeOK, Shared!ShareSurvives,
       Shared!Consumed
  <2>3. \A v \in Twins : Held(v)'
    BY <1>2 DEF SharedInv, Held, Shared!Consumed
  <2>. QED  BY <1>2, <2>2, <2>3 DEF SharedInv, Shared!TypeOK, Shared!Consumed
<1>. QED  BY <1>1, <1>2

LEMMA SharedStep == SharedConstants /\ SharedInv /\ [Shared!Next]_(Shared!vars) => SharedInv'
<1>. SUFFICES ASSUME SharedConstants, SharedInv, [Shared!Next]_(Shared!vars)
              PROVE  SharedInv'
  OBVIOUS
<1>1. CASE UNCHANGED Shared!vars
  BY <1>1 DEF Shared!vars, SharedInv, Shared!TypeOK, Held, Shared!ShareSurvives
<1>. QED  BY <1>1, SharedWindow, SharedCache DEF Shared!Next

LEMMA SharedInit == Shared!Init => SharedInv
BY DEF Shared!Init, SharedInv, Shared!TypeOK, Held, Shared!ShareSurvives

\* A shared file that no session was given is still stashed, unless a later share
\* replaced it or the consumption of an older one swept it, for any windows and files
\* (shared-file.ts).
THEOREM ShareSurvivesAlways == SharedConstants => (Spec => []ShareSurvives)
<1>. SUFFICES ASSUME SharedConstants PROVE Spec => []ShareSurvives
  OBVIOUS
<1>. DEFINE Inv == part = "shared" => SharedInv
<1>1. Init => Inv
  BY SharedInit DEF Init
<1>2. Inv /\ [Next]_vars => Inv'
  <2>1. CASE part = "shared"
    <3>1. [Next]_vars => part' = part /\ [Shared!Next]_(Shared!vars)
      BY <2>1 DEF Next, vars, sharing, Shared!vars
    <3>. QED  BY <2>1, <3>1, SharedStep
  <2>2. CASE part # "shared"
    BY <2>2 DEF Next, vars
  <2>. QED  BY <2>1, <2>2
<1>3. Inv => ShareSurvives
  BY DEF ShareSurvives, SharedInv
<1>. QED  BY <1>1, <1>2, <1>3, PTL DEF Spec

-----------------------------------------------------------------------------
(* The microphone is let go *)

SpeechConstants == None \notin Takes

Jobs == [take : Takes, phase : Speech!Phases]

\* The microphones somebody is to let go: those of recorders that failed are forgotten.
HeldMics == mics \ broken

\* At most one microphone was asked for at a time: a recording shown has its recorder
\* and stream, and only it or the one being stopped has a microphone.
OneRecording ==
  \/ state \in {"idle", "error"} /\ starts \in 0..1 /\ HeldMics = {} /\ jobs = {}
  \/ /\ state = "recording" /\ starts = 0 /\ recorder # None /\ stream = recorder
     /\ HeldMics \subseteq {recorder} /\ jobs = {}
  \/ /\ state = "transcribing" /\ starts = 0
     /\ \E j \in Jobs : /\ jobs = {j} /\ HeldMics \subseteq {recorder}
                        /\ j.phase = "stop" => stream = recorder
                        /\ HeldMics # {} => j.phase = "stop"

SpeechInv ==
  /\ Speech!TypeOK /\ jobs \subseteq Jobs
  /\ raced \/ OneRecording

\* A request for the microphone.
LEMMA SpeechStart ==
  ASSUME SpeechInv, Speech!Start
  PROVE  SpeechInv'
<1>1. starts' \in 0..2 /\ raced' \in BOOLEAN
  BY DEF SpeechInv, Speech!TypeOK, Speech!Start
<1>2. ASSUME ~raced' PROVE ~raced /\ starts' = 1
  <2>1. raced' = (raced \/ starts > 0) /\ starts' = starts + 1 /\ starts \in 0..2
    BY DEF SpeechInv, Speech!TypeOK, Speech!Start
  <2>2. ~raced /\ ~(starts > 0)
    BY <1>2, <2>1, Zenon
  <2>. QED  BY <2>1, <2>2
<1>3. raced' \/ OneRecording'
  BY <1>2 DEF SpeechInv, OneRecording, HeldMics, Speech!Start, Speech!audio
<1>. QED  BY <1>1, <1>3 DEF SpeechInv, Speech!TypeOK, Speech!Start, Speech!audio

\* The other steps of the button and of the platform.
LEMMA SpeechButton ==
  ASSUME SpeechConstants, SpeechInv,
         \/ Speech!Stop \/ Speech!Denied \/ Speech!Dismiss
         \/ \E t \in Takes : Speech!Granted(t) \/ Speech!RecorderFails(t) \/ Speech!MicEnds(t)
  PROVE  SpeechInv'
<1>. USE DEF SpeechInv, Speech!TypeOK, HeldMics, Speech!shown, Speech!audio, Speech!history
<1>1. CASE Speech!Stop
  <2>1. CASE recorder = None
    BY <1>1, <2>1 DEF Speech!Stop, OneRecording
  <2>2. CASE recorder # None
    <3>. DEFINE j == [take |-> recorder, phase |-> IF recorder \in mics THEN "stop" ELSE "lost"]
    <3>1. /\ j \in Jobs /\ j.phase \in Speech!Phases
          /\ recorder \in mics => j.phase = "stop"
      BY <2>2 DEF Jobs, Speech!Phases
    <3>2. /\ state' = "transcribing" /\ jobs' = jobs \cup {j} /\ state = "recording"
          /\ UNCHANGED <<starts, used, mics, recorder, stream, raced, broken>>
      BY <1>1, <2>2 DEF Speech!Stop
    <3>. HIDE DEF j
    <3>3. raced \/ OneRecording'
      BY <3>1, <3>2 DEF OneRecording
    <3>4. Speech!TypeOK' /\ jobs' \subseteq Jobs
      BY <3>1, <3>2
    <3>. QED  BY <3>2, <3>3, <3>4
  <2>. QED  BY <2>1, <2>2
<1>2. CASE Speech!Denied
  BY <1>2 DEF Speech!Denied, OneRecording
<1>3. CASE Speech!Dismiss
  BY <1>3 DEF Speech!Dismiss, OneRecording
<1>4. ASSUME NEW t \in Takes, Speech!Granted(t) PROVE SpeechInv'
  BY <1>4 DEF Speech!Granted, Speech!Opens, OneRecording, SpeechConstants
<1>5. ASSUME NEW t \in Takes, Speech!RecorderFails(t) PROVE SpeechInv'
  BY <1>5 DEF Speech!RecorderFails, Speech!Opens, OneRecording
<1>6. ASSUME NEW t \in Takes, Speech!MicEnds(t) PROVE SpeechInv'
  BY <1>6 DEF Speech!MicEnds, OneRecording
<1>. QED  BY <1>1, <1>2, <1>3, <1>4, <1>5, <1>6

\* A recording that is stopped lets its microphone go, and its job ends.
LEMMA SpeechJobs ==
  ASSUME SpeechInv, NEW j \in jobs,
         \/ j.phase = "stop" /\ Speech!OnStop(j)
         \/ j.phase = "fetch" /\ Speech!Fetch(j)
         \/ j.phase = "body" /\ Speech!Body(j)
  PROVE  SpeechInv'
<1>. USE DEF SpeechInv, Speech!TypeOK, HeldMics, Speech!shown, Speech!audio, Speech!history
<1>. DEFINE Moved(s) == [j EXCEPT !.phase = s]
<1>1. j \in Jobs /\ \A s \in Speech!Phases : Moved(s) \in Jobs /\ Moved(s).phase = s
  BY DEF Jobs
<1>2. {"fetch", "body"} \subseteq Speech!Phases
  BY DEF Speech!Phases
<1>3. \/ raced
      \/ /\ jobs = {j} /\ state = "transcribing" /\ starts = 0
         /\ mics \ broken \subseteq {recorder} /\ (j.phase = "stop" => stream = recorder)
         /\ (mics \ broken # {} => j.phase = "stop")
  BY DEF OneRecording
<1>4. CASE j.phase = "stop" /\ Speech!OnStop(j)
  <2>1. PICK k \in Jobs : /\ jobs' = (jobs \ {j}) \cup {k} /\ k.phase \in Speech!Phases
                          /\ k.phase = "fetch"
    <3>1. Moved("fetch") \in Jobs /\ Moved("fetch").phase = "fetch"
      BY <1>1, <1>2
    <3>2. jobs' = (jobs \ {j}) \cup {Moved("fetch")}
      BY <1>4 DEF Speech!OnStop, Speech!Move
    <3>. HIDE DEF Moved
    <3>. QED  BY <1>2, <3>1, <3>2
  <2>2. /\ recorder' = None /\ stream' = None /\ mics' = mics \ {stream}
        /\ UNCHANGED <<state, starts, used, raced, broken>>
    BY <1>4 DEF Speech!OnStop
  <2>3. raced \/ OneRecording'
    BY <1>3, <1>4, <2>1, <2>2 DEF OneRecording
  <2>4. Speech!TypeOK' /\ jobs' \subseteq Jobs
    BY <2>1, <2>2
  <2>. QED  BY <2>2, <2>3, <2>4
<1>5. CASE j.phase \in {"fetch", "body"} /\ Speech!Fails(j)
  BY <1>1, <1>3, <1>5 DEF Speech!Fails, OneRecording
<1>6. CASE j.phase = "fetch" /\ Speech!Headers(j)
  BY <1>1, <1>2, <1>3, <1>6 DEF Speech!Headers, Speech!Move, OneRecording
<1>7. CASE j.phase = "body" /\ Speech!Body(j)
  BY <1>1, <1>3, <1>5, <1>7 DEF Speech!Body, OneRecording
<1>. QED  BY <1>4, <1>5, <1>6, <1>7 DEF Speech!Fetch

LEMMA SpeechStep == SpeechConstants /\ SpeechInv /\ [Speech!Next]_(Speech!vars) => SpeechInv'
<1>. SUFFICES ASSUME SpeechConstants, SpeechInv, [Speech!Next]_(Speech!vars)
              PROVE  SpeechInv'
  OBVIOUS
<1>1. CASE UNCHANGED Speech!vars
  BY <1>1 DEF Speech!vars, Speech!shown, Speech!audio, Speech!history, SpeechInv,
     Speech!TypeOK, OneRecording, HeldMics
<1>. QED  BY <1>1, SpeechStart, SpeechButton, SpeechJobs
          DEF Speech!Next, Speech!Toggle, Speech!At

LEMMA SpeechInit == Speech!Init => SpeechInv
<1>1. Speech!Init => OneRecording
  BY DEF Speech!Init, OneRecording, HeldMics
<1>2. Speech!Init => raced \in BOOLEAN
  BY Zenon DEF Speech!Init
<1>3. Speech!Init => Speech!TypeOK
  BY <1>2 DEF Speech!Init, Speech!TypeOK
<1>. QED  BY <1>1, <1>3 DEF Speech!Init, SpeechInv

\* The size of a set is the same to the instance.
LEMMA SpeechCardinality == ASSUME NEW S PROVE Speech!Cardinality(S) = Cardinality(S)
BY DEF Speech!Cardinality, Cardinality

\* The microphone is on only while a recording is shown or its stop is under way,
\* unless it was asked for twice at once; but for the microphone of a recorder that failed
\* to start (speech-to-text.ts, media-recorder-audio.ts).
THEOREM MicIsReleasedAlways == SpeechConstants => (Spec => []MicIsReleased)
<1>. SUFFICES ASSUME SpeechConstants PROVE Spec => []MicIsReleased
  OBVIOUS
<1>. DEFINE Inv == part = "dictation" => SpeechInv
<1>1. Init => Inv
  BY SpeechInit DEF Init
<1>2. Inv /\ [Next]_vars => Inv'
  <2>1. CASE part = "dictation"
    <3>1. [Next]_vars => part' = part /\ [Speech!Next]_(Speech!vars)
      BY <2>1 DEF Next, vars, dictating, Speech!vars, Speech!shown, Speech!audio,
         Speech!history
    <3>. QED  BY <2>1, <3>1, SpeechStep
  <2>2. CASE part # "dictation"
    BY <2>2 DEF Next, vars
  <2>. QED  BY <2>1, <2>2
<1>3. SpeechInv => Speech!MicIsReleased
  <2>1. \A j : Speech!Cardinality({j}) = 1
    BY FS_Singleton, SpeechCardinality
  <2>. QED  BY <2>1 DEF SpeechInv, OneRecording, HeldMics, Speech!MicIsReleased, Speech!At
<1>4. Inv => MicIsReleased
  BY <1>3 DEF MicIsReleased, SpeechInv
<1>. QED  BY <1>1, <1>2, <1>4, PTL DEF Spec

-----------------------------------------------------------------------------
(* A key counts once *)

\* One finger, on keys.
KeysConstants == (\E p : Pointers = {p}) /\ None \notin Keys /\ MaxFires \in Nat

KeyTypes ==
  /\ press \in [Pointers -> Keys \cup {None}]
  /\ origin \subseteq Keys /\ fired \subseteq Keys /\ held \subseteq Keys
  /\ due \subseteq Keys /\ cancelled \subseteq Keys
  /\ running \in [Keys -> 0..1] /\ keyed \in [Keys -> 0..MaxFires]

ModTypes ==
  /\ mods \in [KeyBar!Modifiers -> {"off", "armed", "locked"}]
  /\ spent \in [KeyBar!Modifiers -> 0..1]

\* Only the key under the finger is held, and the click that a press owes comes
\* before the next press and is swallowed.
UnderFinger ==
  \A p \in Pointers : /\ held \subseteq {press[p]}
                      /\ press[p] # None => suppress = TRUE /\ due = {}

\* A key has a timer while it is held; its press has sent nothing as long as it may
\* commit, and nothing if it was called off.
KeyCounts(k) ==
  /\ running[k] = IF k \in held THEN 1 ELSE 0
  /\ k \in held => k \in Repeating
  /\ k \in origin \ fired => keyed[k] = 0
  /\ k \in cancelled => k \notin origin /\ k \notin held /\ keyed[k] = 0
  /\ k \notin Repeating => keyed[k] <= 1

KeysInv ==
  /\ KeyTypes /\ ModTypes /\ suppress \in BOOLEAN
  /\ UnderFinger /\ (due # {} => suppress = TRUE)
  /\ \A k \in Keys : KeyCounts(k)
  /\ KeyBar!OneShot

\* The modifiers: tapped, or offered a key.
KeepsMods == ModTypes' /\ KeyBar!OneShot'

LEMMA SpendKeeps ==
  ASSUME KeysInv, NEW ms, KeyBar!Spend(ms)
  PROVE  KeepsMods
<1>1. ModTypes /\ KeyBar!OneShot
  BY DEF KeysInv
<1>2. ASSUME NEW m \in KeyBar!Modifiers
      PROVE  /\ mods'[m] \in {"off", "armed", "locked"} /\ spent'[m] \in 0..1
             /\ mods'[m] = "armed" => spent'[m] = 0
  BY <1>1 DEF ModTypes, KeyBar!OneShot, KeyBar!Spend, KeyBar!consume
<1>3. /\ mods' = [m \in KeyBar!Modifiers |-> mods'[m]]
      /\ spent' = [m \in KeyBar!Modifiers |-> spent'[m]]
  BY DEF KeyBar!Spend
<1>4. ModTypes'
  BY <1>2, <1>3 DEF ModTypes
<1>5. KeyBar!OneShot'
  BY <1>2 DEF KeyBar!OneShot
<1>. QED  BY <1>4, <1>5 DEF KeepsMods

LEMMA TapKeeps ==
  ASSUME KeysInv, NEW k, KeyBar!tapKey(k) \/ UNCHANGED <<mods, spent>>
  PROVE  KeepsMods
<1>1. CASE UNCHANGED <<mods, spent>>
  BY <1>1 DEF KeepsMods, KeysInv, ModTypes, KeyBar!OneShot
<1>. QED  BY <1>1, SpendKeeps DEF KeyBar!tapKey

LEMMA CycleKeeps ==
  ASSUME KeysInv, NEW m \in KeyBar!Modifiers, KeyBar!Cycle(m)
  PROVE  KeysInv'
<1>1. mods[m] \in {"off", "armed", "locked"} /\ ModTypes /\ KeyBar!OneShot
  BY DEF KeysInv, ModTypes
<1>2. KeyBar!cycleModifier(mods[m]) \in {"off", "armed", "locked"}
  BY <1>1 DEF KeyBar!cycleModifier
<1>3. KeepsMods
  BY <1>1, <1>2 DEF KeepsMods, ModTypes, KeyBar!OneShot, KeyBar!Cycle
<1>. QED  BY <1>3 DEF KeepsMods, KeysInv, KeyTypes, UnderFinger, KeyCounts, KeyBar!Cycle

\* The pointer goes down on a key.
LEMMA ArmKeeps ==
  ASSUME KeysConstants, KeysInv, NEW p \in Pointers, NEW k \in Keys, KeyBar!Arm(p, k)
  PROVE  KeysInv'
<1>1. Pointers = {p}
  BY DEF KeysConstants
<1>2. held = {} /\ press' = [press EXCEPT ![p] = k] /\ due' = {} /\ suppress' = TRUE
  BY <1>1 DEF KeysConstants, KeysInv, KeyTypes, UnderFinger, KeyBar!Arm
<1>3. held' = IF k \in Repeating THEN {k} ELSE {}
  BY <1>2 DEF KeyBar!Arm
<1>4. KeyTypes' /\ \A q \in Keys : KeyCounts(q)'
  BY <1>2, <1>3 DEF KeysConstants, KeysInv, KeyTypes, KeyCounts, KeyBar!Arm
<1>5. UnderFinger'
  BY <1>1, <1>2, <1>3 DEF KeysInv, KeyTypes, UnderFinger
<1>6. KeepsMods
  BY TapKeeps DEF KeyBar!Arm
<1>. QED  BY <1>2, <1>4, <1>5, <1>6 DEF KeysInv, KeepsMods

\* What calling a press off leaves.
LEMMA CancelKeeps ==
  ASSUME KeysInv, NEW k \in Keys, KeyBar!cancel(k)
  PROVE  /\ running' \in [Keys -> 0..1] /\ held' = held \ {k} /\ origin' = origin \ {k}
         /\ \A q \in Keys : running'[q] = IF q \in held' THEN 1 ELSE 0
BY DEF KeysInv, KeyTypes, KeyCounts, KeyBar!cancel

\* The press ends: dragged away, let go, or taken by the browser.
LEMMA PressEnds ==
  ASSUME KeysConstants, KeysInv, NEW p \in Pointers,
         KeyBar!Drag(p) \/ KeyBar!commit(p) \/ KeyBar!PointerCancel(p)
  PROVE  KeysInv'
<1>. DEFINE k == press[p]
<1>1. k \in Keys /\ KeyBar!cancel(k) /\ suppress = TRUE /\ due = {} /\ Pointers = {p}
  BY DEF KeysConstants, KeysInv, KeyTypes, UnderFinger, KeyBar!Drag, KeyBar!commit,
     KeyBar!PointerCancel
<1>2. /\ running' \in [Keys -> 0..1] /\ held' = held \ {k} /\ origin' = origin \ {k}
      /\ \A q \in Keys : running'[q] = IF q \in held' THEN 1 ELSE 0
  BY <1>1, CancelKeeps
<1>3. fired' = fired /\ suppress' = TRUE /\ due' \subseteq {k} /\ held' = {}
  BY <1>1, <1>2 DEF KeysInv, UnderFinger, KeyBar!Drag, KeyBar!commit, KeyBar!PointerCancel
<1>4. press' \in [Pointers -> {k, None}] /\ (press'[p] # None => due' = {})
  BY <1>1 DEF KeysInv, KeyTypes, KeyBar!Drag, KeyBar!commit, KeyBar!PointerCancel
<1>5. UnderFinger' /\ (due' # {} => suppress' = TRUE)
  BY <1>1, <1>3, <1>4 DEF UnderFinger
<1>6. KeepsMods
  <2>1. KeyBar!tapKey(k) \/ UNCHANGED <<mods, spent>>
    BY DEF KeyBar!Drag, KeyBar!commit, KeyBar!PointerCancel
  <2>. QED  BY <2>1, TapKeeps
<1>7. /\ keyed' \in [Keys -> 0..MaxFires] /\ cancelled' \subseteq Keys
      /\ \A q \in Keys \ {k} : keyed'[q] = keyed[q] /\ (q \in cancelled' <=> q \in cancelled)
  <2>1. /\ keyed \in [Keys -> 0..MaxFires] /\ cancelled \subseteq Keys
        /\ k \in Keys /\ MaxFires \in Nat
    BY <1>1 DEF KeysConstants, KeysInv, KeyTypes
  <2>2. CASE KeyBar!Drag(p)
    BY <2>1, <2>2 DEF KeyBar!Drag
  <2>3. CASE KeyBar!commit(p)
    <3>1. cancelled' = cancelled
      BY <2>3 DEF KeyBar!commit
    <3>2. \/ keyed' = keyed
          \/ keyed[k] < MaxFires /\ keyed' = [keyed EXCEPT ![k] = @ + 1]
      BY <2>3 DEF KeyBar!commit
    <3>. HIDE DEF k
    <3>. QED  BY <2>1, <3>1, <3>2
  <2>4. CASE KeyBar!PointerCancel(p)
    BY <2>1, <2>4 DEF KeyBar!PointerCancel
  <2>. QED  BY <2>2, <2>3, <2>4
<1>8. KeyTypes'
  BY <1>1, <1>2, <1>3, <1>4, <1>7 DEF KeysInv, KeyTypes
<1>9. KeyCounts(k)
  BY <1>1 DEF KeysInv
<1>10. /\ k \in cancelled' => keyed'[k] = 0
       /\ k \notin Repeating => keyed'[k] <= 1
  <2>1. CASE KeyBar!Drag(p) \/ KeyBar!PointerCancel(p)
    BY <1>1, <1>9, <2>1 DEF KeysInv, KeyTypes, KeyCounts, KeyBar!Drag, KeyBar!PointerCancel
  <2>2. CASE KeyBar!commit(p)
    BY <1>1, <1>9, <2>2 DEF KeysInv, KeyTypes, KeyCounts, KeyBar!commit, KeyBar!Commits
  <2>. QED  BY <2>1, <2>2
<1>11. ASSUME NEW q \in Keys PROVE KeyCounts(q)'
  <2>1. KeyCounts(q)
    BY DEF KeysInv
  <2>. QED  BY <1>2, <1>3, <1>7, <1>10, <2>1 DEF KeyCounts
<1>. QED  BY <1>3, <1>5, <1>6, <1>8, <1>11 DEF KeysInv, KeepsMods

\* A click, a repeat, and a new bar.
LEMMA KeysOthers ==
  ASSUME KeysConstants, KeysInv, NEW k \in Keys,
         KeyBar!Click(k) \/ KeyBar!Repeat(k) \/ KeyBar!Destroy
  PROVE  KeysInv'
<1>1. CASE KeyBar!Click(k)
  <2>1. /\ UNCHANGED <<press, origin, fired, held, running, cancelled>>
        /\ due' = {} /\ suppress' = FALSE /\ keyed' = keyed
    BY <1>1 DEF KeysInv, KeyBar!Click, KeyBar!Swallows
  <2>2. \A p \in Pointers : press[p] = None
    BY <1>1 DEF KeysInv, UnderFinger, KeyBar!Click
  <2>3. KeepsMods
    BY <1>1, TapKeeps DEF KeyBar!Click
  <2>. QED  BY <2>1, <2>2, <2>3 DEF KeysInv, KeyTypes, UnderFinger, KeyCounts, KeepsMods
<1>2. CASE KeyBar!Repeat(k)
  <2>1. /\ UNCHANGED <<press, origin, held, running, suppress, due, cancelled>>
        /\ fired' = fired \cup {k} /\ keyed' = [keyed EXCEPT ![k] = @ + 1]
        /\ running[k] > 0 /\ keyed[k] < MaxFires
    BY <1>2 DEF KeyBar!Repeat
  <2>2. KeepsMods
    BY <1>2, TapKeeps DEF KeyBar!Repeat
  <2>3. KeyTypes' /\ UnderFinger'
    BY <2>1 DEF KeysConstants, KeysInv, KeyTypes, UnderFinger
  <2>4. ASSUME NEW q \in Keys PROVE KeyCounts(q)'
    BY <2>1 DEF KeysInv, KeyTypes, KeyCounts
  <2>. QED  BY <2>1, <2>2, <2>3, <2>4 DEF KeysInv, KeepsMods
<1>3. CASE KeyBar!Destroy
  <2>1. KeepsMods
    BY <1>3, TapKeeps DEF KeyBar!Destroy
  <2>2. KeyTypes' /\ UnderFinger'
    BY <1>3 DEF KeysConstants, KeysInv, KeyTypes, UnderFinger, KeyCounts, KeyBar!Destroy
  <2>3. ASSUME NEW q \in Keys PROVE KeyCounts(q)'
    BY <1>3 DEF KeysInv, KeyTypes, KeyCounts, KeyBar!Destroy
  <2>. QED  BY <1>3, <2>1, <2>2, <2>3 DEF KeysInv, KeepsMods, KeyBar!Destroy
<1>. QED  BY <1>1, <1>2, <1>3

\* A character, and a notch of the pad.
LEMMA KeysTyped ==
  ASSUME KeysInv, KeyBar!Typed \/ \E k \in Editing : KeyBar!PadNotch(k)
  PROVE  KeysInv'
<1>1. KeepsMods
  BY SpendKeeps, TapKeeps DEF KeyBar!Typed, KeyBar!PadNotch
<1>. QED  BY <1>1 DEF KeepsMods, KeysInv, KeyTypes, UnderFinger, KeyCounts, KeyBar!Typed,
          KeyBar!PadNotch

LEMMA KeysStep == KeysConstants /\ KeysInv /\ [KeyBar!Next]_(KeyBar!vars) => KeysInv'
<1>. SUFFICES ASSUME KeysConstants, KeysInv, [KeyBar!Next]_(KeyBar!vars) PROVE KeysInv'
  OBVIOUS
<1>1. CASE UNCHANGED KeyBar!vars
  BY <1>1 DEF KeyBar!vars, KeysInv, KeyTypes, ModTypes, UnderFinger, KeyCounts,
     KeyBar!OneShot
<1>2. CASE KeyBar!Destroy
  <2>1. CASE Keys = {}
    BY <1>2, <2>1 DEF KeyBar!Destroy, KeysConstants, KeysInv, KeyTypes, ModTypes,
       UnderFinger, KeyBar!OneShot
  <2>. QED  BY <1>2, <2>1, KeysOthers
<1>. QED  BY <1>1, <1>2, CycleKeeps, KeysTyped, PressEnds, ArmKeeps, KeysOthers
          DEF KeyBar!Next

LEMMA KeysInit == KeysConstants /\ KeyBar!Init => KeysInv
<1>. SUFFICES ASSUME KeysConstants, KeyBar!Init PROVE KeysInv
  OBVIOUS
<1>1. KeyTypes /\ ModTypes /\ UnderFinger /\ \A k \in Keys : KeyCounts(k)
  BY DEF KeysConstants, KeyBar!Init, KeyTypes, ModTypes, UnderFinger, KeyCounts
<1>2. KeyBar!OneShot /\ suppress = FALSE /\ due = {}
  BY DEF KeyBar!Init, KeyBar!OneShot
<1>. QED  BY <1>1, <1>2 DEF KeysInv

LEMMA KeysCounted ==
  KeysConstants /\ KeysInv
    => KeyBar!TypeOK /\ KeyBar!OnePress /\ KeyBar!StopsWhenReleased /\ KeyBar!OneShot
<1>. SUFFICES ASSUME KeysConstants, KeysInv
              PROVE  KeyBar!TypeOK /\ KeyBar!OnePress /\ KeyBar!StopsWhenReleased
  BY DEF KeysInv
<1>1. KeyBar!Cardinality(Pointers) = 1
  <2>1. \A S : KeyBar!Cardinality(S) = Cardinality(S)
    BY DEF KeyBar!Cardinality, Cardinality
  <2>. QED  BY <2>1, FS_Singleton DEF KeysConstants
<1>2. 0..1 \subseteq 0 .. 1 + 1 /\ 0..1 \subseteq 0 .. 2
  OBVIOUS
<1>3. KeyBar!TypeOK
  BY <1>1, <1>2 DEF KeysInv, KeyTypes, ModTypes, KeyBar!TypeOK
<1>4. KeyBar!OnePress
  BY DEF KeysInv, KeyCounts, KeyBar!OnePress
<1>5. KeyBar!StopsWhenReleased
  BY DEF KeysConstants, KeysInv, KeyCounts, UnderFinger, KeyBar!StopsWhenReleased
<1>. QED  BY <1>3, <1>4, <1>5

\* A notch is a distance, and the finger's place a number.
PadConstants == Notch \in Nat \ {0}

\* The pad has sent the arrows of the way to its reference point, which is within a
\* notch of the finger.
PadInv ==
  /\ finger \in [x : Int, y : Int] /\ ref \in [x : Int, y : Int] /\ arrows \in Int
  /\ axis \in {"none", "x", "y"}
  /\ axis = "none" => /\ arrows = 0 /\ ref = Pad!Origin
                      /\ gesture => Pad!Abs(finger.x) < Notch /\ Pad!Abs(finger.y) < Notch
  /\ axis # "none" => /\ ref[axis] = arrows * Notch
                      /\ Pad!Abs(finger[axis] - ref[axis]) < Notch

\* The whole notches of a distance leave less than one.
LEMMA NotchesAdvance ==
  ASSUME PadConstants, NEW d \in Int
  PROVE  Pad!Notches(d) \in Int /\ Pad!Abs(d - Pad!Advance(d)) < Notch
<1>1. Notch \in Int /\ Notch > 0
  BY DEF PadConstants
<1>2. ASSUME NEW n \in Nat
      PROVE  n \div Notch \in Int /\ (n \div Notch) * Notch <= n
             /\ n < (n \div Notch) * Notch + Notch
  BY <1>1
<1>3. CASE d < 0
  <2>. DEFINE q == (-d) \div Notch
  <2>1. q \in Int /\ q * Notch <= -d /\ -d < q * Notch + Notch
    BY <1>2, <1>3
  <2>2. Pad!Notches(d) = -q
    BY <1>3 DEF Pad!Notches, Pad!Abs
  <2>. HIDE DEF q
  <2>3. (-q) * Notch = -(q * Notch) /\ q * Notch \in Int
    BY <1>1, <2>1
  <2>. QED  BY <1>1, <2>1, <2>2, <2>3 DEF Pad!Advance, Pad!Abs
<1>4. CASE d >= 0
  <2>. DEFINE q == d \div Notch
  <2>1. q \in Int /\ q * Notch <= d /\ d < q * Notch + Notch
    BY <1>2, <1>4
  <2>2. Pad!Notches(d) = q
    BY <1>4 DEF Pad!Notches
  <2>. HIDE DEF q
  <2>3. q * Notch \in Int
    BY <1>1, <2>1
  <2>. QED  BY <1>1, <2>1, <2>2, <2>3 DEF Pad!Advance, Pad!Abs
<1>. QED  BY <1>3, <1>4

\* A move of the finger: the arrows of the notches it is past the reference point.
LEMMA PadMoves ==
  ASSUME PadConstants, PadInv, NEW p \in [x : Int, y : Int], gesture,
         finger' = p, gesture' = gesture, Pad!moveGesture(p)
  PROVE  PadInv'
<1>. DEFINE d == [x |-> p.x - ref.x, y |-> p.y - ref.y]
            a == IF axis = "none" THEN Pad!lockAxis(d.x, d.y) ELSE axis
<1>1. /\ ref \in [x : Int, y : Int] /\ arrows \in Int /\ axis \in {"none", "x", "y"}
      /\ p.x \in Int /\ p.y \in Int /\ ref.x \in Int /\ ref.y \in Int
      /\ Notch \in Int /\ Notch > 0
  BY DEF PadInv, PadConstants
<1>2. a \in {"none", "x", "y"}
  BY <1>1 DEF Pad!lockAxis
<1>3. CASE a = "none"
  <2>1. axis = "none" /\ UNCHANGED <<ref, axis, arrows>>
    BY <1>1, <1>3 DEF Pad!moveGesture
  <2>2. ref = Pad!Origin /\ arrows = 0
    BY <2>1 DEF PadInv
  <2>3. Pad!Abs(p.x) < Notch /\ Pad!Abs(p.y) < Notch
    BY <1>1, <1>3, <2>1, <2>2 DEF Pad!lockAxis, Pad!Origin, Pad!Abs
  <2>. QED  BY <1>1, <2>1, <2>2, <2>3 DEF PadInv, Pad!Abs
<1>4. CASE a # "none"
  <2>. DEFINE n == Pad!Notches(d[a])
  <2>1. a \in {"x", "y"} /\ d[a] = p[a] - ref[a] /\ d[a] \in Int /\ ref[a] \in Int
        /\ p[a] \in Int
    BY <1>1, <1>2, <1>4
  <2>2. n \in Int /\ Pad!Abs(d[a] - n * Notch) < Notch
    BY <2>1, NotchesAdvance DEF Pad!Advance
  <2>3. axis' = a /\ arrows' = arrows + n /\ ref' = [ref EXCEPT ![a] = @ + n * Notch]
    BY <1>4 DEF Pad!moveGesture, Pad!Advance
  <2>4. ref[a] = arrows * Notch
    BY <1>1, <2>1 DEF PadInv, Pad!Origin
  <2>. HIDE DEF n, d, a
  <2>5. (arrows + n) * Notch = arrows * Notch + n * Notch /\ n * Notch \in Int
    BY <1>1, <2>2
  <2>6. ref'[a] = (arrows + n) * Notch /\ ref' \in [x : Int, y : Int]
    BY <1>1, <2>1, <2>3, <2>4, <2>5
  <2>7. p[a] - ref'[a] = d[a] - n * Notch
    BY <1>1, <2>1, <2>2, <2>3, <2>5
  <2>8. arrows' \in Int /\ axis' \in {"x", "y"} /\ axis' # "none"
    BY <1>1, <2>1, <2>2, <2>3
  <2>9. Pad!Abs(finger'[axis'] - ref'[axis']) < Notch /\ ref'[axis'] = arrows' * Notch
    BY <2>2, <2>3, <2>6, <2>7
  <2>. QED  BY <2>6, <2>8, <2>9 DEF PadInv, Pad!Abs
<1>. QED  BY <1>3, <1>4

LEMMA PadStep == PadConstants /\ Span \in Int /\ PadInv /\ [Pad!Next]_(Pad!vars) => PadInv'
<1>. SUFFICES ASSUME PadConstants, Span \in Int, PadInv, [Pad!Next]_(Pad!vars) PROVE PadInv'
  OBVIOUS
<1>1. CASE UNCHANGED Pad!vars
  BY <1>1 DEF Pad!vars, PadInv, Pad!Abs, Pad!Origin
<1>2. CASE Pad!Down
  BY <1>2 DEF Pad!Down, PadConstants, PadInv, Pad!Abs, Pad!Origin
<1>3. CASE Pad!Release
  BY <1>3 DEF Pad!Release, PadInv, Pad!Abs, Pad!Origin
<1>4. ASSUME NEW p \in Pad!Point, Pad!Move(p) PROVE PadInv'
  <2>1. p \in [x : Int, y : Int]
    BY DEF Pad!Point, Pad!Coord
  <2>2. gesture /\ finger' = p /\ gesture' = gesture /\ Pad!moveGesture(p)
    BY <1>4 DEF Pad!Move
  <2>. QED  BY <2>1, <2>2, PadMoves
<1>. QED  BY <1>1, <1>2, <1>3, <1>4 DEF Pad!Next

LEMMA PadFollowed == PadConstants /\ PadInv => Pad!PadFollows
<1>. SUFFICES ASSUME PadConstants, PadInv PROVE Pad!PadFollows
  OBVIOUS
<1>1. axis # "none" => Pad!Abs(finger[axis] - arrows * Notch) < Notch
  BY DEF PadInv
<1>. QED  BY <1>1 DEF PadInv, Pad!PadFollows

\* Presses, repeats and armed modifiers count once, and the pad sends the arrows of the
\* finger's travel to within a notch, whatever keys there are and however long a notch
\* is (KeyboardBar.svelte, keyboard-modifiers.ts, key-repeat.ts, cursor-pad.ts).
THEOREM KeysCountAlways ==
  KeysConstants /\ PadConstants /\ Span \in Int => (Spec => []KeysCount)
<1>. SUFFICES ASSUME KeysConstants, PadConstants, Span \in Int PROVE Spec => []KeysCount
  OBVIOUS
<1>. DEFINE Inv == /\ part = "keys" => KeysInv
                   /\ part = "pad" => PadInv
<1>1. Init => Inv
  <2>1. Pad!Init => PadInv
    BY DEF Pad!Init, PadConstants, PadInv, Pad!Abs, Pad!Origin
  <2>. QED  BY <2>1, KeysInit DEF Init
<1>2. Inv /\ [Next]_vars => Inv'
  <2>. SUFFICES ASSUME Inv, [Next]_vars PROVE Inv'
    OBVIOUS
  <2>1. part' = part
    BY DEF Next, vars
  <2>2. part = "keys" => [KeyBar!Next]_(KeyBar!vars)
    BY DEF Next, vars, pressing, KeyBar!vars
  <2>3. part = "pad" => [Pad!Next]_(Pad!vars)
    BY DEF Next, vars, swiping, Pad!vars
  <2>4. part' = "keys" => KeysInv'
    BY <2>1, <2>2, KeysStep
  <2>5. part' = "pad" => PadInv'
    BY <2>1, <2>3, PadStep
  <2>. QED  BY <2>4, <2>5
<1>3. Inv => KeysCount
  BY KeysCounted, PadFollowed DEF KeysCount
<1>. QED  BY <1>1, <1>2, <1>3, PTL DEF Spec

-----------------------------------------------------------------------------
(* The home screen *)

HomeConstants == MaxRefocus \in Nat

\* The clock, the rows and the filter agree with the links; with a row on screen, the
\* filter names only folders of rows.
HomeInv ==
  /\ Home!TypeOK
  /\ Home!ClockMatchesLinks /\ Home!NoOrphanRows
  /\ homeListed # {} => filter \subseteq Home!FoldersOf(homeListed)

\* The clock after a change, as it should be.
ClockSet ==
  /\ elapsed' \in BOOLEAN /\ grace' \in Home!Windows
  /\ Home!ClockMatchesLinks'

LEMMA ClockGoesOn ==
  ASSUME HomeInv, NEW c, c = config', NEW r, Home!Regrace(c, status', r, elapsed, grace)
  PROVE  ClockSet
<1>1. elapsed \in BOOLEAN /\ grace \in Home!Windows /\ (elapsed => grace = "none")
  BY DEF HomeInv, Home!TypeOK, Home!ClockMatchesLinks
<1>2. CASE Home!Enabled(c) = {} \/ Home!AnyOnline(c, status')
  <2>1. elapsed' = FALSE /\ grace' = "none"
    BY <1>2, Zenon DEF Home!Regrace
  <2>. QED  BY <1>2, <2>1 DEF ClockSet, Home!ClockMatchesLinks, Home!Windows
<1>3. CASE ~(Home!Enabled(c) = {} \/ Home!AnyOnline(c, status'))
  <2>1. /\ elapsed' = elapsed
        /\ grace' = IF elapsed \/ grace # "none" THEN grace
                    ELSE IF r \cap Home!Enabled(c) # {} THEN "long" ELSE "short"
    BY <1>3, Zenon DEF Home!Regrace
  <2>2. elapsed' \in BOOLEAN
    BY <1>1, <2>1, Zenon
  <2>3. grace' \in Home!Windows /\ (grace' # "none" <=> ~elapsed)
    BY <1>1, <2>1 DEF Home!Windows
  <2>4. grace' # "none" <=> ~elapsed'
    BY <2>1, <2>3, Zenon
  <2>. QED  BY <1>3, <2>2, <2>3, <2>4 DEF ClockSet, Home!ClockMatchesLinks
<1>. QED  BY <1>2, <1>3

LEMMA ClockStartsAnew ==
  ASSUME NEW c, c = config', NEW r, Home!Regrace(c, status', r, FALSE, "none")
  PROVE  ClockSet
<1>1. CASE Home!Enabled(c) = {} \/ Home!AnyOnline(c, status')
  <2>1. elapsed' = FALSE /\ grace' = "none"
    BY <1>1, Zenon DEF Home!Regrace
  <2>. QED  BY <1>1, <2>1 DEF ClockSet, Home!ClockMatchesLinks, Home!Windows
<1>2. CASE ~(Home!Enabled(c) = {} \/ Home!AnyOnline(c, status'))
  <2>1. elapsed' = FALSE /\ grace' \in {"short", "long"}
    BY <1>2 DEF Home!Regrace
  <2>. QED  BY <1>2, <2>1 DEF ClockSet, Home!ClockMatchesLinks, Home!Windows
<1>. QED  BY <1>1, <1>2

\* Rows and filter after the aggregator's change.
RowsSet == homeListed' # {} => filter' \subseteq Home!FoldersOf(homeListed')

LEMMA ListPrunes ==
  ASSUME HomeInv, NEW ms, Home!List(ms)
  PROVE  RowsSet /\ homeListed' = ms /\ filter' \subseteq {d1, d2}
<1>1. filter \subseteq {d1, d2}
  BY DEF HomeInv, Home!TypeOK
<1>. QED  BY <1>1 DEF RowsSet, Home!List, Home!Pruned

\* A change to the settings.
LEMMA SettingsKeep ==
  ASSUME HomeInv, NEW c \in [Machines -> {"absent", "off", "on"}], Home!SetMachines(c)
  PROVE  HomeInv'
<1>1. /\ config' = c /\ Home!List(homeListed \cap Home!Enabled(c))
      /\ status' = [m \in Machines |-> IF c[m] = "on" THEN "connecting" ELSE status[m]]
      /\ \/ Home!Regrace(c, status', reached, elapsed, grace)
         \/ Home!Regrace(c, status', reached, FALSE, "none")
      /\ UNCHANGED <<reached, populated, refocuses>>
  BY DEF Home!SetMachines, Home!Restarted
<1>2. ClockSet
  BY <1>1, ClockGoesOn, ClockStartsAnew
<1>3. /\ RowsSet /\ homeListed' = homeListed \cap Home!Enabled(c)
      /\ filter' \subseteq {d1, d2}
  BY <1>1, ListPrunes
<1>4. Home!TypeOK'
  BY <1>1, <1>2, <1>3 DEF HomeInv, Home!TypeOK, ClockSet
<1>5. Home!NoOrphanRows'
  BY <1>1, <1>3 DEF Home!NoOrphanRows, Home!Enabled
<1>. QED  BY <1>2, <1>3, <1>4, <1>5 DEF HomeInv, ClockSet, RowsSet

\* A link's status.
LEMMA StatusKeeps ==
  ASSUME HomeInv, NEW m \in Machines, NEW s \in {"connecting", "online", "offline"},
         Home!SetStatus(m, s)
  PROVE  HomeInv'
<1>. DEFINE r == IF s = "online" THEN reached \cup {m} ELSE reached
<1>1. /\ status' = [status EXCEPT ![m] = s] /\ reached' = r
      /\ Home!Regrace(config, status', r, elapsed, grace)
      /\ UNCHANGED <<config, populated, refocuses>>
      /\ IF s = "offline" THEN Home!List(homeListed \ {m}) ELSE UNCHANGED <<homeListed, filter>>
  BY DEF Home!SetStatus
<1>2. ClockSet
  BY <1>1, ClockGoesOn
<1>3. /\ RowsSet /\ filter' \subseteq {d1, d2}
      /\ homeListed' = IF s = "offline" THEN homeListed \ {m} ELSE homeListed
  BY <1>1, ListPrunes DEF RowsSet, HomeInv, Home!TypeOK
<1>4. Home!TypeOK'
  BY <1>1, <1>2, <1>3 DEF HomeInv, Home!TypeOK, ClockSet
<1>5. Home!NoOrphanRows'
  BY <1>1, <1>3 DEF HomeInv, Home!TypeOK, Home!NoOrphanRows
<1>. QED  BY <1>2, <1>3, <1>4, <1>5 DEF HomeInv, ClockSet, RowsSet

\* The rest of the screen's life.
LEMMA ScreenKeeps ==
  ASSUME HomeConstants, HomeInv,
         Home!GraceExpires \/ Home!ReconnectAll \/ Home!Reload
  PROVE  HomeInv'
<1>1. CASE Home!GraceExpires
  BY <1>1 DEF Home!GraceExpires, HomeInv, Home!TypeOK, Home!ClockMatchesLinks,
     Home!NoOrphanRows, Home!Windows, Home!FoldersOf, Home!Enabled, Home!AnyOnline
<1>2. CASE Home!ReconnectAll
  <2>1. ClockSet
    BY <1>2, ClockStartsAnew DEF Home!ReconnectAll
  <2>2. Home!TypeOK'
    BY <1>2, <2>1 DEF HomeConstants, HomeInv, Home!TypeOK, ClockSet, Home!ReconnectAll
  <2>3. Home!NoOrphanRows'
    BY <1>2 DEF HomeInv, Home!TypeOK, Home!NoOrphanRows, Home!ReconnectAll
  <2>. QED  BY <1>2, <2>1, <2>2, <2>3 DEF HomeInv, ClockSet, Home!ReconnectAll
<1>3. CASE Home!Reload
  <2>1. ClockSet
    <3>1. Home!Regrace(config, status', {}, FALSE, "none") /\ config' = config
      BY <1>3 DEF Home!Reload
    <3>. QED  BY <3>1, ClockStartsAnew
  <2>2. Home!TypeOK'
    BY <1>3, <2>1 DEF HomeConstants, HomeInv, Home!TypeOK, ClockSet, Home!Reload
  <2>. QED  BY <1>3, <2>1, <2>2 DEF HomeInv, ClockSet, Home!Reload, Home!NoOrphanRows
<1>. QED  BY <1>1, <1>2, <1>3

LEMMA FilterKeeps ==
  ASSUME HomeInv, NEW f \in {d1, d2}, Home!ToggleFolder(f)
  PROVE  HomeInv'
BY DEF Home!ToggleFolder, HomeInv, Home!TypeOK, Home!ClockMatchesLinks,
   Home!NoOrphanRows, Home!FoldersOf, Home!Enabled, Home!AnyOnline

\* An answer to `list`, and an agent of its own accord.
LEMMA AnswerKeeps ==
  ASSUME HomeInv, NEW m \in Machines, Home!ListArrives(m) \/ Home!AgentChanges(m)
  PROVE  HomeInv'
<1>1. CASE Home!ListArrives(m)
  <2>1. /\ RowsSet /\ filter' \subseteq {d1, d2}
        /\ homeListed' = IF m \in populated THEN homeListed \cup {m} ELSE homeListed \ {m}
    BY <1>1, ListPrunes DEF Home!ListArrives
  <2>2. /\ UNCHANGED <<config, status, reached, elapsed, grace, populated, refocuses>>
        /\ config[m] = "on" /\ status[m] = "online"
    BY <1>1 DEF Home!ListArrives, Home!Enabled
  <2>3. Home!TypeOK' /\ Home!NoOrphanRows'
    BY <2>1, <2>2 DEF HomeInv, Home!TypeOK, Home!NoOrphanRows
  <2>. QED  BY <2>1, <2>2, <2>3 DEF HomeInv, RowsSet, Home!ClockMatchesLinks, Home!Enabled,
            Home!AnyOnline
<1>2. CASE Home!AgentChanges(m)
  BY <1>2 DEF Home!AgentChanges, HomeInv, Home!TypeOK, Home!ClockMatchesLinks,
     Home!NoOrphanRows, Home!FoldersOf, Home!Enabled, Home!AnyOnline
<1>. QED  BY <1>1, <1>2

\* What a machine's row in the settings, or its link, does.
Changes(m, c) ==
  /\ c \in [Machines -> {"absent", "off", "on"}] /\ Home!SetMachines(c)
  /\ \/ c = [config EXCEPT ![m] = "on"] \/ c = config
     \/ c = [config EXCEPT ![m] = "absent"]
     \/ c = [config EXCEPT ![m] = IF @ = "on" THEN "off" ELSE "on"]
Turns(m, s) ==
  /\ s \in {"connecting", "online", "offline"} /\ Home!SetStatus(m, s)
  /\ s = "online" => status[m] = "connecting"

LEMMA MachineActions ==
  ASSUME HomeInv, NEW m \in Machines,
         \/ Home!AddMachine(m) \/ Home!UpdateMachine(m) \/ Home!RemoveMachine(m)
         \/ Home!ToggleMachine(m) \/ Home!Retry(m) \/ Home!Online(m) \/ Home!Drop(m)
         \/ Home!ReconnectMachine(m)
  PROVE  (\E c : Changes(m, c)) \/ (\E s : Turns(m, s))
<1>. config \in [Machines -> {"absent", "off", "on"}]
  BY DEF HomeInv, Home!TypeOK
<1>1. CASE Home!AddMachine(m)
  <2>. DEFINE c == [config EXCEPT ![m] = "on"]
  <2>1. Changes(m, c)
    BY <1>1 DEF Home!AddMachine, Changes
  <2>. QED  BY <2>1
<1>2. CASE Home!UpdateMachine(m)
  <2>1. Changes(m, config)
    BY <1>2 DEF Home!UpdateMachine, Changes
  <2>. QED  BY <2>1
<1>3. CASE Home!RemoveMachine(m)
  <2>. DEFINE c == [config EXCEPT ![m] = "absent"]
  <2>1. Changes(m, c)
    BY <1>3 DEF Home!RemoveMachine, Changes
  <2>. QED  BY <2>1
<1>4. CASE Home!ToggleMachine(m)
  <2>. DEFINE c == [config EXCEPT ![m] = IF @ = "on" THEN "off" ELSE "on"]
  <2>1. Changes(m, c)
    BY <1>4 DEF Home!ToggleMachine, Changes
  <2>. QED  BY <2>1
<1>5. CASE Home!Retry(m) \/ Home!ReconnectMachine(m)
  <2>1. Turns(m, "connecting")
    BY <1>5 DEF Home!Retry, Home!ReconnectMachine, Turns
  <2>. QED  BY <2>1
<1>6. CASE Home!Online(m)
  <2>1. Turns(m, "online")
    BY <1>6 DEF Home!Online, Turns
  <2>. QED  BY <2>1
<1>7. CASE Home!Drop(m)
  <2>1. Turns(m, "offline")
    BY <1>7 DEF Home!Drop, Turns
  <2>. QED  BY <2>1
<1>. QED  BY <1>1, <1>2, <1>3, <1>4, <1>5, <1>6, <1>7

\* What a step of a link or of the settings may be, on the way to a theorem.
LEMMA HomeCases ==
  ASSUME HomeInv, Home!Next
  PROVE  \/ Home!GraceExpires \/ Home!ReconnectAll \/ Home!Reload
         \/ \E f \in {d1, d2} : Home!ToggleFolder(f)
         \/ \E m \in Machines : Home!ListArrives(m) \/ Home!AgentChanges(m)
         \/ \E m \in Machines : \E c : Changes(m, c)
         \/ \E m \in Machines : \E s : Turns(m, s)
BY MachineActions DEF Home!Next

LEMMA HomeStep == HomeConstants /\ HomeInv /\ [Home!Next]_(Home!vars) => HomeInv'
<1>. SUFFICES ASSUME HomeConstants, HomeInv, [Home!Next]_(Home!vars) PROVE HomeInv'
  OBVIOUS
<1>1. CASE UNCHANGED Home!vars
  BY <1>1 DEF Home!vars, HomeInv, Home!TypeOK, Home!ClockMatchesLinks,
     Home!NoOrphanRows, Home!FoldersOf, Home!Enabled, Home!AnyOnline
<1>2. ASSUME NEW m \in Machines, NEW c, Changes(m, c) PROVE HomeInv'
  BY <1>2, SettingsKeep DEF Changes
<1>3. ASSUME NEW m \in Machines, NEW s, Turns(m, s) PROVE HomeInv'
  BY <1>3, StatusKeeps DEF Turns
<1>. QED  BY <1>1, <1>2, <1>3, HomeCases, ScreenKeeps, FilterKeeps, AnswerKeeps

\* The screen changes for a reason: with the links only retrying, what it is made of stays.
LEMMA FlickerFree ==
  ASSUME HomeConstants, HomeInv, Home!Next
  PROVE  Home!NoFlicker
<1>. SUFFICES ASSUME NEW m \in Machines,
                     {status[m], status'[m]} = {"connecting", "offline"},
                     \A n \in Machines \ {m} : status'[n] = status[n],
                     config' = config, m \notin homeListed, refocuses' = refocuses
              PROVE  Home!HomeView' = Home!HomeView
  BY DEF Home!NoFlicker
<1>1. /\ Home!AnyOnline(config, status)' <=> Home!AnyOnline(config, status)
      /\ Home!Enabled(config)' = Home!Enabled(config)
  BY DEF Home!AnyOnline, Home!Enabled
<1>. DEFINE OnlyTheClock == /\ homeListed' = homeListed /\ reached' = reached
                            /\ Home!Regrace(config, status', reached, elapsed, grace)
<1>2. OnlyTheClock
  <2>1. ASSUME NEW n \in Machines, NEW c, Changes(n, c)
        PROVE  OnlyTheClock
    <3>1. c = config
      BY <2>1 DEF Changes, Home!SetMachines
    <3>2. homeListed \cap Home!Enabled(c) = homeListed
      BY <3>1 DEF HomeInv, Home!TypeOK, Home!NoOrphanRows, Home!Enabled
    <3>3. /\ status' = [k \in Machines |-> IF c[k] = "on" THEN "connecting" ELSE status[k]]
          /\ Home!Restarted(c) /\ homeListed' = homeListed /\ reached' = reached
      BY <2>1, <3>2 DEF Changes, Home!SetMachines, Home!List
    <3>4. \A k \in Home!Enabled(c) : status[k] # "online"
      <4>1. \A k \in Home!Enabled(c) : k \in Machines /\ status'[k] = "connecting"
        BY <3>3 DEF Home!Enabled
      <4>2. status[m] # "online"
        OBVIOUS
      <4>. QED  BY <4>1, <4>2
    <3>. QED  BY <3>1, <3>3, <3>4 DEF Home!Restarted
  <2>2. ASSUME NEW n \in Machines, NEW s, Turns(n, s)
        PROVE  OnlyTheClock
    <3>1. status' = [status EXCEPT ![n] = s]
      BY <2>2 DEF Turns, Home!SetStatus
    <3>2. n = m /\ s # "online"
      BY <2>2, <3>1 DEF Turns, HomeInv, Home!TypeOK
    <3>3. homeListed \ {m} = homeListed
      OBVIOUS
    <3>. QED  BY <2>2, <3>2, <3>3 DEF Turns, Home!SetStatus, Home!List
  <2>3. ~(\/ Home!GraceExpires \/ Home!ReconnectAll \/ Home!Reload
          \/ (\E f \in {d1, d2} : Home!ToggleFolder(f))
          \/ (\E n \in Machines : Home!ListArrives(n) \/ Home!AgentChanges(n)))
    <3>1. status'[m] # status[m]
      OBVIOUS
    <3>2. refocuses \in Nat
      BY DEF HomeConstants, HomeInv, Home!TypeOK
    <3>3. ~ Home!GraceExpires
      BY <3>1 DEF Home!GraceExpires
    <3>4. ~ Home!ReconnectAll /\ ~ Home!Reload
      <4>1. refocuses' # refocuses + 1
        BY <3>2
      <4>. QED  BY <4>1, Zenon DEF Home!ReconnectAll, Home!Reload
    <3>5. \A f : ~ Home!ToggleFolder(f)
      BY <3>1, Zenon DEF Home!ToggleFolder
    <3>6. \A n : ~ Home!ListArrives(n) /\ ~ Home!AgentChanges(n)
      BY <3>1, Zenon DEF Home!ListArrives, Home!AgentChanges
    <3>. QED  BY <3>3, <3>4, <3>5, <3>6
  <2>. QED  BY <2>1, <2>2, <2>3, HomeCases
<1>3. CASE Home!Enabled(config) = {} \/ Home!AnyOnline(config, status)
  BY <1>1, <1>2, <1>3 DEF Home!HomeView
<1>4. CASE ~(Home!Enabled(config) = {} \/ Home!AnyOnline(config, status))
  <2>1. elapsed' = elapsed
    <3>1. ~(Home!Enabled(config) = {} \/ Home!AnyOnline(config, status'))
      BY <1>1, <1>4
    <3>. QED  BY <1>2, <3>1, Zenon DEF Home!Regrace
  <2>. QED  BY <1>1, <1>2, <1>4, <2>1, Zenon DEF Home!HomeView
<1>. QED  BY <1>3, <1>4

LEMMA HomeInit == HomeConstants /\ Home!Init => HomeInv
<1>. SUFFICES ASSUME HomeConstants, Home!Init PROVE HomeInv
  OBVIOUS
<1>1. elapsed = FALSE /\ grace = "none" /\ homeListed = {} /\ elapsed \in BOOLEAN
  BY Zenon DEF Home!Init
<1>2. Home!TypeOK
  BY <1>1 DEF HomeConstants, Home!Init, Home!TypeOK, Home!Windows
<1>3. Home!Enabled(config) = {}
  BY DEF Home!Init, Home!Enabled
<1>. QED  BY <1>1, <1>2, <1>3 DEF HomeInv, Home!ClockMatchesLinks, Home!NoOrphanRows

LEMMA RowsShown == HomeInv => Home!FilterShowsSomething
<1>. SUFFICES ASSUME HomeInv, homeListed # {} PROVE Home!Visible # {}
  BY DEF Home!FilterShowsSomething
<1>1. filter \subseteq Home!FoldersOf(homeListed)
  BY DEF HomeInv
<1>2. CASE filter = {}
  BY <1>2 DEF Home!Visible
<1>3. CASE filter # {}
  <2>1. PICK f \in filter : TRUE
    BY <1>3
  <2>2. PICK m \in homeListed : f = IF m = m1 THEN d1 ELSE d2
    BY <1>1, <2>1 DEF Home!FoldersOf, HomeInv, Home!TypeOK
  <2>3. m \in Machines
    BY DEF HomeInv, Home!TypeOK
  <2>4. m \in Home!Visible
    BY <1>3, <2>2, <2>3 DEF Home!Visible
  <2>. QED  BY <2>4
<1>. QED  BY <1>2, <1>3

\* The grace clock runs exactly while machines are wanted and none is online, no row
\* outlives its link, the filter never empties the list, and retrying links do not make
\* the screen flicker, for all the machines there may be (store.svelte.ts, home-view.ts).
THEOREM HomeHoldsAlways == HomeConstants => (Spec => HomeHolds)
<1>. SUFFICES ASSUME HomeConstants PROVE Spec => HomeHolds
  OBVIOUS
<1>. DEFINE Inv == part = "home" => HomeInv
<1>1. Init => Inv
  BY HomeInit DEF Init
<1>2. part = "home" /\ [Next]_vars => part' = part /\ [Home!Next]_(Home!vars)
  BY DEF Next, vars, home, Home!vars
<1>3. Inv /\ [Next]_vars => Inv'
  <2>1. CASE part = "home"
    BY <1>2, <2>1, HomeStep
  <2>2. CASE part # "home"
    BY <2>2 DEF Next, vars
  <2>. QED  BY <2>1, <2>2
<1>4. HomeInv => /\ Home!TypeOK /\ Home!ClockMatchesLinks /\ Home!NoOrphanRows
                 /\ Home!FilterShowsSomething
  BY RowsShown DEF HomeInv
<1>5. Inv /\ [Next]_vars =>
        [part = "home" => /\ Home!TypeOK' /\ Home!ClockMatchesLinks' /\ Home!NoOrphanRows'
                          /\ Home!FilterShowsSomething' /\ Home!NoFlicker]_vars
  <2>. SUFFICES ASSUME HomeInv, [Next]_vars, part = "home", ~ UNCHANGED vars
                PROVE  /\ Home!TypeOK' /\ Home!ClockMatchesLinks' /\ Home!NoOrphanRows'
                       /\ Home!FilterShowsSomething' /\ Home!NoFlicker
    OBVIOUS
  <2>1. HomeInv' /\ (Home!Next \/ UNCHANGED Home!vars)
    BY <1>2, HomeStep
  <2>2. UNCHANGED Home!vars => Home!NoFlicker
    BY DEF Home!vars, Home!NoFlicker, Home!HomeView, Home!Enabled, Home!AnyOnline
  <2>3. (HomeInv => /\ Home!TypeOK /\ Home!ClockMatchesLinks /\ Home!NoOrphanRows
                    /\ Home!FilterShowsSomething)'
    BY <1>4, PTL
  <2>. QED  BY <2>1, <2>2, <2>3, FlickerFree
<1>. QED  BY <1>1, <1>3, <1>5, PTL DEF Spec, HomeHolds

-----------------------------------------------------------------------------
(* The created workspace that opens *)

Messages == [type : {"workspaces", "workspaceUpdated", "closed", "error"},
             ids : SUBSET Twins]

CreateTypes ==
  /\ maker \in [Twins -> {"nobody", "old", "mine", "other"}]
  /\ alive \subseteq {w \in Twins : maker[w] # "nobody"} /\ known \subseteq Twins
  /\ link \in {"online", "offline"} /\ up \in Seq(Create!Requests)
  /\ down \in Seq(Messages)
  /\ page \in Create!Views /\ active \in Twins \cup {None}
  /\ pending = None \/ pending.existing \subseteq Twins
  /\ listed \in BOOLEAN /\ picker \in BOOLEAN /\ browsing \in BOOLEAN /\ unseen \in BOOLEAN

\* The i-th message under way brings the workspace to the list.
Brings(i, w) == down[i].type \in {"workspaces", "workspaceUpdated"} /\ w \in down[i].ids
\* The list may still come to show it.
Coming(w) == w \in alive \/ \E i \in 1..Len(down) : Brings(i, w)

\* A workspace that was there all along is on the list once the first list is in, as
\* long as it lives or a message brings it, and a create knows it; a list under way has
\* it as well, and a message that it closed is the last of it.
OldIsKnown(w) ==
  /\ listed /\ Coming(w) => w \in known
  /\ pending # None /\ pending.listed /\ (Coming(w) \/ w \in known)
       => w \in pending.existing
  /\ \A i \in 1..Len(down) :
       /\ down[i].type = "workspaces" /\ w \in alive => w \in down[i].ids
       /\ down[i].type = "closed" /\ w \in down[i].ids => w \notin alive
  /\ \A i, j \in 1..Len(down) : i < j /\ Brings(j, w) =>
       /\ down[i].type = "workspaces" => w \in down[i].ids
       /\ down[i].type = "closed" => w \notin down[i].ids

CreateInv ==
  /\ CreateTypes
  /\ browsing => picker
  /\ \A w \in Twins : maker[w] = "old" => OldIsKnown(w)

\* A message to the client goes out, or there is no link for it.
Told(m) == down' = down \/ down' = Append(down, m)

\* A message to the client about what there is.
LEMMA ReplyKeeps ==
  ASSUME CreateInv, NEW m \in Messages, Told(m),
         NEW w \in Twins, maker[w] = "old",
         alive' \ alive \subseteq {i \in Twins : maker[i] # "old"},
         m.type \in {"workspaces", "workspaceUpdated"} /\ w \in m.ids => w \in alive,
         m.type = "workspaces" /\ w \in alive => w \in m.ids,
         m.type = "closed" /\ w \in m.ids => w \notin alive',
         UNCHANGED <<known, listed, pending>>
  PROVE  OldIsKnown(w)'
<1>1. OldIsKnown(w) /\ down \in Seq(Messages) /\ (w \in alive' => w \in alive)
  BY DEF CreateInv, CreateTypes
<1>2. CASE down' = down
  BY <1>1, <1>2 DEF OldIsKnown, Coming, Brings
<1>3. CASE down' = Append(down, m)
  <2>1. /\ Len(down) \in Nat /\ Len(down') = Len(down) + 1 /\ down'[Len(down')] = m
        /\ \A i \in 1..Len(down) : down'[i] = down[i]
    BY <1>1, <1>3
  <2>2. \A i \in 1..Len(down') : Brings(i, w)' =>
           w \in alive \/ (i \in 1..Len(down) /\ Brings(i, w))
    BY <2>1 DEF Brings
  <2>3. Coming(w)' => Coming(w)
    BY <1>1, <2>2 DEF Coming
  <2>4. ASSUME NEW i \in 1..Len(down')
        PROVE  /\ down'[i].type = "workspaces" /\ w \in alive' => w \in down'[i].ids
               /\ down'[i].type = "closed" /\ w \in down'[i].ids => w \notin alive'
    <3>1. CASE i \in 1..Len(down)
      BY <1>1, <2>1, <3>1 DEF OldIsKnown
    <3>2. CASE i = Len(down')
      BY <1>1, <2>1, <3>2
    <3>. QED  BY <2>1, <3>1, <3>2
  <2>5. ASSUME NEW i \in 1..Len(down'), NEW j \in 1..Len(down'), i < j, Brings(j, w)'
        PROVE  /\ down'[i].type = "workspaces" => w \in down'[i].ids
               /\ down'[i].type = "closed" => w \notin down'[i].ids
    <3>1. i \in 1..Len(down) /\ down'[i] = down[i]
      BY <2>1, <2>5
    <3>2. w \in alive \/ (j \in 1..Len(down) /\ Brings(j, w))
      BY <2>2, <2>5
    <3>. QED  BY <1>1, <2>5, <3>1, <3>2 DEF OldIsKnown
  <2>. QED  BY <1>1, <2>3, <2>4, <2>5 DEF OldIsKnown
<1>. QED  BY <1>2, <1>3 DEF Told

\* The next message is taken from the queue.
LEMMA QueueMoves ==
  ASSUME CreateTypes, down # <<>>, down' = Tail(down)
  PROVE  /\ Head(down) = down[1] /\ Head(down) \in Messages
         /\ Len(down) \in Nat /\ Len(down') = Len(down) - 1
         /\ down' \in Seq(Messages)
         /\ \A i \in 1..Len(down') : down'[i] = down[i + 1]
BY DEF CreateTypes

LEMMA TakenKeeps ==
  ASSUME CreateInv, down # <<>>, down' = Tail(down), alive' = alive,
         NEW w \in Twins, maker[w] = "old",
         pending' = pending \/ pending' = None,
         \/ UNCHANGED <<known, listed>>
         \/ /\ Head(down).type = "workspaces"
            /\ known' = Head(down).ids /\ listed' = TRUE
         \/ /\ Head(down).type = "workspaceUpdated"
            /\ known' = known \cup Head(down).ids /\ listed' = listed
         \/ /\ Head(down).type = "closed"
            /\ known' = known \ Head(down).ids /\ listed' = listed
  PROVE  OldIsKnown(w)'
<1>1. /\ Head(down) = down[1] /\ Head(down) \in Messages
      /\ Len(down) \in Nat /\ Len(down') = Len(down) - 1
      /\ \A i \in 1..Len(down') : down'[i] = down[i + 1]
  BY QueueMoves DEF CreateInv
<1>2. OldIsKnown(w) /\ 1 \in 1..Len(down)
  BY <1>1 DEF CreateInv, CreateTypes
<1>3. \A i \in 1..Len(down') : i + 1 \in 1..Len(down) /\ (Brings(i, w)' <=> Brings(i + 1, w))
  BY <1>1 DEF Brings
<1>4. Coming(w)' => Coming(w)
  BY <1>3 DEF Coming
<1>5. w \in known' => Coming(w) \/ w \in known
  BY <1>1, <1>2 DEF Coming, Brings
<1>6. ASSUME Coming(w)', listed' PROVE w \in known'
  <2>1. CASE UNCHANGED <<known, listed>>
    BY <1>2, <1>4, <1>6, <2>1 DEF OldIsKnown
  <2>2. CASE Head(down).type = "workspaces" /\ known' = Head(down).ids
    <3>1. CASE w \in alive
      BY <1>1, <1>2, <2>2, <3>1 DEF OldIsKnown
    <3>2. CASE w \notin alive
      <4>1. PICK i \in 1..Len(down') : Brings(i + 1, w)
        BY <1>3, <1>6, <3>2 DEF Coming
      <4>2. i + 1 \in 1..Len(down) /\ 1 < i + 1
        BY <1>1, <4>1
      <4>. QED  BY <1>1, <1>2, <2>2, <4>1, <4>2 DEF OldIsKnown
    <3>. QED  BY <3>1, <3>2
  <2>3. CASE known' = known \cup Head(down).ids /\ listed' = listed
    BY <1>2, <1>4, <1>6, <2>3 DEF OldIsKnown
  <2>4. CASE Head(down).type = "closed" /\ known' = known \ Head(down).ids /\ listed' = listed
    <3>1. w \in known
      BY <1>2, <1>4, <1>6, <2>4 DEF OldIsKnown
    <3>2. CASE w \in alive
      BY <1>1, <1>2, <2>4, <3>1, <3>2 DEF OldIsKnown
    <3>3. CASE w \notin alive
      <4>1. PICK i \in 1..Len(down') : Brings(i + 1, w)
        BY <1>3, <1>6, <3>3 DEF Coming
      <4>2. i + 1 \in 1..Len(down) /\ 1 < i + 1
        BY <1>1, <4>1
      <4>3. w \notin Head(down).ids
        BY <1>1, <1>2, <2>4, <4>1, <4>2 DEF OldIsKnown
      <4>. QED  BY <2>4, <3>1, <4>3
    <3>. QED  BY <3>2, <3>3
  <2>. QED  BY <2>1, <2>2, <2>3, <2>4
<1>7. ASSUME pending' # None, pending'.listed, Coming(w)' \/ w \in known'
      PROVE  w \in pending'.existing
  BY <1>2, <1>4, <1>5, <1>7 DEF OldIsKnown
<1>8. ASSUME NEW i \in 1..Len(down')
      PROVE  /\ down'[i].type = "workspaces" /\ w \in alive' => w \in down'[i].ids
             /\ down'[i].type = "closed" /\ w \in down'[i].ids => w \notin alive'
  BY <1>1, <1>2, <1>3 DEF OldIsKnown
<1>9. ASSUME NEW i \in 1..Len(down'), NEW j \in 1..Len(down'), i < j, Brings(j, w)'
      PROVE  /\ down'[i].type = "workspaces" => w \in down'[i].ids
             /\ down'[i].type = "closed" => w \notin down'[i].ids
  <2>1. i + 1 < j + 1 /\ Brings(j + 1, w) /\ {i + 1, j + 1} \subseteq 1..Len(down)
    BY <1>1, <1>3, <1>9
  <2>. QED  BY <1>1, <1>2, <2>1 DEF OldIsKnown
<1>. QED  BY <1>6, <1>7, <1>8, <1>9 DEF OldIsKnown

\* What the user does on the page.
LEMMA PageKeeps ==
  ASSUME CreateInv,
         \/ Create!GoCreate \/ Create!CancelCreate \/ Create!Back \/ Create!OpenPicker
         \/ Create!LeavePicker \/ Create!SetStatus
         \/ \E w \in Twins : Create!Open(w)
  PROVE  CreateInv' /\ pending' = pending /\ unseen' = unseen
<1>1. /\ UNCHANGED <<maker, alive, link, down, known, listed, pending, unseen>>
      /\ up' = up \/ up' = Append(up, "setStatus")
      /\ page' \in Create!Views /\ active' \in Twins \cup {None}
  BY DEF CreateInv, CreateTypes, Create!Views, Create!Show, Create!Send,
     Create!agentVars, Create!wire, Create!form, Create!GoCreate, Create!CancelCreate,
     Create!Back, Create!OpenPicker, Create!LeavePicker, Create!SetStatus, Create!Open
<1>2. \/ browsing' = browsing /\ picker' = picker
      \/ browsing' = FALSE /\ picker' = picker
      \/ browsing' = FALSE /\ picker' = FALSE
      \/ browsing' = TRUE /\ picker' = TRUE
  BY Zenon DEF Create!Show, Create!wire, Create!form, Create!GoCreate, Create!CancelCreate,
     Create!Back, Create!OpenPicker, Create!LeavePicker, Create!SetStatus, Create!Open
<1>3. browsing \in BOOLEAN /\ picker \in BOOLEAN /\ (browsing => picker)
  BY DEF CreateInv, CreateTypes
<1>4. browsing' \in BOOLEAN /\ picker' \in BOOLEAN /\ (browsing' => picker')
  <2>1. CASE browsing' = browsing /\ picker' = picker
    BY <1>3, <2>1, Zenon
  <2>2. CASE browsing' = FALSE /\ picker' = picker
    BY <1>3, <2>2, Zenon
  <2>3. CASE browsing' = FALSE /\ picker' = FALSE
    BY <2>3, Zenon
  <2>4. CASE browsing' = TRUE /\ picker' = TRUE
    BY <2>4, Zenon
  <2>. QED  BY <1>2, <2>1, <2>2, <2>3, <2>4
<1>5. up' \in Seq(Create!Requests)
  BY <1>1 DEF CreateInv, CreateTypes, Create!Requests
<1>6. CreateTypes'
  BY <1>1, <1>4, <1>5 DEF CreateInv, CreateTypes
<1>7. \A w \in Twins : maker[w] = "old" => OldIsKnown(w)'
  BY <1>1 DEF CreateInv, OldIsKnown, Coming, Brings
<1>. QED  BY <1>1, <1>4, <1>6, <1>7 DEF CreateInv

\* The create, and the loss and the return of the link.
LEMMA RequestKeeps ==
  ASSUME CreateInv, NEW c \in BOOLEAN, Create!RequestCreate(c)
  PROVE  CreateInv'
<1>. DEFINE p == [existing |-> known, canonical |-> c, listed |-> listed]
<1>1. /\ UNCHANGED <<maker, alive, link, down, known, listed, page, active, picker,
                     browsing, unseen>>
      /\ pending' = p /\ (up' = up \/ up' = Append(up, "create"))
  BY DEF Create!RequestCreate, Create!Send, Create!agentVars
<1>2. p.existing = known /\ p.listed = listed
  OBVIOUS
<1>. HIDE DEF p
<1>3. up' \in Seq(Create!Requests)
  BY <1>1 DEF CreateInv, CreateTypes, Create!Requests
<1>4. pending' = None \/ pending'.existing \subseteq Twins
  BY <1>1, <1>2 DEF CreateInv, CreateTypes
<1>5. CreateTypes'
  BY <1>1, <1>3, <1>4 DEF CreateInv, CreateTypes
<1>6. ASSUME NEW w \in Twins, maker[w] = "old" PROVE OldIsKnown(w)'
  <2>1. OldIsKnown(w)
    BY <1>6 DEF CreateInv
  <2>2. pending'.listed => listed
    BY <1>1, <1>2, Zenon
  <2>. QED  BY <1>1, <1>2, <2>1, <2>2 DEF OldIsKnown, Coming, Brings
<1>. QED  BY <1>1, <1>5, <1>6 DEF CreateInv

LEMMA LinkKeeps ==
  ASSUME CreateInv, Create!LinkDrops \/ Create!LinkReturns
  PROVE  /\ CreateInv' /\ unseen' = unseen
         /\ pending' = pending
<1>1. CASE Create!LinkReturns
  <2>1. /\ UNCHANGED <<maker, alive, down, known, listed, page, active, pending, picker,
                       browsing, unseen>>
        /\ up' = <<"list">> /\ link' = "online"
    BY <1>1 DEF Create!LinkReturns, Create!agentVars, Create!form
  <2>2. up' \in Seq(Create!Requests)
    BY <2>1 DEF Create!Requests
  <2>3. CreateTypes'
    BY <2>1, <2>2 DEF CreateInv, CreateTypes
  <2>. QED  BY <2>1, <2>3 DEF CreateInv, OldIsKnown, Coming, Brings
<1>2. CASE Create!LinkDrops
  <2>1. Create!Created({}) = {}
    BY DEF Create!Created
  <2>2. /\ UNCHANGED <<maker, alive, page, active, pending, picker, browsing, unseen>>
        /\ up' = <<>> /\ down' = <<>> /\ listed' = FALSE /\ known' = {} /\ link' = "offline"
    BY <1>2, <2>1 DEF Create!LinkDrops, Create!Settle, Create!agentVars
  <2>3. /\ listed' \in BOOLEAN
        /\ up' \in Seq(Create!Requests) /\ down' \in Seq(Messages)
    <3>1. listed' \in BOOLEAN
      BY <2>2, Zenon
    <3>. QED  BY <2>2, <3>1
  <2>4. CreateTypes'
    BY <2>2, <2>3 DEF CreateInv, CreateTypes
  <2>5. ASSUME NEW w \in Twins, maker[w] = "old" PROVE OldIsKnown(w)'
    <3>1. OldIsKnown(w)
      BY <2>5 DEF CreateInv
    <3>2. Len(down') = 0
      BY <2>2
    <3>3. Coming(w)' <=> w \in alive
      BY <2>2, <3>2 DEF Coming
    <3>. QED  BY <2>2, <3>1, <3>2, <3>3 DEF OldIsKnown, Coming
  <2>. QED  BY <2>2, <2>4, <2>5 DEF CreateInv
<1>. QED  BY <1>1, <1>2

\* The agent answers, or tells of what others do.
LEMMA AgentKeeps ==
  ASSUME CreateInv, NEW m \in Messages, Told(m),
         UNCHANGED <<link, known, listed, page, active, pending, picker, browsing, unseen>>,
         up' \in Seq(Create!Requests),
         maker' \in [Twins -> {"nobody", "old", "mine", "other"}],
         alive' \subseteq {w \in Twins : maker'[w] # "nobody"},
         \A w \in Twins : maker'[w] = "old" => maker[w] = "old" /\ w \notin alive' \ alive,
         \A w \in Twins : maker[w] = "old" =>
           /\ m.type \in {"workspaces", "workspaceUpdated"} /\ w \in m.ids => w \in alive
           /\ m.type = "workspaces" /\ w \in alive => w \in m.ids
           /\ m.type = "closed" /\ w \in m.ids => w \notin alive',
         \A w \in Twins : maker[w] = "old" => maker'[w] = "old"
  PROVE  CreateInv'
<1>1. down' \in Seq(Messages)
  <2>1. down \in Seq(Messages)
    BY DEF CreateInv, CreateTypes
  <2>2. Append(down, m) \in Seq(Messages)
    BY <2>1
  <2>. QED  BY <2>1, <2>2 DEF Told
<1>2. CreateTypes'
  BY <1>1 DEF CreateInv, CreateTypes
<1>3. alive' \ alive \subseteq {i \in Twins : maker[i] # "old"}
  OBVIOUS
<1>4. ASSUME NEW w \in Twins, maker'[w] = "old" PROVE OldIsKnown(w)'
  BY <1>3, <1>4, ReplyKeeps
<1>. QED  BY <1>2, <1>4 DEF CreateInv

\* The message that a created or a refused workspace makes.
Answered(m) ==
  /\ m \in Messages /\ Told(m)
  /\ \/ UNCHANGED <<maker, alive>> /\ m.ids = {} /\ m.type = "error"
     \/ \E w \in Twins : /\ maker[w] = "nobody"
                         /\ maker' \in {[maker EXCEPT ![w] = "mine"],
                                        [maker EXCEPT ![w] = "other"]}
                         /\ alive' = alive \cup {w} /\ m.ids \subseteq {w}
                         /\ m.type \in {"workspaceUpdated", "error"}
     \/ \E w \in alive : /\ UNCHANGED <<maker, alive>> /\ m.ids = {w}
                         /\ m.type = "workspaceUpdated"
     \/ \E w \in alive : /\ maker' = maker /\ alive' = alive \ {w} /\ m.ids = {w}
                         /\ m.type = "closed"
     \/ UNCHANGED <<maker, alive>> /\ m.ids = alive /\ m.type = "workspaces"

LEMMA MessageFields ==
  ASSUME NEW t, NEW ids
  PROVE  /\ Create!Message(t, ids).type = t /\ Create!Message(t, ids).ids = ids
         /\ t \in {"workspaces", "workspaceUpdated", "closed", "error"}
            /\ ids \subseteq Twins => Create!Message(t, ids) \in Messages
         /\ Create!Reply(Create!Message(t, ids)) => Told(Create!Message(t, ids))
<1>1. Create!Reply(Create!Message(t, ids)) => Told(Create!Message(t, ids))
  BY DEF Create!Reply, Told
<1>. QED  BY <1>1 DEF Create!Message, Messages

LEMMA AgentsAnswer ==
  ASSUME CreateInv,
         \/ Create!AgentLists \/ Create!AgentCreates \/ Create!AgentSetsStatus
         \/ \E w \in Twins : Create!OtherCreates(w) \/ Create!OtherCloses(w)
  PROVE  /\ UNCHANGED <<link, known, listed, page, active, pending, picker, browsing, unseen>>
         /\ up' \in Seq(Create!Requests) /\ \E m : Answered(m)
<1>. DEFINE Rest == UNCHANGED <<link, known, listed, page, active, pending, picker,
                                browsing, unseen>>
<1>1. CreateTypes
  BY DEF CreateInv
<1>2. up \in Seq(Create!Requests) /\ (up # <<>> => Tail(up) \in Seq(Create!Requests))
  BY <1>1 DEF CreateTypes
<1>3. Rest /\ up' \in Seq(Create!Requests)
  BY <1>2 DEF Create!AgentLists, Create!AgentCreates, Create!AgentSetsStatus,
     Create!OtherCreates, Create!OtherCloses, Create!client, Create!form
<1>4. Create!Message("error", {}) \in Messages
  BY MessageFields
<1>5. CASE Create!AgentLists
  <2>1. Answered(Create!Message("workspaces", alive))
    BY <1>1, <1>5, MessageFields DEF Answered, CreateTypes, Create!AgentLists,
       Create!agentVars
  <2>. QED  BY <1>3, <2>1
<1>6. CASE Create!AgentCreates
  <2>1. CASE UNCHANGED Create!agentVars /\ Create!Reply(Create!Message("error", {}))
    <3>1. Answered(Create!Message("error", {}))
      BY <1>4, <2>1, MessageFields DEF Answered, Create!agentVars
    <3>. QED  BY <1>3, <3>1
  <2>2. ASSUME NEW w \in Twins, maker[w] = "nobody", maker' = [maker EXCEPT ![w] = "mine"],
               alive' = alive \cup {w},
               NEW m \in {Create!Message("workspaceUpdated", {w}),
                          Create!Message("error", {})},
               Create!Reply(m)
        PROVE  Answered(m)
    <3>1. m \in Messages /\ m.ids \subseteq {w} /\ m.type \in {"workspaceUpdated", "error"}
      BY MessageFields
    <3>2. Told(m)
      BY <2>2, MessageFields
    <3>. QED  BY <2>2, <3>1, <3>2 DEF Answered
  <2>. QED  BY <1>3, <1>6, <2>1, <2>2 DEF Create!AgentCreates
<1>7. CASE Create!AgentSetsStatus
  <2>1. UNCHANGED <<maker, alive>>
    BY <1>7 DEF Create!AgentSetsStatus, Create!agentVars
  <2>2. CASE Create!Reply(Create!Message("error", {})) \/ UNCHANGED down
    <3>1. Told(Create!Message("error", {}))
      BY <2>2, MessageFields DEF Told
    <3>2. Answered(Create!Message("error", {}))
      BY <1>4, <2>1, <3>1, MessageFields DEF Answered
    <3>. QED  BY <1>3, <3>2
  <2>3. ASSUME NEW w \in alive, Create!Reply(Create!Message("workspaceUpdated", {w}))
        PROVE  Answered(Create!Message("workspaceUpdated", {w}))
    <3>1. w \in Twins
      BY <1>1 DEF CreateTypes
    <3>. QED  BY <2>1, <2>3, <3>1, MessageFields DEF Answered
  <2>. QED  BY <1>3, <1>7, <2>2, <2>3 DEF Create!AgentSetsStatus
<1>8. ASSUME NEW w \in Twins, Create!OtherCreates(w)
      PROVE  Answered(Create!Message("workspaceUpdated", {w}))
  <2>. DEFINE m == Create!Message("workspaceUpdated", {w})
  <2>1. m \in Messages /\ Told(m) /\ m.type = "workspaceUpdated" /\ m.ids = {w}
    BY <1>8, MessageFields DEF Create!OtherCreates
  <2>2. /\ maker[w] = "nobody" /\ maker' = [maker EXCEPT ![w] = "other"]
        /\ alive' = alive \cup {w}
    BY <1>8 DEF Create!OtherCreates
  <2>. HIDE DEF m
  <2>3. Answered(m)
    BY <2>1, <2>2 DEF Answered
  <2>. QED  BY <2>3 DEF m
<1>9. ASSUME NEW w \in Twins, Create!OtherCloses(w)
      PROVE  Answered(Create!Message("closed", {w}))
  BY <1>9, MessageFields DEF Answered, Create!OtherCloses
<1>. QED  BY <1>3, <1>5, <1>6, <1>7, <1>8, <1>9

LEMMA AnswersKeep ==
  ASSUME CreateInv, NEW m, Answered(m), up' \in Seq(Create!Requests),
         UNCHANGED <<link, known, listed, page, active, pending, picker, browsing, unseen>>
  PROVE  CreateInv'
<1>1. CreateTypes /\ m \in Messages /\ Told(m)
  BY DEF CreateInv, Answered
<1>2. /\ maker' \in [Twins -> {"nobody", "old", "mine", "other"}]
      /\ alive' \subseteq {w \in Twins : maker'[w] # "nobody"}
      /\ \A w \in Twins : maker'[w] = "old" => maker[w] = "old" /\ w \notin alive' \ alive
      /\ \A w \in Twins : maker[w] = "old" => maker'[w] = "old"
  BY <1>1 DEF CreateTypes, Answered
<1>3. \A w \in Twins : maker[w] = "old" =>
        /\ m.type \in {"workspaces", "workspaceUpdated"} /\ w \in m.ids => w \in alive
        /\ m.type = "workspaces" /\ w \in alive => w \in m.ids
        /\ m.type = "closed" /\ w \in m.ids => w \notin alive'
  BY <1>1 DEF CreateTypes, Answered
<1>. QED  BY <1>1, <1>2, <1>3, AgentKeeps

\* What the store makes of a change of the list.
LEMMA Settles ==
  ASSUME CreateTypes, browsing => picker, NEW seen \in SUBSET Twins, Create!Settle(seen)
  PROVE  /\ known' = seen /\ picker' = picker
         /\ page' \in Create!Views /\ active' \in Twins \cup {None}
         /\ browsing' \in BOOLEAN /\ (browsing' => picker')
         /\ \/ pending' = pending /\ active' = active
            \/ /\ pending # None /\ pending' = None
               /\ active' = active \/ active' \in seen \ pending.existing
<1>1. known' = seen /\ picker' = picker
  BY DEF Create!Settle
<1>2. browsing \in BOOLEAN
  BY DEF CreateTypes
<1>3. CASE UNCHANGED <<page, active, pending, browsing>>
  BY <1>1, <1>2, <1>3 DEF CreateTypes
<1>4. ASSUME NEW w \in Create!Created(seen), pending' = None,
             IF page \in {"list", "create"} THEN active' = w /\ Create!Show("terminal")
                                            ELSE UNCHANGED <<page, active, browsing>>
      PROVE  /\ page' \in Create!Views /\ active' \in Twins \cup {None}
             /\ browsing' \in BOOLEAN /\ (browsing' => picker')
             /\ pending # None /\ pending' = None
             /\ active' = active \/ active' \in seen \ pending.existing
  <2>1. pending # None /\ w \in seen \ pending.existing
    BY <1>4 DEF Create!Created
  <2>2. CASE page \in {"list", "create"}
    <3>1. active' = w /\ page' = "terminal" /\ browsing' = FALSE
      BY <1>4, <2>2 DEF Create!Show
    <3>2. browsing' \in BOOLEAN /\ ~ browsing'
      BY <3>1, Zenon
    <3>. QED  BY <1>4, <2>1, <3>1, <3>2 DEF Create!Views
  <2>3. CASE page \notin {"list", "create"}
    <3>1. UNCHANGED <<page, active, browsing>>
      BY <1>4, <2>3
    <3>. QED  BY <1>1, <1>2, <1>4, <2>1, <3>1 DEF CreateTypes
  <2>. QED  BY <2>2, <2>3
<1>. QED  BY <1>1, <1>3, <1>4 DEF Create!Settle

\* The store takes the list or a change of it.
LEMMA ListTaken ==
  ASSUME CreateInv, Create!ReceiveList \/ Create!ReceiveUpdate
  PROVE  /\ CreateInv' /\ unseen' = unseen
         /\ Create!OpensOnlyTheNew
<1>. DEFINE seen == IF Head(down).type = "workspaces" THEN Head(down).ids
                    ELSE known \cup Head(down).ids
<1>1. CreateTypes /\ (browsing => picker)
  BY DEF CreateInv
<1>2. /\ down # <<>> /\ down' = Tail(down) /\ Create!Settle(seen)
      /\ UNCHANGED <<maker, alive, link, up, unseen>>
      /\ \/ Head(down).type = "workspaces" /\ listed' = TRUE
         \/ Head(down).type = "workspaceUpdated" /\ listed' = listed
  BY DEF Create!ReceiveList, Create!ReceiveUpdate, Create!agentVars
<1>3. /\ Head(down) = down[1] /\ Head(down) \in Messages
      /\ Len(down) \in Nat /\ down' \in Seq(Messages)
  BY <1>1, <1>2, QueueMoves
<1>4. seen \in SUBSET Twins
  BY <1>1, <1>3 DEF CreateTypes, Messages
<1>5. /\ known' = seen /\ picker' = picker
      /\ page' \in Create!Views /\ active' \in Twins \cup {None}
      /\ browsing' \in BOOLEAN /\ (browsing' => picker')
      /\ \/ pending' = pending /\ active' = active
         \/ /\ pending # None /\ pending' = None
            /\ active' = active \/ active' \in seen \ pending.existing
  BY <1>1, <1>2, <1>4, Settles
<1>. HIDE DEF seen
<1>6. listed' \in BOOLEAN
  <2>1. listed \in BOOLEAN
    BY <1>1 DEF CreateTypes
  <2>2. listed' = TRUE \/ listed' = listed
    BY <1>2
  <2>. QED  BY <2>1, <2>2, Zenon
<1>7. CreateTypes'
  <2>1. pending' = None \/ pending'.existing \subseteq Twins
    BY <1>1, <1>5 DEF CreateTypes
  <2>. QED  BY <1>1, <1>2, <1>3, <1>4, <1>5, <1>6, <2>1 DEF CreateTypes
<1>8. ASSUME NEW w \in Twins, maker[w] = "old" PROVE OldIsKnown(w)'
  <2>1. pending' = pending \/ pending' = None
    BY <1>5
  <2>2. CASE Head(down).type = "workspaces"
    <3>1. known' = Head(down).ids /\ listed' = TRUE
      BY <1>2, <1>5, <2>2 DEF seen
    <3>. QED  BY <1>2, <1>8, <2>1, <2>2, <3>1, TakenKeeps
  <2>3. CASE Head(down).type = "workspaceUpdated"
    <3>1. known' = known \cup Head(down).ids /\ listed' = listed
      BY <1>2, <1>5, <2>3 DEF seen
    <3>. QED  BY <1>2, <1>8, <2>1, <2>3, <3>1, TakenKeeps
  <2>. QED  BY <1>2, <2>2, <2>3
<1>9. Create!OpensOnlyTheNew
  <2>. SUFFICES ASSUME pending # None, pending' = None, active' # active,
                       active' # None, maker[active'] = "old"
                PROVE  ~pending.listed
    BY DEF Create!OpensOnlyTheNew
  <2>1. active' \in seen \ pending.existing /\ active' \in Twins
    BY <1>4, <1>5
  <2>2. Coming(active') \/ active' \in known
    <3>1. active' \in known \/ active' \in Head(down).ids
      BY <2>1 DEF seen
    <3>2. CASE active' \in Head(down).ids
      <4>1. 1 \in 1..Len(down)
        BY <1>1, <1>2, <1>3 DEF CreateTypes
      <4>2. \A w : w \in Head(down).ids => Coming(w)
        BY <1>2, <1>3, <4>1 DEF Coming, Brings
      <4>. QED  BY <3>2, <4>2
    <3>. QED  BY <3>1, <3>2
  <2>3. OldIsKnown(active')
    BY <2>1 DEF CreateInv
  <2>. QED  BY <2>1, <2>2, <2>3 DEF OldIsKnown
<1>. QED  BY <1>2, <1>5, <1>7, <1>8, <1>9 DEF CreateInv

LEMMA ClosedTaken ==
  ASSUME CreateInv, Create!ReceiveClosed
  PROVE  CreateInv' /\ unseen' = unseen /\ pending' = pending
<1>1. CreateTypes
  BY DEF CreateInv
<1>2. /\ down # <<>> /\ down' = Tail(down) /\ Head(down).type = "closed"
      /\ known' = known \ Head(down).ids
      /\ UNCHANGED <<maker, alive, link, up, listed, pending, picker, unseen>>
  BY DEF Create!ReceiveClosed, Create!agentVars
<1>3. down' \in Seq(Messages)
  BY <1>1, <1>2, QueueMoves
<1>4. /\ page' \in Create!Views /\ active' \in Twins \cup {None}
      /\ browsing' = browsing \/ browsing' = FALSE
  BY <1>1 DEF CreateTypes, Create!Views, Create!ReceiveClosed, Create!Show
<1>5. browsing' \in BOOLEAN /\ (browsing' => picker')
  <2>1. browsing \in BOOLEAN /\ (browsing => picker) /\ picker' = picker
    BY <1>1, <1>2 DEF CreateTypes, CreateInv
  <2>2. CASE browsing' = FALSE
    BY <2>2, Zenon
  <2>3. CASE browsing' = browsing
    BY <2>1, <2>3, Zenon
  <2>. QED  BY <1>4, <2>2, <2>3
<1>6. CreateTypes'
  BY <1>1, <1>2, <1>3, <1>4, <1>5 DEF CreateTypes
<1>7. ASSUME NEW w \in Twins, maker[w] = "old" PROVE OldIsKnown(w)'
  BY <1>2, <1>7, TakenKeeps
<1>. QED  BY <1>2, <1>5, <1>6, <1>7 DEF CreateInv

LEMMA ErrorTaken ==
  ASSUME CreateInv, Create!ReceiveError
  PROVE  CreateInv' /\ Create!ErrorsAreSeen /\ active' = active
<1>1. CreateTypes /\ (browsing => picker)
  BY DEF CreateInv
<1>2. /\ down # <<>> /\ down' = Tail(down)
      /\ pending' = pending \/ pending' = None
      /\ UNCHANGED <<maker, alive, link, up, known, listed, page, active, picker, browsing>>
  BY DEF Create!ReceiveError, Create!agentVars
<1>3. down' \in Seq(Messages)
  BY <1>1, <1>2, QueueMoves
<1>4. unseen' = (unseen \/ ~Create!Shown(Create!ErrorPlace))
  BY DEF Create!ReceiveError
<1>5. unseen' \in BOOLEAN
  BY <1>4, Zenon
<1>6. CreateTypes'
  <2>1. pending' = None \/ pending'.existing \subseteq Twins
    BY <1>1, <1>2 DEF CreateTypes
  <2>. QED  BY <1>1, <1>2, <1>3, <1>5, <2>1 DEF CreateTypes
<1>7. ASSUME NEW w \in Twins, maker[w] = "old" PROVE OldIsKnown(w)'
  BY <1>2, <1>7, TakenKeeps
<1>8. Create!ErrorsAreSeen
  <2>1. CASE Create!Shown(Create!ErrorPlace)
    <3>1. unseen \in BOOLEAN
      BY <1>1 DEF CreateTypes
    <3>2. unseen' = unseen
      BY <1>4, <2>1, <3>1, Zenon
    <3>. QED  BY <3>2 DEF Create!ErrorsAreSeen
  <2>2. CASE ~ Create!Shown(Create!ErrorPlace)
    <3>1. picker /\ ~browsing
      BY <1>1, <2>2 DEF Create!Shown, Create!ErrorPlace
    <3>. QED  BY <3>1 DEF Create!ErrorsAreSeen
  <2>. QED  BY <2>1, <2>2
<1>. QED  BY <1>1, <1>2, <1>6, <1>7, <1>8 DEF CreateInv

LEMMA CreateStep ==
  ASSUME CreateInv, [Create!Next]_(Create!vars)
  PROVE  CreateInv' /\ Create!OpensOnlyTheNew /\ Create!ErrorsAreSeen
<1>1. CASE UNCHANGED Create!vars
  <2>1. UNCHANGED <<maker, alive, link, up, down, known, listed, page, active, pending,
                    picker, browsing, unseen>>
    BY <1>1 DEF Create!vars, Create!agentVars, Create!wire, Create!form
  <2>. QED  BY <2>1 DEF CreateInv, CreateTypes, OldIsKnown, Coming, Brings,
            Create!OpensOnlyTheNew, Create!ErrorsAreSeen
<1>2. CASE pending' = pending /\ unseen' = unseen /\ CreateInv'
  BY <1>2 DEF Create!OpensOnlyTheNew, Create!ErrorsAreSeen
<1>3. ASSUME NEW c \in BOOLEAN, Create!RequestCreate(c)
      PROVE  CreateInv' /\ Create!OpensOnlyTheNew /\ Create!ErrorsAreSeen
  <2>1. unseen' = unseen /\ active' = active
    BY <1>3 DEF Create!RequestCreate
  <2>. QED  BY <1>3, <2>1, RequestKeeps DEF Create!OpensOnlyTheNew, Create!ErrorsAreSeen
<1>4. ASSUME NEW m, Answered(m), up' \in Seq(Create!Requests),
             UNCHANGED <<link, known, listed, page, active, pending, picker, browsing, unseen>>
      PROVE  CreateInv' /\ Create!OpensOnlyTheNew /\ Create!ErrorsAreSeen
  BY <1>4, <1>2, AnswersKeep
<1>5. CASE Create!ReceiveList \/ Create!ReceiveUpdate
  BY <1>5, ListTaken DEF Create!ErrorsAreSeen
<1>6. CASE Create!ReceiveError
  BY <1>6, ErrorTaken DEF Create!OpensOnlyTheNew
<1>7. CASE Create!ReceiveClosed \/ Create!LinkDrops \/ Create!LinkReturns
  BY <1>2, <1>7, ClosedTaken, LinkKeeps
<1>8. CASE \/ Create!GoCreate \/ Create!CancelCreate \/ Create!Back \/ Create!OpenPicker
           \/ Create!LeavePicker \/ Create!SetStatus
           \/ \E w \in Twins : Create!Open(w)
  BY <1>2, <1>8, PageKeeps
<1>9. CASE \/ Create!AgentLists \/ Create!AgentCreates \/ Create!AgentSetsStatus
           \/ \E w \in Twins : Create!OtherCreates(w) \/ Create!OtherCloses(w)
  BY <1>4, <1>9, AgentsAnswer
<1>. QED  BY <1>1, <1>3, <1>5, <1>6, <1>7, <1>8, <1>9 DEF Create!Next

LEMMA CreateInit == Create!Init => CreateInv
<1>. SUFFICES ASSUME Create!Init PROVE CreateInv
  OBVIOUS
<1>1. PICK old \in SUBSET Twins :
        /\ maker = [w \in Twins |-> IF w \in old THEN "old" ELSE "nobody"]
        /\ alive = old
  BY DEF Create!Init
<1>2. /\ link = "offline" /\ up = <<>> /\ down = <<>> /\ known = {}
      /\ page = "list" /\ active = None /\ pending = None
  BY DEF Create!Init
<1>3. listed = FALSE /\ picker = FALSE /\ browsing = FALSE /\ unseen = FALSE
  BY DEF Create!Init
<1>4. listed \in BOOLEAN /\ picker \in BOOLEAN /\ browsing \in BOOLEAN /\ unseen \in BOOLEAN
  BY <1>3, Zenon
<1>5. CreateTypes
  BY <1>1, <1>2, <1>4 DEF CreateTypes, Create!Views
<1>6. \A w : OldIsKnown(w)
  BY <1>2, <1>3 DEF OldIsKnown
<1>. QED  BY <1>3, <1>5, <1>6 DEF CreateInv

LEMMA CreateTyped == CreateInv => Create!TypeOK
<1>. SUFFICES ASSUME CreateTypes PROVE Create!TypeOK
  BY DEF CreateInv
<1>1. {listed, picker, browsing, unseen} \subseteq BOOLEAN
  <2>1. /\ listed \in BOOLEAN /\ picker \in BOOLEAN /\ browsing \in BOOLEAN
        /\ unseen \in BOOLEAN
    BY DEF CreateTypes
  <2>. QED  BY <2>1, Zenon
<1>. QED  BY <1>1 DEF CreateTypes, Create!TypeOK

\* What opens by itself is what this device asked for, and the page shows an agent's
\* error unless the form was left with its picker open, for any number of workspaces
\* and messages under way (store.svelte.ts).
THEOREM CreateKeepsItsWordAlways == Spec => CreateKeepsItsWord
<1>. DEFINE Inv == part = "create" => CreateInv
<1>1. Init => Inv
  BY CreateInit DEF Init
<1>2. part = "create" /\ [Next]_vars => part' = part /\ [Create!Next]_(Create!vars)
  BY DEF Next, vars, creating, Create!vars, Create!agentVars, Create!wire, Create!form
<1>3. Inv /\ [Next]_vars => Inv'
  <2>1. CASE part = "create"
    BY <1>2, <2>1, CreateStep
  <2>2. CASE part # "create"
    BY <2>2 DEF Next, vars
  <2>. QED  BY <2>1, <2>2
<1>4. Inv /\ [Next]_vars =>
        [part = "create" => /\ Create!TypeOK'
                            /\ Create!OpensOnlyTheNew /\ Create!ErrorsAreSeen]_vars
  <2>. SUFFICES ASSUME CreateInv, [Next]_vars, part = "create", ~ UNCHANGED vars
                PROVE  Create!TypeOK' /\ Create!OpensOnlyTheNew /\ Create!ErrorsAreSeen
    OBVIOUS
  <2>1. CreateInv' /\ Create!OpensOnlyTheNew /\ Create!ErrorsAreSeen
    BY <1>2, CreateStep
  <2>2. (CreateInv => Create!TypeOK)'
    BY CreateTyped, PTL
  <2>. QED  BY <2>1, <2>2
<1>. QED  BY <1>1, <1>3, <1>4, PTL DEF Spec, CreateKeepsItsWord

-----------------------------------------------------------------------------
(* The folder that was picked *)

Segments == {"a", "ab", "x"}
Paths == Seq(Segments)

FormTypes ==
  /\ online \subseteq Machines /\ asked \subseteq Machines
  /\ machineId \in Machines \cup {None}
  /\ pathEdited \in BOOLEAN /\ failed \in BOOLEAN
  /\ formPage \in {"list", "form", "picker"}
  /\ IsFiniteSet(calls) /\ Cardinality(calls) <= 1

\* Folders, and the requests and answers about them, are paths.
FormPaths ==
  /\ dirs \in [Machines -> SUBSET Paths]
  /\ \A c \in calls : c.machine \in Machines /\ c.path \in Paths
  /\ entries # None => entries.path \in Paths /\ entries.subdirs \subseteq Paths

\* What the field stands for on the machine of the pick; no effect fills an edited one.
Kept ==
  picked # None =>
    /\ pathEdited = TRUE
    /\ Form!resolveProjectPath(Form!DefaultOf(picked.machine), path) = picked.path

FormInv == FormTypes /\ FormPaths /\ Kept

\* What a folder leaves in the field stands for that folder.
LEMMA FieldsResolve ==
  ASSUME NEW m \in Machines \cup {None}, NEW p \in Paths
  PROVE  Form!resolveProjectPath(Form!DefaultOf(m),
                                 Form!relativeProjectPath(Form!DefaultOf(m), p)) = p
<1>. DEFINE d == Form!DefaultOf(m)
<1>1. d # None => d \in Paths
  <2>1. A \in Paths
    BY DEF A, Paths, Segments
  <2>. QED  BY <2>1 DEF Form!DefaultOf, Defaults
<1>. HIDE DEF d
<1>2. CASE d # None /\ Form!IsPrefix(d, p)
  <2>1. d \in Seq(Segments) /\ p \in Seq(Segments)
    BY <1>1, <1>2 DEF Paths
  <2>2. Len(d) \in Nat /\ Len(p) \in Nat /\ Len(d) <= Len(p)
        /\ SubSeq(d, 1, Len(d)) = SubSeq(p, 1, Len(d))
    BY <1>2, <2>1 DEF Form!IsPrefix
  <2>3. \A i \in 1..Len(d) : d[i] = p[i]
    <3>1. \A i \in 1..Len(d) : SubSeq(d, 1, Len(d))[i] = d[i] /\ SubSeq(p, 1, Len(d))[i] = p[i]
      BY <2>1, <2>2
    <3>. QED  BY <2>2, <3>1
  <2>. DEFINE tail == SubSeq(p, Len(d) + 1, Len(p))
  <2>4. /\ tail \in Seq(Segments) /\ Len(tail) = Len(p) - Len(d)
        /\ \A i \in 1..Len(tail) : tail[i] = p[Len(d) + i]
    BY <2>1, <2>2
  <2>. HIDE DEF tail
  <2>5. /\ d \o tail \in Seq(Segments) /\ Len(d \o tail) = Len(p)
        /\ \A i \in 1..Len(p) : (d \o tail)[i] = IF i <= Len(d) THEN d[i] ELSE tail[i - Len(d)]
    BY <2>1, <2>2, <2>4
  <2>6. ASSUME NEW i \in 1..Len(p) PROVE (d \o tail)[i] = p[i]
    <3>1. CASE i <= Len(d)
      BY <2>2, <2>3, <2>5, <3>1
    <3>2. CASE i > Len(d)
      <4>1. i - Len(d) \in 1..Len(tail) /\ Len(d) + (i - Len(d)) = i
        BY <2>2, <2>4, <3>2
      <4>. QED  BY <2>2, <2>4, <2>5, <3>2, <4>1
    <3>3. i <= Len(d) \/ i > Len(d)
      BY <2>2
    <3>. QED  BY <3>1, <3>2, <3>3
  <2>. DEFINE s == d \o tail
  <2>7. s = p
    <3>1. s \in Seq(Segments) /\ Len(s) = Len(p) /\ \A i \in 1..Len(p) : s[i] = p[i]
      BY <2>5, <2>6
    <3>. HIDE DEF s
    <3>. QED  BY <2>1, <3>1, SeqEqual
  <2>8. Form!relativeProjectPath(d, p) = [abs |-> FALSE, segs |-> tail]
    BY <1>2 DEF Form!relativeProjectPath, tail
  <2>. QED  BY <1>2, <2>7, <2>8 DEF Form!resolveProjectPath, d
<1>3. CASE ~(d # None /\ Form!IsPrefix(d, p))
  <2>1. Form!relativeProjectPath(d, p) = [abs |-> TRUE, segs |-> p]
    BY <1>3 DEF Form!relativeProjectPath, Form!Absolute
  <2>. QED  BY <2>1 DEF Form!resolveProjectPath, d
<1>. QED  BY <1>2, <1>3

\* A request to the agent of the chosen machine.
LEMMA CallKeeps ==
  ASSUME FormInv, NEW t, NEW p \in Paths, Form!Call(t, p)
  PROVE  /\ IsFiniteSet(calls') /\ Cardinality(calls') <= 1
         /\ \A c \in calls' : c.machine \in Machines /\ c.path \in Paths
<1>1. /\ IsFiniteSet(calls) /\ Cardinality(calls) <= 1 /\ machineId \in Machines \cup {None}
      /\ \A c \in calls : c.machine \in Machines /\ c.path \in Paths
  BY DEF FormInv, FormTypes, FormPaths
<1>2. CASE machineId = None
  BY <1>1, <1>2 DEF Form!Call
<1>3. CASE machineId # None
  <2>. DEFINE c == [machine |-> machineId, type |-> t, path |-> p]
  <2>1. c.machine \in Machines /\ c.path \in Paths
    BY <1>1, <1>3
  <2>. HIDE DEF c
  <2>2. Form!Cardinality(calls) < 1 /\ calls' = calls \cup {c}
    BY <1>3 DEF Form!Call, c
  <2>3. Cardinality(calls) < 1 /\ Cardinality(calls) \in Nat
    BY <1>1, <2>2, FS_CardinalityType DEF Form!Cardinality, Cardinality
  <2>4. IsFiniteSet(calls') /\ Cardinality(calls') <= Cardinality(calls) + 1
    <3>1. /\ IsFiniteSet(calls \cup {c})
          /\ \/ Cardinality(calls \cup {c}) = Cardinality(calls)
             \/ Cardinality(calls \cup {c}) = Cardinality(calls) + 1
      BY <1>1, FS_AddElement
    <3>. QED  BY <2>2, <2>3, <3>1
  <2>5. Cardinality(calls') <= 1
    <3>1. Cardinality(calls') \in Nat
      BY <2>4, FS_CardinalityType
    <3>. QED  BY <2>3, <2>4, <3>1
  <2>. QED  BY <1>1, <2>1, <2>2, <2>4, <2>5
<1>. QED  BY <1>2, <1>3

\* Requests that are answered or lost.
LEMMA FewerCalls ==
  ASSUME FormInv, calls' \subseteq calls
  PROVE  /\ IsFiniteSet(calls') /\ Cardinality(calls') <= 1
         /\ \A c \in calls' : c.machine \in Machines /\ c.path \in Paths
<1>1. /\ IsFiniteSet(calls) /\ Cardinality(calls) <= 1
      /\ \A c \in calls : c.machine \in Machines /\ c.path \in Paths
  BY DEF FormInv, FormTypes, FormPaths
<1>2. IsFiniteSet(calls') /\ Cardinality(calls') <= Cardinality(calls)
  BY <1>1, FS_Subset
<1>3. Cardinality(calls) \in Nat /\ Cardinality(calls') \in Nat
  BY <1>1, <1>2, FS_CardinalityType
<1>. QED  BY <1>1, <1>2, <1>3

\* The form opens and closes, its machine changes, the user writes.
LEMMA FormActions ==
  ASSUME FormInv,
         \/ Form!GoCreate \/ Form!CancelCreate \/ Form!Type \/ Form!ChooseRecent
         \/ \E m \in Machines : \/ Form!ReceiveRecents(m) \/ Form!ChooseMachine(m)
                                \/ Form!SetStatus(m)
  PROVE  FormInv'
<1>. DEFINE Some == \E m \in Machines : \/ Form!ReceiveRecents(m) \/ Form!ChooseMachine(m)
                                        \/ Form!SetStatus(m)
            Anew == Form!GoCreate \/ Form!CancelCreate \/ Form!Type \/ Form!ChooseRecent
<1>1. /\ online \subseteq Machines /\ asked \subseteq Machines
      /\ machineId \in Machines \cup {None}
      /\ formPage \in {"list", "form", "picker"}
      /\ pathEdited \in BOOLEAN /\ failed \in BOOLEAN
  BY DEF FormInv, FormTypes
<1>2. dirs' = dirs /\ failed' = failed /\ calls' \subseteq calls
      /\ (entries' = entries \/ entries' = None)
  BY DEF Form!GoCreate, Form!CancelCreate, Form!Type, Form!ChooseRecent,
     Form!ReceiveRecents, Form!ChooseMachine, Form!SetStatus, Form!picker
<1>3. /\ online' \subseteq Machines /\ asked' \subseteq Machines
      /\ formPage' \in {"list", "form", "picker"}
  BY <1>1 DEF Form!GoCreate, Form!CancelCreate, Form!Type, Form!ChooseRecent,
     Form!ReceiveRecents, Form!ChooseMachine, Form!SetStatus, Form!fields
<1>4. \A m, those : those \subseteq Machines /\ m \in Machines \cup {None}
        => Form!KeepMachine(m, those) \subseteq Machines \cup {None}
  BY DEF Form!KeepMachine
<1>5. machineId' \in Machines \cup {None}
  <2>1. CASE Form!GoCreate
    <3>1. machineId' \in Form!KeepMachine(None, online)
      BY <2>1 DEF Form!GoCreate
    <3>. QED  BY <1>1, <1>4, <3>1
  <2>2. ASSUME NEW m \in Machines, Form!SetStatus(m) PROVE machineId' \in Machines \cup {None}
    <3>1. machineId' \in Form!KeepMachine(machineId, online') \/ machineId' = machineId
      BY <2>2 DEF Form!SetStatus
    <3>. QED  BY <1>1, <1>3, <1>4, <3>1
  <2>. QED  BY <1>1, <2>1, <2>2 DEF Form!CancelCreate, Form!Type, Form!ChooseRecent,
            Form!ReceiveRecents, Form!ChooseMachine, Form!fields
<1>6. CASE Anew
  <2>1. picked' = None
    BY <1>6 DEF Form!GoCreate, Form!CancelCreate, Form!Type, Form!ChooseRecent
  <2>2. pathEdited' = FALSE \/ pathEdited' = TRUE \/ pathEdited' = pathEdited
    BY <1>6, Zenon DEF Form!GoCreate, Form!CancelCreate, Form!Type, Form!ChooseRecent
  <2>3. pathEdited' \in BOOLEAN /\ failed' \in BOOLEAN
    BY <1>1, <1>2, <2>2, Zenon
  <2>. QED  BY <1>2, <1>3, <1>5, <2>1, <2>3, FewerCalls DEF FormInv, FormTypes, FormPaths, Kept
<1>7. CASE Some
  <2>1. picked' = picked /\ pathEdited' = pathEdited
    BY <1>7 DEF Form!ReceiveRecents, Form!ChooseMachine, Form!SetStatus
  <2>2. pathEdited = TRUE => path' = path
    BY <1>7 DEF Form!ReceiveRecents, Form!ChooseMachine, Form!SetStatus, Form!FillPath
  <2>3. pathEdited' \in BOOLEAN /\ failed' \in BOOLEAN
    BY <1>1, <1>2, <2>1, Zenon
  <2>4. Kept'
    <3>1. CASE picked = None
      BY <2>1, <3>1 DEF Kept
    <3>2. CASE picked # None
      <4>1. pathEdited = TRUE
        BY <3>2 DEF FormInv, Kept
      <4>. QED  BY <2>1, <2>2, <4>1 DEF FormInv, Kept
    <3>. QED  BY <3>1, <3>2
  <2>. QED  BY <1>2, <1>3, <1>5, <2>3, <2>4, FewerCalls DEF FormInv, FormTypes, FormPaths
<1>. QED  BY <1>6, <1>7

\* The requests of the picker.
LEMMA PickerAsks ==
  ASSUME FormInv,
         \/ Form!OpenPicker \/ Form!BackUp
         \/ \E r \in Form!RootsHere : Form!SelectRoot(r)
         \/ \E d \in (IF entries = None THEN {} ELSE entries.subdirs) : Form!Enter(d)
         \/ \E n \in {"x"} : Form!MakeDir(n)
  PROVE  FormInv'
<1>1. FormTypes /\ FormPaths
  BY DEF FormInv
<1>2. Form!RootsHere \subseteq Paths
  <2>1. A \in Paths /\ AB \in Paths
    BY DEF A, AB, Paths, Segments
  <2>. QED  BY <1>1, <2>1 DEF FormTypes, Form!RootsHere, Projects
<1>3. \A p \in Paths : Form!Parent(p) \in Paths
  BY DEF Paths, Form!Parent, Form!Front
<1>4. /\ UNCHANGED <<online, dirs, asked, machineId, path, pathEdited, picked>>
      /\ formPage' \in {"list", "form", "picker"}
      /\ entries' = entries \/ entries' = None
  BY <1>1 DEF FormTypes, Form!OpenPicker, Form!openFolderPicker, Form!BackUp, Form!Close,
     Form!Ask, Form!SelectRoot, Form!Enter, Form!MakeDir, Form!fields
<1>5. failed' \in BOOLEAN
  <2>1. failed \in BOOLEAN
    BY <1>1 DEF FormTypes
  <2>2. failed' = failed \/ failed' = FALSE
    BY Zenon DEF Form!OpenPicker, Form!openFolderPicker, Form!BackUp, Form!Close,
       Form!Ask, Form!SelectRoot, Form!Enter, Form!MakeDir
  <2>. QED  BY <2>1, <2>2, Zenon
<1>6. calls' = calls \/ \E t, p : p \in Paths /\ Form!Call(t, p)
  <2>1. CASE Form!OpenPicker
    <3>1. machineId # None => Projects[machineId] \subseteq Paths
      BY <1>2 DEF Form!RootsHere
    <3>. QED  BY <2>1, <3>1 DEF Form!OpenPicker, Form!BrowseDir
  <2>2. CASE Form!BackUp
    <3>1. entries # None => Form!Parent(entries.path) \in Paths
      BY <1>1, <1>3 DEF FormPaths
    <3>. QED  BY <2>2, <3>1 DEF Form!BackUp, Form!Close, Form!Ask, Form!BrowseDir
  <2>3. ASSUME NEW r \in Form!RootsHere, Form!SelectRoot(r)
        PROVE  \E t, p : p \in Paths /\ Form!Call(t, p)
    BY <1>2, <2>3 DEF Form!SelectRoot, Form!Ask, Form!BrowseDir
  <2>4. ASSUME NEW d \in (IF entries = None THEN {} ELSE entries.subdirs), Form!Enter(d)
        PROVE  \E t, p : p \in Paths /\ Form!Call(t, p)
    BY <1>1, <2>4 DEF FormPaths, Form!Enter, Form!Ask, Form!BrowseDir
  <2>5. CASE Form!MakeDir("x")
    <3>1. entries # None /\ Form!Call("makeDir", Append(entries.path, "x"))
      BY <2>5 DEF Form!MakeDir
    <3>2. Append(entries.path, "x") \in Paths
      BY <1>1, <3>1 DEF FormPaths, Paths, Segments
    <3>. QED  BY <3>1, <3>2
  <2>. QED  BY <2>1, <2>2, <2>3, <2>4, <2>5
<1>7. /\ IsFiniteSet(calls') /\ Cardinality(calls') <= 1
      /\ \A c \in calls' : c.machine \in Machines /\ c.path \in Paths
  BY <1>6, CallKeeps, FewerCalls
<1>8. FormTypes'
  BY <1>1, <1>4, <1>5, <1>7 DEF FormTypes
<1>9. FormPaths' /\ Kept'
  BY <1>1, <1>4, <1>7 DEF FormPaths, FormInv, Kept
<1>. QED  BY <1>8, <1>9 DEF FormInv

LEMMA AnswerTaken ==
  ASSUME FormInv, NEW c \in calls, Form!Answer(c)
  PROVE  FormInv'
<1>1. FormTypes /\ FormPaths /\ c.machine \in Machines /\ c.path \in Paths
  BY DEF FormInv, FormPaths
<1>2. /\ UNCHANGED <<online, asked, formPage, machineId, path, pathEdited, picked>>
      /\ calls' = calls \ {c}
  BY DEF Form!Answer, Form!fields
<1>3. dirs' \in [Machines -> SUBSET Paths]
  BY <1>1 DEF FormPaths, Form!Answer
<1>4. \/ entries' = entries
      \/ entries' = [path |-> c.path, from |-> c.machine,
                     subdirs |-> Form!Visible(c.machine, c.path)]
  BY DEF Form!Answer
<1>5. Form!Visible(c.machine, c.path) \subseteq Paths
  BY <1>1 DEF FormPaths, Form!Visible
<1>6. entries' # None => entries'.path \in Paths /\ entries'.subdirs \subseteq Paths
  BY <1>1, <1>4, <1>5 DEF FormPaths
<1>7. failed' \in BOOLEAN
  <2>1. failed' = (failed \/ formPage = "picker") \/ failed' = FALSE
    BY Zenon DEF Form!Answer
  <2>. QED  BY <2>1, Zenon
<1>8. /\ IsFiniteSet(calls') /\ Cardinality(calls') <= 1
      /\ \A d \in calls' : d.machine \in Machines /\ d.path \in Paths
  BY <1>2, FewerCalls
<1>9. FormTypes' /\ FormPaths'
  BY <1>1, <1>2, <1>3, <1>6, <1>7, <1>8 DEF FormTypes, FormPaths
<1>. QED  BY <1>2, <1>9 DEF FormInv, Kept

LEMMA PickTaken ==
  ASSUME FormInv, Form!Pick
  PROVE  FormInv'
<1>1. FormTypes /\ FormPaths /\ machineId \in Machines \cup {None}
  BY DEF FormInv, FormTypes
<1>2. /\ UNCHANGED <<online, dirs, asked, machineId, entries, failed, calls>>
      /\ formPage' = "form" /\ entries # None
      /\ path' = Form!relativeProjectPath(Form!DefaultOf(machineId), entries.path)
      /\ picked' = [machine |-> machineId, from |-> entries.from, path |-> entries.path]
  BY DEF Form!Pick, Form!Close
<1>3. pathEdited' = TRUE
  BY DEF Form!Pick
<1>4. pathEdited' \in BOOLEAN
  BY <1>3, Zenon
<1>5. picked'.machine = machineId /\ picked'.path = entries.path
  BY <1>2
<1>6. Kept'
  <2>1. Form!resolveProjectPath(Form!DefaultOf(machineId), path') = entries.path
    BY <1>1, <1>2, FieldsResolve DEF FormPaths
  <2>. QED  BY <1>3, <1>5, <2>1 DEF Kept
<1>7. FormTypes' /\ FormPaths'
  BY <1>1, <1>2, <1>4 DEF FormTypes, FormPaths
<1>. QED  BY <1>6, <1>7 DEF FormInv

LEMMA FormStep == FormInv /\ [Form!Next]_(Form!vars) => FormInv'
<1>. SUFFICES ASSUME FormInv, [Form!Next]_(Form!vars) PROVE FormInv'
  OBVIOUS
<1>1. CASE UNCHANGED Form!vars
  BY <1>1 DEF Form!vars, Form!fields, Form!picker, FormInv, FormTypes, FormPaths, Kept
<1>. QED  BY <1>1, FormActions, PickerAsks, AnswerTaken, PickTaken DEF Form!Next

LEMMA FormInit == Form!Init => FormInv
<1>. SUFFICES ASSUME Form!Init PROVE FormInv
  OBVIOUS
<1>1. pathEdited = FALSE /\ failed = FALSE
  BY DEF Form!Init
<1>2. pathEdited \in BOOLEAN /\ failed \in BOOLEAN
  BY <1>1, Zenon
<1>3. Folders \in [Machines -> SUBSET Paths]
  <2>1. A \in Paths /\ AB \in Paths
    BY DEF A, AB, Paths, Segments
  <2>. QED  BY <2>1 DEF Folders
<1>4. FormTypes
  BY <1>2, FS_EmptySet DEF Form!Init, FormTypes
<1>5. FormPaths /\ Kept
  BY <1>3 DEF Form!Init, FormPaths, Kept
<1>. QED  BY <1>4, <1>5 DEF FormInv

LEMMA FormTyped == FormInv => Form!TypeOK /\ Form!KeepsThePick
<1>. SUFFICES ASSUME FormTypes, Kept PROVE Form!TypeOK /\ Form!KeepsThePick
  BY DEF FormInv
<1>1. {pathEdited, failed} \subseteq BOOLEAN
  <2>1. pathEdited \in BOOLEAN /\ failed \in BOOLEAN
    BY DEF FormTypes
  <2>. QED  BY <2>1, Zenon
<1>2. Form!Cardinality(calls) = Cardinality(calls)
  BY DEF Form!Cardinality, Cardinality
<1>3. Form!TypeOK
  BY <1>1, <1>2 DEF FormTypes, Form!TypeOK
<1>. QED  BY <1>3 DEF Kept, Form!KeepsThePick

\* What the form would create on the machine a folder was picked for is that folder
\* until the user writes something else, for any machines (CreateWorkspace.svelte).
THEOREM KeepsThePickAlways == Spec => []KeepsThePick
<1>. DEFINE Inv == part = "form" => FormInv
<1>1. Init => Inv
  BY FormInit DEF Init
<1>2. Inv /\ [Next]_vars => Inv'
  <2>1. CASE part = "form"
    <3>1. [Next]_vars => part' = part /\ [Form!Next]_(Form!vars)
      BY <2>1 DEF Next, vars, form, Form!vars, Form!fields, Form!picker
    <3>. QED  BY <2>1, <3>1, FormStep
  <2>2. CASE part # "form"
    BY <2>2 DEF Next, vars
  <2>. QED  BY <2>1, <2>2
<1>3. Inv => KeepsThePick
  BY FormTyped DEF KeepsThePick
<1>. QED  BY <1>1, <1>2, <1>3, PTL DEF Spec

-----------------------------------------------------------------------------
(* The Android keyboard *)

\* What is recalled is typed with the keys there are.
TypingConstants == {"a", "b"} \subseteq Letters \cup {Space} /\ MaxLine \in Nat

Chars == Letters \cup {Space}
Text == Seq(Chars)

\* A bounded set of numbers has a greatest one.
LEMMA GreatestExists ==
  ASSUME NEW n \in Nat, NEW S, S \subseteq 0..n, S # {}
  PROVE  \E x \in S : \A y \in S : y <= x
<1>. DEFINE T == {k..n : k \in S}
<1>1. T \subseteq FiniteSubsetsOf(Int) /\ T # {}
  <2>1. ASSUME NEW k \in S PROVE IsFiniteSet(k..n) /\ k..n \in SUBSET Int
    BY FS_Interval
  <2>. QED  BY <2>1 DEF FiniteSubsetsOf
<1>2. PICK x \in T : \A y \in T : ~ (<<y, x>> \in StrictSubsetOrdering(Int))
  <2>. HIDE DEF T
  <2>. QED  BY <1>1, FS_StrictSubsetOrderingWellFounded, WFMin
<1>3. PICK k \in S : x = k..n
  OBVIOUS
<1>4. ASSUME NEW j \in S PROVE j <= k
  <2>1. j..n \in T /\ ~ (<<j..n, k..n>> \in StrictSubsetOrdering(Int))
    BY <1>2, <1>3
  <2>2. j..n \in SUBSET Int /\ k..n \in SUBSET Int
    OBVIOUS
  <2>3. ~ (j..n \subseteq k..n) \/ j..n = k..n
    BY <2>1, <2>2 DEF StrictSubsetOrdering
  <2>. QED  BY <2>3
<1>. QED  BY <1>3, <1>4

\* Some text is cut off the end.
LEMMA DropType ==
  ASSUME NEW s \in Text, NEW n \in Nat
  PROVE  /\ Typing!Drop(s, n) \in Text
         /\ Typing!Drop(s, 0) = s
         /\ s = <<>> => Typing!Drop(s, n) = <<>>
<1>1. Typing!Drop(s, n) \in Text
  BY DEF Text, Typing!Drop
<1>2. Typing!Drop(s, 0) = s
  BY SubSeqFull DEF Text, Typing!Drop
<1>3. s = <<>> => Typing!Drop(s, n) = <<>>
  BY SubSeqEmpty DEF Typing!Drop
<1>. QED  BY <1>1, <1>2, <1>3

LEMMA DropEnd ==
  ASSUME NEW s \in Text, NEW t \in Text, NEW n \in 0..Len(t)
  PROVE  Typing!Drop(s \o t, n) = s \o Typing!Drop(t, n)
<1>1. /\ s \in Seq(Chars) /\ t \in Seq(Chars)
      /\ Len(s) \in Nat /\ Len(t) \in Nat /\ n \in Nat /\ n <= Len(t)
  BY DEF Text
<1>. DEFINE c == s \o t
            u == SubSeq(c, 1, Len(c) - n)
            v == SubSeq(t, 1, Len(t) - n)
            w == s \o v
<1>2. /\ c \in Seq(Chars) /\ Len(c) = Len(s) + Len(t)
      /\ \A i \in 1..Len(c) : c[i] = IF i <= Len(s) THEN s[i] ELSE t[i - Len(s)]
  BY <1>1
<1>. HIDE DEF c
<1>3. /\ u \in Seq(Chars) /\ Len(u) = Len(c) - n
      /\ \A i \in 1..Len(u) : u[i] = c[i]
  BY <1>1, <1>2
<1>4. /\ v \in Seq(Chars) /\ Len(v) = Len(t) - n
      /\ \A i \in 1..Len(v) : v[i] = t[i]
  BY <1>1
<1>. HIDE DEF u, v
<1>5. /\ w \in Seq(Chars) /\ Len(w) = Len(s) + Len(v)
      /\ \A i \in 1..Len(w) : w[i] = IF i <= Len(s) THEN s[i] ELSE v[i - Len(s)]
  <2>1. s \in Seq(Chars) /\ v \in Seq(Chars) /\ Len(s) \in Nat /\ Len(v) \in Nat
    BY <1>1, <1>4
  <2>2. /\ w \in Seq(Chars) /\ Len(w) = Len(s) + Len(v)
        /\ \A i \in 1..Len(s) + Len(v) : w[i] = IF i <= Len(s) THEN s[i] ELSE v[i - Len(s)]
    BY <2>1, ConcatProperties, Zenon
  <2>. QED  BY <2>2
<1>. HIDE DEF w
<1>6. ASSUME NEW i \in 1..Len(u) PROVE u[i] = w[i]
  <2>1. i \in 1..Len(w) /\ i \in 1..Len(c)
    BY <1>1, <1>2, <1>3, <1>4, <1>5
  <2>2. CASE i <= Len(s)
    BY <1>2, <1>3, <1>5, <2>1, <2>2
  <2>3. CASE ~(i <= Len(s))
    <3>1. i - Len(s) \in 1..Len(v)
      BY <1>1, <1>2, <1>3, <1>4, <2>3
    <3>. QED  BY <1>2, <1>3, <1>4, <1>5, <2>1, <2>3, <3>1
  <2>. QED  BY <2>2, <2>3
<1>7. u = w
  <2>1. u \in Seq(Chars) /\ w \in Seq(Chars) /\ Len(u) = Len(w)
    BY <1>1, <1>2, <1>3, <1>4, <1>5
  <2>. QED  BY <1>6, <2>1, SeqEqual, Zenon
<1>. QED  BY <1>7 DEF Typing!Drop, c, u, v, w

\* The end of one text is replaced by the end of another that begins the same.
LEMMA DiffIsNext ==
  ASSUME NEW x \in Text, NEW prev \in Text, NEW next \in Text, NEW i \in Nat,
         i <= Len(prev), i <= Len(next), SubSeq(prev, 1, i) = SubSeq(next, 1, i)
  PROVE  Typing!Drop(x \o prev, Len(prev) - i) \o SubSeq(next, i + 1, Len(next)) = x \o next
<1>1. /\ x \in Seq(Chars) /\ prev \in Seq(Chars)
      /\ next \in Seq(Chars) /\ Len(prev) \in Nat /\ Len(next) \in Nat
  BY DEF Text
<1>2. Typing!Drop(x \o prev, Len(prev) - i) = x \o Typing!Drop(prev, Len(prev) - i)
  <2>1. Len(prev) - i \in 0..Len(prev)
    BY <1>1
  <2>. QED  BY <2>1, DropEnd
<1>3. Typing!Drop(prev, Len(prev) - i) = SubSeq(next, 1, i)
  <2>1. Len(prev) - (Len(prev) - i) = i
    BY <1>1
  <2>. QED  BY <2>1 DEF Typing!Drop
<1>4. SubSeq(next, 1, i) \o SubSeq(next, i + 1, Len(next)) = next
  <2>1. SubSeq(next, 1, i) \o SubSeq(next, i + 1, Len(next)) = SubSeq(next, 1, Len(next))
    <3>1. /\ 1 \in 1..Len(next) + 1 /\ i \in 1 - 1..Len(next)
          /\ Len(next) \in i..Len(next)
      BY <1>1
    <3>. QED  BY <1>1, <3>1, ConcatAdjacentSubSeq
  <2>. QED  BY <1>1, <2>1, SubSeqFull
<1>5. /\ SubSeq(next, 1, i) \in Seq(Chars)
      /\ SubSeq(next, i + 1, Len(next)) \in Seq(Chars)
  BY <1>1
<1>6. (x \o SubSeq(next, 1, i)) \o SubSeq(next, i + 1, Len(next))
        = x \o (SubSeq(next, 1, i) \o SubSeq(next, i + 1, Len(next)))
  <2>. DEFINE p == SubSeq(next, 1, i)  q == SubSeq(next, i + 1, Len(next))
  <2>1. x \in Seq(Chars) /\ p \in Seq(Chars) /\ q \in Seq(Chars)
    BY <1>1, <1>5
  <2>. HIDE DEF p, q
  <2>2. (x \o p) \o q = x \o (p \o q)
    BY <2>1, ConcatAssociative
  <2>. QED  BY <2>2 DEF p, q
<1>. QED  BY <1>2, <1>3, <1>4, <1>6

\* The bytes sent: a modifier takes a single one, and else the line gets them.
LEMMA Sends ==
  ASSUME NEW n \in Nat, NEW t \in Text, line \in Text, armed \in BOOLEAN,
         disturbed \in BOOLEAN, Typing!Send(n, t)
  PROVE  /\ line' \in Text /\ armed' \in BOOLEAN /\ disturbed' \in BOOLEAN
         /\ ~disturbed' => ~disturbed /\ line' = Typing!Drop(line, n) \o t
<1>1. CASE armed /\ n + Len(t) = 1
  <2>1. line' = line /\ armed' = FALSE /\ disturbed' = TRUE
    BY <1>1 DEF Typing!Send
  <2>2. armed' \in BOOLEAN /\ disturbed' \in BOOLEAN /\ disturbed'
    BY <2>1, Zenon
  <2>. QED  BY <2>1, <2>2
<1>2. CASE ~(armed /\ n + Len(t) = 1)
  <2>1. line' = Typing!Drop(line, n) \o t /\ armed' = armed /\ disturbed' = disturbed
    BY <1>2 DEF Typing!Send
  <2>2. armed' \in BOOLEAN /\ disturbed' \in BOOLEAN /\ (disturbed' <=> disturbed)
    BY <2>1, Zenon
  <2>3. Typing!Drop(line, n) \in Text
    BY DropType
  <2>4. line' \in Text
    BY <2>1, <2>3, ConcatProperties DEF Text
  <2>. QED  BY <2>1, <2>2, <2>4
<1>. QED  BY <1>1, <1>2

\* A text at the end of the line becomes another.
LEMMA DiffSent ==
  ASSUME NEW prev \in Text, NEW next \in Text, NEW x \in Text,
         line \in Text, armed \in BOOLEAN, disturbed \in BOOLEAN,
         Typing!SendDiff(prev, next)
  PROVE  /\ line' \in Text /\ armed' \in BOOLEAN /\ disturbed' \in BOOLEAN
         /\ ~disturbed' => ~disturbed
         /\ ~disturbed' /\ line = x \o prev => line' = x \o next
<1>1. /\ prev \in Seq(Chars) /\ next \in Seq(Chars) /\ Len(prev) \in Nat /\ Len(next) \in Nat
  BY DEF Text
<1>. DEFINE max == Typing!Min({Len(prev), Len(next)})
            Ks == {k \in 0..max : SubSeq(prev, 1, k) = SubSeq(next, 1, k)}
            i == Typing!Max(Ks)
<1>2. max \in {Len(prev), Len(next)} /\ max <= Len(prev) /\ max <= Len(next)
  BY <1>1 DEF Typing!Min
<1>3. Typing!Send(Len(prev) - i, SubSeq(next, i + 1, Len(next)))
  BY DEF Typing!SendDiff
<1>. HIDE DEF max
<1>4. i \in Ks
  <2>1. Ks # {} /\ Ks \subseteq 0..max /\ max \in Nat
    <3>1. SubSeq(prev, 1, 0) = <<>> /\ SubSeq(next, 1, 0) = <<>>
      BY SubSeqEmpty
    <3>. QED  BY <1>1, <1>2, <3>1
  <2>. HIDE DEF Ks
  <2>2. \E k \in Ks : \A y \in Ks : y <= k
    BY <2>1, GreatestExists
  <2>3. \E k \in Ks : \A y \in Ks : k >= y
    BY <2>1, <2>2
  <2>. QED  BY <2>3 DEF Typing!Max
<1>. HIDE DEF i
<1>5. /\ i \in Nat /\ i <= Len(prev) /\ i <= Len(next)
      /\ SubSeq(prev, 1, i) = SubSeq(next, 1, i)
  BY <1>1, <1>2, <1>4
<1>6. Len(prev) - i \in Nat /\ SubSeq(next, i + 1, Len(next)) \in Text
  BY <1>1, <1>5 DEF Text
<1>7. /\ line' \in Text /\ armed' \in BOOLEAN /\ disturbed' \in BOOLEAN
      /\ ~disturbed' => /\ ~disturbed
                        /\ line' = Typing!Drop(line, Len(prev) - i)
                                     \o SubSeq(next, i + 1, Len(next))
  BY <1>3, <1>6, Sends
<1>8. Typing!Drop(x \o prev, Len(prev) - i) \o SubSeq(next, i + 1, Len(next)) = x \o next
  BY <1>5, DiffIsNext
<1>. QED  BY <1>7, <1>8

\* The word at the caret ends the context.
LEMMA LastWordEnds ==
  ASSUME context \in Text
  PROVE  /\ Typing!lastWord \in Text /\ Len(Typing!lastWord) \in 0..Len(context)
         /\ Typing!Drop(context, Len(Typing!lastWord)) \o Typing!lastWord = context
<1>1. context \in Seq(Chars) /\ Len(context) \in Nat
  BY DEF Text
<1>. DEFINE start == {i \in 0..Len(context) : i = 0 \/ context[i] = Space}
            m == CHOOSE i \in start : \A j \in start : j <= i
<1>2. m \in start
  <2>1. start \subseteq 0..Len(context) /\ start # {}
    BY <1>1
  <2>. HIDE DEF start
  <2>2. \E k \in start : \A y \in start : y <= k
    BY <1>1, <2>1, GreatestExists
  <2>. QED  BY <2>2
<1>3. Typing!lastWord = SubSeq(context, m + 1, Len(context))
  BY DEF Typing!lastWord
<1>4. m \in Nat /\ m <= Len(context)
  BY <1>1, <1>2
<1>. HIDE DEF m
<1>5. /\ SubSeq(context, m + 1, Len(context)) \in Text
      /\ Len(SubSeq(context, m + 1, Len(context))) = Len(context) - m
  BY <1>1, <1>4 DEF Text
<1>6. Typing!Drop(context, Len(Typing!lastWord)) = SubSeq(context, 1, m)
  <2>1. Len(context) - (Len(context) - m) = m
    BY <1>1, <1>4
  <2>. QED  BY <1>3, <1>5, <2>1 DEF Typing!Drop
<1>7. SubSeq(context, 1, m) \o SubSeq(context, m + 1, Len(context)) = context
  <2>1. 1 \in 1..Len(context) + 1 /\ m \in 1 - 1..Len(context) /\ Len(context) \in m..Len(context)
    BY <1>1, <1>4
  <2>2. SubSeq(context, 1, m) \o SubSeq(context, m + 1, Len(context))
          = SubSeq(context, 1, Len(context))
    BY <1>1, <2>1, ConcatAdjacentSubSeq
  <2>. QED  BY <1>1, <2>2, SubSeqFull
<1>8. Typing!Drop(context, Len(Typing!lastWord)) \o Typing!lastWord = context
  BY <1>3, <1>6, <1>7, Zenon
<1>9. Typing!lastWord \in Text /\ Len(Typing!lastWord) \in 0..Len(context)
  BY <1>1, <1>3, <1>4, <1>5
<1>. QED  BY <1>8, <1>9

TypingTypes ==
  /\ line \in Text /\ context \in Text /\ rest \in Text /\ before \in Text
  /\ composed \in Text /\ composed \in Typing!Words
  /\ composing \in BOOLEAN /\ opening \in BOOLEAN /\ armed \in BOOLEAN
  /\ disturbed \in BOOLEAN

\* Between words nothing is composed; within one, the context is what stands before it.
TypingInv ==
  /\ TypingTypes
  /\ ~composing => composed = <<>>
  /\ ~disturbed => /\ Typing!Matches
                   /\ composing /\ ~opening => context = before

LEMMA WordsAreText == ASSUME TypingConstants PROVE Typing!Words \subseteq Text /\ <<>> \in Typing!Words
<1>1. ASSUME NEW n \in Nat PROVE [1..n -> Letters] \subseteq Text
  BY DEF Text, Chars
<1>2. Typing!Words \subseteq Text
  BY <1>1 DEF TypingConstants, Typing!Words, Typing!BoundedSeq, Typing!SeqOf
<1>3. <<>> \in [1..0 -> Letters]
  OBVIOUS
<1>4. 0 \in 0..MaxLine
  BY DEF TypingConstants
<1>. QED  BY <1>2, <1>3, <1>4 DEF Typing!Words, Typing!BoundedSeq, Typing!SeqOf

\* A word is begun, gets on, and ends.
LEMMA ComposeKeeps ==
  ASSUME TypingConstants, TypingInv, NEW w \in Typing!Words,
         Typing!compositionStart \/ Typing!compositionUpdate(w) \/ Typing!compositionEnd(w)
  PROVE  TypingInv'
<1>1. TypingTypes /\ w \in Text /\ <<>> \in Text /\ <<>> \in Typing!Words
  <2>1. <<>> \in Text
    BY DEF Text
  <2>. QED  BY <2>1, WordsAreText DEF TypingInv
<1>2. CASE Typing!compositionStart
  <2>1. /\ UNCHANGED <<line, context, armed, rest, before, disturbed>>
        /\ composed' = <<>> /\ ~composing
    BY <1>2 DEF Typing!compositionStart
  <2>2. composing' = TRUE /\ opening' = TRUE
    BY <1>2 DEF Typing!compositionStart
  <2>3. composing' \in BOOLEAN /\ opening' \in BOOLEAN /\ composing' /\ opening'
    BY <2>2, Zenon
  <2>4. TypingTypes'
    BY <1>1, <2>1, <2>3 DEF TypingTypes
  <2>5. ~disturbed => Typing!Matches'
    BY <2>1, <2>3 DEF TypingInv, Typing!Matches, Typing!Field
  <2>6. disturbed' <=> disturbed
    BY <2>1
  <2>. QED  BY <2>3, <2>4, <2>5, <2>6 DEF TypingInv
<1>3. CASE Typing!compositionUpdate(w)
  <2>. DEFINE word == Typing!Reclaimed(w)
              prev == IF opening THEN word ELSE composed
              d == Typing!Drop(context, Len(word))
  <2>1. /\ composing /\ (opening => Typing!IsPrefix(Typing!lastWord, w))
        /\ opening' = FALSE /\ context' = d /\ Typing!SendDiff(prev, w)
        /\ composed' = w
        /\ before' = IF opening THEN Typing!Drop(context, Len(Typing!lastWord)) ELSE before
        /\ UNCHANGED <<composing, rest>>
    BY <1>3 DEF Typing!compositionUpdate
  <2>2. /\ Typing!lastWord \in Text /\ Len(Typing!lastWord) \in 0..Len(context)
        /\ Typing!Drop(context, Len(Typing!lastWord)) \o Typing!lastWord = context
    BY <1>1, LastWordEnds DEF TypingTypes
  <2>3. opening' \in BOOLEAN /\ ~opening' /\ (composing' <=> composing)
    BY <2>1, Zenon
  <2>4. CASE opening
    <3>1. word = Typing!lastWord
      BY <2>1, <2>4 DEF Typing!Reclaimed
    <3>2. prev = Typing!lastWord /\ prev \in Text /\ d \in Text
          /\ d \o prev = context /\ before' = d
      <4>1. Len(word) \in Nat
        BY <1>1, <2>2, <3>1 DEF TypingTypes, Text
      <4>. QED  BY <1>1, <2>1, <2>2, <2>4, <3>1, <4>1, DropType DEF TypingTypes
    <3>. HIDE DEF prev, d, word
    <3>. DEFINE x == rest \o d
    <3>3. x \in Text
      BY <1>1, <3>2, ConcatProperties DEF TypingTypes, Text
    <3>4. /\ line' \in Text /\ armed' \in BOOLEAN /\ disturbed' \in BOOLEAN
          /\ ~disturbed' => ~disturbed
          /\ ~disturbed' /\ line = x \o prev => line' = x \o w
      <4>. HIDE DEF x
      <4>1. /\ line \in Text /\ armed \in BOOLEAN /\ disturbed \in BOOLEAN
        BY <1>1 DEF TypingTypes
      <4>. QED  BY <1>1, <2>1, <3>2, <3>3, <4>1, DiffSent
    <3>5. ~disturbed => line = x \o prev
      <4>1. rest \in Seq(Chars) /\ d \in Seq(Chars) /\ prev \in Seq(Chars)
        BY <1>1, <3>2 DEF TypingTypes, Text
      <4>2. (rest \o d) \o prev = rest \o (d \o prev)
        BY <4>1, ConcatAssociative
      <4>3. ~disturbed => line = rest \o context
        BY <2>4 DEF TypingInv, Typing!Matches, Typing!Field
      <4>. QED  BY <3>2, <4>2, <4>3
    <3>6. x \o w = rest \o (d \o w)
      <4>1. rest \in Seq(Chars) /\ d \in Seq(Chars) /\ w \in Seq(Chars)
        BY <1>1, <3>2 DEF TypingTypes, Text
      <4>. QED  BY <4>1, ConcatAssociative
    <3>7. TypingTypes'
      BY <1>1, <2>1, <2>3, <3>2, <3>4 DEF TypingTypes
    <3>8. ~disturbed' => Typing!Matches' /\ context' = before'
      BY <2>1, <2>3, <3>2, <3>4, <3>5, <3>6 DEF Typing!Matches, Typing!Field
    <3>. QED  BY <2>1, <2>3, <3>7, <3>8 DEF TypingInv
  <2>5. CASE ~opening
    <3>1. word = <<>> /\ prev = composed
      BY <2>5 DEF Typing!Reclaimed
    <3>2. d = context /\ before' = before
      BY <1>1, <2>1, <2>5, <3>1, DropType DEF TypingTypes
    <3>. HIDE DEF prev, d, word
    <3>. DEFINE x == rest \o before
    <3>3. x \in Text
      BY <1>1, ConcatProperties DEF TypingTypes, Text
    <3>4. /\ line' \in Text /\ armed' \in BOOLEAN /\ disturbed' \in BOOLEAN
          /\ ~disturbed' => ~disturbed
          /\ ~disturbed' /\ line = x \o composed => line' = x \o w
      <4>. HIDE DEF x
      <4>1. /\ line \in Text /\ armed \in BOOLEAN /\ disturbed \in BOOLEAN /\ composed \in Text
        BY <1>1 DEF TypingTypes
      <4>. QED  BY <1>1, <2>1, <3>1, <3>3, <4>1, DiffSent
    <3>5. \A s \in Text : x \o s = rest \o (before \o s)
      <4>1. rest \in Seq(Chars) /\ before \in Seq(Chars)
        BY <1>1 DEF TypingTypes, Text
      <4>. QED  BY <4>1, ConcatAssociative DEF Text
    <3>6. composed \in Text /\ x \o composed = rest \o (before \o composed)
          /\ x \o w = rest \o (before \o w)
      BY <1>1, <3>5 DEF TypingTypes
    <3>7. ~disturbed => line = x \o composed /\ context = before
      BY <2>1, <2>5, <3>6 DEF TypingInv, Typing!Matches, Typing!Field
    <3>8. TypingTypes'
      BY <1>1, <2>1, <2>3, <3>2, <3>4 DEF TypingTypes
    <3>9. ~disturbed' => Typing!Matches' /\ context' = before'
      BY <2>1, <2>3, <3>2, <3>4, <3>6, <3>7 DEF Typing!Matches, Typing!Field
    <3>. QED  BY <2>1, <2>3, <3>8, <3>9 DEF TypingInv
  <2>. QED  BY <2>4, <2>5
<1>4. CASE Typing!compositionEnd(w)
  <2>1. /\ composing /\ ~opening /\ Typing!SendDiff(composed, w)
        /\ composed' = <<>> /\ context' = context \o w /\ before' = <<>> /\ rest' = rest
    BY <1>4 DEF Typing!compositionEnd
  <2>2. composing' = FALSE /\ opening' = FALSE
    BY <1>4 DEF Typing!compositionEnd
  <2>3. composing' \in BOOLEAN /\ opening' \in BOOLEAN /\ ~composing'
    BY <2>2, Zenon
  <2>. DEFINE x == rest \o before
  <2>4. x \in Text /\ context \o w \in Text
    BY <1>1, ConcatProperties DEF TypingTypes, Text
  <2>5. /\ line' \in Text /\ armed' \in BOOLEAN /\ disturbed' \in BOOLEAN
        /\ ~disturbed' => ~disturbed
        /\ ~disturbed' /\ line = x \o composed => line' = x \o w
    <3>. HIDE DEF x
    <3>1. /\ line \in Text /\ armed \in BOOLEAN /\ disturbed \in BOOLEAN /\ composed \in Text
      BY <1>1 DEF TypingTypes
    <3>. QED  BY <1>1, <2>1, <2>4, <3>1, DiffSent
  <2>6. \A s \in Text : x \o s = rest \o (before \o s)
    <3>1. rest \in Seq(Chars) /\ before \in Seq(Chars)
      BY <1>1 DEF TypingTypes, Text
    <3>. QED  BY <3>1, ConcatAssociative DEF Text
  <2>7. x \o composed = rest \o (before \o composed) /\ x \o w = rest \o (before \o w)
    BY <1>1, <2>6 DEF TypingTypes
  <2>8. ~disturbed => line = x \o composed /\ context = before
    BY <2>1, <2>7 DEF TypingInv, Typing!Matches, Typing!Field
  <2>9. TypingTypes'
    BY <1>1, <2>1, <2>3, <2>4, <2>5 DEF TypingTypes
  <2>10. ~disturbed' => Typing!Matches'
    BY <2>1, <2>3, <2>5, <2>7, <2>8 DEF Typing!Matches, Typing!Field
  <2>. QED  BY <2>1, <2>3, <2>9, <2>10 DEF TypingInv
<1>. QED  BY <1>2, <1>3, <1>4

\* Text that comes after the line so far.
LEMMA GoesOn ==
  ASSUME TypingInv, NEW t \in Text
  PROVE  /\ line \o t \in Text /\ context \o t \in Text
         /\ rest \o (context \o t) = (rest \o context) \o t
<1>1. line \in Seq(Chars) /\ context \in Seq(Chars) /\ rest \in Seq(Chars) /\ t \in Seq(Chars)
  BY DEF TypingInv, TypingTypes, Text
<1>2. line \o t \in Seq(Chars) /\ context \o t \in Seq(Chars)
  BY <1>1, ConcatProperties
<1>3. (rest \o context) \o t = rest \o (context \o t)
  BY <1>1, ConcatAssociative
<1>. QED  BY <1>2, <1>3 DEF Text

\* Edits between words: what the keyboard shows is the context.
LEMMA EditKeeps ==
  ASSUME TypingConstants, TypingInv, ~composing, ~composing', composing' \in BOOLEAN,
         composed' = <<>>, opening' \in BOOLEAN,
         line' \in Text, context' \in Text, rest' \in Text, before' \in Text,
         armed' \in BOOLEAN, disturbed' \in BOOLEAN,
         ~disturbed' => line' = rest' \o context'
  PROVE  TypingInv'
<1>1. <<>> \in Text /\ <<>> \in Typing!Words
  <2>1. <<>> \in Text
    BY DEF Text
  <2>. QED  BY <2>1, WordsAreText
<1>2. TypingTypes'
  BY <1>1 DEF TypingTypes
<1>. QED  BY <1>2 DEF TypingInv, Typing!Matches, Typing!Field

LEMMA SettledFacts ==
  ASSUME TypingInv
  PROVE  /\ line \in Text /\ context \in Text /\ rest \in Text /\ before \in Text
         /\ armed \in BOOLEAN /\ disturbed \in BOOLEAN /\ opening \in BOOLEAN
         /\ composing \in BOOLEAN /\ composed \in Text
         /\ ~composing => composed = <<>>
         /\ ~composing /\ ~disturbed => line = rest \o context
BY DEF TypingInv, TypingTypes, Typing!Matches, Typing!Field

LEMMA EditedFacts ==
  ASSUME Typing!Edited, opening \in BOOLEAN
  PROVE  ~composing' /\ composing' \in BOOLEAN /\ composed' = <<>> /\ opening' \in BOOLEAN
<1>1. composing' = FALSE /\ opening' = opening /\ composed' = <<>>
  BY DEF Typing!Edited
<1>. QED  BY <1>1, Zenon

LEMMA InsertKeeps ==
  ASSUME TypingConstants, TypingInv, NEW c \in Chars, Typing!insertText(c)
  PROVE  TypingInv'
<1>1. /\ ~composing /\ Typing!SendDiff(composed, <<c>>) /\ Typing!Edited
      /\ context' = Append(context, c) /\ UNCHANGED <<rest, before>>
  BY DEF Typing!insertText
<1>2. /\ line \in Text /\ context \in Text /\ rest \in Text /\ before \in Text
      /\ armed \in BOOLEAN /\ disturbed \in BOOLEAN /\ opening \in BOOLEAN
      /\ composed = <<>> /\ composed \in Text
      /\ ~disturbed => line = rest \o context
  BY <1>1, SettledFacts
<1>. DEFINE t == <<c>>
<1>3. t \in Text /\ context' = context \o t
  <2>1. t \in Seq(Chars) /\ context \in Seq(Chars)
    BY <1>2 DEF Text
  <2>. QED  BY <1>1, <2>1, AppendIsConcat DEF Text
<1>. HIDE DEF t
<1>4. /\ line' \in Text /\ armed' \in BOOLEAN /\ disturbed' \in BOOLEAN
      /\ ~disturbed' => ~disturbed
      /\ ~disturbed' /\ line = line \o composed => line' = line \o t
  <2>1. Typing!SendDiff(composed, t)
    BY <1>1 DEF t
  <2>. QED  BY <1>2, <1>3, <2>1, DiffSent
<1>5. line \o composed = line
  BY <1>2, ConcatEmptySeq DEF Text
<1>6. ~disturbed' => line' = rest' \o context'
  BY <1>1, <1>2, <1>3, <1>4, <1>5, GoesOn
<1>7. ~composing' /\ composing' \in BOOLEAN /\ composed' = <<>> /\ opening' \in BOOLEAN
  BY <1>1, <1>2, EditedFacts
<1>8. context' \in Text
  BY <1>3, GoesOn
<1>. QED  BY <1>1, <1>2, <1>4, <1>6, <1>7, <1>8, EditKeeps

\* What is cut off the line is cut off the context.
LEMMA BothDrop ==
  ASSUME TypingInv, NEW n \in Nat, n <= Len(context)
  PROVE  Typing!Drop(rest \o context, n) = rest \o Typing!Drop(context, n)
<1>1. rest \in Text /\ context \in Text /\ Len(context) \in Nat
  BY SettledFacts DEF Text
<1>2. n \in 0..Len(context)
  BY <1>1
<1>. QED  BY <1>1, <1>2, DropEnd

LEMMA ReplaceKeeps ==
  ASSUME TypingConstants, TypingInv, NEW n \in 1..MaxLine, NEW w \in Typing!Words,
         Typing!replaceRange(n, w)
  PROVE  TypingInv'
<1>1. /\ ~composing /\ n <= Len(context) /\ Typing!Send(n, w) /\ Typing!Edited
      /\ context' = Typing!Drop(context, n) \o w /\ UNCHANGED <<rest, before>>
  BY DEF Typing!replaceRange
<1>2. /\ line \in Text /\ context \in Text /\ rest \in Text /\ before \in Text
      /\ armed \in BOOLEAN /\ disturbed \in BOOLEAN /\ opening \in BOOLEAN
      /\ ~disturbed => line = rest \o context
  BY <1>1, SettledFacts
<1>3. n \in Nat /\ w \in Text
  BY WordsAreText DEF TypingConstants
<1>4. /\ line' \in Text /\ armed' \in BOOLEAN /\ disturbed' \in BOOLEAN
      /\ ~disturbed' => ~disturbed /\ line' = Typing!Drop(line, n) \o w
  BY <1>1, <1>2, <1>3, Sends
<1>5. Typing!Drop(rest \o context, n) = rest \o Typing!Drop(context, n)
  BY <1>1, <1>3, BothDrop
<1>. DEFINE d == Typing!Drop(context, n)
<1>6. d \in Text
  BY <1>2, <1>3, DropType
<1>. HIDE DEF d
<1>7. d \o w \in Text /\ (rest \o d) \o w = rest \o (d \o w)
  <2>1. d \in Seq(Chars) /\ w \in Seq(Chars) /\ rest \in Seq(Chars)
    BY <1>2, <1>3, <1>6 DEF Text
  <2>. QED  BY <2>1, ConcatAssociative, ConcatProperties DEF Text
<1>8. ~disturbed' => line' = rest' \o context'
  BY <1>1, <1>2, <1>4, <1>5, <1>7 DEF d
<1>9. context' \in Text
  BY <1>1, <1>7 DEF d
<1>10. ~composing' /\ composing' \in BOOLEAN /\ composed' = <<>> /\ opening' \in BOOLEAN
  BY <1>1, <1>2, EditedFacts
<1>. QED  BY <1>1, <1>2, <1>4, <1>8, <1>9, <1>10, EditKeeps

LEMMA DeleteKeeps ==
  ASSUME TypingConstants, TypingInv, Typing!deleteBackward
  PROVE  TypingInv'
<1>1. /\ ~composing /\ Typing!Send(1, <<>>)
      /\ context' = Typing!Drop(context, 1)
      /\ rest' = IF context = <<>> THEN Typing!Drop(rest, 1) ELSE rest
      /\ UNCHANGED <<composing, composed, opening, before>>
  BY DEF Typing!deleteBackward
<1>2. /\ line \in Text /\ context \in Text /\ rest \in Text /\ before \in Text
      /\ armed \in BOOLEAN /\ disturbed \in BOOLEAN /\ opening \in BOOLEAN
      /\ composing \in BOOLEAN /\ composed = <<>>
      /\ ~disturbed => line = rest \o context
  BY <1>1, SettledFacts
<1>3. <<>> \in Text
  BY DEF Text
<1>4. Typing!Drop(line, 1) \in Text /\ Typing!Drop(rest, 1) \in Text
      /\ Typing!Drop(context, 1) \in Text
      /\ (context = <<>> => Typing!Drop(context, 1) = <<>>)
  BY <1>2, DropType
<1>5. /\ line' \in Text /\ armed' \in BOOLEAN /\ disturbed' \in BOOLEAN
      /\ ~disturbed' => ~disturbed /\ line' = Typing!Drop(line, 1)
  <2>1. /\ line' \in Text /\ armed' \in BOOLEAN /\ disturbed' \in BOOLEAN
        /\ ~disturbed' => ~disturbed /\ line' = Typing!Drop(line, 1) \o <<>>
    BY <1>1, <1>2, <1>3, Sends
  <2>2. Typing!Drop(line, 1) \o <<>> = Typing!Drop(line, 1)
    BY <1>4, ConcatEmptySeq DEF Text
  <2>. QED  BY <2>1, <2>2
<1>6. ~disturbed' => line' = rest' \o context'
  <2>1. CASE context = <<>>
    <3>1. rest \o context = rest /\ Typing!Drop(rest, 1) \o <<>> = Typing!Drop(rest, 1)
      BY <1>2, <1>4, <2>1, ConcatEmptySeq DEF Text
    <3>. QED  BY <1>1, <1>2, <1>4, <1>5, <2>1, <3>1
  <2>2. CASE context # <<>>
    <3>1. 1 \in Nat /\ 1 <= Len(context)
      BY <1>2, <2>2 DEF Text
    <3>2. Typing!Drop(rest \o context, 1) = rest \o Typing!Drop(context, 1)
      BY <3>1, BothDrop
    <3>. QED  BY <1>1, <1>2, <1>5, <2>2, <3>2
  <2>. QED  BY <2>1, <2>2
<1>7. rest' \in Text /\ context' \in Text
  BY <1>1, <1>2, <1>4
<1>8. ~composing' /\ composing' \in BOOLEAN /\ opening' \in BOOLEAN /\ composed' = <<>>
  BY <1>1, <1>2, Zenon
<1>. QED  BY <1>1, <1>2, <1>5, <1>6, <1>7, <1>8, EditKeeps

LEMMA EnterKeeps ==
  ASSUME TypingConstants, TypingInv, Typing!enter
  PROVE  TypingInv'
<1>1. /\ ~composing /\ line' = <<>> /\ context' = <<>> /\ Typing!Edited
      /\ rest' = <<>> /\ before' = before
  BY DEF Typing!enter
<1>2. armed' = FALSE /\ disturbed' = FALSE
  BY DEF Typing!enter
<1>3. armed' \in BOOLEAN /\ disturbed' \in BOOLEAN
  BY <1>2, Zenon
<1>4. <<>> \in Text /\ <<>> = <<>> \o <<>>
  BY DEF Text
<1>5. before \in Text /\ opening \in BOOLEAN
  BY SettledFacts
<1>6. ~composing' /\ composing' \in BOOLEAN /\ composed' = <<>> /\ opening' \in BOOLEAN
  BY <1>1, <1>5, EditedFacts
<1>. QED  BY <1>1, <1>3, <1>4, <1>5, <1>6, EditKeeps

LEMMA PasteKeeps ==
  ASSUME TypingConstants, TypingInv, NEW w \in Typing!Words, Typing!Paste(w)
  PROVE  TypingInv'
<1>1. /\ ~composing /\ line' = line \o w /\ context' = context \o w
      /\ UNCHANGED <<composing, composed, opening, armed, rest, before, disturbed>>
  BY DEF Typing!Paste
<1>2. w \in Text
  BY WordsAreText
<1>3. /\ line \in Text /\ context \in Text /\ rest \in Text /\ before \in Text
      /\ armed \in BOOLEAN /\ disturbed \in BOOLEAN /\ opening \in BOOLEAN
      /\ composing \in BOOLEAN /\ composed = <<>>
      /\ ~disturbed => line = rest \o context
  BY <1>1, SettledFacts
<1>4. line' \in Text /\ context' \in Text /\ (~disturbed => line' = rest \o context')
  BY <1>1, <1>2, <1>3, GoesOn
<1>5. /\ ~composing' /\ composing' \in BOOLEAN /\ opening' \in BOOLEAN
      /\ armed' \in BOOLEAN /\ disturbed' \in BOOLEAN /\ (~disturbed' => ~disturbed)
  BY <1>1, <1>3, Zenon
<1>. QED  BY <1>1, <1>3, <1>4, <1>5, EditKeeps

\* What comes behind the context's back.
LEMMA BehindKeeps ==
  ASSUME TypingConstants, TypingInv,
         \/ Typing!ArmModifier
         \/ \E w \in Typing!Words : Typing!TypedOutside(w)
         \/ \E l \in {<<>>, <<"a", "b">>} : Typing!CursorKey(l)
  PROVE  TypingInv'
<1>1. TypingTypes
  BY DEF TypingInv
<1>2. CASE Typing!ArmModifier
  <2>1. /\ UNCHANGED <<line, context, composing, composed, opening, rest, before, disturbed>>
        /\ armed' \in BOOLEAN
    <3>1. armed' = TRUE
      BY <1>2 DEF Typing!ArmModifier
    <3>2. armed' \in BOOLEAN
      BY <3>1, Zenon
    <3>. QED  BY <1>2, <3>2 DEF Typing!ArmModifier
  <2>2. TypingTypes'
    BY <1>1, <2>1 DEF TypingTypes
  <2>. QED  BY <2>1, <2>2 DEF TypingInv, Typing!Matches, Typing!Field
<1>3. ASSUME NEW w \in Typing!Words, Typing!TypedOutside(w) PROVE TypingInv'
  <2>1. /\ UNCHANGED <<context, composing, composed, opening, armed, rest, before>>
        /\ line' = line \o w
    BY <1>3 DEF Typing!TypedOutside
  <2>2. disturbed' = TRUE
    BY <1>3 DEF Typing!TypedOutside
  <2>3. disturbed' \in BOOLEAN /\ disturbed'
    BY <2>2, Zenon
  <2>4. line' \in Text
    BY <2>1, GoesOn, WordsAreText
  <2>5. TypingTypes'
    BY <1>1, <2>1, <2>3, <2>4 DEF TypingTypes
  <2>. QED  BY <2>1, <2>3, <2>5 DEF TypingInv
<1>4. ASSUME NEW l \in {<<>>, <<"a", "b">>}, Typing!CursorKey(l) PROVE TypingInv'
  <2>1. /\ UNCHANGED <<composing, composed, opening, armed, before>>
        /\ context' = (IF composing THEN context ELSE <<>>) /\ line' = l /\ rest' = l
    BY <1>4 DEF Typing!CursorKey, Typing!resetContext
  <2>2. disturbed' = composing
    BY <1>4 DEF Typing!CursorKey
  <2>3. disturbed' \in BOOLEAN /\ (~disturbed' => ~composing)
    BY <1>1, <2>2, Zenon DEF TypingTypes
  <2>4. l \in Text /\ <<>> \in Text
    <3>1. {"a", "b"} \subseteq Chars
      BY DEF TypingConstants, Chars
    <3>2. <<"a", "b">> \in Seq(Chars) /\ <<>> \in Seq(Chars)
      <4>. HIDE DEF Chars
      <4>1. "a" \in Chars /\ "b" \in Chars
        BY <3>1
      <4>. QED  BY <4>1
    <3>. QED  BY <3>2 DEF Text
  <2>5. TypingTypes'
    BY <1>1, <2>1, <2>3, <2>4 DEF TypingTypes
  <2>6. l \o <<>> = l
    BY <2>4, ConcatEmptySeq DEF Text
  <2>7. ~disturbed' => Typing!Matches'
    BY <2>1, <2>3, <2>6 DEF Typing!Matches, Typing!Field
  <2>. QED  BY <2>1, <2>3, <2>5, <2>7 DEF TypingInv
<1>. QED  BY <1>2, <1>3, <1>4

LEMMA TypingStep ==
  TypingConstants /\ TypingInv /\ [Typing!Next]_(Typing!vars) => TypingInv'
<1>. SUFFICES ASSUME TypingConstants, TypingInv, [Typing!Next]_(Typing!vars) PROVE TypingInv'
  OBVIOUS
<1>1. CASE UNCHANGED Typing!vars
  BY <1>1 DEF Typing!vars, TypingInv, TypingTypes, Typing!Matches, Typing!Field
<1>2. CASE Typing!Events
  <2>1. ASSUME NEW w \in Typing!Words, Typing!Paste(w) PROVE TypingInv'
    BY <2>1, PasteKeeps
  <2>2. ASSUME NEW w \in Typing!Words, NEW n \in 1..MaxLine, Typing!replaceRange(n, w)
        PROVE  TypingInv'
    BY <2>2, ReplaceKeeps
  <2>3. ASSUME NEW w \in Typing!Words,
               Typing!compositionUpdate(w) \/ Typing!compositionEnd(w)
        PROVE  TypingInv'
    BY <2>3, ComposeKeeps
  <2>4. CASE Typing!compositionStart
    <3>1. <<>> \in Typing!Words
      BY WordsAreText
    <3>. QED  BY <2>4, <3>1, ComposeKeeps
  <2>5. ASSUME NEW c \in Letters \cup {Space}, Typing!insertText(c) PROVE TypingInv'
    BY <2>5, InsertKeeps DEF Chars
  <2>6. CASE \/ Typing!ArmModifier
             \/ \E w \in Typing!Words : Typing!TypedOutside(w)
             \/ \E l \in {<<>>, <<"a", "b">>} : Typing!CursorKey(l)
    BY <2>6, BehindKeeps
  <2>. QED  BY <1>2, <2>1, <2>2, <2>3, <2>4, <2>5, <2>6, DeleteKeeps, EnterKeeps
            DEF Typing!Events
<1>. QED  BY <1>1, <1>2 DEF Typing!Next

LEMMA TypingInit == TypingConstants /\ Typing!Init => TypingInv
<1>. SUFFICES ASSUME TypingConstants, Typing!Init PROVE TypingInv
  OBVIOUS
<1>1. rest = <<>> /\ before = <<>> /\ line = <<>> /\ context = <<>> /\ composed = <<>>
  BY DEF Typing!Init
<1>2. composing = FALSE /\ opening = FALSE /\ armed = FALSE /\ disturbed = FALSE
  BY DEF Typing!Init
<1>3. /\ composing \in BOOLEAN /\ opening \in BOOLEAN /\ armed \in BOOLEAN
      /\ disturbed \in BOOLEAN /\ ~composing
  BY <1>2, Zenon
<1>4. <<>> \in Text /\ <<>> \in Typing!Words /\ <<>> = <<>> \o <<>>
  <2>1. <<>> \in Text /\ <<>> = <<>> \o <<>>
    BY DEF Text
  <2>. QED  BY <2>1, WordsAreText
<1>5. TypingTypes
  BY <1>1, <1>3, <1>4 DEF TypingTypes
<1>6. Typing!Matches
  BY <1>1, <1>3, <1>4 DEF Typing!Matches, Typing!Field
<1>. QED  BY <1>1, <1>3, <1>5, <1>6 DEF TypingInv

LEMMA TypingShown == TypingInv => Typing!TypeOK /\ Typing!InStep
<1>. SUFFICES ASSUME TypingInv PROVE Typing!TypeOK /\ Typing!InStep
  OBVIOUS
<1>1. {composing, opening, armed, disturbed} \subseteq BOOLEAN
  <2>1. /\ composing \in BOOLEAN /\ opening \in BOOLEAN /\ armed \in BOOLEAN
        /\ disturbed \in BOOLEAN
    BY DEF TypingInv, TypingTypes
  <2>. QED  BY <2>1, Zenon
<1>2. Typing!TypeOK
  BY <1>1 DEF TypingInv, TypingTypes, Text, Chars, Typing!TypeOK
<1>. QED  BY <1>2 DEF TypingInv, Typing!InStep

\* What the Android keyboard holds is what is on the line, until the line changes behind
\* its back, however long the line gets (android-input.ts).
THEOREM InStepAlways == TypingConstants => (Spec => []InStep)
<1>. SUFFICES ASSUME TypingConstants PROVE Spec => []InStep
  OBVIOUS
<1>. DEFINE Inv == part = "typing" => TypingInv
<1>1. Init => Inv
  BY TypingInit DEF Init
<1>2. Inv /\ [Next]_vars => Inv'
  <2>1. CASE part = "typing"
    <3>1. [Next]_vars => part' = part /\ [Typing!Next]_(Typing!vars)
      BY <2>1 DEF Next, vars, typing, Typing!vars
    <3>. QED  BY <2>1, <3>1, TypingStep
  <2>2. CASE part # "typing"
    BY <2>2 DEF Next, vars
  <2>. QED  BY <2>1, <2>2
<1>3. Inv => InStep
  BY TypingShown DEF InStep
<1>. QED  BY <1>1, <1>2, <1>3, PTL DEF Spec

-----------------------------------------------------------------------------
(* The browser stays in its project folder *)

FilePaths == Seq({"a", "b", "sub"})

\* A path below a project folder, which is a path of one segment.
Under(top, p) == top \in {A, B} /\ p \in FilePaths /\ p # <<>> /\ p[1] = top[1]

\* A listing, or a request for one, of the current visit is under its folder.
Belongs(x) == /\ x.path \in FilePaths /\ x.visit \in 0..visit
              /\ x.visit = visit => Under(root, x.path)

BrowsingInv ==
  /\ at \in {"terminal", "browser"} /\ visit \in 0..2 /\ root \in {A, B, None}
  /\ viewFailed \in BOOLEAN /\ fileView = Browsing!NoFile
  /\ current = None /\ minted = {} /\ loads = <<>> /\ twice = FALSE
  /\ IsFiniteSet(reads) /\ Cardinality(reads) <= 2
  /\ \A c \in reads : c.kind = "browse" /\ Belongs(c)
  /\ rows # None => Belongs(rows)

LEMMA FirstSegment ==
  ASSUME NEW p \in FilePaths, p # <<>>
  PROVE  SubSeq(p, 1, 1) = <<p[1]>>
<1>. DEFINE S == {"a", "b", "sub"}
            s == SubSeq(p, 1, 1)
            t == <<p[1]>>
<1>1. p \in Seq(S) /\ Len(p) \in Nat /\ Len(p) >= 1 /\ p[1] \in S
  BY DEF FilePaths
<1>2. s \in Seq(S) /\ Len(s) = 1 /\ s[1] = p[1]
  BY <1>1
<1>3. t \in Seq(S) /\ Len(t) = 1 /\ t[1] = p[1]
  BY <1>1
<1>4. s = t
  <2>. HIDE DEF s, t, S
  <2>1. \A i \in 1..Len(s) : s[i] = t[i]
    BY <1>2, <1>3
  <2>. QED  BY <1>2, <1>3, <2>1, SeqEqual
<1>. QED  BY <1>4

LEMMA UnderIsPrefix ==
  ASSUME NEW top, NEW p, Under(top, p)
  PROVE  Browsing!IsPrefix(top, p)
<1>1. p \in FilePaths /\ p # <<>> /\ Len(p) >= 1 /\ p[1] = top[1]
  BY DEF Under, FilePaths
<1>2. Len(<<"a">>) = 1 /\ Len(<<"b">>) = 1 /\ <<"a">> \in FilePaths /\ <<"b">> \in FilePaths
  BY DEF FilePaths
<1>3. Len(top) = 1 /\ top \in FilePaths /\ top # <<>>
  BY <1>2 DEF Under, A, B
<1>4. SubSeq(top, 1, 1) = SubSeq(p, 1, 1)
  BY <1>1, <1>3, FirstSegment
<1>. QED  BY <1>1, <1>3, <1>4 DEF Browsing!IsPrefix

\* Going down stays under the folder; so does going up, below its top.
LEMMA UnderMoves ==
  ASSUME NEW top, NEW p, Under(top, p)
  PROVE  /\ Under(top, Append(p, "sub"))
         /\ p # top => Under(top, Browsing!Parent(p))
<1>1. p \in FilePaths /\ Len(p) \in Nat /\ Len(p) >= 1 /\ "sub" \in {"a", "b", "sub"}
  BY DEF Under, FilePaths
<1>2. Append(p, "sub") \in FilePaths /\ Append(p, "sub") # <<>> /\ Append(p, "sub")[1] = p[1]
  BY <1>1 DEF FilePaths
<1>3. ASSUME p # top PROVE Under(top, Browsing!Parent(p))
  <2>1. Len(p) > 1
    <3>. SUFFICES ASSUME Len(p) = 1 PROVE FALSE
      BY <1>1
    <3>1. p = <<p[1]>> /\ top = <<top[1]>>
      BY <1>1 DEF FilePaths, Under, A, B
    <3>. QED  BY <3>1, <1>3 DEF Under
  <2>2. Browsing!Parent(p) = SubSeq(p, 1, Len(p) - 1)
    BY <2>1 DEF Browsing!Parent, Browsing!Front
  <2>3. /\ SubSeq(p, 1, Len(p) - 1) \in FilePaths /\ Len(SubSeq(p, 1, Len(p) - 1)) >= 1
        /\ SubSeq(p, 1, Len(p) - 1)[1] = p[1]
    BY <1>1, <2>1 DEF FilePaths
  <2>4. SubSeq(p, 1, Len(p) - 1) # <<>>
    BY <2>3
  <2>. QED  BY <2>2, <2>3, <2>4 DEF Under
<1>. QED  BY <1>2, <1>3 DEF Under

\* Paths stay paths.
LEMMA PathMoves ==
  ASSUME NEW p \in FilePaths
  PROVE  Append(p, "sub") \in FilePaths /\ Browsing!Parent(p) \in FilePaths
<1>1. CASE p = <<>>
  BY <1>1 DEF FilePaths, Browsing!Parent
<1>2. CASE p # <<>>
  <2>1. Len(p) >= 1 /\ Browsing!Parent(p) = SubSeq(p, 1, Len(p) - 1)
    BY <1>2 DEF FilePaths, Browsing!Parent, Browsing!Front
  <2>. QED  BY <2>1 DEF FilePaths
<1>. QED  BY <1>1, <1>2

LEMMA BrowsingCardinality ==
  ASSUME NEW S PROVE Browsing!Cardinality(S) = Cardinality(S)
BY DEF Browsing!Cardinality, Cardinality

\* A request more.
LEMMA BrowsingAsks ==
  ASSUME IsFiniteSet(reads), Cardinality(reads) <= 2,
         NEW p, NEW v, Browsing!Call("browse", p, v)
  PROVE  /\ reads' = reads \cup {[kind |-> "browse", path |-> p, visit |-> v]}
         /\ IsFiniteSet(reads') /\ Cardinality(reads') <= 2
<1>. DEFINE c == [kind |-> "browse", path |-> p, visit |-> v]
<1>1. reads' = reads \cup {c} /\ Cardinality(reads) < 2
  BY BrowsingCardinality DEF Browsing!Call
<1>2. Cardinality(reads) \in Nat
  BY FS_CardinalityType
<1>3. /\ IsFiniteSet(reads \cup {c})
      /\ Cardinality(reads \cup {c}) \in {Cardinality(reads), Cardinality(reads) + 1}
  BY FS_AddElement
<1>. QED  BY <1>1, <1>2, <1>3

\* A browse request of a listing stays where the listing belongs.
LEMMA BrowsingRequest ==
  ASSUME BrowsingInv, NEW p, rows # None, Belongs([path |-> p, visit |-> rows.visit]),
         Browsing!Browse(p)
  PROVE  BrowsingInv'
<1>. DEFINE c == [kind |-> "browse", path |-> p, visit |-> rows.visit]
<1>1. /\ reads' = reads \cup {c} /\ IsFiniteSet(reads') /\ Cardinality(reads') <= 2
      /\ UNCHANGED <<at, visit, root, rows, fileView, viewFailed, wanted, current, minted,
                     loads, twice>>
  BY BrowsingAsks DEF BrowsingInv, Browsing!Browse, Browsing!files
<1>2. c.kind = "browse" /\ Belongs(c)
  BY DEF Belongs
<1>3. \A d \in reads' : d.kind = "browse" /\ Belongs(d)
  BY <1>1, <1>2 DEF BrowsingInv
<1>4. (\A d \in reads : d.kind = "browse" /\ Belongs(d))' /\ (rows # None => Belongs(rows))'
  BY <1>1, <1>3 DEF Belongs, BrowsingInv
<1>. QED  BY <1>1, <1>4 DEF BrowsingInv

LEMMA BrowsingMoves ==
  ASSUME BrowsingInv,
         Browsing!BrowseInto("sub") \/ Browsing!BrowserBack \/ Browsing!CloseBrowser
           \/ Browsing!CloseViewer \/ Browsing!Leave
  PROVE  BrowsingInv'
<1>1. CASE \/ Browsing!BrowseInto("sub")
           \/ rows # None /\ ~Browsing!AtRoot /\ Browsing!Browse(Browsing!Parent(rows.path))
  <2>1. PICK p \in {Append(rows.path, "sub"), Browsing!Parent(rows.path)} :
          /\ rows # None /\ Browsing!Browse(p)
          /\ p = Browsing!Parent(rows.path) => rows.path # root \/ p = Append(rows.path, "sub")
    BY <1>1 DEF Browsing!BrowseInto, Browsing!AtRoot
  <2>2. Belongs(rows) /\ rows.path \in FilePaths /\ rows.visit \in 0..visit
    BY <2>1 DEF BrowsingInv, Belongs
  <2>3. p \in FilePaths
    BY <2>1, <2>2, PathMoves
  <2>4. rows.visit = visit => Under(root, p)
    BY <2>1, <2>2, UnderMoves DEF Belongs
  <2>5. Belongs([path |-> p, visit |-> rows.visit])
    BY <2>2, <2>3, <2>4 DEF Belongs
  <2>. QED  BY <2>1, <2>5, BrowsingRequest
<1>2. CASE Browsing!CloseBrowser \/ Browsing!Leave
  <2>1. /\ at' = "terminal"
        /\ UNCHANGED <<visit, root, rows, fileView, viewFailed, wanted, current, minted,
                       loads, reads, twice>>
    BY <1>2 DEF Browsing!CloseBrowser, Browsing!Leave, Browsing!files
  <2>. QED  BY <2>1 DEF BrowsingInv, Belongs
<1>3. CASE Browsing!CloseViewer
  BY <1>3 DEF Browsing!CloseViewer, BrowsingInv
<1>. QED  BY <1>1, <1>2, <1>3 DEF Browsing!BrowserBack

LEMMA BrowsingOpens ==
  ASSUME BrowsingInv, NEW r \in {A, B}, Browsing!OpenBrowser(r)
  PROVE  BrowsingInv'
<1>. DEFINE c == [kind |-> "browse", path |-> r, visit |-> visit + 1]
<1>1. /\ reads' = reads \cup {c} /\ IsFiniteSet(reads') /\ Cardinality(reads') <= 2
      /\ at' = "browser" /\ visit < 2 /\ visit' = visit + 1 /\ root' = r /\ rows' = None
      /\ UNCHANGED <<fileView, viewFailed, wanted, current, minted, loads, twice>>
  BY BrowsingAsks DEF BrowsingInv, Browsing!OpenBrowser, Browsing!files
<1>2. r \in FilePaths /\ Under(r, r)
  <2>1. <<"a">> \in FilePaths /\ <<"b">> \in FilePaths /\ <<"a">> # <<>> /\ <<"b">> # <<>>
    BY DEF FilePaths
  <2>. QED  BY <2>1 DEF Under, A, B
<1>3. c.kind = "browse" /\ c.path = r /\ c.visit = visit + 1
  OBVIOUS
<1>4. visit \in Nat /\ \A d \in reads : d.kind = "browse" /\ d.path \in FilePaths
                                         /\ d.visit \in 0..visit
  BY DEF BrowsingInv, Belongs
<1>5. \A d \in reads' : /\ d.kind = "browse" /\ d.path \in FilePaths
                        /\ d.visit \in 0..visit' /\ (d.visit = visit' => Under(root', d.path))
  BY <1>1, <1>2, <1>3, <1>4
<1>. QED  BY <1>1, <1>5 DEF BrowsingInv, Belongs

LEMMA BrowsingAnswers ==
  ASSUME BrowsingInv, NEW c \in reads, Browsing!Answer(c)
  PROVE  BrowsingInv'
<1>1. /\ reads' = reads \ {c}
      /\ UNCHANGED <<at, visit, root, wanted, current, minted, loads, twice, fileView>>
      /\ c.kind = "browse" /\ Belongs(c)
      /\ rows' = rows \/ rows' = [path |-> c.path, visit |-> c.visit]
  BY DEF BrowsingInv, Browsing!Answer, Browsing!Entries, Browsing!Contents, Browsing!Refused
<1>2. viewFailed' \in BOOLEAN
  <2>1. viewFailed' = viewFailed \/ viewFailed' = (viewFailed \/ at = "viewer")
    BY <1>1 DEF Browsing!Answer, Browsing!Entries, Browsing!Contents, Browsing!Refused
  <2>. QED  BY <2>1, Zenon DEF BrowsingInv
<1>3. IsFiniteSet(reads') /\ Cardinality(reads') <= 2
  <2>1. Cardinality(reads) \in Nat
    BY FS_CardinalityType DEF BrowsingInv
  <2>2. /\ IsFiniteSet(reads \ {c}) /\ c \in reads
        /\ Cardinality(reads \ {c}) = Cardinality(reads) - 1
    BY FS_RemoveElement DEF BrowsingInv
  <2>. QED  BY <1>1, <2>1, <2>2 DEF BrowsingInv
<1>4. rows' # None => (Belongs(rows))'
  BY <1>1 DEF Belongs, BrowsingInv
<1>5. (\A d \in reads : d.kind = "browse" /\ Belongs(d))'
  BY <1>1 DEF Belongs, BrowsingInv
<1>. QED  BY <1>1, <1>2, <1>3, <1>4, <1>5 DEF BrowsingInv

LEMMA BrowsingStep == BrowsingInv /\ [Browsing!Next]_(Browsing!vars) => BrowsingInv'
<1>1. CASE BrowsingInv /\ UNCHANGED Browsing!vars
  BY <1>1 DEF Browsing!vars, BrowsingInv, Belongs
<1>2. CASE BrowsingInv /\ Browsing!Next
  <2>1. {} \cup Browsing!MediaNames = {} /\ DOMAIN loads = {} /\ at # "viewer"
    BY <1>2 DEF BrowsingInv, Browsing!MediaNames, Browsing!ToSet
  <2>2. ~ \E d \in {1, -1} : Browsing!ShowNeighbor(d)
    BY <2>1 DEF Browsing!ShowNeighbor
  <2>. QED  BY <1>2, <2>1, <2>2, BrowsingMoves, BrowsingOpens, BrowsingAnswers
            DEF Browsing!Next
<1>. QED  BY <1>1, <1>2

LEMMA BrowsingInit == Browsing!Init => BrowsingInv
<1>. SUFFICES ASSUME Browsing!Init PROVE BrowsingInv
  OBVIOUS
<1>1. Cardinality({}) = 0 /\ IsFiniteSet({})
  BY FS_EmptySet
<1>2. visit \in 0..2 /\ at = "terminal" /\ root = None /\ rows = None /\ reads = {}
  BY DEF Browsing!Init
<1>3. viewFailed \in BOOLEAN /\ twice = FALSE
  BY Zenon DEF Browsing!Init
<1>4. fileView = Browsing!NoFile /\ current = None /\ minted = {} /\ loads = <<>>
  BY DEF Browsing!Init
<1>. QED  BY <1>1, <1>2, <1>3, <1>4 DEF BrowsingInv

LEMMA BrowsingConfined == BrowsingInv => Browsing!TypeOK /\ Browsing!Confined
<1>. SUFFICES ASSUME BrowsingInv PROVE Browsing!TypeOK /\ Browsing!Confined
  OBVIOUS
<1>1. viewFailed \in BOOLEAN /\ twice \in BOOLEAN
  BY Zenon DEF BrowsingInv
<1>2. {viewFailed, twice} \subseteq BOOLEAN
  BY <1>1, Zenon
<1>3. fileView.url = None
  BY DEF BrowsingInv, Browsing!NoFile
<1>4. Browsing!TypeOK
  BY <1>2, <1>3, BrowsingCardinality DEF Browsing!TypeOK, BrowsingInv
<1>5. Browsing!Confined
  BY UnderIsPrefix DEF Browsing!Confined, BrowsingInv, Belongs
<1>. QED  BY <1>4, <1>5

-----------------------------------------------------------------------------
(* The media on show is the file asked for *)

ViewPaths == Seq({"a", "txt", "img1", "img2"})
Images == {"img1", "img2"}

\* No object URL is named None, and None is no path.
BlobConstants == None \notin Twins /\ None \notin ViewPaths

\* The path of a media file.
MediaPath(p) == p \in ViewPaths /\ p # <<>> /\ p[Len(p)] \in Images

\* A request for a folder, or for a file that is no media.
Request(c) == c.path \in ViewPaths /\ (c.kind = "read" => ~MediaPath(c.path))

BlobTypes ==
  /\ at \in {"terminal", "browser", "viewer"} /\ visit \in 0..1
  /\ root \in {A, None} /\ viewFailed \in BOOLEAN /\ twice \in BOOLEAN
  /\ current \in Twins \cup {None} /\ minted \subseteq Twins
  /\ fileView \in [path : ViewPaths \cup {None}, url : Twins \cup {None}]
  /\ IsFiniteSet(reads) /\ Cardinality(reads) <= 2
  /\ \A c \in reads : Request(c)
  /\ rows # None => rows.path \in ViewPaths
  /\ loads \in Seq(ViewPaths) /\ \A i \in 1..Len(loads) : MediaPath(loads[i])

\* A URL belongs to the media under view, which is what was asked for; the current
\* one has not been revoked.
Viewed ==
  /\ fileView.url # None => MediaPath(fileView.path)
  /\ at = "viewer" /\ MediaPath(fileView.path) => fileView.path = wanted
  /\ at = "viewer" /\ fileView.url # None => fileView.url = current
  /\ current # None => current \in minted

\* No media is being fetched twice.
EachOnce == \A i, j \in 1..Len(loads) : loads[i] = loads[j] => i = j

\* While none was, its answer finds no URL of an earlier one.
NoSecondUrl ==
  ~twice => /\ EachOnce /\ minted \subseteq {current}
            /\ (\E i \in 1..Len(loads) : loads[i] = fileView.path) => current = None

BlobsInv == BlobTypes /\ Viewed /\ NoSecondUrl

LEMMA Removed ==
  ASSUME NEW S, NEW s \in Seq(S), NEW i \in 1..Len(s)
  PROVE  /\ Blobs!RemoveAt(s, i) \in Seq(S) /\ Len(Blobs!RemoveAt(s, i)) = Len(s) - 1
         /\ \A j \in 1..(Len(s) - 1) :
              Blobs!RemoveAt(s, i)[j] = s[IF j < i THEN j ELSE j + 1]
<1>. DEFINE a == SubSeq(s, 1, i - 1)
            b == SubSeq(s, i + 1, Len(s))
<1>1. i \in Int /\ Len(s) \in Nat /\ 1 <= i /\ i <= Len(s)
  OBVIOUS
<1>2. a \in Seq(S) /\ Len(a) = i - 1 /\ \A j \in 1..(i - 1) : a[j] = s[j]
  BY <1>1
<1>3. b \in Seq(S) /\ Len(b) = Len(s) - i /\ \A j \in 1..(Len(s) - i) : b[j] = s[i + j]
  BY <1>1
<1>4. Blobs!RemoveAt(s, i) = a \o b
  BY DEF Blobs!RemoveAt
<1>. HIDE DEF a, b
<1>5. a \o b \in Seq(S) /\ Len(a \o b) = Len(s) - 1
  <2>1. a \o b \in Seq(S) /\ Len(a \o b) = Len(a) + Len(b)
    BY <1>2, <1>3, ConcatProperties
  <2>. QED  BY <1>1, <1>2, <1>3, <2>1
<1>6. ASSUME NEW j \in 1..(Len(s) - 1)
      PROVE  (a \o b)[j] = s[IF j < i THEN j ELSE j + 1]
  <2>1. CASE j < i
    BY <1>1, <1>2, <1>3, <2>1
  <2>2. CASE ~(j < i)
    <3>1. j - (i - 1) \in 1..(Len(s) - i) /\ i + (j - (i - 1)) = j + 1
      BY <1>1, <2>2
    <3>2. (a \o b)[j] = b[j - (i - 1)]
      BY <1>1, <1>2, <1>3, <2>2
    <3>. QED  BY <1>3, <2>2, <3>1, <3>2
  <2>. QED  BY <2>1, <2>2
<1>. QED  BY <1>4, <1>5, <1>6

\* An answer's load is taken off, the others stay.
LEMMA LoadGoes ==
  ASSUME BlobTypes, NEW i \in DOMAIN loads, loads' = Blobs!RemoveAt(loads, i)
  PROVE  /\ loads' \in Seq(ViewPaths) /\ (\A j \in 1..Len(loads') : MediaPath(loads'[j]))
         /\ \A j \in 1..Len(loads') : \E k \in 1..Len(loads) : k # i /\ loads'[j] = loads[k]
         /\ EachOnce => EachOnce'
<1>. DEFINE was(j) == IF j < i THEN j ELSE j + 1
<1>1. /\ loads \in Seq(ViewPaths) /\ Len(loads) \in Nat /\ i \in 1..Len(loads)
      /\ \A j \in 1..Len(loads) : MediaPath(loads[j])
  BY DEF BlobTypes
<1>2. /\ loads' \in Seq(ViewPaths) /\ Len(loads') = Len(loads) - 1
      /\ \A j \in 1..(Len(loads) - 1) : loads'[j] = loads[was(j)]
  BY <1>1, Removed
<1>3. \A j \in 1..Len(loads') : was(j) \in 1..Len(loads) /\ was(j) # i
  BY <1>1, <1>2
<1>4. \A j, k \in 1..Len(loads') : was(j) = was(k) => j = k
  BY <1>1, <1>2
<1>. HIDE DEF was
<1>5. \A j \in 1..Len(loads') : MediaPath(loads'[j])
  BY <1>1, <1>2, <1>3
<1>6. EachOnce => EachOnce'
  BY <1>1, <1>2, <1>3, <1>4 DEF EachOnce
<1>. QED  BY <1>2, <1>3, <1>5, <1>6

LEMMA BlobNames ==
  /\ Blobs!MediaNames = Images
  /\ \A p \in ViewPaths : p # <<>> => (Blobs!Name(p) \in Images <=> MediaPath(p))
<1>1. DOMAIN <<"img1", "img2">> = {1, 2}
  OBVIOUS
<1>2. Blobs!MediaNames = Images
  BY <1>1 DEF Blobs!MediaNames, Blobs!ToSet, Images
<1>. QED  BY <1>2 DEF Blobs!Name, Blobs!Last, MediaPath

\* A request more.
LEMMA BlobsAsks ==
  ASSUME IsFiniteSet(reads), Cardinality(reads) <= 2,
         NEW k, NEW p, NEW v, Blobs!Call(k, p, v)
  PROVE  /\ reads' = reads \cup {[kind |-> k, path |-> p, visit |-> v]}
         /\ IsFiniteSet(reads') /\ Cardinality(reads') <= 2
<1>. DEFINE c == [kind |-> k, path |-> p, visit |-> v]
<1>1. reads' = reads \cup {c} /\ Cardinality(reads) < 2
  BY DEF Blobs!Call, Blobs!Cardinality, Cardinality
<1>2. Cardinality(reads) \in Nat
  BY FS_CardinalityType
<1>3. /\ IsFiniteSet(reads \cup {c})
      /\ Cardinality(reads \cup {c}) \in {Cardinality(reads), Cardinality(reads) + 1}
  BY FS_AddElement
<1>. QED  BY <1>1, <1>2, <1>3

\* A revoked URL leaves none behind.
LEMMA BlobRevoked ==
  ASSUME BlobConstants, BlobsInv
  PROVE  Blobs!Revoked \subseteq Twins /\ (~twice => Blobs!Revoked = {})
BY DEF BlobConstants, BlobsInv, BlobTypes, NoSecondUrl, Blobs!Revoked

\* Another file is opened.
LEMMA FileOpened ==
  ASSUME BlobConstants, BlobsInv, NEW p \in ViewPaths, p # <<>>, Blobs!Open(p)
  PROVE  BlobsInv'
<1>1. /\ wanted' = p /\ viewFailed' = FALSE /\ at' = "viewer" /\ current' = None
      /\ UNCHANGED <<visit, root, rows>>
      /\ minted' \subseteq Twins /\ (~twice => minted' = {})
  BY BlobRevoked DEF Blobs!Open
<1>2. viewFailed' \in BOOLEAN
  BY <1>1, Zenon
<1>3. CASE MediaPath(p)
  <2>1. /\ fileView' = [path |-> p, url |-> None] /\ loads' = Append(loads, p)
        /\ UNCHANGED reads
    BY <1>3, BlobNames DEF Blobs!Open
  <2>2. twice' = (twice \/ Blobs!Contains(loads, p))
    BY <1>3, BlobNames DEF Blobs!Open
  <2>3. twice' \in BOOLEAN
    BY <2>2, Zenon
  <2>4. /\ fileView'.path = p /\ fileView'.url = None
        /\ fileView' \in [path : ViewPaths \cup {None}, url : Twins \cup {None}]
    BY <2>1
  <2>5. /\ loads \in Seq(ViewPaths) /\ Len(loads) \in Nat
        /\ \A i \in 1..Len(loads) : MediaPath(loads[i])
    BY DEF BlobsInv, BlobTypes
  <2>6. /\ loads' \in Seq(ViewPaths) /\ Len(loads') = Len(loads) + 1
        /\ \A i \in 1..Len(loads) : loads'[i] = loads[i]
        /\ loads'[Len(loads) + 1] = p
    BY <2>1, <2>5
  <2>7. \A i \in 1..Len(loads') : MediaPath(loads'[i])
    BY <1>3, <2>5, <2>6
  <2>8. BlobTypes'
    BY <1>1, <1>2, <2>1, <2>3, <2>4, <2>6, <2>7 DEF BlobsInv, BlobTypes
  <2>9. Viewed'
    BY <1>1, <2>4 DEF Viewed
  <2>10. ASSUME ~twice' PROVE ~twice /\ EachOnce'
    <3>1. ~twice /\ \A i \in 1..Len(loads) : loads[i] # p
      BY <2>2, <2>10 DEF Blobs!Contains
    <3>2. EachOnce
      BY <3>1 DEF BlobsInv, NoSecondUrl
    <3>. QED  BY <2>5, <2>6, <3>1, <3>2 DEF EachOnce
  <2>11. NoSecondUrl'
    BY <1>1, <2>10 DEF NoSecondUrl
  <2>. QED  BY <2>8, <2>9, <2>11 DEF BlobsInv
<1>4. CASE ~MediaPath(p)
  <2>1. /\ fileView' = Blobs!NoFile /\ Blobs!Call("read", p, visit) /\ UNCHANGED <<loads>>
    BY <1>4, BlobNames DEF Blobs!Open
  <2>2. twice' = twice
    BY <1>4, BlobNames DEF Blobs!Open
  <2>3. /\ fileView'.path = None /\ fileView'.url = None
        /\ fileView' \in [path : ViewPaths \cup {None}, url : Twins \cup {None}]
    BY <2>1 DEF Blobs!NoFile
  <2>4. /\ reads' = reads \cup {[kind |-> "read", path |-> p, visit |-> visit]}
        /\ IsFiniteSet(reads') /\ Cardinality(reads') <= 2
    BY <2>1, BlobsAsks DEF BlobsInv, BlobTypes
  <2>5. \A c \in reads' : Request(c)
    BY <1>4, <2>4 DEF BlobsInv, BlobTypes, Request
  <2>6. BlobTypes'
    BY <1>1, <1>2, <2>1, <2>2, <2>3, <2>4, <2>5 DEF BlobsInv, BlobTypes
  <2>7. Viewed'
    BY <1>1, <2>3 DEF Viewed, BlobConstants, MediaPath
  <2>8. NoSecondUrl'
    BY <1>1, <2>1, <2>2 DEF BlobsInv, NoSecondUrl, EachOnce
  <2>. QED  BY <2>6, <2>7, <2>8 DEF BlobsInv
<1>. QED  BY <1>3, <1>4

\* A file of the listing, or the next one among its media.
LEMMA FileChosen ==
  ASSUME BlobConstants, BlobsInv,
         \/ \E n \in {"txt"} \cup Blobs!MediaNames : Blobs!OpenFile(n)
         \/ \E d \in {1, -1} : Blobs!ShowNeighbor(d)
  PROVE  BlobsInv'
<1>1. PICK n : n \in {"txt", "img1", "img2"} /\ rows # None /\ Blobs!Open(Append(rows.path, n))
  <2>1. CASE \E n \in {"txt"} \cup Blobs!MediaNames : Blobs!OpenFile(n)
    BY <2>1, BlobNames DEF Blobs!OpenFile, Images
  <2>2. ASSUME NEW d \in {1, -1}, Blobs!ShowNeighbor(d)
        PROVE  \E n \in {"txt", "img1", "img2"} : rows # None /\ Blobs!Open(Append(rows.path, n))
    <3>1. PICK n : n \in Blobs!Neighbors(Blobs!Name(fileView.path), d)
                   /\ rows # None /\ Blobs!Open(Append(rows.path, n))
      BY <2>2 DEF Blobs!ShowNeighbor
    <3>2. DOMAIN <<"img1", "img2">> = {1, 2}
      OBVIOUS
    <3>3. n \in {"img1", "img2"}
      BY <3>1, <3>2 DEF Blobs!Neighbors
    <3>. QED  BY <3>1, <3>3
  <2>. QED  BY <2>1, <2>2
<1>2. rows.path \in ViewPaths
  BY <1>1 DEF BlobsInv, BlobTypes
<1>3. Append(rows.path, n) \in ViewPaths /\ Append(rows.path, n) # <<>>
  BY <1>1, <1>2 DEF ViewPaths
<1>. QED  BY <1>1, <1>3, FileOpened

\* Folders are listed, pages left; no file is touched.
LEMMA BlobsMoves ==
  ASSUME BlobsInv,
         \/ Blobs!OpenBrowser(A) \/ Blobs!BrowserBack \/ Blobs!CloseBrowser \/ Blobs!Leave
  PROVE  BlobsInv'
<1>1. /\ at' \in {"terminal", "browser"} /\ visit' \in 0..1 /\ root' \in {A, None}
      /\ rows' \in {rows, None}
      /\ UNCHANGED <<fileView, viewFailed, wanted, current, minted, loads, twice>>
      /\ reads' = reads \/ \E p, v : /\ Blobs!Call("browse", p, v)
                                     /\ p = A \/ (rows # None /\ p = Blobs!Parent(rows.path))
  BY DEF BlobsInv, BlobTypes, Blobs!OpenBrowser, Blobs!BrowserBack, Blobs!CloseBrowser,
         Blobs!Leave, Blobs!Browse, Blobs!files
<1>2. /\ IsFiniteSet(reads') /\ Cardinality(reads') <= 2
      /\ \A c \in reads' : Request(c)
  <2>1. CASE reads' = reads
    BY <2>1 DEF BlobsInv, BlobTypes
  <2>2. CASE reads' # reads
    <3>1. PICK p, v : /\ Blobs!Call("browse", p, v)
                      /\ p = A \/ (rows # None /\ p = Blobs!Parent(rows.path))
      BY <1>1, <2>2
    <3>2. p \in ViewPaths
      <4>1. <<"a">> \in ViewPaths
        BY DEF ViewPaths
      <4>2. ASSUME rows # None PROVE Blobs!Parent(rows.path) \in ViewPaths
        <5>1. rows.path \in ViewPaths
          BY <4>2 DEF BlobsInv, BlobTypes
        <5>2. CASE rows.path = <<>>
          BY <5>1, <5>2 DEF Blobs!Parent
        <5>3. CASE rows.path # <<>>
          <6>1. Blobs!Parent(rows.path) = SubSeq(rows.path, 1, Len(rows.path) - 1)
                /\ Len(rows.path) >= 1
            BY <5>1, <5>3 DEF ViewPaths, Blobs!Parent, Blobs!Front
          <6>. QED  BY <5>1, <6>1 DEF ViewPaths
        <5>. QED  BY <5>2, <5>3
      <4>. QED  BY <3>1, <4>1, <4>2 DEF A
    <3>3. /\ reads' = reads \cup {[kind |-> "browse", path |-> p, visit |-> v]}
          /\ IsFiniteSet(reads') /\ Cardinality(reads') <= 2
      BY <3>1, BlobsAsks DEF BlobsInv, BlobTypes
    <3>. QED  BY <3>2, <3>3 DEF BlobsInv, BlobTypes, Request
  <2>. QED  BY <2>1, <2>2
<1>3. rows' # None => rows'.path \in ViewPaths
  BY <1>1 DEF BlobsInv, BlobTypes
<1>4. BlobTypes'
  BY <1>1, <1>2, <1>3 DEF BlobsInv, BlobTypes
<1>5. Viewed' /\ NoSecondUrl'
  BY <1>1 DEF BlobsInv, Viewed, NoSecondUrl, EachOnce
<1>. QED  BY <1>4, <1>5 DEF BlobsInv

LEMMA ViewerClosed ==
  ASSUME BlobConstants, BlobsInv, Blobs!CloseViewer
  PROVE  BlobsInv'
<1>1. /\ at' = "browser" /\ current' = None
      /\ minted' \subseteq Twins /\ (~twice => minted' = {})
      /\ UNCHANGED <<visit, root, rows, fileView, viewFailed, wanted, loads, reads, twice>>
  BY BlobRevoked DEF Blobs!CloseViewer
<1>. QED  BY <1>1 DEF BlobsInv, BlobTypes, Viewed, NoSecondUrl, EachOnce

\* A fetch answers: its file is shown if it is the one under view.
LEMMA LoadAnswered ==
  ASSUME BlobConstants, BlobsInv, NEW i \in DOMAIN loads,
         Blobs!Loaded(i) \/ Blobs!LoadTooLarge(i) \/ Blobs!LoadFails(i)
  PROVE  BlobsInv'
<1>1. /\ loads' = Blobs!RemoveAt(loads, i)
      /\ UNCHANGED <<at, visit, root, rows, wanted, reads, twice>>
  BY DEF Blobs!Loaded, Blobs!LoadTooLarge, Blobs!LoadFails
<1>2. /\ loads' \in Seq(ViewPaths) /\ (\A j \in 1..Len(loads') : MediaPath(loads'[j]))
      /\ \A j \in 1..Len(loads') : \E k \in 1..Len(loads) : k # i /\ loads'[j] = loads[k]
      /\ EachOnce => EachOnce'
  BY <1>1, LoadGoes DEF BlobsInv
<1>3. viewFailed' \in BOOLEAN
  <2>1. viewFailed' = viewFailed \/ viewFailed' = (viewFailed \/ fileView.path = loads[i])
    BY DEF Blobs!Loaded, Blobs!LoadTooLarge, Blobs!LoadFails
  <2>. QED  BY <2>1, Zenon DEF BlobsInv, BlobTypes
<1>4. i \in 1..Len(loads) /\ MediaPath(loads[i])
  BY DEF BlobsInv, BlobTypes
<1>5. CASE Blobs!Loaded(i) /\ fileView.path = loads[i]
  <2>1. PICK u \in Twins \ minted : /\ minted' = minted \cup {u} /\ current' = u
                                    /\ fileView' = [fileView EXCEPT !.url = u]
    BY <1>5 DEF Blobs!Loaded
  <2>2. u # None /\ u \in Twins
    BY <2>1 DEF BlobConstants
  <2>3. /\ fileView'.path = fileView.path /\ fileView'.url = u
        /\ fileView' \in [path : ViewPaths \cup {None}, url : Twins \cup {None}]
    BY <2>1, <2>2 DEF BlobsInv, BlobTypes
  <2>4. BlobTypes'
    BY <1>1, <1>2, <1>3, <2>1, <2>2, <2>3 DEF BlobsInv, BlobTypes
  <2>5. Viewed'
    BY <1>1, <1>4, <1>5, <2>1, <2>2, <2>3 DEF BlobsInv, Viewed
  <2>6. ASSUME ~twice PROVE EachOnce /\ minted = {}
    BY <1>4, <1>5, <2>6 DEF BlobsInv, BlobTypes, NoSecondUrl, BlobConstants
  <2>7. ASSUME ~twice PROVE \A j \in 1..Len(loads') : loads'[j] # fileView.path
    BY <1>2, <1>4, <1>5, <2>6, <2>7 DEF EachOnce
  <2>8. NoSecondUrl'
    BY <1>1, <1>2, <2>1, <2>3, <2>6, <2>7 DEF NoSecondUrl
  <2>. QED  BY <2>4, <2>5, <2>8 DEF BlobsInv
<1>6. CASE ~(Blobs!Loaded(i) /\ fileView.path = loads[i])
  <2>1. /\ UNCHANGED <<minted, current>>
        /\ fileView' = fileView \/ fileView' = [fileView EXCEPT !.url = None]
    BY <1>6 DEF Blobs!Loaded, Blobs!LoadTooLarge, Blobs!LoadFails
  <2>2. /\ fileView'.path = fileView.path /\ fileView'.url \in {fileView.url, None}
        /\ fileView' \in [path : ViewPaths \cup {None}, url : Twins \cup {None}]
    BY <2>1 DEF BlobsInv, BlobTypes
  <2>3. BlobTypes'
    BY <1>1, <1>2, <1>3, <2>1, <2>2 DEF BlobsInv, BlobTypes
  <2>4. Viewed'
    BY <1>1, <2>1, <2>2 DEF BlobsInv, Viewed
  <2>5. NoSecondUrl'
    BY <1>1, <1>2, <2>1, <2>2 DEF BlobsInv, NoSecondUrl
  <2>. QED  BY <2>3, <2>4, <2>5 DEF BlobsInv
<1>. QED  BY <1>5, <1>6

\* The agent answers.
LEMMA BlobsAnswers ==
  ASSUME BlobConstants, BlobsInv, NEW c \in reads, Blobs!Answer(c)
  PROVE  BlobsInv'
<1>1. /\ reads' = reads \ {c} /\ Request(c)
      /\ UNCHANGED <<at, visit, root, wanted, current, minted, loads>>
      /\ rows' = rows \/ rows' = [path |-> c.path, visit |-> c.visit]
      /\ fileView' = fileView
         \/ (fileView' = [path |-> c.path, url |-> None] /\ c.kind = "read")
  BY DEF BlobsInv, BlobTypes, Blobs!Answer, Blobs!Entries, Blobs!Contents, Blobs!Refused
<1>2. twice' = twice
  BY DEF Blobs!Answer
<1>3. viewFailed' \in BOOLEAN
  <2>1. \/ viewFailed' = viewFailed \/ viewFailed' = FALSE
        \/ viewFailed' = (viewFailed \/ at = "viewer")
    BY DEF Blobs!Answer, Blobs!Entries, Blobs!Contents, Blobs!Refused
  <2>. QED  BY <2>1, Zenon DEF BlobsInv, BlobTypes
<1>4. IsFiniteSet(reads') /\ Cardinality(reads') <= 2
  <2>1. Cardinality(reads) \in Nat
    BY FS_CardinalityType DEF BlobsInv, BlobTypes
  <2>2. /\ IsFiniteSet(reads \ {c}) /\ c \in reads
        /\ Cardinality(reads \ {c}) = Cardinality(reads) - 1
    BY FS_RemoveElement DEF BlobsInv, BlobTypes
  <2>. QED  BY <1>1, <2>1, <2>2 DEF BlobsInv, BlobTypes
<1>5. /\ fileView' = fileView \/ (~MediaPath(fileView'.path) /\ fileView'.url = None)
      /\ fileView' \in [path : ViewPaths \cup {None}, url : Twins \cup {None}]
  BY <1>1 DEF Request, BlobsInv, BlobTypes
<1>6. rows' # None => rows'.path \in ViewPaths
  BY <1>1 DEF BlobsInv, BlobTypes, Request
<1>7. \A d \in reads' : Request(d)
  BY <1>1 DEF BlobsInv, BlobTypes
<1>8. BlobTypes'
  BY <1>1, <1>2, <1>3, <1>4, <1>5, <1>6, <1>7 DEF BlobsInv, BlobTypes
<1>9. Viewed'
  BY <1>1, <1>5 DEF BlobsInv, Viewed
<1>10. NoSecondUrl'
  BY <1>1, <1>2, <1>5 DEF BlobsInv, BlobTypes, NoSecondUrl, EachOnce
<1>. QED  BY <1>8, <1>9, <1>10 DEF BlobsInv

LEMMA BlobsStep == BlobConstants /\ BlobsInv /\ [Blobs!Next]_(Blobs!vars) => BlobsInv'
<1>1. CASE BlobsInv /\ UNCHANGED Blobs!vars
  BY <1>1 DEF Blobs!vars, BlobsInv, BlobTypes, Viewed, NoSecondUrl, EachOnce
<1>2. CASE BlobConstants /\ BlobsInv /\ Blobs!Next
  BY <1>2, FileChosen, BlobsMoves, ViewerClosed, LoadAnswered, BlobsAnswers DEF Blobs!Next
<1>. QED  BY <1>1, <1>2

LEMMA BlobsInit == BlobConstants /\ Blobs!Init => BlobsInv
<1>. SUFFICES ASSUME BlobConstants, Blobs!Init PROVE BlobsInv
  OBVIOUS
<1>1. Cardinality({}) = 0 /\ IsFiniteSet({})
  BY FS_EmptySet
<1>2. viewFailed \in BOOLEAN /\ twice \in BOOLEAN
  BY Zenon DEF Blobs!Init
<1>3. /\ at = "terminal" /\ visit = 0 /\ root = None /\ rows = None /\ current = None
      /\ minted = {} /\ reads = {} /\ loads = <<>>
      /\ fileView = [path |-> None, url |-> None]
  BY DEF Blobs!Init, Blobs!NoFile
<1>. QED  BY <1>1, <1>2, <1>3 DEF BlobsInv, BlobTypes, Viewed, NoSecondUrl, EachOnce

LEMMA BlobsKept == BlobsInv => Blobs!TypeOK /\ Blobs!BlobsAreKept
<1>. SUFFICES ASSUME BlobsInv PROVE Blobs!TypeOK /\ Blobs!BlobsAreKept
  OBVIOUS
<1>1. {viewFailed, twice} \subseteq BOOLEAN
  BY Zenon DEF BlobsInv, BlobTypes
<1>2. Blobs!Cardinality(reads) <= 2
  BY DEF BlobsInv, BlobTypes, Blobs!Cardinality, Cardinality
<1>3. Blobs!TypeOK
  BY <1>1, <1>2 DEF Blobs!TypeOK, BlobsInv, BlobTypes
<1>4. Blobs!BlobsAreKept
  BY DEF BlobsInv, Viewed, NoSecondUrl, Blobs!BlobsAreKept, Blobs!MediaOnShow
<1>. QED  BY <1>3, <1>4

\* The media on show is the file asked for and has not been revoked, no object URL is
\* forgotten unless one file was fetched twice at once, and the browser lists no folder
\* above its project folder but from a late answer, for any object URLs
\* (store.svelte.ts, FileBrowser.svelte).
THEOREM FileViewsSoundAlways == BlobConstants => (Spec => []FileViewsSound)
<1>. SUFFICES ASSUME BlobConstants PROVE Spec => []FileViewsSound
  OBVIOUS
<1>. DEFINE Inv == /\ part = "media" => BlobsInv
                   /\ part = "folders" => BrowsingInv
<1>1. Init => Inv
  BY BlobsInit, BrowsingInit DEF Init
<1>2. part = "media" /\ [Next]_vars => part' = part /\ [Blobs!Next]_(Blobs!vars)
  BY DEF Next, vars, fileViews, Blobs!vars
<1>3. part = "folders" /\ [Next]_vars => part' = part /\ [Browsing!Next]_(Browsing!vars)
  BY DEF Next, vars, fileViews, Browsing!vars
<1>4. Inv /\ [Next]_vars => Inv'
  <2>1. CASE part = "media"
    BY <1>2, <2>1, BlobsStep
  <2>2. CASE part = "folders"
    BY <1>3, <2>2, BrowsingStep
  <2>3. CASE part \notin {"media", "folders"}
    BY <2>3 DEF Next, vars
  <2>. QED  BY <2>1, <2>2, <2>3
<1>5. Inv => FileViewsSound
  BY BlobsKept, BrowsingConfined DEF FileViewsSound
<1>. QED  BY <1>1, <1>4, <1>5, PTL DEF Spec

-----------------------------------------------------------------------------
(* The open terminal *)

TerminalConstants == None \notin Twins

Orders == {"attach", "detach", "close"} \X Twins
News == {"moved", "closed"} \X Twins

\* What is said to the agent is queued when it reaches the wire.
LEMMA Posted ==
  ASSUME Faulty!TypeOK, NEW k \in {"attach", "detach", "close"}, NEW w \in Twins,
         Faulty!Post(<<<<k, w>>>>)
  PROVE  /\ toAgent' \in Seq(Orders) /\ Len(toAgent') <= 2
         /\ Faulty!Reaches => toAgent' = Append(toAgent, <<k, w>>)
         /\ ~ Faulty!Reaches => toAgent' = toAgent
<1>1. toAgent \in Seq(Orders) /\ Len(toAgent) <= 2
  BY DEF Faulty!TypeOK, Orders
<1>2. <<k, w>> \in Orders
  BY DEF Orders
<1>3. Len(<<<<k, w>>>>) = 1 /\ toAgent \o <<<<k, w>>>> = Append(toAgent, <<k, w>>)
  BY <1>1, <1>2
<1>4. Len(toAgent) + 1 <= 2
  BY <1>3 DEF Faulty!Post
<1>5. toAgent' = IF Faulty!Reaches THEN Append(toAgent, <<k, w>>) ELSE toAgent
  BY <1>3 DEF Faulty!Post, Faulty!Sent
<1>6. Append(toAgent, <<k, w>>) \in Seq(Orders) /\ Len(Append(toAgent, <<k, w>>)) = Len(toAgent) + 1
  BY <1>1, <1>2
<1>. QED  BY <1>1, <1>4, <1>5, <1>6

\* The queues are read from the front.
LEMMA Served ==
  ASSUME Faulty!TypeOK, toAgent # <<>>
  PROVE  /\ Head(toAgent)[2] \in Twins /\ Head(toAgent) \in Orders
         /\ Tail(toAgent) \in Seq(Orders) /\ Len(Tail(toAgent)) <= 2
<1>1. toAgent \in Seq(Orders) /\ Len(toAgent) <= 2
  BY DEF Faulty!TypeOK, Orders
<1>2. Head(toAgent) \in Orders /\ Tail(toAgent) \in Seq(Orders) /\ Len(Tail(toAgent)) = Len(toAgent) - 1
  BY <1>1
<1>3. Len(Tail(toAgent)) <= 2 /\ Head(toAgent)[2] \in Twins
  BY <1>1, <1>2 DEF Orders
<1>. QED  BY <1>2, <1>3

LEMMA Heard ==
  ASSUME Faulty!TypeOK, toPhone # <<>>
  PROVE  Head(toPhone)[2] \in Twins /\ Tail(toPhone) \in Seq(News)
<1>1. toPhone \in Seq(News)
  BY DEF Faulty!TypeOK, News
<1>2. Head(toPhone) \in News /\ Tail(toPhone) \in Seq(News)
  BY <1>1
<1>. QED  BY <1>2 DEF News

LEMMA Telling ==
  ASSUME Faulty!TypeOK, NEW k \in {"moved", "closed"}, NEW w \in Twins, Faulty!Tell(k, w)
  PROVE  toPhone' \in Seq(News)
<1>1. toPhone \in Seq(News) /\ <<k, w>> \in News
  BY DEF Faulty!TypeOK, News
<1>. QED  BY <1>1 DEF Faulty!Tell

-----------------------------------------------------------------------------

LEMMA PhoneTypes ==
  ASSUME TerminalConstants, Faulty!TypeOK,
         \/ \E w \in Twins : Faulty!Open(w)
         \/ Faulty!Leave \/ Faulty!Return \/ Faulty!Back \/ Faulty!CloseActive
         \/ Faulty!Refresh \/ Faulty!TakeOver \/ Faulty!HearMoved \/ Faulty!HearClosed
  PROVE  Faulty!TypeOK'
<1>1. CASE \E w \in Twins : Faulty!Open(w)
  <2>1. PICK w \in Twins : Faulty!Open(w)
    BY <1>1
  <2>2. toAgent' \in Seq(Orders) /\ Len(toAgent') <= 2
    BY <2>1, Posted DEF Faulty!Open, Faulty!Attach, Faulty!TypeOK, Orders
  <2>. QED  BY <2>1, <2>2 DEF Faulty!Open, Faulty!TypeOK, Faulty!agent, Orders
<1>2. CASE Faulty!Leave
  BY <1>2 DEF Faulty!Leave, Faulty!TypeOK, Faulty!agent
<1>3. CASE Faulty!Return \/ Faulty!Refresh \/ Faulty!TakeOver
  <2>1. inTerminal \in Twins /\ Faulty!Post(<<<<"attach", inTerminal>>>>)
    BY <1>3 DEF Faulty!Return, Faulty!Refresh, Faulty!TakeOver, Faulty!Attach,
       Faulty!Mounted, Faulty!TypeOK
  <2>2. toAgent' \in Seq(Orders) /\ Len(toAgent') <= 2
    BY <2>1, Posted
  <2>3. healed' \in BOOLEAN
    <3>1. healed' = healed \/ healed' = (healed \/ Faulty!Quiet)
      BY <1>3 DEF Faulty!Return, Faulty!Refresh, Faulty!TakeOver
    <3>2. healed \in BOOLEAN
      BY DEF Faulty!TypeOK
    <3>. QED  BY <3>1, <3>2, Zenon
  <2>. QED  BY <1>3, <2>2, <2>3 DEF Faulty!Return, Faulty!Refresh, Faulty!TakeOver,
               Faulty!TypeOK, Faulty!agent, Orders
<1>4. CASE Faulty!Back \/ Faulty!CloseActive
  <2>1. /\ inTerminal \in Twins
        /\ \E k \in {"detach", "close"} : Faulty!Post(<<<<k, inTerminal>>>>)
    BY <1>4 DEF Faulty!Back, Faulty!CloseActive, Faulty!Mounted, Faulty!TypeOK
  <2>2. toAgent' \in Seq(Orders) /\ Len(toAgent') <= 2
    BY <2>1, Posted
  <2>. QED  BY <1>4, <2>2 DEF Faulty!Back, Faulty!CloseActive, Faulty!TypeOK, Faulty!agent,
               Orders
<1>5. CASE Faulty!HearMoved
  <2>1. toPhone' \in Seq(News)
    BY <1>5, Heard DEF Faulty!HearMoved
  <2>2. shown' \in {"live", "moved"}
    BY <1>5 DEF Faulty!HearMoved, Faulty!TypeOK
  <2>. QED  BY <1>5, <2>1, <2>2 DEF Faulty!HearMoved, Faulty!TypeOK, Faulty!agent, News
<1>6. CASE Faulty!HearClosed
  <2>1. toPhone' \in Seq(News) /\ Head(toPhone)[2] \in Twins
    BY <1>6, Heard DEF Faulty!HearClosed
  <2>2. CASE inTerminal = Head(toPhone)[2]
    <3>1. toAgent' \in Seq(Orders) /\ Len(toAgent') <= 2
      BY <1>6, <2>1, <2>2, Posted DEF Faulty!HearClosed
    <3>. QED  BY <1>6, <2>1, <2>2, <3>1 DEF Faulty!HearClosed, Faulty!TypeOK, Faulty!agent,
                 Orders, News
  <2>3. CASE inTerminal # Head(toPhone)[2]
    BY <1>6, <2>1, <2>3 DEF Faulty!HearClosed, Faulty!TypeOK, Faulty!agent, News
  <2>. QED  BY <2>2, <2>3
<1>. QED  BY <1>1, <1>2, <1>3, <1>4, <1>5, <1>6

LEMMA LinkTypes ==
  ASSUME Faulty!TypeOK,
         \/ Faulty!WireDies \/ Faulty!LinkDrops \/ Faulty!Restart \/ Faulty!Dial
         \/ Faulty!LinkOpens \/ Faulty!LinkOnline
  PROVE  Faulty!TypeOK'
<1>1. <<>> \in Seq(Orders) /\ Len(<<>>) <= 2 /\ <<>> \in Seq(News)
  OBVIOUS
<1>2. CASE Faulty!WireDies
  BY <1>1, <1>2 DEF Faulty!WireDies, Faulty!TypeOK, Faulty!phone, Faulty!agent, Orders, News
<1>3. CASE Faulty!LinkDrops \/ Faulty!Restart
  <2>1. Faulty!Orphans \subseteq {"held", "awaiting"} \X Twins
    BY DEF Faulty!Orphans, Faulty!TypeOK
  <2>. QED  BY <1>1, <1>3, <2>1 DEF Faulty!LinkDrops, Faulty!Restart, Faulty!TypeOK, Orders, News
<1>4. CASE Faulty!Dial \/ Faulty!LinkOpens
  BY <1>4 DEF Faulty!Dial, Faulty!LinkOpens, Faulty!TypeOK, Faulty!phone, Faulty!agent
<1>5. CASE Faulty!LinkOnline
  <2>1. toAgent' \in Seq(Orders) /\ Len(toAgent') <= 2
    BY <1>5, Posted DEF Faulty!LinkOnline, Faulty!Attach, Faulty!Mounted, Faulty!TypeOK, Orders
  <2>. QED  BY <1>5, <2>1 DEF Faulty!LinkOnline, Faulty!TypeOK, Faulty!phone, Faulty!agent, Orders
<1>. QED  BY <1>2, <1>3, <1>4, <1>5

LEMMA AgentTypes ==
  ASSUME Faulty!TypeOK,
         \/ Faulty!AgentAttaches \/ Faulty!AgentDetaches \/ Faulty!AgentCloses
         \/ Faulty!PtyExits \/ Faulty!RivalLeaves
         \/ \E w \in Twins : \/ Faulty!AttachLate(w) \/ Faulty!RivalOpens(w)
                             \/ Faulty!RivalCloses(w) \/ Faulty!SaysClosed(w)
                             \/ Faulty!Parks(w) \/ Faulty!GhostGoes(w)
                             \/ Faulty!GhostAttaches(w)
  PROVE  Faulty!TypeOK'
<1>1. ASSUME NEW w \in Twins, Faulty!Ends(w)
      PROVE  /\ sessions' \subseteq Twins /\ parked' \subseteq sessions' /\ rival' \in Twins \cup {None}
             /\ viewing' \in Twins \cup {None} /\ ghosts' \subseteq {"held", "awaiting"} \X Twins
             /\ UNCHANGED <<view, inTerminal, shown, healed, wire, dead, disconnected, toPhone, waiting>>
  BY <1>1 DEF Faulty!Ends, Faulty!Killed, Faulty!TypeOK, Faulty!phone
<1>2. ASSUME NEW w \in Twins, Faulty!Evict(w)
      PROVE  toPhone' \in Seq(News) /\ viewing' \in Twins \cup {None}
  BY <1>2, Telling DEF Faulty!Evict, Faulty!TypeOK, News
<1>3. CASE Faulty!AgentAttaches
  BY <1>3, Served DEF Faulty!AgentAttaches, Faulty!Grant, Faulty!TypeOK, Faulty!phone, Orders
<1>4. CASE Faulty!AgentDetaches
  BY <1>4, Served DEF Faulty!AgentDetaches, Faulty!TypeOK, Faulty!phone, Orders
<1>5. CASE Faulty!AgentCloses
  BY <1>1, <1>5, Served DEF Faulty!AgentCloses, Faulty!TypeOK, Orders, News
<1>6. CASE Faulty!RivalLeaves
  BY <1>6 DEF Faulty!RivalLeaves, Faulty!TypeOK, Faulty!phone
<1>7. ASSUME NEW w \in Twins, Faulty!AttachLate(w) \/ Faulty!GhostGoes(w) PROVE Faulty!TypeOK'
  BY <1>7 DEF Faulty!AttachLate, Faulty!Grant, Faulty!GhostGoes, Faulty!TypeOK, Faulty!phone
<1>8. ASSUME NEW w \in Twins, Faulty!RivalOpens(w) PROVE Faulty!TypeOK'
  BY <1>2, <1>8 DEF Faulty!RivalOpens, Faulty!TypeOK, Faulty!phone, News
<1>9. ASSUME NEW w \in Twins, Faulty!RivalCloses(w) PROVE Faulty!TypeOK'
  BY <1>1, <1>9 DEF Faulty!RivalCloses, Faulty!TypeOK, News
<1>10. ASSUME NEW w \in Twins, Faulty!GhostAttaches(w) PROVE Faulty!TypeOK'
  BY <1>2, <1>10 DEF Faulty!GhostAttaches, Faulty!TypeOK, Faulty!phone, News
<1>11. ASSUME NEW w \in Twins, Faulty!SaysClosed(w) PROVE Faulty!TypeOK'
  BY <1>11, Telling DEF Faulty!SaysClosed, Faulty!TypeOK, Faulty!phone, Faulty!agent, News
<1>12. healed' \in BOOLEAN /\ UNCHANGED <<view, inTerminal, shown, wire, dead, disconnected,
                                           toAgent, toPhone, waiting, sessions>>
         /\ viewing' \in Twins \cup {None} /\ ghosts' \subseteq {"held", "awaiting"} \X Twins
         /\ rival' \in Twins \cup {None} /\ parked' \subseteq sessions
       => Faulty!TypeOK'
  BY DEF Faulty!TypeOK
<1>13. ASSUME NEW q, healed' = (healed /\ q) PROVE healed' \in BOOLEAN
  BY <1>13, Zenon DEF Faulty!TypeOK
<1>14. CASE Faulty!PtyExits
  <2>1. healed' \in BOOLEAN
    BY <1>13, <1>14, Zenon DEF Faulty!PtyExits
  <2>. QED  BY <1>12, <1>14, <2>1 DEF Faulty!PtyExits, Faulty!TypeOK
<1>15. ASSUME NEW w \in Twins, Faulty!Parks(w) PROVE Faulty!TypeOK'
  <2>1. healed' \in BOOLEAN
    BY <1>13, <1>15, Zenon DEF Faulty!Parks
  <2>. QED  BY <1>12, <1>15, <2>1 DEF Faulty!Parks, Faulty!Killed, Faulty!TypeOK
<1>. QED  BY <1>3, <1>4, <1>5, <1>6, <1>7, <1>8, <1>9, <1>10, <1>11, <1>14, <1>15

LEMMA TerminalTypes ==
  ASSUME TerminalConstants, Faulty!TypeOK, [Faulty!Next]_(Faulty!vars)
  PROVE  Faulty!TypeOK'
<1>1. CASE UNCHANGED Faulty!vars
  BY <1>1 DEF Faulty!TypeOK, Faulty!vars, Faulty!phone, Faulty!agent
<1>2. CASE Faulty!Next
  BY <1>2, PhoneTypes, LinkTypes, AgentTypes DEF Faulty!Next
<1>. QED  BY <1>1, <1>2

-----------------------------------------------------------------------------
(* The refresh button *)

\* The phone is still to be told that its workspace is open elsewhere.
MovedOn == \E i \in 1..Len(toPhone) : toPhone[i] = <<"moved", inTerminal>>

\* The agent has served what it was asked: it shows the workspace or has said it cannot.
Attached == inTerminal \in sessions => viewing = inTerminal \/ MovedOn

\* Between a refresh on a quiet link and what undoes it, all that is under way asks for
\* the same workspace.
Healed ==
  healed /\ ~dead =>
    /\ wire \in {"open", "online"} /\ view = "terminal" /\ inTerminal # None
    /\ \A i \in 1..Len(toAgent) : toAgent[i] = <<"attach", inTerminal>>
    /\ waiting \subseteq {inTerminal} /\ waiting \cap parked = {}
    /\ shown = "live" /\ toAgent = <<>> /\ waiting = {} => Attached

\* Reading one piece of news leaves the rest unread.
LEMMA MovedOnStays ==
  ASSUME Faulty!TypeOK, MovedOn, inTerminal' = inTerminal
  PROVE  /\ toPhone # <<>> /\ toPhone' = Tail(toPhone)
              => MovedOn' \/ Head(toPhone) = <<"moved", inTerminal>>
         /\ \A n \in News : toPhone' = Append(toPhone, n) => MovedOn'
<1>1. toPhone \in Seq(News)
  BY DEF Faulty!TypeOK, News
<1>2. PICK i \in 1..Len(toPhone) : toPhone[i] = <<"moved", inTerminal>>
  BY DEF MovedOn
<1>3. ASSUME toPhone # <<>>, toPhone' = Tail(toPhone), Head(toPhone) # <<"moved", inTerminal>>
      PROVE  MovedOn'
  <2>1. i # 1 /\ Len(toPhone') = Len(toPhone) - 1 /\ toPhone'[i - 1] = toPhone[i]
    BY <1>1, <1>2, <1>3
  <2>2. i - 1 \in 1..Len(toPhone')
    BY <1>1, <1>2, <2>1
  <2>. QED  BY <1>2, <2>1, <2>2 DEF MovedOn
<1>4. ASSUME NEW n \in News, toPhone' = Append(toPhone, n) PROVE MovedOn'
  <2>1. i \in 1..Len(toPhone') /\ toPhone'[i] = toPhone[i]
    BY <1>1, <1>2, <1>4
  <2>. QED  BY <1>2, <2>1 DEF MovedOn
<1>. QED  BY <1>3, <1>4

\* What the agent or a rival does to the attachment, it says or it is the workspace's end.
LEMMA StaysAttached ==
  ASSUME TerminalConstants, Faulty!TypeOK, Attached, viewing # None => Faulty!Reaches,
         inTerminal' = inTerminal, NEW w \in Twins,
         \/ Faulty!Evict(w) /\ sessions' = sessions
         \/ Faulty!Ends(w) \/ Faulty!SaysClosed(w)
  PROVE  Attached'
<1>1. \A k \in {"moved", "closed"} :
        Faulty!Tell(k, w) => toPhone' = IF Faulty!Reaches THEN Append(toPhone, <<k, w>>) ELSE toPhone
  BY DEF Faulty!Tell
<1>2. ASSUME MovedOn, NEW n \in News, toPhone' = Append(toPhone, n) PROVE MovedOn'
  BY <1>2, MovedOnStays
<1>3. MovedOn /\ toPhone' = toPhone => MovedOn'
  BY DEF MovedOn
<1>4. CASE Faulty!Evict(w) /\ sessions' = sessions
  <2>1. CASE viewing = w
    <3>1. toPhone' = Append(toPhone, <<"moved", w>>) /\ <<"moved", w>> \in News
      BY <1>1, <1>4, <2>1 DEF Faulty!Evict, News, TerminalConstants
    <3>2. toPhone \in Seq(News)
      BY DEF Faulty!TypeOK, News
    <3>3. Len(toPhone') \in 1..Len(toPhone') /\ toPhone'[Len(toPhone')] = <<"moved", w>>
      BY <3>1, <3>2
    <3>4. inTerminal = w => MovedOn'
      BY <3>3 DEF MovedOn
    <3>. QED  BY <1>2, <1>4, <2>1, <3>1, <3>4 DEF Attached
  <2>2. CASE viewing # w
    BY <1>3, <1>4, <2>2 DEF Faulty!Evict, Attached
  <2>. QED  BY <2>1, <2>2
<1>5. CASE Faulty!Ends(w)
  BY <1>3, <1>5 DEF Faulty!Ends, Faulty!Killed, Attached
<1>6. CASE Faulty!SaysClosed(w)
  <2>1. toPhone' \in {toPhone, Append(toPhone, <<"closed", w>>)} /\ <<"closed", w>> \in News
    BY <1>1, <1>6 DEF Faulty!SaysClosed, News
  <2>2. MovedOn => MovedOn'
    BY <1>2, <1>3, <2>1
  <2>. QED  BY <1>6, <2>2 DEF Faulty!SaysClosed, Faulty!agent, Attached
<1>. QED  BY <1>4, <1>5, <1>6

\* A refresh on a quiet link, and those after it.
LEMMA RefreshHealed ==
  ASSUME TerminalConstants, Faulty!TypeOK, Healed, Faulty!Refresh \/ Faulty!TakeOver
  PROVE  Healed'
<1>1. inTerminal \in Twins /\ inTerminal # None /\ view = "terminal"
  BY DEF Faulty!Refresh, Faulty!TakeOver, Faulty!Mounted, Faulty!TypeOK
<1>2. /\ Faulty!Post(<<<<"attach", inTerminal>>>>) /\ healed' = (healed \/ Faulty!Quiet)
      /\ UNCHANGED <<view, inTerminal, wire, dead, waiting, parked>>
  BY DEF Faulty!Refresh, Faulty!TakeOver, Faulty!Attach, Faulty!agent
<1>3. SUFFICES ASSUME healed', ~dead' PROVE Healed'
  BY DEF Healed
<1>4. /\ wire \in {"open", "online"} /\ waiting \subseteq {inTerminal}
      /\ waiting \cap parked = {}
      /\ \A i \in 1..Len(toAgent) : toAgent[i] = <<"attach", inTerminal>>
  <2>1. healed \/ Faulty!Quiet
    BY <1>2, <1>3, Zenon
  <2>2. CASE healed
    BY <1>2, <1>3, <2>2 DEF Healed
  <2>3. CASE Faulty!Quiet
    BY <2>3 DEF Faulty!Quiet, Faulty!Reaches
  <2>. QED  BY <2>1, <2>2, <2>3
<1>5. toAgent' = Append(toAgent, <<"attach", inTerminal>>)
  BY <1>1, <1>2, <1>3, <1>4, Posted DEF Faulty!Reaches
<1>6. toAgent \in Seq(Orders) /\ <<"attach", inTerminal>> \in Orders
  BY <1>1 DEF Faulty!TypeOK, Orders
<1>7. /\ toAgent' # <<>>
      /\ \A i \in 1..Len(toAgent') : toAgent'[i] = <<"attach", inTerminal>>
  BY <1>4, <1>5, <1>6
<1>. QED  BY <1>1, <1>2, <1>4, <1>7 DEF Healed

\* News is heard.
LEMMA HearingHealed ==
  ASSUME Faulty!TypeOK, Healed, Faulty!HearMoved \/ Faulty!HearClosed
  PROVE  Healed'
<1>1. SUFFICES ASSUME healed', ~dead' PROVE Healed'
  BY DEF Healed
<1>2. /\ toPhone # <<>> /\ toPhone' = Tail(toPhone)
      /\ UNCHANGED <<view, inTerminal, healed, wire, dead, toAgent, waiting, viewing, sessions,
                     parked>>
      /\ Head(toPhone) = <<"moved", inTerminal>> => shown' = "moved"
      /\ shown' = "live" => shown = "live"
  <2>1. toPhone \in Seq(News) /\ toPhone # <<>>
    BY DEF Faulty!TypeOK, News, Faulty!HearMoved, Faulty!HearClosed
  <2>2. Head(toPhone) = <<"moved", inTerminal>>
          => Head(toPhone)[1] = "moved" /\ Head(toPhone)[2] = inTerminal
    OBVIOUS
  <2>3. CASE Faulty!HearMoved
    BY <2>1, <2>2, <2>3 DEF Faulty!HearMoved, Faulty!agent
  <2>4. CASE Faulty!HearClosed
    BY <1>1, <2>1, <2>2, <2>4 DEF Faulty!HearClosed, Faulty!agent
  <2>. QED  BY <2>3, <2>4
<1>3. MovedOn /\ shown' = "live" => MovedOn'
  BY <1>2, MovedOnStays
<1>. QED  BY <1>1, <1>2, <1>3 DEF Healed, Attached

\* What the link does to a healed terminal.
LEMMA LinkHealed ==
  ASSUME TerminalConstants, Faulty!TypeOK, Healed,
         \/ Faulty!WireDies \/ Faulty!LinkDrops \/ Faulty!Restart \/ Faulty!Dial
         \/ Faulty!LinkOpens \/ Faulty!LinkOnline
  PROVE  Healed'
<1>1. CASE Faulty!WireDies \/ Faulty!LinkDrops \/ Faulty!Restart
  BY <1>1 DEF Healed, Faulty!WireDies, Faulty!LinkDrops, Faulty!Restart
<1>2. CASE Faulty!Dial \/ Faulty!LinkOpens
  BY <1>2 DEF Healed, Faulty!Dial, Faulty!LinkOpens, Faulty!phone, Faulty!agent
<1>3. CASE Faulty!LinkOnline
  <2>1. SUFFICES ASSUME healed', ~dead' PROVE Healed'
    BY DEF Healed
  <2>2. /\ wire = "open" /\ wire' = "online" /\ ~dead
        /\ UNCHANGED <<view, inTerminal, shown, healed, toPhone, waiting, viewing, sessions,
                       parked>>
    BY <1>3 DEF Faulty!LinkOnline, Faulty!phone, Faulty!agent
  <2>3. /\ view = "terminal" /\ inTerminal # None /\ waiting \subseteq {inTerminal}
        /\ waiting \cap parked = {}
        /\ \A i \in 1..Len(toAgent) : toAgent[i] = <<"attach", inTerminal>>
        /\ shown = "live" /\ toAgent = <<>> /\ waiting = {} => Attached
    BY <2>1, <2>2 DEF Healed
  <2>4. CASE toAgent' = toAgent
    BY <2>2, <2>3, <2>4 DEF Healed, Attached, MovedOn
  <2>5. CASE toAgent' # toAgent
    <3>1. inTerminal \in Twins /\ Faulty!Post(<<<<"attach", inTerminal>>>>)
      BY <1>3, <2>3, <2>5 DEF Faulty!LinkOnline, Faulty!Attach, Faulty!TypeOK
    <3>2. toAgent' = Append(toAgent, <<"attach", inTerminal>>)
      BY <2>5, <3>1, Posted
    <3>3. toAgent \in Seq(Orders) /\ <<"attach", inTerminal>> \in Orders
      BY <3>1 DEF Faulty!TypeOK, Orders
    <3>4. /\ toAgent' # <<>>
          /\ \A i \in 1..Len(toAgent') : toAgent'[i] = <<"attach", inTerminal>>
      BY <2>3, <3>2, <3>3
    <3>. QED  BY <2>2, <2>3, <3>4 DEF Healed
  <2>. QED  BY <2>4, <2>5
<1>. QED  BY <1>1, <1>2, <1>3

\* The agent grants a workspace that runs.
LEMMA GrantAttaches ==
  ASSUME Faulty!Grant(inTerminal), inTerminal' = inTerminal, sessions' = sessions
  PROVE  Attached'
BY DEF Faulty!Grant, Attached

\* What the agent does for the phone, at once or late.
LEMMA AgentHealed ==
  ASSUME Faulty!TypeOK, Healed,
         \/ Faulty!AgentAttaches \/ Faulty!AgentDetaches \/ Faulty!AgentCloses
         \/ \E w \in Twins : Faulty!AttachLate(w)
  PROVE  Healed'
<1>1. SUFFICES ASSUME healed', ~dead' PROVE Healed'
  BY DEF Healed
<1>2. UNCHANGED <<view, inTerminal, shown, healed, wire, dead>>
  BY DEF Faulty!AgentAttaches, Faulty!AgentDetaches, Faulty!AgentCloses, Faulty!Ends,
     Faulty!AttachLate, Faulty!phone
<1>3. /\ wire \in {"open", "online"} /\ view = "terminal" /\ inTerminal # None
      /\ \A i \in 1..Len(toAgent) : toAgent[i] = <<"attach", inTerminal>>
      /\ waiting \subseteq {inTerminal} /\ waiting \cap parked = {}
  BY <1>1, <1>2 DEF Healed
<1>4. toAgent \in Seq(Orders)
  BY DEF Faulty!TypeOK, Orders
<1>5. toAgent # <<>> => Head(toAgent) = <<"attach", inTerminal>>
  BY <1>3, <1>4
<1>6. CASE Faulty!AgentAttaches
  <2>1. toAgent # <<>> /\ toAgent' = Tail(toAgent) /\ sessions' = sessions
    BY <1>6 DEF Faulty!AgentAttaches
  <2>2. \A i \in 1..Len(toAgent') : toAgent'[i] = <<"attach", inTerminal>>
    BY <1>3, <1>4, <2>1
  <2>3. Head(toAgent)[2] = inTerminal
    BY <1>5, <2>1
  <2>4. \/ Faulty!Grant(inTerminal) /\ waiting' = waiting
        \/ waiting' = waiting \cup {inTerminal} /\ parked' = parked \ {inTerminal}
    BY <1>6, <2>3 DEF Faulty!AgentAttaches
  <2>5. waiting' = {} => Attached'
    BY <1>2, <2>1, <2>4, GrantAttaches
  <2>6. waiting' \subseteq {inTerminal} /\ waiting' \cap parked' = {}
    BY <1>3, <2>4 DEF Faulty!Grant
  <2>. QED  BY <1>2, <1>3, <2>2, <2>5, <2>6 DEF Healed
<1>7. CASE \E w \in Twins : Faulty!AttachLate(w)
  <2>1. /\ Faulty!Grant(inTerminal) /\ waiting' = {} /\ UNCHANGED <<toAgent, sessions>>
    BY <1>3, <1>7 DEF Faulty!AttachLate
  <2>2. Attached'
    BY <1>2, <2>1, GrantAttaches
  <2>. QED  BY <1>2, <1>3, <2>1, <2>2 DEF Healed
<1>8. CASE Faulty!AgentDetaches \/ Faulty!AgentCloses
  <2>1. toAgent # <<>> /\ Head(toAgent)[1] \in {"detach", "close"}
    BY <1>8 DEF Faulty!AgentDetaches, Faulty!AgentCloses
  <2>2. Head(toAgent)[1] = "attach"
    BY <1>5, <2>1
  <2>. QED  BY <2>1, <2>2
<1>. QED  BY <1>6, <1>7, <1>8

\* What others do.
LEMMA OthersHealed ==
  ASSUME TerminalConstants, Faulty!TypeOK, Healed,
         \/ Faulty!RivalLeaves
         \/ \E w \in Twins : \/ Faulty!RivalOpens(w) \/ Faulty!RivalCloses(w)
                             \/ Faulty!SaysClosed(w) \/ Faulty!GhostGoes(w)
                             \/ Faulty!GhostAttaches(w)
  PROVE  Healed'
<1>1. SUFFICES ASSUME healed', ~dead' PROVE Healed'
  BY DEF Healed
<1>2. /\ UNCHANGED <<view, inTerminal, shown, healed, wire, dead, toAgent, waiting>>
      /\ parked' \subseteq parked
  BY DEF Faulty!RivalLeaves, Faulty!RivalOpens, Faulty!RivalCloses, Faulty!Ends,
     Faulty!SaysClosed, Faulty!GhostGoes, Faulty!GhostAttaches, Faulty!phone, Faulty!agent
<1>3. Faulty!Reaches
  BY <1>1, <1>2 DEF Healed, Faulty!Reaches
<1>4. Attached => Attached'
  <2>1. CASE \E w \in Twins : \/ Faulty!RivalOpens(w) \/ Faulty!RivalCloses(w)
                              \/ Faulty!SaysClosed(w) \/ Faulty!GhostAttaches(w)
    BY <1>2, <1>3, <2>1, StaysAttached DEF Faulty!RivalOpens, Faulty!RivalCloses,
       Faulty!GhostAttaches
  <2>2. CASE Faulty!RivalLeaves \/ \E w \in Twins : Faulty!GhostGoes(w)
    BY <1>2, <2>2 DEF Faulty!RivalLeaves, Faulty!GhostGoes, Attached, MovedOn
  <2>. QED  BY <2>1, <2>2
<1>. QED  BY <1>1, <1>2, <1>4 DEF Healed

\* A pty that exits and a workspace that is parked take the attachment away, and what is
\* under way gives it back.
LEMMA FaultsHealed ==
  ASSUME Faulty!TypeOK, Healed, Faulty!PtyExits \/ \E w \in Twins : Faulty!Parks(w)
  PROVE  Healed'
<1>1. SUFFICES ASSUME healed', ~dead' PROVE Healed'
  BY DEF Healed
<1>2. /\ UNCHANGED <<view, inTerminal, shown, wire, dead, toAgent, toPhone, waiting, sessions>>
      /\ healed
  BY <1>1 DEF Faulty!PtyExits, Faulty!Parks
<1>3. CASE Faulty!PtyExits
  <2>1. parked' = parked /\ ~Faulty!Quiet
    BY <1>1, <1>3 DEF Faulty!PtyExits
  <2>2. toAgent # <<>> \/ waiting # {}
    BY <1>1, <1>2, <2>1 DEF Faulty!Quiet, Faulty!Reaches, Healed
  <2>. QED  BY <1>2, <2>1, <2>2 DEF Healed
<1>4. ASSUME NEW w \in Twins, Faulty!Parks(w) PROVE Healed'
  <2>1. inTerminal # w /\ parked' = parked \cup {w} /\ viewing' \in {viewing} \cup (IF viewing = w THEN {None} ELSE {})
    BY <1>1, <1>4 DEF Faulty!Parks, Faulty!Killed
  <2>2. Attached => Attached'
    BY <1>2, <2>1 DEF Attached, MovedOn
  <2>3. waiting \subseteq {inTerminal} /\ waiting \cap parked = {}
    BY <1>1, <1>2 DEF Healed
  <2>. QED  BY <1>1, <1>2, <2>1, <2>2, <2>3 DEF Healed
<1>. QED  BY <1>3, <1>4

LEMMA HealedStep ==
  ASSUME TerminalConstants, Faulty!TypeOK, Healed, [Faulty!Next]_(Faulty!vars)
  PROVE  Healed'
<1>1. CASE UNCHANGED Faulty!vars
  BY <1>1 DEF Healed, Attached, MovedOn, Faulty!vars, Faulty!phone, Faulty!agent
<1>2. CASE \/ \E w \in Twins : Faulty!Open(w)
           \/ Faulty!Leave \/ Faulty!Back \/ Faulty!CloseActive
  BY <1>2 DEF Healed, Faulty!Open, Faulty!Leave, Faulty!Back, Faulty!CloseActive
<1>3. CASE Faulty!Return
  BY <1>3 DEF Healed, Faulty!Return
<1>4. CASE Faulty!Refresh \/ Faulty!TakeOver \/ Faulty!HearMoved \/ Faulty!HearClosed
  BY <1>4, RefreshHealed, HearingHealed
<1>5. CASE \/ Faulty!WireDies \/ Faulty!LinkDrops \/ Faulty!Restart \/ Faulty!Dial
           \/ Faulty!LinkOpens \/ Faulty!LinkOnline
  BY <1>5, LinkHealed
<1>6. CASE \/ Faulty!AgentAttaches \/ Faulty!AgentDetaches \/ Faulty!AgentCloses
           \/ \E w \in Twins : Faulty!AttachLate(w)
  BY <1>6, AgentHealed
<1>7. CASE \/ Faulty!RivalLeaves
           \/ \E w \in Twins : \/ Faulty!RivalOpens(w) \/ Faulty!RivalCloses(w)
                               \/ Faulty!SaysClosed(w) \/ Faulty!GhostGoes(w)
                               \/ Faulty!GhostAttaches(w)
  BY <1>7, OthersHealed
<1>8. CASE Faulty!PtyExits \/ \E w \in Twins : Faulty!Parks(w)
  BY <1>8, FaultsHealed
<1>. QED  BY <1>1, <1>2, <1>3, <1>4, <1>5, <1>6, <1>7, <1>8 DEF Faulty!Next

-----------------------------------------------------------------------------
(* Without faults *)

\* The steps that are left without the faults.
Orderly ==
  \/ \E w \in Twins : Faulty!Open(w) /\ ~ (Faulty!Mounted /\ inTerminal = w)
  \/ Faulty!Leave \/ Faulty!Return \/ Faulty!Back \/ Faulty!CloseActive
  \/ Faulty!Refresh \/ Faulty!TakeOver \/ Faulty!HearMoved \/ Faulty!HearClosed
  \/ Faulty!WireDies \/ Faulty!LinkDrops \/ Faulty!Dial \/ Faulty!LinkOpens
  \/ Faulty!LinkOnline
  \/ Faulty!AgentAttaches /\ waiting' = waiting
  \/ Faulty!AgentDetaches \/ Faulty!AgentCloses \/ Faulty!RivalLeaves
  \/ \E w \in Twins : \/ Faulty!AttachLate(w) \/ Faulty!RivalOpens(w)
                      \/ Faulty!RivalCloses(w) \/ Faulty!SaysClosed(w)
                      \/ Faulty!GhostGoes(w) \/ Faulty!GhostAttaches(w)

LEMMA TerminalIsOrderly == Terminal!Next => Orderly
<1>1. ASSUME NEW w \in Twins, Terminal!Open(w)
      PROVE  Faulty!Open(w) /\ ~ (Faulty!Mounted /\ inTerminal = w)
  BY <1>1 DEF Terminal!Open, Terminal!Mounted, Terminal!Attach, Terminal!Post, Terminal!Sent,
     Terminal!Reaches, Terminal!agent, Faulty!Open, Faulty!Mounted, Faulty!Attach, Faulty!Post,
     Faulty!Sent, Faulty!Reaches, Faulty!agent
<1>2. Terminal!Leave => Faulty!Leave
  BY DEF Terminal!Leave, Terminal!Mounted, Terminal!agent, Faulty!Leave, Faulty!Mounted,
     Faulty!agent
<1>3. Terminal!Return \/ Terminal!Back \/ Terminal!CloseActive
        => Faulty!Return \/ Faulty!Back \/ Faulty!CloseActive
  BY DEF Terminal!Return, Terminal!Back, Terminal!CloseActive, Terminal!Mounted, Terminal!Attach,
     Terminal!Post, Terminal!Sent, Terminal!Reaches, Terminal!agent, Faulty!Return, Faulty!Back,
     Faulty!CloseActive, Faulty!Mounted, Faulty!Attach, Faulty!Post, Faulty!Sent,
     Faulty!Reaches, Faulty!agent
<1>4. Terminal!Refresh \/ Terminal!TakeOver => Faulty!Refresh \/ Faulty!TakeOver
  BY DEF Terminal!Refresh, Terminal!TakeOver, Terminal!Mounted, Terminal!Attach, Terminal!Post,
     Terminal!Sent, Terminal!Reaches, Terminal!Quiet, Terminal!agent, Faulty!Refresh,
     Faulty!TakeOver, Faulty!Mounted, Faulty!Attach, Faulty!Post, Faulty!Sent, Faulty!Reaches,
     Faulty!Quiet, Faulty!agent
<1>5. Terminal!HearMoved \/ Terminal!HearClosed => Faulty!HearMoved \/ Faulty!HearClosed
  BY DEF Terminal!HearMoved, Terminal!HearClosed, Terminal!Post, Terminal!Sent,
     Terminal!Reaches, Terminal!agent, Faulty!HearMoved, Faulty!HearClosed, Faulty!Post,
     Faulty!Sent, Faulty!Reaches, Faulty!agent
<1>6. ~ (Terminal!Restart \/ Terminal!PtyExits \/ \E w \in Twins : Terminal!Parks(w))
  BY DEF Terminal!Restart, Terminal!PtyExits, Terminal!Parks
<1>7. Terminal!WireDies \/ Terminal!LinkDrops \/ Terminal!Dial \/ Terminal!LinkOpens
        => Faulty!WireDies \/ Faulty!LinkDrops \/ Faulty!Dial \/ Faulty!LinkOpens
  BY DEF Terminal!WireDies, Terminal!LinkDrops, Terminal!Dial, Terminal!LinkOpens,
     Terminal!Orphans, Terminal!phone, Terminal!agent, Faulty!WireDies, Faulty!LinkDrops,
     Faulty!Dial, Faulty!LinkOpens, Faulty!Orphans, Faulty!phone, Faulty!agent
<1>8. Terminal!LinkOnline => Faulty!LinkOnline
  BY DEF Terminal!LinkOnline, Terminal!Mounted, Terminal!Attach, Terminal!Post, Terminal!Sent,
     Terminal!Reaches, Terminal!phone, Terminal!agent, Faulty!LinkOnline, Faulty!Mounted,
     Faulty!Attach, Faulty!Post, Faulty!Sent, Faulty!Reaches, Faulty!phone, Faulty!agent
<1>9. Terminal!AgentAttaches => Faulty!AgentAttaches /\ waiting' = waiting
  BY DEF Terminal!AgentAttaches, Terminal!Grant, Terminal!phone, Faulty!AgentAttaches,
     Faulty!Grant, Faulty!phone
<1>10. ASSUME NEW w \in Twins, Terminal!Ends(w) PROVE Faulty!Ends(w)
  BY <1>10 DEF Terminal!Ends, Terminal!Killed, Terminal!phone, Faulty!Ends, Faulty!Killed,
     Faulty!phone
<1>11. Terminal!AgentDetaches \/ Terminal!RivalLeaves
         => Faulty!AgentDetaches \/ Faulty!RivalLeaves
  BY DEF Terminal!AgentDetaches, Terminal!RivalLeaves, Terminal!phone, Faulty!AgentDetaches,
     Faulty!RivalLeaves, Faulty!phone
<1>12. Terminal!AgentCloses => Faulty!AgentCloses
  BY DEF Terminal!AgentCloses, Terminal!Ends, Terminal!Killed, Terminal!phone,
     Faulty!AgentCloses, Faulty!Ends, Faulty!Killed, Faulty!phone
<1>13. ASSUME NEW w \in Twins,
              \/ Terminal!AttachLate(w) \/ Terminal!RivalOpens(w) \/ Terminal!RivalCloses(w)
              \/ Terminal!SaysClosed(w) \/ Terminal!GhostGoes(w) \/ Terminal!GhostAttaches(w)
       PROVE  \/ Faulty!AttachLate(w) \/ Faulty!RivalOpens(w) \/ Faulty!RivalCloses(w)
              \/ Faulty!SaysClosed(w) \/ Faulty!GhostGoes(w) \/ Faulty!GhostAttaches(w)
  BY <1>10, <1>13 DEF Terminal!AttachLate, Terminal!RivalOpens, Terminal!RivalCloses,
     Terminal!GhostGoes, Terminal!GhostAttaches, Terminal!Grant, Terminal!Evict, Terminal!Room,
     Terminal!Tell, Terminal!Reaches, Terminal!SaysClosed, Terminal!phone, Terminal!agent,
     Faulty!SaysClosed, Faulty!Reaches, Faulty!agent, Faulty!AttachLate, Faulty!RivalOpens, Faulty!RivalCloses,
     Faulty!GhostGoes, Faulty!GhostAttaches, Faulty!Grant, Faulty!Evict, Faulty!Room,
     Faulty!Tell, Faulty!phone
<1>. QED  BY <1>1, <1>2, <1>3, <1>4, <1>5, <1>6, <1>7, <1>8, <1>9, <1>11, <1>12, <1>13
          DEF Terminal!Next, Orderly

LEMMA OrderlyIsFaulty == Orderly => Faulty!Next
BY DEF Orderly, Faulty!Next

\* A lost link has nothing under way, no attach waits, and any link but one that is
\* online is known to be lost.
LinkKnown ==
  /\ waiting = {} /\ (wire # "online" => disconnected)
  /\ dead => toAgent = <<>>
  /\ wire \in {"offline", "dialing"} => ~dead /\ toAgent = <<>> /\ viewing = None

\* What was asked last of the agent is the terminal on the screen; with nothing asked,
\* no other is attached.
AskedLast ==
  ~dead /\ inTerminal # None =>
    IF toAgent = <<>> THEN viewing \in {None, inTerminal}
                      ELSE toAgent[Len(toAgent)] = <<"attach", inTerminal>>

\* What was asked last when a terminal was left ends what was attached before it.
EndsLast ==
  ~dead /\ inTerminal = None =>
    IF toAgent = <<>> THEN viewing = None
    ELSE \E w \in Twins :
           /\ toAgent[Len(toAgent)] \in {<<"detach", w>>, <<"close", w>>}
           /\ IF Len(toAgent) = 1 THEN viewing \in {None, w}
                                  ELSE toAgent[Len(toAgent) - 1] = <<"attach", w>>

\* A terminal shown as live, with nothing asked, is attached or about to say it is not.
LiveIsAttached ==
  wire = "online" /\ ~dead /\ view = "terminal" /\ inTerminal # None /\ shown = "live"
  /\ toAgent = <<>> => Attached

Follows == LinkKnown /\ AskedLast /\ EndsLast /\ LiveIsAttached

\* The phone asks for the terminal it shows from now on.
LEMMA AskingFollows ==
  ASSUME TerminalConstants, Faulty!TypeOK, Follows, NEW w \in Twins,
         Faulty!Post(<<<<"attach", w>>>>), inTerminal' = w,
         UNCHANGED <<wire, dead, disconnected, toPhone, waiting, viewing>>
  PROVE  Follows'
<1>1. wire \in {"offline", "dialing", "open", "online"} /\ toAgent \in Seq(Orders)
  BY DEF Faulty!TypeOK, Orders
<1>2. CASE Faulty!Reaches
  <2>1. toAgent' = Append(toAgent, <<"attach", w>>) /\ <<"attach", w>> \in Orders
    BY <1>2, Posted DEF Orders
  <2>2. toAgent' # <<>> /\ toAgent'[Len(toAgent')] = <<"attach", w>>
    BY <1>1, <2>1
  <2>3. wire \in {"open", "online"} /\ ~dead
    BY <1>2 DEF Faulty!Reaches
  <2>4. w # None
    BY DEF TerminalConstants
  <2>. QED  BY <2>2, <2>3, <2>4 DEF Follows, LinkKnown, AskedLast, EndsLast, LiveIsAttached
<1>3. CASE ~ Faulty!Reaches
  <2>1. toAgent' = toAgent
    BY <1>3, Posted
  <2>2. dead \/ wire \in {"offline", "dialing"}
    BY <1>1, <1>3 DEF Faulty!Reaches
  <2>3. wire' # "online" \/ dead'
    BY <2>2
  <2>4. toAgent = <<>> /\ (~dead => viewing = None)
    BY <2>2 DEF Follows, LinkKnown
  <2>5. w # None
    BY DEF TerminalConstants
  <2>. QED  BY <2>1, <2>2, <2>3, <2>4, <2>5
            DEF Follows, LinkKnown, AskedLast, EndsLast, LiveIsAttached
<1>. QED  BY <1>2, <1>3

\* The phone leaves the terminal, detaching or closing it.
LEMMA LeavingFollows ==
  ASSUME TerminalConstants, Faulty!TypeOK, Follows, NEW k \in {"detach", "close"},
         inTerminal # None, Faulty!Post(<<<<k, inTerminal>>>>), inTerminal' = None,
         UNCHANGED <<wire, dead, disconnected, waiting, viewing>>
  PROVE  Follows'
<1>. DEFINE w == inTerminal
<1>1. /\ wire \in {"offline", "dialing", "open", "online"} /\ toAgent \in Seq(Orders)
      /\ w \in Twins
  BY DEF Faulty!TypeOK, Orders
<1>2. LiveIsAttached' /\ AskedLast'
  BY DEF LiveIsAttached, AskedLast
<1>3. CASE Faulty!Reaches
  <2>1. toAgent' = Append(toAgent, <<k, w>>) /\ <<k, w>> \in Orders
    BY <1>1, <1>3, Posted DEF Orders
  <2>2. wire \in {"open", "online"} /\ ~dead
    BY <1>3 DEF Faulty!Reaches
  <2>3. /\ toAgent' # <<>> /\ toAgent'[Len(toAgent')] \in {<<"detach", w>>, <<"close", w>>}
        /\ Len(toAgent') = Len(toAgent) + 1
    BY <1>1, <2>1
  <2>4. CASE toAgent = <<>>
    <3>1. viewing \in {None, w} /\ Len(toAgent') = 1
      BY <2>1, <2>2, <2>4 DEF Follows, AskedLast
    <3>2. EndsLast'
      BY <1>1, <2>3, <3>1 DEF EndsLast
    <3>. QED  BY <1>2, <2>2, <3>2 DEF Follows, LinkKnown
  <2>5. CASE toAgent # <<>>
    <3>1. toAgent[Len(toAgent)] = <<"attach", w>> /\ Len(toAgent) >= 1
      BY <1>1, <2>2, <2>5 DEF Follows, AskedLast
    <3>2. /\ Len(toAgent') # 1 /\ Len(toAgent') - 1 = Len(toAgent)
          /\ toAgent'[Len(toAgent)] = <<"attach", w>>
      BY <1>1, <2>1, <3>1
    <3>3. EndsLast'
      BY <1>1, <2>3, <3>2 DEF EndsLast
    <3>. QED  BY <1>2, <2>2, <3>3 DEF Follows, LinkKnown
  <2>. QED  BY <2>4, <2>5
<1>4. CASE ~ Faulty!Reaches
  <2>1. toAgent' = toAgent
    BY <1>1, <1>4, Posted
  <2>2. dead \/ wire \in {"offline", "dialing"}
    BY <1>1, <1>4 DEF Faulty!Reaches
  <2>3. toAgent = <<>> /\ (~dead => viewing = None)
    BY <2>2 DEF Follows, LinkKnown
  <2>4. EndsLast' /\ LinkKnown'
    BY <2>1, <2>3 DEF EndsLast, Follows, LinkKnown
  <2>. QED  BY <1>2, <2>4 DEF Follows
<1>. QED  BY <1>3, <1>4

LEMMA PhoneFollows ==
  ASSUME TerminalConstants, Faulty!TypeOK, Follows,
         \/ \E w \in Twins : Faulty!Open(w) /\ ~ (Faulty!Mounted /\ inTerminal = w)
         \/ Faulty!Leave \/ Faulty!Return \/ Faulty!Back \/ Faulty!CloseActive
         \/ Faulty!Refresh \/ Faulty!TakeOver \/ Faulty!HearMoved \/ Faulty!HearClosed
  PROVE  Follows'
<1>0. inTerminal \in Twins \cup {None}
  BY DEF Faulty!TypeOK
<1>1. ASSUME NEW w \in Twins, Faulty!Open(w), ~ (Faulty!Mounted /\ inTerminal = w)
      PROVE  Follows'
  BY <1>1, AskingFollows DEF Faulty!Open, Faulty!Attach, Faulty!agent
<1>2. CASE Faulty!Return \/ Faulty!Refresh \/ Faulty!TakeOver
  BY <1>0, <1>2, AskingFollows DEF Faulty!Return, Faulty!Refresh, Faulty!TakeOver, Faulty!Attach,
     Faulty!Mounted, Faulty!agent
<1>3. CASE Faulty!Back \/ Faulty!CloseActive
  <2>1. /\ \E k \in {"detach", "close"} : Faulty!Post(<<<<k, inTerminal>>>>)
        /\ inTerminal # None /\ inTerminal' = None
        /\ UNCHANGED <<wire, dead, disconnected, waiting, viewing>>
    BY <1>3 DEF Faulty!Back, Faulty!CloseActive, Faulty!Mounted, Faulty!agent
  <2>. QED  BY <2>1, LeavingFollows
<1>4. CASE Faulty!Leave
  BY <1>4 DEF Faulty!Leave, Faulty!agent, Follows, LinkKnown, AskedLast, EndsLast,
     LiveIsAttached
<1>5. ASSUME toPhone # <<>>, toPhone' = Tail(toPhone),
             UNCHANGED <<view, inTerminal, wire, dead, disconnected, toAgent, waiting, viewing,
                         sessions>>,
             Head(toPhone) = <<"moved", inTerminal>> => shown' = "moved",
             shown' = "live" => shown = "live"
      PROVE  Follows'
  <2>1. MovedOn /\ shown' = "live" => MovedOn'
    BY <1>5, MovedOnStays
  <2>2. LiveIsAttached'
    BY <1>5, <2>1 DEF Follows, LiveIsAttached, Attached
  <2>. QED  BY <1>5, <2>2 DEF Follows, LinkKnown, AskedLast, EndsLast
<1>6. toPhone # <<>> /\ Head(toPhone) = <<"moved", inTerminal>>
        => Head(toPhone)[1] = "moved" /\ Head(toPhone)[2] = inTerminal
  OBVIOUS
<1>7. CASE Faulty!HearMoved
  BY <1>5, <1>6, <1>7 DEF Faulty!HearMoved, Faulty!agent
<1>8. CASE Faulty!HearClosed
  <2>1. toPhone # <<>> /\ Head(toPhone)[1] = "closed" /\ Head(toPhone)[2] \in Twins
    BY <1>8, Heard DEF Faulty!HearClosed
  <2>2. CASE inTerminal = Head(toPhone)[2]
    <3>1. /\ Faulty!Post(<<<<"detach", inTerminal>>>>) /\ inTerminal' = None
          /\ inTerminal # None
          /\ UNCHANGED <<wire, dead, disconnected, waiting, viewing>>
      BY <1>8, <2>1, <2>2 DEF Faulty!HearClosed, Faulty!agent, TerminalConstants
    <3>. QED  BY <3>1, LeavingFollows
  <2>3. CASE inTerminal # Head(toPhone)[2]
    BY <1>5, <1>6, <1>8, <2>1, <2>3 DEF Faulty!HearClosed, Faulty!agent
  <2>. QED  BY <2>2, <2>3
<1>. QED  BY <1>1, <1>2, <1>3, <1>4, <1>7, <1>8

LEMMA LinkFollows ==
  ASSUME TerminalConstants, Faulty!TypeOK, Follows,
         \/ Faulty!WireDies \/ Faulty!LinkDrops \/ Faulty!Dial \/ Faulty!LinkOpens
         \/ Faulty!LinkOnline
  PROVE  Follows'
<1>1. CASE Faulty!WireDies
  BY <1>1 DEF Faulty!WireDies, Faulty!phone, Faulty!agent, Follows, LinkKnown, AskedLast,
     EndsLast, LiveIsAttached
<1>2. CASE Faulty!LinkDrops
  BY <1>2 DEF Faulty!LinkDrops, Follows, LinkKnown, AskedLast, EndsLast, LiveIsAttached
<1>3. CASE Faulty!Dial \/ Faulty!LinkOpens
  BY <1>3 DEF Faulty!Dial, Faulty!LinkOpens, Faulty!phone, Faulty!agent, Follows, LinkKnown,
     AskedLast, EndsLast, LiveIsAttached
<1>4. CASE Faulty!LinkOnline
  <2>1. /\ wire = "open" /\ ~dead /\ wire' = "online" /\ disconnected
        /\ toAgent \in Seq(Orders) /\ inTerminal \in Twins \cup {None}
        /\ UNCHANGED <<view, inTerminal, shown, dead, toPhone, waiting, viewing, sessions>>
    BY <1>4 DEF Faulty!LinkOnline, Faulty!phone, Faulty!agent, Follows, LinkKnown,
       Faulty!TypeOK, Orders
  <2>2. CASE Faulty!Mounted
    <3>1. inTerminal \in Twins /\ Faulty!Post(<<<<"attach", inTerminal>>>>)
      BY <1>4, <2>1, <2>2 DEF Faulty!LinkOnline, Faulty!Attach, Faulty!Mounted
    <3>2. /\ toAgent' = Append(toAgent, <<"attach", inTerminal>>)
          /\ <<"attach", inTerminal>> \in Orders
      BY <2>1, <3>1, Posted DEF Faulty!Reaches, Orders
    <3>3. toAgent' # <<>> /\ toAgent'[Len(toAgent')] = <<"attach", inTerminal>>
      BY <2>1, <3>2
    <3>4. inTerminal # None
      BY <3>1 DEF TerminalConstants
    <3>. QED  BY <2>1, <3>3, <3>4 DEF Follows, LinkKnown, AskedLast, EndsLast, LiveIsAttached
  <2>3. CASE ~ Faulty!Mounted
    <3>1. toAgent' = toAgent
      BY <1>4, <2>3 DEF Faulty!LinkOnline
    <3>. QED  BY <2>1, <2>3, <3>1 DEF Follows, LinkKnown, AskedLast, EndsLast, LiveIsAttached,
                 Faulty!Mounted
  <2>. QED  BY <2>2, <2>3
<1>. QED  BY <1>1, <1>2, <1>3, <1>4

\* The agent serves the oldest of what it was asked.
LEMMA ServingFollows ==
  ASSUME TerminalConstants, Faulty!TypeOK, Follows,
         \/ Faulty!AgentAttaches /\ waiting' = waiting
         \/ Faulty!AgentDetaches \/ Faulty!AgentCloses
  PROVE  Follows'
<1>. DEFINE w == Head(toAgent)[2]
<1>1. /\ toAgent \in Seq(Orders) /\ toAgent # <<>> /\ Head(toAgent) \in Orders
      /\ w \in Twins /\ w # None /\ inTerminal \in Twins \cup {None}
      /\ Tail(toAgent) \in Seq(Orders)
  BY Served DEF Faulty!AgentAttaches, Faulty!AgentDetaches, Faulty!AgentCloses, Faulty!TypeOK,
     TerminalConstants, Orders
<1>2. Head(toAgent) = <<Head(toAgent)[1], w>> /\ Head(toAgent) = toAgent[1]
  BY <1>1 DEF Orders
<1>3. toAgent' = Tail(toAgent) /\ UNCHANGED <<view, inTerminal, shown, wire, dead, disconnected, waiting>>
  BY DEF Faulty!AgentAttaches, Faulty!AgentDetaches, Faulty!AgentCloses, Faulty!Ends,
     Faulty!phone
<1>4. ~dead /\ wire \in {"open", "online"} /\ waiting = {}
  BY <1>1 DEF Follows, LinkKnown, Faulty!TypeOK
<1>5. /\ Len(toAgent') = Len(toAgent) - 1 /\ Len(toAgent) >= 1
      /\ \A i \in 1..Len(toAgent') : toAgent'[i] = toAgent[i + 1]
  BY <1>1, <1>3
<1>6. \/ /\ Head(toAgent)[1] = "attach" /\ sessions' = sessions
         /\ viewing' = IF w \in sessions THEN w ELSE None
      \/ /\ Head(toAgent)[1] \in {"detach", "close"}
         /\ viewing' = IF viewing = w THEN None ELSE viewing
  BY <1>4 DEF Faulty!AgentAttaches, Faulty!AgentDetaches, Faulty!AgentCloses, Faulty!Ends,
     Faulty!Killed, Faulty!Grant
<1>7. LinkKnown'
  BY <1>3, <1>4 DEF Follows, LinkKnown
<1>8. ASSUME Len(toAgent) = 1
      PROVE  AskedLast' /\ EndsLast' /\ LiveIsAttached'
  <2>1. toAgent' = <<>> /\ toAgent[Len(toAgent)] = <<Head(toAgent)[1], w>>
    BY <1>1, <1>2, <1>3, <1>8
  <2>2. CASE inTerminal # None
    <3>1. <<Head(toAgent)[1], w>> = <<"attach", inTerminal>>
      BY <1>1, <1>4, <2>1, <2>2 DEF Follows, AskedLast
    <3>2. Head(toAgent)[1] = "attach" /\ w = inTerminal
      BY <3>1
    <3>3. viewing' = (IF inTerminal \in sessions THEN inTerminal ELSE None) /\ sessions' = sessions
      BY <1>6, <3>2
    <3>. QED  BY <1>3, <2>1, <2>2, <3>3 DEF AskedLast, EndsLast, LiveIsAttached, Attached
  <2>3. CASE inTerminal = None
    <3>1. PICK v \in Twins : /\ <<Head(toAgent)[1], w>> \in {<<"detach", v>>, <<"close", v>>}
                             /\ viewing \in {None, v}
      BY <1>1, <1>4, <1>8, <2>1, <2>3 DEF Follows, EndsLast
    <3>2. Head(toAgent)[1] \in {"detach", "close"} /\ w = v
      BY <3>1
    <3>3. viewing' = None
      BY <1>6, <3>1, <3>2
    <3>. QED  BY <1>3, <2>1, <2>3, <3>3 DEF AskedLast, EndsLast, LiveIsAttached
  <2>. QED  BY <2>2, <2>3
<1>9. ASSUME Len(toAgent) # 1
      PROVE  AskedLast' /\ EndsLast' /\ LiveIsAttached'
  <2>1. /\ Len(toAgent) >= 2 /\ Len(toAgent') >= 1 /\ toAgent' # <<>>
        /\ toAgent'[Len(toAgent')] = toAgent[Len(toAgent)]
        /\ Len(toAgent') # 1 => toAgent'[Len(toAgent') - 1] = toAgent[Len(toAgent) - 1]
    <3>1. Len(toAgent) >= 2 /\ Len(toAgent') >= 1 /\ Len(toAgent) \in Nat /\ Len(toAgent') \in Nat
      BY <1>1, <1>3, <1>5, <1>9
    <3>2. toAgent'[Len(toAgent')] = toAgent[Len(toAgent)]
      BY <1>5, <3>1
    <3>3. Len(toAgent') # 1 => toAgent'[Len(toAgent') - 1] = toAgent[Len(toAgent) - 1]
      <4>. DEFINE n == Len(toAgent')
      <4>1. n \in Nat /\ n >= 1 /\ n = Len(toAgent) - 1
        BY <1>5, <3>1
      <4>2. \A i \in 1..n : toAgent'[i] = toAgent[i + 1]
        BY <1>5
      <4>. HIDE DEF n
      <4>3. n # 1 => n - 1 \in 1..n /\ (n - 1) + 1 = Len(toAgent) - 1
        BY <3>1, <4>1
      <4>4. n # 1 => toAgent'[n - 1] = toAgent[Len(toAgent) - 1]
        BY <4>2, <4>3
      <4>. QED  BY <4>4 DEF n
    <3>. QED  BY <3>1, <3>2, <3>3
  <2>2. AskedLast' /\ LiveIsAttached'
    BY <1>1, <1>3, <1>4, <2>1 DEF Follows, AskedLast, LiveIsAttached
  <2>3. ASSUME inTerminal = None PROVE EndsLast'
    <3>1. PICK v \in Twins :
            /\ toAgent[Len(toAgent)] \in {<<"detach", v>>, <<"close", v>>}
            /\ toAgent[Len(toAgent) - 1] = <<"attach", v>>
      BY <1>1, <1>4, <1>9, <2>3 DEF Follows, EndsLast
    <3>2. toAgent'[Len(toAgent')] \in {<<"detach", v>>, <<"close", v>>}
      BY <2>1, <3>1
    <3>3. ASSUME Len(toAgent') = 1 PROVE viewing' \in {None, v}
      <4>1. <<Head(toAgent)[1], w>> = <<"attach", v>>
        BY <1>2, <1>5, <2>1, <3>1, <3>3
      <4>2. Head(toAgent)[1] = "attach" /\ w = v
        BY <4>1
      <4>. QED  BY <1>6, <4>2
    <3>4. Len(toAgent') # 1 => toAgent'[Len(toAgent') - 1] = <<"attach", v>>
      BY <2>1, <3>1
    <3>. QED  BY <2>1, <3>2, <3>3, <3>4 DEF EndsLast
  <2>4. inTerminal # None => EndsLast'
    BY <1>3 DEF EndsLast
  <2>. QED  BY <2>2, <2>3, <2>4
<1>. QED  BY <1>7, <1>8, <1>9 DEF Follows

\* What others do takes the attachment away at most, and says so.
LEMMA OthersFollow ==
  ASSUME TerminalConstants, Faulty!TypeOK, Follows,
         \/ Faulty!RivalLeaves
         \/ \E w \in Twins : \/ Faulty!AttachLate(w) \/ Faulty!RivalOpens(w)
                             \/ Faulty!RivalCloses(w) \/ Faulty!SaysClosed(w)
                             \/ Faulty!GhostGoes(w) \/ Faulty!GhostAttaches(w)
  PROVE  Follows'
<1>1. waiting = {} /\ ~ \E w \in Twins : Faulty!AttachLate(w)
  BY DEF Follows, LinkKnown, Faulty!AttachLate
<1>2. /\ UNCHANGED <<view, inTerminal, shown, wire, dead, disconnected, toAgent, waiting>>
      /\ viewing' \in {viewing, None}
  BY <1>1 DEF Faulty!RivalLeaves, Faulty!RivalOpens, Faulty!RivalCloses, Faulty!Ends,
     Faulty!Killed, Faulty!SaysClosed, Faulty!Evict, Faulty!GhostGoes, Faulty!GhostAttaches,
     Faulty!phone, Faulty!agent
<1>3. ~dead /\ Attached => Attached'
  <2>. SUFFICES ASSUME ~dead, Attached PROVE Attached'
    OBVIOUS
  <2>1. viewing # None => Faulty!Reaches
    BY DEF Follows, LinkKnown, Faulty!Reaches, Faulty!TypeOK
  <2>2. CASE \E w \in Twins : \/ Faulty!RivalOpens(w) \/ Faulty!RivalCloses(w)
                              \/ Faulty!SaysClosed(w) \/ Faulty!GhostAttaches(w)
    BY <1>2, <2>1, <2>2, StaysAttached DEF Faulty!RivalOpens, Faulty!RivalCloses,
       Faulty!GhostAttaches
  <2>3. CASE Faulty!RivalLeaves \/ \E w \in Twins : Faulty!GhostGoes(w)
    BY <1>2, <2>3 DEF Faulty!RivalLeaves, Faulty!GhostGoes, Attached, MovedOn
  <2>. QED  BY <1>1, <2>2, <2>3
<1>4. LiveIsAttached'
  BY <1>2, <1>3 DEF Follows, LiveIsAttached
<1>. QED  BY <1>2, <1>4 DEF Follows, LinkKnown, AskedLast, EndsLast

LEMMA FollowsStep ==
  ASSUME TerminalConstants, Faulty!TypeOK, Follows, [Terminal!Next]_(Terminal!vars)
  PROVE  Faulty!TypeOK' /\ Follows'
<1>1. CASE UNCHANGED Terminal!vars
  BY <1>1 DEF Faulty!TypeOK, Follows, LinkKnown, AskedLast, EndsLast, LiveIsAttached, Attached,
     MovedOn, Terminal!vars, Terminal!phone, Terminal!agent
<1>2. CASE Terminal!Next
  <2>1. Orderly /\ Faulty!Next
    BY <1>2, TerminalIsOrderly, OrderlyIsFaulty
  <2>2. Faulty!TypeOK'
    BY <2>1, TerminalTypes
  <2>3. CASE \/ \E w \in Twins : Faulty!Open(w) /\ ~ (Faulty!Mounted /\ inTerminal = w)
             \/ Faulty!Leave \/ Faulty!Return \/ Faulty!Back \/ Faulty!CloseActive
             \/ Faulty!Refresh \/ Faulty!TakeOver \/ Faulty!HearMoved \/ Faulty!HearClosed
    BY <2>2, <2>3, PhoneFollows
  <2>4. CASE \/ Faulty!WireDies \/ Faulty!LinkDrops \/ Faulty!Dial \/ Faulty!LinkOpens
             \/ Faulty!LinkOnline
    BY <2>2, <2>4, LinkFollows
  <2>5. CASE \/ Faulty!AgentAttaches /\ waiting' = waiting
             \/ Faulty!AgentDetaches \/ Faulty!AgentCloses
    BY <2>2, <2>5, ServingFollows
  <2>6. CASE \/ Faulty!RivalLeaves
             \/ \E w \in Twins : \/ Faulty!AttachLate(w) \/ Faulty!RivalOpens(w)
                                 \/ Faulty!RivalCloses(w) \/ Faulty!SaysClosed(w)
                                 \/ Faulty!GhostGoes(w) \/ Faulty!GhostAttaches(w)
    BY <2>2, <2>6, OthersFollow
  <2>. QED  BY <2>1, <2>3, <2>4, <2>5, <2>6 DEF Orderly
<1>. QED  BY <1>1, <1>2

LEMMA TerminalStarts ==
  /\ Terminal!Init => Faulty!TypeOK /\ Follows
  /\ Faulty!Init => Faulty!TypeOK /\ Healed
<1>1. Terminal!Init => Faulty!Init
  BY DEF Terminal!Init, Faulty!Init
<1>2. ASSUME Faulty!Init PROVE Faulty!TypeOK
  <2>1. <<>> \in Seq(Orders) /\ <<>> \in Seq(News) /\ Len(<<>>) = 0
    OBVIOUS
  <2>2. toAgent \in Seq(Orders) /\ Len(toAgent) <= 2 /\ toPhone \in Seq(News)
    BY <1>2, <2>1 DEF Faulty!Init
  <2>3. healed = FALSE /\ dead = FALSE /\ disconnected = FALSE
    BY <1>2 DEF Faulty!Init
  <2>4. healed \in BOOLEAN /\ dead \in BOOLEAN /\ disconnected \in BOOLEAN
    BY <2>3, Zenon
  <2>. QED  BY <1>2, <2>2, <2>4 DEF Faulty!Init, Faulty!TypeOK, Orders, News
<1>3. Faulty!Init => Healed
  BY DEF Faulty!Init, Healed
<1>4. Faulty!Init => Follows
  BY DEF Faulty!Init, Follows, LinkKnown, AskedLast, EndsLast, LiveIsAttached
<1>. QED  BY <1>1, <1>2, <1>3, <1>4

LEMMA TerminalSettles ==
  /\ Faulty!TypeOK /\ Follows
       => Terminal!TypeOK /\ Terminal!LiveMeansAttached /\ Terminal!LeftMeansDetached
  /\ Faulty!TypeOK /\ Healed => Faulty!RefreshHeals
<1>1. toPhone = <<>> => ~MovedOn
  BY DEF MovedOn
<1>2. Faulty!TypeOK => Terminal!TypeOK
  BY DEF Faulty!TypeOK, Terminal!TypeOK
<1>3. Follows => Terminal!LiveMeansAttached /\ Terminal!LeftMeansDetached
  BY <1>1 DEF Follows, EndsLast, LiveIsAttached, Attached, Terminal!LiveMeansAttached,
     Terminal!LeftMeansDetached, Terminal!Settled, Terminal!Mounted
<1>4. Healed => Faulty!RefreshHeals
  BY <1>1 DEF Healed, Attached, Faulty!RefreshHeals, Faulty!Settled, Faulty!Mounted
<1>. QED  BY <1>2, <1>3, <1>4

\* A terminal shown as live is attached and one that was left is not; and whatever went
\* before, the refresh button heals (store.svelte.ts, TerminalView.svelte,
\* connection-handler.ts).
THEOREM TerminalFollowsAgentAlways == TerminalConstants => (Spec => []TerminalFollowsAgent)
<1>. SUFFICES ASSUME TerminalConstants PROVE Spec => []TerminalFollowsAgent
  OBVIOUS
<1>. DEFINE Inv == /\ part = "terminal" => Faulty!TypeOK /\ Follows
                   /\ part = "faults" => Faulty!TypeOK /\ Healed
<1>1. Init => Inv
  BY TerminalStarts DEF Init
<1>2. Inv /\ [Next]_vars => Inv'
  <2>. SUFFICES ASSUME Inv, [Next]_vars PROVE Inv'
    OBVIOUS
  <2>1. part' = part
    BY DEF Next, vars
  <2>2. CASE part = "terminal"
    <3>1. [Terminal!Next]_(Terminal!vars)
      BY <2>2 DEF Next, vars, attaching, Terminal!vars, Terminal!phone, Terminal!agent
    <3>. QED  BY <2>1, <2>2, <3>1, FollowsStep
  <2>3. CASE part = "faults"
    <3>1. [Faulty!Next]_(Faulty!vars)
      BY <2>3 DEF Next, vars, attaching, Faulty!vars, Faulty!phone, Faulty!agent
    <3>. QED  BY <2>1, <2>3, <3>1, TerminalTypes, HealedStep
  <2>4. CASE part \notin {"terminal", "faults"}
    BY <2>1, <2>4
  <2>. QED  BY <2>2, <2>3, <2>4
<1>3. Inv => TerminalFollowsAgent
  BY TerminalSettles DEF TerminalFollowsAgent
<1>. QED  BY <1>1, <1>2, <1>3, PTL DEF Spec

-----------------------------------------------------------------------------
(* The connection log *)

\* No event is lost but by the capacity, a refused write or another window's save, with
\* two machines and with two windows (connection-log.ts, connection-log-flush.ts).
THEOREM EventsSurviveAlways == Spec => []EventsSurvive
<1>. DEFINE Inv == /\ part = "flush" => Flush!LogInv
                   /\ part = "windows" => TwoWindows!LogInv
<1>1. Flush!Bounded /\ TwoWindows!Bounded
  BY DEF Flush!Bounded, TwoWindows!Bounded
<1>2. Init => Inv
  BY <1>1, Flush!LogInit, TwoWindows!LogInit DEF Init
<1>3. Inv /\ [Next]_vars => Inv'
  <2>. SUFFICES ASSUME Inv, [Next]_vars PROVE Inv'
    OBVIOUS
  <2>1. part' = part
    BY DEF Next, vars
  <2>2. CASE part = "flush"
    <3>1. [Flush!Next]_(Flush!vars)
      BY <2>2 DEF Next, vars, logging, Flush!vars
    <3>. QED  BY <1>1, <2>1, <2>2, <3>1, Flush!LogStep
  <2>3. CASE part = "windows"
    <3>1. [TwoWindows!Next]_(TwoWindows!vars)
      BY <2>3 DEF Next, vars, logging, TwoWindows!vars
    <3>. QED  BY <1>1, <2>1, <2>3, <3>1, TwoWindows!LogStep
  <2>4. CASE part \notin {"flush", "windows"}
    BY <2>1, <2>4
  <2>. QED  BY <2>2, <2>3, <2>4
<1>4. Inv => EventsSurvive
  BY <1>1, Flush!LogSurvives, TwoWindows!LogSurvives DEF EventsSurvive
<1>. QED  BY <1>2, <1>3, <1>4, PTL DEF Spec
========================================
