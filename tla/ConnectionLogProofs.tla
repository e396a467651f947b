-------------------------- MODULE ConnectionLogProofs --------------------------
(***************************************************************************)
(* Proofs about ConnectionLog, for any machines, windows and capacity: its  *)
(* types, and that no event is lost but for a reason that is named.         *)
(***************************************************************************)
EXTENDS ConnectionLog, Integers, FiniteSetTheorems, SequenceTheorems, TLAPS

\* The ring holds at least the event just logged.
Bounded == Cap \in Nat \ {0} /\ MaxSeq \in Nat

-----------------------------------------------------------------------------
(* The invariant *)

Logs == [seq : 0..MaxSeq, ring : Seq(Events), flushed : [Machines -> 0..MaxSeq]]

Batches == [window : Windows, machine : Machines, events : SUBSET Events]

\* What every copy of the log is: within its capacity, numbered up to seq, its marks
\* no further, and each event at or below a mark is in that machine's file.
Sound(log, files) ==
  /\ log \in Logs /\ Len(log.ring) <= Cap
  /\ \A e \in ToSet(log.ring) : e.seq <= log.seq
  /\ \A m \in Machines :
       /\ log.flushed[m] <= log.seq
       /\ \A e \in ToSet(log.ring) : For(e, m) /\ e.seq <= log.flushed[m] => e \in files[m]

\* What a batch relies on until it is answered: of what its window's log holds for the
\* machine, nothing between the mark and the newest event sent was left out.
Complete(p, log) ==
  /\ p \in Batches /\ p.events # {}
  /\ \A e \in p.events : e.seq <= log.seq
  /\ \A e \in ToSet(log.ring) :
       For(e, p.machine) /\ e.seq > log.flushed[p.machine]
         => e \in p.events \/ \A d \in p.events : d.seq < e.seq

LogTypes ==
  /\ mem \in [Windows -> [up : {"new", "yes", "dead"}, log : Logs]]
  /\ agent \in [Machines -> SUBSET Events] /\ pushed \subseteq Events

LogInv ==
  /\ LogTypes
  /\ Sound(store, agent) /\ \A w \in Windows : Sound(mem[w].log, agent)
  /\ \A p \in posts : /\ p \in Batches /\ mem[p.window].up = "yes"
                      /\ Complete(p, mem[p.window].log)
  /\ pushed \ excused \subseteq ToSet(store.ring)

-----------------------------------------------------------------------------
(* The newest event of a batch *)

\* A set of numbers up to n that is not empty has a greatest one.
LEMMA GreatestExists ==
  ASSUME NEW n \in Nat, NEW S, S \subseteq 0..n, S # {}
  PROVE  \E x \in S : \A y \in S : x >= y
<1>. DEFINE T == {k..n : k \in S}
<1>1. T \subseteq FiniteSubsetsOf(Int) /\ T # {}
  <2>1. ASSUME NEW k \in S PROVE IsFiniteSet(k..n) /\ k..n \in SUBSET Int
    BY FS_Interval
  <2>. QED  BY <2>1 DEF FiniteSubsetsOf
<1>2. PICK x \in T : \A y \in T : ~ (<<y, x>> \in StrictSubsetOrdering(Int))
  <2>. HIDE DEF T
  <2>. QED  BY <1>1, FS_StrictSubsetOrderingWellFounded, WFMin
<1>3. PICK k \in S : x = k..n
  OBVIOUS
<1>4. ASSUME NEW j \in S PROVE k >= j
  <2>1. j..n \in T /\ ~ (<<j..n, k..n>> \in StrictSubsetOrdering(Int))
    BY <1>2, <1>3
  <2>2. j..n \in SUBSET Int /\ k..n \in SUBSET Int
    OBVIOUS
  <2>3. ~ (j..n \subseteq k..n) \/ j..n = k..n
    BY <2>1, <2>2 DEF StrictSubsetOrdering
  <2>. QED  BY <2>3
<1>. QED  BY <1>3, <1>4

\* The mark of a batch is one of its events', and none of them is newer.
LEMMA LatestIsLast ==
  ASSUME Bounded, NEW events \in SUBSET Events, events # {}
  PROVE  /\ Latest(events) \in 1..MaxSeq
         /\ \E e \in events : Latest(events) = e.seq
         /\ \A e \in events : e.seq <= Latest(events)
<1>. DEFINE S == {e.seq : e \in events}
<1>1. S \subseteq 1..MaxSeq /\ S # {}
  BY DEF Events, Seqs
<1>2. Max(S) \in S /\ \A y \in S : Max(S) >= y
  <2>. HIDE DEF S
  <2>1. S \subseteq 0..MaxSeq /\ S # {} /\ MaxSeq \in Nat
    BY <1>1, Bounded DEF Bounded
  <2>2. \E x \in S : \A y \in S : x >= y
    BY <2>1, GreatestExists
  <2>. QED  BY <2>2 DEF Max
<1>3. Latest(events) = Max(S)
  BY DEF Latest
<1>4. Latest(events) \in S /\ \A y \in S : y <= Latest(events)
  <2>. HIDE DEF S
  <2>. QED  BY <1>1, <1>2, <1>3, Bounded DEF Bounded
<1>5. Latest(events) \in 1..MaxSeq
  BY <1>1, <1>4
<1>6. \E e \in events : Latest(events) = e.seq
  BY <1>4
<1>7. \A e \in events : e.seq <= Latest(events)
  BY <1>4
<1>. QED  BY <1>5, <1>6, <1>7

\* A mark is raised to the newest event of the batch.
LEMMA MarkIs ==
  ASSUME NEW a \in Nat, NEW b \in Nat
  PROVE  Max({a, b}) = IF a <= b THEN b ELSE a
<1>1. \E x \in {a, b} : \A y \in {a, b} : x >= y
  OBVIOUS
<1>2. Max({a, b}) \in {a, b} /\ \A y \in {a, b} : Max({a, b}) >= y
  BY <1>1 DEF Max
<1>. QED  BY <1>2

-----------------------------------------------------------------------------
(* What every window and the store hold *)

\* A ring holds events, and they are numbered.
LEMMA RingOfEvents ==
  ASSUME NEW log \in Logs
  PROVE  ToSet(log.ring) \subseteq Events /\ \A e \in ToSet(log.ring) : e.seq \in Nat
<1>1. log.ring \in Seq(Events)
  BY DEF Logs
<1>2. ToSet(log.ring) \subseteq Events
  BY <1>1 DEF ToSet
<1>. QED  BY <1>2 DEF Events, Seqs

\* Files only grow, so what was sound stays sound.
LEMMA StaysSound ==
  ASSUME NEW files, NEW later, \A m \in Machines : files[m] \subseteq later[m],
         NEW log, Sound(log, files)
  PROVE  Sound(log, later)
BY DEF Sound, Logs

\* An empty log is sound.
LEMMA FreshIsSound ==
  ASSUME Bounded, NEW files
  PROVE  Sound(Fresh, files)
<1>1. Fresh.ring = <<>> /\ Fresh.seq = 0 /\ Fresh.flushed = [m \in Machines |-> 0]
  BY DEF Fresh
<1>2. ToSet(Fresh.ring) = {} /\ Len(Fresh.ring) = 0
  BY <1>1 DEF ToSet
<1>3. Fresh \in Logs
  BY Bounded DEF Bounded, Fresh, Logs
<1>4. Len(Fresh.ring) <= Cap
  BY <1>2, Bounded DEF Bounded
<1>. QED  BY <1>1, <1>2, <1>3, <1>4 DEF Sound

\* Logging an event puts it at the end of the ring, and drops at most the oldest.
LEMMA AppendIsSound ==
  ASSUME Bounded, NEW files, NEW log, Sound(log, files), log.seq < MaxSeq,
         NEW e \in Events, e.seq = log.seq + 1
  PROVE  /\ Sound(Append1(log, e), files) /\ Append1(log, e).flushed = log.flushed
         /\ Append1(log, e).seq = log.seq + 1
         /\ e \in ToSet(Append1(log, e).ring)
         /\ ToSet(Append1(log, e).ring) \subseteq ToSet(log.ring) \cup {e}
<1>. DEFINE long == Append(log.ring, e)
            ring == IF Len(long) > Cap THEN Tail(long) ELSE long
            new == Append1(log, e)
<1>1. log \in Logs /\ log.ring \in Seq(Events) /\ Len(log.ring) <= Cap /\ log.seq \in 0..MaxSeq
  BY DEF Sound, Logs
<1>2. new = [log EXCEPT !.seq = @ + 1, !.ring = ring]
  BY DEF Append1
<1>3. /\ long \in Seq(Events) /\ Len(long) = Len(log.ring) + 1 /\ Len(log.ring) \in Nat
      /\ long[Len(long)] = e /\ \A i \in 1..Len(log.ring) : long[i] = log.ring[i]
  BY <1>1
<1>4. ring \in Seq(Events) /\ Len(ring) <= Cap /\ Len(ring) \in Nat /\ Len(ring) >= 1
  <2>. HIDE DEF long
  <2>1. CASE Len(long) > Cap
    BY <1>1, <1>3, <2>1, Bounded DEF Bounded
  <2>2. CASE ~ (Len(long) > Cap)
    BY <1>1, <1>3, <2>2, Bounded DEF Bounded
  <2>. QED  BY <2>1, <2>2
<1>5. ring[Len(ring)] = e /\ \A i \in 1..Len(ring) : \E j \in 1..Len(long) : ring[i] = long[j]
  <2>. HIDE DEF long
  <2>1. CASE Len(long) > Cap
    BY <1>1, <1>3, <2>1, Bounded DEF Bounded
  <2>2. CASE ~ (Len(long) > Cap)
    BY <1>1, <1>3, <2>2, Bounded DEF Bounded
  <2>. QED  BY <2>1, <2>2
<1>6. e \in ToSet(ring)
  <2>. HIDE DEF ring
  <2>1. Len(ring) \in DOMAIN ring
    BY <1>4
  <2>. QED  BY <1>5, <2>1 DEF ToSet
<1>7. ToSet(ring) \subseteq ToSet(log.ring) \cup {e}
  <2>1. ASSUME NEW x \in ToSet(ring) PROVE x \in ToSet(log.ring) \cup {e}
    <3>. HIDE DEF ring, long
    <3>1. PICK i \in 1..Len(ring) : x = ring[i]
      BY <1>4 DEF ToSet
    <3>2. PICK j \in 1..Len(long) : x = long[j]
      BY <1>5, <3>1
    <3>3. CASE j = Len(long)
      BY <1>3, <3>2, <3>3
    <3>4. CASE j # Len(long)
      <4>1. j \in 1..Len(log.ring) /\ x = log.ring[j]
        BY <1>3, <3>2, <3>4
      <4>. QED  BY <1>1, <4>1 DEF ToSet
    <3>. QED  BY <3>3, <3>4
  <2>. QED  BY <2>1
<1>. HIDE DEF ring
<1>8. new.seq = log.seq + 1 /\ new.ring = ring /\ new.flushed = log.flushed /\ new \in Logs
  <2>1. log.seq + 1 \in 0..MaxSeq
    BY <1>1, Bounded DEF Bounded
  <2>2. ring \in Seq(Events)
    BY <1>4
  <2>. QED  BY <1>1, <1>2, <2>1, <2>2 DEF Logs
<1>. HIDE DEF new
<1>9. \A x \in ToSet(new.ring) : x.seq <= new.seq
  <2>1. \A x \in ToSet(log.ring) : x \in Events /\ x.seq <= log.seq
    BY <1>1 DEF Sound, ToSet
  <2>2. \A x \in Events : x.seq \in Nat
    BY DEF Events, Seqs
  <2>. QED  BY <1>1, <1>7, <1>8, <2>1, <2>2
<1>10. ASSUME NEW m \in Machines
       PROVE  /\ new.flushed[m] <= new.seq
              /\ \A x \in ToSet(new.ring) : For(x, m) /\ x.seq <= new.flushed[m] => x \in files[m]
  <2>1. /\ log.flushed[m] \in 0..MaxSeq /\ log.flushed[m] <= log.seq
        /\ \A x \in ToSet(log.ring) : For(x, m) /\ x.seq <= log.flushed[m] => x \in files[m]
    BY <1>1 DEF Sound, Logs
  <2>2. ~ (e.seq <= log.flushed[m])
    BY <1>1, <2>1
  <2>. QED  BY <1>1, <1>7, <1>8, <2>1, <2>2
<1>11. Sound(new, files)
  BY <1>4, <1>8, <1>9, <1>10 DEF Sound
<1>. QED  BY <1>6, <1>7, <1>8, <1>11 DEF new

-----------------------------------------------------------------------------
(* What is under way *)

\* What is posted when an event has just been logged is not empty and leaves nothing out.
LEMMA PendingIsComplete ==
  ASSUME Bounded, NEW files, NEW log, Sound(log, files), NEW w \in Windows, NEW m \in Machines,
         NEW e \in ToSet(log.ring), For(e, m), e.seq > log.flushed[m]
  PROVE  Complete(Post(w, m, log), log)
<1>. DEFINE p == Post(w, m, log)
<1>1. p = [window |-> w, machine |-> m, events |-> PendingFor(log, m)]
  BY DEF Post
<1>2. ToSet(log.ring) \subseteq Events
  BY DEF Sound, Logs, ToSet
<1>3. PendingFor(log, m) \subseteq ToSet(log.ring) /\ e \in PendingFor(log, m)
  BY DEF PendingFor
<1>4. p \in Batches /\ p.machine = m /\ p.events = PendingFor(log, m)
  BY <1>1, <1>2, <1>3 DEF Batches
<1>5. \A d \in PendingFor(log, m) : d.seq <= log.seq
  BY <1>3 DEF Sound
<1>6. \A d \in ToSet(log.ring) : For(d, m) /\ d.seq > log.flushed[m] => d \in PendingFor(log, m)
  BY DEF PendingFor
<1>. HIDE DEF p
<1>. QED  BY <1>3, <1>4, <1>5, <1>6 DEF Complete, p

\* A new event is newer than all that was sent.
LEMMA AppendKeepsComplete ==
  ASSUME Bounded, NEW files, NEW log, Sound(log, files), log.seq < MaxSeq,
         NEW e \in Events, e.seq = log.seq + 1, NEW p, Complete(p, log)
  PROVE  Complete(p, Append1(log, e))
<1>. DEFINE new == Append1(log, e)
<1>1. /\ new.flushed = log.flushed /\ new.seq = log.seq + 1
      /\ ToSet(new.ring) \subseteq ToSet(log.ring) \cup {e}
  BY AppendIsSound
<1>2. log.seq \in Nat
  BY DEF Sound, Logs
<1>3. \A d \in p.events : d.seq \in Nat /\ d.seq <= log.seq
  BY DEF Complete, Batches, Events, Seqs
<1>. HIDE DEF new
<1>. QED  BY <1>1, <1>2, <1>3 DEF Complete, new

\* A batch that reached the file may be marked.
LEMMA MarkIsSound ==
  ASSUME Bounded, NEW files, NEW log, Sound(log, files), NEW p, Complete(p, log),
         NEW later, \A m \in Machines : files[m] \subseteq later[m],
         p.events \subseteq later[p.machine]
  PROVE  /\ Sound(MarkFlushed(log, p), later)
         /\ MarkFlushed(log, p).ring = log.ring /\ MarkFlushed(log, p).seq = log.seq
         /\ \A m \in Machines : MarkFlushed(log, p).flushed[m] >= log.flushed[m]
<1>. DEFINE new == MarkFlushed(log, p)
            mark == IF log.flushed[p.machine] <= Latest(p.events)
                    THEN Latest(p.events) ELSE log.flushed[p.machine]
<1>1. /\ p \in Batches /\ p.machine \in Machines /\ p.events \in SUBSET Events /\ p.events # {}
      /\ log \in Logs /\ log.seq \in 0..MaxSeq /\ log.flushed \in [Machines -> 0..MaxSeq]
  BY DEF Complete, Batches, Sound, Logs
<1>2. /\ Latest(p.events) \in 1..MaxSeq
      /\ \E e \in p.events : Latest(p.events) = e.seq
      /\ \A e \in p.events : e.seq <= Latest(p.events)
  BY <1>1, LatestIsLast
<1>3. log.flushed[p.machine] \in 0..MaxSeq
  BY <1>1
<1>4. Max({log.flushed[p.machine], Latest(p.events)}) = mark
  BY <1>2, <1>3, MarkIs, Bounded DEF Bounded
<1>5. mark \in 0..MaxSeq /\ mark >= log.flushed[p.machine] /\ mark <= log.seq
  <2>1. Latest(p.events) <= log.seq /\ log.flushed[p.machine] <= log.seq
    BY <1>1, <1>2 DEF Complete, Sound
  <2>. QED  BY <1>2, <1>3, <2>1, Bounded DEF Bounded
<1>. HIDE DEF mark
<1>6. new = [log EXCEPT !.flushed[p.machine] = mark]
  BY <1>4 DEF MarkFlushed
<1>7. /\ new.ring = log.ring /\ new.seq = log.seq /\ new \in Logs
      /\ new.flushed = [log.flushed EXCEPT ![p.machine] = mark]
  BY <1>1, <1>5, <1>6 DEF Logs
<1>. HIDE DEF new
<1>8. ASSUME NEW m \in Machines
      PROVE  /\ new.flushed[m] <= new.seq /\ new.flushed[m] >= log.flushed[m]
             /\ \A e \in ToSet(new.ring) : For(e, m) /\ e.seq <= new.flushed[m] => e \in later[m]
  <2>1. /\ log.flushed[m] \in 0..MaxSeq /\ log.flushed[m] <= log.seq
        /\ \A e \in ToSet(log.ring) : For(e, m) /\ e.seq <= log.flushed[m] => e \in later[m]
    BY <1>1 DEF Sound
  <2>2. CASE m # p.machine
    BY <1>1, <1>7, <2>1, <2>2
  <2>3. CASE m = p.machine
    <3>1. new.flushed[m] = mark
      BY <1>1, <1>7, <2>3
    <3>2. ASSUME NEW e \in ToSet(new.ring), For(e, m), e.seq <= new.flushed[m]
          PROVE  e \in later[m]
      <4>1. e \in ToSet(log.ring) /\ e.seq \in Nat
        BY <1>1, <1>7, RingOfEvents
      <4>2. CASE e.seq <= log.flushed[m]
        BY <2>1, <3>2, <4>1, <4>2
      <4>3. CASE ~ (e.seq <= log.flushed[m])
        <5>1. mark = Latest(p.events)
          BY <1>3, <2>3, <3>1, <3>2, <4>1, <4>3 DEF mark
        <5>2. e.seq > log.flushed[m]
          BY <2>1, <4>1, <4>3
        <5>3. e \in p.events \/ \A d \in p.events : d.seq < e.seq
          BY <2>3, <3>2, <4>1, <5>2 DEF Complete
        <5>4. ~ (\A d \in p.events : d.seq < e.seq)
          BY <1>2, <3>1, <3>2, <4>1, <5>1
        <5>. QED  BY <2>3, <5>3, <5>4
      <4>. QED  BY <4>2, <4>3
    <3>. QED  BY <1>5, <1>7, <2>3, <3>1, <3>2
  <2>. QED  BY <2>2, <2>3
<1>9. Len(new.ring) <= Cap /\ \A e \in ToSet(new.ring) : e.seq <= new.seq
  BY <1>7 DEF Sound
<1>10. Sound(new, later)
  BY <1>7, <1>8, <1>9 DEF Sound
<1>. QED  BY <1>7, <1>8, <1>10 DEF new

\* Marking leaves the other batches complete.
LEMMA MarkKeepsComplete ==
  ASSUME NEW log, log \in Logs, NEW new, new \in Logs, new.ring = log.ring, new.seq = log.seq,
         \A m \in Machines : new.flushed[m] >= log.flushed[m],
         NEW p, Complete(p, log)
  PROVE  Complete(p, new)
<1>1. p.machine \in Machines
  BY DEF Complete, Batches
<1>2. new.flushed[p.machine] \in Nat /\ log.flushed[p.machine] \in Nat
  BY <1>1 DEF Logs
<1>3. new.flushed[p.machine] >= log.flushed[p.machine]
  BY <1>1
<1>4. \A e \in ToSet(log.ring) : e.seq \in Nat
  BY RingOfEvents
<1>5. \A e \in ToSet(new.ring) :
         e.seq > new.flushed[p.machine] => e \in ToSet(log.ring) /\ e.seq > log.flushed[p.machine]
  BY <1>2, <1>3, <1>4
<1>. QED  BY <1>5 DEF Complete

-----------------------------------------------------------------------------
(* Every step *)

\* A window starts from what is stored, having sent nothing yet.
LEMMA LaunchStep ==
  ASSUME LogInv, NEW w \in Windows, Launch(w)
  PROVE  LogInv'
<1>1. /\ mem \in [Windows -> [up : {"new", "yes", "dead"}, log : Logs]] /\ store \in Logs
      /\ mem' = [mem EXCEPT ![w] = [up |-> "yes", log |-> store]] /\ mem[w].up = "new"
      /\ UNCHANGED <<store, posts, agent, pushed, excused>>
  BY DEF LogInv, LogTypes, Launch, Sound
<1>2. LogTypes'
  BY <1>1 DEF LogInv, LogTypes
<1>3. \A v \in Windows : Sound(mem'[v].log, agent)
  BY <1>1 DEF LogInv
<1>4. \A p \in posts : p.window # w /\ p.window \in Windows
  BY <1>1 DEF LogInv, Batches
<1>5. \A p \in posts : mem'[p.window] = mem[p.window]
  BY <1>1, <1>4
<1>. QED  BY <1>1, <1>2, <1>3, <1>5 DEF LogInv

\* A killed window takes its posts with it.
LEMMA KillStep ==
  ASSUME Bounded, LogInv, NEW w \in Windows, Kill(w)
  PROVE  LogInv'
<1>1. /\ mem \in [Windows -> [up : {"new", "yes", "dead"}, log : Logs]]
      /\ mem' = [mem EXCEPT ![w] = [up |-> "dead", log |-> Fresh]]
      /\ posts' = {p \in posts : p.window # w}
      /\ UNCHANGED <<store, agent, pushed, excused>>
  BY DEF LogInv, LogTypes, Kill
<1>2. Sound(Fresh, agent) /\ Fresh \in Logs
  BY FreshIsSound DEF Sound
<1>3. LogTypes'
  BY <1>1, <1>2 DEF LogInv, LogTypes
<1>4. \A v \in Windows : Sound(mem'[v].log, agent)
  BY <1>1, <1>2 DEF LogInv
<1>5. \A p \in posts' : p \in posts /\ p.window \in Windows /\ mem'[p.window] = mem[p.window]
  BY <1>1 DEF LogInv, Batches
<1>. QED  BY <1>1, <1>3, <1>4, <1>5 DEF LogInv

\* An event is in the ring and in what is posted with it, or its loss is accounted for.
LEMMA PushStep ==
  ASSUME Bounded, LogInv, NEW w \in Windows, NEW m \in Machines \cup {Everyone},
         NEW flushing \in SUBSET Machines, m = Everyone \/ flushing \subseteq {m},
         Push(w, m, flushing)
  PROVE  LogInv'
<1>. DEFINE log == mem[w].log
            e == [sess |-> w, seq |-> log.seq + 1, machine |-> m]
            new == Append1(log, e)
<1>1. /\ log.seq < MaxSeq /\ mem[w].up = "yes"
      /\ mem' = [mem EXCEPT ![w].log = new] /\ pushed' = pushed \cup {e}
      /\ Save(new, (ToSet(log.ring) \cup {e}) \ ToSet(new.ring))
      /\ posts' = posts \cup {Post(w, f, new) : f \in flushing}
      /\ agent' = agent
  BY DEF Push
<1>2. Sound(log, agent) /\ log \in Logs /\ log.seq \in 0..MaxSeq
  BY DEF LogInv, Sound, Logs
<1>3. e \in Events /\ e.seq = log.seq + 1 /\ e.machine = m
  BY <1>1, <1>2, Bounded DEF Bounded, Events, Seqs
<1>. HIDE DEF e
<1>4. /\ Sound(new, agent) /\ new.flushed = log.flushed
      /\ e \in ToSet(new.ring) /\ ToSet(new.ring) \subseteq ToSet(log.ring) \cup {e}
  BY <1>1, <1>2, <1>3, AppendIsSound
<1>5. \A p : Complete(p, log) => Complete(p, new)
  BY <1>1, <1>2, <1>3, AppendKeepsComplete
<1>6. ASSUME NEW f \in flushing
      PROVE  Complete(Post(w, f, new), new) /\ Post(w, f, new).window = w
  <2>1. f \in Machines /\ For(e, f)
    BY <1>3 DEF For
  <2>2. log.flushed[f] \in 0..MaxSeq /\ log.flushed[f] <= log.seq
    BY <1>2, <2>1 DEF Sound, Logs
  <2>3. e.seq > new.flushed[f]
    BY <1>2, <1>3, <1>4, <2>2
  <2>. HIDE DEF new
  <2>4. Complete(Post(w, f, new), new)
    BY <1>4, <2>1, <2>3, PendingIsComplete
  <2>. QED  BY <2>4 DEF Post
<1>. HIDE DEF new, log
<1>7. new \in Logs
  BY <1>4 DEF Sound
<1>8. mem \in [Windows -> [up : {"new", "yes", "dead"}, log : Logs]]
  BY DEF LogInv, LogTypes
<1>9. /\ mem' \in [Windows -> [up : {"new", "yes", "dead"}, log : Logs]]
      /\ mem'[w].log = new /\ mem'[w].up = "yes"
      /\ \A v \in Windows : v # w => mem'[v] = mem[v]
  BY <1>1, <1>7, <1>8
<1>10. LogTypes'
  BY <1>1, <1>3, <1>9 DEF LogInv, LogTypes
<1>11. \A v \in Windows : Sound(mem'[v].log, agent)
  BY <1>4, <1>9 DEF LogInv
<1>12. Sound(store', agent)
  BY <1>1, <1>4 DEF LogInv, Save
<1>13. ASSUME NEW p \in posts'
       PROVE  p \in Batches /\ mem'[p.window].up = "yes" /\ Complete(p, mem'[p.window].log)
  <2>1. CASE p \in posts
    <3>1. p \in Batches /\ p.window \in Windows
      BY <2>1 DEF LogInv, Batches
    <3>2. mem[p.window].up = "yes" /\ Complete(p, mem[p.window].log)
      BY <2>1 DEF LogInv
    <3>3. CASE p.window = w
      BY <1>5, <1>9, <3>1, <3>2, <3>3 DEF log
    <3>4. CASE p.window # w
      BY <1>9, <3>1, <3>2, <3>4
    <3>. QED  BY <3>3, <3>4
  <2>2. CASE p \notin posts
    <3>1. PICK f \in flushing : p = Post(w, f, new)
      BY <1>1, <2>2
    <3>2. Complete(p, new) /\ p.window = w
      BY <1>6, <3>1
    <3>. QED  BY <1>9, <3>2 DEF Complete
  <2>. QED  BY <2>1, <2>2
<1>14. pushed' \ excused' \subseteq ToSet(store'.ring)
  BY <1>1 DEF LogInv, Save
<1>. QED  BY <1>1, <1>10, <1>11, <1>12, <1>13, <1>14 DEF LogInv

\* The answer to a batch raises the mark over what the file now has; a lost one leaves it.
LEMMA AppendedStep ==
  ASSUME Bounded, LogInv, NEW p \in posts, Appended(p)
  PROVE  LogInv'
<1>. DEFINE w == p.window
            log == mem[w].log
            new == MarkFlushed(log, p)
<1>1. /\ p \in Batches /\ w \in Windows /\ p.machine \in Machines /\ p.events \subseteq Events
      /\ mem[w].up = "yes" /\ Complete(p, log) /\ Sound(log, agent)
  BY DEF LogInv, Batches
<1>2. /\ agent' = [agent EXCEPT ![p.machine] = @ \cup p.events]
      /\ posts' = posts \ {p} /\ pushed' = pushed
      /\ \/ UNCHANGED <<store, mem, excused>>
         \/ mem' = [mem EXCEPT ![w].log = new] /\ Save(new, {})
  BY DEF Appended, AppendToFile
<1>3. agent \in [Machines -> SUBSET Events]
  BY DEF LogInv, LogTypes
<1>4. /\ agent' \in [Machines -> SUBSET Events] /\ p.events \subseteq agent'[p.machine]
      /\ \A m \in Machines : agent[m] \subseteq agent'[m]
  BY <1>1, <1>2, <1>3
<1>5. /\ Sound(new, agent') /\ new.ring = log.ring /\ new.seq = log.seq
      /\ \A m \in Machines : new.flushed[m] >= log.flushed[m]
  BY <1>1, <1>4, MarkIsSound
<1>6. log \in Logs /\ new \in Logs
  BY <1>1, <1>5 DEF Sound
<1>7. \A q : Complete(q, log) => Complete(q, new)
  <2>. HIDE DEF log, new
  <2>. QED  BY <1>5, <1>6, MarkKeepsComplete
<1>. HIDE DEF new, log
<1>8. mem \in [Windows -> [up : {"new", "yes", "dead"}, log : Logs]]
  BY DEF LogInv, LogTypes
<1>9. Sound(store, agent') /\ \A v \in Windows : Sound(mem[v].log, agent')
  BY <1>4, StaysSound DEF LogInv
<1>10. CASE UNCHANGED <<store, mem, excused>>
  <2>1. LogTypes'
    BY <1>2, <1>4, <1>10 DEF LogInv, LogTypes
  <2>. QED  BY <1>2, <1>9, <1>10, <2>1 DEF LogInv
<1>11. CASE mem' = [mem EXCEPT ![w].log = new] /\ Save(new, {})
  <2>1. /\ mem' \in [Windows -> [up : {"new", "yes", "dead"}, log : Logs]]
        /\ mem'[w].log = new /\ mem'[w].up = "yes"
        /\ \A v \in Windows : v # w => mem'[v] = mem[v]
    BY <1>1, <1>6, <1>8, <1>11
  <2>2. LogTypes'
    BY <1>2, <1>4, <2>1 DEF LogInv, LogTypes
  <2>3. \A v \in Windows : Sound(mem'[v].log, agent')
    BY <1>5, <1>9, <2>1
  <2>4. Sound(store', agent')
    BY <1>5, <1>9, <1>11 DEF Save
  <2>5. ASSUME NEW q \in posts'
        PROVE  q \in Batches /\ mem'[q.window].up = "yes" /\ Complete(q, mem'[q.window].log)
    <3>1. q \in posts /\ q \in Batches /\ q.window \in Windows
      BY <1>2 DEF LogInv, Batches
    <3>2. mem[q.window].up = "yes" /\ Complete(q, mem[q.window].log)
      BY <3>1 DEF LogInv
    <3>3. CASE q.window = w
      BY <1>7, <2>1, <3>1, <3>2, <3>3 DEF log
    <3>4. CASE q.window # w
      BY <2>1, <3>1, <3>2, <3>4
    <3>. QED  BY <3>3, <3>4
  <2>6. pushed' \ excused' \subseteq ToSet(store'.ring)
    BY <1>2, <1>11 DEF LogInv, Save
  <2>. QED  BY <2>2, <2>3, <2>4, <2>5, <2>6 DEF LogInv
<1>. QED  BY <1>2, <1>10, <1>11

\* A batch that failed is forgotten; what it held stays pending.
LEMMA FailedStep ==
  ASSUME LogInv, NEW p \in posts, Failed(p)
  PROVE  LogInv'
BY DEF LogInv, LogTypes, Failed

LEMMA LogStep ==
  ASSUME Bounded, LogInv, [Next]_vars
  PROVE  LogInv'
<1>1. CASE UNCHANGED vars
  BY <1>1 DEF LogInv, LogTypes, vars
<1>2. ASSUME NEW w \in Windows, Launch(w) \/ Kill(w) PROVE LogInv'
  BY <1>2, LaunchStep, KillStep
<1>3. ASSUME NEW w \in Windows, NEW m \in Machines, LinkEvent(w, m) \/ Online(w, m)
      PROVE  LogInv'
  BY <1>3, PushStep DEF LinkEvent, Online
<1>4. ASSUME NEW w \in Windows, LogConnectivity(w) PROVE LogInv'
  BY <1>4, PushStep DEF LogConnectivity
<1>5. ASSUME NEW p \in posts, Appended(p) \/ Failed(p) PROVE LogInv'
  BY <1>5, AppendedStep, FailedStep
<1>. QED  BY <1>1, <1>2, <1>3, <1>4, <1>5 DEF Next

LEMMA LogInit == ASSUME Bounded, Init PROVE LogInv
<1>1. Sound(Fresh, agent) /\ Fresh \in Logs
  BY FreshIsSound DEF Sound
<1>. QED  BY <1>1 DEF Init, LogInv, LogTypes

-----------------------------------------------------------------------------
(* The theorems *)

LEMMA LogSurvives == ASSUME Bounded, LogInv PROVE TypeOK /\ EventsSurvive
<1>1. TypeOK
  BY DEF LogInv, LogTypes, Sound, Logs, TypeOK
<1>2. ASSUME NEW e \in pushed \ excused, NEW m \in Machines, For(e, m)
      PROVE  e \in agent[m] \/ \E log \in Holders : e \in PendingFor(log, m)
  <2>1. e \in ToSet(store.ring) /\ e.seq \in Nat /\ store.flushed[m] \in Nat
    BY DEF LogInv, LogTypes, Sound, Logs, Events, Seqs
  <2>2. CASE e.seq <= store.flushed[m]
    BY <1>2, <2>1, <2>2 DEF LogInv, Sound
  <2>3. CASE e.seq > store.flushed[m]
    BY <1>2, <2>1, <2>3 DEF PendingFor, Holders
  <2>. QED  BY <2>1, <2>2, <2>3
<1>. QED  BY <1>1, <1>2 DEF EventsSurvive

\* The ring stays within its capacity and everything within its types.
THEOREM TypeCorrect == Bounded => (Spec => []TypeOK)
<1>. SUFFICES ASSUME Bounded PROVE Spec => []TypeOK
  OBVIOUS
<1>. QED  BY LogInit, LogStep, LogSurvives, PTL DEF Spec

\* No event is lost but by the capacity, a refused write or another window's save
\* (connection-log.ts, connection-log-flush.ts).
THEOREM EventsSurviveAlways == Bounded => (Spec => []EventsSurvive)
<1>. SUFFICES ASSUME Bounded PROVE Spec => []EventsSurvive
  OBVIOUS
<1>. QED  BY LogInit, LogStep, LogSurvives, PTL DEF Spec
================================================================================
