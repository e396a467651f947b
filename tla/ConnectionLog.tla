----------------------------- MODULE ConnectionLog -----------------------------
(***************************************************************************)
(* The PWA's durable log of connection events: a ring kept in localStorage,  *)
(* shared by every window of the app, and flushed per machine to the agent's *)
(* POST /clientlog, which appends the batch to a file.                       *)
(***************************************************************************)
EXTENDS Naturals, Sequences, FiniteSets, FiniteSetsExt, SequencesExt

CONSTANTS Machines, Windows, \* each window is one launch of the app
          Everyone,          \* the machine of an app-global event
          Cap,               \* capacity of the ring
          MaxSeq, MaxPosts   \* bounds on the numbered events and on the flushes under way

VARIABLES store,   \* localStorage: what the last save left
          mem,     \* window |-> [up, log], log its own copy of the state
          posts,   \* flushes under way: [window, machine, events]
          agent,   \* machine |-> events in its client-log.jsonl
          pushed,  \* every event there ever was
          excused  \* events lost to the ring's capacity, a failed save or another window

vars == <<store, mem, posts, agent, pushed, excused>>

\* The code's seq starts at 0 and its marks at -1: both are one higher here.
Fresh == [seq |-> 0, ring |-> <<>>, flushed |-> [m \in Machines |-> 0]]
For(e, m) == e.machine \in {m, Everyone}
Seqs == 1 .. MaxSeq
Events == [sess : Windows, seq : Seqs, machine : Machines \cup {Everyone}]

TypeOK == /\ store.seq \in 0 .. MaxSeq /\ Len(store.ring) <= Cap
          /\ \A w \in Windows : Len(mem[w].log.ring) <= Cap
          /\ agent \in [Machines -> SUBSET Events] /\ pushed \subseteq Events

Init == /\ store = Fresh /\ mem = [w \in Windows |-> [up |-> "new", log |-> Fresh]]
        /\ posts = {} /\ agent = [m \in Machines |-> {}] /\ pushed = {} /\ excused = {}

Launch(w) == /\ mem[w].up = "new" /\ mem' = [mem EXCEPT ![w] = [up |-> "yes", log |-> store]]
             /\ UNCHANGED <<store, posts, agent, pushed, excused>>

\* The app is killed: memory and the answers to its posts are gone.
Kill(w) == /\ mem[w].up = "yes" /\ mem' = [mem EXCEPT ![w] = [up |-> "dead", log |-> Fresh]]
           /\ posts' = {p \in posts : p.window # w}
           /\ UNCHANGED <<store, agent, pushed, excused>>

(* persist: the whole state replaces what is stored, or the write fails.     *)
Save(log, dropped) ==
    \/ store' = log /\ excused' = excused \cup dropped \cup (ToSet(store.ring) \ ToSet(log.ring))
    \/ UNCHANGED store /\ excused' = excused \cup dropped \cup (ToSet(log.ring) \ ToSet(store.ring))

Append1(log, e) ==
    LET long == Append(log.ring, e)
    IN [log EXCEPT !.seq = @ + 1, !.ring = IF Len(long) > Cap THEN Tail(long) ELSE long]

PendingFor(log, m) == {e \in ToSet(log.ring) : e.seq > log.flushed[m] /\ For(e, m)}
Post(w, m, log) == [window |-> w, machine |-> m, events |-> PendingFor(log, m)]

\* An event of m is logged and saved, and what is pending is posted to some machines.
Push(w, m, flushing) ==
    LET log == mem[w].log
        e == [sess |-> w, seq |-> log.seq + 1, machine |-> m]
        new == Append1(log, e)
    IN /\ mem[w].up = "yes" /\ log.seq < MaxSeq
       /\ mem' = [mem EXCEPT ![w].log = new] /\ pushed' = pushed \cup {e}
       /\ Save(new, (ToSet(log.ring) \cup {e}) \ ToSet(new.ring))
       /\ posts' = posts \cup {Post(w, f, new) : f \in flushing} /\ Cardinality(posts') <= MaxPosts
       /\ UNCHANGED agent

\* A link closes, or starts anew; it comes online; the app is shown, hidden or
\* changes network, and every machine then online gets its share.
LinkEvent(w, m) == Push(w, m, {})
Online(w, m) == Push(w, m, {m})
LogConnectivity(w) == \E online \in SUBSET Machines : Push(w, Everyone, online)

Latest(events) == Max({e.seq : e \in events})
\* Faulty variant: the mark is the newest event of the log, sent or not.
MarkAll(log, p) == [log EXCEPT !.flushed[p.machine] = log.seq]
MarkFlushed(log, p) ==
    [log EXCEPT !.flushed[p.machine] = Max({@, Latest(p.events)})]

AppendToFile(p) == agent' = [agent EXCEPT ![p.machine] = @ \cup p.events]

\* The batch reaches the file; the answer may still be lost on its way back.
Appended(p) == /\ AppendToFile(p)
               /\ posts' = posts \ {p}
               /\ UNCHANGED pushed
               /\ \/ UNCHANGED <<store, mem, excused>>
                  \/ LET new == MarkFlushed(mem[p.window].log, p)
                     IN mem' = [mem EXCEPT ![p.window].log = new] /\ Save(new, {})

Failed(p) == posts' = posts \ {p} /\ UNCHANGED <<store, mem, agent, pushed, excused>>

Next == \/ \E w \in Windows : Launch(w) \/ Kill(w)
        \/ \E w \in Windows, m \in Machines : LinkEvent(w, m) \/ Online(w, m)
        \/ \E w \in Windows : LogConnectivity(w)
        \/ \E p \in posts : Appended(p) \/ Failed(p)

Spec == Init /\ [][Next]_vars

(* No event is lost but by the ring's capacity, a write the storage refused, *)
(* or another window's save: whatever flushes overlap, fail or lose their    *)
(* answer, and whenever the app is killed, an event is in each file it is    *)
(* meant for or some ring still holds it as pending (connection-log.ts,      *)
(* connection-log-flush.ts).                                                 *)
Holders == {store} \cup {mem[w].log : w \in {v \in Windows : mem[v].up = "yes"}}
EventsSurvive ==
    \A e \in pushed \ excused, m \in Machines :
        For(e, m) => e \in agent[m] \/ \E log \in Holders : e \in PendingFor(log, m)

=============================================================================
