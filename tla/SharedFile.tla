------------------------------- MODULE SharedFile -------------------------------
(***************************************************************************)
(* A file shared to the PWA by the OS: the service worker stashes it in one  *)
(* cache entry, a window reads the entry at boot, and attaches the file to a *)
(* workspace once one is open on a machine that is online.                   *)
(***************************************************************************)
EXTENDS FiniteSets, FiniteSetsExt

CONSTANTS Files,    \* shared files, in any order
          Huge,     \* those over the upload limit
          Windows, None

VARIABLES shared,   \* files the OS has shared so far
          cache,    \* the entry /shared-file of the cache perch-shared
          boot,     \* window |-> "closed", "booting" or "ready"
          pending,  \* window |-> store.pendingSharedFile
          open,     \* window |-> a workspace is open and its machine online
          deleting, \* window |-> files whose consumption is under way
          sent,     \* files sent to a session
          replaced, \* files a later share overwrote in the cache
          swept     \* files deleted by the consumption of another one

vars == <<shared, cache, boot, pending, open, deleting, sent, replaced, swept>>

TypeOK == /\ shared \subseteq Files /\ cache \in Files \cup {None}
          /\ pending \in [Windows -> Files \cup {None}] /\ open \in [Windows -> BOOLEAN]
          /\ sent \cup replaced \cup swept \subseteq shared

Init == /\ shared = {} /\ cache = None /\ boot = [w \in Windows |-> "closed"]
        /\ pending = [w \in Windows |-> None] /\ open = [w \in Windows |-> FALSE]
        /\ deleting = [w \in Windows |-> {}] /\ sent = {} /\ replaced = {} /\ swept = {}

Share(f) == /\ f \notin shared /\ shared' = shared \cup {f} /\ cache' = f
            /\ replaced' = replaced \cup ({cache} \ {None})
            /\ UNCHANGED <<boot, pending, open, deleting, sent, swept>>

\* A page load starts the store anew; an unfinished consumption still lands or not.
Boot(w) == /\ boot' = [boot EXCEPT ![w] = "booting"] /\ pending' = [pending EXCEPT ![w] = None]
           /\ open' = [open EXCEPT ![w] = FALSE] /\ UNCHANGED <<shared, cache, deleting, sent, replaced, swept>>

Close(w) == /\ boot[w] # "closed" /\ boot' = [boot EXCEPT ![w] = "closed"]
            /\ pending' = [pending EXCEPT ![w] = None] /\ open' = [open EXCEPT ![w] = FALSE]
            /\ UNCHANGED <<shared, cache, deleting, sent, replaced, swept>>

(* flushPendingSharedFile, for the file held and whether a session can take  *)
(* it: a file over the limit is refused and stays.                           *)
\* Faulty variant: the file is dropped even when the send was refused.
FlushAlways(w, held, can) ==
    IF held # None /\ can
    THEN /\ pending' = [pending EXCEPT ![w] = None] /\ sent' = sent \cup ({held} \ Huge)
         /\ deleting' = [deleting EXCEPT ![w] = @ \cup {held}]
    ELSE pending' = [pending EXCEPT ![w] = held] /\ UNCHANGED <<sent, deleting>>

Flush(w, held, can) ==
    IF held # None /\ can /\ held \notin Huge
    THEN /\ pending' = [pending EXCEPT ![w] = None] /\ sent' = sent \cup {held}
         /\ deleting' = [deleting EXCEPT ![w] = @ \cup {held}]
    ELSE pending' = [pending EXCEPT ![w] = held] /\ UNCHANGED <<sent, deleting>>

\* Reading leaves the entry where it is.
ReadSharedFile == cache

LoadSharedFile(w) == /\ boot[w] = "booting" /\ boot' = [boot EXCEPT ![w] = "ready"]
                     /\ Flush(w, ReadSharedFile, open[w])
                     /\ UNCHANGED <<shared, cache, open, replaced, swept>>

Opens(w) == /\ boot[w] # "closed" /\ ~open[w] /\ open' = [open EXCEPT ![w] = TRUE]
            /\ Flush(w, pending[w], TRUE) /\ UNCHANGED <<shared, cache, boot, replaced, swept>>

Leaves(w) == /\ open[w] /\ open' = [open EXCEPT ![w] = FALSE]
             /\ UNCHANGED <<shared, cache, boot, pending, deleting, sent, replaced, swept>>

\* consumeSharedFile names the entry, not the file in it.
Consumed(w, f) == /\ f \in deleting[w] /\ deleting' = [deleting EXCEPT ![w] = @ \ {f}]
                  /\ cache' = None /\ swept' = swept \cup ({cache} \ {f, None})
                  /\ UNCHANGED <<shared, boot, pending, open, sent, replaced>>

Next == \/ \E f \in Files : Share(f)
        \/ \E w \in Windows : Boot(w) \/ Close(w) \/ LoadSharedFile(w) \/ Opens(w) \/ Leaves(w)
        \/ \E w \in Windows : \E f \in deleting[w] : Consumed(w, f)

Spec == Init /\ [][Next]_vars

(* A shared file that was not attached is still stashed, whatever boots,     *)
(* closes and refused sends came in between, unless a later share replaced   *)
(* it or a window attached an older file after it came (shared-file.ts).     *)
ShareSurvives == \A f \in shared \ (sent \cup replaced \cup swept) : cache = f

(* The promise in shared-file.ts that an entry just stashed is never deleted. *)
NeverSwept == swept = {}

=============================================================================
