------------------------------- MODULE FileServe -------------------------------
(* A file of a workspace read for the client (fs-file-reader.ts): a text over *)
(* the socket, cut at a cap and marked as cut (read-file.ts); an image, a PDF *)
(* or a sound over HTTP, refused beyond its cap (read-servable-file.ts).  A   *)
(* program writes the file meanwhile.  Contents are told apart by the file    *)
(* (inode) they are of, and their length.                                     *)
EXTENDS Integers

CONSTANTS Requests, None,
          Cap,       \* bytes a request may take
          MaxSize,   \* bound on the size of a file
          Inodes     \* bound: the files that can come to lie at the path

VARIABLES at,       \* the inode at the path, or None
          size,     \* inode |-> its length
          allowed,  \* the path lies under a root or a live workspace
          stage,    \* request |-> how far it has come
          stat,     \* request |-> what stat said: how much to read, and truncated
          fd,       \* request |-> the inode it has opened
          body,     \* request |-> inode and length of what was answered
          touched   \* history: requests whose file changed between stat and read

vars == <<at, size, allowed, stage, stat, fd, body, touched>>
disk == <<at, size, allowed>>

Stages == {"asked", "authorized", "statted", "opened", "answered", "too-large", "refused", "gone"}
Kinds == {"text", "media"}

TypeOK == /\ at \in Inodes \union {None} /\ size \in [Inodes -> 0 .. MaxSize]
          /\ DOMAIN stage = Requests /\ touched \subseteq Requests
          /\ \A r \in Requests : stage[r].at \in Stages /\ stage[r].kind \in Kinds

Init == /\ at \in Inodes \union {None} /\ size \in [Inodes -> 0 .. MaxSize]
        /\ allowed \in BOOLEAN
        /\ stage \in [Requests -> [at : {"asked"}, kind : Kinds]]
        /\ stat = [r \in Requests |-> [toRead |-> 0, truncated |-> FALSE]]
        /\ fd = [r \in Requests |-> None]
        /\ body = [r \in Requests |-> None] /\ touched = {}

Reading == {r \in Requests : stage[r].at \in {"statted", "opened"}}
Reached(r, s) == stage' = [stage EXCEPT ![r].at = s]

(* A program appends to the file, cuts it, or puts another in its place.     *)
Write(n) == /\ at # None /\ n # size[at] /\ size' = [size EXCEPT ![at] = n]
            /\ touched' = touched \union Reading
            /\ UNCHANGED <<at, allowed, stage, stat, fd, body>>

Replace(i) == /\ at # i /\ at' = i /\ touched' = touched \union Reading
              /\ UNCHANGED <<size, allowed, stage, stat, fd, body>>

(* The workspace the path is in ends, or one opens there.                    *)
RootsChange == /\ allowed' = ~allowed
               /\ UNCHANGED <<at, size, stage, stat, fd, body, touched>>

Authorize(r) == /\ stage[r].at = "asked"
                /\ Reached(r, IF allowed THEN "authorized" ELSE "refused")
                /\ UNCHANGED <<disk, stat, fd, body, touched>>

(* Faulty variant: a file of just the cap counts as cut.                     *)
TruncatedAtCap(n) == n >= Cap

Truncated(n) == n > Cap

Stat(r) ==
  /\ stage[r].at = "authorized"
  /\ IF at = None THEN Reached(r, "gone") /\ UNCHANGED stat
     ELSE /\ Reached(r, "statted")
          /\ stat' = [stat EXCEPT ![r] = [truncated |-> Truncated(size[at]),
                toRead |-> IF Truncated(size[at]) THEN Cap ELSE size[at]]]
  /\ UNCHANGED <<disk, fd, body, touched>>

Open(r) ==
  /\ stage[r].at = "statted"
  /\ IF at = None THEN Reached(r, "gone") /\ UNCHANGED fd
     ELSE Reached(r, "opened") /\ fd' = [fd EXCEPT ![r] = at]
  /\ UNCHANGED <<disk, stat, body, touched>>

(* One read of as much as stat promised, then the answer: a text with its    *)
(* truncated flag; a media file that was cut is not served.                  *)
Read(r) ==
  LET has == size[fd[r]]
      n == IF has < stat[r].toRead THEN has ELSE stat[r].toRead
  IN /\ stage[r].at = "opened"
     /\ IF stage[r].kind = "media" /\ stat[r].truncated
          THEN Reached(r, "too-large") /\ UNCHANGED body
          ELSE /\ Reached(r, "answered")
               /\ body' = [body EXCEPT ![r] = [inode |-> fd[r], length |-> n,
                             of |-> has, cut |-> stat[r].truncated]]
     /\ UNCHANGED <<disk, stat, fd, touched>>

Next ==
  \/ \E n \in 0 .. MaxSize : Write(n)
  \/ \E i \in Inodes \union {None} : Replace(i)
  \/ RootsChange
  \/ \E r \in Requests : Authorize(r) \/ Stat(r) \/ Open(r) \/ Read(r)

Spec == Init /\ [][Next]_vars

Answered(r) == stage[r].at = "answered"

(* What is answered as the whole file is the whole file, and what is marked  *)
(* as cut is a part of it, unless the file changed while it was read.        *)
WholeOrMarked ==
  \A r \in Requests \ touched :
    Answered(r) => (body[r].cut <=> body[r].length < body[r].of)

(* No media file is served in part.  One that grows between the stat and the *)
(* read is: the body ends where the file ended at the stat.                  *)
NeverPartial ==
  \A r \in Requests : Answered(r) /\ stage[r].kind = "media" => body[r].length = body[r].of
=============================================================================
