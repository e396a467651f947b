------------------------------ MODULE ViewerLock ------------------------------
(***************************************************************************)
(* What the agent promises about terminal viewers: a workspace has at most *)
(* one viewer, a connection views at most one workspace, a newcomer takes  *)
(* the workspace over, and nobody else's view is touched by that.          *)
(***************************************************************************)
CONSTANTS
  Ids,    \* workspaces
  Conns,  \* client connections
  None    \* nobody

VARIABLE viewer  \* who views each workspace

Init == viewer = [w \in Ids |-> None]

\* c now views w: it leaves what it viewed, and w's former viewer is put out.
Take(c, w) ==
  viewer' = [x \in Ids |-> IF x = w THEN c
                           ELSE IF viewer[x] = c THEN None ELSE viewer[x]]

\* The view of w ends: detach, disconnect, or the terminal's own exit.
Leave(w) ==
  /\ viewer[w] # None
  /\ viewer' = [viewer EXCEPT ![w] = None]

Next ==
  \/ \E c \in Conns, w \in Ids : Take(c, w)
  \/ \E w \in Ids : Leave(w)

Spec == Init /\ [][Next]_viewer

=============================================================================
