----------------------------- MODULE MCP2PServer -----------------------------
(* Instances of P2PServer for TLC.  An execution follows one story, chosen at *)
(* the start: what its clients do and whose updater is scheduled.  A story    *)
(* restricts the environment, never a step of the server's threads.           *)
EXTENDS P2PServer

CONSTANTS c1, c2, c3, Stories

VARIABLE story

\* The bounds of a story: clients whose updateClient thread is ever scheduled,
\* that may die, may send DISCONNECT_REQUEST, never log in, connect only after
\* another began to leave, never connect.
Story(pushing, mortal, leavers, silent, late, absent) ==
  [pushing |-> pushing, mortal |-> mortal, leavers |-> leavers,
   silent |-> silent, late |-> late, absent |-> absent]

\* c1's entry goes to c3, or c3 finds the table full, while c1's updater runs.
Reuse    == Story({c1}, {}, {c1}, {c2}, {c3}, {})
\* One client dies at any point, another leaves in order.
Death    == Story({c1}, {c1}, {c2}, {}, {}, {c3})
TableStories == {Reuse, Death}

\* Two clients log in and stay.
Stay     == Story({c1, c2}, {}, {}, {}, {}, {})
\* One leaves or dies, and another connects and takes an entry meanwhile.
Reclaim  == Story({c1, c2}, {c1}, {c1}, {c2}, {c2}, {})
ThreadStories == {Stay, Reclaim}

\* States outside the bounds, and those of a dead process, are not explored.
Explored ==
  up /\ \A c \in Clients \ story.pushing : upd[c].pc \in {"none", "start"}

Changes(c, to) == cpc[c] # cpc'[c] /\ cpc'[c] = to

Scenario ==
  \A c \in Clients :
    /\ Changes(c, "gone") => c \in story.mortal \/ cpc[c] = "leaving"
    /\ Changes(c, "leaving") => c \in story.leavers
    /\ Changes(c, "loggingIn") => c \notin story.silent
    /\ Changes(c, "connected") =>
         /\ c \notin story.absent
         /\ c \in story.late => \E d \in Clients : cpc[d] \in {"leaving", "gone"}

StoryInit == Init /\ story \in Stories

StorySpec == /\ StoryInit
             /\ [][Next /\ Scenario /\ UNCHANGED story]_<<vars, story>>

\* Liveness is checked without state constraints.  Nothing makes accept fail.
FairStorySpec ==
  /\ StorySpec
  /\ WF_vars(MainStep /\ mpc' # "exit")
  /\ \A c \in Clients : WF_vars(HandlerStep(c)) /\ WF_vars(UpdaterStep(c))
=============================================================================
