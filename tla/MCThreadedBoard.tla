--------------------------- MODULE MCThreadedBoard ---------------------------
(* Instances of ThreadedBoard for TLC.  An execution follows one story: what  *)
(* its clients do.  A story restricts no step of the server's threads.        *)
EXTENDS ThreadedBoard, TLC

CONSTANTS c1, c2, c3, m1, m3, ana, bia

VARIABLE story

\* A message of ana and one of bia.
MCNames == m1 :> ana @@ m3 :> bia

\* The bounds of a story: requests each client sends, messages that are posted,
\* clients that may be killed.
Story(commands, messages, mortal) ==
  [commands |-> commands, messages |-> messages, mortal |-> mortal]

\* Two clients race on a board that they fill and empty.
Race   == Story(c1 :> 2 @@ c2 :> 3 @@ c3 :> 0, {m1, m3}, {})
\* One client is killed while another posts, and a third takes the last
\* descriptor.
Hangup == Story(c1 :> 1 @@ c2 :> 1 @@ c3 :> 0, {m1}, {c1})

Absent == {c \in Clients : story = Race /\ c = c3}

Scenario ==
  \A c \in Clients :
    /\ sent'[c] <= story.commands[c]
    /\ cst[c] # "gone" /\ cst'[c] = "gone" => c \in story.mortal
    /\ c \in Absent => cst'[c] = "off"
    /\ request[c] # request'[c] /\ request'[c] # None =>
         request'[c].arg \in story.messages \cup {NameOf[m] : m \in story.messages} \cup {None}

StoryInit == Init /\ story \in {Race, Hangup}

StorySpec == /\ StoryInit
             /\ [][Next /\ Scenario /\ UNCHANGED story]_<<vars, story>>
             /\ Fairness
=============================================================================
