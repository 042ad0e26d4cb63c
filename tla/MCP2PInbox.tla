----------------------------- MODULE MCP2PInbox ------------------------------
(* Instances of P2PInbox for TLC.  An execution follows one story: what the   *)
(* peers and the user do.  A story restricts no step of the process.          *)
EXTENDS P2PInbox

CONSTANTS p1, p2, p3, n1, nb, Stories

VARIABLE story

\* The bounds of a story: peers that send a text, that send a photo, whose
\* connection may end, and whether the user refreshes the screen.
Story(texters, photographers, droppers, watching) ==
  [texters |-> texters, photographers |-> photographers,
   droppers |-> droppers, watching |-> watching]

\* Three texts at the same time under the eyes of the user.
Lines  == Story({p1, p2, p3}, {}, {}, TRUE)
\* Photos beside a text whose connection may end.
Photos == Story({p1}, {p2, p3}, {p1}, FALSE)
MessageStories == {Lines, Photos}

Scenario ==
  /\ \A p \in Peers :
       /\ sent[p] # sent'[p] =>
            \/ p \in story.texters /\ sent'[p] = TEXT_MESSAGE
            \/ p \in story.photographers /\ sent'[p] \in Names
            \/ p \notin story.texters \cup story.photographers /\ sent'[p] = Unknown
            \/ sent'[p] = Nobody
       /\ ppc[p] # ppc'[p] /\ ppc'[p] \in {"fin", "rst"} => p \in story.droppers
  /\ screen # screen' => story.watching

StoryInit == Init /\ story \in Stories

StorySpec == /\ StoryInit
             /\ [][Next /\ Scenario /\ UNCHANGED story]_<<vars, story>>
=============================================================================
