----------------------------- MODULE MCWhatsAP2P -----------------------------
(* What becomes of a message, for TLC: an execution is one of WhatsAP2P, from *)
(* the login of its recipient on, or one of P2PInbox, inside its recipient.   *)
(* A story says what the users or the peers do; it restricts no step of the   *)
(* programs.                                                                  *)
EXTENDS WhatsAP2P, TLC

CONSTANTS u1, u2, u3, here, there, Stories,
          Peers, Names, BadNames, InboxSize, LastMessage, MaxFd, Nobody

VARIABLES up, ppc, sent, open, active, socket, mpc, mi, mcell, hpc, hcell, hconn,
          hfrom, hmsg, hi, mutex, lines, disk, arrived, screen

Inbox == INSTANCE P2PInbox WITH MaxOnlineUsers <- InboxSize

VARIABLE story

inboxVars == <<up, ppc, sent, open, active, socket, mpc, mi, mcell, hpc, hcell, hconn,
               hfrom, hmsg, hi, mutex, lines, disk, arrived, screen>>

\* The bounds of a story: the address each user draws, who writes, how often,
\* may leave, may be killed, starts only when u1 is logged in, never logs in.
Story(ports, writers, sends_, leavers, mortal, late, silent) ==
  [ports |-> ports, writers |-> writers, sends |-> sends_, leavers |-> leavers,
   mortal |-> mortal, late |-> late, silent |-> silent]

\* Two write to each other, and one of them may go.
Friends == Story(u1 :> here @@ u2 :> there, {u1, u2}, 2, {u2}, {u2}, {}, {})
\* Two clients of one host draw the same port, and somebody writes to the
\* one that has logged in.
Clash   == Story(u1 :> here @@ u2 :> there @@ u3 :> there, {u1}, 1, {u2}, {}, {u2, u3}, {u3})
\* Two texts to one process, and a peer that says nothing and may go.
Patience == [texters |-> {u1, u2}, droppers |-> {u3}]

MessengerStories == {Friends, Clash}
MCStories        == MessengerStories \cup {Patience}

Ended(u, why) == fell[u] # fell'[u] /\ fell'[u] = why

UsersDo ==
  /\ posted # posted' => /\ Len(posted) < story.sends
                          /\ posted'[Len(posted')].from \in story.writers
  /\ \A u \in User :
       /\ port[u] # port'[u] =>
            /\ u \in DOMAIN story.ports /\ port'[u] = story.ports[u]
            /\ u \in story.late => (task[u1] = "menu" /\ main[u1] = "listening")
       /\ task[u] # task'[u] => /\ task'[u] = "leaving" => u \in story.leavers
                                /\ task'[u] = "wait" => u \notin story.silent
       /\ Ended(u, "killed") => u \in story.mortal

PeersDo ==
  /\ screen' = screen
  /\ \A p \in Peers :
       /\ sent[p] # sent'[p] => \/ sent'[p] = Nobody
                                \/ sent'[p] = IF p \in story.texters THEN Inbox!TEXT_MESSAGE
                                                                     ELSE Inbox!Unknown
       /\ ppc[p] # ppc'[p] /\ ppc'[p] \in {"fin", "rst"} => p \in story.droppers

\* What is not followed keeps its initial state.
InMessenger == story # Patience
InInbox     == story = Patience

MailInit == Init /\ Inbox!Init /\ story \in Stories

MailNext ==
  /\ UNCHANGED story
  /\ \/ InMessenger /\ Next /\ UsersDo /\ UNCHANGED inboxVars
     \/ InInbox /\ Inbox!Next /\ PeersDo /\ UNCHANGED vars

MailSpec == MailInit /\ [][MailNext]_<<vars, inboxVars, story>>

\* The fairness of WhatsAP2P and of P2PInbox, each where it is followed.
FairMailSpec ==
  /\ MailSpec
  /\ WF_vars(InMessenger /\ SystemStep)
  /\ WF_inboxVars(InInbox /\ Inbox!MainStep)
  /\ \A p \in Peers : WF_inboxVars(InInbox /\ Inbox!HandlerStep(p))

-----------------------------------------------------------------------------
\* A message on a connection that lasts is put among the last messages, and its
\* handler gives its entry back.
MessageServed == Inbox!MessageServed
=============================================================================
