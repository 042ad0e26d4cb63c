---------------------------- MODULE MCFileIndex ----------------------------
(* An instance of FileIndex for TLC.  An execution follows one story: what   *)
(* its clients do.  A story restricts no step of the server's threads.       *)
EXTENDS FileIndex, TLC

CONSTANTS a, b

VARIABLE story

MCClient == {a, b}
MCCred   == {[user |-> "u", senha |-> "p"], [user |-> "u", senha |-> "q"]}
MCWord   == {{a}, {a, b}}

\* The bounds of a story: messages each client sends, credentials typed,
\* clients that may end before logout, and whether the server may be killed.
Story(messages, creds, mortal, killed) ==
  [messages |-> messages, creds |-> creds, mortal |-> mortal, killed |-> killed]

\* Two clients log in with one name; the server dies between any two steps.
Logins == Story(a :> 2 @@ b :> 1, MCCred, {}, TRUE)
\* One client uses the menu and may be killed, while another logs in.
Menu   == Story(a :> 3 @@ b :> 1, {CHOOSE c \in MCCred : TRUE}, {a}, FALSE)

Scenario ==
  /\ up /\ ~up' => story.killed \/ \E c \in Client : broken[c]
  /\ \A c \in Client :
       /\ sent'[c] <= story.messages[c]
       /\ sent[c] # sent'[c] => ~mixed
       /\ ask[c] # ask'[c] /\ ask'[c].op = "login" => ask'[c].cred \in story.creds
       /\ ask[c] # ask'[c] /\ story = Logins => ask'[c].op = "login"
       /\ cpc[c] # "end" /\ cpc'[c] = "end" => c \in story.mortal \/ cpc[c] = "bye" \/ ~up

StoryInit == Init /\ story \in {Logins, Menu}

StorySpec == /\ StoryInit
             /\ [][Next /\ Scenario /\ UNCHANGED story]_<<vars, story>>
             /\ Fairness
=============================================================================
