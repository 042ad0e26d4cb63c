------------------------------ MODULE WhatsAP2P ------------------------------
(***************************************************************************)
(* WhatsAP2P as one system: the presence server (WhatsAp2p-Server.c) and    *)
(* its clients (WhatsAp2p-Client.c), which log in, are told of each other  *)
(* and then write to each other directly.                                  *)
(*                                                                         *)
(* The server's table is SlotDirectory, which P2PServer implements; here   *)
(* its steps happen when messages of the clients make them happen.  A list *)
(* is taken from the table and put into a client's table at one instant    *)
(* (P2PServer and P2PClient look inside these instants), and a message is  *)
(* shown at one (P2PInbox).  Neither the server's nor a client's table is  *)
(* ever full.                                                              *)
(***************************************************************************)
EXTENDS Naturals, Sequences, FiniteSets

CONSTANTS
  User,            \* one client process each
  Address,         \* IP address and port, which a client draws at random
  MaxOnlineUsers,  \* entries of the server's table
  MaxSends,        \* bound: messages that are sent
  NoOne, Nowhere   \* no user, no address

ASSUME MessengerAssumption ==
  /\ IsFiniteSet(User) /\ MaxOnlineUsers \in Nat /\ Cardinality(User) <= MaxOnlineUsers
  /\ NoOne \notin User /\ Nowhere \notin Address /\ MaxSends \in Nat

Slot == 1..MaxOnlineUsers

VARIABLES
  \* the server
  serverUp,
  holding, listed, \* the table: SlotDirectory
  entry,           \* entry[s]: the user and the address listed in entry s
  serving,         \* serving[u]: stage of handle_client for u
  \* the connections between server and clients
  link,            \* link[u]: as the server's kernel sees it, "ok", "fin" or "rst"
  toServer,
  \* a client process
  main,            \* main[u]: how far main has come
  task,            \* task[u]: where clientOperation is
  port,            \* port[u]: the address u has drawn
  table,           \* table[u]: serverOnlineClients
  senders,         \* messages of P2Sender threads
  inbox,           \* inbox[u]: messages on connections u has accepted
  shown,           \* messages and who showed them
  \* ghosts
  posted,          \* the messages sent, in order: from whom and to whom
  fell,            \* fell[u]: why u's process ended
  early            \* a contact that had not yet called listen refused somebody

Dir == INSTANCE SlotDirectory WITH Users <- User, Slots <- Slot, NoSlot <- 0

wires    == <<link, toServer>>
server   == <<serverUp, holding, listed, entry, serving>>
mail     == <<senders, inbox, shown, posted>>
process  == <<main, task, port, table>>
vars == <<server, wires, process, mail, fell, early>>

Where(u) == [who |-> u, at |-> port[u]]

Alive(u) == main[u] \notin {"off", "gone"}
Listening(a) == {w \in User : main[w] = "listening" /\ port[w] = a}

\* The process of u ends: its threads with the messages they hold, its
\* listener and its connections.  Unread data makes the kernel reset them.
End(u, why) ==
  /\ main' = [main EXCEPT ![u] = "gone"]
  /\ task' = [task EXCEPT ![u] = "over"]
  /\ \E how \in {"fin", "rst"} : link' = [link EXCEPT ![u] = how]
  /\ senders' = {m \in senders : m.from # u}
  /\ inbox' = [inbox EXCEPT ![u] = {}]
  /\ fell' = [fell EXCEPT ![u] = why]
  /\ UNCHANGED <<server, toServer, port, table, shown, posted>>

-----------------------------------------------------------------------------
(* A client until it listens: main, and clientOperation beside it.         *)

\* main draws the port, connects to the server and creates the threads.
Start(u, a) ==
  /\ serverUp /\ main[u] = "off"
  /\ main' = [main EXCEPT ![u] = "connected"]
  /\ task' = [task EXCEPT ![u] = "login"]
  /\ port' = [port EXCEPT ![u] = a]
  /\ UNCHANGED <<server, wires, table, mail, fell, early>>

\* Mutant: a bind that fails is not noticed.
BindAnyway(u) ==
  /\ main[u] = "connected"
  /\ main' = [main EXCEPT ![u] = "bound"]
  /\ UNCHANGED <<server, wires, task, port, table, mail, fell, early>>

\* bind fails, and main exits, if another process has the port or if the kernel
\* still remembers connections of one that had it.
Bind(u) ==
  LET rivals == {v \in User \ {u} : port[v] = port[u]} IN
  /\ main[u] = "connected"
  /\ \/ /\ \A v \in rivals : main[v] \notin {"bound", "listening"}
        /\ main' = [main EXCEPT ![u] = "bound"]
        /\ UNCHANGED <<server, wires, task, port, table, mail, fell, early>>
     \/ /\ \E v \in rivals : main[v] \in {"bound", "listening", "gone"}
        /\ End(u, "bind") /\ UNCHANGED early

Listen(u) ==
  /\ main[u] = "bound"
  /\ main' = [main EXCEPT ![u] = "listening"]
  /\ UNCHANGED <<server, wires, task, port, table, mail, fell, early>>

\* clientOperation sends the name, the phone and the address, whatever main has
\* done meanwhile.
Login(u) ==
  /\ task[u] = "login"
  /\ task' = [task EXCEPT ![u] = "wait"]
  /\ toServer' = [toServer EXCEPT ![u] = Append(@, "CONNECTION_REQUEST")]
  /\ UNCHANGED <<server, link, main, port, table, mail, fell, early>>

-----------------------------------------------------------------------------
(* The server.                                                             *)

Handle(u, stage) == serving' = [serving EXCEPT ![u] = stage]

\* A message to a client that has ended.  It is answered by a reset, and the
\* one after the reset kills the server (SIGPIPE).
SendToGone(u) ==
  /\ ~Alive(u)
  /\ IF link[u] = "fin" THEN link' = [link EXCEPT ![u] = "rst"] /\ UNCHANGED serverUp
                        ELSE serverUp' = FALSE /\ UNCHANGED link

\* The scan of main takes the first inactive entry.
ServerAccept(u) ==
  /\ serverUp /\ main[u] # "off" /\ serving[u] = "none"
  /\ Dir!Claim(u)
  /\ \A s \in Slot : (\A v \in User : holding[v] # s) => holding'[u] <= s
  /\ Handle(u, "recv")
  /\ UNCHANGED <<serverUp, entry, wires, process, mail, fell, early>>

\* Mutant: the address of the entry is left as it was.
ServerLoginNowhere(u) ==
  /\ serverUp /\ serving[u] = "recv"
  /\ toServer[u] # <<>> /\ Head(toServer[u]) = "CONNECTION_REQUEST"
  /\ toServer' = [toServer EXCEPT ![u] = Tail(@)]
  /\ entry' = [entry EXCEPT ![holding[u]].who = u]
  /\ Dir!List(u) /\ Handle(u, "ack")
  /\ UNCHANGED <<serverUp, link, process, mail, fell, early>>

\* CONNECTION_REQUEST: the user is listed before it is told so.
ServerLogin(u) ==
  /\ serverUp /\ serving[u] = "recv"
  /\ toServer[u] # <<>> /\ Head(toServer[u]) = "CONNECTION_REQUEST"
  /\ toServer' = [toServer EXCEPT ![u] = Tail(@)]
  /\ entry' = [entry EXCEPT ![holding[u]] = Where(u)]
  /\ Dir!List(u) /\ Handle(u, "ack")
  /\ UNCHANGED <<serverUp, link, process, mail, fell, early>>

\* The acknowledgement, which lets clientOperation of u go on.
ServerAck(u) ==
  /\ serverUp /\ serving[u] = "ack"
  /\ \/ Alive(u) /\ task' = [task EXCEPT ![u] = "menu"] /\ UNCHANGED <<serverUp, link>>
     \/ SendToGone(u) /\ UNCHANGED task
  /\ Handle(u, "recv")
  /\ UNCHANGED <<holding, listed, entry, toServer, main, port, table, mail, fell, early>>

\* DISCONNECT_REQUEST, or recv fails after a reset.  A client that only closed
\* is not noticed: recv returns 0 for ever.
ServerLogout(u) ==
  /\ serverUp /\ serving[u] = "recv"
  /\ \/ /\ toServer[u] # <<>> /\ Head(toServer[u]) = "DISCONNECT_REQUEST"
        /\ toServer' = [toServer EXCEPT ![u] = Tail(@)]
     \/ toServer[u] = <<>> /\ link[u] = "rst" /\ UNCHANGED toServer
  /\ Dir!Unlist(u) /\ Handle(u, "free")
  /\ UNCHANGED <<serverUp, entry, link, process, mail, fell, early>>

ServerFree(u) ==
  /\ serverUp /\ serving[u] = "free"
  /\ Dir!Release(u) /\ Handle(u, "exit")
  /\ UNCHANGED <<serverUp, entry, wires, process, mail, fell, early>>

\* updateClient of u's entry, from the accept on, sends the users logged in;
\* serverReceiver of u replaces its table by the list.
ServerPush(u) ==
  /\ serverUp /\ serving[u] \in {"recv", "ack"} /\ listed # {}
  /\ \/ /\ Alive(u) /\ table' = [table EXCEPT ![u] = {entry[s] : s \in listed}]
        /\ UNCHANGED <<serverUp, link>>
     \/ SendToGone(u) /\ UNCHANGED table
  /\ UNCHANGED <<holding, listed, entry, serving, toServer, main, task, port, mail, fell,
                 early>>

-----------------------------------------------------------------------------
(* A client that is logged in.                                             *)

\* OP_SENDMESSAGE or OP_SENDIMAGE to a contact the table has: a P2Sender thread.
Send(u) ==
  /\ task[u] = "menu" /\ Len(posted) < MaxSends
  /\ \E e \in table[u] :
       /\ senders' = senders \cup
            {[nr |-> Len(posted) + 1, from |-> u, to |-> e.who, at |-> e.at, via |-> NoOne]}
       /\ posted' = Append(posted, [from |-> u, to |-> e.who])
  /\ UNCHANGED <<server, wires, process, inbox, shown, fell, early>>

\* P2Sender connects to the address.  When nobody listens there it ends the
\* whole process.
Dial(m) ==
  /\ m.via = NoOne
  /\ \/ /\ \E w \in Listening(m.at) : senders' = (senders \ {m}) \cup {[m EXCEPT !.via = w]}
        /\ UNCHANGED <<server, wires, process, inbox, shown, posted, fell, early>>
     \/ /\ Listening(m.at) = {}
        /\ early' = (early \/ main[m.to] \in {"connected", "bound"})
        /\ End(m.from, "refused")

\* Mutant: the message goes out once and the thread keeps it.
DeliverTwice(m) ==
  /\ m.via # NoOne /\ main[m.via] = "listening"
  /\ inbox' = [inbox EXCEPT ![m.via] = @ \cup {m}]
  /\ UNCHANGED <<server, wires, process, senders, shown, posted, fell, early>>

\* It sends the message on its connection, where a process that ended
\* meanwhile does not read it.
Deliver(m) ==
  /\ m.via # NoOne
  /\ senders' = senders \ {m}
  /\ inbox' = IF main[m.via] = "listening" THEN [inbox EXCEPT ![m.via] = @ \cup {m}]
                                            ELSE inbox
  /\ UNCHANGED <<server, wires, process, shown, posted, fell, early>>

\* handle_client of u puts a message that came into lastMessages.
Show(u) ==
  /\ \E m \in inbox[u] :
       /\ inbox' = [inbox EXCEPT ![u] = @ \ {m}]
       /\ shown' = shown \cup {m}
  /\ UNCHANGED <<server, wires, process, senders, posted, fell, early>>

\* OP_LEAVE says goodbye and sleeps ...
Leave(u) ==
  /\ task[u] = "menu"
  /\ task' = [task EXCEPT ![u] = "leaving"]
  /\ toServer' = [toServer EXCEPT ![u] = Append(@, "DISCONNECT_REQUEST")]
  /\ UNCHANGED <<server, link, main, port, table, mail, fell, early>>

\* ... and exits.
Quit(u) == task[u] = "leaving" /\ End(u, "left") /\ UNCHANGED early

\* The process is killed.
Die(u) == Alive(u) /\ End(u, "killed") /\ UNCHANGED early

-----------------------------------------------------------------------------
Init ==
  /\ serverUp = TRUE /\ Dir!Init
  /\ entry = [s \in Slot |-> [who |-> NoOne, at |-> Nowhere]]
  /\ serving = [u \in User |-> "none"] /\ link = [u \in User |-> "ok"]
  /\ toServer = [u \in User |-> <<>>]
  /\ main = [u \in User |-> "off"] /\ task = [u \in User |-> "none"]
  /\ port = [u \in User |-> Nowhere] /\ table = [u \in User |-> {}]
  /\ senders = {} /\ inbox = [u \in User |-> {}] /\ shown = {} /\ posted = <<>>
  /\ fell = [u \in User |-> "none"] /\ early = FALSE

ServerStep(u) == \/ ServerAccept(u) \/ ServerLogin(u) \/ ServerAck(u)
                 \/ ServerLogout(u) \/ ServerFree(u)

UserStep(u) == \/ \E a \in Address : Start(u, a)
               \/ Login(u) \/ Send(u) \/ Leave(u) \/ Die(u)

\* What the threads of u's process do by themselves.
ClientStep(u) ==
  \/ Bind(u) \/ Listen(u) \/ Show(u) \/ Quit(u)
  \/ \E m \in senders : m.from = u /\ (Dial(m) \/ Deliver(m))

SystemStep == \E u \in User : ServerStep(u) \/ ServerPush(u) \/ ClientStep(u)

Next == SystemStep \/ \E u \in User : UserStep(u)

Spec == Init /\ [][Next]_vars

\* The threads of the server and of the clients keep running, users may do
\* nothing: some thread that can change something does.  Nothing more is assumed
\* of them.
Fairness == WF_vars(SystemStep)

-----------------------------------------------------------------------------
(* What the system owes its users.                                         *)

Message == [nr : 1..MaxSends, from : User, to : User, at : Address,
            via : User \cup {NoOne}]

TypeOK ==
  /\ {serverUp, early} \subseteq BOOLEAN
  /\ holding \in [User -> Slot \cup {0}] /\ listed \subseteq Slot
  /\ serving \in [User -> {"none", "recv", "ack", "free", "exit"}]
  /\ link \in [User -> {"ok", "fin", "rst"}]
  /\ main \in [User -> {"off", "connected", "bound", "listening", "gone"}]
  /\ task \in [User -> {"none", "login", "wait", "menu", "leaving", "over"}]
  /\ port \in [User -> Address \cup {Nowhere}]
  /\ senders \cup shown \subseteq Message /\ \A u \in User : inbox[u] \subseteq Message
  /\ fell \in [User -> {"none", "left", "killed", "bind", "refused"}]

\* A message is in the hands of its recipient, or of a process that drew the
\* address its recipient had or has announced but does not have: an address
\* read from a table, however old, never leads to anybody else.
RightReader ==
  /\ TypeOK
  /\ \A m \in senders : m.at = port[m.to]
  /\ \A u \in User, m \in UNION {inbox[w] : w \in User} :
       m.via = u /\ m.to # u => port[m.to] = port[u] /\ main[m.to] \in {"connected", "gone"}
  /\ \A m \in shown : m.via = m.to \/ port[m.via] = port[m.to]

\* While nobody has left, was killed or lost its port to another, the server
\* runs and no client has ended, but for what began with a contact that refused
\* a message because its main had not come as far as listen.
FallsHaveCause ==
  (\A u \in User : fell[u] \notin {"left", "killed", "bind"}) /\ ~early
    => serverUp /\ \A u \in User : fell[u] = "none"

\* The address the server returns is one at which the recipient is waiting for
\* requests (README.md): a user that is there is not found absent.
RecipientWaits == ~early

\* The process of its sender has ended, or one at the address it went to.
Lost(p) == \/ main[p.from] = "gone"
           \/ \E w \in User : port[w] = port[p.to] /\ main[w] = "gone"

\* Two users who are logged in have learned of each other, unless the server
\* has fallen.
FriendsMet == \A u \in User : \A v \in User \ {u} :
  serverUp /\ task[u] = "menu" /\ task[v] = "menu" => Where(v) \in table[u]

\* What was sent has been shown, whatever became of the server, unless the
\* process of its sender or one at its address ended.
MailRead == \A n \in DOMAIN posted : (\E m \in shown : m.nr = n) \/ Lost(posted[n])

\* The system always comes to that: who is logged in is found, and what is
\* written to it is read.
MessengerServes == []<>(FriendsMet /\ MailRead)
=============================================================================
