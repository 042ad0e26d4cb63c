------------------------------ MODULE P2PServer ------------------------------
(***************************************************************************)
(* The presence server of the WhatsAP2P application                        *)
(* (WhatsAp2p-Server.c): one process, one table of MAX_ONLINE_USERS        *)
(* entries shared without a lock by                                        *)
(*   - the main thread, which reserves an entry and accepts into it,       *)
(*   - one handle_client thread per connection, and                        *)
(*   - one updateClient thread per connection, which every two seconds     *)
(*     pushes the list of logged-in users to the socket of its entry.      *)
(* One step is one access to shared state (or several that no other thread *)
(* can tell apart).  A client is a process that connects once, logs in     *)
(* once, and then leaves or dies, as WhatsAp2p-Client.c does.              *)
(***************************************************************************)
EXTENDS Integers, Sequences, FiniteSets

CONSTANTS
  Clients,          \* the client processes; each opens one connection
  MaxOnlineUsers,   \* entries of onlineClients
  MaxFd,            \* descriptors the server process may hold for clients
  NoClient,         \* nobody
  Null,             \* a NULL string pointer
  Freed             \* a string pointer whose memory was freed

ASSUME ServerAssumption ==
  /\ MaxOnlineUsers \in Nat \ {0}
  /\ MaxFd \in Nat \ {0}
  /\ NoClient \notin Clients
  /\ Null \notin Clients /\ Freed \notin Clients /\ Null # Freed

Slot  == 1..MaxOnlineUsers     \* onlineClients[0 .. MAX_ONLINE_USERS-1]
Below == 0                     \* onlineClients[-1], the memory before the table
Cell  == Slot \cup {Below}
Fd    == 1..MaxFd
NoFd  == -1
Text  == Clients \cup {Null, Freed}   \* whose text a string pointer holds

\* Messages a client sends (enum serverMessages).
CONNECTION_REQUEST == "CONNECTION_REQUEST"
DISCONNECT_REQUEST == "DISCONNECT_REQUEST"
UPDATE_REQUEST     == "UPDATE_REQUEST"

VARIABLES
  up,        \* FALSE once the server process has been killed by a fault or signal
  \* the table, one field of struct Client each
  socket, active, ready,
  ident,     \* ident[s]: whose name and phone the entry points to
  addr,      \* addr[s]: whose listen address and port the entry holds
  \* the kernel
  file,      \* file[f]: the client at the other end of descriptor f
  net,       \* net[c]: state of c's connection as the server's kernel sees it
  inbox,     \* inbox[c]: messages of c the server has not received
  \* the client processes
  cpc,
  \* main
  mpc, mi, mcell,
  \* handle_client, one per client
  hpc, hcell,
  hconn,     \* the connection the pending recv reads from
  hsock,     \* the local clientSocket
  \* updateClient, one per client
  upd

tableVars   == <<socket, active, ready, ident, addr>>
kernelVars  == <<file, net, inbox>>
mainVars    == <<mpc, mi, mcell>>
handlerVars == <<hpc, hcell, hconn, hsock>>
vars == <<up, tableVars, kernelVars, cpc, mainVars, handlerVars, upd>>

-----------------------------------------------------------------------------
(* Operations of the kernel the server relies on.                          *)

\* The other end of descriptor f; nobody for -1 and for a closed descriptor.
Peer(f) == IF f \in Fd THEN file[f] ELSE NoClient

\* send() of one frame.  A bad descriptor is an error sendResp swallows; a
\* peer that closed answers with a reset; sending after the reset raises
\* SIGPIPE, which nothing in the server blocks or handles.
Send(f, frame) ==
  LET p == Peer(f) IN
  \/ /\ p = NoClient
     /\ UNCHANGED <<net, cpc, up>>
  \/ /\ p # NoClient /\ net[p] = "ok"
     /\ cpc' = IF frame = CONNECTION_REQUEST /\ cpc[p] = "loggingIn"
               THEN [cpc EXCEPT ![p] = "online"] ELSE cpc
     /\ UNCHANGED <<net, up>>
  \/ /\ p # NoClient /\ net[p] = "fin"
     /\ net' = [net EXCEPT ![p] = "rst"]
     /\ UNCHANGED <<cpc, up>>
  \/ /\ p # NoClient /\ net[p] = "rst"
     /\ up' = FALSE
     /\ UNCHANGED <<net, cpc>>

-----------------------------------------------------------------------------
(* The client processes, as far as the server can see them.                *)

Connect(c) ==
  /\ up /\ cpc[c] = "away"
  /\ cpc' = [cpc EXCEPT ![c] = "connected"]
  /\ UNCHANGED <<up, tableVars, kernelVars, mainVars, handlerVars, upd>>

Login(c) ==
  /\ cpc[c] = "connected"
  /\ cpc' = [cpc EXCEPT ![c] = "loggingIn"]
  /\ inbox' = [inbox EXCEPT ![c] = Append(@, CONNECTION_REQUEST)]
  /\ UNCHANGED <<up, tableVars, file, net, mainVars, handlerVars, upd>>

\* The menu, hence LEAVE, is reached only after the acknowledgement.
Leave(c) ==
  /\ cpc[c] = "online"
  /\ cpc' = [cpc EXCEPT ![c] = "leaving"]
  /\ inbox' = [inbox EXCEPT ![c] = Append(@, DISCONNECT_REQUEST)]
  /\ UNCHANGED <<up, tableVars, file, net, mainVars, handlerVars, upd>>

\* The process ends, after LEAVE or by dying at any point: the kernel sends
\* FIN, or RST when unread data is pending.
Vanish(c) ==
  /\ cpc[c] \notin {"away", "gone"}
  /\ cpc' = [cpc EXCEPT ![c] = "gone"]
  /\ \E how \in {"fin", "rst"} : net' = [net EXCEPT ![c] = how]
  /\ UNCHANGED <<up, tableVars, file, inbox, mainVars, handlerVars, upd>>

-----------------------------------------------------------------------------
(* main                                                                    *)

\* Mutant: takes an entry whose user has not logged in for a free one.
IsFreeWhenUnready(s) == ~ready[s]

\* Is this entry free for a new connection?
IsFree(s) == ~active[s]

\* The scan for the first inactive entry, one entry a step; nextClientId
\* keeps -1 when every entry was seen active.
MainScan ==
  /\ up /\ mpc = "scan"
  /\ IF mi > MaxOnlineUsers
     THEN mpc' = "clear" /\ mcell' = Below /\ UNCHANGED mi
     ELSE IF IsFree(mi)
          THEN mpc' = "clear" /\ mcell' = mi /\ UNCHANGED mi
          ELSE mi' = mi + 1 /\ UNCHANGED <<mpc, mcell>>
  /\ UNCHANGED <<up, tableVars, kernelVars, cpc,
                 handlerVars, upd>>

\* clearClient on the reserved entry, before accept.
MainClear ==
  /\ up /\ mpc = "clear"
  /\ socket' = [socket EXCEPT ![mcell] = NoFd]
  /\ active' = [active EXCEPT ![mcell] = FALSE]
  /\ ready'  = [ready  EXCEPT ![mcell] = FALSE]
  /\ ident'  = [ident  EXCEPT ![mcell] = Null]
  /\ addr'   = [addr   EXCEPT ![mcell] = Null]
  /\ mpc' = "accept"
  /\ UNCHANGED <<up, kernelVars, cpc, mi, mcell,
                 handlerVars, upd>>

\* accept() takes a pending connection and the lowest free descriptor.
MainAccept(c) ==
  /\ up /\ mpc = "accept"
  /\ cpc[c] # "away" /\ hpc[c] = "none"
  /\ \E f \in Fd :
       /\ file[f] = NoClient
       /\ \A g \in Fd : file[g] = NoClient => f <= g
       /\ file' = [file EXCEPT ![f] = c]
       /\ socket' = [socket EXCEPT ![mcell] = f]
  /\ hpc' = [hpc EXCEPT ![c] = "accepted"]
  /\ hcell' = [hcell EXCEPT ![c] = mcell]
  /\ mpc' = "spawn"
  /\ UNCHANGED <<up, active, ready, ident, addr, net, inbox, cpc, mi,
                 mcell, hconn, hsock, upd>>

\* accept fails, which it does before it waits when the process or the system
\* has no descriptor or memory left, and main calls exit(5).
MainExit ==
  /\ up /\ mpc = "accept"
  /\ up' = FALSE
  /\ mpc' = "exit"
  /\ UNCHANGED <<tableVars, kernelVars, cpc, mi, mcell, handlerVars, upd>>

\* active = 1 and pthread_create(handle_client); then the next round.
MainSpawn(c) ==
  /\ up /\ mpc = "spawn" /\ hpc[c] = "accepted"
  /\ active' = [active EXCEPT ![mcell] = TRUE]
  /\ hpc' = [hpc EXCEPT ![c] = "start"]
  /\ mpc' = "scan" /\ mi' = 1
  /\ UNCHANGED <<up, socket, ready, ident, addr, kernelVars, cpc, mcell,
                 hcell, hconn, hsock, upd>>

-----------------------------------------------------------------------------
(* handle_client                                                           *)

\* Copies the descriptor, then pthread_create(updateClient).
HandlerStart(c) ==
  /\ up /\ hpc[c] = "start"
  /\ hsock' = [hsock EXCEPT ![c] = socket[hcell[c]]]
  /\ upd' = [upd EXCEPT ![c].pc = "start"]
  /\ hpc' = [hpc EXCEPT ![c] = "call"]
  /\ UNCHANGED <<up, tableVars, kernelVars, cpc, mainVars, hcell, hconn>>

\* recvResp(buffer, onlineClients[id].socket): the entry is read at the call.
HandlerCall(c) ==
  /\ up /\ hpc[c] = "call"
  /\ hconn' = [hconn EXCEPT ![c] = Peer(socket[hcell[c]])]
  /\ hpc' = [hpc EXCEPT ![c] = "recv"]
  /\ UNCHANGED <<up, tableVars, kernelVars, cpc, mainVars, hcell,
                 hsock, upd>>

\* recv fails on a bad descriptor and after a reset.  When the peer closed,
\* recv returns 0, which the loop takes for progress: it spins, no step.
HandlerRecvError(c) ==
  /\ up /\ hpc[c] = "recv"
  /\ \/ hconn[c] = NoClient
     \/ hconn[c] # NoClient /\ inbox[hconn[c]] = << >> /\ net[hconn[c]] = "rst"
  /\ hpc' = [hpc EXCEPT ![c] = "unready"]
  /\ UNCHANGED <<up, tableVars, kernelVars, cpc, mainVars, hcell,
                 hconn, hsock, upd>>

HandlerRecv(c) ==
  /\ up /\ hpc[c] = "recv"
  /\ hconn[c] # NoClient /\ inbox[hconn[c]] # << >>
  /\ hpc' = [hpc EXCEPT ![c] =
               IF Head(inbox[hconn[c]]) = CONNECTION_REQUEST
               THEN "setIdent" ELSE "unready"]
  /\ inbox' = [inbox EXCEPT ![hconn[c]] = Tail(@)]
  /\ UNCHANGED <<up, tableVars, file, net, cpc, mainVars, hcell,
                 hconn, hsock, upd>>

\* Mutant: ready is set before the strings are.
HandlerSetIdentReady(c) ==
  /\ up /\ hpc[c] = "setIdent"
  /\ ident' = [ident EXCEPT ![hcell[c]] = hconn[c]]
  /\ ready' = [ready EXCEPT ![hcell[c]] = TRUE]
  /\ hpc' = [hpc EXCEPT ![c] = "publish"]
  /\ UNCHANGED <<up, socket, active, addr, kernelVars, cpc, mainVars, hcell,
                 hconn, hsock, upd>>

\* CONNECTION_REQUEST: name and phone, then address and port, then ready.
HandlerSetIdent(c) ==
  /\ up /\ hpc[c] = "setIdent"
  /\ ident' = [ident EXCEPT ![hcell[c]] = hconn[c]]
  /\ hpc' = [hpc EXCEPT ![c] = "publish"]
  /\ UNCHANGED <<up, socket, active, ready, addr, kernelVars, cpc,
                 mainVars, hcell, hconn, hsock, upd>>

HandlerPublish(c) ==
  /\ up /\ hpc[c] = "publish"
  /\ addr'  = [addr  EXCEPT ![hcell[c]] = hconn[c]]
  /\ ready' = [ready EXCEPT ![hcell[c]] = TRUE]
  /\ hpc' = [hpc EXCEPT ![c] = "ack"]
  /\ UNCHANGED <<up, socket, active, ident, kernelVars, cpc, mainVars, hcell,
                 hconn, hsock, upd>>

\* Mutant: no acknowledgement is sent.
HandlerAckNothing(c) ==
  /\ up /\ hpc[c] = "ack"
  /\ hpc' = [hpc EXCEPT ![c] = "call"]
  /\ UNCHANGED <<up, tableVars, kernelVars, cpc, mainVars, hcell, hconn, hsock,
                 upd>>

\* The acknowledgement goes to the descriptor copied at the start.
HandlerAck(c) ==
  /\ up /\ hpc[c] = "ack"
  /\ Send(hsock[c], CONNECTION_REQUEST)
  /\ hpc' = [hpc EXCEPT ![c] = "call"]
  /\ UNCHANGED <<tableVars, file, inbox, mainVars, hcell, hconn, hsock, upd>>

\* Mutant: active is cleared first, not last.
HandlerUnreadyInactive(c) ==
  /\ up /\ hpc[c] = "unready"
  /\ ready' = [ready EXCEPT ![hcell[c]] = FALSE]
  /\ active' = [active EXCEPT ![hcell[c]] = FALSE]
  /\ hpc' = [hpc EXCEPT ![c] = "close"]
  /\ UNCHANGED <<up, socket, ident, addr, kernelVars, cpc, mainVars, hcell,
                 hconn, hsock, upd>>

\* Mutant: readyForCommunication is left set.
HandlerStayReady(c) ==
  /\ up /\ hpc[c] = "unready"
  /\ hpc' = [hpc EXCEPT ![c] = "close"]
  /\ UNCHANGED <<up, tableVars, kernelVars, cpc, mainVars, hcell, hconn, hsock,
                 upd>>

\* disconnectClient, in the order of its assignments.
HandlerUnready(c) ==
  /\ up /\ hpc[c] = "unready"
  /\ ready' = [ready EXCEPT ![hcell[c]] = FALSE]
  /\ hpc' = [hpc EXCEPT ![c] = "close"]
  /\ UNCHANGED <<up, socket, active, ident, addr, kernelVars, cpc,
                 mainVars, hcell, hconn, hsock, upd>>

HandlerClose(c) ==
  /\ up /\ hpc[c] = "close"
  /\ file' = IF socket[hcell[c]] \in Fd
             THEN [file EXCEPT ![socket[hcell[c]]] = NoClient] ELSE file
  /\ hpc' = [hpc EXCEPT ![c] = "free"]
  /\ UNCHANGED <<up, tableVars, net, inbox, cpc, mainVars, hcell,
                 hconn, hsock, upd>>

\* free(phone), free(name), free(listenIpAddress): the pointers keep their
\* values.  Freeing them twice aborts the process.  Then socket = -1.
AfterFree(t) == IF t = Null THEN Null ELSE Freed

HandlerFree(c) ==
  /\ up /\ hpc[c] = "free"
  /\ up' = (Freed \notin {ident[hcell[c]], addr[hcell[c]]})
  /\ ident' = [ident EXCEPT ![hcell[c]] = AfterFree(@)]
  /\ addr'  = [addr  EXCEPT ![hcell[c]] = AfterFree(@)]
  /\ socket' = [socket EXCEPT ![hcell[c]] = NoFd]
  /\ hpc' = [hpc EXCEPT ![c] = "deactivate"]
  /\ UNCHANGED <<active, ready, kernelVars, cpc, mainVars,
                 hcell, hconn, hsock, upd>>

HandlerDeactivate(c) ==
  /\ up /\ hpc[c] = "deactivate"
  /\ active' = [active EXCEPT ![hcell[c]] = FALSE]
  /\ hpc' = [hpc EXCEPT ![c] = "exit"]
  /\ hconn' = [hconn EXCEPT ![c] = NoClient]
  /\ hsock' = [hsock EXCEPT ![c] = NoFd]
  /\ UNCHANGED <<up, socket, ready, ident, addr, kernelVars, cpc,
                 mainVars, hcell, upd>>

-----------------------------------------------------------------------------
(* updateClient                                                            *)

\* The locals of the thread; both passes of a round start from these.
IdleUpdater == [pc |-> "none", cell |-> Below, i |-> 1, n |-> 0,
                list |-> << >>, ident |-> Null, seen |-> Null, fd |-> NoFd]

FreshPass(s) == [IdleUpdater EXCEPT !.pc = "check", !.cell = s]

\* The argument points to the handler's local threadClientId.  Once the
\* handler has exited the value read is whatever its old stack holds.
UpdaterStart(c) ==
  /\ up /\ upd[c].pc = "start"
  /\ \E s \in IF hpc[c] = "exit" THEN Cell ELSE {hcell[c]} :
       upd' = [upd EXCEPT ![c] = FreshPass(s)]
  /\ UNCHANGED <<up, tableVars, kernelVars, cpc, mainVars, handlerVars>>

\* Mutant: the loop never looks at active again.
UpdaterCheckNever(c) ==
  /\ up /\ upd[c].pc = "check"
  /\ upd' = [upd EXCEPT ![c].pc = "count"]
  /\ UNCHANGED <<up, tableVars, kernelVars, cpc, mainVars, handlerVars>>

\* while (active == 1) usleep(2000000).
UpdaterCheck(c) ==
  /\ up /\ upd[c].pc = "check"
  /\ upd' = IF active[upd[c].cell]
            THEN [upd EXCEPT ![c].pc = "count"]
            ELSE [upd EXCEPT ![c].pc = "exit"]
  /\ UNCHANGED <<up, tableVars, kernelVars, cpc, mainVars, handlerVars>>

\* Mutant: "break" for "continue" when nobody is ready.
UpdaterCountBreak(c) ==
  LET i == upd[c].i
      n == upd[c].n + (IF ready[i] THEN 1 ELSE 0)
  IN  /\ up /\ upd[c].pc = "count"
      /\ upd' = IF i < MaxOnlineUsers
                THEN [upd EXCEPT ![c].i = i + 1, ![c].n = n]
                ELSE [upd EXCEPT ![c].i = 1, ![c].n = n,
                                 ![c].pc = IF n = 0 THEN "exit" ELSE "scan"]
      /\ UNCHANGED <<up, tableVars, kernelVars, cpc, mainVars, handlerVars>>

\* First pass: count the ready entries, one entry a step; none: sleep again.
UpdaterCount(c) ==
  LET i == upd[c].i
      n == upd[c].n + (IF ready[i] THEN 1 ELSE 0)
  IN  /\ up /\ upd[c].pc = "count"
      /\ upd' = IF i < MaxOnlineUsers
                THEN [upd EXCEPT ![c].i = i + 1, ![c].n = n]
                ELSE [upd EXCEPT ![c].i = 1, ![c].n = n,
                                 ![c].pc = IF n = 0 THEN "check" ELSE "scan"]
      /\ UNCHANGED <<up, tableVars, kernelVars, cpc, mainVars,
                     handlerVars>>

NextEntry(u) == IF u.i < MaxOnlineUsers
                THEN [u EXCEPT !.i = @ + 1, !.pc = "scan"]
                ELSE [u EXCEPT !.pc = "target"]

\* Second pass: test one entry.  "seen" remembers, for the properties only,
\* whose entry it was when it passed the test.
UpdaterScan(c) ==
  LET u == upd[c] IN
  /\ up /\ u.pc = "scan"
  /\ upd' = [upd EXCEPT ![c] = IF ready[u.i]
                               THEN [u EXCEPT !.pc = "ident",
                                              !.seen = ident[u.i]]
                               ELSE NextEntry(u)]
  /\ UNCHANGED <<up, tableVars, kernelVars, cpc, mainVars, handlerVars>>

\* writeString(name), writeString(phone).  strlen(NULL) is a segmentation
\* fault; a freed pointer yields garbage or faults.
UpdaterIdent(c) ==
  LET t == ident[upd[c].i] IN
  /\ up /\ upd[c].pc = "ident"
  /\ \/ t # Null /\ UNCHANGED up
     \/ t \notin Clients /\ up' = FALSE
  /\ upd' = [upd EXCEPT ![c].pc = "addr", ![c].ident = t]
  /\ UNCHANGED <<tableVars, kernelVars, cpc, mainVars, handlerVars>>

\* writeString(listenIpAddress), writeShort(listenPort).
UpdaterAddr(c) ==
  LET u == upd[c]
      t == addr[u.i]
  IN
  /\ up /\ u.pc = "addr"
  /\ \/ t # Null /\ UNCHANGED up
     \/ t \notin Clients /\ up' = FALSE
  /\ upd' = [upd EXCEPT ![c] =
               [NextEntry(u) EXCEPT !.list = Append(@, [ident |-> u.ident,
                                                        addr |-> t,
                                                        seen |-> u.seen]),
                                     !.ident = Null, !.seen = Null]]
  /\ UNCHANGED <<tableVars, kernelVars, cpc, mainVars, handlerVars>>

\* sendResp(buffer, onlineClients[myClient].socket): the entry's descriptor
\* is read, then the frame goes out on it.
UpdaterTarget(c) ==
  /\ up /\ upd[c].pc = "target"
  /\ upd' = [upd EXCEPT ![c].pc = "send", ![c].fd = socket[upd[c].cell]]
  /\ UNCHANGED <<up, tableVars, kernelVars, cpc, mainVars, handlerVars>>

UpdaterSend(c) ==
  /\ up /\ upd[c].pc = "send"
  /\ Send(upd[c].fd, UPDATE_REQUEST)
  /\ upd' = [upd EXCEPT ![c] = FreshPass(@.cell)]
  /\ UNCHANGED <<tableVars, file, inbox, mainVars, handlerVars>>

-----------------------------------------------------------------------------
Init ==
  /\ up = TRUE
  /\ socket = [s \in Cell |-> NoFd]
  /\ active = [s \in Cell |-> FALSE]
  /\ ready  = [s \in Cell |-> FALSE]
  /\ ident  = [s \in Cell |-> Null]
  /\ addr   = [s \in Cell |-> Null]
  /\ file   = [f \in Fd |-> NoClient]
  /\ net    = [c \in Clients |-> "ok"]
  /\ inbox  = [c \in Clients |-> << >>]
  /\ cpc    = [c \in Clients |-> "away"]
  /\ mpc = "scan" /\ mi = 1 /\ mcell = Below
  /\ hpc    = [c \in Clients |-> "none"]
  /\ hcell  = [c \in Clients |-> Below]
  /\ hconn  = [c \in Clients |-> NoClient]
  /\ hsock  = [c \in Clients |-> NoFd]
  /\ upd    = [c \in Clients |-> IdleUpdater]

MainStep == MainScan \/ MainClear \/ MainExit
            \/ \E c \in Clients : MainAccept(c) \/ MainSpawn(c)

HandlerStep(c) ==
  \/ HandlerStart(c)    \/ HandlerCall(c)     \/ HandlerRecvError(c)
  \/ HandlerRecv(c)     \/ HandlerSetIdent(c)
  \/ HandlerPublish(c)  \/ HandlerAck(c)      \/ HandlerUnready(c)
  \/ HandlerClose(c)    \/ HandlerFree(c)      \/ HandlerDeactivate(c)

UpdaterStep(c) ==
  \/ UpdaterStart(c) \/ UpdaterCheck(c) \/ UpdaterCount(c)
  \/ UpdaterScan(c)  \/ UpdaterIdent(c) \/ UpdaterAddr(c)
  \/ UpdaterTarget(c) \/ UpdaterSend(c)

ClientStep(c) == Connect(c) \/ Login(c) \/ Leave(c) \/ Vanish(c)

Next == \/ MainStep
        \/ \E c \in Clients : \/ ClientStep(c) \/ HandlerStep(c)
                              \/ UpdaterStep(c)

Spec == Init /\ [][Next]_vars

\* Every thread of the server process keeps being scheduled; no client ever
\* has to do anything, and accept never has to fail.
FairSpec == /\ Spec
            /\ WF_vars(MainStep /\ mpc' # "exit")
            /\ \A c \in Clients : WF_vars(HandlerStep(c)) /\ WF_vars(UpdaterStep(c))

-----------------------------------------------------------------------------
(* What the server owes its clients.                                       *)

\* Types, and the stages of the threads.
HandlerStage == {"none", "accepted", "start", "call", "recv", "setIdent",
                 "publish", "ack", "unready", "close", "free", "deactivate",
                 "exit"}
UpdaterStage == {"none", "start", "check", "count", "scan", "ident", "addr",
                 "target", "send", "exit"}
Entry == [ident : Text, addr : Text, seen : Text]

TypeOK ==
  /\ up \in BOOLEAN
  /\ socket \in [Cell -> Fd \cup {NoFd}]
  /\ active \in [Cell -> BOOLEAN]
  /\ ready \in [Cell -> BOOLEAN]
  /\ ident \in [Cell -> Text]
  /\ addr \in [Cell -> Text]
  /\ file \in [Fd -> Clients \cup {NoClient}]
  /\ net \in [Clients -> {"ok", "fin", "rst"}]
  /\ inbox \in [Clients -> Seq({CONNECTION_REQUEST, DISCONNECT_REQUEST})]
  /\ cpc \in [Clients -> {"away", "connected", "loggingIn", "online",
                          "leaving", "gone"}]
  /\ mpc \in {"scan", "clear", "accept", "spawn", "exit"}
  /\ mi \in 1..(MaxOnlineUsers + 1)
  /\ mcell \in Cell
  /\ hpc \in [Clients -> HandlerStage]
  /\ hcell \in [Clients -> Cell]
  /\ hconn \in [Clients -> Clients \cup {NoClient}]
  /\ hsock \in [Clients -> Fd \cup {NoFd}]
  /\ upd \in [Clients -> [pc : UpdaterStage, cell : Cell, i : Slot, n : Nat,
                          list : Seq(Entry), ident : Text, seen : Text,
                          fd : Fd \cup {NoFd}]]

\* c's connection has been accepted and its handler has not given the entry up.
Serving(c) == hpc[c] \notin {"none", "exit"}

\* c's handler has begun to take c's entry down.
Leaving(c) == hpc[c] \in {"close", "free", "deactivate", "exit"}

\* c's updater is about to send c a list with a correct entry of d.
Telling(c, d) ==
  /\ upd[c].pc = "send" /\ Peer(upd[c].fd) = c
  /\ \E k \in DOMAIN upd[c].list :
       upd[c].list[k].ident = d /\ upd[c].list[k].addr = d

\* No connection was ever accepted into the memory below the table.
InTable == \A c \in Clients : hpc[c] # "none" => hcell[c] \in Slot

\* Two connections never share an entry of the table, and the entry main has
\* reserved, clears and accepts into is not being served: reuse of an entry
\* starts only after its handler's last write to it.
SlotExclusive ==
  /\ \A c, d \in Clients :
       c # d /\ Serving(c) /\ Serving(d) /\ hcell[c] \in Slot
         => hcell[c] # hcell[d]
  /\ mpc \in {"clear", "accept"} /\ mcell \in Slot
       => \A c \in Clients : Serving(c) => hcell[c] # mcell

\* Until it closes the socket, the handler of c finds in its entry an open
\* descriptor of c's own connection, and what it receives comes from c:
\* no login or disconnection is ever charged to another client's entry.
OwnStream ==
  /\ TypeOK
  /\ InTable =>
       \A c \in Clients :
         Serving(c) /\ ~Leaving(c) =>
           /\ Peer(socket[hcell[c]]) = c
           /\ hpc[c] \in {"recv", "setIdent", "publish"} => hconn[c] = c

\* The passes of updateClient are not atomic, but an entry of the list it is
\* building is wrong (freed, or name of one client with address of another)
\* only when the client it stands for has begun to leave meanwhile.
WrongEntryOnlyAfterLeave ==
  InTable =>
    \A c \in Clients : \A k \in DOMAIN upd[c].list :
      LET e == upd[c].list[k] IN
      (e.ident = e.seen /\ e.addr = e.seen) \/ Leaving(e.seen)

\* The count of a pushed frame exceeds its entries (the receiver then reads
\* past the frame) only if some client has begun to leave.
CountWithinList ==
  \A c \in Clients :
    upd[c].pc \in {"target", "send"} /\ upd[c].n > Len(upd[c].list)
      => \E d \in Clients : Leaving(d)

\* Unless accept fails, the process is killed (SIGPIPE, NULL or
\* double free) only after some client left or died.
DownOnlyAfterDeparture ==
  ~up /\ mpc # "exit" => \E c \in Clients : cpc[c] = "gone" \/ Leaving(c)

\* All the harm that updateClient's unlocked reads of onlineClients do (a wrong
\* entry in a list, a count that is too high, a dead process) is done by a
\* client that leaves: among clients that stay every list is right.
HarmOnlyAfterLeave ==
  WrongEntryOnlyAfterLeave /\ CountWithinList /\ DownOnlyAfterDeparture

\* The table, seen as a directory of users: an entry is held from accept to
\* active = 0, and shown while it is ready.
Holding == [c \in Clients |-> IF Serving(c) /\ hcell[c] \in Slot
                              THEN hcell[c] ELSE Below]
Listed  == {s \in Slot : ready[s]}

Directory == INSTANCE SlotDirectory
               WITH Users <- Clients, Slots <- Slot, NoSlot <- Below,
                    holding <- Holding, listed <- Listed

\* Every step of the threads is a claim, listing, unlisting or release of one
\* user's own entry, or changes nothing in the directory.
ImplementsDirectory == Directory!Spec

\* A login is answered, or the client or the server is gone.
LoginAnswered ==
  \A c \in Clients : cpc[c] = "loggingIn" ~> (cpc[c] # "loggingIn" \/ ~up)

\* Of two clients that stay online each is told where to reach the other,
\* again and again.
PresenceSpreads ==
  \A c \in Clients : \A d \in Clients \ {c} :
    (cpc[c] = "online" /\ cpc[d] = "online")
      ~> (Telling(c, d) \/ cpc[c] # "online" \/ cpc[d] # "online" \/ ~up)

\* The entry of a client that dies after its login does not stay taken:
\* the pushes to its own socket provoke the reset that ends its handler.
DeadEntryReclaimed ==
  \A c \in Clients :
    (cpc[c] = "gone" /\ Serving(c) /\ ready[hcell[c]]) ~> (hpc[c] = "exit" \/ ~up)

\* Once nobody is served any more, every updater thread ends.
UpdatersRetire ==
  <>[](\A c \in Clients : ~Serving(c))
    => <>[](~up \/ \A c \in Clients : upd[c].pc \in {"none", "exit"})

\* In the end nothing of a session is left: neither the entry nor the thread.
SessionsEnd == DeadEntryReclaimed /\ UpdatersRetire
=============================================================================
