------------------------------ MODULE P2PInbox ------------------------------
(***************************************************************************)
(* The listening side of a WhatsAP2P client (WhatsAp2p-Client.c): main     *)
(* accepts the connections of other clients into the table onlineClients,  *)
(* one handle_client thread per connection receives one message, saves the *)
(* photo it may carry and appends a line to lastMessages under             *)
(* mutexMessages, and the user's thread prints lastMessages without it.    *)
(* Every peer opens one connection and sends one message (P2Sender).       *)
(* Connections stand for their descriptors: a number is never reused while *)
(* a stale copy of it is left in the table.                                *)
(***************************************************************************)
EXTENDS Integers, Sequences, FiniteSets, SequencesExt

CONSTANTS
  Peers,            \* the clients that send to this one
  Names,            \* file names of photos
  BadNames,         \* names under which "recv<name>" cannot be opened
  MaxOnlineUsers,   \* entries of onlineClients
  LastMessage,      \* LASTMESSAGE: index of the last line of lastMessages
  MaxFd,            \* descriptors the process may hold for connections
  Nobody

Slot  == 1..MaxOnlineUsers
Below == 0                       \* onlineClients[-1]
Cell  == Slot \cup {Below}
Line  == 1..(LastMessage + 1)    \* lastMessages[0 .. LASTMESSAGE]

TEXT_MESSAGE == "TEXT_MESSAGE"
Unknown      == "unknown"        \* any other message code
Message      == {TEXT_MESSAGE, Unknown} \cup Names   \* a name: a photo

ASSUME InboxAssumption ==
  /\ MaxOnlineUsers \in Nat \ {0} /\ LastMessage \in Nat \ {0}
  /\ MaxFd \in Nat \ {0}
  /\ Nobody \notin Peers \cup Message /\ BadNames \subseteq Names
  /\ Names \cap {TEXT_MESSAGE, Unknown} = {}

VARIABLES
  up,             \* FALSE once accept has failed and main called exit
  \* peers and their connections
  ppc,            \* ppc[p]: what p has done with its connection
  sent,           \* sent[p]: the message in the connection, or Nobody
  open,           \* connections that hold a descriptor of this process
  \* onlineClients
  active, socket,
  \* main
  mpc, mi, mcell,
  \* handle_client
  hpc, hcell, hconn,
  hfrom,          \* hfrom[h]: whose message the handler of h has received
  hmsg,
  hi,             \* the loop counter of the shift
  \* shared data
  mutex, lines,
  disk,           \* disk[n]: whose photo "recv<n>" holds
  arrived,        \* history: peers in the order their handlers took the mutex
  \* the user's thread in printMenu
  screen          \* the lines printed since the screen was cleared

tableVars   == <<active, socket>>
peerVars    == <<ppc, sent>>
mainVars    == <<mpc, mi, mcell>>
handlerVars == <<hpc, hcell, hconn, hfrom, hmsg, hi>>
dataVars    == <<mutex, lines, disk, arrived>>
vars == <<up, peerVars, open, tableVars, mainVars, handlerVars, dataVars, screen>>

-----------------------------------------------------------------------------
(* The peers: P2Sender of another client.                                  *)

Connect(p) ==
  /\ ppc[p] = "away"
  /\ ppc' = [ppc EXCEPT ![p] = "connected"]
  /\ UNCHANGED <<up, sent, open, tableVars, mainVars, handlerVars, dataVars, screen>>

SendTo(p) ==
  /\ ppc[p] = "connected"
  /\ \E m \in Message : sent' = [sent EXCEPT ![p] = m]
  /\ ppc' = [ppc EXCEPT ![p] = "sent"]
  /\ UNCHANGED <<up, open, tableVars, mainVars, handlerVars, dataVars, screen>>

\* The sender closes after 100 seconds, dies, or the network resets.
Hangup(p) ==
  /\ ppc[p] \in {"connected", "sent"}
  /\ \E how \in {"fin", "rst"} : ppc' = [ppc EXCEPT ![p] = how]
  /\ UNCHANGED <<up, sent, open, tableVars, mainVars, handlerVars, dataVars, screen>>

-----------------------------------------------------------------------------
(* main                                                                    *)

\* Mutant: an entry without a socket counts as free.
IsFreeUnconnected(s) == socket[s] = Nobody

IsFree(s) == ~active[s]

\* Looks at one entry a step; nextClientId is -1 when none was inactive.
MainScan ==
  /\ up /\ mpc = "scan"
  /\ IF mi > MaxOnlineUsers
     THEN mpc' = "clear" /\ mcell' = Below /\ UNCHANGED mi
     ELSE IF IsFree(mi)
          THEN mpc' = "clear" /\ mcell' = mi /\ UNCHANGED mi
          ELSE mi' = mi + 1 /\ UNCHANGED <<mpc, mcell>>
  /\ UNCHANGED <<up, peerVars, open, tableVars, handlerVars, dataVars, screen>>

MainClear ==
  /\ up /\ mpc = "clear"
  /\ socket' = [socket EXCEPT ![mcell] = Nobody]
  /\ active' = [active EXCEPT ![mcell] = FALSE]
  /\ mpc' = "accept"
  /\ UNCHANGED <<up, peerVars, open, mi, mcell, handlerVars, dataVars, screen>>

\* accept fails, and main exits, when no descriptor is left.
MainAccept(p) ==
  /\ up /\ mpc = "accept"
  /\ ppc[p] # "away" /\ hpc[p] = "none"
  /\ IF Cardinality(open) = MaxFd
     THEN /\ up' = FALSE
          /\ UNCHANGED <<open, socket, hpc, hcell, mpc>>
     ELSE /\ open' = open \cup {p}
          /\ socket' = [socket EXCEPT ![mcell] = p]
          /\ hpc' = [hpc EXCEPT ![p] = "accepted"]
          /\ hcell' = [hcell EXCEPT ![p] = mcell]
          /\ mpc' = "spawn"
          /\ UNCHANGED up
  /\ UNCHANGED <<peerVars, active, mi, mcell, hconn, hfrom, hmsg, hi,
                 dataVars, screen>>

\* active = 1, pthread_create; the argument of the thread is its own copy.
MainSpawn(p) ==
  /\ up /\ mpc = "spawn" /\ hpc[p] = "accepted"
  /\ active' = [active EXCEPT ![mcell] = TRUE]
  /\ hpc' = [hpc EXCEPT ![p] = "call"]
  /\ mpc' = "scan" /\ mi' = 1
  /\ UNCHANGED <<up, peerVars, open, socket, mcell, hcell, hconn, hfrom, hmsg,
                 hi, dataVars, screen>>

-----------------------------------------------------------------------------
(* handle_client                                                           *)

Goto(h, stage) == hpc' = [hpc EXCEPT ![h] = stage]

\* recvResp(buffer, onlineClients[id].socket): the entry is read at the call.
HandlerCall(h) ==
  /\ up /\ hpc[h] = "call"
  /\ hconn' = [hconn EXCEPT ![h] = socket[hcell[h]]]
  /\ Goto(h, "recv")
  /\ UNCHANGED <<up, peerVars, open, tableVars, mainVars, hcell, hfrom, hmsg, hi,
                 dataVars, screen>>

\* -1 for no descriptor, for one closed meanwhile (unless recv was already
\* blocked on it) and after a reset.  A peer that closed without a message
\* makes recv return 0 for ever, which recvResp takes for progress.
HandlerRecvError(h) ==
  /\ up /\ hpc[h] = "recv"
  /\ hconn[h] \in open => ppc[hconn[h]] = "rst"
  /\ Goto(h, "close")
  /\ UNCHANGED <<up, peerVars, open, tableVars, mainVars, hcell, hconn, hfrom,
                 hmsg, hi, dataVars, screen>>

HandlerRecv(h) ==
  LET q == hconn[h] IN
  /\ up /\ hpc[h] = "recv"
  /\ q # Nobody /\ sent[q] # Nobody
  /\ sent' = [sent EXCEPT ![q] = Nobody]
  /\ hfrom' = [hfrom EXCEPT ![h] = q]
  /\ hmsg' = [hmsg EXCEPT ![h] = sent[q]]
  /\ Goto(h, CASE sent[q] = TEXT_MESSAGE -> "lock"
               [] sent[q] = Unknown      -> "close"
               [] OTHER                  -> "create")
  /\ UNCHANGED <<up, ppc, open, tableVars, mainVars, hcell, hconn, hi, dataVars,
                 screen>>

\* Mutant: the photo is announced before it is written.
HandlerCreateLate(h) ==
  /\ up /\ hpc[h] = "create"
  /\ IF hmsg[h] \in BadNames THEN UNCHANGED disk
     ELSE disk' = [disk EXCEPT ![hmsg[h]] = Nobody]
  /\ Goto(h, "lock")
  /\ UNCHANGED <<up, peerVars, open, tableVars, mainVars, hcell, hconn, hfrom,
                 hmsg, hi, mutex, lines, arrived, screen>>

\* fopen("recv<name>", "wb") truncates; when it fails the thread goes on.
HandlerCreate(h) ==
  /\ up /\ hpc[h] = "create"
  /\ IF hmsg[h] \in BadNames
     THEN Goto(h, "lock") /\ UNCHANGED disk
     ELSE Goto(h, "save") /\ disk' = [disk EXCEPT ![hmsg[h]] = Nobody]
  /\ UNCHANGED <<up, peerVars, open, tableVars, mainVars, hcell, hconn, hfrom,
                 hmsg, hi, mutex, lines, arrived, screen>>

\* fwrite, fclose; then system("xdg-open ...").
HandlerSave(h) ==
  /\ up /\ hpc[h] = "save"
  /\ disk' = [disk EXCEPT ![hmsg[h]] = hfrom[h]]
  /\ Goto(h, "lock")
  /\ UNCHANGED <<up, peerVars, open, tableVars, mainVars, hcell, hconn, hfrom,
                 hmsg, hi, mutex, lines, arrived, screen>>

\* Mutant: mutexMessages is not taken.
HandlerLockNever(h) ==
  /\ up /\ hpc[h] = "lock"
  /\ mutex' = h
  /\ arrived' = Append(arrived, hfrom[h])
  /\ hi' = [hi EXCEPT ![h] = 2]
  /\ Goto(h, "shift")
  /\ UNCHANGED <<up, peerVars, open, tableVars, mainVars, hcell, hconn, hfrom,
                 hmsg, lines, disk, screen>>

\* pthread_mutex_lock(&mutexMessages)
HandlerLock(h) ==
  /\ up /\ hpc[h] = "lock" /\ mutex = Nobody
  /\ mutex' = h
  /\ arrived' = Append(arrived, hfrom[h])
  /\ hi' = [hi EXCEPT ![h] = 2]
  /\ Goto(h, "shift")
  /\ UNCHANGED <<up, peerVars, open, tableVars, mainVars, hcell, hconn, hfrom,
                 hmsg, lines, disk, screen>>

\* strcpy(lastMessages[i-1], lastMessages[i]), then the last line is emptied.
HandlerShift(h) ==
  LET i == hi[h] IN
  /\ up /\ hpc[h] = "shift"
  /\ IF i \in Line
     THEN /\ lines' = [lines EXCEPT ![i - 1] = lines[i]]
          /\ hi' = [hi EXCEPT ![h] = i + 1]
          /\ UNCHANGED hpc
     ELSE /\ lines' = [lines EXCEPT ![LastMessage + 1] = Nobody]
          /\ Goto(h, "write")
          /\ UNCHANGED hi
  /\ UNCHANGED <<up, peerVars, open, tableVars, mainVars, hcell, hconn, hfrom,
                 hmsg, mutex, disk, arrived, screen>>

HandlerWrite(h) ==
  /\ up /\ hpc[h] = "write"
  /\ lines' = [lines EXCEPT ![LastMessage + 1] = hfrom[h]]
  /\ Goto(h, "unlock")
  /\ UNCHANGED <<up, peerVars, open, tableVars, mainVars, hcell, hconn, hfrom,
                 hmsg, hi, mutex, disk, arrived, screen>>

\* Mutant: the mutex is not released.
HandlerUnlockNever(h) ==
  /\ up /\ hpc[h] = "unlock"
  /\ Goto(h, "close")
  /\ UNCHANGED <<up, peerVars, open, tableVars, mainVars, hcell, hconn, hfrom,
                 hmsg, hi, dataVars, screen>>

\* Unlocks, then sleeps five seconds.
HandlerUnlock(h) ==
  /\ up /\ hpc[h] = "unlock"
  /\ mutex' = Nobody
  /\ Goto(h, "close")
  /\ UNCHANGED <<up, peerVars, open, tableVars, mainVars, hcell, hconn, hfrom,
                 hmsg, hi, lines, disk, arrived, screen>>

\* Mutant: disconnectClient frees the entry before it closes the socket.
HandlerCloseInactive(h) ==
  /\ up /\ hpc[h] = "close"
  /\ active' = [active EXCEPT ![hcell[h]] = FALSE]
  /\ Goto(h, "deactivate")
  /\ UNCHANGED <<up, peerVars, open, socket, mainVars, hcell, hconn, hfrom, hmsg,
                 hi, dataVars, screen>>

\* disconnectClient: close and socket = -1 ...
HandlerClose(h) ==
  /\ up /\ hpc[h] = "close"
  /\ open' = open \ {socket[hcell[h]]}
  /\ socket' = [socket EXCEPT ![hcell[h]] = Nobody]
  /\ Goto(h, "deactivate")
  /\ UNCHANGED <<up, peerVars, active, mainVars, hcell, hconn, hfrom, hmsg, hi,
                 dataVars, screen>>

\* ... and active = 0 last.
HandlerDeactivate(h) ==
  /\ up /\ hpc[h] = "deactivate"
  /\ active' = [active EXCEPT ![hcell[h]] = FALSE]
  /\ Goto(h, "exit")
  /\ UNCHANGED <<up, peerVars, open, socket, mainVars, hcell, hconn, hfrom, hmsg,
                 hi, dataVars, screen>>

-----------------------------------------------------------------------------
(* printMenu in the user's thread, one line a step, without the mutex.     *)

PrintLine ==
  /\ up
  /\ screen' = IF Len(screen) = LastMessage + 1 THEN << >>
               ELSE Append(screen, lines[Len(screen) + 1])
  /\ UNCHANGED <<up, peerVars, open, tableVars, mainVars, handlerVars, dataVars>>

-----------------------------------------------------------------------------
Init ==
  /\ up = TRUE
  /\ ppc = [p \in Peers |-> "away"]
  /\ sent = [p \in Peers |-> Nobody]
  /\ open = {}
  /\ active = [s \in Cell |-> FALSE]
  /\ socket = [s \in Cell |-> Nobody]
  /\ mpc = "scan" /\ mi = 1 /\ mcell = Below
  /\ hpc = [p \in Peers |-> "none"]
  /\ hcell = [p \in Peers |-> Below]
  /\ hconn = [p \in Peers |-> Nobody]
  /\ hfrom = [p \in Peers |-> Nobody]
  /\ hmsg = [p \in Peers |-> Nobody]
  /\ hi = [p \in Peers |-> 2]
  /\ mutex = Nobody
  /\ lines = [i \in Line |-> Nobody]
  /\ disk = [n \in Names |-> Nobody]
  /\ arrived = << >>
  /\ screen = << >>

PeerStep(p) == Connect(p) \/ SendTo(p) \/ Hangup(p)

MainStep == MainScan \/ MainClear \/ \E p \in Peers : MainAccept(p) \/ MainSpawn(p)

HandlerStep(h) ==
  \/ HandlerCall(h)  \/ HandlerRecvError(h) \/ HandlerRecv(h)
  \/ HandlerCreate(h) \/ HandlerSave(h)
  \/ HandlerLock(h)  \/ HandlerShift(h) \/ HandlerWrite(h) \/ HandlerUnlock(h)
  \/ HandlerClose(h) \/ HandlerDeactivate(h)

Next == \/ MainStep
        \/ \E p \in Peers : PeerStep(p) \/ HandlerStep(p)
        \/ PrintLine

Spec == Init /\ [][Next]_vars

\* The threads of the process are scheduled; peers may do nothing.
FairSpec == Spec /\ WF_vars(MainStep) /\ \A p \in Peers : WF_vars(HandlerStep(p))

-----------------------------------------------------------------------------
(* What the inbox owes its user and its peers.                             *)

HandlerStage == {"none", "accepted", "call", "recv", "create", "save", "lock",
                 "shift", "write", "unlock", "close", "deactivate", "exit"}

\* Types, and the stages of the threads.
TypeOK ==
  /\ up \in BOOLEAN
  /\ ppc \in [Peers -> {"away", "connected", "sent", "fin", "rst"}]
  /\ sent \in [Peers -> Message \cup {Nobody}]
  /\ open \subseteq Peers
  /\ active \in [Cell -> BOOLEAN]
  /\ socket \in [Cell -> Peers \cup {Nobody}]
  /\ mpc \in {"scan", "clear", "accept", "spawn"}
  /\ mi \in 1..(MaxOnlineUsers + 1) /\ mcell \in Cell
  /\ hpc \in [Peers -> HandlerStage]
  /\ hcell \in [Peers -> Cell]
  /\ hconn \in [Peers -> Peers \cup {Nobody}]
  /\ hfrom \in [Peers -> Peers \cup {Nobody}]
  /\ hmsg \in [Peers -> Message \cup {Nobody}]
  /\ hi \in [Peers -> 2..(LastMessage + 2)]
  /\ mutex \in Peers \cup {Nobody}
  /\ lines \in [Line -> Peers \cup {Nobody}]
  /\ disk \in [Names -> Peers \cup {Nobody}]
  /\ arrived \in Seq(Peers)
  /\ screen \in Seq(Peers \cup {Nobody})

Serving(p) == hpc[p] \notin {"none", "exit"}

\* No connection was ever accepted into the memory below the table.
InTable == \A p \in Peers : hpc[p] # "none" => hcell[p] \in Slot

\* Line i of lastMessages when the messages of "arrived" are all it has seen.
Latest(i) == LET k == Len(arrived) - (LastMessage + 1) + i
             IN  IF k >= 1 THEN arrived[k] ELSE Nobody

\* Whenever nobody holds mutexMessages, lastMessages shows the last messages,
\* each once, in the order their handlers took the mutex: no shift loses,
\* repeats or reorders a line, whichever handlers post at the same time.
LatestLines ==
  /\ mutex = Nobody => lines = [i \in Line |-> Latest(i)]
  /\ IsInjective(arrived)

\* a came before b, or is b.
NotAfter(a, b) == \E i, j \in DOMAIN arrived :
                    i <= j /\ arrived[i] = a /\ arrived[j] = b

\* printMenu takes no lock: a screen may repeat or miss a message while a
\* shift is under way, but it never shows two messages in the wrong order.
ScreenInOrder ==
  \A i, j \in DOMAIN screen :
    i < j /\ Nobody \notin {screen[i], screen[j]}
      => NotAfter(screen[i], screen[j])

\* What the user can see of the last messages, in the table and on a screen
\* printed while handlers change it, is in the order of their arrival.
MessagesInOrder == LatestLines /\ ScreenInOrder

\* While every connection has an entry of the table, a handler receives the
\* message of its own connection and finds that connection in its entry.
OwnMessage ==
  /\ TypeOK
  /\ InTable =>
       \A h \in Peers :
         /\ hfrom[h] \in {h, Nobody}
         /\ Serving(h) /\ hpc[h] # "deactivate" => socket[hcell[h]] = h

\* Once a photo is about to be announced, the file of the announcement holds
\* it, unless fopen failed or another photo came under the same name.
PhotoOnDisk ==
  \A h \in Peers :
    /\ hmsg[h] \in Names \ BadNames
    /\ hpc[h] \notin {"create", "save"}
    /\ \A g \in Peers \ {h} : hmsg[g] # hmsg[h]
    => disk[hmsg[h]] = hfrom[h]

\* The table is a directory of connections nobody is ever listed in.
Holding == [p \in Peers |-> IF Serving(p) /\ hcell[p] \in Slot THEN hcell[p]
                             ELSE Below]
Directory == INSTANCE SlotDirectory
               WITH Users <- Peers, Slots <- Slot, NoSlot <- Below,
                    holding <- Holding, listed <- {}

\* Every step claims or releases the entry of one connection, or leaves the
\* directory alone: reuse of an entry starts after its handler's last write.
ImplementsDirectory == Directory!Spec

\* A message sent on a connection that lasts is put among the last messages
\* and its handler gives its entry back, as long as connections find entries
\* and descriptors: no path keeps mutexMessages or the entry.
MessageServed ==
  \A p \in Peers :
    (sent[p] \in Names \cup {TEXT_MESSAGE})
      ~> (\/ p \in ToSet(arrived) /\ hpc[p] = "exit"
          \/ ppc[p] = "rst" \/ ~up \/ ~InTable)
=============================================================================
