--------------------------- MODULE P2PServerProofs ---------------------------
(* Theorems about P2PServer, for every set of clients and every table size. *)
EXTENDS P2PServer, FiniteSetTheorems, SequenceTheorems, TLAPS

USE ServerAssumption

\* The locals of one updateClient thread.
Local == [pc : UpdaterStage, cell : Cell, i : Slot, n : Nat,
          list : Seq(Entry), ident : Text, seen : Text, fd : Fd \cup {NoFd}]

-----------------------------------------------------------------------------
(* Type correctness, one lemma per thread.                                 *)

LEMMA SendType ==
  ASSUME TypeOK, NEW f, NEW frame, Send(f, frame)
  PROVE  /\ up' \in BOOLEAN
         /\ net' \in [Clients -> {"ok", "fin", "rst"}]
         /\ cpc' \in [Clients -> {"away", "connected", "loggingIn", "online",
                                  "leaving", "gone"}]
  BY DEF TypeOK, Send, Peer

LEMMA ClientType ==
  ASSUME TypeOK, NEW c \in Clients, ClientStep(c)
  PROVE  TypeOK'
<1>1. ASSUME Connect(c) PROVE TypeOK'
  BY <1>1 DEF TypeOK, Connect, tableVars, kernelVars, mainVars, handlerVars
<1>2. ASSUME Login(c) PROVE TypeOK'
  BY <1>2 DEF TypeOK, Login, tableVars, kernelVars, mainVars, handlerVars
<1>3. ASSUME Leave(c) PROVE TypeOK'
  BY <1>3 DEF TypeOK, Leave, tableVars, kernelVars, mainVars, handlerVars
<1>4. ASSUME Vanish(c) PROVE TypeOK'
  BY <1>4 DEF TypeOK, Vanish, tableVars, kernelVars, mainVars, handlerVars
<1>5. QED
  BY <1>1, <1>2, <1>3, <1>4 DEF ClientStep

LEMMA MainType ==
  ASSUME TypeOK, MainStep
  PROVE  TypeOK'
<1>1. ASSUME MainScan PROVE TypeOK'
  BY <1>1 DEF TypeOK, MainScan, IsFree, Cell, Slot, Below, tableVars, kernelVars,
              handlerVars
<1>2. ASSUME MainClear PROVE TypeOK'
  BY <1>2 DEF TypeOK, MainClear, Text, kernelVars, handlerVars
<1>3. ASSUME NEW c \in Clients, MainAccept(c) PROVE TypeOK'
  BY <1>3 DEF TypeOK, MainAccept, HandlerStage
<1>4. ASSUME NEW c \in Clients, MainSpawn(c) PROVE TypeOK'
  BY <1>4 DEF TypeOK, MainSpawn, HandlerStage, kernelVars
<1>5. ASSUME MainExit PROVE TypeOK'
  BY <1>5 DEF TypeOK, MainExit, tableVars, kernelVars, handlerVars
<1>6. QED
  BY <1>1, <1>2, <1>3, <1>4, <1>5 DEF MainStep

\* What a handler writes into its entry came from a client.
SenderKnown ==
  \A c \in Clients : hpc[c] \in {"setIdent", "publish"} => hconn[c] \in Clients

LEMMA HandlerType ==
  ASSUME TypeOK, SenderKnown, NEW c \in Clients, HandlerStep(c)
  PROVE  TypeOK'
<1> USE DEF HandlerStage
<1>1. ASSUME HandlerStart(c) PROVE TypeOK'
  <2>1. upd' \in [Clients -> Local]
    <3>1. upd \in [Clients -> Local] /\ upd[c] \in Local
      BY DEF TypeOK, Local
    <3>2. [upd[c] EXCEPT !.pc = "start"] \in Local
      BY <3>1 DEF Local, UpdaterStage
    <3>3. QED BY <1>1, <3>1, <3>2 DEF HandlerStart
  <2>2. QED
    BY <1>1, <2>1 DEF TypeOK, Local, HandlerStart, tableVars, kernelVars, mainVars
<1>2. ASSUME HandlerCall(c) PROVE TypeOK'
  BY <1>2 DEF TypeOK, HandlerCall, Peer, tableVars, kernelVars, mainVars
<1>3. ASSUME HandlerRecvError(c) PROVE TypeOK'
  BY <1>3 DEF TypeOK, HandlerRecvError, tableVars, kernelVars, mainVars
<1>4. ASSUME HandlerRecv(c) PROVE TypeOK'
  BY <1>4 DEF TypeOK, HandlerRecv, CONNECTION_REQUEST, DISCONNECT_REQUEST, tableVars, kernelVars, mainVars
<1>5. ASSUME HandlerSetIdent(c) PROVE TypeOK'
  BY <1>5 DEF TypeOK, SenderKnown, Text, HandlerSetIdent, tableVars, kernelVars, mainVars
<1>6. ASSUME HandlerPublish(c) PROVE TypeOK'
  BY <1>6 DEF TypeOK, SenderKnown, Text, HandlerPublish, tableVars, kernelVars, mainVars
<1>7. ASSUME HandlerUnready(c) PROVE TypeOK'
  BY <1>7 DEF TypeOK, HandlerUnready, tableVars, kernelVars, mainVars
<1>8. ASSUME HandlerClose(c) PROVE TypeOK'
  BY <1>8 DEF TypeOK, HandlerClose, tableVars, kernelVars, mainVars
<1>9. ASSUME HandlerFree(c) PROVE TypeOK'
  BY <1>9 DEF TypeOK, HandlerFree, Text, AfterFree, tableVars, kernelVars, mainVars
<1>10. ASSUME HandlerDeactivate(c) PROVE TypeOK'
  BY <1>10 DEF TypeOK, HandlerDeactivate, tableVars, kernelVars, mainVars
<1>11. ASSUME HandlerAck(c) PROVE TypeOK'
  BY <1>11, SendType DEF TypeOK, HandlerAck, tableVars, mainVars
<1>12. QED
  BY <1>1, <1>2, <1>3, <1>4, <1>5, <1>6, <1>7, <1>8, <1>9, <1>10, <1>11 DEF HandlerStep

LEMMA IdleType == IdleUpdater \in Local
<1>1. Below \in Cell /\ 1 \in Slot /\ Null \in Text
  BY DEF Cell, Slot, Text
<1>2. QED BY <1>1 DEF Local, IdleUpdater, UpdaterStage

LEMMA FreshPassType == \A s \in Cell : FreshPass(s) \in Local
<1> TAKE s \in Cell
<1>1. [[IdleUpdater EXCEPT !.pc = "check"] EXCEPT !.cell = s] \in Local
  BY IdleType DEF Local, UpdaterStage
<1>2. QED BY <1>1 DEF FreshPass

LEMMA UpdaterType ==
  ASSUME TypeOK, NEW c \in Clients, UpdaterStep(c)
  PROVE  TypeOK'
<1>1. upd \in [Clients -> Local] /\ upd[c] \in Local
  BY DEF TypeOK, Local
<1>2. SUFFICES /\ upd' \in [Clients -> Local]
               /\ up' \in BOOLEAN
               /\ net' \in [Clients -> {"ok", "fin", "rst"}]
               /\ cpc' \in [Clients -> {"away", "connected", "loggingIn",
                                        "online", "leaving", "gone"}]
  BY DEF TypeOK, Local, UpdaterStep, UpdaterStart, UpdaterCheck, UpdaterCount,
         UpdaterScan, UpdaterIdent, UpdaterAddr, UpdaterTarget, UpdaterSend,
         tableVars, kernelVars, mainVars, handlerVars
<1>3. ASSUME NEW u \in Local PROVE NextEntry(u) \in Local
  <2>1. CASE u.i < MaxOnlineUsers
    <3>1. u.i + 1 \in Slot
      BY <2>1 DEF Local, Slot
    <3>2. [u EXCEPT !.i = u.i + 1, !.pc = "scan"] \in Local
      BY <3>1 DEF Local, UpdaterStage
    <3>3. QED BY <2>1, <3>2 DEF NextEntry
  <2>2. CASE ~(u.i < MaxOnlineUsers)
    <3>1. [u EXCEPT !.pc = "target"] \in Local
      BY DEF Local, UpdaterStage
    <3>2. QED BY <2>2, <3>1 DEF NextEntry
  <2>3. QED BY <2>1, <2>2
<1>4. ASSUME UpdaterStart(c) PROVE upd' \in [Clients -> Local]
  <2>2. PICK s \in Cell : upd' = [upd EXCEPT ![c] = FreshPass(s)]
    BY <1>4 DEF UpdaterStart, TypeOK
  <2>3. QED BY <1>1, FreshPassType, <2>2
<1>5. ASSUME UpdaterCheck(c) PROVE upd' \in [Clients -> Local]
  BY <1>1, <1>5 DEF UpdaterCheck, UpdaterStage, Local
<1>6. ASSUME UpdaterCount(c) PROVE upd' \in [Clients -> Local]
  <2> DEFINE i == upd[c].i
             n == upd[c].n + (IF ready[i] THEN 1 ELSE 0)
  <2>1. n \in Nat /\ i \in Slot
    BY <1>1 DEF Local
  <2>2. CASE i < MaxOnlineUsers
    <3>1. i + 1 \in Slot
      BY <2>1, <2>2 DEF Slot
    <3>2. [upd[c] EXCEPT !.i = i + 1, !.n = n] \in Local
      BY <1>1, <2>1, <3>1 DEF Local
    <3>3. upd' = [upd EXCEPT ![c] = [upd[c] EXCEPT !.i = i + 1, !.n = n]]
      BY <1>1, <1>6, <2>2 DEF UpdaterCount
    <3>4. QED BY <1>1, <3>2, <3>3
  <2>3. CASE ~(i < MaxOnlineUsers)
    <3> DEFINE pc == IF n = 0 THEN "check" ELSE "scan"
    <3>1. 1 \in Slot /\ pc \in UpdaterStage
      BY DEF Slot, UpdaterStage
    <3> HIDE DEF pc, n
    <3>2. [upd[c] EXCEPT !.i = 1, !.n = n, !.pc = pc] \in Local
      BY <1>1, <2>1, <3>1 DEF Local
    <3>3. upd' = [upd EXCEPT ![c] = [upd[c] EXCEPT !.i = 1, !.n = n, !.pc = pc]]
      BY <1>1, <1>6, <2>3 DEF UpdaterCount, pc, n
    <3>4. QED BY <1>1, <3>2, <3>3
  <2>4. QED BY <2>2, <2>3
<1>7. ASSUME UpdaterScan(c) PROVE upd' \in [Clients -> Local]
  <2>1. ident[upd[c].i] \in Text
    BY <1>1 DEF TypeOK, Local, Cell
  <2>2. [upd[c] EXCEPT !.pc = "ident", !.seen = ident[upd[c].i]] \in Local
    BY <1>1, <2>1 DEF UpdaterStage, Local
  <2>3. QED BY <1>1, <1>3, <1>7, <2>2 DEF UpdaterScan
<1>8. ASSUME UpdaterIdent(c) PROVE upd' \in [Clients -> Local] /\ up' \in BOOLEAN
  <2>1. ident[upd[c].i] \in Text
    BY <1>1 DEF TypeOK, Local, Cell
  <2>2. QED BY <1>1, <1>8, <2>1 DEF UpdaterIdent, UpdaterStage, TypeOK, Local
<1>9. ASSUME UpdaterAddr(c) PROVE upd' \in [Clients -> Local] /\ up' \in BOOLEAN
  <2> DEFINE u == upd[c]
             e == [ident |-> u.ident, addr |-> addr[u.i], seen |-> u.seen]
             w == [NextEntry(u) EXCEPT !.list = Append(@, e), !.ident = Null,
                                       !.seen = Null]
  <2>1. addr[u.i] \in Text
    BY <1>1 DEF TypeOK, Local, Cell
  <2>2. e \in Entry
    BY <1>1, <2>1 DEF Entry, Local
  <2>3. Append(NextEntry(u).list, e) \in Seq(Entry)
    BY <1>1, <1>3, <2>2 DEF Local
  <2>4. w \in Local
    BY <1>1, <1>3, <2>3 DEF Text, Local
  <2>5. QED BY <1>1, <1>9, <2>4 DEF UpdaterAddr, TypeOK
<1>10. ASSUME UpdaterTarget(c) PROVE upd' \in [Clients -> Local]
  BY <1>1, <1>10 DEF UpdaterTarget, UpdaterStage, TypeOK, Local
<1>11. ASSUME UpdaterSend(c) PROVE upd' \in [Clients -> Local]
  <2>1. upd[c].cell \in Cell
    BY <1>1 DEF Local
  <2>2. QED BY <1>1, <1>11, <2>1, FreshPassType DEF UpdaterSend
<1>12. CASE UpdaterSend(c)
  BY <1>11, <1>12, SendType DEF UpdaterSend
<1>13. CASE ~UpdaterSend(c)
  BY <1>4, <1>5, <1>6, <1>7, <1>8, <1>9, <1>10, <1>13
     DEF TypeOK, UpdaterStep, UpdaterStart, UpdaterCheck, UpdaterCount,
         UpdaterScan, UpdaterIdent, UpdaterAddr, UpdaterTarget, kernelVars
<1>14. QED BY <1>12, <1>13

LEMMA InitType == Init => TypeOK
<1> SUFFICES ASSUME Init PROVE TypeOK
  OBVIOUS
<1>1. Below \in Cell /\ 1 \in 1..(MaxOnlineUsers + 1) /\ Null \in Text
  BY DEF Cell, Text
<1>2. QED
  BY <1>1, IdleType DEF Init, TypeOK, Local, HandlerStage

LEMMA SenderStep ==
  ASSUME TypeOK, SenderKnown, [Next]_vars
  PROVE  SenderKnown'
<1>1. CASE \E c \in Clients : HandlerStep(c)
  BY <1>1 DEF TypeOK, SenderKnown, HandlerStep, HandlerStart, HandlerCall,
     HandlerRecvError, HandlerRecv, HandlerSetIdent, HandlerPublish, HandlerAck,
     HandlerUnready, HandlerClose, HandlerFree, HandlerDeactivate
<1>2. CASE \E c \in Clients : UpdaterStep(c)
  BY <1>2 DEF TypeOK, SenderKnown, UpdaterStep, UpdaterStart, UpdaterCheck,
     UpdaterCount, UpdaterScan, UpdaterIdent, UpdaterAddr, UpdaterTarget,
     UpdaterSend, handlerVars
<1>3. CASE MainStep \/ \E c \in Clients : ClientStep(c)
  BY <1>3 DEF TypeOK, SenderKnown, MainStep, MainScan, MainClear, MainExit,
     MainAccept, MainSpawn, ClientStep, Connect, Login, Leave, Vanish, handlerVars
<1>4. CASE UNCHANGED vars
  BY <1>4 DEF SenderKnown, vars, handlerVars
<1>5. QED BY <1>1, <1>2, <1>3, <1>4 DEF Next

\* Every field of the table, of the kernel and of the threads keeps its type.
THEOREM TypeCorrect == Spec => [](TypeOK /\ SenderKnown)
<1>1. Init => TypeOK /\ SenderKnown
  BY InitType DEF Init, SenderKnown
<1>2. TypeOK /\ SenderKnown /\ [Next]_vars => (TypeOK /\ SenderKnown)'
  <2>1. TypeOK /\ UNCHANGED vars => TypeOK'
    BY DEF TypeOK, vars, tableVars, kernelVars, mainVars, handlerVars
  <2>2. QED
    BY <2>1, MainType, ClientType, HandlerType, UpdaterType, SenderStep DEF Next
<1>3. QED BY <1>1, <1>2, PTL DEF Spec

-----------------------------------------------------------------------------
(* Exclusive entries.  SlotExclusive is not inductive: that the scan picks  *)
(* an entry nobody is served in follows from Occupied, and the state main   *)
(* is in while a connection has no handler yet from Accepting.              *)

\* From active = 1 to active = 0 the entry of a connection is marked active.
Occupied ==
  \A c \in Clients :
    hpc[c] \notin {"none", "accepted", "exit"} /\ hcell[c] \in Slot
      => active[hcell[c]]

\* At most one connection waits for its handler, in the entry main holds.
Accepting ==
  /\ \A c \in Clients : hpc[c] = "accepted" => mpc = "spawn" /\ mcell = hcell[c]
  /\ \A c, d \in Clients : hpc[c] = "accepted" /\ hpc[d] = "accepted" => c = d

\* The stages of a handler between its start and disconnectClient's first write.
Showing == {"call", "recv", "setIdent", "publish", "ack", "unready"}

\* A ready entry is that of a client whose handler has not begun to leave.
ListedServed ==
  \A s \in Slot : ready[s] =>
    \E c \in Clients : hcell[c] = s /\ hpc[c] \in Showing

IInv == TypeOK /\ SlotExclusive /\ Occupied /\ Accepting /\ ListedServed

\* The variables the invariant reads besides those of TypeOK.
ownVars == <<mpc, mcell, hpc, hcell, active, ready>>

LEMMA OwnUnchanged ==
  ASSUME IInv, TypeOK', UNCHANGED ownVars
  PROVE  IInv'
  BY DEF IInv, SlotExclusive, Serving, Occupied, Accepting, ListedServed, ownVars

LEMMA MainInv ==
  ASSUME IInv, TypeOK', MainStep
  PROVE  IInv'
<1> USE DEF IInv, SlotExclusive, Serving, Occupied, Accepting, ListedServed, Showing
<1>1. CASE MainScan
  <2>1. active \in [Cell -> BOOLEAN] /\ mi \in 1..(MaxOnlineUsers + 1) /\ mcell' \in Cell
    BY DEF TypeOK
  <2>2. UNCHANGED <<hpc, hcell, active, ready>> /\ mpc = "scan"
    BY <1>1 DEF MainScan, tableVars, handlerVars
  <2>3. /\ mpc' \in {"clear", "accept"} /\ mcell' \in Slot
           => \A c \in Clients : Serving(c) => hcell[c] # mcell'
    BY <1>1, <2>1, <2>2 DEF MainScan, IsFree, Slot, Below, Cell
  <2>4. \A c \in Clients : hpc[c] # "accepted"
    BY <2>2
  <2>5. QED BY <2>2, <2>3, <2>4
<1>2. CASE MainClear
  <2>1. /\ UNCHANGED <<hpc, hcell, mcell>> /\ mpc = "clear" /\ mpc' = "accept"
        /\ active' = [active EXCEPT ![mcell] = FALSE]
        /\ ready' = [ready EXCEPT ![mcell] = FALSE]
    BY <1>2 DEF MainClear, handlerVars
  <2>2. active \in [Cell -> BOOLEAN] /\ ready \in [Cell -> BOOLEAN] /\ mcell \in Cell
    BY DEF TypeOK
  <2>3. Occupied'
    BY <2>1, <2>2 DEF Cell
  <2>4. ListedServed'
    BY <2>1, <2>2 DEF Cell
  <2>5. SlotExclusive' /\ Accepting'
    BY <2>1
  <2>6. QED BY <2>3, <2>4, <2>5
<1>3. ASSUME NEW c \in Clients, MainAccept(c) PROVE IInv'
  <2>1. /\ mpc = "accept" /\ mpc' = "spawn" /\ hpc[c] = "none"
        /\ hpc' = [hpc EXCEPT ![c] = "accepted"]
        /\ hcell' = [hcell EXCEPT ![c] = mcell]
        /\ UNCHANGED <<mcell, active, ready>>
    BY <1>3 DEF MainAccept
  <2>2. hpc \in [Clients -> HandlerStage] /\ hcell \in [Clients -> Cell]
    BY DEF TypeOK
  <2>3. SlotExclusive' /\ Occupied' /\ Accepting'
    BY <2>1, <2>2
  <2>4. ListedServed'
    BY <2>1, <2>2
  <2>5. QED BY <2>3, <2>4
<1>4. ASSUME NEW c \in Clients, MainSpawn(c) PROVE IInv'
  <2>1. /\ mpc = "spawn" /\ mpc' = "scan" /\ hpc[c] = "accepted"
        /\ hpc' = [hpc EXCEPT ![c] = "start"]
        /\ active' = [active EXCEPT ![mcell] = TRUE]
        /\ UNCHANGED <<mcell, hcell, ready>>
    BY <1>4 DEF MainSpawn
  <2>2. hpc \in [Clients -> HandlerStage] /\ active \in [Cell -> BOOLEAN]
        /\ mcell \in Cell
    BY DEF TypeOK
  <2>3. SlotExclusive' /\ Occupied' /\ Accepting'
    BY <2>1, <2>2 DEF Cell
  <2>4. ListedServed'
    BY <2>1, <2>2
  <2>5. QED BY <2>3, <2>4
<1>5. CASE MainExit
  BY <1>5 DEF MainExit, tableVars, handlerVars
<1>6. QED BY <1>1, <1>2, <1>3, <1>4, <1>5 DEF MainStep

LEMMA HandlerInv ==
  ASSUME IInv, TypeOK', NEW c \in Clients, HandlerStep(c)
  PROVE  IInv'
<1> USE DEF IInv, SlotExclusive, Serving, Occupied, Accepting, ListedServed, Showing
<1>1. hpc \in [Clients -> HandlerStage] /\ hcell \in [Clients -> Cell]
      /\ active \in [Cell -> BOOLEAN] /\ ready \in [Cell -> BOOLEAN]
  BY DEF TypeOK
<1>2. ASSUME UNCHANGED <<mpc, mcell, hcell, active, ready>>,
             NEW stage \in HandlerStage \ {"none", "accepted", "exit"},
             hpc' = [hpc EXCEPT ![c] = stage],
             hpc[c] \notin {"none", "accepted", "exit"},
             hpc[c] \in Showing => stage \in Showing
      PROVE  IInv'
  BY <1>1, <1>2
<1>3. CASE \/ HandlerStart(c) \/ HandlerCall(c) \/ HandlerRecvError(c)
           \/ HandlerRecv(c) \/ HandlerSetIdent(c) \/ HandlerAck(c)
           \/ HandlerClose(c) \/ HandlerFree(c)
  BY <1>2, <1>3 DEF HandlerStage, HandlerStart, HandlerCall, HandlerRecvError,
     HandlerRecv, HandlerSetIdent, HandlerAck, HandlerClose, HandlerFree,
     mainVars, tableVars
<1>4. CASE HandlerPublish(c)
  <2>1. /\ UNCHANGED <<mpc, mcell, hcell, active>> /\ hpc[c] = "publish"
        /\ hpc' = [hpc EXCEPT ![c] = "ack"]
        /\ ready' = [ready EXCEPT ![hcell[c]] = TRUE]
    BY <1>4 DEF HandlerPublish, mainVars
  <2>2. SlotExclusive' /\ Occupied' /\ Accepting'
    BY <1>1, <2>1
  <2>3. ListedServed'
    BY <1>1, <2>1 DEF Cell
  <2>4. QED BY <2>2, <2>3
<1>5. CASE HandlerUnready(c)
  <2>1. /\ UNCHANGED <<mpc, mcell, hcell, active>> /\ hpc[c] = "unready"
        /\ hpc' = [hpc EXCEPT ![c] = "close"]
        /\ ready' = [ready EXCEPT ![hcell[c]] = FALSE]
    BY <1>5 DEF HandlerUnready, mainVars
  <2>2. SlotExclusive' /\ Occupied' /\ Accepting'
    BY <1>1, <2>1
  <2>3. ListedServed'
    BY <1>1, <2>1 DEF Cell
  <2>4. QED BY <2>2, <2>3
<1>6. CASE HandlerDeactivate(c)
  <2>1. /\ UNCHANGED <<mpc, mcell, hcell, ready>> /\ hpc[c] = "deactivate"
        /\ hpc' = [hpc EXCEPT ![c] = "exit"]
        /\ active' = [active EXCEPT ![hcell[c]] = FALSE]
    BY <1>6 DEF HandlerDeactivate, mainVars
  <2>2. SlotExclusive' /\ Accepting' /\ ListedServed'
    BY <1>1, <2>1
  <2>3. Occupied'
    BY <1>1, <2>1 DEF Cell
  <2>4. QED BY <2>2, <2>3
<1>7. QED BY <1>3, <1>4, <1>5, <1>6 DEF HandlerStep

LEMMA OtherStepsOwn ==
  ASSUME \/ \E c \in Clients : ClientStep(c) \/ UpdaterStep(c)
         \/ UNCHANGED vars
  PROVE  UNCHANGED ownVars
  BY DEF ClientStep, Connect, Login, Leave, Vanish, UpdaterStep, UpdaterStart,
         UpdaterCheck, UpdaterCount, UpdaterScan, UpdaterIdent, UpdaterAddr,
         UpdaterTarget, UpdaterSend, ownVars, vars, tableVars, mainVars,
         handlerVars

LEMMA Inductive == Spec => []IInv
<1>1. Init => IInv
  BY InitType DEF Init, IInv, SlotExclusive, Serving, Occupied, Accepting,
                  ListedServed, Slot, Cell
<1>2. IInv /\ TypeOK' /\ [Next]_vars => IInv'
  BY OwnUnchanged, OtherStepsOwn, MainInv, HandlerInv DEF Next
<1>3. QED BY <1>1, <1>2, TypeCorrect, PTL DEF Spec

\* No two connections ever share an entry of onlineClients, and main never
\* clears or accepts into an entry that is being served.
THEOREM Exclusive == Spec => []SlotExclusive
<1>1. IInv => SlotExclusive
  BY DEF IInv
<1>2. QED BY <1>1, Inductive, PTL

-----------------------------------------------------------------------------
(* The table implements the directory.                                     *)

LEMMA HoldingMoves ==
  ASSUME TypeOK, TypeOK', NEW c \in Clients, NEW stage, NEW cell \in Cell,
         hpc' = [hpc EXCEPT ![c] = stage], hcell' = [hcell EXCEPT ![c] = cell]
  PROVE  Holding' = [Holding EXCEPT ![c] =
                       IF stage \notin {"none", "exit"} /\ cell \in Slot
                       THEN cell ELSE Below]
  BY DEF TypeOK, Holding, Serving

LEMMA StageStutters ==
  ASSUME TypeOK, NEW c \in Clients, NEW stage,
         hpc' = [hpc EXCEPT ![c] = stage], UNCHANGED hcell,
         hpc[c] \notin {"none", "exit"}, stage \notin {"none", "exit"}
  PROVE  UNCHANGED Holding
  BY DEF TypeOK, Holding, Serving

LEMMA MainRefines ==
  ASSUME IInv, IInv', MainStep
  PROVE  [Directory!Next]_(Directory!vars)
<1> USE DEF Directory!vars
<1>1. TypeOK /\ TypeOK' /\ mcell \in Cell /\ ready \in [Cell -> BOOLEAN]
  BY DEF IInv, TypeOK
<1>2. CASE MainScan
  BY <1>2 DEF MainScan, tableVars, handlerVars, Holding, Serving, Listed
<1>3. CASE MainClear
  <2>1. UNCHANGED Holding
    BY <1>3 DEF MainClear, handlerVars, Holding, Serving
  <2>2. mcell \in Slot => ~ready[mcell]
    BY <1>3 DEF MainClear, IInv, ListedServed, SlotExclusive, Serving, Showing
  <2>3. UNCHANGED Listed
    BY <1>1, <1>3, <2>2 DEF MainClear, Listed, Cell
  <2>4. QED BY <2>1, <2>3
<1>4. ASSUME NEW c \in Clients, MainAccept(c)
      PROVE  [Directory!Next]_(Directory!vars)
  <2>1. /\ mpc = "accept" /\ hpc[c] = "none"
        /\ hpc' = [hpc EXCEPT ![c] = "accepted"]
        /\ hcell' = [hcell EXCEPT ![c] = mcell]
        /\ UNCHANGED ready
    BY <1>4 DEF MainAccept
  <2>2. Holding' = [Holding EXCEPT ![c] = IF mcell \in Slot THEN mcell ELSE Below]
    BY <1>1, <2>1, HoldingMoves
  <2>3. Holding[c] = Below /\ UNCHANGED Listed
    BY <2>1 DEF Holding, Serving, Listed
  <2>4. CASE mcell \in Slot
    <3>1. \A d \in Clients : Holding[d] # mcell
      BY <2>1, <2>4 DEF Holding, IInv, SlotExclusive, Serving, Below, Slot
    <3>2. Directory!Claim(c)
      BY <2>2, <2>3, <2>4, <3>1 DEF Directory!Claim
    <3>3. QED BY <3>2 DEF Directory!Next
  <2>5. CASE mcell \notin Slot
    <3>1. UNCHANGED Holding
      BY <2>2, <2>3, <2>5 DEF Holding
    <3>2. QED BY <2>3, <3>1
  <2>6. QED BY <2>4, <2>5
<1>5. ASSUME NEW c \in Clients, MainSpawn(c) PROVE UNCHANGED Directory!vars
  <2>1. UNCHANGED Listed
    BY <1>5 DEF MainSpawn, Listed
  <2>2. UNCHANGED Holding
    BY <1>1, <1>5, StageStutters DEF MainSpawn
  <2>3. QED BY <2>1, <2>2
<1>6. CASE MainExit
  BY <1>6 DEF MainExit, tableVars, handlerVars, Holding, Serving, Listed
<1>7. QED BY <1>2, <1>3, <1>4, <1>5, <1>6 DEF MainStep

LEMMA HandlerRefines ==
  ASSUME IInv, IInv', NEW c \in Clients, HandlerStep(c)
  PROVE  [Directory!Next]_(Directory!vars)
<1> USE DEF Directory!vars
<1>1. /\ TypeOK /\ TypeOK' /\ hcell[c] \in Cell /\ hcell = [hcell EXCEPT ![c] = hcell[c]]
      /\ ready \in [Cell -> BOOLEAN]
  BY DEF IInv, TypeOK
<1>2. CASE \/ HandlerStart(c) \/ HandlerCall(c) \/ HandlerRecvError(c)
           \/ HandlerRecv(c) \/ HandlerSetIdent(c) \/ HandlerAck(c)
           \/ HandlerClose(c) \/ HandlerFree(c)
  <2>1. UNCHANGED Listed
    BY <1>2 DEF Listed, HandlerStart, HandlerCall, HandlerRecvError, HandlerRecv,
       HandlerSetIdent, HandlerAck, HandlerClose, HandlerFree, tableVars
  <2>2. UNCHANGED Holding
    <3>1. hpc' = [hpc EXCEPT ![c] = hpc'[c]] /\ hpc'[c] \notin {"none", "exit"}
      BY <1>1, <1>2 DEF TypeOK, HandlerStart, HandlerCall, HandlerRecvError, HandlerRecv,
         HandlerSetIdent, HandlerAck, HandlerClose, HandlerFree
    <3>2. UNCHANGED hcell /\ hpc[c] \notin {"none", "exit"}
      BY <1>2 DEF HandlerStart, HandlerCall, HandlerRecvError, HandlerRecv,
         HandlerSetIdent, HandlerAck, HandlerClose, HandlerFree
    <3>3. QED BY <1>1, <3>1, <3>2, StageStutters
  <2>3. QED BY <2>1, <2>2
<1>3. CASE HandlerPublish(c) \/ HandlerUnready(c)
  <2>1. UNCHANGED Holding
    BY <1>1, <1>3, StageStutters DEF HandlerPublish, HandlerUnready
  <2>2. CASE hcell[c] \notin Slot
    <3>1. UNCHANGED Listed
      BY <1>1, <1>3, <2>2 DEF HandlerPublish, HandlerUnready, Listed, Cell
    <3>2. QED BY <2>1, <3>1
  <2>3. CASE hcell[c] \in Slot
    <3>1. Holding[c] = hcell[c] /\ Holding[c] # Below
      BY <1>3, <2>3 DEF HandlerPublish, HandlerUnready, Holding, Serving, Slot, Below
    <3>2. CASE HandlerPublish(c)
      <4>1. Listed' = Listed \cup {Holding[c]}
        BY <1>1, <2>3, <3>1, <3>2 DEF HandlerPublish, Listed, Cell
      <4>2. QED BY <2>1, <3>1, <4>1 DEF Directory!List, Directory!Next
    <3>3. CASE HandlerUnready(c)
      <4>1. Listed' = Listed \ {Holding[c]}
        BY <1>1, <2>3, <3>1, <3>3 DEF HandlerUnready, Listed, Cell
      <4>2. QED BY <2>1, <3>1, <4>1 DEF Directory!Unlist, Directory!Next
    <3>4. QED BY <1>3, <3>2, <3>3
  <2>4. QED BY <2>2, <2>3
<1>4. CASE HandlerDeactivate(c)
  <2>1. /\ hpc[c] = "deactivate" /\ hpc' = [hpc EXCEPT ![c] = "exit"]
        /\ UNCHANGED <<hcell, ready>>
    BY <1>4 DEF HandlerDeactivate
  <2>2. Holding' = [Holding EXCEPT ![c] = Below] /\ UNCHANGED Listed
    BY <1>1, <2>1, HoldingMoves DEF Listed
  <2>3. CASE hcell[c] \in Slot
    <3>1. Holding[c] = hcell[c] /\ Holding[c] # Below
      BY <2>1, <2>3 DEF Holding, Serving, Slot, Below
    <3>2. Holding[c] \notin Listed
      BY <2>1, <2>3, <3>1 DEF Listed, IInv, ListedServed, SlotExclusive, Serving, Showing
    <3>3. QED BY <2>2, <3>1, <3>2 DEF Directory!Release, Directory!Next
  <2>4. CASE hcell[c] \notin Slot
    <3>1. UNCHANGED Holding
      BY <2>2, <2>4 DEF Holding
    <3>2. QED BY <2>2, <3>1
  <2>5. QED BY <2>3, <2>4
<1>5. QED BY <1>2, <1>3, <1>4 DEF HandlerStep

\* Whatever the interleaving, the table behaves as the directory: an entry is
\* claimed when nobody holds it, shown by its holder only, and given back
\* after it was taken off the list.
THEOREM Refinement == Spec => ImplementsDirectory
<1>1. Init => Directory!Init
  BY DEF Init, Directory!Init, Holding, Serving, Listed, Slot, Cell
<1>2. ASSUME IInv, IInv', [Next]_vars
      PROVE  [Directory!Next]_(Directory!vars)
  <2>1. CASE UNCHANGED vars \/ \E c \in Clients : ClientStep(c) \/ UpdaterStep(c)
    <3>1. UNCHANGED <<hpc, hcell, ready>>
      BY <2>1, OtherStepsOwn DEF ownVars
    <3>2. UNCHANGED <<Holding, Listed>>
      BY <3>1 DEF Holding, Serving, Listed
    <3>3. QED BY <3>2 DEF Directory!vars
  <2>2. QED BY <1>2, <2>1, MainRefines, HandlerRefines DEF Next
<1>3. QED
  BY <1>1, <1>2, Inductive, PTL DEF Spec, ImplementsDirectory, Directory!Spec

-----------------------------------------------------------------------------
(* Streams: whose connection a handler reads from.                         *)

\* Until its handler closes it, the descriptor in the entry of c is open on
\* c's connection; what is published in the entry is then c's.
Owner ==
  InTable => \A c \in Clients :
    /\ hpc[c] \notin {"none", "free", "deactivate", "exit"} =>
         socket[hcell[c]] \in Fd /\ file[socket[hcell[c]]] = c
    /\ hpc[c] \in {"recv", "setIdent", "publish"} => hconn[c] = c
    /\ hpc[c] = "publish" => ident[hcell[c]] = c
    /\ hpc[c] \in Showing /\ ready[hcell[c]] => ident[hcell[c]] = c /\ addr[hcell[c]] = c

\* A ready entry has its strings, whoever's they are.
Filled ==
  /\ \A s \in Slot : ready[s] => ident[s] \in Clients /\ addr[s] \in Clients
  /\ \A c \in Clients : hpc[c] = "publish" /\ hcell[c] \in Slot => ident[hcell[c]] \in Clients

LEMMA TableTypes ==
  ASSUME TypeOK
  PROVE  /\ hpc \in [Clients -> HandlerStage] /\ hcell \in [Clients -> Cell] /\ mcell \in Cell
         /\ socket \in [Cell -> Fd \cup {NoFd}] /\ ready \in [Cell -> BOOLEAN]
         /\ ident \in [Cell -> Text] /\ addr \in [Cell -> Text]
         /\ hconn \in [Clients -> Clients \cup {NoClient}]
         /\ file \in [Fd -> Clients \cup {NoClient}]
  BY DEF TypeOK

LEMMA MainOwner ==
  ASSUME IInv, SenderKnown, Owner, Filled, MainStep
  PROVE  Owner' /\ Filled'
<1> USE DEF Owner, Filled, InTable, Showing
<1>1. TypeOK /\ SlotExclusive
  BY DEF IInv
<1>2. CASE MainScan \/ MainExit
  BY <1>2 DEF MainScan, MainExit, tableVars, kernelVars, handlerVars
<1>3. CASE MainClear
  <2>1. /\ socket' = [socket EXCEPT ![mcell] = NoFd] /\ ready' = [ready EXCEPT ![mcell] = FALSE]
        /\ ident' = [ident EXCEPT ![mcell] = Null] /\ addr' = [addr EXCEPT ![mcell] = Null]
        /\ UNCHANGED <<file, hpc, hcell, hconn, mcell>> /\ mpc = "clear"
    BY <1>3 DEF MainClear, kernelVars, handlerVars
  <2>2. ASSUME NEW c \in Clients, Serving(c), hcell[c] \in Slot PROVE hcell[c] # mcell
    BY <1>1, <2>1, <2>2, TableTypes DEF SlotExclusive, Cell, Slot, Below
  <2>3. Owner'
    BY <1>1, <2>1, <2>2, TableTypes DEF Serving
  <2>4. Filled'
    BY <1>1, <2>1, <2>2, TableTypes DEF Serving, Cell
  <2>5. QED BY <2>3, <2>4
<1>4. ASSUME NEW c \in Clients, MainAccept(c) PROVE Owner' /\ Filled'
  <2>1. PICK f \in Fd : /\ file[f] = NoClient
                        /\ file' = [file EXCEPT ![f] = c]
                        /\ socket' = [socket EXCEPT ![mcell] = f]
    BY <1>4 DEF MainAccept
  <2>2. /\ hpc[c] = "none" /\ mpc = "accept" /\ hpc' = [hpc EXCEPT ![c] = "accepted"]
        /\ hcell' = [hcell EXCEPT ![c] = mcell] /\ UNCHANGED <<ready, ident, addr, hconn, mcell>>
    BY <1>4 DEF MainAccept
  <2>3. Filled'
    BY <1>1, <2>2, TableTypes
  <2>4. ASSUME InTable' PROVE InTable /\ mcell \in Slot
    BY <1>1, <2>2, <2>4, TableTypes
  <2>5. ASSUME InTable', NEW d \in Clients \ {c}, hpc[d] \notin {"none", "exit"}
        PROVE  hcell[d] # mcell
    BY <1>1, <2>2, <2>4, <2>5 DEF SlotExclusive, Serving
  <2>6. Owner'
    BY <1>1, <2>1, <2>2, <2>4, <2>5, TableTypes
  <2>7. QED BY <2>3, <2>6
<1>5. ASSUME NEW c \in Clients, MainSpawn(c) PROVE Owner' /\ Filled'
  <2>1. /\ hpc[c] = "accepted" /\ hpc' = [hpc EXCEPT ![c] = "start"]
        /\ UNCHANGED <<socket, ready, ident, addr, file, hcell, hconn>>
    BY <1>5 DEF MainSpawn, kernelVars
  <2>2. QED BY <1>1, <2>1, TableTypes
<1>6. QED BY <1>2, <1>3, <1>4, <1>5 DEF MainStep

LEMMA HandlerOwner ==
  ASSUME IInv, SenderKnown, Owner, Filled, NEW c \in Clients, HandlerStep(c)
  PROVE  Owner' /\ Filled'
<1> USE DEF Owner, Filled, InTable, Showing
<1>1. TypeOK /\ SlotExclusive /\ ListedServed
  BY DEF IInv
<1>2. ASSUME NEW d \in Clients \ {c}, Serving(c), Serving(d), hcell[d] \in Slot
      PROVE  hcell[d] # hcell[c]
  BY <1>1, <1>2 DEF SlotExclusive
<1>3. CASE HandlerStart(c) \/ HandlerRecvError(c) \/ HandlerRecv(c) \/ HandlerAck(c)
  <2>1. UNCHANGED <<socket, ready, ident, addr, file, hcell, hconn>>
    BY <1>3 DEF HandlerStart, HandlerRecvError, HandlerRecv, HandlerAck, tableVars, kernelVars
  <2>2. PICK stage \in {"call", "unready", "setIdent"} :
          /\ hpc' = [hpc EXCEPT ![c] = stage]
          /\ stage = "setIdent" => hpc[c] = "recv"
          /\ hpc[c] \in {"start", "recv", "ack"}
          /\ hpc[c] = "start" => ~ (hcell[c] \in Slot /\ ready[hcell[c]])
    <3>1. hpc[c] = "start" => ~ (hcell[c] \in Slot /\ ready[hcell[c]])
      BY <1>1, <1>2 DEF ListedServed, Serving
    <3>2. QED BY <1>3, <3>1 DEF HandlerStart, HandlerRecvError, HandlerRecv, HandlerAck
  <2>3. QED BY <1>1, <2>1, <2>2, TableTypes
<1>4. CASE HandlerCall(c)
  <2>1. /\ UNCHANGED <<socket, ready, ident, addr, file, hcell>> /\ hpc[c] = "call"
        /\ hconn' = [hconn EXCEPT ![c] = Peer(socket[hcell[c]])]
        /\ hpc' = [hpc EXCEPT ![c] = "recv"]
    BY <1>4 DEF HandlerCall, tableVars, kernelVars
  <2>2. QED BY <1>1, <2>1, TableTypes DEF Peer
<1>5. CASE HandlerSetIdent(c)
  <2>1. /\ UNCHANGED <<socket, ready, addr, file, hcell, hconn>> /\ hpc[c] = "setIdent"
        /\ ident' = [ident EXCEPT ![hcell[c]] = hconn[c]]
        /\ hpc' = [hpc EXCEPT ![c] = "publish"]
    BY <1>5 DEF HandlerSetIdent, kernelVars
  <2>2. hconn[c] \in Clients
    BY <2>1 DEF SenderKnown
  <2>3. Owner'
    BY <1>1, <1>2, <2>1, TableTypes DEF Serving
  <2>4. Filled'
    BY <1>1, <1>2, <2>1, <2>2, TableTypes DEF Serving, Cell
  <2>5. QED BY <2>3, <2>4
<1>6. CASE HandlerPublish(c)
  <2>1. /\ UNCHANGED <<socket, ident, file, hcell, hconn>> /\ hpc[c] = "publish"
        /\ addr' = [addr EXCEPT ![hcell[c]] = hconn[c]]
        /\ ready' = [ready EXCEPT ![hcell[c]] = TRUE]
        /\ hpc' = [hpc EXCEPT ![c] = "ack"]
    BY <1>6 DEF HandlerPublish, kernelVars
  <2>2. hconn[c] \in Clients
    BY <2>1 DEF SenderKnown
  <2>3. Owner'
    BY <1>1, <1>2, <2>1, TableTypes DEF Serving
  <2>4. Filled'
    BY <1>1, <1>2, <2>1, <2>2, TableTypes DEF Serving, Cell
  <2>5. QED BY <2>3, <2>4
<1>7. CASE HandlerUnready(c)
  <2>1. /\ UNCHANGED <<socket, ident, addr, file, hcell, hconn>> /\ hpc[c] = "unready"
        /\ ready' = [ready EXCEPT ![hcell[c]] = FALSE]
        /\ hpc' = [hpc EXCEPT ![c] = "close"]
    BY <1>7 DEF HandlerUnready, kernelVars
  <2>2. QED BY <1>1, <1>2, <2>1, TableTypes DEF Serving, Cell
<1>8. CASE HandlerClose(c)
  <2>1. /\ UNCHANGED <<socket, ident, ready, addr, hcell, hconn>> /\ hpc[c] = "close"
        /\ file' = IF socket[hcell[c]] \in Fd
                   THEN [file EXCEPT ![socket[hcell[c]]] = NoClient] ELSE file
        /\ hpc' = [hpc EXCEPT ![c] = "free"]
    BY <1>8 DEF HandlerClose, tableVars
  <2>2. Filled'
    BY <1>1, <2>1, TableTypes
  <2>3. Owner'
    BY <1>1, <2>1, TableTypes
  <2>4. QED BY <2>2, <2>3
<1>9. CASE HandlerFree(c)
  <2>1. /\ UNCHANGED <<ready, file, hcell, hconn>> /\ hpc[c] = "free"
        /\ ident' = [ident EXCEPT ![hcell[c]] = AfterFree(@)]
        /\ addr' = [addr EXCEPT ![hcell[c]] = AfterFree(@)]
        /\ socket' = [socket EXCEPT ![hcell[c]] = NoFd]
        /\ hpc' = [hpc EXCEPT ![c] = "deactivate"]
    BY <1>9 DEF HandlerFree, kernelVars
  <2>2. hcell[c] \in Slot => ~ready[hcell[c]]
    BY <1>1, <1>2, <2>1 DEF ListedServed, Serving
  <2>3. Filled'
    BY <1>1, <1>2, <2>1, <2>2, TableTypes DEF Serving, Cell
  <2>4. Owner'
    BY <1>1, <1>2, <2>1, TableTypes DEF Serving
  <2>5. QED BY <2>3, <2>4
<1>10. CASE HandlerDeactivate(c)
  <2>1. /\ UNCHANGED <<socket, ready, ident, addr, file, hcell>> /\ hpc[c] = "deactivate"
        /\ hpc' = [hpc EXCEPT ![c] = "exit"] /\ hconn' = [hconn EXCEPT ![c] = NoClient]
    BY <1>10 DEF HandlerDeactivate, kernelVars
  <2>2. QED BY <1>1, <2>1, TableTypes
<1>11. QED
  BY <1>3, <1>4, <1>5, <1>6, <1>7, <1>8, <1>9, <1>10 DEF HandlerStep

LEMMA OtherStepsOwner ==
  ASSUME \/ \E c \in Clients : ClientStep(c) \/ UpdaterStep(c)
         \/ UNCHANGED vars
  PROVE  UNCHANGED <<socket, ready, ident, addr, file, hpc, hcell, hconn>>
  BY DEF ClientStep, Connect, Login, Leave, Vanish, UpdaterStep, UpdaterStart,
         UpdaterCheck, UpdaterCount, UpdaterScan, UpdaterIdent, UpdaterAddr,
         UpdaterTarget, UpdaterSend, vars, tableVars, kernelVars, handlerVars

LEMMA StreamsInductive == Spec => [](IInv /\ SenderKnown /\ Owner /\ Filled)
<1>1. Init => Owner /\ Filled
  BY DEF Init, Owner, Filled, InTable, Showing, Cell
<1>2. /\ Owner /\ Filled /\ UNCHANGED <<socket, ready, ident, addr, file, hpc, hcell, hconn>>
      => Owner' /\ Filled'
  BY DEF Owner, Filled, InTable, Showing
<1>3. IInv /\ SenderKnown /\ Owner /\ Filled /\ [Next]_vars => Owner' /\ Filled'
  BY <1>2, OtherStepsOwner, MainOwner, HandlerOwner DEF Next
<1>4. QED BY <1>1, <1>3, Inductive, TypeCorrect, PTL DEF Spec

\* As long as the table has an entry for everyone, no login or disconnection
\* is charged to another client, although recv reads the descriptor from the
\* unlocked entry at each call.
THEOREM OwnStreams == Spec => []OwnStream
<1>1. Owner /\ TypeOK => OwnStream
  BY DEF Owner, OwnStream, InTable, Serving, Leaving, Peer
<1>2. QED BY <1>1, StreamsInductive, TypeCorrect, PTL

-----------------------------------------------------------------------------
(* Lists: what the two passes of updateClient make of a table that changes *)
(* under them.  A ready entry stays what it is until its client leaves.    *)

NobodyLeaves == \A d \in Clients : ~Leaving(d)

\* What a thread that saw client x in entry s can rely on.
Shown(x, s) == x \in Clients /\ (Leaving(x) \/ (hcell[x] = s /\ hpc[x] \in Showing /\ ready[s]))

\* The entry of the pass that is being written, and those written.
Seen ==
  InTable => \A c \in Clients :
    /\ upd[c].pc \in {"ident", "addr"} => Shown(upd[c].seen, upd[c].i)
    /\ upd[c].pc = "addr" => Leaving(upd[c].seen) \/ upd[c].ident = upd[c].seen
    /\ \A k \in DOMAIN upd[c].list :
         LET e == upd[c].list[k]
         IN  e.seen \in Clients /\ (Leaving(e.seen) \/ (e.ident = e.seen /\ e.addr = e.seen))

LEMMA TableMoves ==
  ASSUME IInv, [Next]_vars
  PROVE  /\ \A x \in Clients : Leaving(x) => Leaving(x)'
         /\ \A x \in Clients : \A s \in Slot :
              hcell[x] = s /\ hpc[x] \in Showing /\ ready[s]
                => Leaving(x)' \/ (hcell'[x] = s /\ hpc'[x] \in Showing /\ ready'[s])
         /\ InTable' => InTable
<1> DEFINE Goal == /\ \A x \in Clients : Leaving(x) => Leaving(x)'
                   /\ \A x \in Clients : \A s \in Slot :
                        hcell[x] = s /\ hpc[x] \in Showing /\ ready[s]
                          => Leaving(x)' \/ (hcell'[x] = s /\ hpc'[x] \in Showing /\ ready'[s])
                   /\ InTable' => InTable
<1> USE DEF Leaving, InTable, Showing
<1>1. TypeOK /\ SlotExclusive
  BY DEF IInv
<1>2. ASSUME UNCHANGED <<hpc, hcell, ready>> PROVE Goal
  BY <1>2
<1>3. CASE MainScan \/ MainExit
  BY <1>2, <1>3 DEF MainScan, MainExit, tableVars, handlerVars
<1>4. CASE MainClear
  <2>1. /\ ready' = [ready EXCEPT ![mcell] = FALSE] /\ UNCHANGED <<hpc, hcell>> /\ mpc = "clear"
    BY <1>4 DEF MainClear, handlerVars
  <2>2. QED BY <1>1, <2>1, TableTypes DEF SlotExclusive, Serving, Cell
<1>5. ASSUME NEW c \in Clients, MainAccept(c) PROVE Goal
  <2>1. /\ hpc[c] = "none" /\ hpc' = [hpc EXCEPT ![c] = "accepted"]
        /\ hcell' = [hcell EXCEPT ![c] = mcell] /\ UNCHANGED ready
    BY <1>5 DEF MainAccept
  <2>2. QED BY <1>1, <2>1, TableTypes
<1>6. ASSUME NEW c \in Clients, MainSpawn(c) PROVE Goal
  <2>1. /\ hpc[c] = "accepted" /\ hpc' = [hpc EXCEPT ![c] = "start"] /\ UNCHANGED <<hcell, ready>>
    BY <1>6 DEF MainSpawn
  <2>2. QED BY <1>1, <2>1, TableTypes
<1>7. ASSUME NEW c \in Clients, HandlerStep(c) PROVE Goal
  <2>1. PICK stage \in HandlerStage :
          /\ hpc' = [hpc EXCEPT ![c] = stage] /\ hpc[c] \notin {"none", "accepted", "exit"}
          /\ stage \notin {"none", "accepted", "start"}
          /\ hpc[c] \in {"close", "free", "deactivate"} => stage \in {"free", "deactivate", "exit"}
    BY <1>7 DEF HandlerStep, HandlerStart, HandlerCall, HandlerRecvError, HandlerRecv,
       HandlerSetIdent, HandlerPublish, HandlerAck, HandlerUnready, HandlerClose, HandlerFree,
       HandlerDeactivate, HandlerStage
  <2>2. UNCHANGED hcell
    BY <1>7 DEF HandlerStep, HandlerStart, HandlerCall, HandlerRecvError, HandlerRecv,
       HandlerSetIdent, HandlerPublish, HandlerAck, HandlerUnready, HandlerClose, HandlerFree,
       HandlerDeactivate
  <2>3. CASE HandlerUnready(c)
    <3>1. /\ ready' = [ready EXCEPT ![hcell[c]] = FALSE] /\ hpc' = [hpc EXCEPT ![c] = "close"]
          /\ hpc[c] = "unready"
      BY <2>3 DEF HandlerUnready
    <3>2. QED BY <1>1, <2>2, <3>1, TableTypes DEF SlotExclusive, Serving, Cell
  <2>4. CASE ~HandlerUnready(c)
    <3>1. ready' = ready \/ ready' = [ready EXCEPT ![hcell[c]] = TRUE]
      BY <1>7, <2>4 DEF HandlerStep, HandlerStart, HandlerCall, HandlerRecvError, HandlerRecv,
         HandlerSetIdent, HandlerPublish, HandlerAck, HandlerClose, HandlerFree,
         HandlerDeactivate, tableVars
    <3>2. \A s \in Slot : ready[s] => ready'[s]
      BY <1>1, <3>1, TableTypes DEF Cell
    <3>3. hpc[c] \in Showing => stage \in Showing \cup {"close"}
      BY <1>1, <1>7, <2>1, <2>4, TableTypes DEF HandlerStep, HandlerStart, HandlerCall,
         HandlerRecvError, HandlerRecv, HandlerSetIdent, HandlerPublish, HandlerAck,
         HandlerClose, HandlerFree, HandlerDeactivate
    <3>4. QED BY <1>1, <2>1, <2>2, <3>2, <3>3, TableTypes
  <2>5. QED BY <2>3, <2>4
<1>8. CASE UNCHANGED vars \/ \E c \in Clients : ClientStep(c) \/ UpdaterStep(c)
  BY <1>2, <1>8, OtherStepsOwner
<1>9. QED BY <1>3, <1>4, <1>5, <1>6, <1>7, <1>8 DEF Next, MainStep

LEMMA ShownStays ==
  ASSUME IInv, [Next]_vars, NEW x, NEW s \in Slot, Shown(x, s)
  PROVE  Shown(x, s)'
  BY TableMoves DEF Shown

\* While nobody leaves, the table only gains entries.
LEMMA ReadyStays ==
  ASSUME IInv, [Next]_vars, NobodyLeaves'
  PROVE  NobodyLeaves /\ \A s \in Slot : ready[s] => ready'[s]
<1>1. NobodyLeaves
  BY TableMoves DEF NobodyLeaves
<1>2. ASSUME NEW s \in Slot, ready[s] PROVE ready'[s]
  <2>1. PICK c \in Clients : hcell[c] = s /\ hpc[c] \in Showing
    BY <1>2 DEF IInv, ListedServed
  <2>2. QED BY <1>2, <2>1, TableMoves DEF NobodyLeaves
<1>3. QED BY <1>1, <1>2

\* Other threads leave an updater alone, except for its start.
LEMMA UpdaterAlone ==
  ASSUME TypeOK, [Next]_vars, NEW c \in Clients, ~UpdaterStep(c)
  PROVE  upd'[c] = upd[c] \/ upd'[c] = [upd[c] EXCEPT !.pc = "start"]
<1>1. upd \in [Clients -> Local]
  BY DEF TypeOK, Local
<1>2. ASSUME NEW d \in Clients \ {c}, UpdaterStep(d) PROVE upd'[c] = upd[c]
  BY <1>1, <1>2 DEF UpdaterStep, UpdaterStart, UpdaterCheck, UpdaterCount, UpdaterScan,
     UpdaterIdent, UpdaterAddr, UpdaterTarget, UpdaterSend
<1>3. ASSUME NEW d \in Clients, HandlerStep(d)
      PROVE  upd'[c] = upd[c] \/ upd'[c] = [upd[c] EXCEPT !.pc = "start"]
  BY <1>1, <1>3 DEF HandlerStep, HandlerStart, HandlerCall, HandlerRecvError, HandlerRecv,
     HandlerSetIdent, HandlerPublish, HandlerAck, HandlerUnready, HandlerClose, HandlerFree,
     HandlerDeactivate
<1>4. ASSUME NEW d \in Clients, ClientStep(d) PROVE upd' = upd
  BY <1>4 DEF ClientStep, Connect, Login, Leave, Vanish
<1>5. MainStep => upd' = upd
  BY DEF MainStep, MainScan, MainClear, MainAccept, MainExit, MainSpawn
<1>6. UNCHANGED vars => upd' = upd
  BY DEF vars
<1>7. QED BY <1>2, <1>3, <1>4, <1>5, <1>6 DEF Next

LEMMA NextEntryMoves ==
  ASSUME NEW u \in Local
  PROVE  LET w == NextEntry(u) IN
         /\ w \in Local /\ w.list = u.list /\ w.n = u.n
         /\ w.i = (IF u.i < MaxOnlineUsers THEN u.i + 1 ELSE u.i)
         /\ w.pc = (IF u.i < MaxOnlineUsers THEN "scan" ELSE "target")
<1>1. u.i \in Slot
  BY DEF Local
<1>2. CASE u.i < MaxOnlineUsers
  <2>1. u.i + 1 \in Slot
    BY <1>1, <1>2 DEF Slot
  <2>2. NextEntry(u) = [u EXCEPT !.i = u.i + 1, !.pc = "scan"]
    BY <1>2 DEF NextEntry
  <2>3. QED BY <1>2, <2>1, <2>2 DEF Local, UpdaterStage
<1>3. CASE ~(u.i < MaxOnlineUsers)
  <2>1. NextEntry(u) = [u EXCEPT !.pc = "target"]
    BY <1>3 DEF NextEntry
  <2>2. QED BY <1>3, <2>1 DEF Local, UpdaterStage
<1>4. QED BY <1>2, <1>3

\* What an updater makes of its locals, step by step.
LEMMA UpdaterMoves ==
  ASSUME TypeOK, NEW c \in Clients, UpdaterStep(c)
  PROVE  LET u == upd[c]  v == upd'[c] IN
         /\ u \in Local
         /\ \/ v.list = << >> /\ v.n = 0 /\ v.i = 1 /\ v.pc = "check"
            \/ u.pc = "check" /\ v.pc \in {"count", "exit"} /\ v.list = u.list
                 /\ v.n = u.n /\ v.i = u.i
            \/ /\ u.pc = "count" /\ v.list = u.list
               /\ v.n = u.n + (IF ready[u.i] THEN 1 ELSE 0)
               /\ \/ u.i < MaxOnlineUsers /\ v.i = u.i + 1 /\ v.pc = "count"
                  \/ u.i = MaxOnlineUsers /\ v.i = 1 /\ v.pc = IF v.n = 0 THEN "check" ELSE "scan"
            \/ /\ u.pc = "scan" /\ ready[u.i] /\ v.pc = "ident" /\ v.seen = ident[u.i]
               /\ v.list = u.list /\ v.n = u.n /\ v.i = u.i
            \/ /\ u.pc = "scan" /\ ~ready[u.i] /\ v.list = u.list /\ v.n = u.n
               /\ v.i = (IF u.i < MaxOnlineUsers THEN u.i + 1 ELSE u.i)
               /\ v.pc = (IF u.i < MaxOnlineUsers THEN "scan" ELSE "target")
            \/ /\ u.pc = "ident" /\ v.pc = "addr" /\ v.ident = ident[u.i] /\ v.seen = u.seen
               /\ v.list = u.list /\ v.n = u.n /\ v.i = u.i
            \/ /\ u.pc = "addr" /\ v.n = u.n
               /\ v.list = Append(u.list, [ident |-> u.ident, addr |-> addr[u.i], seen |-> u.seen])
               /\ v.i = (IF u.i < MaxOnlineUsers THEN u.i + 1 ELSE u.i)
               /\ v.pc = (IF u.i < MaxOnlineUsers THEN "scan" ELSE "target")
            \/ u.pc = "target" /\ v.pc = "send" /\ v.list = u.list /\ v.n = u.n
<1>1. upd \in [Clients -> Local] /\ upd[c] \in Local
  BY DEF TypeOK, Local
<1>2. ASSUME NEW s \in Cell PROVE LET v == FreshPass(s) IN
             v.list = << >> /\ v.n = 0 /\ v.i = 1 /\ v.pc = "check"
  BY DEF FreshPass, IdleUpdater
<1>3. CASE UpdaterStart(c) \/ UpdaterSend(c)
  <2>1. PICK s \in Cell : upd' = [upd EXCEPT ![c] = FreshPass(s)]
    <3>1. CASE UpdaterStart(c)
      BY <3>1 DEF UpdaterStart, TypeOK
    <3>2. CASE UpdaterSend(c)
      <4>1. upd[c].cell \in Cell
        BY <1>1 DEF Local
      <4>2. QED BY <1>1, <3>2, <4>1 DEF UpdaterSend
    <3>3. QED BY <1>3, <3>1, <3>2
  <2>2. upd'[c] = FreshPass(s)
    BY <1>1, <2>1
  <2>3. QED BY <1>1, <1>2, <2>2
<1>4. CASE UpdaterCheck(c)
  BY <1>1, <1>4 DEF UpdaterCheck, Local
<1>5. CASE UpdaterCount(c)
  <2>1. upd[c].i \in Slot /\ upd[c].n \in Nat
    BY <1>1 DEF Local
  <2>2. CASE upd[c].i < MaxOnlineUsers
    BY <1>1, <1>5, <2>1, <2>2 DEF UpdaterCount, Local
  <2>3. CASE ~(upd[c].i < MaxOnlineUsers)
    BY <1>1, <1>5, <2>1, <2>3 DEF UpdaterCount, Local, Slot
  <2>4. QED BY <2>2, <2>3
<1>6. CASE UpdaterScan(c)
  <2>1. CASE ready[upd[c].i]
    <3>1. upd'[c] = [upd[c] EXCEPT !.pc = "ident", !.seen = ident[upd[c].i]]
      BY <1>1, <1>6, <2>1 DEF UpdaterScan
    <3>2. QED BY <1>1, <1>6, <2>1, <3>1 DEF UpdaterScan, Local
  <2>2. CASE ~ready[upd[c].i]
    <3>1. upd'[c] = NextEntry(upd[c])
      BY <1>1, <1>6, <2>2 DEF UpdaterScan
    <3>2. QED BY <1>1, <1>6, <2>2, <3>1 DEF UpdaterScan, Local, NextEntry
  <2>3. QED BY <2>1, <2>2
<1>7. CASE UpdaterIdent(c)
  <2>1. upd'[c] = [upd[c] EXCEPT !.pc = "addr", !.ident = ident[upd[c].i]]
    BY <1>1, <1>7 DEF UpdaterIdent
  <2>2. QED BY <1>1, <1>7, <2>1 DEF UpdaterIdent, Local
<1>8. CASE UpdaterAddr(c)
  <2> DEFINE w == NextEntry(upd[c])
             e == [ident |-> upd[c].ident, addr |-> addr[upd[c].i], seen |-> upd[c].seen]
  <2>1. /\ w.list = upd[c].list /\ w.n = upd[c].n /\ w \in Local
        /\ w.i = (IF upd[c].i < MaxOnlineUsers THEN upd[c].i + 1 ELSE upd[c].i)
        /\ w.pc = (IF upd[c].i < MaxOnlineUsers THEN "scan" ELSE "target")
    BY <1>1, NextEntryMoves
  <2>2. upd'[c] = [w EXCEPT !.list = Append(@, e), !.ident = Null, !.seen = Null]
    BY <1>1, <1>8 DEF UpdaterAddr
  <2> HIDE DEF w, e
  <2>3. /\ upd'[c].n = w.n /\ upd'[c].i = w.i /\ upd'[c].pc = w.pc
        /\ upd'[c].list = Append(w.list, e)
    BY <2>1, <2>2 DEF Local
  <2>4. upd[c].pc = "addr"
    BY <1>8 DEF UpdaterAddr
  <2>5. QED BY <1>1, <2>1, <2>3, <2>4 DEF e
<1>9. CASE UpdaterTarget(c)
  BY <1>1, <1>9 DEF UpdaterTarget, Local
<1>10. QED
  BY <1>3, <1>4, <1>5, <1>6, <1>7, <1>8, <1>9 DEF UpdaterStep

LEMMA SeenStep ==
  ASSUME IInv, IInv', Owner, Seen, [Next]_vars
  PROVE  Seen'
<1> DEFINE Right(e) == e.ident = e.seen /\ e.addr = e.seen
<1>1. SUFFICES ASSUME InTable', NEW c \in Clients, NEW u, u = upd[c], NEW v, v = upd'[c]
               PROVE  /\ v.pc \in {"ident", "addr"} => Shown(v.seen, v.i)'
                      /\ v.pc = "addr" => Leaving(v.seen)' \/ v.ident = v.seen
                      /\ \A k \in DOMAIN v.list :
                           v.list[k].seen \in Clients
                             /\ (Leaving(v.list[k].seen)' \/ Right(v.list[k]))
  <2>1. SUFFICES ASSUME InTable', NEW c \in Clients
                 PROVE  /\ upd'[c].pc \in {"ident", "addr"} => Shown(upd[c].seen, upd[c].i)'
                        /\ upd'[c].pc = "addr" => Leaving(upd[c].seen)' \/ upd'[c].ident = upd'[c].seen
                        /\ \A k \in DOMAIN upd'[c].list :
                             upd'[c].list[k].seen \in Clients
                               /\ (Leaving(upd[c].list[k].seen)' \/ Right(upd'[c].list[k]))
    BY DEF Seen
  <2>2. PICK u, v : u = upd[c] /\ v = upd'[c]
    OBVIOUS
  <2>3. QED BY <1>1, <2>1, <2>2 DEF Shown, Leaving
<1>2. InTable /\ TypeOK /\ TypeOK' /\ ListedServed /\ \A x \in Clients : hcell[x] \in Cell
  BY <1>1, TableMoves DEF IInv, TypeOK
<1>3. u \in Local /\ v \in Local
  BY <1>1, <1>2 DEF TypeOK, Local
<1>4. u.i \in Slot
  BY <1>3 DEF Local
<1>5. /\ u.pc \in {"ident", "addr"} => Shown(u.seen, u.i)
      /\ u.pc = "addr" => Leaving(u.seen) \/ u.ident = u.seen
      /\ \A k \in DOMAIN u.list :
           u.list[k].seen \in Clients /\ (Leaving(u.list[k].seen) \/ Right(u.list[k]))
  BY <1>1, <1>2 DEF Seen
<1>6. \A x \in Clients : Leaving(x) => Leaving(x)'
  BY TableMoves
<1>7. u.pc \in {"ident", "addr"} => Shown(u.seen, u.i)'
  BY <1>4, <1>5, ShownStays
<1>8. u.pc \in {"ident", "addr"} /\ Leaving(u.seen) => Leaving(u.seen)'
  BY <1>5, <1>6 DEF Shown
<1>9. \A k \in DOMAIN u.list :
        u.list[k].seen \in Clients /\ (Leaving(u.list[k].seen)' \/ Right(u.list[k]))
  BY <1>5, <1>6
<1>10. \A x \in Clients : hpc[x] \in Showing /\ ready[hcell[x]]
                           => ident[hcell[x]] = x /\ addr[hcell[x]] = x
  BY <1>2 DEF Owner
<1> HIDE DEF Right
<1>11. CASE ~UpdaterStep(c)
  <2>1. \/ v = u
        \/ v.pc = "start" /\ v.list = u.list
    BY <1>1, <1>2, <1>3, <1>11, UpdaterAlone DEF Local
  <2>2. QED BY <1>5, <1>7, <1>8, <1>9, <2>1
<1>12. CASE UpdaterStep(c)
  <2>1. UNCHANGED <<hpc, hcell, ready>>
    BY <1>12, OtherStepsOwner
  <2>2. CASE /\ v.list = u.list \/ v.list = << >>
             /\ v.pc \notin {"ident", "addr"}
    BY <1>9, <2>2
  <2>3. CASE /\ u.pc = "scan" /\ ready[u.i] /\ v.pc = "ident" /\ v.seen = ident[u.i]
             /\ v.list = u.list /\ v.i = u.i
    <3>1. PICK x \in Clients : hcell[x] = u.i /\ hpc[x] \in Showing
      BY <1>2, <1>4, <2>3 DEF ListedServed
    <3>2. v.seen = x /\ Shown(x, v.i)'
      BY <1>10, <2>1, <2>3, <3>1 DEF Shown
    <3>3. QED BY <1>9, <2>3, <3>2
  <2>4. CASE /\ u.pc = "ident" /\ v.pc = "addr" /\ v.ident = ident[u.i] /\ v.seen = u.seen
             /\ v.list = u.list /\ v.i = u.i
    <3>1. Leaving(u.seen)' \/ v.ident = u.seen
      BY <1>5, <1>8, <1>10, <2>4 DEF Shown
    <3>2. QED BY <1>7, <1>9, <2>4, <3>1
  <2>5. CASE /\ u.pc = "addr" /\ v.pc \in {"scan", "target"}
             /\ v.list = Append(u.list, [ident |-> u.ident, addr |-> addr[u.i], seen |-> u.seen])
    <3> DEFINE e == [ident |-> u.ident, addr |-> addr[u.i], seen |-> u.seen]
    <3>1. u.list \in Seq(Entry) /\ e \in Entry
      BY <1>2, <1>3, <1>4 DEF Local, Entry, TypeOK, Cell
    <3>2. e.seen = u.seen /\ u.seen \in Clients /\ (Leaving(u.seen)' \/ Right(e))
      <4>1. u.seen \in Clients
        BY <1>5, <2>5 DEF Shown
      <4>2. Leaving(u.seen)' \/ (u.ident = u.seen /\ addr[u.i] = u.seen)
        BY <1>5, <1>8, <1>10, <2>5 DEF Shown
      <4>3. QED BY <4>1, <4>2 DEF Right
    <3> HIDE DEF e
    <3>3. v.list = Append(u.list, e)
      BY <2>5 DEF e
    <3>4. /\ DOMAIN v.list = 1..(Len(u.list) + 1) /\ DOMAIN u.list = 1..Len(u.list)
          /\ Len(u.list) \in Nat /\ v.list[Len(u.list) + 1] = e
          /\ \A k \in 1..Len(u.list) : v.list[k] = u.list[k]
      BY <3>1, <3>3, AppendProperties, LenProperties
    <3>5. ASSUME NEW k \in DOMAIN v.list
          PROVE  v.list[k].seen \in Clients /\ (Leaving(v.list[k].seen)' \/ Right(v.list[k]))
      <4>1. CASE k = Len(u.list) + 1
        <5>1. v.list[k] = e
          BY <3>4, <4>1
        <5>2. v.list[k].seen = u.seen
          BY <3>2, <5>1
        <5>3. QED BY <3>2, <5>1, <5>2
      <4>2. CASE k \in 1..Len(u.list)
        <5>1. v.list[k] = u.list[k] /\ k \in DOMAIN u.list
          BY <3>4, <4>2
        <5>2. QED BY <1>9, <5>1
      <4>3. QED BY <3>4, <3>5, <4>1, <4>2
    <3>6. QED BY <2>5, <3>5
  <2>6. \/ /\ v.list = u.list \/ v.list = << >>
           /\ v.pc \notin {"ident", "addr"}
        \/ /\ u.pc = "scan" /\ ready[u.i] /\ v.pc = "ident" /\ v.seen = ident[u.i]
           /\ v.list = u.list /\ v.i = u.i
        \/ /\ u.pc = "ident" /\ v.pc = "addr" /\ v.ident = ident[u.i] /\ v.seen = u.seen
           /\ v.list = u.list /\ v.i = u.i
        \/ /\ u.pc = "addr" /\ v.pc \in {"scan", "target"}
           /\ v.list = Append(u.list, [ident |-> u.ident, addr |-> addr[u.i], seen |-> u.seen])
    BY <1>1, <1>2, <1>12, UpdaterMoves
  <2>7. QED BY <2>2, <2>3, <2>4, <2>5, <2>6
<1>13. QED BY <1>11, <1>12

-----------------------------------------------------------------------------
(* The count of a frame.                                                   *)

\* The ready entries from a to b.
ReadyIn(a, b) == {s \in a..b : ready[s]}

\* While nobody leaves, the entries counted are still there to be listed.
Counted ==
  NobodyLeaves => \A c \in Clients :
    LET u == upd[c] IN
    /\ u.pc = "check" => u.list = << >> /\ u.n = 0 /\ u.i = 1
    /\ u.pc = "count" => u.list = << >> /\ u.n <= Cardinality(ReadyIn(1, u.i - 1))
    /\ u.pc \in {"scan", "ident", "addr"} =>
         u.n <= Len(u.list) + Cardinality(ReadyIn(u.i, MaxOnlineUsers))
    /\ u.pc \in {"ident", "addr"} => ready[u.i]
    /\ u.pc \in {"target", "send"} => u.n <= Len(u.list)

LEMMA ReadyInFinite ==
  ASSUME NEW a \in Int, NEW b \in Int
  PROVE  IsFiniteSet(ReadyIn(a, b)) /\ Cardinality(ReadyIn(a, b)) \in Nat
<1>1. IsFiniteSet(a..b) /\ ReadyIn(a, b) \in SUBSET (a..b)
  BY FS_Interval DEF ReadyIn
<1>2. QED BY <1>1, FS_Subset, FS_CardinalityType

LEMMA ReadyInNext ==
  ASSUME NEW a \in Int, NEW b \in Int
  PROVE  /\ Cardinality(ReadyIn(1, a)) = Cardinality(ReadyIn(1, a - 1))
                                          + (IF a >= 1 /\ ready[a] THEN 1 ELSE 0)
         /\ Cardinality(ReadyIn(a, b)) = Cardinality(ReadyIn(a + 1, b))
                                          + (IF a <= b /\ ready[a] THEN 1 ELSE 0)
<1>1. ReadyIn(1, a) = IF a >= 1 /\ ready[a] THEN ReadyIn(1, a - 1) \cup {a} ELSE ReadyIn(1, a - 1)
  BY DEF ReadyIn
<1>2. ReadyIn(a, b) = IF a <= b /\ ready[a] THEN ReadyIn(a + 1, b) \cup {a} ELSE ReadyIn(a + 1, b)
  BY DEF ReadyIn
<1>3. a \notin ReadyIn(1, a - 1) /\ a \notin ReadyIn(a + 1, b)
  BY DEF ReadyIn
<1>4. /\ IsFiniteSet(ReadyIn(1, a - 1)) /\ Cardinality(ReadyIn(1, a - 1)) \in Nat
      /\ IsFiniteSet(ReadyIn(a + 1, b)) /\ Cardinality(ReadyIn(a + 1, b)) \in Nat
  BY ReadyInFinite
<1>5. /\ Cardinality(ReadyIn(1, a - 1) \cup {a}) = Cardinality(ReadyIn(1, a - 1)) + 1
      /\ Cardinality(ReadyIn(a + 1, b) \cup {a}) = Cardinality(ReadyIn(a + 1, b)) + 1
  BY <1>3, <1>4, FS_AddElement
<1>6. Cardinality(ReadyIn(1, a)) = Cardinality(ReadyIn(1, a - 1))
                                    + (IF a >= 1 /\ ready[a] THEN 1 ELSE 0)
  <2>1. CASE a >= 1 /\ ready[a]
    BY <1>1, <1>5, <2>1
  <2>2. CASE ~(a >= 1 /\ ready[a])
    BY <1>1, <1>4, <2>2
  <2>3. QED BY <2>1, <2>2
<1>7. Cardinality(ReadyIn(a, b)) = Cardinality(ReadyIn(a + 1, b))
                                    + (IF a <= b /\ ready[a] THEN 1 ELSE 0)
  <2>1. CASE a <= b /\ ready[a]
    BY <1>2, <1>5, <2>1
  <2>2. CASE ~(a <= b /\ ready[a])
    BY <1>2, <1>4, <2>2
  <2>3. QED BY <2>1, <2>2
<1>8. QED BY <1>6, <1>7

LEMMA ReadyInFinitePrime ==
  ASSUME NEW a \in Int, NEW b \in Int
  PROVE  Cardinality(ReadyIn(a, b)') \in Nat
<1>1. IsFiniteSet(a..b) /\ ReadyIn(a, b)' \in SUBSET (a..b)
  BY FS_Interval DEF ReadyIn
<1>2. QED BY <1>1, FS_Subset, FS_CardinalityType

LEMMA ReadyInGrows ==
  ASSUME NEW a \in Int, NEW b \in Int, \A s \in a..b : ready[s] => ready'[s]
  PROVE  Cardinality(ReadyIn(a, b)) <= Cardinality(ReadyIn(a, b)')
<1>1. IsFiniteSet(a..b) /\ ReadyIn(a, b)' \in SUBSET (a..b)
  BY FS_Interval DEF ReadyIn
<1>2. IsFiniteSet(ReadyIn(a, b)') /\ ReadyIn(a, b) \in SUBSET (ReadyIn(a, b)')
  BY <1>1, FS_Subset DEF ReadyIn
<1>3. QED BY <1>2, FS_Subset

LEMMA CountedStep ==
  ASSUME IInv, IInv', Counted, [Next]_vars
  PROVE  Counted'
<1> DEFINE M == MaxOnlineUsers
<1>1. SUFFICES ASSUME NobodyLeaves', NEW c \in Clients, NEW u, u = upd[c], NEW v, v = upd'[c]
               PROVE  /\ v.pc = "check" => v.list = << >> /\ v.n = 0 /\ v.i = 1
                      /\ v.pc = "count" => v.list = << >> /\ v.n <= Cardinality(ReadyIn(1, v.i - 1)')
                      /\ v.pc \in {"scan", "ident", "addr"} =>
                           v.n <= Len(v.list) + Cardinality(ReadyIn(v.i, M)')
                      /\ v.pc \in {"ident", "addr"} => ready'[v.i]
                      /\ v.pc \in {"target", "send"} => v.n <= Len(v.list)
  BY DEF Counted, ReadyIn
<1>2. TypeOK /\ TypeOK' /\ NobodyLeaves /\ \A s \in Slot : ready[s] => ready'[s]
  BY <1>1, ReadyStays DEF IInv
<1>3. u \in Local /\ v \in Local
  BY <1>1, <1>2 DEF TypeOK, Local
<1>4. /\ u.i \in 1..M /\ v.i \in 1..M /\ u.n \in Nat /\ v.n \in Nat
      /\ u.list \in Seq(Entry) /\ Len(u.list) \in Nat /\ Len(v.list) \in Nat
      /\ M \in Nat
  BY <1>3, LenProperties DEF Local, Slot
<1>5. /\ u.pc = "check" => u.list = << >> /\ u.n = 0 /\ u.i = 1
      /\ u.pc = "count" => u.list = << >> /\ u.n <= Cardinality(ReadyIn(1, u.i - 1))
      /\ u.pc \in {"scan", "ident", "addr"} => u.n <= Len(u.list) + Cardinality(ReadyIn(u.i, M))
      /\ u.pc \in {"ident", "addr"} => ready[u.i]
      /\ u.pc \in {"target", "send"} => u.n <= Len(u.list)
  BY <1>1, <1>2 DEF Counted
<1>6. /\ Cardinality(ReadyIn(1, u.i - 1)) <= Cardinality(ReadyIn(1, u.i - 1)')
      /\ Cardinality(ReadyIn(u.i, M)) <= Cardinality(ReadyIn(u.i, M)')
  BY <1>2, <1>4, ReadyInGrows DEF Slot
<1> DEFINE Before == Cardinality(ReadyIn(1, u.i - 1))   Upto == Cardinality(ReadyIn(1, u.i))
           From   == Cardinality(ReadyIn(u.i, M))       After == Cardinality(ReadyIn(u.i + 1, M))
<1>7. /\ u.i - 1 \in Int /\ u.i + 1 \in Int /\ u.i \in Int /\ v.i - 1 \in Int /\ v.i \in Int
      /\ 1 \in Int /\ M \in Int
  BY <1>4
<1>8. Before \in Nat /\ Upto \in Nat /\ From \in Nat /\ After \in Nat
  BY <1>7, ReadyInFinite
<1>9. /\ Cardinality(ReadyIn(1, u.i - 1)') \in Nat /\ Cardinality(ReadyIn(u.i, M)') \in Nat
      /\ Cardinality(ReadyIn(1, v.i - 1)') \in Nat
  BY <1>7, ReadyInFinitePrime
<1>10. /\ Upto = Before + (IF ready[u.i] THEN 1 ELSE 0)
      /\ From = After + (IF ready[u.i] THEN 1 ELSE 0)
  <2>1. u.i >= 1 /\ u.i <= M
    BY <1>4
  <2>2. /\ Upto = Before + (IF u.i >= 1 /\ ready[u.i] THEN 1 ELSE 0)
        /\ From = After + (IF u.i <= M /\ ready[u.i] THEN 1 ELSE 0)
    BY <1>7, ReadyInNext
  <2>3. QED BY <2>1, <2>2
<1>11. u.i = M => After = 0
  <2>1. u.i = M => ReadyIn(u.i + 1, M) = {}
    BY <1>4 DEF ReadyIn
  <2>2. QED BY <2>1, FS_EmptySet
<1> HIDE DEF Before, Upto, From, After
<1>12. CASE ~UpdaterStep(c)
  <2>1. v = u \/ v.pc = "start"
    BY <1>1, <1>2, <1>3, <1>12, UpdaterAlone DEF Local
  <2>2. CASE v = u
    <3>1. u.pc = "count" => u.n <= Cardinality(ReadyIn(1, u.i - 1)')
      BY <1>4, <1>5, <1>6, <1>8, <1>9 DEF Before
    <3>2. u.pc \in {"scan", "ident", "addr"} => u.n <= Len(u.list) + Cardinality(ReadyIn(u.i, M)')
      BY <1>4, <1>5, <1>6, <1>8, <1>9 DEF From
    <3>3. u.pc \in {"ident", "addr"} => ready'[u.i]
      BY <1>2, <1>4, <1>5 DEF Slot
    <3>4. QED BY <1>5, <2>2, <3>1, <3>2, <3>3
  <2>3. QED BY <2>1, <2>2
<1>13. CASE UpdaterStep(c)
  <2>1. UNCHANGED ready /\ \A a, b : ReadyIn(a, b)' = ReadyIn(a, b)
    BY <1>13, OtherStepsOwner DEF ReadyIn
  <2>2. CASE v.list = << >> /\ v.n = 0 /\ v.i = 1 /\ v.pc = "check"
    BY <2>2
  <2>3. CASE u.pc = "check" /\ v.pc \in {"count", "exit"} /\ v.list = u.list
               /\ v.n = u.n /\ v.i = u.i
    BY <1>5, <1>9, <2>3
  <2>4. CASE /\ u.pc = "count" /\ v.list = u.list /\ v.n = u.n + (IF ready[u.i] THEN 1 ELSE 0)
             /\ \/ u.i < M /\ v.i = u.i + 1 /\ v.pc = "count"
                \/ u.i = M /\ v.i = 1 /\ v.pc = IF v.n = 0 THEN "check" ELSE "scan"
    <3>1. v.n <= Upto
      BY <1>4, <1>5, <1>8, <1>10, <2>4 DEF Before
    <3>2. CASE u.i < M /\ v.i = u.i + 1 /\ v.pc = "count"
      <4>1. v.i - 1 = u.i
        BY <1>4, <3>2
      <4>2. QED BY <1>5, <2>1, <2>4, <3>1, <3>2, <4>1 DEF Upto
    <3>3. CASE u.i = M /\ v.i = 1 /\ v.pc = "scan"
      <4>1. Len(v.list) = 0 /\ Upto = Cardinality(ReadyIn(1, M))
        BY <1>5, <2>4, <3>3, EmptySeq DEF Upto
      <4>2. v.n <= Len(v.list) + Cardinality(ReadyIn(v.i, M)')
        BY <1>4, <1>8, <2>1, <3>1, <3>3, <4>1
      <4>3. QED BY <3>3, <4>2
    <3>4. CASE u.i = M /\ v.i = 1 /\ v.pc = "check" /\ v.n = 0
      BY <1>5, <2>4, <3>4
    <3>5. QED
      BY <2>4, <3>2, <3>3, <3>4
  <2>5. CASE u.pc \in {"scan", "ident"} /\ ready[u.i] /\ v.pc \in {"ident", "addr"}
               /\ v.list = u.list /\ v.n = u.n /\ v.i = u.i
    BY <1>5, <2>1, <2>5
  <2>6. CASE /\ v.n = u.n /\ v.i = (IF u.i < M THEN u.i + 1 ELSE u.i)
             /\ v.pc = (IF u.i < M THEN "scan" ELSE "target")
             /\ \/ u.pc = "scan" /\ ~ready[u.i] /\ v.list = u.list
                \/ u.pc = "addr" /\ Len(v.list) = Len(u.list) + 1
    <3>1. u.n <= Len(u.list) + From
      BY <1>5, <2>6 DEF From
    <3>2. Len(v.list) + After >= Len(u.list) + From
      <4>1. CASE ready[u.i]
        <5>1. Len(v.list) = Len(u.list) + 1
          BY <2>6, <4>1
        <5>2. From = After + 1
          BY <1>10, <4>1
        <5>3. \A a, b \in Nat : (a + 1) + b >= a + (b + 1)
          OBVIOUS
        <5>4. (Len(u.list) + 1) + After >= Len(u.list) + (After + 1)
          BY <1>4, <1>8, <5>3
        <5>5. QED BY <5>1, <5>2, <5>4
      <4>2. CASE ~ready[u.i]
        BY <1>4, <1>8, <1>10, <2>6, <4>2
      <4>3. QED BY <4>1, <4>2
    <3>3. v.n <= Len(v.list) + After
      BY <1>4, <1>8, <2>6, <3>1, <3>2
    <3>4. CASE u.i < M
      BY <2>1, <2>6, <3>3, <3>4 DEF After
    <3>5. CASE ~(u.i < M)
      <4>1. After = 0
        BY <1>4, <1>11, <3>5
      <4>2. v.n <= Len(v.list)
        BY <1>4, <3>3, <4>1
      <4>3. QED BY <2>6, <3>5, <4>2
    <3>6. QED BY <3>4, <3>5
  <2>7. CASE u.pc = "target" /\ v.pc = "send" /\ v.list = u.list /\ v.n = u.n
    BY <1>5, <2>7
  <2>8. u.pc = "addr" => Len(Append(u.list, [ident |-> u.ident, addr |-> addr[u.i], seen |-> u.seen]))
                           = Len(u.list) + 1
    <3>1. [ident |-> u.ident, addr |-> addr[u.i], seen |-> u.seen] \in Entry
      BY <1>2, <1>3, <1>4 DEF Entry, Local, TypeOK, Cell, Slot
    <3>2. QED BY <1>4, <3>1, AppendProperties
  <2>9. /\ v.pc = "exit" \/ v.pc \in UpdaterStage
        /\ u.pc = "ident" => ready[u.i]
    BY <1>3, <1>5 DEF Local
  <2>10. \/ v.list = << >> /\ v.n = 0 /\ v.i = 1 /\ v.pc = "check"
         \/ u.pc = "check" /\ v.pc \in {"count", "exit"} /\ v.list = u.list /\ v.n = u.n /\ v.i = u.i
         \/ /\ u.pc = "count" /\ v.list = u.list /\ v.n = u.n + (IF ready[u.i] THEN 1 ELSE 0)
            /\ \/ u.i < M /\ v.i = u.i + 1 /\ v.pc = "count"
               \/ u.i = M /\ v.i = 1 /\ v.pc = IF v.n = 0 THEN "check" ELSE "scan"
         \/ u.pc \in {"scan", "ident"} /\ ready[u.i] /\ v.pc \in {"ident", "addr"}
               /\ v.list = u.list /\ v.n = u.n /\ v.i = u.i
         \/ /\ v.n = u.n /\ v.i = (IF u.i < M THEN u.i + 1 ELSE u.i)
            /\ v.pc = (IF u.i < M THEN "scan" ELSE "target")
            /\ \/ u.pc = "scan" /\ ~ready[u.i] /\ v.list = u.list
               \/ u.pc = "addr" /\ Len(v.list) = Len(u.list) + 1
         \/ u.pc = "target" /\ v.pc = "send" /\ v.list = u.list /\ v.n = u.n
    <3>1. CASE u.pc = "addr"
      BY <1>1, <1>2, <1>13, <2>8, <3>1, UpdaterMoves
    <3>2. CASE u.pc = "ident"
      BY <1>1, <1>2, <1>13, <2>9, <3>2, UpdaterMoves
    <3>3. CASE u.pc = "count"
      BY <1>1, <1>2, <1>13, <1>4, <3>3, UpdaterMoves
    <3>4. CASE u.pc \notin {"addr", "ident", "count"}
      BY <1>1, <1>2, <1>13, <3>4, UpdaterMoves
    <3>5. QED BY <3>1, <3>2, <3>3, <3>4
  <2>11. QED
    BY <2>2, <2>3, <2>4, <2>5, <2>6, <2>7, <2>10
<1>14. QED BY <1>12, <1>13

-----------------------------------------------------------------------------
(* What kills the process.                                                 *)

\* Only a connection whose client is gone has ended.
EndedGone == \A c \in Clients : net[c] # "ok" => cpc[c] = "gone"

LEMMA SendKills ==
  ASSUME TypeOK, EndedGone, NEW f, NEW frame, Send(f, frame)
  PROVE  /\ EndedGone' /\ \A c \in Clients : cpc[c] = "gone" => cpc'[c] = "gone"
         /\ up' = up \/ \E c \in Clients : cpc[c] = "gone"
<1>1. /\ net \in [Clients -> {"ok", "fin", "rst"}] /\ DOMAIN cpc = Clients
      /\ Peer(f) \in Clients \cup {NoClient}
  BY DEF TypeOK, Peer
<1> DEFINE p == Peer(f)
<1>2. CASE p = NoClient /\ UNCHANGED <<net, cpc, up>>
  BY <1>2 DEF EndedGone
<1>3. CASE /\ p # NoClient /\ net[p] = "ok" /\ UNCHANGED <<net, up>>
           /\ cpc' = IF frame = CONNECTION_REQUEST /\ cpc[p] = "loggingIn"
                     THEN [cpc EXCEPT ![p] = "online"] ELSE cpc
  <2>1. \A c \in Clients : cpc[c] = "gone" => cpc'[c] = "gone"
    BY <1>1, <1>3, Zenon
  <2>2. QED BY <1>3, <2>1 DEF EndedGone
<1>4. CASE p # NoClient /\ net[p] = "fin" /\ net' = [net EXCEPT ![p] = "rst"]
             /\ UNCHANGED <<cpc, up>>
  BY <1>1, <1>4 DEF EndedGone
<1>5. CASE p # NoClient /\ net[p] = "rst" /\ UNCHANGED <<net, cpc>>
  BY <1>1, <1>5 DEF EndedGone
<1>6. QED BY <1>2, <1>3, <1>4, <1>5 DEF Send

LEMMA DownStep ==
  ASSUME IInv, Filled, Counted, EndedGone, DownOnlyAfterDeparture, [Next]_vars
  PROVE  EndedGone' /\ DownOnlyAfterDeparture'
<1> USE DEF DownOnlyAfterDeparture
<1>1. /\ TypeOK /\ \A c \in Clients : Leaving(c) => Leaving(c)'
      /\ net \in [Clients -> {"ok", "fin", "rst"}] /\ DOMAIN cpc = Clients /\ DOMAIN net = Clients
  BY TableMoves DEF IInv, TypeOK
<1>2. ASSUME UNCHANGED <<net, cpc>>,
             (up' = up /\ mpc' = mpc) \/ up' \/ mpc' = "exit" \/ \E c \in Clients : Leaving(c)
      PROVE  EndedGone' /\ DownOnlyAfterDeparture'
  BY <1>1, <1>2 DEF EndedGone
<1>3. ASSUME NEW f, NEW frame, Send(f, frame), UNCHANGED mpc
      PROVE  EndedGone' /\ DownOnlyAfterDeparture'
  <2>1. /\ EndedGone' /\ \A c \in Clients : cpc[c] = "gone" => cpc'[c] = "gone"
        /\ up' = up \/ \E c \in Clients : cpc[c] = "gone"
    BY <1>1, <1>3, SendKills
  <2>2. QED BY <1>1, <1>3, <2>1
<1>4. CASE MainStep
  <2>1. UNCHANGED <<net, cpc>> /\ up /\ (up' \/ mpc' = "exit")
    BY <1>4 DEF MainStep, MainScan, MainClear, MainAccept, MainExit, MainSpawn, kernelVars
  <2>2. QED BY <1>2, <2>1
<1>5. ASSUME NEW c \in Clients, ClientStep(c) PROVE EndedGone' /\ DownOnlyAfterDeparture'
  <2>1. UNCHANGED <<up, mpc, hpc>> /\ \A d \in Clients : cpc[d] = "gone" => cpc'[d] = "gone"
    BY <1>1, <1>5 DEF ClientStep, Connect, Login, Leave, Vanish, mainVars, handlerVars
  <2>2. EndedGone'
    <3>1. CASE Vanish(c)
      BY <1>1, <3>1 DEF Vanish, EndedGone
    <3>2. CASE ~Vanish(c)
      <4>1. UNCHANGED net
        BY <1>5, <3>2 DEF ClientStep, Connect, Login, Leave, kernelVars
      <4>2. QED BY <2>1, <4>1 DEF EndedGone
    <3>3. QED BY <3>1, <3>2
  <2>3. QED BY <1>1, <2>1, <2>2
<1>6. ASSUME NEW c \in Clients, HandlerStep(c) PROVE EndedGone' /\ DownOnlyAfterDeparture'
  <2>1. CASE HandlerAck(c)
    BY <1>3, <2>1 DEF HandlerAck, mainVars
  <2>2. CASE HandlerFree(c)
    <3>1. Leaving(c) /\ UNCHANGED <<net, cpc>>
      BY <2>2 DEF HandlerFree, Leaving, kernelVars
    <3>2. QED BY <1>2, <3>1
  <2>3. CASE ~HandlerAck(c) /\ ~HandlerFree(c)
    <3>1. UNCHANGED <<net, cpc, up, mpc>>
      BY <1>6, <2>3 DEF HandlerStep, HandlerStart, HandlerCall, HandlerRecvError, HandlerRecv,
         HandlerSetIdent, HandlerPublish, HandlerUnready, HandlerClose, HandlerDeactivate,
         kernelVars, mainVars
    <3>2. QED BY <1>2, <3>1
  <2>4. QED BY <2>1, <2>2, <2>3
<1>7. ASSUME NEW c \in Clients, UpdaterStep(c) PROVE EndedGone' /\ DownOnlyAfterDeparture'
  <2>1. CASE UpdaterSend(c)
    BY <1>3, <2>1 DEF UpdaterSend, mainVars
  <2>2. CASE UpdaterIdent(c) \/ UpdaterAddr(c)
    <3>1. UNCHANGED <<net, cpc, mpc>> /\ upd[c].pc \in {"ident", "addr"} /\ up
      BY <2>2 DEF UpdaterIdent, UpdaterAddr, kernelVars, mainVars
    <3>2. upd[c].i \in Slot
      BY <1>1 DEF TypeOK
    <3>3. NobodyLeaves => ident[upd[c].i] \in Clients /\ addr[upd[c].i] \in Clients
      BY <3>1, <3>2 DEF Counted, Filled
    <3>4. up' = up \/ \E d \in Clients : Leaving(d)
      BY <2>2, <3>3 DEF UpdaterIdent, UpdaterAddr, NobodyLeaves
    <3>5. QED BY <1>2, <3>1, <3>4
  <2>3. CASE ~UpdaterSend(c) /\ ~UpdaterIdent(c) /\ ~UpdaterAddr(c)
    <3>1. UNCHANGED <<net, cpc, up, mpc>>
      BY <1>7, <2>3 DEF UpdaterStep, UpdaterStart, UpdaterCheck, UpdaterCount, UpdaterScan,
         UpdaterTarget, kernelVars, mainVars
    <3>2. QED BY <1>2, <3>1
  <2>4. QED BY <2>1, <2>2, <2>3
<1>8. CASE UNCHANGED vars
  BY <1>2, <1>8 DEF vars, kernelVars, mainVars
<1>9. QED BY <1>4, <1>5, <1>6, <1>7, <1>8 DEF Next

\* The unlocked passes of updateClient can list a freed or mixed entry,
\* announce too many entries and kill the process, but only by the departure
\* of some client: as long as all stay, every list is right.
THEOREM HarmOfDeparture == Spec => []HarmOnlyAfterLeave
<1>1. Init => Seen /\ Counted /\ EndedGone /\ DownOnlyAfterDeparture
  <2>1. Init => \A c \in Clients : upd[c].pc = "none" /\ upd[c].list = << >>
    BY DEF Init, IdleUpdater
  <2>2. Init => Seen /\ Counted
    BY <2>1 DEF Seen, Counted
  <2>3. Init => EndedGone /\ DownOnlyAfterDeparture
    BY DEF Init, EndedGone, DownOnlyAfterDeparture
  <2>4. QED BY <2>2, <2>3
<1>2. Spec => [](IInv /\ Owner /\ Filled /\ Seen /\ Counted /\ EndedGone /\ DownOnlyAfterDeparture)
  BY <1>1, SeenStep, CountedStep, DownStep, StreamsInductive, PTL DEF Spec
<1>3. IInv /\ Seen /\ Counted /\ DownOnlyAfterDeparture => HarmOnlyAfterLeave
  <2>1. ASSUME Seen PROVE WrongEntryOnlyAfterLeave
    BY <2>1 DEF Seen, WrongEntryOnlyAfterLeave
  <2>2. ASSUME IInv, Counted PROVE CountWithinList
    <3>1. SUFFICES ASSUME NEW c \in Clients, upd[c].pc \in {"target", "send"}, NobodyLeaves
                   PROVE  ~(upd[c].n > Len(upd[c].list))
      BY DEF CountWithinList, NobodyLeaves
    <3>2. upd[c].n \in Nat /\ upd[c].list \in Seq(Entry)
      BY <2>2 DEF IInv, TypeOK
    <3>3. Len(upd[c].list) \in Nat /\ upd[c].n <= Len(upd[c].list)
      BY <2>2, <3>1, <3>2, LenProperties DEF Counted
    <3>4. QED BY <3>2, <3>3
  <2>3. QED BY <2>1, <2>2 DEF HarmOnlyAfterLeave
<1>4. QED BY <1>2, <1>3, PTL
=============================================================================
