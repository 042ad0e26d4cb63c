--------------------------- MODULE P2PInboxProofs ---------------------------
(* Theorems about P2PInbox, for every set of peers and names, every table   *)
(* size and every number of lines.                                          *)
EXTENDS P2PInbox, SequenceTheorems, TLAPS

USE InboxAssumption DEF HandlerStage

-----------------------------------------------------------------------------
(* Type correctness.                                                        *)

\* Before recv returns a handler has no message, and no sender.
Fresh == \A h \in Peers :
  hpc[h] \in {"none", "accepted", "call", "recv"} => hfrom[h] = Nobody /\ hmsg[h] = Nobody

\* A handler that posts a line knows whose, and a photo has a name.
HasMessage == \A h \in Peers :
  /\ hpc[h] \in {"create", "save", "lock", "shift", "write", "unlock"} => hfrom[h] \in Peers
  /\ hpc[h] \in {"create", "save"} => hmsg[h] \in Names

ScreenShort == Len(screen) <= LastMessage + 1

TypeInv == TypeOK /\ Fresh /\ HasMessage /\ ScreenShort

LEMMA MainType ==
  ASSUME TypeInv, MainStep
  PROVE  TypeInv'
<1> USE DEF TypeInv, Fresh, HasMessage, ScreenShort
<1>1. CASE MainScan
  BY <1>1 DEF TypeOK, MainScan, IsFree, Slot, Cell, Below, peerVars, tableVars, handlerVars,
              dataVars
<1>2. CASE MainClear
  BY <1>2 DEF TypeOK, MainClear, peerVars, handlerVars, dataVars
<1>3. ASSUME NEW p \in Peers, MainAccept(p) PROVE TypeInv'
  <2>1. /\ up' \in BOOLEAN /\ open' \subseteq Peers
        /\ socket' \in [Cell -> Peers \cup {Nobody}] /\ hcell' \in [Peers -> Cell]
        /\ mpc' \in {"accept", "spawn"}
        /\ hpc' = hpc \/ hpc' = [hpc EXCEPT ![p] = "accepted"]
    <3>1. /\ up \in BOOLEAN /\ open \subseteq Peers /\ mcell \in Cell
          /\ socket \in [Cell -> Peers \cup {Nobody}] /\ hcell \in [Peers -> Cell]
      BY DEF TypeOK
    <3>2. CASE Cardinality(open) = MaxFd
      BY <1>3, <3>1, <3>2 DEF MainAccept
    <3>3. CASE Cardinality(open) # MaxFd
      BY <1>3, <3>1, <3>3 DEF MainAccept
    <3>4. QED BY <3>2, <3>3
  <2>2. UNCHANGED <<peerVars, active, mi, mcell, hconn, hfrom, hmsg, hi, dataVars, screen>>
        /\ hpc[p] = "none"
    BY <1>3 DEF MainAccept
  <2>3. TypeOK'
    BY <2>1, <2>2 DEF TypeOK, peerVars, dataVars
  <2>4. Fresh' /\ HasMessage' /\ ScreenShort'
    BY <2>1, <2>2 DEF TypeOK, dataVars
  <2>5. QED BY <2>3, <2>4
<1>4. ASSUME NEW p \in Peers, MainSpawn(p) PROVE TypeInv'
  <2>1. TypeOK'
    BY <1>4 DEF TypeOK, MainSpawn, peerVars, dataVars
  <2>2. Fresh' /\ HasMessage' /\ ScreenShort'
    BY <1>4 DEF TypeOK, MainSpawn, dataVars
  <2>3. QED BY <2>1, <2>2
<1>5. QED BY <1>1, <1>2, <1>3, <1>4 DEF MainStep

LEMMA PeerType ==
  ASSUME TypeInv, NEW p \in Peers, PeerStep(p)
  PROVE  TypeInv'
<1>1. Fresh' /\ HasMessage' /\ ScreenShort'
  BY DEF TypeInv, Fresh, HasMessage, ScreenShort, PeerStep, Connect, SendTo, Hangup,
         handlerVars
<1>2. ppc' \in [Peers -> {"away", "connected", "sent", "fin", "rst"}]
      /\ sent' \in [Peers -> Message \cup {Nobody}]
  <2>1. /\ ppc \in [Peers -> {"away", "connected", "sent", "fin", "rst"}]
        /\ sent \in [Peers -> Message \cup {Nobody}]
    BY DEF TypeInv, TypeOK
  <2>2. CASE Connect(p)
    BY <2>1, <2>2 DEF Connect
  <2>3. CASE SendTo(p)
    BY <2>1, <2>3 DEF SendTo
  <2>4. CASE Hangup(p)
    BY <2>1, <2>4 DEF Hangup
  <2>5. QED BY <2>2, <2>3, <2>4 DEF PeerStep
<1>3. UNCHANGED <<up, open, tableVars, mainVars, handlerVars, dataVars, screen>>
  BY DEF PeerStep, Connect, SendTo, Hangup
<1>4. TypeOK'
  BY <1>2, <1>3 DEF TypeInv, TypeOK, tableVars, mainVars, handlerVars, dataVars
<1>5. QED BY <1>1, <1>4 DEF TypeInv

LEMMA ScreenType ==
  ASSUME TypeInv, PrintLine
  PROVE  TypeInv'
<1>1. screen' \in Seq(Peers \cup {Nobody}) /\ Len(screen') <= LastMessage + 1
  <2>1. screen \in Seq(Peers \cup {Nobody}) /\ Len(screen) <= LastMessage + 1
    BY DEF TypeInv, TypeOK, ScreenShort
  <2>2. CASE Len(screen) = LastMessage + 1
    BY <2>2 DEF PrintLine
  <2>3. CASE Len(screen) # LastMessage + 1
    <3>1. Len(screen) + 1 \in Line
      BY <2>1, <2>3, LenProperties DEF Line
    <3>2. lines[Len(screen) + 1] \in Peers \cup {Nobody}
      BY <3>1 DEF TypeInv, TypeOK
    <3>3. screen' = Append(screen, lines[Len(screen) + 1])
      BY <2>3 DEF PrintLine
    <3>4. QED
      BY <2>1, <3>1, <3>2, <3>3, AppendProperties DEF Line
  <2>4. QED BY <2>2, <2>3
<1>2. TypeOK'
  BY <1>1 DEF TypeInv, TypeOK, PrintLine, peerVars, tableVars, mainVars, handlerVars, dataVars
<1>3. Fresh' /\ HasMessage' /\ ScreenShort'
  BY <1>1 DEF TypeInv, Fresh, HasMessage, ScreenShort, PrintLine, handlerVars
<1>4. QED BY <1>2, <1>3 DEF TypeInv

LEMMA HandlerType ==
  ASSUME TypeInv, NEW h \in Peers, HandlerStep(h)
  PROVE  TypeInv'
<1> USE DEF TypeInv, Fresh, HasMessage, ScreenShort, Goto
<1> USE DEF peerVars, mainVars, dataVars, tableVars
<1>1. CASE HandlerCall(h)
  <2>1. TypeOK' BY <1>1 DEF TypeOK, HandlerCall
  <2>2. QED BY <1>1, <2>1 DEF TypeOK, HandlerCall
<1>2. CASE HandlerRecvError(h)
  <2>1. TypeOK' BY <1>2 DEF TypeOK, HandlerRecvError
  <2>2. QED BY <1>2, <2>1 DEF TypeOK, HandlerRecvError
<1>3. CASE HandlerRecv(h)
  <2>1. /\ hconn[h] \in Peers /\ sent[hconn[h]] \in Message
        /\ sent[hconn[h]] \notin {TEXT_MESSAGE, Unknown} => sent[hconn[h]] \in Names
    BY <1>3 DEF TypeOK, HandlerRecv, Message
  <2>2. TypeOK'
    BY <1>3, <2>1 DEF TypeOK, HandlerRecv
  <2>3. HasMessage'
    BY <1>3, <2>1 DEF TypeOK, HandlerRecv
  <2>4. Fresh' /\ ScreenShort'
    BY <1>3, <2>1 DEF TypeOK, HandlerRecv
  <2>5. QED BY <2>2, <2>3, <2>4
<1>4. CASE HandlerCreate(h)
  <2>1. TypeOK' BY <1>4 DEF TypeOK, HandlerCreate
  <2>2. QED BY <1>4, <2>1 DEF TypeOK, HandlerCreate
<1>5. CASE HandlerSave(h)
  <2>1. TypeOK' BY <1>5 DEF TypeOK, HandlerSave
  <2>2. QED BY <1>5, <2>1 DEF TypeOK, HandlerSave
<1>6. CASE HandlerLock(h)
  <2>1. arrived' \in Seq(Peers)
    BY <1>6, AppendProperties DEF TypeOK, HandlerLock
  <2>2. TypeOK' BY <1>6, <2>1 DEF TypeOK, HandlerLock
  <2>3. QED BY <1>6, <2>2 DEF TypeOK, HandlerLock
<1>7. CASE HandlerShift(h)
  <2>1. lines' \in [Line -> Peers \cup {Nobody}] /\ hi' \in [Peers -> 2..(LastMessage + 2)]
    <3>1. hi[h] \in 2..(LastMessage + 2)
      BY DEF TypeOK
    <3>2. CASE hi[h] \in Line
      <4>1. lines[hi[h]] \in Peers \cup {Nobody} /\ hi[h] + 1 \in 2..(LastMessage + 2)
        BY <3>1, <3>2 DEF TypeOK, Line
      <4>2. /\ lines' = [lines EXCEPT ![hi[h] - 1] = lines[hi[h]]]
            /\ hi' = [hi EXCEPT ![h] = hi[h] + 1]
        BY <1>7, <3>2 DEF HandlerShift
      <4>3. QED BY <4>1, <4>2 DEF TypeOK
    <3>3. CASE hi[h] \notin Line
      BY <1>7, <3>3 DEF TypeOK, HandlerShift
    <3>4. QED BY <3>2, <3>3
  <2>2. TypeOK' BY <1>7, <2>1 DEF TypeOK, HandlerShift
  <2>3. QED BY <1>7, <2>2 DEF TypeOK, HandlerShift
<1>8. CASE HandlerWrite(h)
  <2>1. TypeOK' BY <1>8 DEF TypeOK, HandlerWrite
  <2>2. QED BY <1>8, <2>1 DEF TypeOK, HandlerWrite
<1>9. CASE HandlerUnlock(h)
  <2>1. TypeOK' BY <1>9 DEF TypeOK, HandlerUnlock
  <2>2. QED BY <1>9, <2>1 DEF TypeOK, HandlerUnlock
<1>10. CASE HandlerClose(h)
  <2>1. TypeOK' BY <1>10 DEF TypeOK, HandlerClose
  <2>2. QED BY <1>10, <2>1 DEF TypeOK, HandlerClose
<1>11. CASE HandlerDeactivate(h)
  <2>1. TypeOK' BY <1>11 DEF TypeOK, HandlerDeactivate
  <2>2. QED BY <1>11, <2>1 DEF TypeOK, HandlerDeactivate
<1>12. QED
  BY <1>1, <1>2, <1>3, <1>4, <1>5, <1>6, <1>7, <1>8, <1>9, <1>10, <1>11 DEF HandlerStep

LEMMA TypeCorrect == Spec => []TypeInv
<1>1. Init => TypeInv
  BY DEF Init, TypeInv, TypeOK, Fresh, HasMessage, ScreenShort, Cell, Slot, Below
<1>2. TypeInv /\ UNCHANGED vars => TypeInv'
  BY DEF TypeInv, TypeOK, Fresh, HasMessage, ScreenShort, vars, peerVars, tableVars,
         mainVars, handlerVars, dataVars
<1>3. TypeInv /\ [Next]_vars => TypeInv'
  BY <1>2, MainType, PeerType, HandlerType, ScreenType DEF Next
<1>4. QED BY <1>1, <1>3, PTL DEF Spec

-----------------------------------------------------------------------------
(* The table.  That the scan finds an entry nobody is served in follows     *)
(* from Occupied, that the entry of a new connection is its own from        *)
(* Accepting; Owner adds whose socket is in it.                             *)

\* Two connections have two entries, and none has the one main prepares.
Exclusive ==
  /\ \A g, h \in Peers :
       Serving(g) /\ Serving(h) /\ hcell[g] \in Slot /\ hcell[g] = hcell[h] => g = h
  /\ mpc \in {"clear", "accept"} /\ mcell \in Slot =>
       \A h \in Peers : Serving(h) => hcell[h] # mcell

\* From active = 1 to active = 0 the entry of a connection is marked active.
Occupied == \A h \in Peers :
  hpc[h] \notin {"none", "accepted", "exit"} /\ hcell[h] \in Slot => active[hcell[h]]

\* A connection without a handler is in the entry main holds.
Accepting ==
  /\ \A h \in Peers : hpc[h] = "accepted" => mpc = "spawn" /\ mcell = hcell[h]
  /\ \A g, h \in Peers : hpc[g] = "accepted" /\ hpc[h] = "accepted" => g = h

\* In its entry a handler finds its own connection until it closes it.
Owner ==
  InTable => \A h \in Peers :
    /\ hconn[h] \in {h, Nobody} /\ hfrom[h] \in {h, Nobody}
    /\ Serving(h) /\ hpc[h] # "deactivate" => socket[hcell[h]] = h

TableInv == Exclusive /\ Occupied /\ Accepting

LEMMA MainTable ==
  ASSUME TypeInv, TypeInv', TableInv, Owner, MainStep
  PROVE  TableInv' /\ Owner'
<1> USE DEF TableInv, Exclusive, Occupied, Accepting, Owner, Serving, InTable
<1>1. /\ hpc \in [Peers -> HandlerStage] /\ hcell \in [Peers -> Cell] /\ mcell \in Cell
      /\ active \in [Cell -> BOOLEAN] /\ socket \in [Cell -> Peers \cup {Nobody}]
      /\ mi \in 1..(MaxOnlineUsers + 1)
  BY DEF TypeInv, TypeOK
<1>2. CASE MainScan
  <2>1. UNCHANGED <<hpc, hcell, hconn, hfrom, active, socket>> /\ mpc = "scan"
    BY <1>2 DEF MainScan, tableVars, handlerVars
  <2>2. mcell' # Below /\ mpc' = "clear" => mcell' \in Slot /\ ~active[mcell']
    BY <1>1, <1>2 DEF MainScan, IsFree, Slot
  <2>3. mpc' \in {"scan", "clear"}
    BY <1>2, <2>1 DEF MainScan
  <2>4. \A h \in Peers : hpc[h] # "accepted"
    BY <2>1
  <2>5. TableInv'
    BY <2>1, <2>2, <2>3, <2>4 DEF Slot, Below
  <2>6. QED BY <2>1, <2>5
<1>3. CASE MainClear
  <2>1. /\ UNCHANGED <<hpc, hcell, hconn, hfrom, mcell>> /\ mpc = "clear" /\ mpc' = "accept"
        /\ active' = [active EXCEPT ![mcell] = FALSE]
        /\ socket' = [socket EXCEPT ![mcell] = Nobody]
    BY <1>3 DEF MainClear, handlerVars
  <2>2. TableInv'
    BY <1>1, <2>1 DEF Cell
  <2>3. ASSUME InTable, NEW h \in Peers, Serving(h) PROVE hcell[h] # mcell
    BY <1>1, <2>1, <2>3 DEF Cell, Slot, Below
  <2>4. Owner'
    BY <1>1, <2>1, <2>3
  <2>5. QED BY <2>2, <2>4
<1>4. ASSUME NEW p \in Peers, MainAccept(p) PROVE TableInv' /\ Owner'
  <2>1. UNCHANGED <<mcell, active, hconn, hfrom>> /\ mpc = "accept" /\ hpc[p] = "none"
    BY <1>4 DEF MainAccept
  <2>2. CASE Cardinality(open) = MaxFd
    <3>1. UNCHANGED <<mpc, socket, hpc, hcell>>
      BY <1>4, <2>2 DEF MainAccept
    <3>2. QED BY <2>1, <3>1
  <2>3. CASE Cardinality(open) # MaxFd
    <3>1. /\ socket' = [socket EXCEPT ![mcell] = p] /\ mpc' = "spawn"
          /\ hpc' = [hpc EXCEPT ![p] = "accepted"] /\ hcell' = [hcell EXCEPT ![p] = mcell]
      BY <1>4, <2>3 DEF MainAccept
    <3>2. TableInv'
      BY <1>1, <2>1, <3>1
    <3>3. ASSUME InTable' PROVE InTable /\ mcell \in Slot
      BY <1>1, <2>1, <3>1, <3>3
    <3>4. Owner'
      BY <1>1, <2>1, <3>1, <3>3
    <3>5. QED BY <3>2, <3>4
  <2>4. QED BY <2>2, <2>3
<1>5. ASSUME NEW p \in Peers, MainSpawn(p) PROVE TableInv' /\ Owner'
  <2>1. /\ mpc = "spawn" /\ mpc' = "scan" /\ hpc[p] = "accepted"
        /\ hpc' = [hpc EXCEPT ![p] = "call"] /\ active' = [active EXCEPT ![mcell] = TRUE]
        /\ UNCHANGED <<socket, mcell, hcell, hconn, hfrom>>
    BY <1>5 DEF MainSpawn
  <2>2. TableInv'
    BY <1>1, <2>1 DEF Cell
  <2>3. Owner'
    BY <1>1, <2>1
  <2>4. QED BY <2>2, <2>3
<1>6. QED BY <1>2, <1>3, <1>4, <1>5 DEF MainStep

LEMMA HandlerTable ==
  ASSUME TypeInv, TypeInv', TableInv, Owner, NEW h \in Peers, HandlerStep(h)
  PROVE  TableInv' /\ Owner'
<1> USE DEF TableInv, Exclusive, Occupied, Accepting, Owner, Serving, InTable
<1>1. /\ hpc \in [Peers -> HandlerStage] /\ hcell \in [Peers -> Cell]
      /\ active \in [Cell -> BOOLEAN] /\ socket \in [Cell -> Peers \cup {Nobody}]
      /\ hconn \in [Peers -> Peers \cup {Nobody}] /\ hfrom \in [Peers -> Peers \cup {Nobody}]
  BY DEF TypeInv, TypeOK
<1>2. ASSUME UNCHANGED <<mpc, mcell, hcell, active, socket, hconn, hfrom>>,
             NEW stage, stage \notin {"none", "accepted", "deactivate", "exit"},
             hpc' = [hpc EXCEPT ![h] = stage] \/ hpc' = hpc,
             hpc[h] \notin {"none", "accepted", "deactivate", "exit"}
      PROVE  TableInv' /\ Owner'
  BY <1>1, <1>2
<1>3. CASE \/ HandlerRecvError(h) \/ HandlerCreate(h) \/ HandlerSave(h) \/ HandlerLock(h)
           \/ HandlerShift(h) \/ HandlerWrite(h) \/ HandlerUnlock(h)
  <2>1. UNCHANGED <<mpc, mcell, hcell, active, socket, hconn, hfrom>>
    BY <1>3 DEF HandlerRecvError, HandlerCreate, HandlerSave, HandlerLock, HandlerShift,
       HandlerWrite, HandlerUnlock, mainVars, tableVars
  <2>2. \E stage \in {"close", "lock", "save", "shift", "write", "unlock"} :
          hpc' = [hpc EXCEPT ![h] = stage] \/ hpc' = hpc
    BY <1>3 DEF HandlerRecvError, HandlerCreate, HandlerSave, HandlerLock, HandlerShift,
       HandlerWrite, HandlerUnlock, Goto
  <2>3. hpc[h] \notin {"none", "accepted", "deactivate", "exit"}
    BY <1>3 DEF HandlerRecvError, HandlerCreate, HandlerSave, HandlerLock, HandlerShift,
       HandlerWrite, HandlerUnlock
  <2>4. QED BY <1>2, <2>1, <2>2, <2>3
<1>4. CASE HandlerCall(h)
  <2>1. /\ UNCHANGED <<mpc, mcell, hcell, active, socket, hfrom>> /\ hpc[h] = "call"
        /\ hconn' = [hconn EXCEPT ![h] = socket[hcell[h]]]
        /\ hpc' = [hpc EXCEPT ![h] = "recv"]
    BY <1>4 DEF HandlerCall, Goto, mainVars, tableVars
  <2>2. QED BY <1>1, <2>1
<1>5. CASE HandlerRecv(h)
  <2>1. /\ UNCHANGED <<mpc, mcell, hcell, active, socket, hconn>> /\ hpc[h] = "recv"
        /\ hfrom' = [hfrom EXCEPT ![h] = hconn[h]] /\ hconn[h] # Nobody
    BY <1>5 DEF HandlerRecv, mainVars, tableVars
  <2>2. PICK stage \in {"lock", "close", "create"} : hpc' = [hpc EXCEPT ![h] = stage]
    <3> DEFINE m == sent[hconn[h]]
    <3>1. CASE m = TEXT_MESSAGE BY <1>5, <3>1 DEF HandlerRecv, Goto, TEXT_MESSAGE, Unknown
    <3>2. CASE m = Unknown BY <1>5, <3>2 DEF HandlerRecv, Goto, TEXT_MESSAGE, Unknown
    <3>3. CASE m \notin {TEXT_MESSAGE, Unknown} BY <1>5, <3>3 DEF HandlerRecv, Goto
    <3>4. QED BY <3>1, <3>2, <3>3
  <2>3. QED BY <1>1, <2>1, <2>2
<1>6. CASE HandlerClose(h)
  <2>1. /\ UNCHANGED <<mpc, mcell, hcell, active, hconn, hfrom>> /\ hpc[h] = "close"
        /\ socket' = [socket EXCEPT ![hcell[h]] = Nobody]
        /\ hpc' = [hpc EXCEPT ![h] = "deactivate"]
    BY <1>6 DEF HandlerClose, Goto, mainVars
  <2>2. QED BY <1>1, <2>1
<1>7. CASE HandlerDeactivate(h)
  <2>1. /\ UNCHANGED <<mpc, mcell, hcell, socket, hconn, hfrom>> /\ hpc[h] = "deactivate"
        /\ active' = [active EXCEPT ![hcell[h]] = FALSE]
        /\ hpc' = [hpc EXCEPT ![h] = "exit"]
    BY <1>7 DEF HandlerDeactivate, Goto, mainVars
  <2>2. QED BY <1>1, <2>1 DEF Cell
<1>8. QED BY <1>3, <1>4, <1>5, <1>6, <1>7 DEF HandlerStep

LEMMA OtherTable ==
  ASSUME PrintLine \/ UNCHANGED vars \/ \E p \in Peers : PeerStep(p)
  PROVE  UNCHANGED <<mpc, mcell, hpc, hcell, hconn, hfrom, hmsg, hi, active, socket,
                     mutex, lines, disk, arrived>>
  BY DEF PrintLine, PeerStep, Connect, SendTo, Hangup, vars, tableVars, mainVars, handlerVars,
         dataVars

LEMMA TableCorrect == Spec => [](TypeInv /\ TableInv /\ Owner)
<1>1. Init => TableInv /\ Owner
  BY DEF Init, TableInv, Exclusive, Occupied, Accepting, Owner, Serving, InTable
<1>2. /\ TableInv /\ Owner
      /\ UNCHANGED <<mpc, mcell, hpc, hcell, hconn, hfrom, active, socket>>
      => TableInv' /\ Owner'
  BY DEF TableInv, Exclusive, Occupied, Accepting, Owner, Serving, InTable
<1>3. TypeInv /\ TypeInv' /\ TableInv /\ Owner /\ [Next]_vars => TableInv' /\ Owner'
  BY <1>2, OtherTable, MainTable, HandlerTable DEF Next
<1>4. QED BY <1>1, <1>3, TypeCorrect, PTL DEF Spec

\* As long as every connection has an entry, a handler receives the message of
\* its own connection and finds that connection in its entry.
THEOREM OwnMessages == Spec => []OwnMessage
<1>1. TypeInv /\ Owner => OwnMessage
  BY DEF TypeInv, Owner, OwnMessage
<1>2. QED BY <1>1, TableCorrect, PTL

-----------------------------------------------------------------------------
(* The table implements the directory.                                      *)

LEMMA HoldingStutters ==
  ASSUME TypeInv, NEW h \in Peers, NEW stage, hpc' = [hpc EXCEPT ![h] = stage] \/ hpc' = hpc,
         UNCHANGED hcell, hpc[h] \notin {"none", "exit"}, stage \notin {"none", "exit"}
  PROVE  UNCHANGED Holding
  BY DEF TypeInv, TypeOK, Holding, Serving

LEMMA StepRefines ==
  ASSUME TypeInv, TypeInv', TableInv, [Next]_vars
  PROVE  [Directory!Next]_(Directory!vars)
<1> USE DEF Directory!vars
<1>1. hpc \in [Peers -> HandlerStage] /\ hcell \in [Peers -> Cell] /\ mcell \in Cell
  BY DEF TypeInv, TypeOK
<1>2. CASE PrintLine \/ UNCHANGED vars \/ \E p \in Peers : PeerStep(p)
  BY <1>2, OtherTable DEF Holding, Serving
<1>3. CASE MainScan \/ MainClear
  BY <1>3 DEF MainScan, MainClear, handlerVars, Holding, Serving
<1>4. ASSUME NEW p \in Peers, MainAccept(p) PROVE [Directory!Next]_(Directory!vars)
  <2>1. mpc = "accept" /\ hpc[p] = "none" /\ Holding[p] = Below
    BY <1>4 DEF MainAccept, Holding, Serving
  <2>2. CASE Cardinality(open) = MaxFd
    BY <1>4, <2>2 DEF MainAccept, Holding, Serving
  <2>3. CASE Cardinality(open) # MaxFd
    <3>1. /\ hpc' = [hpc EXCEPT ![p] = "accepted"]
          /\ hcell' = [hcell EXCEPT ![p] = mcell]
      BY <1>4, <2>3 DEF MainAccept
    <3>2. Holding' = [Holding EXCEPT ![p] = mcell]
      BY <1>1, <3>1 DEF Holding, Serving, Cell
    <3>3. CASE mcell = Below
      <4>1. UNCHANGED Holding
        BY <2>1, <3>2, <3>3 DEF Holding
      <4>2. QED BY <4>1
    <3>4. CASE mcell \in Slot
      <4>1. \A q \in Peers : Holding[q] # mcell
        BY <2>1, <3>4 DEF Holding, TableInv, Exclusive, Slot, Below
      <4>2. Directory!Claim(p)
        BY <2>1, <3>2, <3>4, <4>1 DEF Directory!Claim
      <4>3. QED BY <4>2 DEF Directory!Next
    <3>5. QED BY <1>1, <3>3, <3>4 DEF Cell
  <2>4. QED BY <2>2, <2>3
<1>5. ASSUME NEW p \in Peers, MainSpawn(p) PROVE UNCHANGED Holding
  <2>1. hpc[p] = "accepted" /\ hpc' = [hpc EXCEPT ![p] = "call"] /\ UNCHANGED hcell
    BY <1>5 DEF MainSpawn
  <2>2. QED BY <1>1, <2>1 DEF Holding, Serving
<1>6. ASSUME NEW h \in Peers, HandlerDeactivate(h) PROVE [Directory!Next]_(Directory!vars)
  <2>1. hpc[h] = "deactivate" /\ hpc' = [hpc EXCEPT ![h] = "exit"] /\ UNCHANGED hcell
    BY <1>6 DEF HandlerDeactivate, Goto
  <2>2. Holding' = [Holding EXCEPT ![h] = Below]
    BY <1>1, <2>1 DEF Holding, Serving
  <2>3. CASE Holding[h] = Below
    <3>1. UNCHANGED Holding
      BY <2>2, <2>3 DEF Holding
    <3>2. QED BY <3>1
  <2>4. CASE Holding[h] # Below
    BY <2>2, <2>4 DEF Directory!Release, Directory!Next
  <2>5. QED BY <2>3, <2>4
<1>7. ASSUME NEW h \in Peers, HandlerStep(h), ~HandlerDeactivate(h)
      PROVE  UNCHANGED Holding
  <2>1. UNCHANGED hcell /\ hpc[h] \notin {"none", "exit"}
    BY <1>7 DEF HandlerStep, HandlerCall, HandlerRecvError, HandlerRecv, HandlerCreate,
       HandlerSave, HandlerLock, HandlerShift, HandlerWrite, HandlerUnlock, HandlerClose
  <2>2. \E stage \in HandlerStage \ {"none", "exit"} :
          hpc' = [hpc EXCEPT ![h] = stage] \/ hpc' = hpc
    <3>1. CASE HandlerRecv(h)
      <4>1. hpc'[h] \in {"lock", "close", "create"} /\ hpc' = [hpc EXCEPT ![h] = hpc'[h]]
        <5> DEFINE m == sent[hconn[h]]
        <5>1. CASE m = TEXT_MESSAGE
          BY <1>1, <3>1, <5>1 DEF HandlerRecv, Goto, TEXT_MESSAGE, Unknown
        <5>2. CASE m = Unknown
          BY <1>1, <3>1, <5>2 DEF HandlerRecv, Goto, TEXT_MESSAGE, Unknown
        <5>3. CASE m \notin {TEXT_MESSAGE, Unknown}
          BY <1>1, <3>1, <5>3 DEF HandlerRecv, Goto
        <5>4. QED BY <5>1, <5>2, <5>3
      <4>2. QED BY <4>1
    <3>2. CASE ~HandlerRecv(h)
      BY <1>7, <3>2 DEF HandlerStep, HandlerCall, HandlerRecvError, HandlerCreate,
         HandlerSave, HandlerLock, HandlerShift, HandlerWrite, HandlerUnlock, HandlerClose, Goto
    <3>3. QED BY <3>1, <3>2
  <2>3. QED BY <2>1, <2>2, HoldingStutters
<1>8. QED BY <1>2, <1>3, <1>4, <1>5, <1>6, <1>7 DEF Next, MainStep

\* The table of the client is used like that of the server: an entry is taken
\* when nobody has it and given back after its handler's last write.
THEOREM InboxRefinement == Spec => ImplementsDirectory
<1>1. Init => Directory!Init
  BY DEF Init, Directory!Init, Holding, Serving
<1>2. QED
  BY <1>1, StepRefines, TableCorrect, PTL DEF Spec, ImplementsDirectory, Directory!Spec

-----------------------------------------------------------------------------
(* Photos.                                                                  *)

\* The file of an announcement holds its photo: the property is inductive once
\* it is known that a handler has no photo before recv returns.
THEOREM PhotosOnDisk == Spec => []PhotoOnDisk
<1>1. Init => PhotoOnDisk
  BY DEF Init, PhotoOnDisk, Message
<1>2. ASSUME TypeInv, PhotoOnDisk, [Next]_vars PROVE PhotoOnDisk'
  <2>1. /\ hpc \in [Peers -> HandlerStage] /\ disk \in [Names -> Peers \cup {Nobody}]
        /\ hmsg \in [Peers -> Message \cup {Nobody}] /\ hfrom \in [Peers -> Peers \cup {Nobody}]
        /\ \A g \in Peers : hpc[g] = "recv" => hmsg[g] = Nobody
        /\ \A g \in Peers : hpc[g] \in {"create", "save"} => hmsg[g] \in Names
    BY <1>2 DEF TypeInv, TypeOK, Fresh, HasMessage
  <2>2. ASSUME UNCHANGED <<hmsg, hfrom, disk>>,
               \A h \in Peers : hpc'[h] = hpc[h] \/ hpc[h] \notin {"create", "save"}
                                 \/ hmsg[h] \in BadNames \/ hpc'[h] \in {"create", "save"}
        PROVE  PhotoOnDisk'
    BY <1>2, <2>1, <2>2 DEF PhotoOnDisk
  <2>3. CASE PrintLine \/ UNCHANGED vars \/ \E p \in Peers : PeerStep(p)
    BY <2>2, <2>3, OtherTable
  <2>4. CASE MainStep
    <3>1. UNCHANGED <<hmsg, hfrom, disk>>
      BY <2>4 DEF MainStep, MainScan, MainClear, MainAccept, MainSpawn, handlerVars, dataVars
    <3>2. \A h \in Peers : hpc'[h] = hpc[h] \/ hpc[h] \in {"none", "accepted"}
      BY <2>1, <2>4 DEF MainStep, MainScan, MainClear, MainAccept, MainSpawn, handlerVars
    <3>3. QED BY <2>2, <3>1, <3>2
  <2>5. ASSUME NEW h \in Peers, HandlerRecv(h) PROVE PhotoOnDisk'
    <3>1. /\ hpc[h] = "recv" /\ UNCHANGED disk
          /\ hmsg' = [hmsg EXCEPT ![h] = sent[hconn[h]]] /\ hfrom' = [hfrom EXCEPT ![h] = hconn[h]]
      BY <2>5 DEF HandlerRecv, dataVars
    <3>2. hmsg'[h] \in Names => hpc'[h] = "create"
      BY <2>1, <2>5, <3>1 DEF HandlerRecv, Goto
    <3>3. \A g \in Peers \ {h} : hpc'[g] = hpc[g]
      BY <2>1, <2>5 DEF HandlerRecv, Goto
    <3>4. QED
      BY <1>2, <2>1, <3>1, <3>2, <3>3 DEF PhotoOnDisk, Message
  <2>6. ASSUME NEW h \in Peers, HandlerCreate(h) PROVE PhotoOnDisk'
    <3>1. UNCHANGED <<hmsg, hfrom>> /\ hpc[h] = "create"
      BY <2>6 DEF HandlerCreate
    <3>2. CASE hmsg[h] \in BadNames
      BY <1>2, <2>1, <2>2, <2>6, <3>1, <3>2 DEF HandlerCreate, Goto
    <3>3. CASE hmsg[h] \notin BadNames
      <4>1. hpc' = [hpc EXCEPT ![h] = "save"] /\ disk' = [disk EXCEPT ![hmsg[h]] = Nobody]
        BY <2>6, <3>3 DEF HandlerCreate, Goto
      <4>2. QED BY <1>2, <2>1, <3>1, <4>1 DEF PhotoOnDisk
    <3>4. QED BY <3>2, <3>3
  <2>7. ASSUME NEW h \in Peers, HandlerSave(h) PROVE PhotoOnDisk'
    <3>1. /\ UNCHANGED <<hmsg, hfrom>> /\ hpc[h] = "save"
          /\ hpc' = [hpc EXCEPT ![h] = "lock"] /\ disk' = [disk EXCEPT ![hmsg[h]] = hfrom[h]]
      BY <2>7 DEF HandlerSave, Goto
    <3>2. QED BY <1>2, <2>1, <3>1 DEF PhotoOnDisk
  <2>8. ASSUME NEW h \in Peers, HandlerStep(h), ~HandlerRecv(h), ~HandlerCreate(h), ~HandlerSave(h)
        PROVE  PhotoOnDisk'
    <3>1. UNCHANGED <<hmsg, hfrom, disk>>
      BY <2>8 DEF HandlerStep, HandlerCall, HandlerRecvError, HandlerLock, HandlerShift,
         HandlerWrite, HandlerUnlock, HandlerClose, HandlerDeactivate, dataVars
    <3>2. hpc[h] \notin {"create", "save"} /\ \A g \in Peers \ {h} : hpc'[g] = hpc[g]
      BY <2>1, <2>8 DEF HandlerStep, HandlerCall, HandlerRecvError, HandlerLock, HandlerShift,
         HandlerWrite, HandlerUnlock, HandlerClose, HandlerDeactivate, Goto
    <3>3. QED BY <2>2, <3>1, <3>2
  <2>9. QED BY <1>2, <2>3, <2>4, <2>5, <2>6, <2>7, <2>8 DEF Next
<1>3. QED BY <1>1, <1>2, TypeCorrect, PTL DEF Spec

-----------------------------------------------------------------------------
(* The last messages.  One inductive invariant says who has mutexMessages   *)
(* and how far its shift has come, another that a message is received once. *)

Posting == {"shift", "write", "unlock"}

\* A message is in its connection, with one handler, or with none yet.
Once ==
  /\ \A p \in Peers : sent[p] # Nobody => ppc[p] \notin {"away", "connected"}
  /\ \A h \in Peers : hfrom[h] # Nobody =>
       sent[hfrom[h]] = Nobody /\ ppc[hfrom[h]] \notin {"away", "connected"}
  /\ \A g, h \in Peers : hfrom[g] = hfrom[h] /\ hfrom[h] # Nobody => g = h
  /\ \A k \in DOMAIN arrived : \E h \in Peers :
       hfrom[h] = arrived[k] /\ hpc[h] \in Posting \cup {"close", "deactivate", "exit"}

\* The handler that has the mutex is posting the last message of "arrived";
\* while it shifts, the lines before hi - 1 are moved and the others are not.
Shifting ==
  /\ \A h \in Peers : hpc[h] \in Posting <=> mutex = h
  /\ \A h \in Peers : mutex = h =>
       arrived # << >> /\ arrived[Len(arrived)] = hfrom[h]
  /\ mutex = Nobody => \A i \in Line : lines[i] = Latest(i)
  /\ \A h \in Peers : hpc[h] = "unlock" => \A i \in Line : lines[i] = Latest(i)
  /\ \A h \in Peers : hpc[h] = "write" =>
       \A i \in Line : i < LastMessage + 1 => lines[i] = Latest(i)
  /\ \A h \in Peers : hpc[h] = "shift" => \A i \in Line :
       lines[i] = IF i < hi[h] - 1 THEN Latest(i) ELSE Latest(i - 1)

\* The table shows messages in order, and what is already on the screen came
\* no later than what may still be printed below it.
Ordered ==
  /\ \A i, j \in Line : i <= j /\ Nobody \notin {lines[i], lines[j]}
                          => NotAfter(lines[i], lines[j])
  /\ \A i \in DOMAIN screen : \A j \in Line :
       i < j /\ Nobody \notin {screen[i], lines[j]} => NotAfter(screen[i], lines[j])
  /\ \A i \in DOMAIN screen : screen[i] # Nobody => \E k \in DOMAIN arrived : screen[i] = arrived[k]
  /\ ScreenInOrder

LEMMA ArrivedSeq ==
  ASSUME TypeInv
  PROVE  /\ Len(arrived) \in Nat /\ DOMAIN arrived = 1..Len(arrived)
         /\ arrived \in [1..Len(arrived) -> Peers]
  BY LenProperties DEF TypeInv, TypeOK

LEMMA LockAppends ==
  ASSUME TypeInv, NEW h \in Peers, HandlerLock(h)
  PROVE  /\ Len(arrived') = Len(arrived) + 1 /\ DOMAIN arrived' = 1..(Len(arrived) + 1)
         /\ \A k \in 1..Len(arrived) : arrived'[k] = arrived[k]
         /\ arrived'[Len(arrived) + 1] = hfrom[h] /\ hfrom[h] \in Peers
<1>1. arrived \in Seq(Peers) /\ hfrom[h] \in Peers /\ arrived' = Append(arrived, hfrom[h])
  BY DEF TypeInv, TypeOK, HasMessage, HandlerLock
<1>2. QED BY <1>1, AppendProperties, LenProperties

LEMMA OnceStep ==
  ASSUME TypeInv, TypeInv', Once, [Next]_vars
  PROVE  Once'
<1> USE DEF Posting
<1>1. /\ hpc \in [Peers -> HandlerStage] /\ hconn \in [Peers -> Peers \cup {Nobody}]
      /\ hfrom \in [Peers -> Peers \cup {Nobody}] /\ sent \in [Peers -> Message \cup {Nobody}]
      /\ ppc \in [Peers -> {"away", "connected", "sent", "fin", "rst"}]
      /\ \A g \in Peers : hpc[g] \in {"none", "accepted", "call", "recv"} => hfrom[g] = Nobody
  BY DEF TypeInv, TypeOK, Fresh
<1>2. \A k \in DOMAIN arrived : arrived[k] \in Peers
  BY ArrivedSeq
<1>3. ASSUME UNCHANGED <<ppc, sent, hfrom, arrived>>,
             \A g \in Peers : \/ hpc'[g] = hpc[g]
                              \/ hpc[g] \in {"none", "accepted", "call", "recv"}
                              \/ hpc[g] \notin Posting \cup {"close", "deactivate", "exit"}
                              \/ hpc'[g] \in Posting \cup {"close", "deactivate", "exit"}
      PROVE  Once'
  BY <1>1, <1>2, <1>3 DEF Once
<1>4. CASE UNCHANGED vars \/ PrintLine
  BY <1>3, <1>4 DEF vars, PrintLine, peerVars, handlerVars, dataVars
<1>5. ASSUME NEW p \in Peers, PeerStep(p) PROVE Once'
  <2>1. UNCHANGED <<hpc, hfrom, arrived>>
    BY <1>5, OtherTable
  <2>2. CASE Connect(p) \/ Hangup(p)
    <3>1. UNCHANGED sent /\ \A q \in Peers : ppc'[q] # ppc[q] => ppc'[q] \notin {"away", "connected"}
                                                             \/ ppc[q] = "away"
      BY <1>1, <2>2 DEF Connect, Hangup
    <3>2. QED BY <1>1, <2>1, <3>1 DEF Once
  <2>3. CASE SendTo(p)
    <3>1. /\ ppc[p] = "connected" /\ ppc' = [ppc EXCEPT ![p] = "sent"]
          /\ \A q \in Peers \ {p} : sent'[q] = sent[q]
      BY <1>1, <2>3 DEF SendTo
    <3>2. QED BY <1>1, <2>1, <3>1 DEF Once
  <2>4. QED BY <1>5, <2>2, <2>3 DEF PeerStep
<1>6. CASE MainStep
  <2>1. UNCHANGED <<ppc, sent, hfrom, arrived>>
    BY <1>6 DEF MainStep, MainScan, MainClear, MainAccept, MainSpawn, peerVars, handlerVars,
       dataVars
  <2>2. \A g \in Peers : hpc'[g] = hpc[g] \/ hpc[g] \in {"none", "accepted"}
    BY <1>1, <1>6 DEF MainStep, MainScan, MainClear, MainAccept, MainSpawn, handlerVars
  <2>3. QED BY <1>3, <2>1, <2>2
<1>7. ASSUME NEW h \in Peers, HandlerRecv(h) PROVE Once'
  <2>1. /\ hpc[h] = "recv" /\ UNCHANGED <<ppc, arrived>> /\ hconn[h] \in Peers
        /\ sent[hconn[h]] # Nobody /\ sent' = [sent EXCEPT ![hconn[h]] = Nobody]
        /\ hfrom' = [hfrom EXCEPT ![h] = hconn[h]]
    BY <1>1, <1>7 DEF HandlerRecv, dataVars
  <2>2. \A g \in Peers \ {h} : hpc'[g] = hpc[g]
    BY <1>1, <1>7 DEF HandlerRecv, Goto
  <2>3. \A g \in Peers : hfrom[g] # hconn[h]
    BY <1>1, <2>1 DEF Once
  <2>4. \A k \in DOMAIN arrived : \E g \in Peers \ {h} :
          hfrom[g] = arrived[k] /\ hpc[g] \in Posting \cup {"close", "deactivate", "exit"}
    BY <1>1, <1>2, <2>1 DEF Once
  <2>5. QED BY <1>1, <2>1, <2>2, <2>3, <2>4 DEF Once
<1>8. ASSUME NEW h \in Peers, HandlerLock(h) PROVE Once'
  <2>1. /\ hpc[h] = "lock" /\ UNCHANGED <<ppc, sent, hfrom>>
        /\ hpc' = [hpc EXCEPT ![h] = "shift"]
    BY <1>8 DEF HandlerLock, Goto, peerVars
  <2>2. \A k \in DOMAIN arrived' : \E g \in Peers :
          hfrom[g] = arrived'[k] /\ hpc'[g] \in Posting \cup {"close", "deactivate", "exit"}
    <3>1. \A k \in 1..Len(arrived) : k \in DOMAIN arrived /\ arrived'[k] = arrived[k]
      BY <1>8, LockAppends, ArrivedSeq
    <3>2. \A k \in DOMAIN arrived' : k \in 1..Len(arrived) \/ k = Len(arrived) + 1
      BY <1>8, LockAppends, ArrivedSeq
    <3>3. arrived'[Len(arrived) + 1] = hfrom[h] /\ hpc'[h] = "shift"
      BY <1>1, <1>8, <2>1, LockAppends
    <3>4. \A g \in Peers : hpc[g] \in Posting \cup {"close", "deactivate", "exit"} => hpc'[g] = hpc[g]
      BY <1>1, <2>1
    <3>5. QED BY <3>1, <3>2, <3>3, <3>4 DEF Once
  <2>3. QED BY <2>1, <2>2 DEF Once
<1>9. ASSUME NEW h \in Peers, HandlerStep(h), ~HandlerRecv(h), ~HandlerLock(h) PROVE Once'
  <2>1. UNCHANGED <<ppc, sent, hfrom, arrived>>
    BY <1>9 DEF HandlerStep, HandlerCall, HandlerRecvError, HandlerCreate, HandlerSave,
       HandlerShift, HandlerWrite, HandlerUnlock, HandlerClose, HandlerDeactivate, peerVars,
       dataVars
  <2>2. \A g \in Peers : \/ hpc'[g] = hpc[g]
                         \/ hpc[g] \notin Posting \cup {"close", "deactivate", "exit"}
                         \/ hpc'[g] \in Posting \cup {"close", "deactivate", "exit"}
    BY <1>1, <1>9 DEF HandlerStep, HandlerCall, HandlerRecvError, HandlerCreate, HandlerSave,
       HandlerShift, HandlerWrite, HandlerUnlock, HandlerClose, HandlerDeactivate, Goto
  <2>3. QED BY <1>3, <2>1, <2>2
<1>10. QED BY <1>4, <1>5, <1>6, <1>7, <1>8, <1>9 DEF Next

\* Line i before and after one more message has arrived.
LEMMA LatestMoves ==
  ASSUME TypeInv, NEW h \in Peers, HandlerLock(h)
  PROVE  \A i \in Line : Latest(i)' = IF i = LastMessage + 1 THEN hfrom[h] ELSE Latest(i + 1)
<1>1. Len(arrived) \in Nat /\ Len(arrived') = Len(arrived) + 1
  BY ArrivedSeq, LockAppends
<1>2. ASSUME NEW i \in Line PROVE Latest(i)' = IF i = LastMessage + 1 THEN hfrom[h] ELSE Latest(i + 1)
  <2> DEFINE k == Len(arrived) + 1 - (LastMessage + 1) + i
  <2>1. k \in Int /\ k <= Len(arrived) + 1 /\ (k = Len(arrived) + 1 <=> i = LastMessage + 1)
    BY <1>1 DEF Line
  <2>2. Latest(i)' = IF k >= 1 THEN arrived'[k] ELSE Nobody
    BY <1>1 DEF Latest
  <2>3. Latest(i + 1) = IF k >= 1 THEN arrived[k] ELSE Nobody
    BY <1>1 DEF Latest, Line
  <2>4. k >= 1 /\ i # LastMessage + 1 => arrived'[k] = arrived[k]
    BY <1>1, <2>1, LockAppends DEF Line
  <2>5. k >= 1 /\ i = LastMessage + 1 => arrived'[k] = hfrom[h]
    BY <1>1, <2>1, LockAppends
  <2>6. i = LastMessage + 1 => k >= 1
    BY <1>1
  <2>7. QED BY <2>2, <2>3, <2>4, <2>5, <2>6
<1>3. QED BY <1>2

\* The line of the last message.
LEMMA LatestIsLast ==
  ASSUME TypeInv, arrived # << >>
  PROVE  Latest(LastMessage + 1) = arrived[Len(arrived)]
<1>1. Len(arrived) \in Nat /\ Len(arrived) # 0
  BY LenProperties, EmptySeq DEF TypeInv, TypeOK
<1>2. QED BY <1>1 DEF Latest

LEMMA ShiftingStep ==
  ASSUME TypeInv, TypeInv', Shifting, [Next]_vars
  PROVE  Shifting'
<1> USE DEF Posting
<1>1. /\ hpc \in [Peers -> HandlerStage] /\ hi \in [Peers -> 2..(LastMessage + 2)]
      /\ lines \in [Line -> Peers \cup {Nobody}] /\ mutex \in Peers \cup {Nobody}
  BY DEF TypeInv, TypeOK
<1>2. ASSUME UNCHANGED arrived PROVE \A i : Latest(i)' = Latest(i)
  BY <1>2 DEF Latest
<1>3. ASSUME UNCHANGED <<hfrom, hi, mutex, lines, arrived>>,
             \A g \in Peers : hpc'[g] = hpc[g] \/ {hpc[g], hpc'[g]} \cap Posting = {}
      PROVE  Shifting'
  BY <1>2, <1>3 DEF Shifting
<1>4. CASE PrintLine \/ UNCHANGED vars \/ \E p \in Peers : PeerStep(p)
  BY <1>3, <1>4, OtherTable
<1>5. CASE MainStep
  <2>1. UNCHANGED <<hfrom, hi, mutex, lines, arrived>>
    BY <1>5 DEF MainStep, MainScan, MainClear, MainAccept, MainSpawn, handlerVars, dataVars
  <2>2. \A g \in Peers : hpc'[g] = hpc[g] \/ {hpc[g], hpc'[g]} \cap Posting = {}
    BY <1>1, <1>5 DEF MainStep, MainScan, MainClear, MainAccept, MainSpawn, handlerVars
  <2>3. QED BY <1>3, <2>1, <2>2
<1>6. ASSUME NEW h \in Peers, HandlerRecv(h) PROVE Shifting'
  <2>1. /\ hpc[h] = "recv" /\ UNCHANGED <<hi, mutex, lines, arrived>>
        /\ \A g \in Peers \ {h} : hfrom'[g] = hfrom[g]
    BY <1>6 DEF HandlerRecv, dataVars, TypeInv, TypeOK
  <2>2. hpc'[h] \notin Posting /\ \A g \in Peers \ {h} : hpc'[g] = hpc[g]
    <3> DEFINE m == sent[hconn[h]]
    <3>1. CASE m = TEXT_MESSAGE
      BY <1>1, <1>6, <3>1 DEF HandlerRecv, Goto, TEXT_MESSAGE, Unknown
    <3>2. CASE m = Unknown
      BY <1>1, <1>6, <3>2 DEF HandlerRecv, Goto, TEXT_MESSAGE, Unknown
    <3>3. CASE m \notin {TEXT_MESSAGE, Unknown}
      BY <1>1, <1>6, <3>3 DEF HandlerRecv, Goto
    <3>4. QED BY <3>1, <3>2, <3>3
  <2>3. QED BY <1>2, <2>1, <2>2 DEF Shifting
<1>7. ASSUME NEW h \in Peers, HandlerLock(h) PROVE Shifting'
  <2>1. /\ mutex = Nobody /\ mutex' = h /\ UNCHANGED <<hfrom, lines>>
        /\ hpc' = [hpc EXCEPT ![h] = "shift"] /\ hi' = [hi EXCEPT ![h] = 2]
    BY <1>7 DEF HandlerLock, Goto
  <2>2. \A g \in Peers : hpc'[g] \in Posting <=> g = h
    BY <1>1, <2>1 DEF Shifting
  <2>3. arrived' # << >> /\ arrived'[Len(arrived')] = hfrom'[h]
    <3>1. Len(arrived') = Len(arrived) + 1 /\ Len(arrived) \in Nat /\ arrived'[Len(arrived) + 1] = hfrom[h]
      BY <1>7, LockAppends, ArrivedSeq
    <3>2. arrived' = Append(arrived, hfrom[h]) /\ arrived \in Seq(Peers) /\ hfrom[h] \in Peers
      BY <1>7 DEF HandlerLock, TypeInv, TypeOK, HasMessage
    <3>3. QED BY <2>1, <3>1, <3>2, AppendProperties
  <2>4. ASSUME NEW i \in Line
        PROVE  lines'[i] = IF i < hi'[h] - 1 THEN Latest(i)' ELSE Latest(i - 1)'
    <3>1. lines'[i] = Latest(i) /\ hi'[h] = 2 /\ i >= 1
      BY <1>1, <2>1 DEF Shifting, Line
    <3>2. CASE i = 1
      <4>1. Latest(0)' = Latest(1)
        <5>1. Len(arrived') = Len(arrived) + 1 /\ Len(arrived) \in Nat
              /\ \A k \in 1..Len(arrived) : arrived'[k] = arrived[k]
          BY <1>7, LockAppends, ArrivedSeq
        <5> DEFINE k == Len(arrived) - (LastMessage + 1) + 1
        <5>2. Latest(0)' = IF k >= 1 THEN arrived'[k] ELSE Nobody
          BY <5>1 DEF Latest
        <5>3. Latest(1) = IF k >= 1 THEN arrived[k] ELSE Nobody
          BY <5>1 DEF Latest
        <5>4. k >= 1 => k \in 1..Len(arrived)
          BY <5>1
        <5>5. QED BY <5>1, <5>2, <5>3, <5>4
      <4>2. QED BY <3>1, <3>2, <4>1
    <3>3. CASE i # 1
      <4>1. i - 1 \in Line /\ i - 1 # LastMessage + 1 /\ (i - 1) + 1 = i
        BY <3>1, <3>3 DEF Line
      <4>2. Latest(i - 1)' = Latest((i - 1) + 1)
        BY <1>7, <4>1, LatestMoves
      <4>3. Latest(i - 1)' = Latest(i)
        BY <4>1, <4>2 DEF Latest
      <4>4. ~(i < hi'[h] - 1)
        BY <3>1 DEF Line
      <4>5. QED BY <3>1, <4>3, <4>4
    <3>4. QED BY <3>2, <3>3
  <2>5. QED BY <1>1, <2>1, <2>2, <2>3, <2>4 DEF Shifting
<1>8. ASSUME NEW h \in Peers, HandlerShift(h) PROVE Shifting'
  <2>1. hpc[h] = "shift" /\ mutex = h /\ UNCHANGED <<hfrom, mutex, arrived>>
    BY <1>8 DEF HandlerShift, Shifting
  <2>2. \A g \in Peers \ {h} : hpc[g] \notin Posting
    BY <2>1 DEF Shifting
  <2>3. \A i \in Line : lines[i] = IF i < hi[h] - 1 THEN Latest(i) ELSE Latest(i - 1)
    BY <2>1 DEF Shifting
  <2>4. CASE hi[h] \in Line
    <3>1. /\ lines' = [lines EXCEPT ![hi[h] - 1] = lines[hi[h]]]
          /\ hi' = [hi EXCEPT ![h] = hi[h] + 1] /\ UNCHANGED hpc
      BY <1>8, <2>4 DEF HandlerShift
    <3>2. hi[h] - 1 \in Line
      BY <1>1, <2>4 DEF Line
    <3>3. lines[hi[h]] = Latest(hi[h] - 1)
      BY <1>1, <2>3, <2>4
    <3>4. hi'[h] = hi[h] + 1 /\ lines'[hi[h] - 1] = Latest(hi[h] - 1)
          /\ \A i \in Line \ {hi[h] - 1} : lines'[i] = lines[i]
      BY <1>1, <3>1, <3>2, <3>3
    <3>5. ASSUME NEW i \in Line
          PROVE  lines'[i] = IF i < hi'[h] - 1 THEN Latest(i) ELSE Latest(i - 1)
      BY <1>1, <2>3, <3>4 DEF Line
    <3>6. QED BY <1>1, <1>2, <2>1, <2>2, <3>1, <3>5 DEF Shifting
  <2>5. CASE hi[h] \notin Line
    <3>1. /\ lines' = [lines EXCEPT ![LastMessage + 1] = Nobody]
          /\ hpc' = [hpc EXCEPT ![h] = "write"] /\ UNCHANGED hi
      BY <1>8, <2>5 DEF HandlerShift, Goto
    <3>2. hi[h] = LastMessage + 2
      BY <1>1, <2>5 DEF Line
    <3>3. \A i \in Line : i < LastMessage + 1 => lines'[i] = Latest(i)
      BY <1>1, <2>3, <3>1, <3>2 DEF Line
    <3>4. QED BY <1>1, <1>2, <2>1, <2>2, <3>1, <3>3 DEF Shifting
  <2>6. QED BY <2>4, <2>5
<1>9. ASSUME NEW h \in Peers, HandlerWrite(h) PROVE Shifting'
  <2>1. /\ hpc[h] = "write" /\ mutex = h /\ UNCHANGED <<hfrom, mutex, arrived, hi>>
        /\ hpc' = [hpc EXCEPT ![h] = "unlock"]
        /\ lines' = [lines EXCEPT ![LastMessage + 1] = hfrom[h]]
    BY <1>9 DEF HandlerWrite, Goto, Shifting
  <2>2. \A g \in Peers \ {h} : hpc[g] \notin Posting
    BY <2>1 DEF Shifting
  <2>3. hfrom[h] = Latest(LastMessage + 1)
    BY <2>1, LatestIsLast DEF Shifting
  <2>4. \A i \in Line : lines'[i] = Latest(i)
    BY <1>1, <2>1, <2>3 DEF Shifting, Line
  <2>5. QED BY <1>1, <1>2, <2>1, <2>2, <2>4 DEF Shifting
<1>10. ASSUME NEW h \in Peers, HandlerUnlock(h) PROVE Shifting'
  <2>1. /\ hpc[h] = "unlock" /\ mutex = h /\ mutex' = Nobody
        /\ UNCHANGED <<hfrom, lines, arrived, hi>> /\ hpc' = [hpc EXCEPT ![h] = "close"]
    BY <1>10 DEF HandlerUnlock, Goto, Shifting
  <2>2. \A g \in Peers : hpc'[g] \notin Posting
    BY <1>1, <2>1 DEF Shifting
  <2>3. QED BY <1>2, <2>1, <2>2 DEF Shifting
<1>11. ASSUME NEW h \in Peers, HandlerStep(h), ~HandlerRecv(h), ~HandlerLock(h),
              ~HandlerShift(h), ~HandlerWrite(h), ~HandlerUnlock(h)
       PROVE  Shifting'
  <2>1. UNCHANGED <<hfrom, hi, mutex, lines, arrived>>
    BY <1>11 DEF HandlerStep, HandlerCall, HandlerRecvError, HandlerCreate, HandlerSave,
       HandlerClose, HandlerDeactivate, dataVars
  <2>2. \A g \in Peers : hpc'[g] = hpc[g] \/ {hpc[g], hpc'[g]} \cap Posting = {}
    BY <1>1, <1>11 DEF HandlerStep, HandlerCall, HandlerRecvError, HandlerCreate, HandlerSave,
       HandlerClose, HandlerDeactivate, Goto
  <2>3. QED BY <1>3, <2>1, <2>2
<1>12. QED BY <1>4, <1>5, <1>6, <1>7, <1>8, <1>9, <1>10, <1>11 DEF Next

LEMMA NotAfterGrows ==
  ASSUME TypeInv, NEW h \in Peers, HandlerLock(h), NEW a, NEW b, NotAfter(a, b)
  PROVE  NotAfter(a, b)'
<1>1. PICK i, j \in DOMAIN arrived : i <= j /\ arrived[i] = a /\ arrived[j] = b
  BY DEF NotAfter
<1>2. /\ i \in DOMAIN arrived' /\ arrived'[i] = a
      /\ j \in DOMAIN arrived' /\ arrived'[j] = b
  BY <1>1, LockAppends, ArrivedSeq
<1>3. QED BY <1>1, <1>2 DEF NotAfter

LEMMA OrderedStep ==
  ASSUME TypeInv, TypeInv', Shifting, Ordered, [Next]_vars
  PROVE  Ordered'
<1>1. /\ hi \in [Peers -> 2..(LastMessage + 2)] /\ lines \in [Line -> Peers \cup {Nobody}]
      /\ DOMAIN screen \subseteq Nat
  BY LenProperties DEF TypeInv, TypeOK
<1>2. ASSUME UNCHANGED arrived PROVE \A a, b : NotAfter(a, b)' = NotAfter(a, b)
  BY <1>2 DEF NotAfter
<1>3. ASSUME UNCHANGED <<screen, lines, arrived>> PROVE Ordered'
  BY <1>2, <1>3 DEF Ordered, ScreenInOrder
<1>4. CASE UNCHANGED vars \/ \E p \in Peers : PeerStep(p)
  BY <1>3, <1>4 DEF vars, dataVars, PeerStep, Connect, SendTo, Hangup
<1>5. CASE MainStep
  BY <1>3, <1>5 DEF MainStep, MainScan, MainClear, MainAccept, MainSpawn, dataVars
<1>6. CASE PrintLine
  <2>1. UNCHANGED <<lines, arrived>>
    BY <1>6 DEF PrintLine, dataVars
  <2>2. CASE Len(screen) = LastMessage + 1
    <3>1. screen' = << >> /\ DOMAIN screen' = {}
      BY <1>6, <2>2 DEF PrintLine
    <3>2. QED BY <1>2, <2>1, <3>1 DEF Ordered, ScreenInOrder
  <2>3. CASE Len(screen) # LastMessage + 1
    <3> DEFINE n == Len(screen) + 1
    <3>1. screen \in Seq(Peers \cup {Nobody}) /\ Len(screen) \in Nat /\ n \in Line
      BY <2>3, LenProperties DEF TypeInv, TypeOK, ScreenShort, Line
    <3>2. screen' = Append(screen, lines[n]) /\ lines[n] \in Peers \cup {Nobody}
      BY <1>1, <1>6, <2>3, <3>1 DEF PrintLine
    <3>3. /\ DOMAIN screen = 1..Len(screen) /\ DOMAIN screen' = 1..n
          /\ screen'[n] = lines[n] /\ \A i \in 1..Len(screen) : screen'[i] = screen[i]
      BY <3>1, <3>2, AppendProperties, LenProperties
    <3>4. ASSUME NEW i \in DOMAIN screen', NEW j \in Line, i < j,
                 Nobody \notin {screen'[i], lines[j]}
          PROVE  NotAfter(screen'[i], lines[j])
      <4>1. CASE i = n
        <5>1. n <= j /\ screen'[i] = lines[n]
          BY <3>1, <3>3, <3>4, <4>1 DEF Line
        <5>2. QED BY <3>1, <3>4, <5>1 DEF Ordered
      <4>2. CASE i # n
        BY <3>1, <3>3, <3>4, <4>2 DEF Ordered
      <4>3. QED BY <4>1, <4>2
    <3>5. ASSUME NEW i \in DOMAIN screen', screen'[i] # Nobody
          PROVE  \E k \in DOMAIN arrived : screen'[i] = arrived[k]
      <4>1. CASE i = n
        <5>1. NotAfter(lines[n], lines[n])
          BY <3>1, <3>3, <3>5, <4>1 DEF Ordered, Line
        <5>2. QED BY <3>3, <4>1, <5>1 DEF NotAfter
      <4>2. CASE i # n
        BY <3>1, <3>3, <3>5, <4>2 DEF Ordered
      <4>3. QED BY <4>1, <4>2
    <3>6. ASSUME NEW i \in DOMAIN screen', NEW j \in DOMAIN screen', i < j,
                 Nobody \notin {screen'[i], screen'[j]}
          PROVE  NotAfter(screen'[i], screen'[j])
      <4>1. i \in DOMAIN screen /\ screen'[i] = screen[i]
        BY <3>1, <3>3, <3>6
      <4>2. CASE j = n
        BY <3>1, <3>3, <3>6, <4>1, <4>2 DEF Ordered
      <4>3. CASE j # n
        BY <3>1, <3>3, <3>6, <4>1, <4>3 DEF Ordered, ScreenInOrder
      <4>4. QED BY <4>2, <4>3
    <3>7. QED BY <1>2, <2>1, <3>4, <3>5, <3>6 DEF Ordered, ScreenInOrder
  <2>4. QED BY <2>2, <2>3
<1>7. ASSUME NEW h \in Peers, HandlerLock(h) PROVE Ordered'
  <2>1. UNCHANGED <<lines, screen>>
    BY <1>7 DEF HandlerLock
  <2>2. \A k \in DOMAIN arrived : k \in DOMAIN arrived' /\ arrived'[k] = arrived[k]
    BY <1>7, LockAppends, ArrivedSeq
  <2>3. ScreenInOrder'
    BY <1>7, <2>1, NotAfterGrows DEF Ordered, ScreenInOrder
  <2>4. QED BY <1>7, <2>1, <2>2, <2>3, NotAfterGrows DEF Ordered
<1>8. ASSUME NEW h \in Peers, HandlerShift(h) PROVE Ordered'
  <2>1. UNCHANGED <<arrived, screen>> /\ hi[h] \in Nat
    BY <1>1, <1>8 DEF HandlerShift
  <2>2. CASE hi[h] \in Line
    <3>1. /\ hi[h] - 1 \in Line /\ lines' = [lines EXCEPT ![hi[h] - 1] = lines[hi[h]]]
      BY <1>1, <1>8, <2>2 DEF HandlerShift, Line
    <3>2. /\ lines'[hi[h] - 1] = lines[hi[h]]
          /\ \A i \in Line \ {hi[h] - 1} : lines'[i] = lines[i]
      BY <1>1, <3>1
    <3>3. \A i, j \in Line : i <= j /\ Nobody \notin {lines'[i], lines'[j]}
                             => NotAfter(lines'[i], lines'[j])
      BY <2>1, <2>2, <3>1, <3>2 DEF Ordered, Line
    <3>4. \A i \in DOMAIN screen : \A j \in Line :
            i < j /\ Nobody \notin {screen[i], lines'[j]} => NotAfter(screen[i], lines'[j])
      BY <1>1, <2>1, <2>2, <3>1, <3>2 DEF Ordered, Line
    <3>5. QED BY <1>2, <2>1, <3>3, <3>4 DEF Ordered, ScreenInOrder
  <2>3. CASE hi[h] \notin Line
    <3>1. lines' = [lines EXCEPT ![LastMessage + 1] = Nobody]
      BY <1>8, <2>3 DEF HandlerShift
    <3>2. \A i \in Line : lines'[i] # Nobody => lines'[i] = lines[i]
      BY <1>1, <3>1
    <3>3. QED BY <1>2, <2>1, <3>2 DEF Ordered, ScreenInOrder
  <2>4. QED BY <2>2, <2>3
<1>9. ASSUME NEW h \in Peers, HandlerWrite(h) PROVE Ordered'
  <2>1. /\ UNCHANGED <<arrived, screen>> /\ hpc[h] = "write"
        /\ lines' = [lines EXCEPT ![LastMessage + 1] = hfrom[h]]
    BY <1>9 DEF HandlerWrite
  <2>2. /\ Len(arrived) \in DOMAIN arrived /\ arrived[Len(arrived)] = hfrom[h]
        /\ \A k \in DOMAIN arrived : k <= Len(arrived)
    <3>1. arrived # << >> /\ arrived[Len(arrived)] = hfrom[h]
      BY <2>1 DEF Shifting, Posting
    <3>2. Len(arrived) \in Nat \ {0} /\ DOMAIN arrived = 1..Len(arrived)
      BY <3>1, ArrivedSeq, EmptySeq DEF TypeInv, TypeOK
    <3>3. QED BY <3>1, <3>2
  <2>3. \A k \in DOMAIN arrived : NotAfter(arrived[k], hfrom[h])
    BY <2>2 DEF NotAfter
  <2>4. /\ lines'[LastMessage + 1] = hfrom[h]
        /\ \A i \in Line \ {LastMessage + 1} : lines'[i] = lines[i]
    BY <1>1, <2>1 DEF Line
  <2>5. \A i \in Line : lines[i] # Nobody => \E k \in DOMAIN arrived : lines[i] = arrived[k]
    <3>1. \A i \in Line : lines[i] # Nobody => NotAfter(lines[i], lines[i])
      BY DEF Ordered, Line
    <3>2. QED BY <3>1 DEF NotAfter
  <2>6. ASSUME NEW i \in Line, NEW j \in Line, i <= j, Nobody \notin {lines'[i], lines'[j]}
        PROVE  NotAfter(lines'[i], lines'[j])
    <3>1. CASE j = LastMessage + 1
      <4>1. \E k \in DOMAIN arrived : lines'[i] = arrived[k]
        BY <2>2, <2>4, <2>5, <2>6
      <4>2. QED BY <2>3, <2>4, <3>1, <4>1
    <3>2. CASE j # LastMessage + 1
      BY <2>4, <2>6, <3>2 DEF Ordered, Line
    <3>3. QED BY <3>1, <3>2
  <2>7. ASSUME NEW i \in DOMAIN screen, NEW j \in Line, i < j,
               Nobody \notin {screen[i], lines'[j]}
        PROVE  NotAfter(screen[i], lines'[j])
    <3>1. CASE j = LastMessage + 1
      <4>1. \E k \in DOMAIN arrived : screen[i] = arrived[k]
        BY <2>7 DEF Ordered
      <4>2. QED BY <2>3, <2>4, <3>1, <4>1
    <3>2. CASE j # LastMessage + 1
      BY <2>4, <2>7, <3>2 DEF Ordered
    <3>3. QED BY <3>1, <3>2
  <2>8. QED BY <1>2, <2>1, <2>6, <2>7 DEF Ordered, ScreenInOrder
<1>10. ASSUME NEW h \in Peers, HandlerStep(h), ~HandlerLock(h), ~HandlerShift(h),
              ~HandlerWrite(h)
       PROVE  Ordered'
  BY <1>3, <1>10 DEF HandlerStep, HandlerCall, HandlerRecvError, HandlerRecv, HandlerCreate,
     HandlerSave, HandlerUnlock, HandlerClose, HandlerDeactivate, dataVars
<1>11. QED BY <1>4, <1>5, <1>6, <1>7, <1>8, <1>9, <1>10 DEF Next

LEMMA MessagesCorrect == Spec => [](TypeInv /\ Once /\ Shifting /\ Ordered)
<1>1. Init => Once /\ Shifting /\ Ordered
  <2>1. ASSUME Init PROVE \A i \in Line : Latest(i) = Nobody
    <3>1. Len(arrived) = 0
      BY <2>1, EmptySeq DEF Init
    <3>2. QED BY <3>1 DEF Latest, Line
  <2>2. Init => Once /\ Shifting
    BY <2>1 DEF Init, Once, Shifting, Posting
  <2>3. Init => Ordered
    BY DEF Init, Ordered, ScreenInOrder
  <2>4. QED BY <2>2, <2>3
<1>2. /\ TypeInv /\ TypeInv' /\ Once /\ Shifting /\ Ordered /\ [Next]_vars
      => Once' /\ Shifting' /\ Ordered'
  BY OnceStep, ShiftingStep, OrderedStep
<1>3. QED BY <1>1, <1>2, TypeCorrect, PTL DEF Spec

\* A message is posted once: nobody else has received it, and its handler has
\* not posted before.
LEMMA NoneTwice ==
  ASSUME TypeInv, Once, IsInjective(arrived), [Next]_vars
  PROVE  IsInjective(arrived)'
<1>1. ASSUME NEW h \in Peers, HandlerLock(h) PROVE IsInjective(arrived)'
  <2>1. hpc[h] = "lock" /\ hfrom[h] \in Peers
    BY <1>1, LockAppends DEF HandlerLock
  <2>2. \A k \in DOMAIN arrived : arrived[k] # hfrom[h]
    BY <2>1 DEF Once, Posting
  <2>3. QED
    BY <1>1, <2>2, LockAppends, ArrivedSeq DEF IsInjective
<1>2. ASSUME NEW h \in Peers, HandlerStep(h), ~HandlerLock(h) PROVE UNCHANGED arrived
  BY <1>2 DEF HandlerStep, HandlerCall, HandlerRecvError, HandlerRecv, HandlerCreate,
     HandlerSave, HandlerShift, HandlerWrite, HandlerUnlock, HandlerClose, HandlerDeactivate,
     dataVars
<1>3. MainStep => UNCHANGED arrived
  BY DEF MainStep, MainScan, MainClear, MainAccept, MainSpawn, dataVars
<1>4. QED BY <1>1, <1>2, <1>3, OtherTable DEF Next, IsInjective

\* Whichever handlers post at the same time, lastMessages holds the last
\* messages in the order their handlers took mutexMessages, and a screen that
\* is printed without the mutex never shows two of them in the wrong order.
THEOREM InOrderOfArrival == Spec => []MessagesInOrder
<1>1. Init => IsInjective(arrived)
  BY DEF Init, IsInjective
<1>2. Spec => []IsInjective(arrived)
  BY <1>1, NoneTwice, MessagesCorrect, PTL DEF Spec
<1>3. TypeInv /\ Shifting /\ Ordered /\ IsInjective(arrived) => MessagesInOrder
  <2>1. TypeInv /\ Shifting /\ mutex = Nobody => lines = [i \in Line |-> Latest(i)]
    BY DEF TypeInv, TypeOK, Shifting
  <2>2. QED BY <2>1 DEF MessagesInOrder, LatestLines, Ordered
<1>4. QED BY <1>2, <1>3, MessagesCorrect, PTL
=============================================================================
