--------------------------- MODULE P2PClientProofs ---------------------------
(* Theorems about the parts of one client, for every value of the constants: *)
(* the table and what is sent from it (P2PClient), the contacts and their     *)
(* file (ContactBook), the bytes of the connection (Framing).                 *)
EXTENDS MCP2PClient, FiniteSetTheorems, SequenceTheorems, TLAPS

USE ClientAssumption

Message == [to : Users, addr : Users \cup {Junk},
            kind : {TEXT_MESSAGE, IMAGE_MESSAGE}, state : {"new", "sent"}]

\* While a message is being sent there is a contact to send it to.
HasContact ==
  opc \in {"lock", "scan", "match", "copy", "done"} => group \in Groups /\ k \in 1..Len(group)

\* The strings of a ready entry are those of one user, or junk; an entry the
\* operation stopped at has been ready, so its pointers are not NULL.
Whole ==
  /\ \A s \in Slot : ready[s] => addr[s] = phone[s] /\ phone[s] \in Users \cup {Junk}
  /\ rpc = "address" => phone[ri] \in Users \cup {Junk}
  /\ opc \in {"match", "copy"} => addr[i] # Null

\* The entries from ri on are empty while the receiver fills the table; those
\* before ri are those of the frame.
Filling ==
  /\ rpc = "clear" => \A s \in Slot : s < ri => ~ready[s]
  /\ rpc \in {"name", "address"} =>
       /\ ri <= buf.count
       /\ \A s \in Slot : ready[s] <=> s < ri
  /\ rpc = "unlock" => \A s \in Slot : ready[s] <=> s <= buf.count
  /\ rpc \in {"name", "address", "unlock"} => \A s \in Slot :
       ready[s] /\ s <= Len(buf.list) => phone[s] = buf.list[s]
  /\ rpc = "address" /\ ri <= Len(buf.list) => phone[ri] = buf.list[ri]
  /\ rpc = "recv" /\ buf.kind = UPDATE_REQUEST =>
       \A s \in Slot : /\ ready[s] <=> s <= buf.count
                       /\ ready[s] /\ s <= Len(buf.list) => phone[s] = buf.list[s]

TypeInv == TypeOK /\ HasContact /\ Whole /\ Filling

-----------------------------------------------------------------------------
(* Lists and groups are sequences.                                           *)

LEMMA ListIsSeq ==
  ASSUME NEW l \in Lists
  PROVE  /\ l \in Seq(Users) /\ Len(l) \in Nat /\ Len(l) <= MaxOnlineUsers
         /\ DOMAIN l = 1..Len(l) /\ \A j \in 1..Len(l) : l[j] \in Users
<1>1. PICK n \in 0..MaxOnlineUsers : l \in [1..n -> Users]
  BY DEF Lists
<1>2. l \in Seq(Users)
  BY <1>1, SeqDef
<1>3. Len(l) \in Nat /\ DOMAIN l = 1..Len(l) /\ l \in [1..Len(l) -> Users]
  BY <1>2, LenProperties
<1>4. Len(l) = n
  BY <1>1, <1>3
<1>5. QED BY <1>1, <1>2, <1>3, <1>4

LEMMA GroupIsSeq ==
  ASSUME NEW g \in Groups
  PROVE  /\ g \in Seq(Users) /\ Len(g) \in 1..MaxGroupContact
         /\ DOMAIN g = 1..Len(g) /\ \A j \in 1..Len(g) : g[j] \in Users
<1>1. PICK n \in 1..MaxGroupContact : g \in [1..n -> Users]
  BY DEF Groups
<1>2. g \in Seq(Users)
  BY <1>1, SeqDef
<1>3. Len(g) \in Nat /\ DOMAIN g = 1..Len(g) /\ g \in [1..Len(g) -> Users]
  BY <1>2, LenProperties
<1>4. Len(g) = n
  BY <1>1, <1>3
<1>5. QED BY <1>1, <1>2, <1>3, <1>4

LEMMA Frames == NoFrame \in Frame /\ Ack \in Frame
<1>1. << >> \in Lists
  <2>1. << >> \in [1..0 -> Users]
    OBVIOUS
  <2>2. QED BY <2>1 DEF Lists, IsInjective
<1>2. QED BY <1>1 DEF Frame, NoFrame, Ack

LEMMA FrameFields ==
  ASSUME NEW f \in Frame
  PROVE  f.count \in 0..MaxOnlineUsers /\ f.list \in Lists
  BY DEF Frame

-----------------------------------------------------------------------------
(* Type correctness.                                                         *)

LEMMA ServerType ==
  ASSUME TypeInv, ServerStep
  PROVE  TypeInv'
<1>1. wire' \in Frame
  <2>1. CASE ServerPush
    <3>1. PICK l \in Lists, d \in {-1, 0, 1} :
            /\ Len(l) + d \in 1..MaxOnlineUsers
            /\ wire' = [kind |-> UPDATE_REQUEST, count |-> Len(l) + d, list |-> l]
      BY <2>1 DEF ServerPush
    <3>2. QED BY <3>1 DEF Frame
  <2>2. CASE ~ServerPush
    BY <2>2, Frames DEF ServerStep, ServerAck, ServerReset, Depart, TypeInv, TypeOK
  <2>3. QED BY <2>1, <2>2
<1>2. /\ listening' \subseteq Users /\ link' \in {"ok", "rst", "closed"}
      /\ pushes' \in 0..MaxPushes
  BY DEF ServerStep, ServerPush, ServerAck, ServerReset, Depart, TypeInv, TypeOK
<1>3. UNCHANGED <<up, tableVars, mutex, receiverVars, userVars, outbox>>
  BY DEF ServerStep, ServerPush, ServerAck, ServerReset, Depart
<1>4. TypeOK'
  BY <1>1, <1>2, <1>3 DEF TypeInv, TypeOK, tableVars, receiverVars, userVars
<1>5. HasContact' /\ Whole' /\ Filling'
  BY <1>3 DEF TypeInv, HasContact, Whole, Filling, tableVars, receiverVars, userVars
<1>6. QED BY <1>4, <1>5 DEF TypeInv

LEMMA ReceiverType ==
  ASSUME TypeInv, ReceiverStep
  PROVE  TypeInv'
<1> USE DEF TypeInv
<1>1. /\ buf \in Frame /\ wire \in Frame /\ stale \in Frame /\ ri \in Slot /\ i \in Slot
      /\ ready \in [Slot -> BOOLEAN] /\ phone \in [Slot -> Text] /\ addr \in [Slot -> Text]
      /\ buf.count \in 0..MaxOnlineUsers /\ buf.list \in Lists /\ stale.list \in Lists
  BY FrameFields DEF TypeOK
<1>2. Len(buf.list) \in Nat /\ \A j \in 1..Len(buf.list) : buf.list[j] \in Users
  BY <1>1, ListIsSeq
<1>3. CASE Receive
  <2>1. /\ buf' \in Frame /\ stale' \in Frame /\ wire' \in Frame /\ started' \in BOOLEAN
        /\ rpc' \in {"lock", "recv"} /\ (rpc' = "recv" => buf'.kind # UPDATE_REQUEST)
    BY <1>1, <1>3, Frames DEF Receive, Dispatch, TypeOK
  <2>2. UNCHANGED <<up, listening, link, pushes, tableVars, mutex, ri, userVars, outbox>>
    BY <1>3 DEF Receive
  <2>3. TypeOK'
    BY <2>1, <2>2 DEF TypeOK, tableVars, userVars
  <2>4. QED BY <2>1, <2>2, <2>3 DEF HasContact, Whole, Filling, tableVars, userVars
<1>4. CASE ReceiveError
  <2>1. PICK f \in {NoFrame, Ack, buf} : Dispatch(f) /\ (f # buf => buf = NoFrame)
    BY <1>4 DEF ReceiveError
  <2>2. /\ rpc = "recv" /\ link' = "closed"
        /\ UNCHANGED <<up, listening, wire, pushes, tableVars, mutex, ri, buf, stale, userVars, outbox>>
    BY <1>4 DEF ReceiveError
  <2>3. TypeOK'
    BY <2>1, <2>2 DEF TypeOK, Dispatch, tableVars, userVars
  <2>4. HasContact' /\ Whole' /\ Filling'
    BY <2>1, <2>2 DEF HasContact, Whole, Filling, Dispatch, tableVars, userVars
  <2>5. QED BY <2>3, <2>4
<1>5. CASE ReceiverLock
  <2>1. TypeOK'
    BY <1>5 DEF TypeOK, ReceiverLock, Slot, serverVars, tableVars, userVars
  <2>2. HasContact' /\ Whole' /\ Filling'
    BY <1>5 DEF HasContact, Whole, Filling, ReceiverLock, Slot, tableVars, userVars
  <2>3. QED BY <2>1, <2>2
<1>6. CASE ReceiverClear
  <2>1. /\ rpc = "clear" /\ UNCHANGED <<up, serverVars, mutex, buf, stale, started, userVars, outbox>>
    BY <1>6 DEF ReceiverClear
  <2>2. \/ /\ ready[ri] /\ ready' = [ready EXCEPT ![ri] = FALSE]
           /\ phone' = [phone EXCEPT ![ri] = Freed] /\ addr' = [addr EXCEPT ![ri] = Freed]
        \/ ~ready[ri] /\ UNCHANGED <<ready, phone, addr>>
    BY <1>6 DEF ReceiverClear, tableVars
  <2>3. \/ ri < MaxOnlineUsers /\ ri' = ri + 1 /\ rpc' = "clear"
        \/ ~(ri < MaxOnlineUsers) /\ ri' = 1 /\ rpc' = IF buf.count = 0 THEN "unlock" ELSE "name"
    BY <1>6, <2>1 DEF ReceiverClear
  <2>4. /\ ready' \in [Slot -> BOOLEAN] /\ phone' \in [Slot -> Text] /\ addr' \in [Slot -> Text]
        /\ ri' \in Slot /\ rpc' \in {"clear", "unlock", "name"}
    <3>1. ready' \in [Slot -> BOOLEAN]
      BY <1>1, <2>2
    <3>2. phone' \in [Slot -> Text] /\ addr' \in [Slot -> Text]
      <4>1. Freed \in Text
        BY DEF Text
      <4>2. QED BY <1>1, <2>2, <4>1
    <3>3. ri' \in Slot
      BY <1>1, <2>3 DEF Slot
    <3>4. rpc' \in {"clear", "unlock", "name"}
      BY <2>3
    <3>5. QED BY <3>1, <3>2, <3>3, <3>4
  <2>5. TypeOK'
    BY <2>1, <2>4 DEF TypeOK, serverVars, userVars
  <2>6. ~ready'[ri] /\ \A s \in Slot : s # ri => ready'[s] = ready[s] /\ phone'[s] = phone[s]
                                                   /\ addr'[s] = addr[s]
    BY <1>1, <2>2
  <2>7. Filling'
    BY <1>1, <2>1, <2>3, <2>6 DEF Filling, Slot
  <2>8. Whole'
    BY <1>1, <2>1, <2>2, <2>3, <2>6 DEF Whole, userVars
  <2>9. HasContact'
    BY <2>1 DEF HasContact, userVars
  <2>10. QED BY <2>5, <2>7, <2>8, <2>9
<1>7. CASE ReceiverName
  <2>1. PICK t \in Parsed(ri) : phone' = [phone EXCEPT ![ri] = t]
    BY <1>7 DEF ReceiverName
  <2>2. /\ rpc = "name" /\ rpc' = "address"
        /\ UNCHANGED <<up, serverVars, ready, addr, mutex, ri, buf, stale, started, userVars, outbox>>
    BY <1>7 DEF ReceiverName
  <2>3. t \in Users \cup {Junk} /\ (ri <= Len(buf.list) => t = buf.list[ri])
    <3>1. \A x \in ToSet(stale.list) : x \in Users
      BY <1>1, ListIsSeq DEF ToSet
    <3>2. QED BY <1>1, <1>2, <3>1 DEF Parsed, Slot
  <2>4. TypeOK'
    BY <1>1, <2>1, <2>2, <2>3 DEF TypeOK, Text, serverVars, userVars
  <2>5. Whole' /\ Filling'
    BY <1>1, <2>1, <2>2, <2>3 DEF Whole, Filling, Slot, userVars
  <2>6. HasContact'
    BY <2>2 DEF HasContact, userVars
  <2>7. QED BY <2>4, <2>5, <2>6
<1>8. CASE ReceiverAddress
  <2>1. /\ rpc = "address" /\ addr' = [addr EXCEPT ![ri] = phone[ri]]
        /\ ready' = [ready EXCEPT ![ri] = TRUE]
        /\ UNCHANGED <<up, serverVars, phone, mutex, buf, stale, started, userVars, outbox>>
    BY <1>8 DEF ReceiverAddress
  <2>2. \/ ri < buf.count /\ ri' = ri + 1 /\ rpc' = "name"
        \/ ~(ri < buf.count) /\ ri' = ri /\ rpc' = "unlock"
    BY <1>8 DEF ReceiverAddress
  <2>3. ri' \in Slot /\ rpc' \in {"name", "unlock"}
    BY <1>1, <2>2 DEF Slot
  <2>4. TypeOK'
    BY <1>1, <2>1, <2>3 DEF TypeOK, serverVars, userVars
  <2>5. phone[ri] \in Users \cup {Junk} /\ ri <= buf.count
    BY <2>1 DEF Whole, Filling
  <2>6. Whole'
    BY <1>1, <2>1, <2>2, <2>5 DEF Whole, userVars
  <2>7. Filling'
    BY <1>1, <1>2, <2>1, <2>2, <2>5 DEF Filling, Slot
  <2>8. HasContact'
    BY <2>1 DEF HasContact, userVars
  <2>9. QED BY <2>4, <2>6, <2>7, <2>8
<1>9. CASE ReceiverUnlock
  <2>1. /\ rpc = "unlock" /\ rpc' = "recv" /\ mutex' = "free"
        /\ UNCHANGED <<up, serverVars, tableVars, ri, buf, stale, started, userVars, outbox>>
    BY <1>9 DEF ReceiverUnlock
  <2>2. TypeOK'
    BY <2>1 DEF TypeOK, serverVars, tableVars, userVars
  <2>3. HasContact' /\ Whole' /\ Filling'
    BY <2>1 DEF HasContact, Whole, Filling, tableVars, userVars
  <2>4. QED BY <2>2, <2>3
<1>10. QED
  BY <1>3, <1>4, <1>5, <1>6, <1>7, <1>8, <1>9 DEF ReceiverStep

\* Going on to the next entry or the next contact.
LEMMA Advance ==
  ASSUME TypeInv, opc \in {"scan", "match", "copy"}, NextEntry \/ NextContact
  PROVE  k' \in 1..Len(group) /\ i' \in Slot /\ opc' \in {"scan", "done"}
<1>1. group \in Groups /\ k \in 1..Len(group) /\ i \in Slot
  BY DEF TypeInv, TypeOK, HasContact
<1>2. Len(group) \in Nat /\ 1 \in Slot
  BY <1>1, GroupIsSeq DEF Slot
<1>3. QED BY <1>1, <1>2 DEF NextEntry, NextContact, Slot

LEMMA OperationType ==
  ASSUME TypeInv, OperationStep \/ Choose
  PROVE  TypeInv'
<1> USE DEF TypeInv
<1>1. /\ ready \in [Slot -> BOOLEAN] /\ phone \in [Slot -> Text] /\ addr \in [Slot -> Text]
      /\ i \in Slot /\ group \in Groups \cup {<< >>} /\ outbox \in Seq(Message)
      /\ opc \in {"lock", "scan", "match", "copy", "done"} =>
           group \in Groups /\ k \in 1..Len(group)
  BY DEF TypeOK, HasContact, Message
<1>2. UNCHANGED <<serverVars, tableVars, receiverVars>>
  BY DEF OperationStep, Login, Started, OperationLock, Scan, Match, Copy, OperationDone, Choose
<1>3. Filling'
  BY <1>2 DEF Filling, tableVars, receiverVars
<1>4. ASSUME HasContact', k' \in Nat, i' \in Slot, up' \in BOOLEAN,
             kind' \in {TEXT_MESSAGE, IMAGE_MESSAGE}, group' \in Groups \cup {<< >>},
             k' \in 1..MaxGroupContact, sends' \in 0..MaxSends, outbox' \in Seq(Message),
             mutex' \in {"free", "receiver", "operation"},
             opc' \in {"login", "wait", "menu", "lock", "scan", "match", "copy", "done"},
             opc' \in {"match", "copy"} => addr'[i'] # Null
      PROVE  TypeInv'
  <2>1. TypeOK'
    BY <1>2, <1>4 DEF TypeOK, Message, serverVars, tableVars, receiverVars
  <2>2. Whole'
    BY <1>2, <1>4 DEF Whole, tableVars, receiverVars
  <2>3. QED BY <1>3, <1>4, <2>1, <2>2
<1>5. CASE Login \/ Started \/ OperationLock \/ OperationDone
  <2>1. UNCHANGED <<up, kind, group, k, i, sends, outbox>>
    BY <1>5 DEF Login, Started, OperationLock, OperationDone
  <2>2. /\ opc' \in {"wait", "menu", "scan"} /\ (opc' = "scan" => opc = "lock")
        /\ mutex' \in {"free", "operation", mutex}
    BY <1>5 DEF Login, Started, OperationLock, OperationDone
  <2>3. HasContact'
    BY <2>1, <2>2 DEF HasContact
  <2>4. k' \in Nat /\ k' \in 1..MaxGroupContact /\ i' \in Slot /\ outbox' \in Seq(Message)
    BY <1>1, <2>1 DEF TypeOK
  <2>5. /\ mutex' \in {"free", "receiver", "operation"} /\ up' \in BOOLEAN
        /\ kind' \in {TEXT_MESSAGE, IMAGE_MESSAGE} /\ group' \in Groups \cup {<< >>}
        /\ sends' \in 0..MaxSends
    BY <2>1, <2>2 DEF TypeOK
  <2>6. QED BY <1>4, <2>2, <2>3, <2>4, <2>5
<1>6. CASE Choose
  <2>1. PICK g \in Groups, m \in {TEXT_MESSAGE, IMAGE_MESSAGE} :
          /\ group' = g /\ kind' = m
          /\ opc' = IF m = TEXT_MESSAGE THEN "lock" ELSE "scan"
    BY <1>6 DEF Choose
  <2>2. /\ sends < MaxSends /\ sends' = sends + 1 /\ k' = 1 /\ i' = 1
        /\ UNCHANGED <<up, mutex, outbox>>
    BY <1>6 DEF Choose
  <2>3. 1 \in Slot /\ 1 \in 1..MaxGroupContact /\ 1 \in 1..Len(g)
    BY GroupIsSeq DEF Slot
  <2>4. HasContact'
    BY <2>1, <2>2, <2>3 DEF HasContact
  <2>5. sends' \in 0..MaxSends
    BY <2>2 DEF TypeOK
  <2>6. QED BY <1>1, <1>4, <2>1, <2>2, <2>3, <2>4, <2>5 DEF TypeOK
<1>7. CASE Scan \/ Match \/ Copy
  <2>1. /\ opc \in {"scan", "match", "copy"} /\ group \in Groups /\ k \in 1..Len(group)
        /\ UNCHANGED <<mutex, kind, group, sends>>
    BY <1>1, <1>7 DEF Scan, Match, Copy
  <2>2. Len(group) \in Nat /\ Len(group) <= MaxGroupContact
    BY <2>1, GroupIsSeq
  <2>3. up' \in BOOLEAN
    BY <1>7 DEF Scan, Match, Copy, TypeOK
  <2>4. /\ k' \in 1..Len(group) /\ i' \in Slot
        /\ opc' \in {"scan", "match", "copy", "done"}
        /\ opc' \in {"match", "copy"} => addr[i'] # Null
    <3>1. CASE NextEntry \/ NextContact
      BY <2>1, <3>1, Advance
    <3>2. CASE ~(NextEntry \/ NextContact)
      <4>1. UNCHANGED <<k, i>>
        BY <1>7, <3>2 DEF Scan, Match, Copy
      <4>2. CASE Scan
        <5>1. ready[i] /\ opc' = "match"
          BY <3>2, <4>2 DEF Scan
        <5>2. addr[i] # Null
          BY <1>1, <5>1 DEF Whole
        <5>3. QED BY <1>1, <2>1, <4>1, <5>1, <5>2
      <4>3. CASE Match \/ Copy
        <5>1. opc \in {"match", "copy"} /\ opc' \in {"match", "copy"}
          BY <3>2, <4>3 DEF Match, Copy
        <5>2. addr[i] # Null
          BY <5>1 DEF Whole
        <5>3. QED BY <1>1, <2>1, <4>1, <5>1, <5>2
      <4>4. QED BY <1>7, <4>2, <4>3
    <3>3. QED BY <3>1, <3>2
  <2>5. outbox' \in Seq(Message)
    <3>1. CASE UNCHANGED outbox
      BY <1>1, <3>1
    <3>2. CASE ~UNCHANGED outbox
      <4>1. /\ opc = "copy"
            /\ outbox' = Append(outbox, [to |-> group[k], kind |-> kind, state |-> "new",
                                         addr |-> IF addr[i] = Freed THEN Junk ELSE addr[i]])
        BY <1>7, <3>2 DEF Scan, Match, Copy
      <4>2. group[k] \in Users /\ addr[i] \in Text \ {Null}
        BY <1>1, <2>1, <4>1, GroupIsSeq DEF Whole
      <4>3. [to |-> group[k], kind |-> kind, state |-> "new",
             addr |-> IF addr[i] = Freed THEN Junk ELSE addr[i]] \in Message
        BY <4>2 DEF TypeOK, Message, Text
      <4>4. QED BY <1>1, <4>1, <4>3, AppendProperties
    <3>3. QED BY <3>1, <3>2
  <2>6. HasContact' /\ k' \in 1..MaxGroupContact
    BY <2>1, <2>2, <2>4 DEF HasContact
  <2>7. addr' = addr
    BY <1>2 DEF tableVars
  <2>8. QED BY <1>1, <1>4, <2>1, <2>3, <2>4, <2>5, <2>6, <2>7 DEF TypeOK
<1>8. QED BY <1>5, <1>6, <1>7 DEF OperationStep

LEMMA SenderType ==
  ASSUME TypeInv, NEW n \in DOMAIN outbox, P2Sender(n)
  PROVE  TypeInv'
<1> USE DEF TypeInv
<1>1. UNCHANGED <<serverVars, tableVars, mutex, receiverVars, userVars>> /\ up' \in BOOLEAN
  BY DEF P2Sender, TypeOK
<1>2. outbox' \in Seq(Message)
  <2>1. outbox \in Seq(Message) /\ DOMAIN outbox = 1..Len(outbox)
    BY LenProperties DEF TypeOK, Message
  <2>2. outbox[n] \in Message
    BY <2>1, ElementOfSeq
  <2>3. [outbox[n] EXCEPT !.state = "sent"] \in Message
    BY <2>2 DEF Message
  <2>4. outbox' = outbox \/ outbox' = [outbox EXCEPT ![n] = [outbox[n] EXCEPT !.state = "sent"]]
    BY DEF P2Sender
  <2>5. \A e \in Message : [outbox EXCEPT ![n] = e] \in Seq(Message)
    BY <2>1, ExceptSeq
  <2>6. QED BY <2>1, <2>3, <2>4, <2>5
<1>3. TypeOK'
  BY <1>1, <1>2 DEF TypeOK, Message, serverVars, tableVars, receiverVars, userVars
<1>4. HasContact' /\ Whole' /\ Filling'
  BY <1>1 DEF HasContact, Whole, Filling, tableVars, receiverVars, userVars
<1>5. QED BY <1>3, <1>4

LEMMA InitType == Init => TypeInv
<1> SUFFICES ASSUME Init PROVE TypeInv
  OBVIOUS
<1>1. TypeOK
  <2>1. << >> \in Seq(Message) /\ 1 \in Slot /\ 1 \in 1..MaxGroupContact
    BY EmptySeq DEF Slot
  <2>2. phone \in [Slot -> Text] /\ addr \in [Slot -> Text] /\ ready \in [Slot -> BOOLEAN]
    BY DEF Init, Text
  <2>3. outbox \in Seq(Message) /\ wire \in Frame /\ buf \in Frame /\ stale \in Frame
    BY <2>1, Frames DEF Init
  <2>4. ri \in Slot /\ i \in Slot /\ k \in 1..MaxGroupContact
    BY <2>1 DEF Init
  <2>5. pushes \in 0..MaxPushes /\ sends \in 0..MaxSends
    BY DEF Init
  <2>6. /\ up \in BOOLEAN /\ started \in BOOLEAN /\ listening \subseteq Users
        /\ link \in {"ok", "rst", "closed"} /\ mutex \in {"free", "receiver", "operation"}
        /\ rpc \in {"recv", "lock", "clear", "name", "address", "unlock"}
        /\ opc \in {"login", "wait", "menu", "lock", "scan", "match", "copy", "done"}
        /\ kind \in {TEXT_MESSAGE, IMAGE_MESSAGE} /\ group \in Groups \cup {<< >>}
    BY DEF Init
  <2>7. QED BY <2>2, <2>3, <2>4, <2>5, <2>6 DEF TypeOK, Message
<1>2. HasContact /\ Whole /\ Filling
  BY DEF Init, HasContact, Whole, Filling, NoFrame, UPDATE_REQUEST
<1>3. QED BY <1>1, <1>2 DEF TypeInv

LEMMA StutterType ==
  ASSUME TypeInv, UNCHANGED vars
  PROVE  TypeInv'
  BY DEF TypeInv, TypeOK, HasContact, Whole, Filling, vars, serverVars, tableVars,
         receiverVars, userVars

LEMMA StepType ==
  ASSUME TypeInv, [Next]_vars
  PROVE  TypeInv'
  BY ServerType, ReceiverType, OperationType, SenderType, StutterType DEF Next

\* Every state has its type, and the table is filled as the frame says: after
\* the critical section of serverReceiver it is the list last received.
THEOREM LastListInTable == Spec => []TableIsLastList
<1>1. TypeInv => TableIsLastList
  BY DEF TypeInv, Whole, Filling, TableIsLastList
<1>2. QED BY <1>1, InitType, StepType, PTL DEF Spec

-----------------------------------------------------------------------------
(* Mutual exclusion, and where texts go.                                     *)

Sending == opc \in {"scan", "match", "copy", "done"} /\ kind = TEXT_MESSAGE

\* mutexOnlineUsers is held for the whole of a text, and by the receiver while
\* it writes the table.
Exclusive ==
  /\ Sending <=> mutex = "operation"
  /\ rpc \in {"clear", "name", "address", "unlock"} <=> mutex = "receiver"
  /\ opc = "lock" => kind = TEXT_MESSAGE

\* While a text is being sent, the entry the operation stopped at stays what
\* it was found to be.
Found ==
  Sending => /\ opc \in {"match", "copy"} => ready[i]
             /\ opc = "copy" => phone[i] = group[k]

SendInv == TypeInv /\ Exclusive /\ Found /\ TextToRecipient /\ DiesOfDeparture

\* The table does not change under a text.
LEMMA TableHeld ==
  ASSUME TypeInv, Exclusive, Sending, ReceiverStep
  PROVE  UNCHANGED tableVars
<1>1. rpc \notin {"clear", "name", "address", "unlock"}
  BY DEF Exclusive
<1>2. QED BY <1>1 DEF ReceiverStep, Receive, ReceiverLock, ReceiveError, ReceiverClear,
               ReceiverName, ReceiverAddress, ReceiverUnlock, tableVars

LEMMA ExclusiveStep ==
  ASSUME TypeInv, Exclusive, Next
  PROVE  Exclusive'
<1>1. CASE ServerStep
  <2>1. UNCHANGED <<mutex, rpc, opc, kind>>
    BY <1>1 DEF ServerStep, ServerPush, ServerAck, ServerReset, Depart, receiverVars, userVars
  <2>2. QED BY <2>1 DEF Exclusive, Sending
<1>2. CASE ReceiverStep
  <2>1. UNCHANGED <<opc, kind>>
    BY <1>2 DEF ReceiverStep, Receive, ReceiveError, ReceiverLock, ReceiverClear, ReceiverName,
            ReceiverAddress, ReceiverUnlock, userVars
  <2>2. CASE ReceiverLock
    BY <2>1, <2>2 DEF ReceiverLock, Exclusive, Sending
  <2>3. CASE ReceiverUnlock
    BY <2>1, <2>3 DEF ReceiverUnlock, Exclusive, Sending
  <2>4. CASE Receive \/ ReceiveError
    <3>1. mutex' = mutex /\ rpc = "recv" /\ rpc' \in {"lock", "recv"}
      BY <2>4 DEF Receive, ReceiveError, Dispatch
    <3>2. QED BY <2>1, <3>1 DEF Exclusive, Sending
  <2>5. CASE ReceiverClear \/ ReceiverName \/ ReceiverAddress
    <3>1. /\ mutex' = mutex /\ rpc \in {"clear", "name", "address"}
          /\ rpc' \in {"clear", "name", "address", "unlock"}
      BY <2>5 DEF ReceiverClear, ReceiverName, ReceiverAddress
    <3>2. QED BY <2>1, <3>1 DEF Exclusive, Sending
  <2>6. QED BY <1>2, <2>2, <2>3, <2>4, <2>5 DEF ReceiverStep
<1>3. CASE OperationStep \/ Choose
  <2>1. UNCHANGED rpc
    BY <1>3 DEF OperationStep, Login, Started, OperationLock, Scan, Match, Copy, OperationDone,
            Choose, receiverVars
  <2>2. CASE Login \/ Started
    BY <2>1, <2>2 DEF Login, Started, Exclusive, Sending
  <2>3. CASE OperationLock
    BY <2>1, <2>3 DEF OperationLock, Exclusive, Sending
  <2>4. CASE OperationDone
    BY <2>1, <2>4 DEF OperationDone, Exclusive, Sending, TEXT_MESSAGE, IMAGE_MESSAGE
  <2>5. CASE Choose
    <3>1. /\ opc = "menu" /\ mutex' = mutex
          /\ \/ kind' = TEXT_MESSAGE /\ opc' = "lock"
             \/ kind' = IMAGE_MESSAGE /\ opc' = "scan"
      BY <2>5 DEF Choose, TEXT_MESSAGE, IMAGE_MESSAGE
    <3>2. QED BY <2>1, <3>1 DEF Exclusive, Sending, TEXT_MESSAGE, IMAGE_MESSAGE
  <2>6. CASE Scan \/ Match \/ Copy
    <3>1. /\ UNCHANGED <<mutex, kind>> /\ opc \in {"scan", "match", "copy"}
          /\ opc' \in {"scan", "match", "copy", "done"}
      <4>1. opc \in {"scan", "match", "copy"} /\ UNCHANGED <<mutex, kind>>
        BY <2>6 DEF Scan, Match, Copy
      <4>2. NextEntry \/ NextContact => opc' \in {"scan", "done"}
        BY DEF NextEntry, NextContact
      <4>3. QED BY <2>6, <4>1, <4>2 DEF Scan, Match, Copy
    <3>2. QED BY <2>1, <3>1 DEF Exclusive, Sending
  <2>7. QED BY <1>3, <2>2, <2>3, <2>4, <2>5, <2>6 DEF OperationStep
<1>4. CASE \E n \in DOMAIN outbox : P2Sender(n)
  <2>1. UNCHANGED <<mutex, rpc, opc, kind>>
    BY <1>4 DEF P2Sender, receiverVars, userVars
  <2>2. QED BY <2>1 DEF Exclusive, Sending
<1>5. QED BY <1>1, <1>2, <1>3, <1>4 DEF Next

LEMMA FoundStep ==
  ASSUME TypeInv, Exclusive, Found, Next
  PROVE  Found'
<1>1. CASE ServerStep \/ ReceiverStep \/ \E n \in DOMAIN outbox : P2Sender(n)
  <2>1. UNCHANGED userVars
    BY <1>1 DEF ServerStep, ServerPush, ServerAck, ServerReset, Depart, ReceiverStep, Receive,
            ReceiveError, ReceiverLock, ReceiverClear, ReceiverName, ReceiverAddress,
            ReceiverUnlock, P2Sender
  <2>2. Sending => UNCHANGED tableVars
    <3>1. ServerStep \/ (\E n \in DOMAIN outbox : P2Sender(n)) => UNCHANGED tableVars
      BY DEF ServerStep, ServerPush, ServerAck, ServerReset, Depart, P2Sender
    <3>2. QED BY <1>1, <3>1, TableHeld
  <2>3. QED BY <2>1, <2>2 DEF Found, Sending, userVars, tableVars
<1>2. CASE OperationStep \/ Choose
  <2>1. UNCHANGED <<ready, phone>>
    BY <1>2 DEF OperationStep, Login, Started, OperationLock, Scan, Match, Copy, OperationDone,
            Choose, tableVars
  <2>2. NextEntry \/ NextContact => opc' \in {"scan", "done"}
    BY DEF NextEntry, NextContact
  <2>3. CASE Scan
    BY <2>1, <2>2, <2>3 DEF Scan, Found, Sending
  <2>4. CASE Match
    <3>1. UNCHANGED <<kind, group>> /\ opc = "match"
      BY <2>4 DEF Match
    <3>2. CASE NextEntry
      BY <2>2, <3>2 DEF Found
    <3>3. CASE ~NextEntry
      <4>1. UNCHANGED <<k, i>>
        BY <2>4, <3>3 DEF Match
      <4>2. SUFFICES ASSUME Sending' PROVE ready[i] /\ (opc' = "copy" => phone[i] = group[k])
        BY <2>1, <3>1, <4>1 DEF Found
      <4>3. ready[i]
        BY <3>1, <4>2 DEF Found, Sending
      <4>4. phone[i] # Freed
        BY <4>3 DEF TypeInv, Whole, TypeOK
      <4>5. QED BY <2>4, <3>3, <4>3, <4>4 DEF Match
    <3>4. QED BY <3>2, <3>3
  <2>5. CASE Copy
    <3>1. UNCHANGED <<kind, group>> /\ opc = "copy"
      BY <2>5 DEF Copy
    <3>2. CASE NextContact
      BY <2>2, <3>2 DEF Found
    <3>3. CASE ~NextContact
      BY <2>1, <2>5, <3>1, <3>3 DEF Copy, Found, Sending
    <3>4. QED BY <3>2, <3>3
  <2>6. CASE Login \/ Started \/ OperationLock \/ OperationDone \/ Choose
    <3>1. opc' \in {"wait", "menu", "scan", "lock"}
      BY <2>6 DEF Login, Started, OperationLock, OperationDone, Choose
    <3>2. QED BY <3>1 DEF Found
  <2>7. QED BY <1>2, <2>3, <2>4, <2>5, <2>6 DEF OperationStep
<1>3. QED BY <1>1, <1>2 DEF Next

\* What Copy sends for a text: the contact's own address, and without a fault.
LEMMA CopyOfText ==
  ASSUME TypeInv, Found, Copy, kind = TEXT_MESSAGE
  PROVE  /\ addr[i] = group[k] /\ addr[i] # Freed /\ up' = up /\ NextContact
         /\ outbox' = Append(outbox, [to |-> group[k], kind |-> kind, state |-> "new",
                                      addr |-> group[k]])
<1>1. opc = "copy" /\ i \in Slot
  BY DEF Copy, TypeInv, TypeOK
<1>2. ready[i] /\ phone[i] = group[k]
  BY <1>1 DEF Found, Sending
<1>3. addr[i] = group[k] /\ addr[i] # Freed
  BY <1>1, <1>2 DEF TypeInv, Whole
<1>4. QED BY <1>3 DEF Copy

LEMMA TextStep ==
  ASSUME TypeInv, Found, TextToRecipient, Next
  PROVE  TextToRecipient'
<1>1. outbox \in Seq(Message) /\ Len(outbox) \in Nat /\ DOMAIN outbox = 1..Len(outbox)
  BY LenProperties DEF TypeInv, TypeOK, Message
<1>2. CASE UNCHANGED outbox
  BY <1>2 DEF TextToRecipient
<1>3. CASE Copy /\ ~UNCHANGED outbox
  <2>1. PICK m \in Message : outbox' = Append(outbox, m) /\ (m.kind = TEXT_MESSAGE => m.addr = m.to)
    <3>1. group[k] \in Users /\ addr[i] \in Text \ {Null}
      BY <1>3, GroupIsSeq DEF Copy, TypeInv, TypeOK, HasContact, Whole
    <3>2. \A a \in Users \cup {Junk} :
            [to |-> group[k], kind |-> kind, state |-> "new", addr |-> a] \in Message
      BY <3>1 DEF TypeInv, TypeOK, Message
    <3>3. outbox' = Append(outbox, [to |-> group[k], kind |-> kind, state |-> "new",
                                    addr |-> IF addr[i] = Freed THEN Junk ELSE addr[i]])
      BY <1>3 DEF Copy
    <3>4. kind = TEXT_MESSAGE => addr[i] = group[k] /\ addr[i] # Freed
      BY <1>3, CopyOfText
    <3>5. (IF addr[i] = Freed THEN Junk ELSE addr[i]) \in Users \cup {Junk}
      BY <3>1 DEF Text
    <3>6. QED BY <3>2, <3>3, <3>4, <3>5
  <2>2. /\ Len(outbox') = Len(outbox) + 1 /\ outbox'[Len(outbox) + 1] = m
        /\ \A n \in 1..Len(outbox) : outbox'[n] = outbox[n]
        /\ DOMAIN outbox' = 1..Len(outbox')
    <3>1. outbox' \in Seq(Message)
      BY <1>1, <2>1, AppendProperties
    <3>2. QED BY <1>1, <2>1, <3>1, AppendProperties, LenProperties
  <2>3. QED BY <1>1, <2>1, <2>2 DEF TextToRecipient
<1>4. CASE \E n \in DOMAIN outbox : P2Sender(n)
  <2>1. PICK n \in DOMAIN outbox : outbox' = outbox \/ outbox' = [outbox EXCEPT ![n].state = "sent"]
    BY <1>4 DEF P2Sender
  <2>2. \A j \in 1..Len(outbox) : outbox[j] \in Message
    BY <1>1, ElementOfSeq
  <2>3. DOMAIN outbox' = DOMAIN outbox
    BY <2>1
  <2>4. \A j \in 1..Len(outbox) : /\ outbox'[j].kind = outbox[j].kind
                                  /\ outbox'[j].addr = outbox[j].addr
                                  /\ outbox'[j].to = outbox[j].to
    BY <1>1, <2>1, <2>2 DEF Message
  <2>5. QED BY <1>1, <2>3, <2>4 DEF TextToRecipient
<1>5. ServerStep \/ ReceiverStep \/ Choose => UNCHANGED outbox
  BY DEF ServerStep, ServerPush, ServerAck, ServerReset, Depart, ReceiverStep, Receive,
         ReceiveError, ReceiverLock, ReceiverClear, ReceiverName, ReceiverAddress,
         ReceiverUnlock, Choose
<1>6. OperationStep => Copy \/ UNCHANGED outbox
  BY DEF OperationStep, Login, Started, OperationLock, Scan, Match, OperationDone
<1>7. QED BY <1>2, <1>3, <1>4, <1>5, <1>6 DEF Next

LEMMA DeathStep ==
  ASSUME TypeInv, Found, TextToRecipient, DiesOfDeparture, Next
  PROVE  DiesOfDeparture'
<1>1. outbox \in Seq(Message) /\ Len(outbox) \in Nat /\ DOMAIN outbox = 1..Len(outbox)
  BY LenProperties DEF TypeInv, TypeOK, Message
<1>2. CASE ServerStep
  <2>1. UNCHANGED <<up, kind, outbox>> /\ listening' \subseteq listening
    BY <1>2 DEF ServerStep, ServerPush, ServerAck, ServerReset, Depart, userVars
  <2>2. listening # Users => listening' # Users
    BY <2>1 DEF TypeInv, TypeOK
  <2>3. QED BY <2>1, <2>2 DEF DiesOfDeparture
<1>3. CASE up /\ up' = up
  BY <1>3 DEF DiesOfDeparture
<1>4. ReceiverStep \/ Login \/ Started \/ OperationLock \/ Scan \/ OperationDone \/ Choose => up /\ up' = up
  BY DEF ReceiverStep, Receive, ReceiveError, ReceiverLock, ReceiverClear, ReceiverName,
         ReceiverAddress, ReceiverUnlock, Login, Started, OperationLock, Scan, OperationDone, Choose
<1>5. CASE Match
  <2>1. CASE kind = TEXT_MESSAGE
    <3>1. ready[i] /\ i \in Slot
      BY <1>5, <2>1 DEF Match, Found, Sending, TypeInv, TypeOK
    <3>2. phone[i] # Freed
      BY <3>1 DEF TypeInv, Whole
    <3>3. up /\ up' = up
      BY <1>5, <3>2 DEF Match
    <3>4. QED BY <1>3, <3>3
  <2>2. CASE kind # TEXT_MESSAGE
    <3>1. kind' = IMAGE_MESSAGE
      BY <1>5, <2>2 DEF Match, TypeInv, TypeOK
    <3>2. QED BY <3>1 DEF DiesOfDeparture
  <2>3. QED BY <2>1, <2>2
<1>6. CASE Copy
  <2>1. CASE kind = TEXT_MESSAGE
    BY <1>3, <1>6, <2>1, CopyOfText DEF Copy
  <2>2. CASE kind # TEXT_MESSAGE
    <3>1. kind' = IMAGE_MESSAGE
      BY <1>6, <2>2 DEF Copy, TypeInv, TypeOK
    <3>2. QED BY <3>1 DEF DiesOfDeparture
  <2>3. QED BY <2>1, <2>2
<1>7. CASE \E n \in DOMAIN outbox : P2Sender(n)
  <2>1. PICK n \in DOMAIN outbox : P2Sender(n)
    BY <1>7
  <2>2. CASE outbox[n].addr \in listening
    <3>1. up /\ up' = up
      BY <2>1, <2>2 DEF P2Sender
    <3>2. QED BY <1>3, <3>1
  <2>3. CASE outbox[n].addr \notin listening
    <3>1. UNCHANGED <<outbox, listening>>
      BY <2>1, <2>3 DEF P2Sender, serverVars
    <3>2. outbox[n] \in Message
      BY <1>1, ElementOfSeq
    <3>3. CASE outbox[n].kind = IMAGE_MESSAGE
      BY <3>1, <3>3 DEF DiesOfDeparture
    <3>4. CASE outbox[n].kind = TEXT_MESSAGE
      <4>1. outbox[n].addr \in Users
        BY <3>2, <3>4 DEF TextToRecipient, Message
      <4>2. QED BY <2>3, <3>1, <4>1 DEF DiesOfDeparture
    <3>5. QED BY <3>2, <3>3, <3>4 DEF Message
  <2>4. QED BY <2>2, <2>3
<1>8. QED BY <1>2, <1>3, <1>4, <1>5, <1>6, <1>7 DEF Next, OperationStep

LEMMA SendInit == Init => SendInv
<1> SUFFICES ASSUME Init PROVE SendInv
  OBVIOUS
<1>1. Exclusive /\ Found
  BY DEF Init, Exclusive, Found, Sending
<1>2. TextToRecipient /\ DiesOfDeparture
  BY DEF Init, TextToRecipient, DiesOfDeparture
<1>3. QED BY <1>1, <1>2, InitType DEF SendInv

LEMMA SendStep ==
  ASSUME SendInv, [Next]_vars
  PROVE  SendInv'
<1>1. CASE Next
  BY <1>1, StepType, ExclusiveStep, FoundStep, TextStep, DeathStep DEF SendInv
<1>2. CASE UNCHANGED vars
  <2>1. UNCHANGED <<up, listening, ready, phone, addr, mutex, rpc, opc, kind, group, k, i, outbox>>
    BY <1>2 DEF vars, serverVars, tableVars, receiverVars, userVars
  <2>2. QED BY <1>2, <2>1, StutterType DEF SendInv, Exclusive, Found, Sending,
            TextToRecipient, DiesOfDeparture
<1>3. QED BY <1>1, <1>2

\* The client of a user who sends texts only ends when a contact has gone:
\* neither Match nor Copy of a text meets freed memory.
THEOREM DeathNeedsDeparture == Spec => []DiesOfDeparture
<1>1. SendInv => DiesOfDeparture
  BY DEF SendInv
<1>2. QED BY <1>1, SendInit, SendStep, PTL DEF Spec

-----------------------------------------------------------------------------
(* Every contact of a group is served once, in the order of the group.       *)

\* The last messages of out are for the contacts of g numbered in hits.
InTurn(hits, g, out) ==
  LET number == Cardinality(hits)
      before == Len(out) - number
  IN  /\ before >= 0
      /\ \E order \in [1..number -> hits] :
           /\ \A a, b \in 1..number : a < b => order[a] < order[b]
           /\ \A a \in 1..number : out[before + a].to = g[order[a]]

\* The contacts up to m of the group g that are in the table.
Hits(m, g, r, p) == {j \in 1..m : \E s \in Slot : r[s] /\ p[s] = g[j]}

\* How far a text has come: the contacts before k are served, and contact k is
\* in none of the entries before i.
Progress ==
  /\ opc = "lock" => k = 1 /\ i = 1
  /\ Sending /\ opc # "done" =>
       /\ InTurn(Hits(k - 1, group, ready, phone), group, outbox)
       /\ \A s \in Slot : s < i /\ ready[s] => phone[s] # group[k]
  /\ Sending /\ opc = "done" => InTurn(Hits(Len(group), group, ready, phone), group, outbox)

LEMMA InTurnNone ==
  ASSUME NEW g, NEW out \in Seq(Message)
  PROVE  InTurn({}, g, out)
<1>1. Cardinality({}) = 0 /\ Len(out) \in Nat
  BY FS_EmptySet, LenProperties
<1>2. [a \in 1..0 |-> a] \in [1..0 -> {}]
  OBVIOUS
<1>3. Len(out) - 0 >= 0 /\ \A a \in 1..0 : FALSE
  BY <1>1
<1>4. \E order \in [1..0 -> {}] :
        /\ \A a, b \in 1..0 : a < b => order[a] < order[b]
        /\ \A a \in 1..0 : out[Len(out) - 0 + a].to = g[order[a]]
  BY <1>2, <1>3
<1>5. QED BY <1>1, <1>3, <1>4 DEF InTurn

\* A message to the next contact of the group comes after those before it.
LEMMA InTurnNext ==
  ASSUME NEW m \in Nat, NEW hits \in SUBSET (1..m), NEW g, NEW out \in Seq(Message),
         NEW e \in Message, e.to = g[m + 1], InTurn(hits, g, out)
  PROVE  InTurn(hits \cup {m + 1}, g, Append(out, e))
<1> DEFINE c == Cardinality(hits)
           d == Cardinality(hits \cup {m + 1})
           longer == Append(out, e)
<1>1. IsFiniteSet(hits) /\ c \in Nat /\ d = c + 1
  <2>1. IsFiniteSet(1..m)
    BY FS_Interval
  <2>2. IsFiniteSet(hits)
    BY <2>1, FS_Subset
  <2>3. m + 1 \notin hits
    OBVIOUS
  <2>4. QED BY <2>2, <2>3, FS_AddElement, FS_CardinalityType
<1>2. PICK order \in [1..c -> hits] :
        /\ \A a, b \in 1..c : a < b => order[a] < order[b]
        /\ \A a \in 1..c : out[Len(out) - c + a].to = g[order[a]]
  BY DEF InTurn
<1>3. Len(out) \in Nat /\ Len(out) - c >= 0
  BY LenProperties DEF InTurn
<1>4. /\ Len(longer) = Len(out) + 1 /\ longer[Len(out) + 1] = e
      /\ \A n \in 1..Len(out) : longer[n] = out[n]
  BY AppendProperties
<1> DEFINE next == [a \in 1..d |-> IF a <= c THEN order[a] ELSE m + 1]
<1> HIDE DEF c, d, longer
<1>5. next \in [1..d -> hits \cup {m + 1}]
  BY <1>1, <1>2
<1>6. /\ \A a \in 1..c : next[a] = order[a] /\ order[a] \in 1..m
      /\ next[c + 1] = m + 1
  <2>1. \A a \in 1..c : a \in 1..d /\ a <= c
    BY <1>1
  <2>2. \A a \in 1..c : next[a] = order[a]
    BY <2>1
  <2>3. \A a \in 1..c : order[a] \in 1..m
    BY <1>2
  <2>4. c + 1 \in 1..d /\ ~(c + 1 <= c)
    BY <1>1
  <2>5. next[c + 1] = m + 1
    BY <2>4
  <2>6. QED BY <2>2, <2>3, <2>5
<1> HIDE DEF next
<1>7. \A a, b \in 1..d : a < b => next[a] < next[b]
  <2> SUFFICES ASSUME NEW a \in 1..d, NEW b \in 1..d, a < b PROVE next[a] < next[b]
    OBVIOUS
  <2>1. a \in 1..c /\ (b \in 1..c \/ b = c + 1)
    BY <1>1
  <2>2. QED BY <1>2, <1>6, <2>1
<1>8. \A a \in 1..d : longer[Len(longer) - d + a].to = g[next[a]]
  <2> SUFFICES ASSUME NEW a \in 1..d PROVE longer[Len(longer) - d + a].to = g[next[a]]
    OBVIOUS
  <2>1. Len(longer) - d + a = Len(out) - c + a
    BY <1>1, <1>3, <1>4
  <2>2. CASE a \in 1..c
    <3>1. Len(out) - c + a \in 1..Len(out)
      BY <1>1, <1>3, <2>2
    <3>2. longer[Len(out) - c + a] = out[Len(out) - c + a]
      BY <1>4, <3>1
    <3>3. QED BY <1>2, <1>6, <2>1, <2>2, <3>2
  <2>3. CASE a = c + 1
    <3>1. Len(out) - c + a = Len(out) + 1
      BY <1>1, <1>3, <2>3
    <3>2. QED BY <1>4, <1>6, <2>1, <2>3, <3>1
  <2>4. QED BY <1>1, <2>2, <2>3
<1>9. Len(longer) - d >= 0
  BY <1>1, <1>3, <1>4
<1>10. QED BY <1>5, <1>7, <1>8, <1>9 DEF InTurn, d, longer

\* Sending a message changes neither their number nor their recipients.
LEMMA InTurnSent ==
  ASSUME TypeInv, NEW n \in DOMAIN outbox, P2Sender(n), NEW m \in Nat, NEW g,
         NEW hits \in SUBSET (1..m), InTurn(hits, g, outbox)
  PROVE  InTurn(hits, g, outbox')
<1>1. /\ outbox \in Seq(Message) /\ Len(outbox) \in Nat /\ DOMAIN outbox = 1..Len(outbox)
      /\ outbox' \in Seq(Message)
  BY LenProperties, SenderType DEF TypeInv, TypeOK, Message
<1>2. outbox' = outbox \/ outbox' = [outbox EXCEPT ![n].state = "sent"]
  BY DEF P2Sender
<1>3. Len(outbox') = Len(outbox)
  <2>1. DOMAIN outbox' = DOMAIN outbox
    BY <1>2
  <2>2. Len(outbox') \in Nat /\ DOMAIN outbox' = 1..Len(outbox')
    BY <1>1, LenProperties
  <2>3. QED BY <1>1, <2>1, <2>2
<1>4. \A j \in 1..Len(outbox) : outbox'[j].to = outbox[j].to
  <2>1. \A j \in 1..Len(outbox) : outbox[j] \in Message
    BY <1>1, ElementOfSeq
  <2>2. \A j \in 1..Len(outbox) : outbox' = [outbox EXCEPT ![n].state = "sent"] =>
          outbox'[j].to = outbox[j].to
    BY <1>1, <2>1 DEF Message
  <2>3. QED BY <1>2, <2>2
<1>5. Cardinality(hits) \in Nat
  <2>1. IsFiniteSet(1..m)
    BY FS_Interval
  <2> HIDE DEF InTurn
  <2>2. IsFiniteSet(hits)
    BY <2>1, FS_Subset
  <2>3. QED BY <2>2, FS_CardinalityType
<1> DEFINE c == Cardinality(hits)
<1>6. Len(outbox) - c >= 0
  BY DEF InTurn
<1>7. PICK order \in [1..c -> hits] :
        /\ \A a, b \in 1..c : a < b => order[a] < order[b]
        /\ \A a \in 1..c : outbox[Len(outbox) - c + a].to = g[order[a]]
  BY DEF InTurn
<1> HIDE DEF c
<1>8. \A a \in 1..c : outbox'[Len(outbox') - c + a].to = g[order[a]]
  <2>1. c \in Nat
    BY <1>5 DEF c
  <2>2. \A a \in 1..c : Len(outbox) - c + a \in 1..Len(outbox)
    BY <1>1, <1>6, <2>1
  <2>3. QED BY <1>3, <1>4, <1>7, <2>2
<1>9. Len(outbox') - c >= 0
  BY <1>3, <1>6
<1>10. QED BY <1>7, <1>8, <1>9 DEF InTurn, c

LEMMA ProgressInit == Init => Progress
  BY DEF Init, Progress, Sending

\* A contact found in the table is served, one who is not in it is left out.
LEMMA HitsNext ==
  ASSUME NEW m \in Nat \ {0}, NEW g, NEW r, NEW p
  PROVE  /\ (\E s \in Slot : r[s] /\ p[s] = g[m]) => Hits(m, g, r, p) = Hits(m - 1, g, r, p) \cup {m}
         /\ ~(\E s \in Slot : r[s] /\ p[s] = g[m]) => Hits(m, g, r, p) = Hits(m - 1, g, r, p)
<1>1. 1..m = (1..(m - 1)) \cup {m}
  OBVIOUS
<1>2. QED BY <1>1 DEF Hits

\* The step on from an entry that is not contact k's, or from contact k.
LEMMA ProgressOn ==
  ASSUME TypeInv, Progress, Sending, opc \in {"scan", "match", "copy"},
         UNCHANGED <<ready, phone, kind, group>>,
         \/ /\ NextEntry /\ outbox' = outbox /\ (ready[i] => phone[i] # group[k])
         \/ /\ NextContact /\ InTurn(Hits(k, group, ready, phone), group, outbox')
  PROVE  Progress'
<1>1. /\ group \in Groups /\ k \in 1..Len(group) /\ Len(group) \in Nat /\ i \in Slot
      /\ k \in Nat \ {0} /\ ready \in [Slot -> BOOLEAN]
  BY GroupIsSeq DEF TypeInv, TypeOK, HasContact
<1>2. /\ InTurn(Hits(k - 1, group, ready, phone), group, outbox)
      /\ \A s \in Slot : s < i /\ ready[s] => phone[s] # group[k]
  BY DEF Progress, Sending
<1>3. ASSUME NextContact, InTurn(Hits(k, group, ready, phone), group, outbox')
      PROVE  Progress'
  <2>1. CASE k < Len(group)
    <3>1. k' = k + 1 /\ i' = 1 /\ opc' = "scan"
      BY <1>3, <2>1 DEF NextContact
    <3>2. k' - 1 = k
      BY <1>1, <3>1
    <3>3. InTurn(Hits(k' - 1, group', ready', phone'), group', outbox')
      BY <1>3, <3>2
    <3>4. \A s \in Slot : ~(s < i')
      BY <3>1 DEF Slot
    <3>5. QED BY <3>1, <3>3, <3>4 DEF Progress
  <2>2. CASE ~(k < Len(group))
    <3>1. opc' = "done" /\ k = Len(group)
      BY <1>1, <1>3, <2>2 DEF NextContact
    <3>2. InTurn(Hits(Len(group'), group', ready', phone'), group', outbox')
      BY <1>3, <3>1
    <3>3. QED BY <3>1, <3>2 DEF Progress
  <2>3. QED BY <2>1, <2>2
<1>4. ASSUME NextEntry, outbox' = outbox, ready[i] => phone[i] # group[k]
      PROVE  Progress'
  <2>1. \A s \in Slot : s <= i /\ ready[s] => phone[s] # group[k]
    BY <1>1, <1>2, <1>4 DEF Slot
  <2>2. CASE i < MaxOnlineUsers
    <3>1. k' = k /\ i' = i + 1 /\ opc' = "scan"
      BY <1>4, <2>2 DEF NextEntry
    <3>2. InTurn(Hits(k' - 1, group', ready', phone'), group', outbox')
      BY <1>2, <1>4, <3>1
    <3>3. \A s \in Slot : s < i' => s <= i
      BY <1>1, <3>1 DEF Slot
    <3>4. \A s \in Slot : s < i' /\ ready'[s] => phone'[s] # group'[k']
      BY <2>1, <3>1, <3>3
    <3>5. QED BY <3>1, <3>2, <3>4 DEF Progress
  <2>3. CASE ~(i < MaxOnlineUsers)
    <3>1. NextContact
      BY <1>4, <2>3 DEF NextEntry
    <3>2. \A s \in Slot : s <= i
      BY <1>1, <2>3 DEF Slot
    <3>3. ~(\E s \in Slot : ready[s] /\ phone[s] = group[k])
      BY <2>1, <3>2
    <3>4. Hits(k, group, ready, phone) = Hits(k - 1, group, ready, phone)
      BY <1>1, <3>3, HitsNext
    <3>5. QED BY <1>2, <1>3, <1>4, <3>1, <3>4
  <2>4. QED BY <2>2, <2>3
<1>5. QED BY <1>3, <1>4

LEMMA ProgressStep ==
  ASSUME SendInv, Progress, Next
  PROVE  Progress'
<1> USE DEF SendInv
<1>1. CASE ServerStep \/ ReceiverStep
  <2>1. UNCHANGED userVars /\ UNCHANGED outbox
    BY <1>1 DEF ServerStep, ServerPush, ServerAck, ServerReset, Depart, ReceiverStep, Receive,
            ReceiveError, ReceiverLock, ReceiverClear, ReceiverName, ReceiverAddress, ReceiverUnlock
  <2>2. Sending => UNCHANGED <<ready, phone>>
    <3>1. ServerStep => UNCHANGED <<ready, phone>>
      BY DEF ServerStep, ServerPush, ServerAck, ServerReset, Depart, tableVars
    <3>2. QED BY <1>1, <3>1, TableHeld DEF tableVars
  <2>3. UNCHANGED <<opc, kind, group, k, i>>
    BY <2>1 DEF userVars
  <2>4. CASE Sending
    BY <2>1, <2>2, <2>3, <2>4 DEF Progress, Sending
  <2>5. CASE ~Sending
    BY <2>1, <2>3, <2>5 DEF Progress, Sending
  <2>6. QED BY <2>4, <2>5
<1>2. CASE \E n \in DOMAIN outbox : P2Sender(n)
  <2>1. PICK n \in DOMAIN outbox : P2Sender(n)
    BY <1>2
  <2>2. UNCHANGED <<opc, kind, group, k, i, ready, phone>>
    BY <2>1 DEF P2Sender, userVars, tableVars
  <2>3. ASSUME NEW m \in Nat, InTurn(Hits(m, group, ready, phone), group, outbox)
        PROVE  InTurn(Hits(m, group, ready, phone), group, outbox')
    <3>1. Hits(m, group, ready, phone) \in SUBSET (1..m)
      BY DEF Hits
    <3>2. QED BY <2>1, <2>3, <3>1, InTurnSent
  <2>4. CASE Sending
    <3>1. k - 1 \in Nat /\ Len(group) \in Nat
      BY <2>4, GroupIsSeq DEF TypeInv, TypeOK, HasContact, Sending
    <3>2. QED BY <2>2, <2>3, <2>4, <3>1 DEF Progress, Sending
  <2>5. CASE ~Sending
    BY <2>2, <2>5 DEF Progress, Sending
  <2>6. QED BY <2>4, <2>5
<1>3. CASE Login \/ Started \/ OperationDone
  <2>1. opc' \in {"wait", "menu"}
    BY <1>3 DEF Login, Started, OperationDone
  <2>2. QED BY <2>1 DEF Progress, Sending
<1>4. CASE Choose
  <2>1. /\ opc' \in {"lock", "scan"} /\ k' = 1 /\ i' = 1
        /\ opc' = "scan" => kind' = IMAGE_MESSAGE
    BY <1>4 DEF Choose, TEXT_MESSAGE, IMAGE_MESSAGE
  <2>2. QED BY <2>1 DEF Progress, Sending, TEXT_MESSAGE, IMAGE_MESSAGE
<1>5. CASE OperationLock
  <2>1. /\ opc = "lock" /\ opc' = "scan"
        /\ UNCHANGED <<kind, group, k, i, ready, phone, outbox>>
    BY <1>5 DEF OperationLock, tableVars
  <2>2. k = 1 /\ i = 1
    BY <2>1 DEF Progress
  <2>3. Hits(k - 1, group, ready, phone) = {}
    BY <2>2 DEF Hits
  <2>4. InTurn(Hits(k - 1, group, ready, phone), group, outbox)
    <3>1. outbox \in Seq(Message)
      BY DEF TypeInv, TypeOK, Message
    <3>2. InTurn({}, group, outbox)
      BY <3>1, InTurnNone
    <3>3. QED BY <2>3, <3>2
  <2>5. \A s \in Slot : ~(s < i)
    BY <2>2 DEF Slot
  <2>6. QED BY <2>1, <2>4, <2>5 DEF Progress
<1>6. CASE Scan \/ Match \/ Copy
  <2>1. /\ UNCHANGED <<ready, phone, kind, group>> /\ opc \in {"scan", "match", "copy"}
        /\ group \in Groups /\ k \in 1..Len(group) /\ i \in Slot
    BY <1>6 DEF Scan, Match, Copy, tableVars, TypeInv, TypeOK, HasContact
  <2>2. CASE ~Sending
    <3>1. ~Sending' /\ opc' # "lock"
      <4>1. NextEntry \/ NextContact => opc' \in {"scan", "done"}
        BY DEF NextEntry, NextContact
      <4>2. QED BY <1>6, <2>1, <2>2, <4>1 DEF Scan, Match, Copy, Sending
    <3>2. QED BY <3>1 DEF Progress
  <2>3. ASSUME Sending, opc' \in {"match", "copy"}, UNCHANGED <<k, i, outbox>>
        PROVE  Progress'
    BY <2>1, <2>3 DEF Progress, Sending
  <2>4. CASE Sending /\ Scan
    <3>1. outbox' = outbox
      BY <2>4 DEF Scan
    <3>2. CASE ready[i]
      <4>1. opc' = "match" /\ UNCHANGED <<k, i>>
        BY <2>4, <3>2 DEF Scan
      <4>2. QED BY <2>3, <2>4, <3>1, <4>1
    <3>3. CASE ~ready[i]
      <4>1. NextEntry
        BY <2>4, <3>3 DEF Scan
      <4>2. QED BY <2>1, <2>4, <3>1, <3>3, <4>1, ProgressOn
    <3>4. QED BY <3>2, <3>3
  <2>5. CASE Sending /\ Match
    <3>1. /\ outbox' = outbox
          /\ \/ opc' = "copy" /\ UNCHANGED <<k, i>>
             \/ phone[i] # group[k] /\ NextEntry
             \/ phone[i] = Freed /\ opc' = opc /\ UNCHANGED <<k, i>>
      BY <2>5 DEF Match
    <3>2. opc = "match"
      BY <2>5 DEF Match
    <3>3. QED BY <2>1, <2>3, <2>5, <3>1, <3>2, ProgressOn
  <2>6. CASE Sending /\ Copy
    <3>1. /\ NextContact
          /\ outbox' = Append(outbox, [to |-> group[k], kind |-> kind, state |-> "new",
                                       addr |-> group[k]])
      BY <2>6, CopyOfText DEF Sending
    <3>2. ready[i] /\ phone[i] = group[k]
      BY <2>6 DEF Copy, Found
    <3>3. k - 1 \in Nat /\ k \in Nat \ {0} /\ (k - 1) + 1 = k
      BY <2>1, GroupIsSeq
    <3>4. Hits(k, group, ready, phone) = Hits(k - 1, group, ready, phone) \cup {k}
      BY <2>1, <3>2, <3>3, HitsNext
    <3>5. InTurn(Hits(k - 1, group, ready, phone), group, outbox)
      BY <2>6 DEF Progress, Copy
    <3>6. Hits(k - 1, group, ready, phone) \in SUBSET (1..(k - 1))
      BY DEF Hits
    <3>7. [to |-> group[k], kind |-> kind, state |-> "new", addr |-> group[k]] \in Message
      BY <2>1, GroupIsSeq DEF TypeInv, TypeOK, Message
    <3>8. outbox \in Seq(Message)
      BY DEF TypeInv, TypeOK, Message
    <3>9. \A e \in Message : e.to = group[k] =>
            InTurn(Hits(k - 1, group, ready, phone) \cup {k}, group, Append(outbox, e))
      BY <3>3, <3>5, <3>6, <3>8, InTurnNext
    <3>10. InTurn(Hits(k, group, ready, phone), group, outbox')
      BY <3>1, <3>4, <3>7, <3>9
    <3>11. QED BY <2>1, <2>6, <3>1, <3>10, ProgressOn
  <2>7. QED BY <1>6, <2>2, <2>4, <2>5, <2>6
<1>7. QED BY <1>1, <1>2, <1>3, <1>4, <1>5, <1>6 DEF Next, OperationStep

LEMMA ProgressStutter ==
  ASSUME Progress, UNCHANGED vars
  PROVE  Progress'
<1>1. UNCHANGED <<ready, phone, opc, kind, group, k, i, outbox>>
  BY DEF vars, tableVars, userVars
<1>2. QED BY <1>1 DEF Progress, Sending

\* A text to a group reaches each of its contacts that are in the table, once,
\* in the order of the group and at the contact's own address.
THEOREM EveryContactOnce == Spec => []TextsReachContacts
<1>1. SendInv /\ Progress => TextsReachContacts
  <2> SUFFICES ASSUME SendInv, Progress PROVE TextsReachContacts
    OBVIOUS
  <2>1. Hits(Len(group), group, ready, phone) = {j \in 1..Len(group) : Online(group[j])}
    BY DEF Hits, Online
  <2>2. InTurn(Hits(Len(group), group, ready, phone), group, outbox) => Served(Len(group))
    BY <2>1 DEF InTurn, Served
  <2>3. EveryContactServed
    BY <2>2 DEF Progress, Sending, EveryContactServed
  <2>4. QED BY <2>3 DEF SendInv, TextsReachContacts
<1>2. Init => SendInv /\ Progress
  BY SendInit, ProgressInit
<1>3. SendInv /\ Progress /\ [Next]_vars => SendInv' /\ Progress'
  BY SendStep, ProgressStep, ProgressStutter
<1>4. QED BY <1>1, <1>2, <1>3, PTL DEF Spec

-----------------------------------------------------------------------------
(* The contact book of the same program (ContactBook): what a complete save  *)
(* wrote is there at every later start, whatever kills the program and        *)
(* wherever a later save is cut short.                                        *)

\* The groups in use have no gap: a new one goes behind the last.
Filled(n) == active = [x \in Book!Index |-> x < n]
NoGap     == \E n \in 0..MaxGroups : Filled(n)

\* No group of s is empty.
Named(s) == \A x \in DOMAIN s : s[x] # << >>

\* s is the beginning of t.
Begins(s, t) == Len(s) <= Len(t) /\ \A x \in 1..Len(s) : t[x] = s[x]

\* What was kept is at the beginning of the file and of the book, and the count
\* of the file does not fall below it.
Saved ==
  /\ Book!TypeOK /\ NoGap /\ Named(kept) /\ Named(added)
  /\ Begins(kept, stored)
  /\ count # Book!Unwritten => count >= Len(kept)
  /\ kept # << >> => exists /\ count # Book!Unwritten
  /\ pc = "write" => exists /\ wi <= Len(Book!Book) /\ wi <= Len(stored) + 1
  /\ pc # "off" => Begins(kept, Book!Book)

\* Until a save is cut short the file is the book of the last one.
Untorn == ~torn =>
  /\ pc # "write" => /\ stored = kept /\ (exists <=> count # Book!Unwritten)
                     /\ exists => count = Len(kept)
  /\ pc = "write" => Begins(stored, Book!Book) /\ (wi > 0 => count = Len(Book!Book))
  /\ pc \in {"menu", "open", "write"} => Book!Book = kept \o added
  /\ pc = "saved" => Book!Book = kept

BookInv == Saved /\ Untorn

\* Book of ContactBook as a function of the array, to speak of the next one.
BookOf(act, con) ==
  LET used   == {x \in Book!Index : act[x]}
      nth(n) == CHOOSE x \in used : Book!Cardinality({y \in used : y < x}) = n - 1
  IN  [n \in 1..Book!Cardinality(used) |-> con[nth(n)]]

LEMMA BookIs ==
  /\ Book!Book = BookOf(active, contacts)
  /\ Book!Book' = BookOf(active', contacts')
BY DEF Book!Book, Book!Used, Book!Nth, BookOf

LEMMA Counting == \A S : Book!Cardinality(S) = Cardinality(S)
BY DEF Cardinality, Book!Cardinality

LEMMA FirstNumbers ==
  ASSUME NEW n \in Nat
  PROVE  IsFiniteSet(0..(n - 1)) /\ Cardinality(0..(n - 1)) = n
<1>1. 0 \in Int /\ n - 1 \in Int
  OBVIOUS
<1>2. /\ IsFiniteSet(0..(n - 1))
      /\ Cardinality(0..(n - 1)) = IF 0 > n - 1 THEN 0 ELSE (n - 1) - 0 + 1
  BY <1>1, FS_Interval, Zenon
<1>3. QED BY <1>2

\* Without a gap the book is the first entries of the array.
LEMMA FilledBook ==
  ASSUME Book!BookAssumption, NEW n \in 0..MaxGroups, NEW act, NEW con \in [Book!Index -> Book!Group],
         act = [x \in Book!Index |-> x < n]
  PROVE  /\ BookOf(act, con) \in Seq(Book!Group) /\ Len(BookOf(act, con)) = n
         /\ \A m \in 1..n : m - 1 \in Book!Index /\ BookOf(act, con)[m] = con[m - 1]
<1> DEFINE used   == {x \in Book!Index : act[x]}
           nth(m) == CHOOSE x \in used : Book!Cardinality({y \in used : y < x}) = m - 1
<1>1. n \in Nat /\ MaxGroups \in Nat /\ n <= MaxGroups
  BY DEF Book!BookAssumption
<1>2. used = 0..(n - 1)
  <2>1. \A x \in Book!Index : act[x] <=> x < n
    OBVIOUS
  <2>2. Book!Index = 0..(MaxGroups - 1)
    BY DEF Book!Index
  <2>3. used = {x \in 0..(MaxGroups - 1) : x < n}
    BY <2>1, <2>2
  <2>4. QED BY <1>1, <2>3
<1>3. Book!Cardinality(used) = n
  BY <1>1, <1>2, Counting, FirstNumbers
<1>4. ASSUME NEW x \in used PROVE Book!Cardinality({y \in used : y < x}) = x
  <2>1. x \in Nat /\ {y \in used : y < x} = 0..(x - 1)
    BY <1>1, <1>2
  <2>2. QED BY <2>1, Counting, FirstNumbers
<1>5. ASSUME NEW m \in 1..n PROVE nth(m) = m - 1
  <2>1. m - 1 \in used
    BY <1>1, <1>2
  <2>2. \A x \in used : Book!Cardinality({y \in used : y < x}) = m - 1 <=> x = m - 1
    BY <1>4
  <2> HIDE DEF used
  <2>3. QED BY <2>1, <2>2
<1>6. BookOf(act, con) = [m \in 1..n |-> con[nth(m)]]
  BY <1>3 DEF BookOf
<1> HIDE DEF nth, used
<1>7. \A m \in 1..n : m - 1 \in Book!Index
  BY <1>1 DEF Book!Index
<1>8. \A m \in 1..n : BookOf(act, con)[m] = con[m - 1] /\ con[m - 1] \in Book!Group
  BY <1>5, <1>6, <1>7
<1>9. BookOf(act, con) \in [1..n -> Book!Group]
  BY <1>6, <1>8
<1>10. BookOf(act, con) \in Seq(Book!Group) /\ Len(BookOf(act, con)) = n
  BY <1>1, <1>9
<1>11. QED BY <1>7, <1>8, <1>10

LEMMA BookNow ==
  ASSUME Book!BookAssumption, Book!TypeOK, NEW n \in 0..MaxGroups, Filled(n)
  PROVE  /\ Book!Book \in Seq(Book!Group) /\ Len(Book!Book) = n
         /\ \A m \in 1..n : m - 1 \in Book!Index /\ Book!Book[m] = contacts[m - 1]
<1>1. contacts \in [Book!Index -> Book!Group]
  BY DEF Book!TypeOK
<1>2. active = [x \in Book!Index |-> x < n]
  BY DEF Filled
<1>3. QED BY <1>1, <1>2, BookIs, FilledBook

LEMMA BookNext ==
  ASSUME Book!BookAssumption, contacts' \in [Book!Index -> Book!Group],
         NEW n \in 0..MaxGroups, Filled(n)'
  PROVE  /\ Book!Book' \in Seq(Book!Group) /\ Len(Book!Book') = n
         /\ \A m \in 1..n : Book!Book'[m] = contacts'[m - 1]
BY BookIs, FilledBook DEF Filled

\* The empty group, and groups that are typed in.
LEMMA GroupsOf ==
  ASSUME Book!BookAssumption
  PROVE  /\ << >> \in Book!Group
         /\ \A n \in 1..MaxGroupContact : [1..n -> Book!Contact] \subseteq Book!Group
         /\ \A x \in Book!Contact : <<x>> \in Book!Group /\ <<x>> # << >>
         /\ \A g \in Book!Group : g # << >> => g[1] \in Book!Contact
<1>1. MaxGroupContact \in Nat \ {0}
  BY DEF Book!BookAssumption
<1>2. << >> \in [1..0 -> Book!Contact] /\ 0 \in 0..MaxGroupContact /\ 1 \in 1..MaxGroupContact
  BY <1>1
<1>3. \A n \in 1..MaxGroupContact : [1..n -> Book!Contact] \subseteq Book!Group
  BY <1>1 DEF Book!Group
<1>4. \A x \in Book!Contact : <<x>> \in [1..1 -> Book!Contact] /\ <<x>> # << >>
  OBVIOUS
<1>5. ASSUME NEW g \in Book!Group, g # << >> PROVE g[1] \in Book!Contact
  <2>1. PICK n \in 0..MaxGroupContact : g \in [1..n -> Book!Contact]
    BY DEF Book!Group
  <2>2. n \in Nat /\ n # 0
    BY <1>1, <1>5, <2>1
  <2>3. QED BY <2>1, <2>2
<1>6. QED
  <2>1. << >> \in Book!Group
    BY <1>2 DEF Book!Group
  <2>2. QED BY <1>2, <1>3, <1>4, <1>5, <2>1

LEMMA SameSequence ==
  ASSUME NEW S, NEW s \in Seq(S), NEW t \in Seq(S), Len(s) = Len(t), Begins(s, t)
  PROVE  t = s
<1>1. \A x \in 1..Len(s) : s[x] = t[x]
  BY DEF Begins
<1>2. QED BY <1>1, SeqEqual

\* readGroupsFromFile finds what was kept, whatever it makes of the rest.
LEMMA BookStart ==
  ASSUME Book!BookAssumption, BookInv, Book!Start
  PROVE  BookInv'
<1>1. MaxGroups \in Nat /\ Book!Unwritten = -1
  BY DEF Book!BookAssumption, Book!Unwritten
<1>2. /\ pc = "off" /\ pc' = "menu" /\ added' = << >>
      /\ UNCHANGED <<exists, count, stored, wi, kept, torn>>
  BY DEF Book!Start, Book!file
<1>3. stored \in Seq(Book!Group) /\ kept \in Seq(Book!Group) /\ count \in {-1} \cup 0..MaxGroups
  BY <1>1 DEF BookInv, Saved, Book!TypeOK
<1>4. PICK n \in 0..MaxGroups, g \in [Book!Index -> Book!Group] :
        /\ active' = [x \in Book!Index |-> x < n] /\ contacts' = g
        /\ exists /\ count # -1 => n = count /\ \A x \in Book!Index : x < n => g[x] \in Book!Parsed(x + 1)
        /\ ~exists => n = 0
  <2>1. CASE exists /\ count # -1
    <3>1. PICK g \in [Book!Index -> Book!Group] :
            /\ \A x \in Book!Index : g[x] \in IF Book!Loaded(x + 1) THEN Book!Parsed(x + 1) ELSE {<< >>}
            /\ contacts' = g /\ active' = [x \in Book!Index |-> Book!Loaded(x + 1)]
      BY <1>1, <2>1 DEF Book!Start
    <3>2. count \in 0..MaxGroups
      BY <1>3, <2>1
    <3>3. \A x \in Book!Index : Book!Loaded(x + 1) <=> x < count
      BY <1>1, <3>2 DEF Book!Loaded, Book!Index
    <3>4. active' = [x \in Book!Index |-> x < count]
      <4>1. active' = [x \in Book!Index |-> x + 1 \in 1..count]
        BY <3>1 DEF Book!Loaded
      <4>2. \A x \in Book!Index : (x + 1 \in 1..count) <=> x < count
        BY <3>3 DEF Book!Loaded
      <4>3. QED BY <4>1, <4>2
    <3>5. ASSUME NEW x \in Book!Index, x < count PROVE g[x] \in Book!Parsed(x + 1)
      <4>1. Book!Loaded(x + 1)
        BY <3>3, <3>5
      <4>2. QED BY <3>1, <4>1
    <3>6. QED BY <2>1, <3>1, <3>2, <3>4, <3>5
  <2>2. CASE ~(exists /\ count # -1)
    <3>1. PICK n \in IF exists THEN 0..MaxGroups ELSE {0} :
            /\ contacts' = [x \in Book!Index |-> IF x < n THEN <<Garbage>> ELSE << >>]
            /\ active' = [x \in Book!Index |-> x < n]
      BY <1>1, <2>2 DEF Book!Start
    <3>2. n \in 0..MaxGroups
      BY <1>1, <3>1
    <3>3. << >> \in Book!Group /\ <<Garbage>> \in Book!Group
      BY GroupsOf DEF Book!Contact
    <3>4. contacts' \in [Book!Index -> Book!Group]
      BY <3>1, <3>3
    <3>5. QED BY <2>2, <3>1, <3>2, <3>4
  <2>3. QED BY <2>1, <2>2
<1>5. Book!TypeOK'
  <2>1. active' \in [Book!Index -> BOOLEAN]
    BY <1>4
  <2>2. << >> \in Seq(Book!Group)
    OBVIOUS
  <2>3. QED BY <1>2, <1>4, <2>1, <2>2 DEF BookInv, Saved, Book!TypeOK
<1>6. Filled(n)'
  BY <1>4 DEF Filled
<1>7. /\ Book!Book' \in Seq(Book!Group) /\ Len(Book!Book') = n
      /\ \A m \in 1..n : Book!Book'[m] = g[m - 1]
  BY <1>4, <1>6, BookNext
<1>8. Begins(kept, Book!Book')
  <2>1. CASE kept = << >>
    BY <1>1, <1>7, <2>1 DEF Begins
  <2>2. CASE kept # << >>
    <3>1. exists /\ count # -1 /\ n = count /\ Len(kept) <= n /\ Begins(kept, stored)
      BY <1>1, <1>4, <2>2 DEF BookInv, Saved
    <3>2. ASSUME NEW m \in 1..Len(kept) PROVE Book!Book'[m] = kept[m]
      <4>1. m \in 1..n /\ m \in Nat /\ m - 1 \in Book!Index /\ m - 1 < n /\ (m - 1) + 1 = m
        BY <1>1, <1>3, <3>1 DEF Book!Index
      <4>2. m <= Len(stored) /\ stored[m] = kept[m]
        BY <1>3, <3>1, <4>1 DEF Begins
      <4>3. g[m - 1] \in Book!Parsed(m)
        BY <1>4, <3>1, <4>1
      <4>4. QED BY <1>7, <4>1, <4>2, <4>3 DEF Book!Parsed
    <3>3. QED BY <1>7, <3>1, <3>2 DEF Begins
  <2>3. QED BY <2>1, <2>2
<1>9. ASSUME ~torn PROVE Book!Book' = kept
  <2>1. Len(kept) = n
    <3>1. CASE exists
      BY <1>1, <1>2, <1>4, <1>9, <3>1 DEF BookInv, Untorn
    <3>2. CASE ~exists
      BY <1>4, <3>2 DEF BookInv, Saved
    <3>3. QED BY <3>1, <3>2
  <2>2. QED BY <1>3, <1>7, <1>8, <2>1, SameSequence
<1>10. Saved'
  BY <1>2, <1>5, <1>6, <1>8 DEF BookInv, Saved, NoGap, Named, Book!Unwritten
<1>11. kept \o << >> = kept
  BY <1>3
<1>12. Untorn'
  BY <1>2, <1>9, <1>11 DEF BookInv, Untorn, Book!Unwritten
<1>13. QED BY <1>10, <1>12 DEF BookInv

\* A new group goes behind the last.
LEMMA BookFill ==
  ASSUME Book!BookAssumption, BookInv, pc = "menu",
         NEW x \in Book!Index, Book!FirstInactive(x),
         NEW g \in Book!Group, g # << >>, Book!Fill(x, g),
         UNCHANGED <<pc, exists, count, stored, wi, kept, torn>>
  PROVE  BookInv'
<1>1. MaxGroups \in Nat
  BY DEF Book!BookAssumption
<1>2. PICK n \in 0..MaxGroups : Filled(n)
  BY DEF BookInv, Saved, NoGap
<1>3. /\ Book!TypeOK /\ kept \in Seq(Book!Group) /\ added \in Seq(Book!Group)
      /\ contacts \in [Book!Index -> Book!Group] /\ active \in [Book!Index -> BOOLEAN]
  BY DEF BookInv, Saved, Book!TypeOK
<1>4. /\ active' = [active EXCEPT ![x] = TRUE] /\ contacts' = [contacts EXCEPT ![x] = g]
      /\ added' = Append(added, g)
  BY DEF Book!Fill
<1>5. \A y \in Book!Index : y \in 0..(MaxGroups - 1) /\ (active[y] <=> y < n)
  BY <1>2 DEF Filled, Book!Index
<1>6. x = n
  <2>1. x \in Nat /\ x >= n
    BY <1>1, <1>5 DEF Book!FirstInactive
  <2>2. ~(n < x)
    <3>1. ASSUME n < x PROVE FALSE
      <4>1. n \in 0..(x - 1) /\ n \in Book!Index
        BY <1>1, <1>5, <2>1, <3>1 DEF Book!Index
      <4>2. QED BY <1>1, <1>5, <4>1 DEF Book!FirstInactive
    <3>2. QED BY <3>1
  <2>3. QED BY <1>1, <2>1, <2>2
<1>7. n + 1 \in 0..MaxGroups
  BY <1>1, <1>5, <1>6
<1>8. Filled(n + 1)'
  <2>1. \A y \in Book!Index : active'[y] <=> y < n + 1
    BY <1>1, <1>3, <1>4, <1>5, <1>6
  <2>2. active' \in [Book!Index -> BOOLEAN]
    BY <1>3, <1>4
  <2>3. active' = [y \in Book!Index |-> y < n + 1]
    BY <2>1, <2>2
  <2>4. QED BY <2>3 DEF Filled
<1>9. contacts' \in [Book!Index -> Book!Group]
  BY <1>3, <1>4
<1>10. /\ Book!Book \in Seq(Book!Group) /\ Len(Book!Book) = n
       /\ \A m \in 1..n : m - 1 \in Book!Index /\ Book!Book[m] = contacts[m - 1]
  BY <1>2, <1>3, BookNow
<1>11. /\ Book!Book' \in Seq(Book!Group) /\ Len(Book!Book') = n + 1
       /\ \A m \in 1..(n + 1) : Book!Book'[m] = contacts'[m - 1]
  BY <1>7, <1>8, <1>9, BookNext
<1>12. Book!Book' = Append(Book!Book, g)
  <2>1. Append(Book!Book, g) \in Seq(Book!Group) /\ Len(Append(Book!Book, g)) = n + 1
    BY <1>10
  <2>2. ASSUME NEW m \in 1..(n + 1) PROVE Append(Book!Book, g)[m] = Book!Book'[m]
    <3>1. CASE m = n + 1
      <4>1. contacts'[m - 1] = g
        BY <1>1, <1>3, <1>4, <1>6, <3>1
      <4>2. Append(Book!Book, g)[n + 1] = g
        BY <1>10
      <4>3. Book!Book'[m] = contacts'[m - 1]
        BY <1>11
      <4>4. QED BY <3>1, <4>1, <4>2, <4>3
    <3>2. CASE m # n + 1
      <4>1. m \in 1..n /\ m - 1 # n
        BY <1>1, <3>2
      <4>2. contacts'[m - 1] = contacts[m - 1]
        BY <1>3, <1>4, <1>6, <1>10, <4>1
      <4>3. QED BY <1>10, <1>11, <4>1, <4>2
    <3>3. QED BY <3>1, <3>2
  <2>3. QED BY <1>11, <2>1, <2>2, SeqEqual
<1>13. Book!TypeOK'
  <2>1. added' \in Seq(Book!Group) /\ active' \in [Book!Index -> BOOLEAN]
    BY <1>3, <1>4
  <2>2. QED BY <1>9, <2>1 DEF BookInv, Saved, Book!TypeOK
<1>14. Begins(kept, Book!Book')
  <2>1. Begins(kept, Book!Book)
    BY DEF BookInv, Saved
  <2>2. QED BY <1>3, <1>10, <1>12, <2>1 DEF Begins
<1>15. Named(added')
  BY <1>3, <1>4 DEF BookInv, Saved, Named
<1>16. Saved'
  BY <1>7, <1>8, <1>13, <1>14, <1>15 DEF BookInv, Saved, NoGap, Named, Book!Unwritten
<1>17. Append(kept \o added, g) = kept \o Append(added, g)
  <2>1. /\ <<g>> \in Seq(Book!Group) /\ kept \o added \in Seq(Book!Group)
        /\ (kept \o added) \o <<g>> = kept \o (added \o <<g>>)
    <3>1. <<g>> \in Seq(Book!Group) /\ kept \in Seq(Book!Group) /\ added \in Seq(Book!Group)
      BY <1>3
    <3>2. kept \o added \in Seq(Book!Group)
      BY <3>1
    <3>3. (kept \o added) \o <<g>> = kept \o (added \o <<g>>)
      BY <3>1, ConcatAssociative
    <3>4. QED BY <3>1, <3>2, <3>3
  <2>2. Append(added, g) = added \o <<g>> /\ Append(kept \o added, g) = (kept \o added) \o <<g>>
    BY <1>3, <2>1, AppendIsConcat
  <2>3. QED BY <2>1, <2>2
<1>18. Untorn'
  BY <1>4, <1>12, <1>17 DEF BookInv, Untorn, Book!Unwritten
<1>19. QED BY <1>16, <1>18 DEF BookInv

LEMMA BookMenu ==
  ASSUME Book!BookAssumption, BookInv, Book!MakeGroup \/ \E p \in People : Book!AddContact(p)
  PROVE  BookInv'
<1>1. CASE Book!MakeGroup
  <2>0. PICK x \in Book!Index, n \in 1..MaxGroupContact :
          /\ Book!FirstInactive(x)
          /\ \E ids \in [1..n -> Book!Choosable] : Book!Fill(x, [m \in 1..n |-> Book!Member(ids[m])])
    BY <1>1 DEF Book!MakeGroup
  <2>1. PICK ids \in [1..n -> Book!Choosable] : Book!Fill(x, [m \in 1..n |-> Book!Member(ids[m])])
    BY <2>0
  <2> DEFINE g == [m \in 1..n |-> Book!Member(ids[m])]
  <2>2. contacts \in [Book!Index -> Book!Group]
    BY DEF BookInv, Saved, Book!TypeOK
  <2>3. \A id : Book!Member(id) \in Book!Contact
    BY <2>2, GroupsOf DEF Book!Member, Book!Contact
  <2>4. g \in [1..n -> Book!Contact]
    BY <2>3
  <2>5. n \in Nat /\ n >= 1
    BY DEF Book!BookAssumption
  <2>6. g \in Book!Group /\ g # << >>
    <3>1. g \in Book!Group
      BY <2>4, GroupsOf
    <3>2. Len(g) = n
      BY <2>4, <2>5
    <3>3. QED BY <2>5, <3>1, <3>2
  <2>7. pc = "menu" /\ UNCHANGED <<pc, exists, count, stored, wi, kept, torn>>
    BY <1>1 DEF Book!MakeGroup, Book!file
  <2> HIDE DEF g
  <2>8. QED BY <2>0, <2>1, <2>6, <2>7, BookFill DEF g
<1>2. ASSUME NEW p \in People, Book!AddContact(p) PROVE BookInv'
  <2>1. PICK x \in Book!Index : Book!FirstInactive(x) /\ Book!Fill(x, <<p>>)
    BY <1>2 DEF Book!AddContact
  <2>2. <<p>> \in Book!Group /\ <<p>> # << >>
    BY GroupsOf DEF Book!Contact
  <2>3. pc = "menu" /\ UNCHANGED <<pc, exists, count, stored, wi, kept, torn>>
    BY <1>2 DEF Book!AddContact, Book!file
  <2>4. QED BY <2>1, <2>2, <2>3, BookFill
<1>3. QED BY <1>1, <1>2

\* The count that serializeGroupsToFile writes is that of the book if no group
\* of it is empty, and never less than what was kept.
LEMMA BookCounted ==
  ASSUME Book!BookAssumption, Saved, pc # "off", NEW n \in 0..MaxGroups, Filled(n)
  PROVE  /\ Book!NumberOfGroups \in 0..MaxGroups /\ Book!NumberOfGroups >= Len(kept)
         /\ Named(Book!Book) => Book!NumberOfGroups = n
<1> DEFINE T == {x \in Book!Index : active[x] /\ contacts[x] # << >>}
<1>1. MaxGroups \in Nat /\ n \in Nat /\ n <= MaxGroups /\ Book!Index = 0..(MaxGroups - 1)
  BY DEF Book!BookAssumption, Book!Index
<1>2. /\ Book!Book \in Seq(Book!Group) /\ Len(Book!Book) = n
      /\ \A m \in 1..n : m - 1 \in Book!Index /\ Book!Book[m] = contacts[m - 1]
  BY BookNow DEF Saved
<1>3. \A x \in Book!Index : active[x] <=> x < n
  BY DEF Filled
<1>4. T \subseteq 0..(n - 1)
  BY <1>1, <1>3
<1>5. IsFiniteSet(T) /\ Cardinality(T) \in Nat /\ Cardinality(T) <= n
  BY <1>1, <1>4, FirstNumbers, FS_Subset, FS_CardinalityType
<1>6. Book!NumberOfGroups = Cardinality(T)
  BY Counting DEF Book!NumberOfGroups
<1>7. ASSUME NEW l \in 0..n, \A m \in 1..l : Book!Book[m] # << >> PROVE Cardinality(T) >= l
  <2>1. \A x \in 0..(l - 1) : x + 1 \in 1..l /\ x + 1 \in 1..n /\ (x + 1) - 1 = x
    BY <1>1
  <2>2. ASSUME NEW x \in 0..(l - 1) PROVE x \in Book!Index /\ active[x] /\ contacts[x] # << >>
    <3>1. x + 1 \in 1..l /\ x + 1 \in 1..n /\ (x + 1) - 1 = x /\ x < n
      BY <1>1, <2>1
    <3>2. x \in Book!Index /\ Book!Book[x + 1] = contacts[x]
      BY <1>2, <3>1
    <3>3. QED BY <1>3, <1>7, <3>1, <3>2
  <2>3. 0..(l - 1) \subseteq T
    BY <2>2
  <2>4. l \in Nat /\ Cardinality(0..(l - 1)) = l
    BY <1>1, FirstNumbers
  <2>5. Cardinality(0..(l - 1)) <= Cardinality(T)
    BY <1>5, <2>3, FS_Subset
  <2>6. QED BY <1>5, <2>4, <2>5
<1> HIDE DEF T
<1>8. Cardinality(T) >= Len(kept)
  <2>1. kept \in Seq(Book!Group) /\ Begins(kept, Book!Book) /\ Named(kept)
    BY DEF Saved, Book!TypeOK
  <2>2. Len(kept) \in 0..n /\ \A m \in 1..Len(kept) : Book!Book[m] # << >>
    BY <1>1, <1>2, <2>1 DEF Begins, Named
  <2>3. QED BY <1>7, <2>2
<1>9. Named(Book!Book) => Cardinality(T) = n
  <2>1. ASSUME Named(Book!Book) PROVE Cardinality(T) >= n
    <3>1. n \in 0..n /\ \A m \in 1..n : Book!Book[m] # << >>
      BY <1>1, <1>2, <2>1 DEF Named
    <3>2. QED BY <1>7, <3>1
  <2>2. QED BY <1>1, <1>5, <2>1
<1>10. QED BY <1>1, <1>5, <1>6, <1>8, <1>9

\* A group that is written where another was cuts off what follows, but nothing
\* that was kept; the file grows into the book.
LEMMA BookOverwritten ==
  ASSUME Book!BookAssumption, BookInv, pc = "write", wi > 0,
         NEW new, new = Book!Overwrite(wi, Book!Book[wi])
  PROVE  /\ new \in Seq(Book!Group) /\ Len(new) <= MaxGroups /\ Len(new) >= wi
         /\ Begins(kept, new)
         /\ Begins(stored, Book!Book) => Begins(new, Book!Book)
<1>1. PICK n \in 0..MaxGroups : Filled(n)
  BY DEF BookInv, Saved, NoGap
<1>2. /\ stored \in Seq(Book!Group) /\ kept \in Seq(Book!Group) /\ Len(stored) <= MaxGroups
      /\ wi \in Nat /\ MaxGroups \in Nat
  BY DEF BookInv, Saved, Book!TypeOK, Book!BookAssumption
<1>3. Book!Book \in Seq(Book!Group) /\ Len(Book!Book) = n
  BY <1>1, BookNow DEF BookInv, Saved
<1>4. /\ wi <= n /\ wi <= Len(stored) + 1 /\ wi \in 1..n
      /\ Begins(kept, stored) /\ Begins(kept, Book!Book)
  BY <1>2, <1>3 DEF BookInv, Saved
<1>5. Book!Book[wi] \in Book!Group
  BY <1>3, <1>4
<1>6. CASE wi <= Len(stored) /\ stored[wi] = Book!Book[wi]
  <2>1. new = stored
    BY <1>6 DEF Book!Overwrite
  <2>2. QED BY <1>2, <1>4, <1>6, <2>1
<1>7. CASE ~(wi <= Len(stored) /\ stored[wi] = Book!Book[wi])
  <2>1. new = Append(SubSeq(stored, 1, wi - 1), Book!Book[wi])
    BY <1>7 DEF Book!Overwrite
  <2>2. /\ SubSeq(stored, 1, wi - 1) \in Seq(Book!Group) /\ Len(SubSeq(stored, 1, wi - 1)) = wi - 1
        /\ \A m \in 1..(wi - 1) : SubSeq(stored, 1, wi - 1)[m] = stored[m]
    BY <1>2, <1>4
  <2>3. /\ new \in Seq(Book!Group) /\ Len(new) = wi /\ new[wi] = Book!Book[wi]
        /\ \A m \in 1..(wi - 1) : new[m] = stored[m]
    BY <1>2, <1>5, <2>1, <2>2
  <2>4. Len(kept) < wi
    <3>1. ASSUME wi <= Len(kept) PROVE FALSE
      <4>1. wi \in 1..Len(kept) /\ wi <= Len(stored)
        BY <1>2, <1>4, <3>1 DEF Begins
      <4>2. stored[wi] = kept[wi] /\ Book!Book[wi] = kept[wi]
        BY <1>4, <4>1 DEF Begins
      <4>3. QED BY <1>7, <4>1, <4>2
    <3>2. QED BY <1>2, <3>1
  <2>5. Begins(kept, new)
    <3>1. \A m \in 1..Len(kept) : m \in 1..(wi - 1) /\ stored[m] = kept[m]
      BY <1>2, <1>4, <2>4 DEF Begins
    <3>2. QED BY <1>2, <2>3, <2>4, <3>1 DEF Begins
  <2>6. ASSUME Begins(stored, Book!Book) PROVE Begins(new, Book!Book)
    <3>1. ASSUME NEW m \in 1..wi PROVE Book!Book[m] = new[m]
      <4>1. CASE m = wi
        BY <2>3, <4>1
      <4>2. CASE m # wi
        <5>1. m \in 1..(wi - 1) /\ m \in 1..Len(stored)
          BY <1>2, <1>4, <4>2
        <5>2. QED BY <2>3, <2>6, <5>1 DEF Begins
      <4>3. QED BY <4>1, <4>2
    <3>2. QED BY <1>3, <1>4, <2>3, <3>1 DEF Begins
  <2>7. QED BY <1>2, <1>4, <2>3, <2>5, <2>6
<1>8. QED BY <1>6, <1>7

\* saveBufferToFile, piece by piece.
LEMMA BookWrite ==
  ASSUME Book!BookAssumption, BookInv, Book!SaveWrite
  PROVE  BookInv'
<1>1. PICK n \in 0..MaxGroups : Filled(n)
  BY DEF BookInv, Saved, NoGap
<1>2. /\ pc = "write" /\ UNCHANGED <<active, contacts, exists, torn, added>>
      /\ exists /\ Book!Unwritten = -1 /\ MaxGroups \in Nat /\ wi \in Nat /\ n \in Nat
  BY DEF Book!SaveWrite, Book!memory, BookInv, Saved, Book!TypeOK, Book!Unwritten, Book!BookAssumption
<1>3. /\ kept \in Seq(Book!Group) /\ added \in Seq(Book!Group) /\ stored \in Seq(Book!Group)
      /\ Len(stored) <= MaxGroups /\ wi <= Len(stored) + 1
  BY <1>2 DEF BookInv, Saved, Book!TypeOK
<1>4. Book!Book \in Seq(Book!Group) /\ Len(Book!Book) = n /\ wi <= n
  BY <1>1, <1>2, BookNow DEF BookInv, Saved
<1>5. Book!Book' = Book!Book /\ Filled(n)'
  BY <1>1, <1>2, BookIs DEF Filled
<1>6. /\ stored' \in Seq(Book!Group) /\ Len(stored') <= MaxGroups /\ Len(stored') >= wi
      /\ Begins(kept, stored')
      /\ Begins(stored, Book!Book) => Begins(stored', Book!Book)
  <2>1. CASE wi = 0
    BY <1>2, <1>3, <2>1 DEF Book!SaveWrite, BookInv, Saved
  <2>2. CASE wi > 0
    <3>1. stored' = Book!Overwrite(wi, Book!Book[wi])
      BY <2>2 DEF Book!SaveWrite
    <3>2. QED BY <1>2, <2>2, <3>1, BookOverwritten
  <2>3. QED BY <1>2, <2>1, <2>2
<1>7. ~torn => Named(Book!Book)
  <2>1. \A m \in 1..(Len(kept) + Len(added)) :
          (kept \o added)[m] = IF m <= Len(kept) THEN kept[m] ELSE added[m - Len(kept)]
    BY <1>3
  <2>2. DOMAIN (kept \o added) = 1..(Len(kept) + Len(added))
    BY <1>3
  <2>3. \A m \in 1..(Len(kept) + Len(added)) :
          (m <= Len(kept) /\ m \in DOMAIN kept) \/ (m > Len(kept) /\ m - Len(kept) \in DOMAIN added)
    BY <1>3
  <2>4. Named(kept \o added)
    BY <2>1, <2>2, <2>3 DEF Named, BookInv, Saved
  <2>5. QED BY <1>2, <2>4 DEF BookInv, Untorn
<1>8. /\ count' \in {-1} \cup 0..MaxGroups /\ (count' # -1 => count' >= Len(kept))
      /\ kept # << >> => count' # -1
      /\ ~torn => count' = n
  <2>1. CASE wi = 0
    <3>1. count' = Book!NumberOfGroups
      BY <2>1 DEF Book!SaveWrite
    <3>2. /\ Book!NumberOfGroups \in 0..MaxGroups /\ Book!NumberOfGroups >= Len(kept)
          /\ Named(Book!Book) => Book!NumberOfGroups = n
      BY <1>1, <1>2, BookCounted DEF BookInv
    <3>3. QED BY <1>2, <1>7, <3>1, <3>2
  <2>2. CASE wi > 0
    <3>1. count' = count
      BY <2>2 DEF Book!SaveWrite
    <3>2. QED BY <1>2, <1>4, <2>2, <3>1 DEF BookInv, Saved, Untorn, Book!TypeOK
  <2>3. QED BY <1>2, <2>1, <2>2
<1>9. CASE wi < n
  <2>1. wi' = wi + 1 /\ pc' = "write" /\ kept' = kept
    BY <1>2, <1>4, <1>9 DEF Book!SaveWrite
  <2>2. wi + 1 \in 0..MaxGroups /\ wi + 1 <= n /\ wi + 1 <= Len(stored') + 1
    BY <1>2, <1>3, <1>6, <1>9
  <2>3. Book!TypeOK'
    BY <1>2, <1>6, <1>8, <2>1, <2>2 DEF BookInv, Saved, Book!TypeOK, Book!Unwritten
  <2>4. Saved'
    BY <1>2, <1>4, <1>5, <1>6, <1>8, <2>1, <2>2, <2>3 DEF BookInv, Saved, NoGap, Named, Book!Unwritten
  <2>5. Untorn'
    BY <1>2, <1>4, <1>5, <1>6, <1>8, <2>1 DEF BookInv, Untorn
  <2>6. QED BY <2>4, <2>5 DEF BookInv
<1>10. CASE wi = n
  <2>1. wi' = wi /\ pc' = "saved" /\ kept' = IF torn THEN kept ELSE Book!Book
    BY <1>2, <1>4, <1>10 DEF Book!SaveWrite
  <2>2. Book!TypeOK'
    BY <1>2, <1>3, <1>4, <1>6, <1>8, <2>1 DEF BookInv, Saved, Book!TypeOK, Book!Unwritten
  <2>3. CASE torn
    <3>1. kept' = kept
      BY <2>1, <2>3
    <3>2. Saved'
      BY <1>2, <1>5, <1>6, <1>8, <2>1, <2>2, <3>1 DEF BookInv, Saved, NoGap, Named, Book!Unwritten
    <3>3. QED BY <1>2, <2>3, <3>2 DEF BookInv, Untorn
  <2>4. CASE ~torn
    <3>1. kept' = Book!Book
      BY <2>1, <2>4
    <3>2. Begins(stored', Book!Book)
      BY <1>2, <1>6, <2>4 DEF BookInv, Untorn
    <3>3. stored' = Book!Book
      <4>1. Len(stored') <= n /\ Len(stored') = Len(Book!Book)
        BY <1>2, <1>4, <1>6, <1>10, <3>2 DEF Begins
      <4>2. QED BY <1>4, <1>6, <3>2, <4>1, SameSequence
    <3>4. Begins(Book!Book, Book!Book)
      BY <1>4 DEF Begins
    <3>5. Saved'
      BY <1>2, <1>4, <1>5, <1>7, <1>8, <2>1, <2>2, <2>4, <3>1, <3>3, <3>4
      DEF BookInv, Saved, NoGap, Named, Book!Unwritten
    <3>6. Untorn'
      BY <1>2, <1>4, <1>5, <1>8, <2>1, <2>4, <3>1, <3>3 DEF Untorn, Book!Unwritten
    <3>7. QED BY <3>5, <3>6 DEF BookInv
  <2>5. QED BY <2>3, <2>4
<1>11. QED BY <1>2, <1>4, <1>9, <1>10

\* Steps that leave the book as it is: the user leaves, the file is opened, the
\* program ends or is killed, or fwrite stops early.
LEMMA BookElse ==
  ASSUME Book!BookAssumption, BookInv,
         \/ Book!Leave \/ Book!SaveOpen \/ Book!SaveShort \/ Book!Exit \/ Book!Crash
         \/ UNCHANGED Book!vars
  PROVE  BookInv'
<1>1. UNCHANGED <<active, contacts, count, stored, kept, added>>
  BY DEF Book!Leave, Book!SaveOpen, Book!SaveShort, Book!Exit, Book!Crash, Book!vars, Book!memory, Book!file
<1>2. Book!Book' = Book!Book
  BY <1>1, BookIs
<1>3. /\ wi \in Nat /\ kept \in Seq(Book!Group) /\ added \in Seq(Book!Group) /\ stored \in Seq(Book!Group)
      /\ MaxGroups \in Nat /\ pc \in {"off", "menu", "open", "write", "saved"} /\ torn \in BOOLEAN
  BY DEF BookInv, Saved, Book!TypeOK, Book!BookAssumption
<1>4. CASE Book!SaveOpen
  <2>1. pc = "open" /\ pc' = "write" /\ wi' = 0 /\ exists' = TRUE /\ torn' = torn
    BY <1>4 DEF Book!SaveOpen
  <2>2. PICK n \in 0..MaxGroups : Filled(n)
    BY DEF BookInv, Saved, NoGap
  <2>3. Len(Book!Book) = n
    BY <2>2, BookNow DEF BookInv, Saved
  <2>4. Saved'
    BY <1>1, <1>2, <1>3, <2>1, <2>3 DEF BookInv, Saved, Book!TypeOK, NoGap, Filled, Named, Book!Unwritten
  <2>5. ~torn => Begins(stored, Book!Book)
    <3>1. ~torn => stored = kept
      BY <2>1 DEF BookInv, Untorn
    <3>2. QED BY <2>1, <3>1 DEF BookInv, Saved
  <2>6. Untorn'
    BY <1>1, <1>2, <2>1, <2>5 DEF BookInv, Untorn
  <2>7. QED BY <2>4, <2>6 DEF BookInv
<1>5. CASE Book!Leave \/ Book!Exit \/ Book!Crash \/ Book!SaveShort \/ UNCHANGED Book!vars
  <2>1. /\ UNCHANGED <<wi, exists>>
        /\ \/ pc = "menu" /\ pc' = "open" /\ torn' = torn
           \/ pc = "saved" /\ pc' = "off" /\ torn' = torn
           \/ pc # "off" /\ pc' = "off" /\ torn' = (torn \/ pc = "write")
           \/ pc = "write" /\ pc' = "saved" /\ torn'
           \/ pc' = pc /\ torn' = torn
    BY <1>5 DEF Book!Leave, Book!Exit, Book!Crash, Book!SaveShort, Book!vars, Book!file
  <2>2. Book!TypeOK'
    BY <1>1, <1>3, <2>1 DEF BookInv, Saved, Book!TypeOK, Book!SaveShort
  <2>3. Saved'
    BY <1>1, <1>2, <2>1, <2>2 DEF BookInv, Saved, NoGap, Filled, Named, Book!Unwritten
  <2>4. Untorn'
    BY <1>1, <1>2, <1>3, <2>1 DEF BookInv, Untorn, Book!Unwritten
  <2>5. QED BY <2>3, <2>4 DEF BookInv
<1>6. QED BY <1>4, <1>5

LEMMA BookInit ==
  ASSUME Book!BookAssumption, Book!Init
  PROVE  BookInv
<1>1. MaxGroups \in Nat /\ Book!Unwritten = -1
  BY DEF Book!BookAssumption, Book!Unwritten
<1>2. << >> \in Seq(Book!Group) /\ Len(<< >>) = 0 /\ << >> \o << >> = << >> /\ << >> \in Book!Group
  BY GroupsOf
<1>3. active \in [Book!Index -> BOOLEAN] /\ contacts \in [Book!Index -> Book!Group]
  BY <1>2 DEF Book!Init
<1>4. Book!TypeOK
  <2>1. /\ pc = "off" /\ exists = FALSE /\ torn = FALSE /\ count = Book!Unwritten /\ wi = 0
        /\ stored = << >> /\ kept = << >> /\ added = << >>
    BY DEF Book!Init
  <2>2. 0 \in 0..MaxGroups /\ Len(stored) <= MaxGroups
    BY <1>1, <1>2, <2>1
  <2>3. QED BY <1>2, <1>3, <2>1, <2>2 DEF Book!TypeOK
<1>5. Filled(0)
  <2>1. \A x \in Book!Index : ~(x < 0)
    BY <1>1 DEF Book!Index
  <2>2. \A x \in Book!Index : active[x] <=> x < 0
    BY <2>1 DEF Book!Init
  <2>3. active = [x \in Book!Index |-> x < 0]
    BY <1>3, <2>2
  <2>4. QED BY <2>3 DEF Filled
<1>6. NoGap
  BY <1>1, <1>5 DEF NoGap
<1>7. Saved
  BY <1>1, <1>2, <1>4, <1>6 DEF Book!Init, Saved, Named, Begins
<1>8. Untorn
  BY <1>1, <1>2 DEF Book!Init, Untorn
<1>9. QED BY <1>7, <1>8 DEF BookInv

LEMMA BookStep ==
  ASSUME Book!BookAssumption, BookInv, [Book!Next]_Book!vars
  PROVE  BookInv'
<1>1. CASE Book!Next
  BY <1>1, BookStart, BookMenu, BookWrite, BookElse DEF Book!Next
<1>2. QED BY <1>1, BookElse

\* IsPrefix of the community modules.
LEMMA BeginsIsPrefix ==
  ASSUME NEW S, NEW s \in Seq(S), NEW t \in Seq(S), Begins(s, t)
  PROVE  Book!IsPrefix(s, t)
<1>1. Len(s) \in Nat /\ Len(t) \in Nat /\ Len(s) <= Len(t)
  BY DEF Begins
<1>2. SubSeq(t, 1, Len(s)) \in Seq(S) /\ Len(SubSeq(t, 1, Len(s))) = Len(s)
      /\ SubSeq(s, 1, Len(s)) \in Seq(S) /\ Len(SubSeq(s, 1, Len(s))) = Len(s)
  BY <1>1
<1>3. \A x \in 1..Len(s) : SubSeq(t, 1, Len(s))[x] = t[x] /\ SubSeq(s, 1, Len(s))[x] = s[x]
  BY <1>1
<1>4. SubSeq(s, 1, Len(s)) = SubSeq(t, 1, Len(s))
  BY <1>2, <1>3, SeqEqual DEF Begins
<1>5. QED BY <1>1, <1>4 DEF Book!IsPrefix

LEMMA BookAlways ==
  ASSUME Book!BookAssumption
  PROVE  Book!Spec => []BookInv
<1>1. Book!Init => BookInv
  BY BookInit
<1>2. BookInv /\ [Book!Next]_Book!vars => BookInv'
  BY BookStep
<1>3. QED BY <1>1, <1>2, PTL DEF Book!Spec

\* A step of the client is one of the book's or leaves the book alone.
LEMMA PartsBook == PartsSpec => Book!Spec
<1>1. PartsInit => Book!Init
  BY DEF PartsInit
<1>2. [PartsNext]_<<vars, bookVars, wireVars, followed>> => [Book!Next]_Book!vars
  BY DEF PartsNext, bookVars, Book!vars, Book!memory, Book!file
<1>3. QED BY <1>1, <1>2, PTL DEF PartsSpec, Book!Spec

\* What a complete save wrote is in every later book, under the same ids,
\* whatever kills the program and wherever a later save is cut short: for every
\* size of the book and of its groups.
THEOREM SavedForGood == PartsSpec => []SavedSurvives
<1>1. BookInv => SavedSurvives
  <2> SUFFICES ASSUME BookInv, pc # "off" PROVE Book!IsPrefix(kept, Book!Book)
    BY DEF SavedSurvives, Book!SavedSurvives
  <2>1. PICK n \in 0..MaxGroups : Filled(n)
    BY DEF BookInv, Saved, NoGap
  <2>2. Book!Book \in Seq(Book!Group) /\ kept \in Seq(Book!Group) /\ Begins(kept, Book!Book)
    BY <2>1, BookAssumption, BookNow DEF BookInv, Saved, Book!TypeOK
  <2>3. QED BY <2>2, BeginsIsPrefix
<1>2. Book!Spec => []BookInv
  BY BookAssumption, BookAlways
<1>3. QED BY <1>1, <1>2, PartsBook, PTL

\* As long as no save was cut short, the book is what was saved last followed by
\* what the user added since the start.
THEOREM BookRoundTrip == PartsSpec => []RoundTrip
<1>1. BookInv => RoundTrip
  BY DEF RoundTrip, BookInv, Saved, Untorn, Book!RoundTrip, Book!TypeOK
<1>2. Book!Spec => []BookInv
  BY BookAssumption, BookAlways
<1>3. QED BY <1>1, <1>2, PartsBook, PTL

\* What follows is about other parts, and says what it uses of their constants.
HIDE ClientAssumption

-----------------------------------------------------------------------------
(* The bytes between the server and the client (Framing): what is received is *)
(* what was sent, whatever pieces it is sent and received in.                 *)

Token(sort, v, n) == [part |-> sort, v |-> v, i |-> n]
Nul  == [part |-> "nul"]
Byte == {Wire!Stray, Nul} \cup [part : {"byte", "char", "short"}, v : Int, i : Nat]
          \cup [part : {"int"}, v : Nat, i : Nat]

\* What a message of the server looks like in a buffer.
ListShape(bytes, m) ==
  /\ Len(bytes) = 2 + IntBytes + m.name + ShortBytes
  /\ bytes[1] = Token("byte", 2, 1)
  /\ \A n \in 1..IntBytes : bytes[1 + n] = Token("int", m.count, n)
  /\ \A n \in 1..m.name : bytes[1 + IntBytes + n] = Token("char", m.name, n)
  /\ bytes[2 + IntBytes + m.name] = Nul
  /\ \A n \in 1..ShortBytes : bytes[2 + IntBytes + m.name + n] = Token("short", Wire!AsShort(m.port), n)

LEMMA BytesBehind ==
  ASSUME NEW s \in Seq(Byte), NEW t \in Seq(Byte)
  PROVE  /\ s \o t \in Seq(Byte) /\ Len(s \o t) = Len(s) + Len(t)
         /\ \A x \in 1..Len(s) : (s \o t)[x] = s[x]
         /\ \A x \in 1..Len(t) : (s \o t)[Len(s) + x] = t[x]
<1>1. s \o t \in Seq(Byte) /\ Len(s \o t) = Len(s) + Len(t)
  OBVIOUS
<1>2. \A x \in 1..Len(s) : (s \o t)[x] = s[x]
  OBVIOUS
<1>3. \A x \in 1..Len(t) : (s \o t)[Len(s) + x] = t[x]
  OBVIOUS
<1>4. QED BY <1>1, <1>2, <1>3

LEMMA OneBehind ==
  ASSUME NEW s \in Seq(Byte), Len(s) = 1, NEW t \in Seq(Byte)
  PROVE  /\ s \o t \in Seq(Byte) /\ Len(s \o t) = 1 + Len(t)
         /\ (s \o t)[1] = s[1]
         /\ \A x \in 1..Len(t) : (s \o t)[1 + x] = t[x]
<1>1. 1 \in Nat /\ Len(t) \in Nat /\ 1 \in 1..1
  OBVIOUS
<1>2. /\ s \o t \in Seq(Byte) /\ Len(s \o t) = 1 + Len(t)
      /\ \A x \in 1..1 : (s \o t)[x] = s[x]
      /\ \A x \in 1..Len(t) : (s \o t)[1 + x] = t[x]
  BY <1>1, BytesBehind
<1>3. QED BY <1>1, <1>2

LEMMA WireConstants ==
  ASSUME Wire!FramingAssumption
  PROVE  /\ IntBytes \in Nat \ {0} /\ ShortBytes \in Nat \ {0} /\ ShortRange \in Nat \ {0}
         /\ Window \in Nat \ {0} /\ Margin \in Nat /\ Plan \in [Writer -> Seq(Wire!Message)]
BY DEF Wire!FramingAssumption

LEMMA TokensAre ==
  ASSUME NEW n \in Nat, NEW sort, NEW v, \A x \in 1..n : Token(sort, v, x) \in Byte
  PROVE  /\ Wire!Tokens(sort, v, n) \in Seq(Byte) /\ Len(Wire!Tokens(sort, v, n)) = n
         /\ \A x \in 1..n : Wire!Tokens(sort, v, n)[x] = Token(sort, v, x)
<1>1. Wire!Tokens(sort, v, n) = [x \in 1..n |-> Token(sort, v, x)]
  BY DEF Wire!Tokens, Token
<1>2. [x \in 1..n |-> Token(sort, v, x)] \in [1..n -> Byte]
  OBVIOUS
<1>3. QED BY <1>1, <1>2

LEMMA TokenBytes ==
  ASSUME NEW n \in Nat, NEW v \in Int
  PROVE  /\ Token("byte", v, n) \in Byte /\ Token("char", v, n) \in Byte
         /\ Token("short", v, n) \in Byte /\ (v >= 0 => Token("int", v, n) \in Byte)
BY DEF Token, Byte

\* The port of a message, cut to a short and back.
LEMMA PortSurvives ==
  ASSUME Wire!FramingAssumption, NEW p \in 0..(ShortRange - 1)
  PROVE  Wire!AsShort(p) \in Int /\ Wire!AsShort(p) % ShortRange = p
<1>1. ShortRange \in Nat \ {0}
  BY WireConstants
<1>2. p % ShortRange = p
  BY <1>1
<1>3. (p - ShortRange) % ShortRange = p
  BY <1>1
<1>4. QED BY <1>1, <1>2, <1>3 DEF Wire!AsShort

LEMMA WrittenList ==
  ASSUME Wire!FramingAssumption,
         NEW m \in [id : {2}, count : Nat, name : Nat, port : 0..(ShortRange - 1)]
  PROVE  Wire!Written(m) \in Seq(Byte) /\ ListShape(Wire!Written(m), m)
<1> DEFINE one   == Wire!Tokens("byte", m.id, 1)
           number   == Wire!Tokens("int", m.count, IntBytes)
           chars == Wire!Tokens("char", m.name, m.name)
           string   == Wire!StringBytes(m.name)
           short == Wire!Tokens("short", Wire!AsShort(m.port), ShortBytes)
<1>1. IntBytes \in Nat /\ ShortBytes \in Nat /\ m.id = 2 /\ m.count \in Nat /\ m.name \in Nat /\ Wire!AsShort(m.port) \in Int
  BY WireConstants, PortSurvives
<1>2. one \in Seq(Byte) /\ Len(one) = 1 /\ one[1] = Token("byte", 2, 1)
  <2>1. \A x \in 1..1 : Token("byte", 2, x) \in Byte
    BY TokenBytes
  <2>2. one = Wire!Tokens("byte", 2, 1)
    BY <1>1
  <2>3. \A x \in 1..1 : one[x] = Token("byte", 2, x)
    BY <2>1, <2>2, TokensAre
  <2>4. one \in Seq(Byte) /\ Len(one) = 1
    BY <2>1, <2>2, TokensAre
  <2>5. QED BY <2>3, <2>4
<1>3. /\ number \in Seq(Byte) /\ Len(number) = IntBytes
      /\ \A x \in 1..IntBytes : number[x] = Token("int", m.count, x)
  <2>1. \A x \in 1..IntBytes : Token("int", m.count, x) \in Byte
    BY <1>1, TokenBytes
  <2>2. QED BY <1>1, <2>1, TokensAre
<1>4. /\ chars \in Seq(Byte) /\ Len(chars) = m.name
      /\ \A x \in 1..m.name : chars[x] = Token("char", m.name, x)
  <2>1. \A x \in 1..m.name : Token("char", m.name, x) \in Byte
    BY <1>1, TokenBytes
  <2>2. QED BY <1>1, <2>1, TokensAre
<1>5. /\ short \in Seq(Byte) /\ Len(short) = ShortBytes
      /\ \A x \in 1..ShortBytes : short[x] = Token("short", Wire!AsShort(m.port), x)
  <2>1. \A x \in 1..ShortBytes : Token("short", Wire!AsShort(m.port), x) \in Byte
    BY <1>1, TokenBytes
  <2>2. QED BY <1>1, <2>1, TokensAre
<1> HIDE DEF one, number, chars, short
<1>6. /\ string \in Seq(Byte) /\ Len(string) = m.name + 1
      /\ \A x \in 1..m.name : string[x] = Token("char", m.name, x)
      /\ string[m.name + 1] = Nul
  <2>1. string = Append(chars, Nul)
    BY DEF Wire!StringBytes, chars, Nul
  <2>2. Nul \in Byte
    BY DEF Byte
  <2>3. QED BY <1>1, <1>4, <2>1, <2>2
<1> HIDE DEF string
<1>7. Wire!Written(m) = one \o ((number \o string) \o short)
  BY <1>1 DEF Wire!Written, Wire!UPDATE_REQUEST, one, number, string, short
<1>8. /\ number \o string \in Seq(Byte) /\ Len(number \o string) = IntBytes + m.name + 1
      /\ \A x \in 1..IntBytes : (number \o string)[x] = Token("int", m.count, x)
      /\ \A x \in 1..m.name : (number \o string)[IntBytes + x] = Token("char", m.name, x)
      /\ (number \o string)[IntBytes + m.name + 1] = Nul
  <2> DEFINE n == m.name + 1
  <2>1. /\ n \in Nat /\ Len(string) = n /\ string \in Seq(Byte)
        /\ IntBytes \in Nat /\ Len(number) = IntBytes /\ number \in Seq(Byte)
    BY <1>1, <1>3, <1>6
  <2> HIDE DEF n
  <2>2. /\ number \o string \in Seq(Byte) /\ Len(number \o string) = IntBytes + n
        /\ \A x \in 1..IntBytes : (number \o string)[x] = number[x]
        /\ \A x \in 1..n : (number \o string)[IntBytes + x] = string[x]
    BY <2>1, BytesBehind
  <2>3. n = m.name + 1 /\ IntBytes + n = IntBytes + m.name + 1
    BY <1>1 DEF n
  <2>4. \A x \in 1..IntBytes : (number \o string)[x] = Token("int", m.count, x)
    BY <1>3, <2>2
  <2>5. ASSUME NEW x \in 1..m.name
        PROVE  (number \o string)[IntBytes + x] = Token("char", m.name, x)
    <3>1. x \in 1..n
      BY <1>1, <2>3
    <3>2. QED BY <1>6, <2>2, <3>1
  <2>6. (number \o string)[IntBytes + n] = Nul
    <3>1. n \in 1..n
      BY <1>1, <2>3
    <3>2. string[n] = Nul
      BY <1>6, <2>3
    <3>3. QED BY <2>2, <3>1, <3>2
  <2>7. QED BY <2>2, <2>3, <2>4, <2>5, <2>6
<1> DEFINE both == number \o string
           tail == both \o short
<1> HIDE DEF both
<1>9. /\ tail \in Seq(Byte) /\ Len(tail) = IntBytes + m.name + 1 + ShortBytes
      /\ \A x \in 1..(IntBytes + m.name + 1) : tail[x] = both[x]
      /\ \A x \in 1..ShortBytes : tail[IntBytes + m.name + 1 + x] = short[x]
  <2> DEFINE n == IntBytes + m.name + 1
  <2>1. /\ n \in Nat /\ Len(both) = n /\ both \in Seq(Byte)
        /\ ShortBytes \in Nat /\ Len(short) = ShortBytes /\ short \in Seq(Byte)
    BY <1>1, <1>5, <1>8 DEF both
  <2> HIDE DEF n
  <2>2. /\ tail \in Seq(Byte) /\ Len(tail) = n + ShortBytes
        /\ \A x \in 1..n : tail[x] = both[x]
        /\ \A x \in 1..ShortBytes : tail[n + x] = short[x]
    BY <2>1, BytesBehind
  <2>3. QED BY <2>2 DEF n
<1> HIDE DEF tail
<1>10. /\ one \o tail \in Seq(Byte) /\ Len(one \o tail) = 1 + Len(tail)
       /\ (one \o tail)[1] = one[1]
       /\ \A x \in 1..Len(tail) : (one \o tail)[1 + x] = tail[x]
  <2>1. one \in Seq(Byte) /\ Len(one) = 1 /\ tail \in Seq(Byte)
    BY <1>2, <1>9
  <2> HIDE DEF tail
  <2>2. QED BY <2>1, OneBehind
<1>11. Len(tail) = IntBytes + m.name + 1 + ShortBytes
  BY <1>9
<1>12. \A x \in 1..IntBytes : (one \o tail)[1 + x] = Token("int", m.count, x)
  <2> SUFFICES ASSUME NEW x \in 1..IntBytes PROVE (one \o tail)[1 + x] = Token("int", m.count, x)
    OBVIOUS
  <2>1. x \in 1..Len(tail) /\ x \in 1..(IntBytes + m.name + 1)
    BY <1>1, <1>11
  <2>2. tail[x] = Token("int", m.count, x)
    BY <1>8, <1>9, <2>1 DEF both
  <2>3. QED BY <1>10, <2>1, <2>2
<1>13. \A x \in 1..m.name : (one \o tail)[1 + IntBytes + x] = Token("char", m.name, x)
  <2> SUFFICES ASSUME NEW x \in 1..m.name PROVE (one \o tail)[1 + IntBytes + x] = Token("char", m.name, x)
    OBVIOUS
  <2>1. IntBytes + x \in 1..Len(tail) /\ IntBytes + x \in 1..(IntBytes + m.name + 1)
    BY <1>1, <1>11
  <2>2. tail[IntBytes + x] = Token("char", m.name, x)
    BY <1>8, <1>9, <2>1 DEF both
  <2>3. 1 + IntBytes + x = 1 + (IntBytes + x)
    BY <1>1
  <2>4. QED BY <1>10, <2>1, <2>2, <2>3
<1>14. (one \o tail)[2 + IntBytes + m.name] = Nul
  <2>1. tail[IntBytes + m.name + 1] = Nul
    <3>1. IntBytes + m.name + 1 \in 1..(IntBytes + m.name + 1)
      BY <1>1
    <3>2. both[IntBytes + m.name + 1] = Nul
      BY <1>8 DEF both
    <3>3. QED BY <1>9, <3>1, <3>2
  <2>2. IntBytes + m.name + 1 \in 1..Len(tail) /\ 1 + (IntBytes + m.name + 1) = 2 + IntBytes + m.name
    BY <1>1, <1>11
  <2>3. QED BY <1>10, <2>1, <2>2
<1>15. \A x \in 1..ShortBytes :
         (one \o tail)[2 + IntBytes + m.name + x] = Token("short", Wire!AsShort(m.port), x)
  <2> SUFFICES ASSUME NEW x \in 1..ShortBytes
               PROVE  (one \o tail)[2 + IntBytes + m.name + x] = Token("short", Wire!AsShort(m.port), x)
    OBVIOUS
  <2>1. tail[IntBytes + m.name + 1 + x] = Token("short", Wire!AsShort(m.port), x)
    BY <1>5, <1>9
  <2>2. IntBytes + m.name + 1 + x \in 1..Len(tail)
    BY <1>1, <1>11
  <2>3. 2 + IntBytes + m.name + x = 1 + (IntBytes + m.name + 1 + x)
    BY <1>1
  <2>4. QED BY <1>10, <2>1, <2>2, <2>3
<1>16. Len(one \o tail) = 2 + IntBytes + m.name + ShortBytes
  BY <1>1, <1>10, <1>11
<1>17. Wire!Written(m) = one \o tail
  BY <1>7 DEF tail, both
<1>18. (one \o tail)[1] = Token("byte", 2, 1)
  BY <1>2, <1>10
<1>19. QED BY <1>10, <1>12, <1>13, <1>14, <1>15, <1>16, <1>17, <1>18 DEF ListShape

LEMMA WrittenAck ==
  /\ Wire!Written(Wire!Ack) \in Seq(Byte) /\ Len(Wire!Written(Wire!Ack)) = 1
  /\ Wire!Written(Wire!Ack)[1] = Token("byte", 1, 1)
<1> DEFINE one == Wire!Tokens("byte", 1, 1)
<1>1. one \in Seq(Byte) /\ Len(one) = 1 /\ one[1] = Token("byte", 1, 1)
  <2>1. \A x \in 1..1 : Token("byte", 1, x) \in Byte
    BY TokenBytes
  <2>2. \A x \in 1..1 : one[x] = Token("byte", 1, x)
    BY <2>1, TokensAre
  <2>3. one \in Seq(Byte) /\ Len(one) = 1
    BY <2>1, TokensAre
  <2>4. QED BY <2>2, <2>3
<1>2. Wire!Written(Wire!Ack) = one \o << >>
  BY DEF Wire!Written, Wire!Ack, Wire!UPDATE_REQUEST, Wire!CONNECTION_REQUEST
<1> HIDE DEF one
<1>3. QED BY <1>1, <1>2

LEMMA WrittenBytes ==
  ASSUME Wire!FramingAssumption, NEW m \in Wire!Message
  PROVE  Wire!Written(m) \in Seq(Byte) /\ Len(Wire!Written(m)) \in Nat \ {0}
<1>1. CASE m = Wire!Ack
  BY <1>1, WrittenAck
<1>2. CASE m \in [id : {2}, count : Nat, name : Nat, port : 0..(ShortRange - 1)]
  <2>1. Wire!Written(m) \in Seq(Byte) /\ ListShape(Wire!Written(m), m)
    BY <1>2, WrittenList
  <2>2. QED BY <1>2, <2>1, WireConstants DEF ListShape
<1>3. QED BY <1>1, <1>2 DEF Wire!Message, Wire!UPDATE_REQUEST

\* A frame is a length and the bytes of its message.
LEMMA FrameBytes ==
  ASSUME Wire!FramingAssumption, NEW m \in Wire!Message
  PROVE  /\ Wire!Frame(m) \in Seq(Byte)
         /\ Len(Wire!Frame(m)) = IntBytes + Len(Wire!Written(m))
         /\ \A n \in 1..IntBytes : Wire!Frame(m)[n] = Token("int", Len(Wire!Written(m)), n)
         /\ \A n \in 1..Len(Wire!Written(m)) : Wire!Frame(m)[IntBytes + n] = Wire!Written(m)[n]
<1> DEFINE w   == Wire!Written(m)
           number == Wire!Tokens("int", Len(w), IntBytes)
<1>1. w \in Seq(Byte) /\ Len(w) \in Nat /\ IntBytes \in Nat
  BY WrittenBytes, WireConstants
<1>2. \A x \in 1..IntBytes : Token("int", Len(w), x) \in Byte
  BY <1>1, TokenBytes
<1>3. /\ number \in Seq(Byte) /\ Len(number) = IntBytes
      /\ \A x \in 1..IntBytes : number[x] = Token("int", Len(w), x)
  BY <1>1, <1>2, TokensAre
<1>4. Wire!Frame(m) = number \o w
  BY DEF Wire!Frame
<1> HIDE DEF w, number
<1>5. /\ number \o w \in Seq(Byte) /\ Len(number \o w) = IntBytes + Len(w)
      /\ \A x \in 1..IntBytes : (number \o w)[x] = number[x]
      /\ \A x \in 1..Len(w) : (number \o w)[IntBytes + x] = w[x]
  BY <1>1, <1>3, BytesBehind
<1>6. QED BY <1>1, <1>3, <1>4, <1>5 DEF w

LEMMA AtReads ==
  ASSUME buffer \in Seq(Byte), NEW pos \in Nat, NEW n \in Nat, pos + n <= Len(buffer)
  PROVE  DOMAIN Wire!At(pos, n) = 1..n /\ \A x \in 1..n : Wire!At(pos, n)[x] = buffer[pos + x]
BY DEF Wire!At

\* A string ends at its zero byte.
LEMMA StringEnds ==
  ASSUME buffer \in Seq(Byte), NEW pos \in Nat, NEW n \in Nat, pos + n < Len(buffer),
         \A x \in 1..n : buffer[pos + x].part # "nul", buffer[pos + n + 1].part = "nul"
  PROVE  Wire!StringEnd(pos) = pos + n
<1> DEFINE ends == {x \in pos..(Len(buffer) - 1) : buffer[x + 1].part = "nul"}
<1>1. Len(buffer) \in Nat
  OBVIOUS
<1>2. pos + n \in ends
  BY <1>1
<1>3. ASSUME NEW x \in ends PROVE pos + n <= x
  <2>1. x \in Int /\ pos <= x /\ buffer[x + 1].part = "nul"
    BY <1>1
  <2>2. CASE x < pos + n
    <3>1. (x + 1) - pos \in 1..n /\ pos + ((x + 1) - pos) = x + 1
      BY <2>1, <2>2
    <3>2. buffer[x + 1].part # "nul"
      BY <3>1
    <3>3. QED BY <2>1, <3>2
  <2>3. QED BY <2>1, <2>2
<1>4. ends \subseteq Int
  BY <1>1
<1> DEFINE end == CHOOSE x \in ends : \A y \in ends : x <= y
<1>5. end \in ends /\ \A y \in ends : end <= y
  BY <1>2, <1>3
<1>6. end = pos + n
  BY <1>2, <1>3, <1>4, <1>5
<1>7. Wire!StringEnd(pos) = IF ends = {} THEN Len(buffer) ELSE end
  BY DEF Wire!StringEnd
<1>8. QED BY <1>2, <1>6, <1>7

\* ReadMessage of Framing for a list.
LEMMA ReadsList ==
  ASSUME Wire!FramingAssumption, buffer \in Seq(Byte),
         NEW m \in [id : {2}, count : Nat, name : Nat, port : 0..(ShortRange - 1)],
         NEW w \in Seq(Byte), ListShape(w, m), Len(w) <= Len(buffer),
         \A x \in 1..Len(w) : buffer[x] = w[x]
  PROVE  Wire!ReadMessage = m
<1> DEFINE L   == Len(buffer)
           end == 1 + IntBytes + m.name
<1>1. /\ IntBytes \in Nat \ {0} /\ ShortBytes \in Nat \ {0} /\ m.name \in Nat /\ m.count \in Nat
      /\ L \in Nat /\ L >= 2 + IntBytes + m.name + ShortBytes /\ end \in Nat
      /\ Len(w) = 2 + IntBytes + m.name + ShortBytes
  BY WireConstants DEF ListShape
<1>2. buffer[1] = Token("byte", 2, 1)
  BY <1>1 DEF ListShape
<1>3. \A x \in 1..IntBytes : buffer[1 + x] = Token("int", m.count, x)
  <2> SUFFICES ASSUME NEW x \in 1..IntBytes PROVE buffer[1 + x] = Token("int", m.count, x)
    OBVIOUS
  <2>1. 1 + x \in 1..Len(w)
    BY <1>1
  <2>2. QED BY <2>1 DEF ListShape
<1>4. \A x \in 1..m.name : buffer[1 + IntBytes + x] = Token("char", m.name, x)
  <2> SUFFICES ASSUME NEW x \in 1..m.name PROVE buffer[1 + IntBytes + x] = Token("char", m.name, x)
    OBVIOUS
  <2>1. 1 + IntBytes + x \in 1..Len(w)
    BY <1>1
  <2>2. QED BY <2>1 DEF ListShape
<1>5. buffer[end + 1] = Nul
  <2>1. 2 + IntBytes + m.name \in 1..Len(w) /\ end + 1 = 2 + IntBytes + m.name
    BY <1>1
  <2>2. QED BY <2>1 DEF ListShape
<1>6. \A x \in 1..ShortBytes : buffer[end + 1 + x] = Token("short", Wire!AsShort(m.port), x)
  <2> SUFFICES ASSUME NEW x \in 1..ShortBytes
               PROVE  buffer[end + 1 + x] = Token("short", Wire!AsShort(m.port), x)
    OBVIOUS
  <2>1. 2 + IntBytes + m.name + x \in 1..Len(w) /\ end + 1 + x = 2 + IntBytes + m.name + x
    BY <1>1
  <2>2. QED BY <2>1 DEF ListShape
<1> HIDE DEF L, end
<1>7. Wire!Together("byte", Wire!At(0, 1)) /\ buffer[1].v = 2
  <2>1. 0 + 1 <= Len(buffer)
    BY <1>1 DEF L
  <2>2. DOMAIN Wire!At(0, 1) = 1..1 /\ \A x \in 1..1 : Wire!At(0, 1)[x] = buffer[0 + x]
    BY <2>1, AtReads
  <2>3. \A x \in 1..1 : Wire!At(0, 1)[x] = Token("byte", 2, x)
    BY <1>2, <2>2
  <2>4. 1 \in DOMAIN Wire!At(0, 1) /\ \A x \in DOMAIN Wire!At(0, 1) : Wire!At(0, 1)[x] = Token("byte", 2, x)
    BY <2>2, <2>3
  <2>5. Wire!Together("byte", Wire!At(0, 1))
    BY <2>4 DEF Wire!Together, Token
  <2>6. QED BY <1>2, <2>5 DEF Token
<1>8. Wire!Moved(0, 1) = 1 /\ Wire!Moved(1, IntBytes) = 1 + IntBytes
  BY <1>1 DEF Wire!Moved, L
<1>9. Wire!Number("int", Wire!At(1, IntBytes)) = m.count
  <2>1. DOMAIN Wire!At(1, IntBytes) = 1..IntBytes
        /\ \A x \in 1..IntBytes : Wire!At(1, IntBytes)[x] = buffer[1 + x]
    <3>1. 1 \in Nat /\ 1 + IntBytes <= Len(buffer)
      BY <1>1 DEF L
    <3>2. QED BY <1>1, <3>1, AtReads
  <2>2. \A x \in 1..IntBytes : Wire!At(1, IntBytes)[x] = Token("int", m.count, x)
    BY <1>3, <2>1
  <2>3. /\ 1 \in DOMAIN Wire!At(1, IntBytes)
        /\ \A x \in DOMAIN Wire!At(1, IntBytes) : Wire!At(1, IntBytes)[x] = Token("int", m.count, x)
    BY <1>1, <2>1, <2>2
  <2>4. Wire!Together("int", Wire!At(1, IntBytes))
    BY <2>3 DEF Wire!Together, Token
  <2>5. Wire!At(1, IntBytes)[1].v = m.count
    BY <2>3 DEF Token
  <2>6. QED BY <2>4, <2>5 DEF Wire!Number
<1>10. Wire!StringEnd(1 + IntBytes) = end
  <2>1. 1 + IntBytes \in Nat /\ (1 + IntBytes) + m.name = end /\ end < Len(buffer)
    BY <1>1 DEF L, end
  <2>2. \A x \in 1..m.name : buffer[(1 + IntBytes) + x].part # "nul"
    <3> SUFFICES ASSUME NEW x \in 1..m.name PROVE buffer[1 + IntBytes + x].part # "nul"
      OBVIOUS
    <3>1. Token("char", m.name, x).part = "char"
      BY DEF Token
    <3>2. QED BY <1>4, <3>1
  <2>3. buffer[end + 1].part = "nul"
    BY <1>5 DEF Nul
  <2>4. QED BY <1>1, <2>1, <2>2, <2>3, StringEnds
<1>11. Wire!Moved(1 + IntBytes, end + 1 - (1 + IntBytes)) = end + 1 /\ end - (1 + IntBytes) = m.name
  <2> DEFINE d == end + 1 - (1 + IntBytes)
  <2>1. d = m.name + 1 /\ d \in Nat
    BY <1>1 DEF end
  <2>2. end + 1 = (1 + IntBytes) + (m.name + 1)
    BY <1>1 DEF end
  <2>3. end + 1 <= Len(buffer) - 1
    BY <1>1 DEF end, L
  <2>4. end - (1 + IntBytes) = m.name
    BY <1>1 DEF end
  <2> HIDE DEF d
  <2>5. (1 + IntBytes) + d = end + 1 /\ end + 1 \in Nat /\ Len(buffer) \in Nat
    BY <1>1, <2>1, <2>2 DEF L
  <2>6. Wire!Moved(1 + IntBytes, d) = end + 1
    BY <2>3, <2>5 DEF Wire!Moved
  <2>7. QED BY <2>4, <2>6 DEF d
<1>12. Wire!Together("short", Wire!At(end + 1, ShortBytes))
       /\ Wire!At(end + 1, ShortBytes)[1].v = Wire!AsShort(m.port)
  <2>1. end + 1 \in Nat /\ end + 1 + ShortBytes <= Len(buffer)
    BY <1>1 DEF L, end
  <2>2. DOMAIN Wire!At(end + 1, ShortBytes) = 1..ShortBytes
        /\ \A x \in 1..ShortBytes : Wire!At(end + 1, ShortBytes)[x] = buffer[end + 1 + x]
    BY <1>1, <2>1, AtReads
  <2>3. \A x \in 1..ShortBytes :
          Wire!At(end + 1, ShortBytes)[x] = Token("short", Wire!AsShort(m.port), x)
    BY <1>6, <2>2
  <2> DEFINE at == Wire!At(end + 1, ShortBytes)
             v  == Wire!AsShort(m.port)
  <2>4. 1 \in DOMAIN at /\ \A x \in DOMAIN at : at[x] = Token("short", v, x)
    BY <1>1, <2>2, <2>3
  <2> HIDE DEF at, v
  <2>5. Wire!Together("short", at)
    BY <2>4 DEF Wire!Together, Token
  <2>6. at[1].v = v
    BY <2>4 DEF Token
  <2>7. QED BY <2>5, <2>6 DEF at, v
<1>13. Wire!AsShort(m.port) % ShortRange = m.port
  BY PortSurvives
<1>14. Wire!ReadMessage = Wire!List(m.count, m.name, m.port)
  BY <1>7, <1>8, <1>9, <1>10, <1>11, <1>12, <1>13 DEF Wire!ReadMessage, Wire!UPDATE_REQUEST
<1>15. m = Wire!List(m.count, m.name, m.port)
  BY DEF Wire!List, Wire!UPDATE_REQUEST
<1>16. QED BY <1>14, <1>15

\* Reading is the inverse of writing, whatever is behind the message.
LEMMA ReadsBack ==
  ASSUME Wire!FramingAssumption, buffer \in Seq(Byte), NEW m \in Wire!Message,
         Len(Wire!Written(m)) <= Len(buffer),
         \A x \in 1..Len(Wire!Written(m)) : buffer[x] = Wire!Written(m)[x]
  PROVE  Wire!ReadMessage = m
<1>1. CASE m = Wire!Ack
  <2>1. 0 + 1 <= Len(buffer) /\ buffer[1] = Token("byte", 1, 1)
    BY <1>1, WrittenAck
  <2>2. DOMAIN Wire!At(0, 1) = 1..1 /\ \A x \in 1..1 : Wire!At(0, 1)[x] = buffer[0 + x]
    BY <2>1, AtReads
  <2>3. \A x \in 1..1 : Wire!At(0, 1)[x] = Token("byte", 1, x)
    BY <2>1, <2>2
  <2>4. Wire!Together("byte", Wire!At(0, 1)) /\ buffer[1].v = 1
    <3>1. /\ 1 \in DOMAIN Wire!At(0, 1)
          /\ \A x \in DOMAIN Wire!At(0, 1) : Wire!At(0, 1)[x] = Token("byte", 1, x)
      BY <2>2, <2>3
    <3>2. Wire!Together("byte", Wire!At(0, 1))
      BY <3>1 DEF Wire!Together, Token
    <3>3. QED BY <2>1, <3>2 DEF Token
  <2>5. Wire!ReadMessage = [id |-> 1]
    BY <2>4 DEF Wire!ReadMessage, Wire!UPDATE_REQUEST
  <2>6. QED BY <1>1, <2>5 DEF Wire!Ack, Wire!CONNECTION_REQUEST
<1>2. CASE m \in [id : {2}, count : Nat, name : Nat, port : 0..(ShortRange - 1)]
  BY <1>2, WrittenList, ReadsList
<1>3. QED BY <1>1, <1>2 DEF Wire!Message, Wire!UPDATE_REQUEST

-----------------------------------------------------------------------------
(* The bytes of several messages, one frame behind the other.                *)

\* bytes are the frames of the messages ms; frame n ends at at[n].
EncodesAt(bytes, ms, at) ==
  /\ at \in [0..Len(ms) -> 0..Len(bytes)] /\ at[0] = 0 /\ at[Len(ms)] = Len(bytes)
  /\ \A x, y \in 0..Len(ms) : x <= y => at[x] <= at[y]
  /\ \A x \in 1..Len(ms) : at[x] = at[x - 1] + Len(Wire!Frame(ms[x]))
  /\ \A x \in 1..Len(ms), y \in 1..Len(bytes) :
       y <= Len(Wire!Frame(ms[x])) => bytes[at[x - 1] + y] = Wire!Frame(ms[x])[y]
Encodes(bytes, ms) == \E at : EncodesAt(bytes, ms, at)

LEMMA EncodesNothing == Encodes(<< >>, << >>)
<1> DEFINE at == [x \in 0..0 |-> 0]
<1>1. Len(<< >>) = 0 /\ at \in [0..0 -> 0..0] /\ at[0] = 0
  OBVIOUS
<1>2. EncodesAt(<< >>, << >>, at)
  BY <1>1 DEF EncodesAt
<1>3. QED BY <1>2 DEF Encodes

LEMMA FrameLength ==
  ASSUME Wire!FramingAssumption, NEW m \in Wire!Message
  PROVE  Wire!Frame(m) \in Seq(Byte) /\ Len(Wire!Frame(m)) \in Nat /\ Len(Wire!Frame(m)) > IntBytes
BY FrameBytes, WrittenBytes, WireConstants

\* A frame is put behind those under way.
LEMMA EncodesLast ==
  ASSUME Wire!FramingAssumption, NEW s \in Seq(Byte), NEW ms \in Seq(Wire!Message),
         NEW m \in Wire!Message, Encodes(s, ms)
  PROVE  Encodes(s \o Wire!Frame(m), Append(ms, m))
<1> DEFINE n    == Len(ms)
           L    == Len(s)
           fr   == Wire!Frame(m)
           last == Len(fr)
           t    == s \o fr
           mt   == Append(ms, m)
<1>1. PICK at : EncodesAt(s, ms, at)
  BY DEF Encodes
<1>2. n \in Nat /\ L \in Nat /\ last \in Nat /\ fr \in Seq(Byte)
  BY FrameLength
<1>3. Len(mt) = n + 1 /\ mt[n + 1] = m /\ \A x \in 1..n : mt[x] = ms[x] /\ ms[x] \in Wire!Message
  OBVIOUS
<1>4. /\ t \in Seq(Byte) /\ Len(t) = L + last
      /\ \A x \in 1..L : t[x] = s[x]
      /\ \A x \in 1..last : t[L + x] = fr[x]
  BY <1>2, BytesBehind
<1>5. /\ at \in [0..n -> 0..L] /\ at[0] = 0 /\ at[n] = L
      /\ \A x, y \in 0..n : x <= y => at[x] <= at[y]
      /\ \A x \in 1..n : at[x] = at[x - 1] + Len(Wire!Frame(ms[x]))
      /\ \A x \in 1..n, y \in 1..L : y <= Len(Wire!Frame(ms[x])) => s[at[x - 1] + y] = Wire!Frame(ms[x])[y]
  BY <1>1 DEF EncodesAt
<1> HIDE DEF n, L, fr, last, t, mt
<1> DEFINE to == [x \in 0..(n + 1) |-> IF x <= n THEN at[x] ELSE L + last]
<1>6. to \in [0..(n + 1) -> 0..(L + last)] /\ to[0] = 0 /\ to[n + 1] = L + last
  <2>1. \A x \in 0..(n + 1) : (IF x <= n THEN at[x] ELSE L + last) \in 0..(L + last)
    BY <1>2, <1>5
  <2>2. QED BY <1>2, <1>5, <2>1
<1>7. \A x \in 0..n : to[x] = at[x]
  BY <1>2
<1>8. \A x, y \in 0..(n + 1) : x <= y => to[x] <= to[y]
  <2> SUFFICES ASSUME NEW x \in 0..(n + 1), NEW y \in 0..(n + 1), x <= y PROVE to[x] <= to[y]
    OBVIOUS
  <2>1. CASE y = n + 1
    BY <1>2, <1>6, <2>1
  <2>2. CASE y # n + 1
    <3>1. x \in 0..n /\ y \in 0..n
      BY <1>2, <2>2
    <3>2. QED BY <1>5, <1>7, <3>1
  <2>3. QED BY <2>1, <2>2
<1>9. ASSUME NEW x \in 1..(n + 1)
      PROVE  /\ to[x] = to[x - 1] + Len(Wire!Frame(mt[x]))
             /\ \A y \in 1..(L + last) : y <= Len(Wire!Frame(mt[x])) => t[to[x - 1] + y] = Wire!Frame(mt[x])[y]
  <2>1. CASE x = n + 1
    <3>1. to[x - 1] = L /\ mt[x] = m /\ to[x] = L + last
      BY <1>2, <1>3, <1>5, <1>6, <1>7, <2>1
    <3>2. Wire!Frame(mt[x]) = fr /\ Len(Wire!Frame(mt[x])) = last
      BY <3>1 DEF fr, last
    <3>3. QED BY <1>2, <1>4, <3>1, <3>2
  <2>2. CASE x # n + 1
    <3>1. x \in 1..n /\ x \in 0..n /\ x - 1 \in 0..n
      BY <1>2, <2>2
    <3>2. to[x] = at[x] /\ to[x - 1] = at[x - 1] /\ mt[x] = ms[x] /\ at[x] \in 0..L /\ at[x - 1] \in 0..L
      BY <1>3, <1>5, <1>7, <3>1
    <3>3. Len(Wire!Frame(ms[x])) \in Nat
      BY <1>3, <3>1, FrameLength
    <3>4. to[x] = to[x - 1] + Len(Wire!Frame(mt[x]))
      BY <1>5, <3>1, <3>2
    <3>5. ASSUME NEW y \in 1..(L + last), y <= Len(Wire!Frame(mt[x]))
          PROVE  t[to[x - 1] + y] = Wire!Frame(mt[x])[y]
      <4>1. at[x - 1] + y \in 1..L /\ y \in 1..L
        <5> DEFINE l == Len(Wire!Frame(ms[x]))
                   p == at[x - 1]
                   q == at[x]
        <5>1. y <= l /\ l \in Nat /\ q = p + l
          BY <1>5, <3>1, <3>2, <3>3, <3>5
        <5>2. p \in 0..L /\ q \in 0..L
          BY <3>2
        <5>3. y \in Nat /\ y >= 1
          BY <1>2
        <5>4. L \in Nat
          BY <1>2
        <5> HIDE DEF l, p, q
        <5>5. p + y \in 1..L /\ y \in 1..L
          BY <5>1, <5>2, <5>3, <5>4
        <5>6. QED BY <5>5 DEF p
      <4>2. s[at[x - 1] + y] = Wire!Frame(ms[x])[y]
        BY <1>5, <3>1, <3>2, <3>5, <4>1
      <4>3. QED BY <1>4, <3>2, <4>1, <4>2
    <3>6. QED BY <3>4, <3>5
  <2>3. QED BY <2>1, <2>2
<1>10. EncodesAt(t, mt, to)
  <2>1. Len(mt) = n + 1 /\ Len(t) = L + last
    BY <1>3, <1>4
  <2> HIDE DEF to
  <2>2. QED BY <1>6, <1>8, <1>9, <2>1 DEF EncodesAt
<1>11. QED BY <1>10 DEF Encodes, t, mt, fr

\* What is under way begins with the frame of the first message.
LEMMA EncodesFirst ==
  ASSUME Wire!FramingAssumption, NEW s \in Seq(Byte), s # << >>, NEW ms \in Seq(Wire!Message),
         Encodes(s, ms)
  PROVE  /\ ms # << >> /\ Head(ms) \in Wire!Message /\ Tail(ms) \in Seq(Wire!Message)
         /\ \E r \in Seq(Byte) : s = Wire!Frame(Head(ms)) \o r /\ Encodes(r, Tail(ms))
<1> DEFINE n == Len(ms)
           L == Len(s)
<1>1. PICK at : EncodesAt(s, ms, at)
  BY DEF Encodes
<1>2. n \in Nat /\ L \in Nat /\ L > 0
  OBVIOUS
<1>3. /\ at \in [0..n -> 0..L] /\ at[0] = 0 /\ at[n] = L
      /\ \A x, y \in 0..n : x <= y => at[x] <= at[y]
      /\ \A x \in 1..n : at[x] = at[x - 1] + Len(Wire!Frame(ms[x]))
      /\ \A x \in 1..n, y \in 1..L : y <= Len(Wire!Frame(ms[x])) => s[at[x - 1] + y] = Wire!Frame(ms[x])[y]
  BY <1>1 DEF EncodesAt
<1>4. n # 0
  BY <1>2, <1>3
<1>5. /\ ms # << >> /\ Head(ms) = ms[1] /\ Head(ms) \in Wire!Message /\ Tail(ms) \in Seq(Wire!Message)
      /\ Len(Tail(ms)) = n - 1 /\ \A x \in 1..(n - 1) : Tail(ms)[x] = ms[x + 1]
  BY <1>4
<1> DEFINE fr    == Wire!Frame(Head(ms))
           first == Len(fr)
           r     == SubSeq(s, first + 1, L)
           mt    == Tail(ms)
<1>6. fr \in Seq(Byte) /\ first \in Nat /\ first > 0
  BY <1>5, FrameLength, WireConstants
<1>7. at[1] = first /\ first <= L
  <2>1. 1 \in 1..n /\ 1 \in 0..n /\ 1 - 1 = 0
    BY <1>2, <1>4
  <2>2. at[1] = at[0] + first /\ at[1] \in 0..L
    BY <1>3, <1>5, <2>1
  <2>3. QED BY <1>3, <1>6, <2>2
<1>8. r \in Seq(Byte) /\ Len(r) = L - first /\ \A x \in 1..(L - first) : r[x] = s[first + x]
  BY <1>2, <1>6, <1>7
<1>9. s = fr \o r
  <2>1. /\ fr \o r \in Seq(Byte) /\ Len(fr \o r) = L
        /\ \A x \in 1..first : (fr \o r)[x] = fr[x]
        /\ \A x \in 1..Len(r) : (fr \o r)[first + x] = r[x]
    <3> HIDE DEF r, fr
    <3>1. /\ fr \o r \in Seq(Byte) /\ Len(fr \o r) = Len(fr) + Len(r)
          /\ \A x \in 1..Len(fr) : (fr \o r)[x] = fr[x]
          /\ \A x \in 1..Len(r) : (fr \o r)[Len(fr) + x] = r[x]
      BY <1>6, <1>8, BytesBehind
    <3>2. QED BY <1>2, <1>6, <1>8, <3>1
  <2>2. \A x \in 1..first : s[x] = fr[x]
    <3> SUFFICES ASSUME NEW x \in 1..first PROVE s[x] = fr[x]
      OBVIOUS
    <3>1. 1 \in 1..n /\ x \in 1..L /\ at[1 - 1] + x = x /\ x <= first
      BY <1>2, <1>3, <1>4, <1>6, <1>7
    <3>2. QED BY <1>3, <1>5, <3>1
  <2> HIDE DEF r, fr, first
  <2>3. ASSUME NEW x \in 1..L PROVE s[x] = (fr \o r)[x]
    <3>1. CASE x <= first
      BY <1>6, <2>1, <2>2, <3>1
    <3>2. CASE ~(x <= first)
      <4>1. x - first \in 1..(L - first) /\ first + (x - first) = x
        BY <1>2, <1>6, <3>2
      <4>2. QED BY <1>8, <2>1, <4>1
    <3>3. QED BY <3>1, <3>2
  <2>4. QED BY <2>1, <2>3, SeqEqual
<1> HIDE DEF r, fr, first, mt
<1> DEFINE to == [x \in 0..(n - 1) |-> at[x + 1] - first]
<1>10. EncodesAt(r, mt, to)
  <2>1. \A x \in 0..(n - 1) : x + 1 \in 0..n /\ at[x + 1] - first \in 0..(L - first)
    <3> SUFFICES ASSUME NEW x \in 0..(n - 1) PROVE x + 1 \in 0..n /\ at[x + 1] - first \in 0..(L - first)
      OBVIOUS
    <3>1. x + 1 \in 0..n /\ 1 \in 0..n /\ 1 <= x + 1
      BY <1>2, <1>4
    <3>2. at[1] <= at[x + 1] /\ at[x + 1] \in 0..L
      BY <1>3, <3>1
    <3>3. QED BY <1>2, <1>6, <1>7, <3>1, <3>2
  <2>2. to \in [0..(n - 1) -> 0..(L - first)]
    BY <2>1
  <2>3. to[0] = 0 /\ to[n - 1] = L - first
    <3>1. 0 \in 0..(n - 1) /\ n - 1 \in 0..(n - 1) /\ (n - 1) + 1 = n /\ 0 + 1 = 1
      BY <1>2, <1>4
    <3>2. to[0] = at[1] - first /\ to[n - 1] = at[n] - first
      BY <3>1
    <3>3. QED BY <1>3, <1>6, <1>7, <3>2
  <2>4. \A x, y \in 0..(n - 1) : x <= y => to[x] <= to[y]
    <3> SUFFICES ASSUME NEW x \in 0..(n - 1), NEW y \in 0..(n - 1), x <= y PROVE to[x] <= to[y]
      OBVIOUS
    <3>1. at[x + 1] <= at[y + 1] /\ at[x + 1] \in 0..L /\ at[y + 1] \in 0..L
      <4>1. x + 1 \in 0..n /\ y + 1 \in 0..n /\ x + 1 <= y + 1
        BY <2>1
      <4>2. QED BY <1>3, <4>1
    <3>2. to[x] = at[x + 1] - first /\ to[y] = at[y + 1] - first
      OBVIOUS
    <3> HIDE DEF to
    <3>3. QED BY <1>2, <1>6, <3>1, <3>2
  <2>5. ASSUME NEW x \in 1..(n - 1)
        PROVE  /\ to[x] = to[x - 1] + Len(Wire!Frame(mt[x]))
               /\ \A y \in 1..(L - first) : y <= Len(Wire!Frame(mt[x])) => r[to[x - 1] + y] = Wire!Frame(mt[x])[y]
    <3>1. /\ x + 1 \in 1..n /\ x \in 0..n /\ x \in 0..(n - 1) /\ x - 1 \in 0..(n - 1) /\ (x - 1) + 1 = x
          /\ x + 1 \in 0..n /\ (x + 1) - 1 = x
      BY <1>2
    <3>2. mt[x] = ms[x + 1] /\ ms[x + 1] \in Wire!Message
      BY <1>5, <3>1 DEF mt
    <3>3. Len(Wire!Frame(mt[x])) \in Nat
      BY <3>2, FrameLength
    <3>4. to[x] = at[x + 1] - first /\ to[x - 1] = at[x] - first /\ at[x] \in 0..L /\ at[x + 1] \in 0..L
      BY <1>3, <3>1
    <3>5. at[x + 1] = at[x] + Len(Wire!Frame(mt[x]))
      BY <1>3, <3>1, <3>2
    <3>6. to[x - 1] \in 0..(L - first)
      BY <2>2, <3>1
    <3>7. ASSUME NEW y \in 1..(L - first), y <= Len(Wire!Frame(mt[x]))
          PROVE  r[to[x - 1] + y] = Wire!Frame(mt[x])[y]
      <4>1. y \in 1..L /\ s[at[x] + y] = Wire!Frame(mt[x])[y]
        BY <1>2, <1>3, <1>6, <3>1, <3>2, <3>7
      <4>2. to[x - 1] + y \in 1..(L - first) /\ first + (to[x - 1] + y) = at[x] + y
        <5> DEFINE l == Len(Wire!Frame(mt[x]))
        <5>1. y <= l /\ l \in Nat /\ at[x + 1] = at[x] + l /\ y \in Nat /\ y >= 1
          BY <1>2, <1>6, <3>3, <3>5, <3>7
        <5> HIDE DEF l, to
        <5> DEFINE before == at[x]
                   after  == at[x + 1]
        <5>2. /\ before \in Int /\ after \in Int /\ after <= L /\ after = before + l
              /\ to[x - 1] = before - first /\ before - first >= 0
          BY <1>2, <1>6, <3>4, <3>6, <5>1
        <5> HIDE DEF before, after
        <5>3. (before - first) + y \in 1..(L - first) /\ first + ((before - first) + y) = before + y
          BY <1>2, <1>6, <5>1, <5>2
        <5>4. QED BY <5>2, <5>3 DEF before
      <4>3. QED BY <1>8, <4>1, <4>2
    <3>8. to[x] = to[x - 1] + Len(Wire!Frame(mt[x]))
      BY <1>6, <3>3, <3>4, <3>5
    <3>9. QED BY <3>7, <3>8
  <2>6. Len(mt) = n - 1 /\ Len(r) = L - first
    BY <1>5, <1>8 DEF mt
  <2> HIDE DEF to
  <2>7. QED BY <2>2, <2>3, <2>4, <2>5, <2>6 DEF EncodesAt
<1>11. QED BY <1>5, <1>8, <1>9, <1>10 DEF Encodes, mt, fr

-----------------------------------------------------------------------------
(* The inductive invariant of Framing.                                       *)

\* What is received may be no message, but there are as many of them as were read.
Listed(s) == \E S : s \in Seq(S)

WireTypes ==
  /\ todo \in [Writer -> Seq(Wire!Message)] /\ sending \in [Writer -> Seq(Byte)]
  /\ stream \in Seq(Byte) /\ Len(stream) <= Window
  /\ closed \in {"no", "eof", "reset"} /\ error \in {"none", "between", "inside"}
  /\ phase \in {"length", "packet", "astray"}
  /\ want \in Nat /\ received \in Nat /\ buffer \in Seq(Byte) /\ received <= Len(buffer)
  /\ phase = "packet" => received + want <= Len(buffer)
  /\ Listed(got) /\ begun \in Seq(Wire!Message)
  /\ overlap \in BOOLEAN /\ split \in BOOLEAN

\* recv fails at the end of what the peer sent, and the reader does no more.
Broken == error # "none" => stream = << >> /\ closed = "reset" /\ phase = "length"

\* Between two messages the buffer holds the last one.
HoldsLast == phase = "length" /\ got # << >> => Wire!ReadMessage = got[Len(got)]

\* One thread at most is sending, and it has yet to send f.
Sends(f) ==
  \/ f = << >> /\ \A w \in Writer : sending[w] = << >>
  \/ \E w \in Writer : sending[w] = f /\ \A v \in Writer \ {w} : sending[v] = << >>

\* The same bytes, divided in two ways.
Divided(s, f, a, r) ==
  {s, f, a, r} \subseteq Seq(Byte) /\ s \o f = a \o r

\* What is left of the bytes s behind the first n.
Rest(s, n) == SubSeq(s, n + 1, Len(s))

\* Part of the packet of m is received, and what follows are the frames of u.
InPacket(m, u, f) ==
  /\ received + want = Len(Wire!Written(m))
  /\ \A x \in 1..received : buffer[x] = Wire!Written(m)[x]
  /\ \E r \in Seq(Byte) :
       /\ Divided(stream, f, Rest(Wire!Written(m), received), r)
       /\ Encodes(r, u)

\* The messages u are begun and not read; f of them is not sent.
Flow(u, f) ==
  /\ u \in Seq(Wire!Message) /\ f \in Seq(Byte) /\ got \in Seq(Wire!Message)
  /\ begun = got \o u /\ Sends(f)
  /\ \/ phase = "length" /\ Encodes(stream \o f, u)
     \/ phase = "packet" /\ u # << >> /\ InPacket(Head(u), Tail(u), f)

Flows == overlap \/ split \/ error # "none" \/ \E u, f : Flow(u, f)

AfterError == error = "between" =>
  overlap \/ split \/ (Wire!IsPrefix(Wire!ReadWhole, begun) /\ Wire!Again)

WireInv == WireTypes /\ Broken /\ HoldsLast /\ Flows /\ AfterError

LEMMA ReadSame ==
  ASSUME buffer' = buffer
  PROVE  Wire!ReadMessage' = Wire!ReadMessage
BY DEF Wire!ReadMessage, Wire!At, Wire!Moved, Wire!StringEnd

\* t is s with e behind it.
Longer(s, e, t) ==
  /\ Listed(t)
  /\ Len(s) \in Nat /\ Len(t) = Len(s) + 1 /\ t[Len(t)] = e
  /\ \A x \in 1..Len(s) : t[x] = s[x]

\* Whatever is appended to a sequence, it is one.
LEMMA StillListed ==
  ASSUME NEW s, Listed(s), NEW e
  PROVE  Longer(s, e, Append(s, e))
<1>1. PICK S : s \in Seq(S)
  BY DEF Listed
<1>2. PICK T : T = S \cup {e}
  OBVIOUS
<1>3. s \in Seq(T) /\ e \in T
  BY <1>1, <1>2, SeqMonotonic
<1>4. PICK t : t = Append(s, e)
  OBVIOUS
<1>5. /\ t \in Seq(T) /\ Len(s) \in Nat /\ Len(t) = Len(s) + 1 /\ t[Len(t)] = e
      /\ \A x \in 1..Len(s) : t[x] = s[x]
  BY <1>3, <1>4
<1>6. QED BY <1>4, <1>5 DEF Longer, Listed

\* The first n bytes of both are the same, and so is the rest.
LEMMA CutFront ==
  ASSUME NEW s, NEW f, NEW a, NEW r, Divided(s, f, a, r),
         NEW n \in Nat, n <= Len(s), n <= Len(a)
  PROVE  /\ \A x \in 1..n : s[x] = a[x]
         /\ Divided(Rest(s, n), f, Rest(a, n), r)
<1>0. s \in Seq(Byte) /\ f \in Seq(Byte) /\ a \in Seq(Byte) /\ r \in Seq(Byte) /\ s \o f = a \o r
  BY DEF Divided
<1>1. /\ \A x \in 1..Len(s) : (s \o f)[x] = s[x]
      /\ \A x \in 1..Len(f) : (s \o f)[Len(s) + x] = f[x]
      /\ \A x \in 1..Len(a) : (s \o f)[x] = a[x]
      /\ \A x \in 1..Len(r) : (s \o f)[Len(a) + x] = r[x]
      /\ Len(s) \in Nat /\ Len(f) \in Nat /\ Len(a) \in Nat /\ Len(r) \in Nat
      /\ Len(s) + Len(f) = Len(a) + Len(r)
  <2>1. /\ \A x \in 1..Len(s) : (s \o f)[x] = s[x]
        /\ \A x \in 1..Len(f) : (s \o f)[Len(s) + x] = f[x]
        /\ Len(s \o f) = Len(s) + Len(f)
    BY <1>0, BytesBehind
  <2>2. /\ \A x \in 1..Len(a) : (a \o r)[x] = a[x]
        /\ \A x \in 1..Len(r) : (a \o r)[Len(a) + x] = r[x]
        /\ Len(a \o r) = Len(a) + Len(r)
    BY <1>0, BytesBehind
  <2>3. QED BY <1>0, <2>1, <2>2
<1>2. \A x \in 1..n : s[x] = a[x]
  <2> SUFFICES ASSUME NEW x \in 1..n PROVE s[x] = a[x]
    OBVIOUS
  <2>1. x \in 1..Len(s) /\ x \in 1..Len(a)
    BY <1>1
  <2>2. QED BY <1>1, <2>1
<1>3. ASSUME NEW p \in Seq(Byte), NEW q \in Seq(Byte), p \o q = s \o f, n <= Len(p)
      PROVE  /\ SubSeq(p, n + 1, Len(p)) \o q \in Seq(Byte)
             /\ Len(SubSeq(p, n + 1, Len(p)) \o q) = Len(s) + Len(f) - n
             /\ \A x \in 1..(Len(s) + Len(f) - n) :
                  (SubSeq(p, n + 1, Len(p)) \o q)[x] = (s \o f)[n + x]
  <2> DEFINE rest  == SubSeq(p, n + 1, Len(p))
             whole == s \o f
  <2>1. /\ \A x \in 1..Len(p) : whole[x] = p[x]
        /\ \A x \in 1..Len(q) : whole[Len(p) + x] = q[x]
        /\ Len(p) \in Nat /\ Len(q) \in Nat /\ Len(p) + Len(q) = Len(s) + Len(f)
    BY <1>1, <1>3, BytesBehind
  <2>2. rest \in Seq(Byte) /\ Len(rest) = Len(p) - n /\ \A x \in 1..(Len(p) - n) : rest[x] = p[n + x]
    BY <1>3, <2>1
  <2> HIDE DEF rest, whole
  <2>3. /\ rest \o q \in Seq(Byte) /\ Len(rest \o q) = Len(rest) + Len(q)
        /\ \A x \in 1..Len(rest) : (rest \o q)[x] = rest[x]
        /\ \A x \in 1..Len(q) : (rest \o q)[Len(rest) + x] = q[x]
    BY <2>2, BytesBehind
  <2>4. ASSUME NEW x \in 1..(Len(s) + Len(f) - n) PROVE (rest \o q)[x] = whole[n + x]
    <3>1. CASE x <= Len(p) - n
      <4>1. x \in 1..(Len(p) - n) /\ x \in 1..Len(rest) /\ n + x \in 1..Len(p)
        BY <1>1, <2>1, <2>2, <3>1
      <4>2. QED BY <2>1, <2>2, <2>3, <4>1
    <3>2. CASE ~(x <= Len(p) - n)
      <4> DEFINE y == x - (Len(p) - n)
      <4>1. y \in 1..Len(q) /\ Len(rest) + y = x /\ Len(p) + y = n + x
        BY <1>1, <1>3, <2>1, <2>2, <3>2
      <4>2. QED BY <2>1, <2>3, <4>1
    <3>3. QED BY <3>1, <3>2
  <2>5. Len(rest \o q) = Len(s) + Len(f) - n
    BY <1>1, <2>1, <2>2, <2>3
  <2>6. QED BY <2>3, <2>4, <2>5 DEF rest, whole
<1> DEFINE left  == SubSeq(s, n + 1, Len(s)) \o f
           right == SubSeq(a, n + 1, Len(a)) \o r
           m     == Len(s) + Len(f) - n
<1>4. left \in Seq(Byte) /\ Len(left) = m /\ \A x \in 1..m : left[x] = (s \o f)[n + x]
  BY <1>0, <1>3
<1>5. right \in Seq(Byte) /\ Len(right) = m /\ \A x \in 1..m : right[x] = (s \o f)[n + x]
  BY <1>0, <1>3
<1> HIDE DEF left, right
<1>6. left = right
  BY <1>4, <1>5, SeqEqual
<1>7. Rest(s, n) \in Seq(Byte) /\ Rest(a, n) \in Seq(Byte)
  BY <1>0 DEF Rest
<1>8. QED BY <1>0, <1>2, <1>6, <1>7 DEF left, right, Divided, Rest

LEMMA Reassociate ==
  ASSUME NEW s \in Seq(Byte), NEW t \in Seq(Byte), NEW u \in Seq(Byte)
  PROVE  (s \o t) \o u = s \o (t \o u)
OBVIOUS

LEMMA EmptyBehind ==
  ASSUME NEW s \in Seq(Byte)
  PROVE  s \o << >> = s /\ << >> \o s = s
OBVIOUS

\* What is left of a frame behind its length is the packet.
LEMMA BehindLength ==
  ASSUME Wire!FramingAssumption, NEW m \in Wire!Message
  PROVE  Rest(Wire!Frame(m), IntBytes) = Rest(Wire!Written(m), 0)
<1> DEFINE fr == Wire!Frame(m)
           w  == Wire!Written(m)
<1>1. /\ fr \in Seq(Byte) /\ Len(fr) = IntBytes + Len(w) /\ w \in Seq(Byte)
      /\ \A n \in 1..Len(w) : fr[IntBytes + n] = w[n]
      /\ IntBytes \in Nat /\ Len(w) \in Nat
  BY FrameBytes, WrittenBytes, WireConstants
<1> HIDE DEF fr, w
<1>2. /\ SubSeq(fr, IntBytes + 1, Len(fr)) \in Seq(Byte)
      /\ Len(SubSeq(fr, IntBytes + 1, Len(fr))) = Len(w)
      /\ \A x \in 1..Len(w) : SubSeq(fr, IntBytes + 1, Len(fr))[x] = fr[IntBytes + x]
  BY <1>1
<1>3. /\ SubSeq(w, 0 + 1, Len(w)) \in Seq(Byte) /\ Len(SubSeq(w, 0 + 1, Len(w))) = Len(w)
      /\ \A x \in 1..Len(w) : SubSeq(w, 0 + 1, Len(w))[x] = w[x]
  BY <1>1
<1> DEFINE left  == SubSeq(fr, IntBytes + 1, Len(fr))
           right == SubSeq(w, 0 + 1, Len(w))
<1>4. left \in Seq(Byte) /\ right \in Seq(Byte) /\ Len(left) = Len(right)
      /\ \A x \in 1..Len(left) : left[x] = right[x]
  BY <1>1, <1>2, <1>3
<1> HIDE DEF left, right
<1>5. left = right
  BY <1>4, SeqEqual
<1>6. QED BY <1>5 DEF left, right, fr, w, Rest

\* What is left of what is left.
LEMMA CutTwice ==
  ASSUME NEW w \in Seq(Byte), NEW p \in Nat, NEW n \in Nat, p + n <= Len(w)
  PROVE  Rest(Rest(w, p), n) = Rest(w, p + n)
<1> DEFINE a     == SubSeq(w, p + 1, Len(w))
           left  == SubSeq(a, n + 1, Len(a))
           right == SubSeq(w, p + n + 1, Len(w))
<1>1. a \in Seq(Byte) /\ Len(a) = Len(w) - p /\ \A x \in 1..(Len(w) - p) : a[x] = w[p + x]
  OBVIOUS
<1>2. Len(w) \in Nat
  OBVIOUS
<1> HIDE DEF a
<1>3. left \in Seq(Byte) /\ Len(left) = Len(w) - p - n
      /\ \A x \in 1..(Len(w) - p - n) : left[x] = a[n + x]
  BY <1>1, <1>2
<1>4. right \in Seq(Byte) /\ Len(right) = Len(w) - p - n
      /\ \A x \in 1..(Len(w) - p - n) : right[x] = w[p + n + x]
  BY <1>2
<1>5. ASSUME NEW x \in 1..(Len(w) - p - n) PROVE a[n + x] = w[p + n + x]
  <2>1. n + x \in 1..(Len(w) - p) /\ p + (n + x) = p + n + x
    BY <1>2
  <2>2. QED BY <1>1, <2>1
<1>6. \A x \in 1..Len(left) : left[x] = right[x]
  BY <1>3, <1>4, <1>5
<1> HIDE DEF left, right
<1>7. left = right
  BY <1>3, <1>4, <1>6, SeqEqual
<1>8. QED BY <1>7 DEF left, right, a, Rest

-----------------------------------------------------------------------------
(* The steps.                                                                *)

LEMMA AppendBehind ==
  ASSUME NEW s \in Seq(Wire!Message), NEW t \in Seq(Wire!Message), NEW m \in Wire!Message
  PROVE  Append(s \o t, m) = s \o Append(t, m) /\ Append(t, m) \in Seq(Wire!Message)
OBVIOUS

LEMMA FirstStays ==
  ASSUME NEW t \in Seq(Wire!Message), t # << >>, NEW m \in Wire!Message
  PROVE  /\ Head(t) \in Wire!Message /\ Tail(t) \in Seq(Wire!Message)
         /\ Append(t, m) # << >> /\ Head(Append(t, m)) = Head(t)
         /\ Tail(Append(t, m)) = Append(Tail(t), m)
<1>1. Head(t) \in Wire!Message /\ Tail(t) \in Seq(Wire!Message)
  OBVIOUS
<1>2. Append(t, m) # << >> /\ Head(Append(t, m)) = Head(t)
  OBVIOUS
<1>3. Tail(Append(t, m)) = Append(Tail(t), m)
  OBVIOUS
<1>4. QED BY <1>1, <1>2, <1>3

LEMMA WireInit ==
  ASSUME Wire!FramingAssumption, Wire!Init
  PROVE  WireInv
<1>1. /\ todo = Plan /\ sending = [w \in Writer |-> << >>] /\ stream = << >>
      /\ closed = "no" /\ error = "none" /\ phase = "length" /\ want = 0
      /\ buffer = << Wire!Stray >> /\ received = 0 /\ got = << >> /\ begun = << >>
      /\ overlap = FALSE /\ split = FALSE
  BY DEF Wire!Init
<1>2. << Wire!Stray >> \in Seq(Byte) /\ Len(<< Wire!Stray >>) = 1
  BY DEF Byte
<1>3. Listed(got)
  <2>1. got \in Seq({})
    BY <1>1
  <2>2. QED BY <2>1 DEF Listed
<1>4. WireTypes
  <2>1. todo \in [Writer -> Seq(Wire!Message)]
    BY <1>1, WireConstants
  <2>2. sending \in [Writer -> Seq(Byte)]
    BY <1>1
  <2>3. stream \in Seq(Byte) /\ begun \in Seq(Wire!Message) /\ Len(stream) = 0 /\ Window \in Nat
    BY <1>1, WireConstants
  <2>4. /\ closed \in {"no", "eof", "reset"} /\ error \in {"none", "between", "inside"}
        /\ phase = "length" /\ overlap \in BOOLEAN /\ split \in BOOLEAN
    BY <1>1
  <2>5. /\ want \in Nat /\ received \in Nat /\ buffer \in Seq(Byte) /\ received <= Len(buffer)
        /\ Len(stream) <= Window
    BY <1>1, <1>2, <2>3
  <2>6. QED BY <1>3, <2>1, <2>2, <2>3, <2>4, <2>5 DEF WireTypes
<1>5. Broken /\ HoldsLast /\ AfterError
  BY <1>1 DEF Broken, HoldsLast, AfterError
<1>6. Flow(<< >>, << >>)
  <2>1. << >> \in Seq(Wire!Message) /\ << >> \in Seq(Byte) /\ << >> \o << >> = << >>
    OBVIOUS
  <2>2. Sends(<< >>)
    BY <1>1 DEF Sends
  <2>3. Encodes(<< >>, << >>)
    BY EncodesNothing
  <2>4. QED BY <1>1, <2>1, <2>2, <2>3 DEF Flow
<1>7. QED BY <1>4, <1>5, <1>6 DEF WireInv, Flows

\* A message is begun: its frame comes behind those under way.
LEMMA SendRespStep ==
  ASSUME Wire!FramingAssumption, WireInv, NEW w \in Writer, Wire!SendResp(w)
  PROVE  WireInv'
<1>0. PICK m : m = Head(todo[w])
  OBVIOUS
<1>1. /\ closed = "no" /\ todo[w] # << >> /\ sending[w] = << >>
      /\ sending' = [sending EXCEPT ![w] = Wire!Frame(m)]
      /\ todo' = [todo EXCEPT ![w] = Tail(todo[w])]
      /\ begun' = Append(begun, m)
      /\ overlap' = (overlap \/ \E v \in Writer : sending[v] # << >>)
      /\ UNCHANGED <<stream, closed, error, phase, want, buffer, received, got, split>>
  BY <1>0 DEF Wire!SendResp
<1>2. WireTypes /\ error = "none"
  BY <1>1 DEF WireInv, Broken
<1>3. todo[w] \in Seq(Wire!Message) /\ m \in Wire!Message /\ Tail(todo[w]) \in Seq(Wire!Message)
  BY <1>0, <1>1, <1>2 DEF WireTypes
<1>4. Wire!Frame(m) \in Seq(Byte)
  BY <1>3, FrameLength
<1>5. WireTypes'
  <2>1. /\ todo' \in [Writer -> Seq(Wire!Message)] /\ sending' \in [Writer -> Seq(Byte)]
        /\ begun' \in Seq(Wire!Message) /\ overlap' \in BOOLEAN
    BY <1>1, <1>2, <1>3, <1>4 DEF WireTypes
  <2>2. QED BY <1>1, <1>2, <2>1 DEF WireTypes
<1>6. Broken' /\ AfterError'
  BY <1>1, <1>2 DEF Broken, AfterError
<1>7. HoldsLast'
  BY <1>1, ReadSame DEF HoldsLast, WireInv
<1>8. Flows'
  <2> SUFFICES ASSUME ~overlap', ~split' PROVE \E u, f : Flow(u, f)'
    BY DEF Flows
  <2>1. \A v \in Writer : sending[v] = << >>
    BY <1>1
  <2>2. PICK u, f : Flow(u, f)
    BY <1>1, <1>2 DEF WireInv, Flows
  <2>3. /\ u \in Seq(Wire!Message) /\ got \in Seq(Wire!Message) /\ begun = got \o u /\ f = << >>
    BY <2>1, <2>2 DEF Flow, Sends
  <2>4. PICK u2 : u2 = Append(u, m)
    OBVIOUS
  <2>5. PICK fr : fr = Wire!Frame(m)
    OBVIOUS
  <2>6. u2 \in Seq(Wire!Message) /\ Append(got \o u, m) = got \o u2
    BY <1>3, <2>3, <2>4, AppendBehind
  <2>7. Sends(fr)'
    <3>1. sending'[w] = fr /\ \A v \in Writer \ {w} : sending'[v] = << >>
      BY <1>1, <1>2, <2>1, <2>5 DEF WireTypes
    <3>2. QED BY <3>1 DEF Sends
  <2>8. stream \in Seq(Byte) /\ stream \o f = stream
    BY <1>2, <2>3, EmptyBehind DEF WireTypes
  <2>9. \/ phase' = "length" /\ Encodes(stream' \o fr, u2)
        \/ phase' = "packet" /\ u2 # << >> /\ InPacket(Head(u2), Tail(u2), fr)'
    <3>1. CASE phase = "length" /\ Encodes(stream \o f, u)
      BY <1>1, <1>3, <2>3, <2>8, <2>4, <2>5, <3>1, EncodesLast
    <3>2. CASE phase = "packet" /\ u # << >> /\ InPacket(Head(u), Tail(u), f)
      <4>1. /\ u2 # << >> /\ Head(u2) = Head(u) /\ Tail(u2) = Append(Tail(u), m)
            /\ Tail(u) \in Seq(Wire!Message) /\ Head(u) \in Wire!Message
        BY <1>3, <2>3, <2>4, <3>2, FirstStays
      <4> DEFINE wr   == Wire!Written(Head(u))
                 rest == Rest(wr, received)
      <4>2. PICK r \in Seq(Byte) : Divided(stream, f, rest, r) /\ Encodes(r, Tail(u))
        BY <3>2 DEF InPacket
      <4>3. Encodes(r \o fr, Append(Tail(u), m)) /\ r \o fr \in Seq(Byte)
        <5>1. r \o fr \in Seq(Byte)
          BY <1>4, <2>5, <4>2, BytesBehind
        <5>2. QED BY <1>3, <2>5, <4>1, <4>2, <5>1, EncodesLast
      <4>4. rest \in Seq(Byte)
        <5>1. wr \in Seq(Byte) /\ Len(wr) \in Nat /\ received \in Nat
          BY <1>2, <4>1, WrittenBytes DEF WireTypes
        <5> HIDE DEF wr
        <5>2. QED BY <5>1 DEF Rest
      <4> HIDE DEF rest
      <4>5. stream \o fr = rest \o (r \o fr)
        BY <1>4, <2>8, <2>5, <4>2, <4>4, Reassociate DEF Divided
      <4>6. InPacket(Head(u2), Tail(u2), fr)'
        <5>1. /\ received' + want' = Len(wr)
              /\ \A x \in 1..received' : buffer'[x] = wr[x]
          BY <1>1, <3>2 DEF InPacket
        <5>2. Divided(stream', fr, Rest(wr, received'), r \o fr)
          BY <1>1, <1>4, <2>5, <2>8, <4>3, <4>4, <4>5 DEF rest, Divided
        <5>3. QED BY <4>1, <4>3, <5>1, <5>2 DEF InPacket
      <4>7. QED BY <1>1, <3>2, <4>1, <4>6
    <3>3. QED BY <2>2, <3>1, <3>2 DEF Flow
  <2>10. Flow(u2, fr)'
    BY <1>1, <1>4, <2>3, <2>6, <2>7, <2>9, <2>5 DEF Flow
  <2>11. QED BY <2>10
<1>9. QED BY <1>5, <1>6, <1>7, <1>8 DEF WireInv

\* A piece leaves the writer and is under way.
LEMMA SendPieceStep ==
  ASSUME Wire!FramingAssumption, WireInv, NEW w \in Writer, Wire!SendPiece(w)
  PROVE  WireInv'
<1> DEFINE g    == sending[w]
           room == Window - Len(stream)
           n    == IF Len(g) < room THEN Len(g) ELSE room
<1>1. /\ closed = "no" /\ g # << >> /\ Len(stream) < Window
      /\ stream' = stream \o SubSeq(g, 1, n)
      /\ sending' = [sending EXCEPT ![w] = SubSeq(g, n + 1, Len(g))]
      /\ UNCHANGED <<todo, closed, error, phase, want, buffer, received, got, begun, overlap, split>>
  BY DEF Wire!SendPiece
<1>2. WireTypes /\ error = "none" /\ Window \in Nat
  BY <1>1, WireConstants DEF WireInv, Broken
<1>3. /\ g \in Seq(Byte) /\ stream \in Seq(Byte) /\ Len(g) \in Nat /\ Len(stream) \in Nat
      /\ sending \in [Writer -> Seq(Byte)]
  BY <1>2 DEF WireTypes
<1>4. n \in 1..Len(g) /\ Len(stream) + n <= Window
  BY <1>1, <1>2, <1>3
<1> HIDE DEF g, n
<1> DEFINE piece == SubSeq(g, 1, n)
<1>5. PICK rest : rest = SubSeq(g, n + 1, Len(g))
  OBVIOUS
<1>6. /\ piece \in Seq(Byte) /\ Len(piece) = n /\ rest \in Seq(Byte) /\ piece \o rest = g
      /\ stream \o piece \in Seq(Byte) /\ Len(stream \o piece) = Len(stream) + n
  <2>1. piece \in Seq(Byte) /\ Len(piece) = n /\ \A x \in 1..n : piece[x] = g[x]
    BY <1>3, <1>4
  <2>2. /\ rest \in Seq(Byte) /\ Len(rest) = Len(g) - n
        /\ \A x \in 1..(Len(g) - n) : rest[x] = g[n + x]
    BY <1>3, <1>4, <1>5
  <2> HIDE DEF piece
  <2>3. /\ piece \o rest \in Seq(Byte) /\ Len(piece \o rest) = Len(piece) + Len(rest)
        /\ \A x \in 1..Len(piece) : (piece \o rest)[x] = piece[x]
        /\ \A x \in 1..Len(rest) : (piece \o rest)[Len(piece) + x] = rest[x]
    BY <2>1, <2>2, BytesBehind
  <2>4. ASSUME NEW x \in 1..Len(g) PROVE (piece \o rest)[x] = g[x]
    <3>1. CASE x <= n
      BY <1>3, <1>4, <2>1, <2>3, <3>1
    <3>2. CASE ~(x <= n)
      <4>1. x - n \in 1..(Len(g) - n) /\ n + (x - n) = x
        BY <1>3, <1>4, <3>2
      <4>2. QED BY <2>1, <2>2, <2>3, <4>1
    <3>3. QED BY <3>1, <3>2
  <2>5. Len(piece \o rest) = Len(g)
    BY <1>3, <1>4, <2>1, <2>2, <2>3
  <2>6. piece \o rest = g
    BY <1>3, <2>3, <2>4, <2>5, SeqEqual
  <2>7. stream \o piece \in Seq(Byte) /\ Len(stream \o piece) = Len(stream) + n
    BY <1>3, <2>1, BytesBehind
  <2>8. QED BY <2>1, <2>2, <2>6, <2>7
<1> HIDE DEF piece
<1>7. stream' = stream \o piece /\ sending' = [sending EXCEPT ![w] = rest]
  BY <1>1, <1>5 DEF piece
<1>8. WireTypes'
  <2>1. stream' \in Seq(Byte) /\ Len(stream') <= Window /\ sending' \in [Writer -> Seq(Byte)]
    BY <1>3, <1>4, <1>6, <1>7
  <2>2. QED BY <1>1, <1>2, <2>1 DEF WireTypes
<1>9. Broken' /\ AfterError'
  BY <1>1, <1>2 DEF Broken, AfterError
<1>10. HoldsLast'
  BY <1>1, ReadSame DEF HoldsLast, WireInv
<1>11. Flows'
  <2> SUFFICES ASSUME ~overlap', ~split' PROVE \E u, f : Flow(u, f)'
    BY DEF Flows
  <2>1. PICK u, f : Flow(u, f)
    BY <1>1, <1>2 DEF WireInv, Flows
  <2>2. f = g /\ \A v \in Writer \ {w} : sending[v] = << >>
    BY <1>1, <2>1 DEF Flow, Sends, g
  <2>3. Sends(rest)'
    <3>1. sending'[w] = rest /\ \A v \in Writer \ {w} : sending'[v] = << >>
      BY <1>3, <1>7, <2>2
    <3>2. QED BY <3>1 DEF Sends
  <2>4. stream' \o rest = stream \o f
    BY <1>3, <1>6, <1>7, <2>2, Reassociate
  <2>5. \A m, t : InPacket(m, t, f) => InPacket(m, t, rest)'
    <3>1. \A a, r : Divided(stream, f, a, r) => Divided(stream', rest, a, r)
      BY <1>6, <1>7, <2>4 DEF Divided
    <3>2. QED BY <1>1, <3>1 DEF InPacket
  <2>6. Flow(u, rest)'
    BY <1>1, <1>6, <2>1, <2>3, <2>4, <2>5 DEF Flow
  <2>7. QED BY <2>6
<1>12. QED BY <1>8, <1>9, <1>10, <1>11 DEF WireInv

LEMMA CloseStep ==
  ASSUME WireInv, Wire!Close
  PROVE  WireInv'
<1>1. /\ closed = "no" /\ closed' \in {"eof", "reset"}
      /\ UNCHANGED <<todo, sending, stream, error, phase, want, buffer, received, got, begun, overlap, split>>
  BY DEF Wire!Close
<1>2. WireTypes /\ error = "none"
  BY <1>1 DEF WireInv, Broken
<1>3. WireTypes'
  BY <1>1, <1>2 DEF WireTypes
<1>4. Broken' /\ AfterError'
  BY <1>1, <1>2 DEF Broken, AfterError
<1>5. HoldsLast'
  BY <1>1, ReadSame DEF HoldsLast, WireInv
<1>6. \A u, f : Flow(u, f) => Flow(u, f)'
  BY <1>1 DEF Flow, Sends, InPacket
<1>7. Flows'
  BY <1>1, <1>6 DEF WireInv, Flows
<1>8. QED BY <1>3, <1>4, <1>5, <1>7 DEF WireInv

\* A length that is no number is -1; one that is, is not negative.
LEMMA LengthIs ==
  ASSUME NEW bytes \in Seq(Byte), bytes # << >>
  PROVE  Wire!Number("int", bytes) \in Int
         /\ (Wire!Number("int", bytes) >= 0 => Wire!Number("int", bytes) \in Nat)
<1>1. 1 \in DOMAIN bytes /\ bytes[1] \in Byte
  OBVIOUS
<1>2. CASE Wire!Together("int", bytes)
  <2>1. bytes[1].part = "int"
    BY <1>1, <1>2 DEF Wire!Together
  <2>2. bytes[1].v \in Nat
    BY <1>1, <2>1 DEF Byte, Nul, Wire!Stray
  <2>3. QED BY <1>2, <2>2 DEF Wire!Number
<1>3. CASE ~Wire!Together("int", bytes)
  BY <1>3 DEF Wire!Number
<1>4. QED BY <1>2, <1>3

\* The length of a packet is received; the buffer becomes as long as it needs.
LEMMA RecvLengthStep ==
  ASSUME Wire!FramingAssumption, WireInv, Wire!RecvLength
  PROVE  WireInv'
<1>1. /\ phase = "length" /\ stream # << >> /\ received' = 0
      /\ UNCHANGED <<todo, sending, closed, error, got, begun, overlap>>
  BY DEF Wire!RecvLength
<1>2. PICK n \in Wire!Pieces(IntBytes) :
        LET len == Wire!Number("int", SubSeq(stream, 1, n)) IN
        /\ stream' = SubSeq(stream, n + 1, Len(stream))
        /\ split' = (split \/ n < IntBytes)
        /\ IF n < IntBytes \/ len < 0
             THEN phase' = "astray" /\ UNCHANGED <<want, buffer>>
             ELSE /\ phase' = "packet" /\ want' = len
                  /\ buffer' = IF len > Len(buffer)
                                 THEN buffer \o [x \in 1..(len + Margin - Len(buffer)) |-> Wire!Stray]
                                 ELSE buffer
  BY DEF Wire!RecvLength
<1>3. WireTypes /\ error = "none"
  BY <1>1 DEF WireInv, Broken
<1>4. /\ stream \in Seq(Byte) /\ Len(stream) \in Nat /\ IntBytes \in Nat /\ Margin \in Nat
      /\ buffer \in Seq(Byte) /\ Len(buffer) \in Nat /\ Len(stream) <= Window /\ Window \in Nat
  BY <1>3, WireConstants DEF WireTypes
<1>5. n \in 1..Len(stream) /\ n <= IntBytes
  BY <1>1, <1>4 DEF Wire!Pieces
<1>6. PICK bytes : bytes = SubSeq(stream, 1, n)
  OBVIOUS
<1>7. PICK len : len = Wire!Number("int", bytes)
  OBVIOUS
<1>8. bytes \in Seq(Byte) /\ Len(bytes) = n /\ (\A x \in 1..n : bytes[x] = stream[x]) /\ bytes # << >>
  BY <1>4, <1>5, <1>6
<1>9. len \in Int /\ (len >= 0 => len \in Nat)
  BY <1>7, <1>8, LengthIs
<1>10. /\ stream' = SubSeq(stream, n + 1, Len(stream)) /\ split' = (split \/ n < IntBytes)
       /\ stream' \in Seq(Byte) /\ Len(stream') <= Window
  BY <1>2, <1>4, <1>5
<1>11. \/ (n < IntBytes \/ len < 0) /\ phase' = "astray" /\ UNCHANGED <<want, buffer>>
       \/ /\ n = IntBytes /\ len \in Nat /\ phase' = "packet" /\ want' = len
          /\ buffer' = IF len > Len(buffer)
                         THEN buffer \o [x \in 1..(len + Margin - Len(buffer)) |-> Wire!Stray]
                         ELSE buffer
  BY <1>2, <1>4, <1>5, <1>6, <1>7, <1>9
<1>12. ASSUME phase' = "packet" PROVE buffer' \in Seq(Byte) /\ len \in Nat /\ want' = len /\ len <= Len(buffer')
  <2>1. CASE ~(len > Len(buffer))
    BY <1>4, <1>11, <1>12, <2>1
  <2>2. CASE len > Len(buffer)
    <3> DEFINE more == len + Margin - Len(buffer)
               old  == [x \in 1..more |-> Wire!Stray]
    <3>1. len \in Nat /\ want' = len /\ buffer' = buffer \o old
      BY <1>11, <1>12, <2>2
    <3>2. more \in Nat /\ Len(buffer) + more >= len
      BY <1>4, <2>2, <3>1
    <3>3. Wire!Stray \in Byte
      BY DEF Byte
    <3> HIDE DEF more
    <3>4. old \in Seq(Byte) /\ Len(old) = more
      BY <3>2, <3>3
    <3> HIDE DEF old
    <3>5. buffer \o old \in Seq(Byte) /\ Len(buffer \o old) = Len(buffer) + more
      BY <1>4, <3>4, BytesBehind
    <3>6. QED BY <3>1, <3>2, <3>5
  <2>3. QED BY <2>1, <2>2
<1>13. WireTypes'
  <2>1. /\ todo' \in [Writer -> Seq(Wire!Message)] /\ sending' \in [Writer -> Seq(Byte)]
        /\ closed' \in {"no", "eof", "reset"} /\ error' \in {"none", "between", "inside"}
        /\ Listed(got') /\ begun' \in Seq(Wire!Message) /\ overlap' \in BOOLEAN
    BY <1>1, <1>3 DEF WireTypes
  <2>2. phase' \in {"length", "packet", "astray"} /\ split' \in BOOLEAN
    BY <1>3, <1>10, <1>11 DEF WireTypes
  <2>3. want' \in Nat /\ buffer' \in Seq(Byte)
    BY <1>3, <1>11, <1>12 DEF WireTypes
  <2>4. received' \in Nat /\ received' <= Len(buffer')
    BY <1>1, <2>3
  <2>5. phase' = "packet" => received' + want' <= Len(buffer')
    BY <1>1, <1>12
  <2>6. QED BY <1>10, <2>1, <2>2, <2>3, <2>4, <2>5 DEF WireTypes
<1>14. Broken' /\ AfterError'
  BY <1>1, <1>3 DEF Broken, AfterError
<1>15. HoldsLast'
  BY <1>11 DEF HoldsLast
<1>16. Flows'
  <2> SUFFICES ASSUME ~overlap', ~split' PROVE \E u, f : Flow(u, f)'
    BY DEF Flows
  <2>1. PICK u, f : Flow(u, f)
    BY <1>1, <1>3, <1>10 DEF WireInv, Flows
  <2>2. /\ u \in Seq(Wire!Message) /\ f \in Seq(Byte) /\ got \in Seq(Wire!Message)
        /\ begun = got \o u /\ Sends(f) /\ Encodes(stream \o f, u)
    BY <1>1, <2>1 DEF Flow
  <2>3. stream \o f \in Seq(Byte) /\ stream \o f # << >>
    <3>1. stream \o f \in Seq(Byte) /\ Len(stream \o f) = Len(stream) + Len(f) /\ Len(f) \in Nat
      BY <1>4, <2>2, BytesBehind
    <3>2. Len(stream \o f) > 0
      BY <1>4, <1>5, <3>1
    <3>3. QED BY <3>1, <3>2
  <2>4. /\ u # << >> /\ Head(u) \in Wire!Message /\ Tail(u) \in Seq(Wire!Message)
        /\ \E r \in Seq(Byte) : stream \o f = Wire!Frame(Head(u)) \o r /\ Encodes(r, Tail(u))
    BY <2>2, <2>3, EncodesFirst
  <2>5. PICK r \in Seq(Byte) : stream \o f = Wire!Frame(Head(u)) \o r /\ Encodes(r, Tail(u))
    BY <2>4
  <2>6. PICK w : w = Wire!Written(Head(u))
    OBVIOUS
  <2>7. PICK fr : fr = Wire!Frame(Head(u))
    OBVIOUS
  <2>8. /\ fr \in Seq(Byte) /\ Len(fr) = IntBytes + Len(w) /\ w \in Seq(Byte) /\ Len(w) \in Nat
        /\ \A x \in 1..IntBytes : fr[x] = Token("int", Len(w), x)
    BY <2>4, <2>6, <2>7, FrameBytes, WrittenBytes
  <2>9. n = IntBytes
    <3>1. ~split /\ ~(n < IntBytes)
      BY <1>10, Zenon
    <3>2. n \in Nat /\ IntBytes \in Nat /\ n <= IntBytes
      BY <1>4, <1>5
    <3>3. QED BY <3>1, <3>2
  <2>10. /\ \A x \in 1..n : stream[x] = fr[x]
         /\ Divided(Rest(stream, n), f, Rest(fr, n), r)
    <3>1. n \in Nat /\ n <= Len(stream) /\ n <= Len(fr) /\ stream \o f = fr \o r
      BY <1>4, <1>5, <2>5, <2>7, <2>8, <2>9
    <3>2. stream \in Seq(Byte) /\ f \in Seq(Byte) /\ fr \in Seq(Byte) /\ r \in Seq(Byte)
      BY <1>4, <2>2, <2>5, <2>8
    <3>3. Divided(stream, f, fr, r)
      BY <3>1, <3>2 DEF Divided
    <3>4. QED BY <3>1, <3>3, CutFront
  <2>11. len = Len(w)
    <3>1. DOMAIN bytes = 1..n /\ 1 \in 1..n
      BY <1>5, <1>8
    <3>2. \A x \in 1..n : bytes[x] = Token("int", Len(w), x)
      BY <1>8, <2>8, <2>9, <2>10
    <3>3. Wire!Together("int", bytes)
      BY <3>1, <3>2 DEF Wire!Together, Token
    <3>4. bytes[1].v = Len(w)
      BY <3>1, <3>2 DEF Token
    <3>5. QED BY <1>7, <3>3, <3>4 DEF Wire!Number
  <2>12. phase' = "packet" /\ want' = Len(w)
    <3>1. ~(n < IntBytes \/ len < 0)
      BY <1>4, <2>8, <2>9, <2>11
    <3>2. QED BY <1>11, <2>11, <3>1, Zenon
  <2>13. InPacket(Head(u), Tail(u), f)'
    <3>1. received' + want' = Len(w) /\ \A x \in 1..received' : buffer'[x] = w[x]
      BY <1>1, <2>8, <2>12
    <3>2. Divided(stream', f, Rest(w, received'), r)
      <4>1. Rest(fr, n) = Rest(w, 0)
        BY <2>4, <2>6, <2>7, <2>9, BehindLength
      <4>2. stream' = Rest(stream, n)
        BY <1>10 DEF Rest
      <4>3. QED BY <1>1, <2>10, <4>1, <4>2
    <3>3. QED BY <2>5, <2>6, <3>1, <3>2 DEF InPacket
  <2>14. Flow(u, f)'
    BY <1>1, <2>2, <2>4, <2>12, <2>13 DEF Flow, Sends
  <2>15. QED BY <2>14
<1>17. QED BY <1>13, <1>14, <1>15, <1>16 DEF WireInv

\* Some bytes of the packet are received behind those received before.
LEMMA RecvPacketStep ==
  ASSUME Wire!FramingAssumption, WireInv, Wire!RecvPacket
  PROVE  WireInv'
<1>1. /\ phase = "packet" /\ want > 0 /\ stream # << >>
      /\ UNCHANGED <<todo, sending, closed, error, phase, got, begun, overlap, split>>
  BY DEF Wire!RecvPacket
<1>2. PICK n \in Wire!Pieces(want) :
        /\ buffer' = [x \in DOMAIN buffer |->
                        IF x - received \in 1..n THEN stream[x - received] ELSE buffer[x]]
        /\ stream' = SubSeq(stream, n + 1, Len(stream))
        /\ received' = received + n /\ want' = want - n
  BY DEF Wire!RecvPacket
<1>3. WireTypes /\ error = "none"
  BY <1>1 DEF WireInv, Broken
<1>4. /\ stream \in Seq(Byte) /\ Len(stream) \in Nat /\ want \in Nat /\ received \in Nat
      /\ buffer \in Seq(Byte) /\ Len(buffer) \in Nat /\ received + want <= Len(buffer)
      /\ Len(stream) <= Window /\ Window \in Nat
  BY <1>1, <1>3, WireConstants DEF WireTypes
<1>5. n \in 1..Len(stream) /\ n <= want
  BY <1>1, <1>4 DEF Wire!Pieces
<1>6. stream' = Rest(stream, n) /\ stream' \in Seq(Byte) /\ Len(stream') <= Window
  BY <1>2, <1>4, <1>5 DEF Rest
<1>7. DOMAIN buffer = 1..Len(buffer) /\ DOMAIN stream = 1..Len(stream)
  BY <1>4
<1>8. ASSUME NEW x \in 1..Len(buffer)
      PROVE  (IF x - received \in 1..n THEN stream[x - received] ELSE buffer[x]) \in Byte
  <2>1. buffer[x] \in Byte
    BY <1>4
  <2>2. CASE x - received \in 1..n
    <3>1. x - received \in 1..Len(stream)
      BY <1>4, <1>5, <2>2
    <3>2. stream[x - received] \in Byte
      BY <1>4, <3>1
    <3>3. QED BY <2>2, <3>2
  <2>3. QED BY <2>1, <2>2
<1>9. buffer' \in [1..Len(buffer) -> Byte]
  BY <1>2, <1>7, <1>8
<1>10. buffer' \in Seq(Byte) /\ Len(buffer') = Len(buffer)
  BY <1>4, <1>9
<1>11. /\ \A x \in 1..received : buffer'[x] = buffer[x]
       /\ \A x \in 1..n : buffer'[received + x] = stream[x]
  <2>1. ASSUME NEW x \in 1..received PROVE buffer'[x] = buffer[x]
    <3>1. x \in 1..Len(buffer) /\ ~(x - received \in 1..n)
      BY <1>4, <1>5
    <3>2. QED BY <1>2, <1>7, <3>1
  <2>2. ASSUME NEW x \in 1..n PROVE buffer'[received + x] = stream[x]
    <3>1. /\ received + x \in 1..Len(buffer) /\ (received + x) - received = x
          /\ (received + x) - received \in 1..n
      BY <1>4, <1>5
    <3>2. QED BY <1>2, <1>7, <3>1
  <2>3. QED BY <2>1, <2>2
<1>12. WireTypes'
  <2>1. /\ todo' \in [Writer -> Seq(Wire!Message)] /\ sending' \in [Writer -> Seq(Byte)]
        /\ closed' \in {"no", "eof", "reset"} /\ error' \in {"none", "between", "inside"}
        /\ phase' \in {"length", "packet", "astray"}
        /\ Listed(got') /\ begun' \in Seq(Wire!Message)
        /\ overlap' \in BOOLEAN /\ split' \in BOOLEAN
    BY <1>1, <1>3 DEF WireTypes
  <2>2. /\ want' \in Nat /\ received' \in Nat /\ received' <= Len(buffer')
        /\ received' + want' <= Len(buffer')
    BY <1>2, <1>4, <1>5, <1>10
  <2>3. QED BY <1>6, <1>10, <2>1, <2>2 DEF WireTypes
<1>13. Broken' /\ AfterError'
  BY <1>1, <1>3 DEF Broken, AfterError
<1>14. HoldsLast'
  BY <1>1 DEF HoldsLast
<1>15. Flows'
  <2> SUFFICES ASSUME ~overlap', ~split' PROVE \E u, f : Flow(u, f)'
    BY DEF Flows
  <2>1. PICK u, f : Flow(u, f)
    BY <1>1, <1>3 DEF WireInv, Flows
  <2>2. /\ u \in Seq(Wire!Message) /\ f \in Seq(Byte) /\ got \in Seq(Wire!Message)
        /\ begun = got \o u /\ Sends(f) /\ u # << >> /\ InPacket(Head(u), Tail(u), f)
    BY <1>1, <2>1 DEF Flow
  <2>3. PICK w : w = Wire!Written(Head(u))
    OBVIOUS
  <2>4. w \in Seq(Byte) /\ Len(w) \in Nat
    BY <2>2, <2>3, WrittenBytes
  <2>5. received + want = Len(w) /\ \A x \in 1..received : buffer[x] = w[x]
    BY <2>2, <2>3 DEF InPacket
  <2>6. PICK r \in Seq(Byte) : Divided(stream, f, Rest(w, received), r) /\ Encodes(r, Tail(u))
    BY <2>2, <2>3 DEF InPacket
  <2>7. PICK a : a = Rest(w, received)
    OBVIOUS
  <2>8. /\ a \in Seq(Byte) /\ Len(a) = Len(w) - received
        /\ \A x \in 1..(Len(w) - received) : a[x] = w[received + x]
    <3>1. received \in Nat /\ Len(w) \in Nat /\ received <= Len(w)
      BY <1>4, <2>4, <2>5
    <3>2. a = SubSeq(w, received + 1, Len(w))
      BY <2>7 DEF Rest
    <3>3. QED BY <2>4, <3>1, <3>2
  <2>9. n \in Nat /\ n <= Len(stream) /\ n <= Len(a) /\ received + n <= Len(w)
    BY <1>4, <1>5, <2>5, <2>8
  <2>10. (\A x \in 1..n : stream[x] = a[x]) /\ Divided(Rest(stream, n), f, Rest(a, n), r)
    BY <2>6, <2>7, <2>9, CutFront
  <2>11. Rest(a, n) = Rest(w, received + n)
    BY <1>4, <2>4, <2>7, <2>9, CutTwice
  <2>12. Divided(stream', f, Rest(w, received'), r)
    BY <1>2, <1>6, <2>10, <2>11
  <2>13. ASSUME NEW x \in 1..received' PROVE buffer'[x] = w[x]
    <3>1. CASE x <= received
      <4>1. x \in 1..received
        BY <1>4, <3>1
      <4>2. QED BY <1>11, <2>5, <4>1
    <3>2. CASE ~(x <= received)
      <4> DEFINE y == x - received
      <4>1. y \in 1..n /\ y \in 1..(Len(w) - received) /\ received + y = x
        BY <1>2, <1>4, <1>5, <2>4, <2>9, <3>2
      <4>2. QED BY <1>11, <2>8, <2>10, <4>1
    <3>3. QED BY <3>1, <3>2
  <2>14. received' + want' = Len(w)
    BY <1>2, <1>4, <1>5, <2>5
  <2>15. InPacket(Head(u), Tail(u), f)'
    BY <2>3, <2>6, <2>12, <2>13, <2>14 DEF InPacket
  <2>16. Flow(u, f)'
    BY <1>1, <2>2, <2>15 DEF Flow, Sends
  <2>17. QED BY <2>16
<1>16. QED BY <1>12, <1>13, <1>14, <1>15 DEF WireInv

LEMMA MoveFirst ==
  ASSUME NEW s \in Seq(Wire!Message), NEW t \in Seq(Wire!Message), t # << >>
  PROVE  /\ Head(t) \in Wire!Message /\ Tail(t) \in Seq(Wire!Message)
         /\ Append(s, Head(t)) \in Seq(Wire!Message) /\ s \o t = Append(s, Head(t)) \o Tail(t)
<1>1. Head(t) \in Wire!Message /\ Tail(t) \in Seq(Wire!Message)
  OBVIOUS
<1>2. Append(s, Head(t)) \in Seq(Wire!Message)
  BY <1>1
<1>3. s \o t = Append(s, Head(t)) \o Tail(t)
  OBVIOUS
<1>4. QED BY <1>1, <1>2, <1>3

\* The packet is complete: what is read is the message that was begun.
LEMMA ServerReceiverStep ==
  ASSUME Wire!FramingAssumption, WireInv, Wire!ServerReceiver
  PROVE  WireInv'
<1>1. /\ phase = "packet" /\ want = 0 /\ got' = Append(got, Wire!ReadMessage) /\ phase' = "length"
      /\ UNCHANGED <<todo, sending, stream, closed, error, want, buffer, received, begun, overlap, split>>
  BY DEF Wire!ServerReceiver
<1>2. WireTypes /\ error = "none"
  BY <1>1 DEF WireInv, Broken
<1>3. Listed(got') /\ got'[Len(got')] = Wire!ReadMessage
  <2>1. Listed(got) /\ got' = Append(got, Wire!ReadMessage)
    BY <1>1, <1>2 DEF WireTypes
  <2>2. Longer(got, Wire!ReadMessage, got')
    BY <2>1, StillListed
  <2>3. QED BY <2>2 DEF Longer
<1>4. WireTypes'
  BY <1>1, <1>2, <1>3 DEF WireTypes
<1>5. Broken' /\ AfterError'
  BY <1>1, <1>2 DEF Broken, AfterError
<1>6. HoldsLast'
  BY <1>1, <1>3, ReadSame DEF HoldsLast
<1>7. Flows'
  <2> SUFFICES ASSUME ~overlap', ~split' PROVE \E u, f : Flow(u, f)'
    BY DEF Flows
  <2>1. PICK u, f : Flow(u, f)
    BY <1>1, <1>2 DEF WireInv, Flows
  <2>2. /\ u \in Seq(Wire!Message) /\ f \in Seq(Byte) /\ got \in Seq(Wire!Message)
        /\ begun = got \o u /\ Sends(f) /\ u # << >> /\ InPacket(Head(u), Tail(u), f)
    BY <1>1, <2>1 DEF Flow
  <2>3. PICK h, t : h = Head(u) /\ t = Tail(u)
    OBVIOUS
  <2>4. /\ h \in Wire!Message /\ t \in Seq(Wire!Message) /\ Append(got, h) \in Seq(Wire!Message)
        /\ begun = Append(got, h) \o t
    BY <2>2, <2>3, MoveFirst
  <2>5. PICK w : w = Wire!Written(h)
    OBVIOUS
  <2>6. w \in Seq(Byte) /\ Len(w) \in Nat
    BY <2>4, <2>5, WrittenBytes
  <2>7. received + want = Len(w) /\ \A x \in 1..received : buffer[x] = w[x]
    BY <2>2, <2>3, <2>5 DEF InPacket
  <2>8. PICK r \in Seq(Byte) : Divided(stream, f, Rest(w, received), r) /\ Encodes(r, t)
    BY <2>2, <2>3, <2>5 DEF InPacket
  <2>9. /\ buffer \in Seq(Byte) /\ Len(w) <= Len(buffer) /\ received = Len(w)
        /\ \A x \in 1..Len(w) : buffer[x] = w[x]
    BY <1>1, <1>2, <2>6, <2>7 DEF WireTypes
  <2>10. Wire!ReadMessage = h
    BY <2>4, <2>5, <2>9, ReadsBack
  <2>11. Rest(w, received) = << >>
    BY <2>6, <2>9 DEF Rest
  <2>12. Encodes(stream \o f, t)
    BY <2>8, <2>11, EmptyBehind DEF Divided
  <2>13. Flow(t, f)'
    BY <1>1, <2>2, <2>4, <2>10, <2>12 DEF Flow, Sends
  <2>14. QED BY <2>13
<1>8. QED BY <1>4, <1>5, <1>6, <1>7 DEF WireInv

LEMMA PrefixOfBoth ==
  ASSUME NEW s \in Seq(Wire!Message), NEW t \in Seq(Wire!Message)
  PROVE  Wire!IsPrefix(s, s \o t)
<1>1. Len(s) <= Len(s \o t) /\ SubSeq(s, 1, Len(s)) = SubSeq(s \o t, 1, Len(s))
  OBVIOUS
<1>2. QED BY <1>1 DEF Wire!IsPrefix

\* recv fails: between two messages the last one is read again.
LEMMA RecvErrorStep ==
  ASSUME Wire!FramingAssumption, WireInv, Wire!RecvError
  PROVE  WireInv'
<1>1. /\ closed = "reset" /\ error = "none" /\ stream = << >>
      /\ error' = (IF phase = "length" THEN "between" ELSE "inside")
      /\ got' = Append(got, Wire!ReadMessage) /\ phase' = "length" /\ want' = 0
      /\ UNCHANGED <<todo, sending, stream, closed, buffer, received, begun, overlap, split>>
  BY DEF Wire!RecvError
<1>2. WireTypes
  BY DEF WireInv
<1>3. /\ Listed(got')
      /\ Len(got) \in Nat /\ Len(got') = Len(got) + 1 /\ got'[Len(got')] = Wire!ReadMessage
      /\ \A x \in 1..Len(got) : got'[x] = got[x]
  <2>1. Listed(got) /\ got' = Append(got, Wire!ReadMessage)
    BY <1>1, <1>2 DEF WireTypes
  <2>2. Longer(got, Wire!ReadMessage, got')
    BY <2>1, StillListed
  <2>3. QED BY <2>2 DEF Longer
<1>4. WireTypes'
  <2>1. want' \in Nat /\ error' \in {"none", "between", "inside"} /\ phase' \in {"length", "packet", "astray"}
    BY <1>1
  <2>2. QED BY <1>1, <1>2, <1>3, <2>1 DEF WireTypes
<1>5. Broken' /\ Flows'
  BY <1>1 DEF Broken, Flows
<1>6. HoldsLast'
  BY <1>1, <1>3, ReadSame DEF HoldsLast
<1>7. AfterError'
  <2> SUFFICES ASSUME error' = "between", ~overlap', ~split'
               PROVE  (Wire!IsPrefix(Wire!ReadWhole, begun) /\ Wire!Again)'
    BY DEF AfterError
  <2>1. phase = "length"
    BY <1>1
  <2>2. PICK u, f : Flow(u, f)
    BY <1>1 DEF WireInv, Flows
  <2>3. u \in Seq(Wire!Message) /\ got \in Seq(Wire!Message) /\ begun = got \o u
    BY <2>2 DEF Flow
  <2>4. PICK whole : whole = SubSeq(got', 1, Len(got') - 1)
    OBVIOUS
  <2>5. whole = got
    <3>1. Len(got') - 1 = Len(got)
      BY <1>3
    <3>2. \A x \in 1..Len(got) : x \in 1..Len(got) /\ got'[x] = got[x]
      BY <1>3
    <3>3. PICK S : got' \in Seq(S)
      BY <1>3 DEF Listed
    <3>4. /\ whole \in Seq(S) /\ Len(whole) = Len(got)
          /\ \A x \in 1..Len(got) : whole[x] = got'[x]
      BY <1>3, <2>4, <3>1, <3>3
    <3>5. PICK T : T = S \cup Wire!Message
      OBVIOUS
    <3>6. whole \in Seq(T) /\ got \in Seq(T)
      BY <2>3, <3>4, <3>5, SeqMonotonic
    <3>7. \A x \in 1..Len(whole) : whole[x] = got[x]
      BY <3>2, <3>4
    <3>8. QED BY <3>4, <3>6, <3>7, SeqEqual
  <2>6. Wire!ReadWhole' = got
    BY <2>4, <2>5 DEF Wire!ReadWhole, Wire!Front
  <2>7. Wire!IsPrefix(got, begun')
    BY <1>1, <2>3, PrefixOfBoth
  <2>8. got # << >> => got'[Len(got')] = got[Len(got)]
    BY <1>3, <2>1 DEF WireInv, HoldsLast
  <2>9. Wire!Again'
    BY <2>6, <2>8 DEF Wire!Again, Wire!Last
  <2>10. QED BY <2>6, <2>7, <2>9
<1>8. QED BY <1>4, <1>5, <1>6, <1>7 DEF WireInv

LEMMA WireNext ==
  ASSUME Wire!FramingAssumption, WireInv, [Wire!Next]_Wire!vars
  PROVE  WireInv'
<1>1. CASE \E w \in Writer : Wire!SendResp(w) \/ Wire!SendPiece(w)
  BY <1>1, SendRespStep, SendPieceStep
<1>2. CASE Wire!Close
  BY <1>2, CloseStep
<1>3. CASE Wire!RecvLength
  BY <1>3, RecvLengthStep
<1>4. CASE Wire!RecvPacket
  BY <1>4, RecvPacketStep
<1>5. CASE Wire!ServerReceiver
  BY <1>5, ServerReceiverStep
<1>6. CASE Wire!RecvError
  BY <1>6, RecvErrorStep
<1>7. CASE UNCHANGED Wire!vars
  <2>1. UNCHANGED <<todo, sending, stream, closed, error, phase, want, buffer, received, got, begun, overlap, split>>
    BY <1>7 DEF Wire!vars
  <2>2. WireTypes' /\ Broken'
    BY <2>1 DEF WireInv, WireTypes, Broken
  <2>3. HoldsLast'
    BY <2>1, ReadSame DEF WireInv, HoldsLast
  <2>4. \A u, f : Flow(u, f) => Flow(u, f)'
    BY <2>1 DEF Flow, Sends, InPacket
  <2>5. Flows'
    BY <2>1, <2>4 DEF WireInv, Flows
  <2>6. AfterError'
    BY <2>1 DEF WireInv, AfterError, Wire!ReadWhole, Wire!Again, Wire!Front, Wire!Last
  <2>7. QED BY <2>2, <2>3, <2>5, <2>6 DEF WireInv
<1>8. Wire!Spin => UNCHANGED Wire!vars
  BY DEF Wire!Spin
<1>9. QED BY <1>1, <1>2, <1>3, <1>4, <1>5, <1>6, <1>7, <1>8 DEF Wire!Next

LEMMA IntactNow ==
  ASSUME WireInv
  PROVE  MessagesIntact
<1>1. Wire!TypeOK
  <2>1. received \in 0..Len(buffer)
    <3>1. received \in Nat /\ Len(buffer) \in Nat /\ received <= Len(buffer)
      BY DEF WireInv, WireTypes
    <3>2. QED BY <3>1
  <2>2. QED BY <2>1 DEF WireInv, WireTypes, Wire!TypeOK
<1>2. ASSUME ~overlap, ~split, error # "inside"
      PROVE  phase # "astray" /\ Wire!IsPrefix(Wire!ReadWhole, begun) /\ (error = "between" => Wire!Again)
  <2>1. CASE error = "between"
    BY <1>2, <2>1 DEF WireInv, Broken, AfterError
  <2>2. CASE error # "between"
    <3>1. error = "none"
      BY <1>2, <2>2 DEF WireInv, WireTypes
    <3>2. PICK u, f : Flow(u, f)
      BY <1>2, <3>1 DEF WireInv, Flows
    <3>3. u \in Seq(Wire!Message) /\ got \in Seq(Wire!Message) /\ begun = got \o u /\ phase # "astray"
      BY <3>2 DEF Flow
    <3>4. Wire!IsPrefix(got, begun)
      BY <3>3, PrefixOfBoth
    <3>5. QED BY <3>1, <3>3, <3>4 DEF Wire!ReadWhole
  <2>3. QED BY <2>1, <2>2
<1>3. QED BY <1>1, <1>2 DEF MessagesIntact, Wire!MessagesIntact

\* What is received is what was sent, in the order of the sends: for every plan
\* of messages, every size of a number and of the socket's window, and however
\* the bytes are cut on their way.
THEOREM WhatIsSentIsReceived == PartsSpec => []MessagesIntact
<1>1. PartsInit => WireInv
  BY WireAssumption, WireInit DEF PartsInit
<1>2. WireInv /\ [PartsNext]_<<vars, bookVars, wireVars, followed>> => WireInv'
  <2>1. [PartsNext]_<<vars, bookVars, wireVars, followed>> => [Wire!Next]_Wire!vars
    BY DEF PartsNext, wireVars, Wire!vars
  <2>2. QED BY <2>1, WireAssumption, WireNext
<1>3. WireInv => MessagesIntact
  BY IntactNow
<1>4. QED BY <1>1, <1>2, <1>3, PTL DEF PartsSpec
=============================================================================
