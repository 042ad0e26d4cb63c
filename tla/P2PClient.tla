------------------------------ MODULE P2PClient ------------------------------
(***************************************************************************)
(* The sending side of a WhatsAP2P client (WhatsAp2p-Client.c): the thread *)
(* serverReceiver replaces the table serverOnlineClients by every list the *)
(* server pushes, under mutexOnlineUsers; the thread clientOperation looks *)
(* recipients up in it, for texts under the mutex and for photos without   *)
(* it; and one P2Sender thread per recipient connects and sends.  The      *)
(* address of a user (IP and port) is that user; frames arrive whole.      *)
(***************************************************************************)
EXTENDS Integers, Sequences, FiniteSets, SequencesExt

CONSTANTS
  Users,             \* the other users: their phones, and their addresses
  MaxOnlineUsers,    \* entries of serverOnlineClients
  MaxGroupContact,   \* contacts in a group
  MaxPushes,         \* bound: lists the server pushes
  MaxSends,          \* bound: messages the user sends
  Null, Freed, Junk  \* what else a string pointer may lead to

ASSUME ClientAssumption ==
  /\ {MaxOnlineUsers, MaxGroupContact, MaxPushes, MaxSends} \subseteq Nat \ {0}
  /\ Users \cap {Null, Freed, Junk} = {}
  /\ Null # Freed /\ Freed # Junk /\ Junk # Null

Slot == 1..MaxOnlineUsers
Text == Users \cup {Null, Freed, Junk}

CONNECTION_REQUEST == "CONNECTION_REQUEST"
UPDATE_REQUEST     == "UPDATE_REQUEST"
TEXT_MESSAGE       == "TEXT_MESSAGE"
IMAGE_MESSAGE      == "IMAGE_MESSAGE"
NoFrame  == [kind |-> "none", count |-> 0, list |-> << >>]
Ack      == [NoFrame EXCEPT !.kind = CONNECTION_REQUEST]

\* Lists of logged-in users, and the groups of contacts a message may go to.
Lists  == {l \in UNION {[1..n -> Users] : n \in 0..MaxOnlineUsers} : IsInjective(l)}
Groups == UNION {[1..n -> Users] : n \in 1..MaxGroupContact}

VARIABLES
  up,         \* FALSE once the process has exited or crashed
  listening,  \* the users whose process still listens at its address
  \* the connection to the server
  link,       \* "ok", "rst" or, once recv only returns 0, "closed"
  wire,       \* the frame in flight; the next is pushed once it was received
  pushes,
  \* serverOnlineClients
  ready, phone, addr,
  mutex,      \* mutexOnlineUsers: "free", "receiver" or "operation"
  \* serverReceiver
  rpc, ri,
  buf,        \* the frame in myBuff
  stale,      \* the frame whose bytes follow it there
  \* clientOperation
  started,    \* dontStartOperations = 0
  opc, kind, group, k, i, sends,
  \* P2Sender threads, in the order of their creation
  outbox

tableVars    == <<ready, phone, addr>>
serverVars   == <<listening, link, wire, pushes>>
receiverVars == <<rpc, ri, buf, stale, started>>
userVars     == <<opc, kind, group, k, i, sends>>
vars == <<up, serverVars, tableVars, mutex, receiverVars, userVars, outbox>>

-----------------------------------------------------------------------------
(* The server and the other users.                                         *)

\* The count of a frame may differ by one from the entries that follow it.
ServerPush ==
  /\ link = "ok" /\ wire = NoFrame /\ pushes < MaxPushes
  /\ \E l \in Lists, d \in {-1, 0, 1} :
       /\ Len(l) + d \in 1..MaxOnlineUsers
       /\ wire' = [kind |-> UPDATE_REQUEST, count |-> Len(l) + d, list |-> l]
  /\ pushes' = pushes + 1
  /\ UNCHANGED <<up, listening, link, tableVars, mutex, receiverVars, userVars, outbox>>

ServerAck ==
  /\ link = "ok" /\ wire = NoFrame
  /\ opc = "wait" /\ ~started /\ buf # Ack
  /\ wire' = Ack
  /\ UNCHANGED <<up, listening, link, pushes, tableVars, mutex, receiverVars,
                 userVars, outbox>>

ServerReset ==
  /\ link = "ok" /\ link' = "rst"
  /\ wire' = NoFrame
  /\ UNCHANGED <<up, listening, pushes, tableVars, mutex, receiverVars, userVars,
                 outbox>>

Depart(u) ==
  /\ u \in listening
  /\ listening' = listening \ {u}
  /\ UNCHANGED <<up, link, wire, pushes, tableVars, mutex, receiverVars, userVars,
                 outbox>>

-----------------------------------------------------------------------------
(* serverReceiver                                                          *)

\* Where the receiver goes on with frame f in the buffer.
Dispatch(f) ==
  /\ rpc' = IF f.kind = UPDATE_REQUEST THEN "lock" ELSE "recv"
  /\ started' = (started \/ f.kind = CONNECTION_REQUEST)

Receive ==
  /\ up /\ rpc = "recv" /\ wire # NoFrame
  /\ wire' = NoFrame
  /\ buf' = wire
  /\ stale' = CASE Len(buf.list) > Len(wire.list)   -> buf
                 [] Len(stale.list) > Len(wire.list) -> stale
                 [] OTHER                            -> NoFrame
  /\ Dispatch(wire)
  /\ UNCHANGED <<up, listening, link, pushes, tableVars, mutex, ri, userVars, outbox>>

\* recvResp returns -1, which the loop ignores: the old frame is read again,
\* or, before the first one, a byte nobody wrote, which is no message or
\* happens to be the acknowledgement.  Later calls find the stream at its end
\* and spin inside recvResp.
ReceiveError ==
  /\ up /\ rpc = "recv" /\ link = "rst"
  /\ link' = "closed"
  /\ \E f \in IF buf = NoFrame THEN {NoFrame, Ack} ELSE {buf} : Dispatch(f)
  /\ UNCHANGED <<up, listening, wire, pushes, tableVars, mutex, ri, buf, stale,
                 userVars, outbox>>

ReceiverLock ==
  /\ up /\ rpc = "lock" /\ mutex = "free"
  /\ mutex' = "receiver"
  /\ rpc' = "clear" /\ ri' = 1
  /\ UNCHANGED <<up, serverVars, tableVars, buf, stale, started, userVars, outbox>>

\* clearServerClientInfo of one ready entry; its pointers keep their values.
ReceiverClear ==
  /\ up /\ rpc = "clear"
  /\ IF ready[ri]
     THEN /\ ready' = [ready EXCEPT ![ri] = FALSE]
          /\ phone' = [phone EXCEPT ![ri] = Freed]
          /\ addr'  = [addr  EXCEPT ![ri] = Freed]
     ELSE UNCHANGED tableVars
  /\ IF ri < MaxOnlineUsers
     THEN ri' = ri + 1 /\ UNCHANGED rpc
     ELSE ri' = 1 /\ rpc' = IF buf.count = 0 THEN "unlock" ELSE "name"
  /\ UNCHANGED <<up, serverVars, mutex, buf, stale, started, userVars, outbox>>

\* What readString finds for entry n: past the entries of the frame, the rest
\* of a longer older frame, or bytes that are nobody's.
Parsed(n) == IF n <= Len(buf.list) THEN {buf.list[n]}
             ELSE {Junk} \cup ToSet(stale.list)

\* Mutant: the entry is marked ready before its address is read.
ReceiverNameReady ==
  /\ up /\ rpc = "name"
  /\ \E t \in Parsed(ri) : phone' = [phone EXCEPT ![ri] = t]
  /\ ready' = [ready EXCEPT ![ri] = TRUE]
  /\ rpc' = IF ri < buf.count THEN "name" ELSE "unlock"
  /\ ri' = IF ri < buf.count THEN ri + 1 ELSE ri
  /\ UNCHANGED <<up, serverVars, addr, mutex, buf, stale, started,
                 userVars, outbox>>

\* name and phone of one entry ...
ReceiverName ==
  /\ up /\ rpc = "name"
  /\ \E t \in Parsed(ri) : phone' = [phone EXCEPT ![ri] = t]
  /\ rpc' = "address"
  /\ UNCHANGED <<up, serverVars, ready, addr, mutex, ri, buf, stale, started,
                 userVars, outbox>>

\* ... its address and port, then ready = 1.  In the bytes of one entry the
\* address follows the phone.
ReceiverAddress ==
  /\ up /\ rpc = "address"
  /\ addr'  = [addr  EXCEPT ![ri] = phone[ri]]
  /\ ready' = [ready EXCEPT ![ri] = TRUE]
  /\ IF ri < buf.count
     THEN ri' = ri + 1 /\ rpc' = "name"
     ELSE rpc' = "unlock" /\ UNCHANGED ri
  /\ UNCHANGED <<up, serverVars, phone, mutex, buf, stale, started, userVars, outbox>>

ReceiverUnlock ==
  /\ up /\ rpc = "unlock"
  /\ mutex' = "free"
  /\ rpc' = "recv"
  /\ UNCHANGED <<up, serverVars, tableVars, ri, buf, stale, started, userVars, outbox>>

-----------------------------------------------------------------------------
(* clientOperation                                                         *)

Login ==
  /\ up /\ opc = "login"
  /\ opc' = "wait"
  /\ UNCHANGED <<up, serverVars, tableVars, mutex, receiverVars, kind, group, k, i,
                 sends, outbox>>

\* while (dontStartOperations) ;
Started ==
  /\ up /\ opc = "wait" /\ started
  /\ opc' = "menu"
  /\ UNCHANGED <<up, serverVars, tableVars, mutex, receiverVars, kind, group, k, i,
                 sends, outbox>>

\* OP_SENDMESSAGE and OP_SENDIMAGE of a valid choice.
Choose ==
  /\ up /\ opc = "menu" /\ sends < MaxSends
  /\ \E g \in Groups, m \in {TEXT_MESSAGE, IMAGE_MESSAGE} :
       /\ group' = g /\ kind' = m
       /\ opc' = IF m = TEXT_MESSAGE THEN "lock" ELSE "scan"
  /\ sends' = sends + 1
  /\ k' = 1 /\ i' = 1
  /\ UNCHANGED <<up, serverVars, tableVars, mutex, receiverVars, outbox>>

\* Mutant: the text goes out without mutexOnlineUsers.
OperationLockNever ==
  /\ up /\ opc = "lock"
  /\ opc' = "scan"
  /\ UNCHANGED <<up, serverVars, tableVars, mutex, receiverVars, kind, group, k, i,
                 sends, outbox>>

OperationLock ==
  /\ up /\ opc = "lock" /\ mutex = "free"
  /\ mutex' = "operation"
  /\ opc' = "scan"
  /\ UNCHANGED <<up, serverVars, tableVars, receiverVars, kind, group, k, i, sends,
                 outbox>>

\* After contact k: the next one, or the end of the loop.
NextContact ==
  IF k < Len(group)
  THEN k' = k + 1 /\ i' = 1 /\ opc' = "scan"
  ELSE opc' = "done" /\ UNCHANGED <<k, i>>

\* Mutant: the last entry of the table is never looked at.
NextEntryTooShort ==
  IF i < MaxOnlineUsers - 1
  THEN i' = i + 1 /\ opc' = "scan" /\ UNCHANGED k
  ELSE NextContact

\* After an entry that is not contact k's: the next one, or "not online".
NextEntry ==
  IF i < MaxOnlineUsers
  THEN i' = i + 1 /\ opc' = "scan" /\ UNCHANGED k
  ELSE NextContact

Scan ==
  /\ up /\ opc = "scan"
  /\ IF ready[i] THEN opc' = "match" /\ UNCHANGED <<k, i>> ELSE NextEntry
  /\ UNCHANGED <<up, serverVars, tableVars, mutex, receiverVars, kind, group, sends,
                 outbox>>

\* strcmp.  Freed memory may compare either way, or not be there any more.
Match ==
  LET t == phone[i] IN
  /\ up /\ opc = "match"
  /\ \/ t \in {group[k], Freed} /\ opc' = "copy" /\ UNCHANGED <<up, k, i>>
     \/ t # group[k] /\ NextEntry /\ UNCHANGED up
     \/ t = Freed /\ up' = FALSE /\ UNCHANGED <<opc, k, i>>
  /\ UNCHANGED <<serverVars, tableVars, mutex, receiverVars, kind, group, sends, outbox>>

\* strcpy of the address, then pthread_create(P2Sender).
Copy ==
  /\ up /\ opc = "copy"
  /\ \/ /\ outbox' = Append(outbox, [to |-> group[k], kind |-> kind, state |-> "new",
                                     addr |-> IF addr[i] = Freed THEN Junk ELSE addr[i]])
        /\ NextContact
        /\ UNCHANGED up
     \/ /\ addr[i] = Freed /\ up' = FALSE
        /\ UNCHANGED <<opc, k, i, outbox>>
  /\ UNCHANGED <<serverVars, tableVars, mutex, receiverVars, kind, group, sends>>

\* Mutant: returns to the menu with the mutex held.
OperationDoneLocked ==
  /\ up /\ opc = "done"
  /\ opc' = "menu"
  /\ UNCHANGED <<up, serverVars, tableVars, mutex, receiverVars, kind, group, k, i,
                 sends, outbox>>

\* Unlock after a text; back to the menu.
OperationDone ==
  /\ up /\ opc = "done"
  /\ mutex' = IF kind = TEXT_MESSAGE THEN "free" ELSE mutex
  /\ opc' = "menu"
  /\ UNCHANGED <<up, serverVars, tableVars, receiverVars, kind, group, k, i, sends,
                 outbox>>

\* P2Sender n, after up to a second: a failed connect exits the process.
P2Sender(n) ==
  /\ up /\ n \in DOMAIN outbox /\ outbox[n].state = "new"
  /\ IF outbox[n].addr \in listening
     THEN outbox' = [outbox EXCEPT ![n].state = "sent"] /\ UNCHANGED up
     ELSE up' = FALSE /\ UNCHANGED outbox
  /\ UNCHANGED <<serverVars, tableVars, mutex, receiverVars, userVars>>

-----------------------------------------------------------------------------
Init ==
  /\ up = TRUE
  /\ listening = Users
  /\ link = "ok" /\ wire = NoFrame /\ pushes = 0
  /\ ready = [s \in Slot |-> FALSE]
  /\ phone = [s \in Slot |-> Null]
  /\ addr  = [s \in Slot |-> Null]
  /\ mutex = "free"
  /\ rpc = "recv" /\ ri = 1 /\ buf = NoFrame /\ stale = NoFrame
  /\ started = FALSE
  /\ opc = "login" /\ kind = TEXT_MESSAGE /\ group = << >> /\ k = 1 /\ i = 1
  /\ sends = 0
  /\ outbox = << >>

ReceiverStep == \/ Receive \/ ReceiveError \/ ReceiverLock \/ ReceiverClear
                \/ ReceiverName \/ ReceiverAddress \/ ReceiverUnlock

\* Choose is up to the user.
OperationStep == \/ Login \/ Started \/ OperationLock
                 \/ Scan \/ Match \/ Copy \/ OperationDone

ServerStep == ServerPush \/ ServerAck \/ ServerReset \/ \E u \in Users : Depart(u)

Next == \/ ServerStep \/ ReceiverStep \/ OperationStep \/ Choose
        \/ \E n \in DOMAIN outbox : P2Sender(n)

Spec == Init /\ [][Next]_vars

\* The two threads keep running; the server, the user and the others may not.
FairSpec == Spec /\ WF_vars(ReceiverStep) /\ WF_vars(OperationStep)

-----------------------------------------------------------------------------
(* What the client owes its user.                                          *)

\* Types, and the stages of the threads.
Frame == [kind : {"none", CONNECTION_REQUEST, UPDATE_REQUEST},
          count : 0..MaxOnlineUsers, list : Lists]

TypeOK ==
  /\ up \in BOOLEAN /\ started \in BOOLEAN
  /\ listening \subseteq Users
  /\ link \in {"ok", "rst", "closed"}
  /\ wire \in Frame /\ buf \in Frame /\ stale \in Frame
  /\ pushes \in 0..MaxPushes /\ sends \in 0..MaxSends
  /\ ready \in [Slot -> BOOLEAN]
  /\ phone \in [Slot -> Text] /\ addr \in [Slot -> Text]
  /\ mutex \in {"free", "receiver", "operation"}
  /\ rpc \in {"recv", "lock", "clear", "name", "address", "unlock"}
  /\ ri \in Slot
  /\ opc \in {"login", "wait", "menu", "lock", "scan", "match", "copy", "done"}
  /\ kind \in {TEXT_MESSAGE, IMAGE_MESSAGE}
  /\ group \in Groups \cup {<< >>}
  /\ k \in 1..MaxGroupContact /\ i \in Slot
  /\ outbox \in Seq([to : Users, addr : Users \cup {Junk},
                     kind : {TEXT_MESSAGE, IMAGE_MESSAGE}, state : {"new", "sent"}])

\* Outside the critical section of the receiver the table is the list last
\* taken from the server: as many entries as its count, in its order, each
\* whole; re-reading the old frame after an error does not change it.
TableIsLastList ==
  /\ TypeOK
  /\ rpc = "recv" /\ buf.kind = UPDATE_REQUEST =>
       \A s \in Slot :
         /\ ready[s] <=> s <= buf.count
         /\ ready[s] => addr[s] = phone[s]
         /\ ready[s] /\ s <= Len(buf.list) => phone[s] = buf.list[s]

\* A text goes to the address of the contact it is meant for, however the
\* lists of the server arrive meanwhile.
TextToRecipient ==
  \A n \in DOMAIN outbox :
    outbox[n].kind = TEXT_MESSAGE => outbox[n].addr = outbox[n].to

\* A photo never goes to the address of another user (README.md promises the
\* address of the recipient for messages and photos alike).
PhotoToRecipient ==
  \A n \in DOMAIN outbox :
    outbox[n].kind = IMAGE_MESSAGE => outbox[n].addr \in {outbox[n].to, Junk}

\* After a text to the contacts up to m of the group the last messages are for
\* those of them in the table: in their order, nobody skipped, nobody twice.
Online(u) == \E s \in Slot : ready[s] /\ phone[s] = u
Served(m) ==
  LET hits   == {j \in 1..m : Online(group[j])}
      count  == Cardinality(hits)
      before == Len(outbox) - count
  IN  /\ before >= 0
      /\ \E order \in [1..count -> hits] :
           /\ \A a, b \in 1..count : a < b => order[a] < order[b]
           /\ \A a \in 1..count : outbox[before + a].to = group[order[a]]

EveryContactServed ==
  up /\ opc = "done" /\ kind = TEXT_MESSAGE => Served(Len(group))

\* A text to a group goes out once to every contact of it that is in the table,
\* each time to this contact's address, whatever lists arrive meanwhile.
TextsReachContacts == TextToRecipient /\ EveryContactServed

\* The process of a user who sends texts only dies when a contact has gone.
DiesOfDeparture ==
  ~up => \/ listening # Users
         \/ kind = IMAGE_MESSAGE
         \/ \E n \in DOMAIN outbox : outbox[n].kind = IMAGE_MESSAGE

\* A list of the server is put into the table, whatever the user is sending.
ListApplied == (rpc = "lock") ~> (rpc = "recv" \/ ~up)
=============================================================================
