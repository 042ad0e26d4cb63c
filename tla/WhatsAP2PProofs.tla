--------------------------- MODULE WhatsAP2PProofs ---------------------------
(* Theorems about WhatsAP2P, for any number of users, addresses and messages: *)
(* who reads a message, why processes end, and what the server's table is.    *)
EXTENDS WhatsAP2P, FiniteSetTheorems, SequenceTheorems, TLAPS

USE MessengerAssumption

-----------------------------------------------------------------------------
(* The inductive invariant.                                                 *)

Typed ==
  /\ TypeOK
  /\ entry \in [Slot -> [who : User \cup {NoOne}, at : Address \cup {Nowhere}]]
  /\ table \in [User -> SUBSET [who : User, at : Address]]
  /\ inbox \in [User -> SUBSET Message]
  /\ posted \in Seq([from : User, to : User])

\* How far a process has come, on both of its threads and at the server.
Begun ==
  \A u \in User :
    /\ main[u] = "off" <=> port[u] = Nowhere
    /\ main[u] = "off" <=> task[u] = "none"
    /\ main[u] = "gone" <=> task[u] = "over"
    /\ main[u] = "gone" <=> fell[u] # "none"
    /\ serving[u] # "none" => main[u] # "off"
    /\ serving[u] \in {"recv", "ack", "free"} <=> holding[u] # 0

\* A port has one listener.
OneListener == \A u, v \in User :
  port[u] = port[v] /\ {main[u], main[v]} \subseteq {"bound", "listening"} => u = v

\* w drew the address a; it keeps it.
Drew(w, a) == main[w] # "off" /\ port[w] = a

\* What the server lists and the clients know is where their users are or were.
Announced ==
  /\ \A s \in listed : entry[s].who \in User /\ Drew(entry[s].who, entry[s].at)
  /\ \A u \in User : \A e \in table[u] : Drew(e.who, e.at)

\* A message is with a process that runs, ...
InHand == \A m \in senders : main[m.from] \notin {"off", "gone"} /\ Drew(m.to, m.at)
\* ... on a connection to one that had its address and listened ...
OnTheWay == \A m \in senders : m.via # NoOne =>
              main[m.via] \in {"listening", "gone"} /\ port[m.via] = m.at
\* ... and is kept by one that listens.
Arrived ==
  /\ \A u \in User : \A m \in inbox[u] :
       m.via = u /\ main[u] = "listening" /\ port[u] = m.at /\ Drew(m.to, m.at)
  /\ \A m \in shown : m.via \in User /\ Drew(m.via, m.at) /\ Drew(m.to, m.at)

IInv == Typed /\ Begun /\ OneListener /\ Announced /\ InHand /\ OnTheWay /\ Arrived
          /\ FallsHaveCause

LEMMA InitIInv == Init => IInv
<1> SUFFICES ASSUME Init PROVE IInv
  OBVIOUS
<1>1. holding = [u \in User |-> 0] /\ listed = {}
  BY DEF Init, Dir!Init
<1>2. posted \in Seq([from : User, to : User])
  BY DEF Init
<1>3. Typed
  BY <1>1, <1>2 DEF Init, Typed, TypeOK, Slot
<1>4. Begun /\ OneListener
  BY <1>1 DEF Init, Begun, OneListener
<1>5. Announced /\ InHand /\ OnTheWay /\ Arrived /\ FallsHaveCause
  BY <1>1 DEF Init, Announced, InHand, OnTheWay, Arrived, FallsHaveCause
<1>6. QED BY <1>3, <1>4, <1>5 DEF IInv

-----------------------------------------------------------------------------
(* A client until it listens.                                               *)

LEMMA StartInv ==
  ASSUME IInv, NEW u \in User, NEW a \in Address, Start(u, a)
  PROVE  IInv'
<1> USE DEF IInv
<1>1. /\ main[u] = "off" /\ main' = [main EXCEPT ![u] = "connected"]
      /\ task' = [task EXCEPT ![u] = "login"] /\ port' = [port EXCEPT ![u] = a]
      /\ UNCHANGED <<server, wires, table, mail, fell, early>>
  BY DEF Start
<1> USE <1>1 DEF server, wires, mail
<1>2. Typed'
  BY DEF Typed, TypeOK
<1>3. Begun'
  BY DEF Begun, Typed, TypeOK
<1>4. OneListener'
  BY DEF OneListener, Typed, TypeOK
<1>5. \A w \in User : \A b : Drew(w, b) => w # u /\ Drew(w, b)'
  BY DEF Drew, Typed, TypeOK
<1>6. Announced' /\ InHand'
  BY <1>5 DEF Announced, InHand, Typed, TypeOK, Message, Slot
<1>7. OnTheWay' /\ Arrived'
  BY <1>5 DEF OnTheWay, Arrived, Typed, TypeOK, Message
<1>8. FallsHaveCause'
  BY DEF FallsHaveCause
<1>9. QED BY <1>2, <1>3, <1>4, <1>6, <1>7, <1>8

\* A process that loses its port, that is refused, leaves or is killed.
LEMMA EndInv ==
  ASSUME IInv, NEW u \in User, main[u] \notin {"off", "gone"},
         NEW why \in {"left", "killed", "bind", "refused"}, End(u, why), early' \in BOOLEAN,
         early => early',
         why = "refused" => early' \/ \E w \in User : main[w] = "gone"
  PROVE  IInv'
<1> USE DEF IInv
<1>1. /\ main' = [main EXCEPT ![u] = "gone"] /\ task' = [task EXCEPT ![u] = "over"]
      /\ senders' = {m \in senders : m.from # u} /\ inbox' = [inbox EXCEPT ![u] = {}]
      /\ fell' = [fell EXCEPT ![u] = why]
      /\ UNCHANGED <<server, toServer, port, table, shown, posted>>
      /\ \E how \in {"fin", "rst"} : link' = [link EXCEPT ![u] = how]
  BY DEF End
<1> USE <1>1 DEF server
<1>2. Typed'
  BY DEF Typed, TypeOK
<1>3. Begun'
  BY DEF Begun, Typed, TypeOK
<1>4. OneListener'
  BY DEF OneListener, Typed, TypeOK
<1>5. \A w \in User : \A b : Drew(w, b) => Drew(w, b)'
  BY DEF Drew, Typed, TypeOK
<1>6. Announced' /\ InHand'
  BY <1>5 DEF Announced, InHand, Typed, TypeOK, Message, Slot
<1>7. OnTheWay' /\ Arrived'
  BY <1>5 DEF OnTheWay, Arrived, Typed, TypeOK, Message
<1>8. FallsHaveCause'
  <2>1. fell[u] = "none" /\ fell'[u] = why
    BY DEF Begun, Typed, TypeOK
  <2>2. SUFFICES ASSUME \A w \in User : fell'[w] \notin {"left", "killed", "bind"}, ~early'
                 PROVE  FALSE
    BY DEF FallsHaveCause
  <2>3. why = "refused"
    BY <2>1, <2>2
  <2>4. PICK w \in User : main[w] = "gone"
    BY <2>2, <2>3
  <2>5. fell[w] # "none"
    BY <2>4 DEF Begun
  <2>6. \A v \in User : fell[v] \notin {"left", "killed", "bind"}
    BY <2>1, <2>2 DEF Typed, TypeOK
  <2>7. QED BY <2>2, <2>5, <2>6 DEF FallsHaveCause
<1>9. QED BY <1>2, <1>3, <1>4, <1>6, <1>7, <1>8

LEMMA BindInv ==
  ASSUME IInv, NEW u \in User, Bind(u) \/ Listen(u)
  PROVE  IInv'
<1> USE DEF IInv
<1>1. CASE Bind(u) /\ End(u, "bind")
  <2>1. main[u] \notin {"off", "gone"} /\ early' = early
    BY <1>1 DEF Bind
  <2>2. early \in BOOLEAN
    BY DEF Typed, TypeOK
  <2>3. QED BY <1>1, <2>1, <2>2, EndInv
<1>2. CASE ~(Bind(u) /\ End(u, "bind"))
  <2>1. /\ \/ main[u] = "connected" /\ main' = [main EXCEPT ![u] = "bound"]
           \/ main[u] = "bound" /\ main' = [main EXCEPT ![u] = "listening"]
        /\ UNCHANGED <<server, wires, task, port, table, mail, fell, early>>
        /\ main[u] = "connected" => \A v \in User \ {u} : port[v] = port[u] =>
             main[v] \notin {"bound", "listening"}
    BY <1>2 DEF Bind, Listen
  <2> USE <2>1 DEF server, wires, mail
  <2>2. Typed'
    BY DEF Typed, TypeOK
  <2>3. Begun'
    BY DEF Begun, Typed, TypeOK
  <2>4. OneListener'
    BY DEF OneListener, Typed, TypeOK
  <2>5. \A w \in User : \A b : Drew(w, b) => Drew(w, b)'
    BY DEF Drew, Typed, TypeOK
  <2>6. Announced' /\ InHand'
    BY <2>5 DEF Announced, InHand, Typed, TypeOK, Message, Slot
  <2>7. OnTheWay' /\ Arrived'
    BY <2>5 DEF OnTheWay, Arrived, Typed, TypeOK, Message
  <2>8. FallsHaveCause'
    BY DEF FallsHaveCause
  <2>9. QED BY <2>2, <2>3, <2>4, <2>6, <2>7, <2>8
<1>3. QED BY <1>1, <1>2

\* Login and Leave: a message to the server.
LEMMA SpeakInv ==
  ASSUME IInv, NEW u \in User, Login(u) \/ Leave(u)
  PROVE  IInv'
<1> USE DEF IInv
<1>1. /\ task[u] \in {"login", "menu"} /\ \E t \in {"wait", "leaving"} : task' = [task EXCEPT ![u] = t]
      /\ UNCHANGED <<server, link, main, port, table, mail, fell, early>>
  BY DEF Login, Leave
<1> USE <1>1 DEF server, mail
<1>2. Typed'
  BY DEF Typed, TypeOK
<1>3. Begun'
  BY DEF Begun, Typed, TypeOK
<1>4. \A w \in User : \A b : Drew(w, b) => Drew(w, b)'
  BY DEF Drew
<1>5. OneListener' /\ FallsHaveCause'
  BY DEF OneListener, FallsHaveCause
<1>6. Announced' /\ InHand'
  BY <1>4 DEF Announced, InHand, Typed, TypeOK, Message, Slot
<1>7. OnTheWay' /\ Arrived'
  BY <1>4 DEF OnTheWay, Arrived, Typed, TypeOK, Message
<1>8. QED BY <1>2, <1>3, <1>5, <1>6, <1>7

-----------------------------------------------------------------------------
(* The server.                                                              *)

\* What the server does inside itself: no process of a client takes part.
LEMMA TableInv ==
  ASSUME IInv, Typed', Begun', serverUp, serverUp',
         UNCHANGED <<main, port, table, mail, fell, early>>,
         \A s \in listed' :
           \/ s \in listed /\ entry'[s] = entry[s]
           \/ \E u \in User : main[u] # "off" /\ entry'[s] = Where(u)
  PROVE  IInv'
<1> USE DEF IInv, mail
<1>1. \A w \in User : \A b : Drew(w, b) => Drew(w, b)'
  BY DEF Drew
<1>2. Announced'
  <2>1. ASSUME NEW s \in listed'
        PROVE  entry'[s].who \in User /\ main'[entry'[s].who] # "off"
               /\ port'[entry'[s].who] = entry'[s].at
    <3>1. CASE s \in listed /\ entry'[s] = entry[s]
      BY <3>1 DEF Announced, Drew
    <3>2. ASSUME NEW u \in User, main[u] # "off", entry'[s] = Where(u)
          PROVE  entry'[s].who \in User /\ main'[entry'[s].who] # "off"
               /\ port'[entry'[s].who] = entry'[s].at
      BY <3>2 DEF Where, Drew
    <3>3. QED BY <2>1, <3>1, <3>2
  <2>2. \A w \in User : \A e \in table'[w] : Drew(e.who, e.at)'
    BY <1>1 DEF Announced, Typed
  <2>3. QED BY <2>1, <2>2 DEF Announced, Drew
<1>3. OneListener' /\ FallsHaveCause'
  BY DEF OneListener, FallsHaveCause
<1>4. InHand' /\ OnTheWay' /\ Arrived'
  BY <1>1 DEF InHand, OnTheWay, Arrived, Typed, TypeOK, Message
<1>5. QED BY <1>2, <1>3, <1>4

LEMMA AcceptInv ==
  ASSUME IInv, NEW u \in User, ServerAccept(u)
  PROVE  IInv'
<1> USE DEF IInv
<1>1. PICK s \in Slot : holding' = [holding EXCEPT ![u] = s]
  BY DEF ServerAccept, Dir!Claim
<1>2. /\ serverUp /\ main[u] # "off" /\ serving[u] = "none"
      /\ serving' = [serving EXCEPT ![u] = "recv"]
      /\ UNCHANGED <<serverUp, listed, entry, wires, process, mail, fell, early>>
  BY DEF ServerAccept, Dir!Claim, Handle
<1> USE <1>1, <1>2 DEF wires, process, mail
<1>3. Typed'
  BY DEF Typed, TypeOK
<1>4. s # 0
  BY DEF Slot
<1>5. Begun'
  BY <1>4 DEF Begun, Typed, TypeOK
<1>6. QED BY <1>3, <1>5, TableInv

LEMMA LoginInv ==
  ASSUME IInv, NEW u \in User, ServerLogin(u)
  PROVE  IInv'
<1> USE DEF IInv
<1>1. /\ serverUp /\ serving[u] = "recv" /\ serving' = [serving EXCEPT ![u] = "ack"]
      /\ entry' = [entry EXCEPT ![holding[u]] = Where(u)]
      /\ listed' = listed \cup {holding[u]}
      /\ UNCHANGED <<serverUp, holding, link, process, mail, fell, early>>
  BY DEF ServerLogin, Dir!List, Handle
<1>2. holding[u] \in Slot /\ main[u] # "off"
  BY <1>1 DEF Begun, Typed, TypeOK
<1> USE <1>1, <1>2 DEF process, mail
<1>3. Where(u) \in [who : User \cup {NoOne}, at : Address \cup {Nowhere}]
  BY DEF Where, Typed, TypeOK
<1>4. Typed'
  BY <1>3 DEF Typed, TypeOK
<1>5. Begun'
  BY DEF Begun, Typed, TypeOK
<1>6. \A s \in listed' : \/ s \in listed /\ entry'[s] = entry[s]
                         \/ entry'[s] = Where(u)
  BY DEF Typed, TypeOK
<1>7. QED BY <1>4, <1>5, <1>6, TableInv

\* Logging out and giving the entry back.
LEMMA LogoutInv ==
  ASSUME IInv, NEW u \in User, ServerLogout(u) \/ ServerFree(u)
  PROVE  IInv'
<1> USE DEF IInv
<1>1. /\ serverUp /\ UNCHANGED <<serverUp, entry, link, process, mail, fell, early>>
      /\ listed' \subseteq listed
      /\ \/ /\ serving[u] = "recv" /\ serving' = [serving EXCEPT ![u] = "free"]
            /\ holding' = holding
         \/ /\ serving[u] = "free" /\ serving' = [serving EXCEPT ![u] = "exit"]
            /\ holding' = [holding EXCEPT ![u] = 0]
  BY DEF ServerLogout, ServerFree, Dir!Unlist, Dir!Release, Handle, wires
<1> USE <1>1 DEF process, mail
<1>2. Typed'
  BY DEF Typed, TypeOK
<1>3. Begun'
  BY DEF Begun, Typed, TypeOK
<1>4. QED BY <1>2, <1>3, TableInv

\* A message of the server to u: the acknowledgement or a list.  Only one to a
\* process that has ended can bring the server down.
LEMMA ServerSendInv ==
  ASSUME IInv, NEW u \in User, ServerAck(u) \/ ServerPush(u)
  PROVE  IInv'
<1> USE DEF IInv
<1>1. /\ serverUp /\ serving[u] \in {"recv", "ack"}
      /\ serving' = serving \/ serving' = [serving EXCEPT ![u] = "recv"]
      /\ UNCHANGED <<holding, listed, entry, main, port, mail, fell, early>>
      /\ \/ Alive(u) /\ UNCHANGED <<serverUp, link>>
         \/ SendToGone(u) /\ UNCHANGED <<task, table>>
      /\ task' = task \/ (Alive(u) /\ task' = [task EXCEPT ![u] = "menu"])
      /\ table' = table \/ table' = [table EXCEPT ![u] = {entry[s] : s \in listed}]
  BY DEF ServerAck, ServerPush, Handle
<1>2. /\ serverUp' = serverUp \/ (serverUp' = FALSE /\ main[u] = "gone")
      /\ link' = link \/ link' = [link EXCEPT ![u] = "rst"]
  BY <1>1 DEF SendToGone, Alive, Begun
<1> USE <1>1, <1>2 DEF mail, Alive
<1>3. \A s \in listed : entry[s] \in [who : User, at : Address]
  <2> SUFFICES ASSUME NEW s \in listed PROVE entry[s] \in [who : User, at : Address]
    OBVIOUS
  <2>1. entry[s].who \in User /\ Drew(entry[s].who, entry[s].at)
    BY DEF Announced
  <2>2. entry[s] \in [who : User \cup {NoOne}, at : Address \cup {Nowhere}]
    BY DEF Typed, TypeOK
  <2>3. entry[s].at # Nowhere
    BY <2>1 DEF Drew, Begun
  <2>4. QED BY <2>1, <2>2, <2>3
<1>4. Typed'
  <2>1. {entry[s] : s \in listed} \in SUBSET [who : User, at : Address]
    BY <1>3
  <2>2. table' \in [User -> SUBSET [who : User, at : Address]]
    BY <2>1 DEF Typed
  <2>3. serving' \in [User -> {"none", "recv", "ack", "free", "exit"}]
    BY DEF Typed, TypeOK
  <2>4. link' \in [User -> {"ok", "fin", "rst"}] /\ serverUp' \in BOOLEAN
    BY DEF Typed, TypeOK
  <2>5. task' \in [User -> {"none", "login", "wait", "menu", "leaving", "over"}]
    BY DEF Typed, TypeOK
  <2>6. QED BY <2>2, <2>3, <2>4, <2>5 DEF Typed, TypeOK
<1>5. Begun'
  BY DEF Begun, Typed, TypeOK
<1>6. \A w \in User : \A b : Drew(w, b) => Drew(w, b)'
  BY DEF Drew
<1>7. Announced'
  BY <1>3, <1>6 DEF Announced, Typed, TypeOK
<1>8. OneListener' /\ InHand' /\ OnTheWay' /\ Arrived'
  BY <1>6 DEF OneListener, InHand, OnTheWay, Arrived, Typed, TypeOK, Message
<1>9. FallsHaveCause'
  BY DEF FallsHaveCause, Begun
<1>10. QED BY <1>4, <1>5, <1>7, <1>8, <1>9

-----------------------------------------------------------------------------
(* A client that is logged in.                                              *)

LEMMA SendInv ==
  ASSUME IInv, NEW u \in User, Send(u)
  PROVE  IInv'
<1> USE DEF IInv
<1>1. PICK e \in table[u] :
        /\ senders' = senders \cup
             {[nr |-> Len(posted) + 1, from |-> u, to |-> e.who, at |-> e.at, via |-> NoOne]}
        /\ posted' = Append(posted, [from |-> u, to |-> e.who])
  BY DEF Send
<1>2. /\ task[u] = "menu" /\ Len(posted) < MaxSends
      /\ UNCHANGED <<server, wires, process, inbox, shown, fell, early>>
  BY DEF Send
<1> USE <1>2 DEF server, wires, process
<1> DEFINE m == [nr |-> Len(posted) + 1, from |-> u, to |-> e.who, at |-> e.at, via |-> NoOne]
<1>3. e \in [who : User, at : Address] /\ Drew(e.who, e.at)
  BY DEF Announced, Typed
<1>4. Len(posted) \in Nat /\ Len(posted) + 1 \in 1..MaxSends
  <2>1. Len(posted) \in Nat
    BY LenProperties DEF Typed
  <2>2. QED BY <2>1
<1>5. /\ m \in Message /\ m.from = u /\ m.to = e.who /\ m.at = e.at /\ m.via = NoOne
      /\ senders' = senders \cup {m}
  BY <1>1, <1>3, <1>4 DEF Message
<1> HIDE DEF m
<1>6. posted' \in Seq([from : User, to : User])
  BY <1>1, <1>3, AppendProperties DEF Typed
<1>7. Typed'
  BY <1>5, <1>6 DEF Typed, TypeOK
<1>8. Begun' /\ OneListener' /\ FallsHaveCause'
  BY DEF Begun, OneListener, FallsHaveCause
<1>9. \A w \in User : \A b : Drew(w, b) => Drew(w, b)'
  BY DEF Drew
<1>10. Announced'
  BY <1>9 DEF Announced, Typed
<1>11. InHand'
  <2>1. main[u] \notin {"off", "gone"}
    BY DEF Begun
  <2>2. QED BY <1>3, <1>5, <1>9, <2>1 DEF InHand, Typed, TypeOK, Message
<1>12. OnTheWay' /\ Arrived'
  BY <1>5, <1>9 DEF OnTheWay, Arrived, Typed, TypeOK, Message
<1>13. QED BY <1>7, <1>8, <1>10, <1>11, <1>12

LEMMA DialInv ==
  ASSUME IInv, NEW m \in senders, Dial(m)
  PROVE  IInv'
<1> USE DEF IInv
<1>1. m \in Message /\ m.from \in User /\ m.to \in User /\ m.at \in Address
  BY DEF Typed, TypeOK, Message
<1>2. Drew(m.to, m.at) /\ main[m.from] \notin {"off", "gone"}
  BY DEF InHand
<1>3. ASSUME NEW w \in Listening(m.at), senders' = (senders \ {m}) \cup {[m EXCEPT !.via = w]},
             UNCHANGED <<server, wires, process, inbox, shown, posted, fell, early>>
      PROVE  IInv'
  <2> USE <1>3 DEF server, wires, process
  <2> DEFINE n == [m EXCEPT !.via = w]
  <2>1. w \in User /\ main[w] = "listening" /\ port[w] = m.at
    BY DEF Listening
  <2>2. /\ n \in Message /\ n.from = m.from /\ n.to = m.to /\ n.at = m.at /\ n.via = w
        /\ senders' = (senders \ {m}) \cup {n}
    BY <1>1, <2>1 DEF Message
  <2> HIDE DEF n
  <2>3. Typed'
    BY <2>2 DEF Typed, TypeOK
  <2>4. Begun' /\ OneListener' /\ FallsHaveCause'
    BY DEF Begun, OneListener, FallsHaveCause
  <2>5. \A v \in User : \A b : Drew(v, b) => Drew(v, b)'
    BY DEF Drew
  <2>6. Announced' /\ Arrived'
    BY <2>5 DEF Announced, Arrived, Typed, TypeOK, Message
  <2>7. InHand'
    BY <1>1, <1>2, <2>2, <2>5 DEF InHand, Typed, TypeOK, Message
  <2>8. OnTheWay'
    BY <2>1, <2>2 DEF OnTheWay, Typed, TypeOK, Message
  <2>9. QED BY <2>3, <2>4, <2>6, <2>7, <2>8
<1>4. CASE /\ Listening(m.at) = {} /\ End(m.from, "refused")
           /\ early' = (early \/ main[m.to] \in {"connected", "bound"})
  <2>1. main[m.to] # "off" /\ main[m.to] # "listening"
    BY <1>1, <1>2, <1>4 DEF Drew, Listening
  <2>2. main[m.to] \in {"connected", "bound", "gone"}
    BY <1>1, <2>1 DEF Typed, TypeOK
  <2>3. early' \in BOOLEAN /\ (early => early') /\ (early' \/ main[m.to] = "gone")
    BY <1>4, <2>2 DEF Typed, TypeOK
  <2>4. QED BY <1>1, <1>2, <1>4, <2>3, EndInv
<1>5. QED BY <1>3, <1>4 DEF Dial

LEMMA DeliverInv ==
  ASSUME IInv, NEW m \in senders, Deliver(m)
  PROVE  IInv'
<1> USE DEF IInv
<1>1. /\ m \in Message /\ m.from \in User /\ m.to \in User /\ m.via \in User
      /\ m.via # NoOne /\ senders' = senders \ {m}
      /\ \/ main[m.via] = "listening" /\ inbox' = [inbox EXCEPT ![m.via] = @ \cup {m}]
         \/ inbox' = inbox
      /\ UNCHANGED <<server, wires, process, shown, posted, fell, early>>
  BY DEF Typed, TypeOK, Message, Deliver
<1> USE <1>1 DEF server, wires, process
<1>2. Typed'
  BY DEF Typed, TypeOK
<1>3. Begun' /\ OneListener' /\ FallsHaveCause'
  BY DEF Begun, OneListener, FallsHaveCause
<1>4. \A v \in User : \A b : Drew(v, b) => Drew(v, b)'
  BY DEF Drew
<1>5. Announced' /\ InHand' /\ OnTheWay'
  BY <1>4 DEF Announced, InHand, OnTheWay, Typed, TypeOK, Message
<1>6. Arrived'
  <2>1. port[m.via] = m.at /\ Drew(m.to, m.at)
    BY DEF OnTheWay, InHand
  <2>2. QED BY <1>4, <2>1 DEF Arrived, Typed, TypeOK, Message
<1>7. QED BY <1>2, <1>3, <1>5, <1>6

LEMMA ShowInv ==
  ASSUME IInv, NEW u \in User, Show(u)
  PROVE  IInv'
<1> USE DEF IInv
<1>1. PICK m \in inbox[u] : /\ inbox' = [inbox EXCEPT ![u] = @ \ {m}]
                            /\ shown' = shown \cup {m}
  BY DEF Show
<1>2. UNCHANGED <<server, wires, process, senders, posted, fell, early>>
  BY DEF Show
<1> USE <1>1, <1>2 DEF server, wires, process
<1>3. m \in Message /\ m.to \in User
  BY DEF Typed, TypeOK, Message
<1>4. Typed'
  BY <1>3 DEF Typed, TypeOK
<1>5. Begun' /\ OneListener' /\ FallsHaveCause'
  BY DEF Begun, OneListener, FallsHaveCause
<1>6. \A v \in User : \A b : Drew(v, b) => Drew(v, b)'
  BY DEF Drew
<1>7. Announced' /\ InHand' /\ OnTheWay'
  BY <1>6 DEF Announced, InHand, OnTheWay, Typed, TypeOK, Message
<1>8. Arrived'
  <2>1. m.via = u /\ Drew(m.via, m.at) /\ Drew(m.to, m.at)
    BY DEF Arrived, Drew
  <2>2. QED BY <1>3, <1>6, <2>1 DEF Arrived, Typed, TypeOK, Message
<1>9. QED BY <1>4, <1>5, <1>7, <1>8

LEMMA GoneInv ==
  ASSUME IInv, NEW u \in User, Quit(u) \/ Die(u)
  PROVE  IInv'
<1>1. PICK why \in {"left", "killed"} : End(u, why)
  BY DEF Quit, Die
<1>2. main[u] \notin {"off", "gone"}
  BY DEF Quit, Die, Alive, IInv, Begun
<1>3. early' = early /\ early \in BOOLEAN
  BY DEF Quit, Die, IInv, Typed, TypeOK
<1>4. QED BY <1>1, <1>2, <1>3, EndInv

-----------------------------------------------------------------------------
(* The theorems.                                                            *)

LEMMA Inductive == Spec => []IInv
<1>1. ASSUME IInv, UNCHANGED vars PROVE IInv'
  <2> USE <1>1 DEF vars, server, wires, process, mail, IInv
  <2>1. Typed' /\ Begun' /\ OneListener' /\ FallsHaveCause'
    BY DEF Typed, TypeOK, Begun, OneListener, FallsHaveCause
  <2>2. \A w \in User : \A b : Drew(w, b) => Drew(w, b)'
    BY DEF Drew
  <2>3. Announced' /\ InHand' /\ OnTheWay' /\ Arrived'
    BY <2>2 DEF Announced, InHand, OnTheWay, Arrived, Typed, TypeOK, Message
  <2>4. QED BY <2>1, <2>3
<1>2. ASSUME IInv, NEW u \in User, ServerStep(u) \/ ServerPush(u) PROVE IInv'
  BY <1>2, AcceptInv, LoginInv, LogoutInv, ServerSendInv DEF ServerStep
<1>3. ASSUME IInv, NEW u \in User, ClientStep(u) PROVE IInv'
  BY <1>3, BindInv, ShowInv, GoneInv, DialInv, DeliverInv DEF ClientStep
<1>4. ASSUME IInv, NEW u \in User, UserStep(u) PROVE IInv'
  BY <1>4, StartInv, SpeakInv, SendInv, GoneInv DEF UserStep
<1>5. IInv /\ [Next]_vars => IInv'
  BY <1>1, <1>2, <1>3, <1>4 DEF Next, SystemStep
<1>6. QED BY <1>5, InitIInv, PTL DEF Spec

\* A message written to an address that was read from a table, however old,
\* never comes into the hands of anybody but its recipient or a process that
\* drew the same address.
THEOREM ReaderIsRight == Spec => []RightReader
<1>1. IInv => RightReader
  <2> SUFFICES ASSUME IInv PROVE RightReader
    OBVIOUS
  <2> USE DEF IInv
  <2>1. \A m \in senders : m.at = port[m.to]
    BY DEF InHand, Drew
  <2>2. ASSUME NEW u \in User, NEW w \in User, NEW m \in inbox[w], m.via = u, m.to # u
        PROVE  port[m.to] = port[u] /\ main[m.to] \in {"connected", "gone"}
    <3>1. w = u /\ main[u] = "listening" /\ port[u] = m.at /\ Drew(m.to, m.at)
      BY <2>2 DEF Arrived
    <3>2. m.to \in User
      BY DEF Typed, Message
    <3>3. main[m.to] \notin {"off", "bound", "listening"} /\ port[m.to] = port[u]
      BY <2>2, <3>1, <3>2 DEF OneListener, Drew
    <3>4. QED BY <3>2, <3>3 DEF Typed, TypeOK
  <2>3. \A m \in shown : m.via = m.to \/ port[m.via] = port[m.to]
    BY DEF Arrived, Drew
  <2>4. QED BY <2>1, <2>2, <2>3 DEF RightReader, Typed
<1>2. QED BY <1>1, Inductive, PTL

\* Left to themselves, the server runs and no client ends: whatever fell had a
\* user who left or was killed, two users with one port, or a contact that had
\* not called listen before it.
THEOREM EveryFallHasACause == Spec => []FallsHaveCause
<1>1. IInv => FallsHaveCause
  BY DEF IInv
<1>2. QED BY <1>1, Inductive, PTL

\* A listed entry is that of the user who holds it and of nobody else: no user
\* is listed twice, and none that has given its entry back.
OwnEntry ==
  /\ \A u, v \in User : holding[u] = holding[v] /\ holding[u] # 0 => u = v
  /\ \A s \in listed : entry[s].who \in User /\ holding[entry[s].who] = s

LEMMA OwnEntryStep ==
  ASSUME IInv, OwnEntry, NEW u \in User, ServerStep(u)
  PROVE  OwnEntry'
<1> USE DEF IInv
<1>1. holding \in [User -> Slot \cup {0}] /\ listed \subseteq Slot /\ 0 \notin Slot
  BY DEF Typed, TypeOK, Slot
<1>2. CASE ServerAccept(u)
  <2>1. PICK s \in Slot : /\ \A v \in User : holding[v] # s
                          /\ holding' = [holding EXCEPT ![u] = s]
    BY <1>2 DEF ServerAccept, Dir!Claim
  <2>2. holding[u] = 0 /\ UNCHANGED <<listed, entry>>
    BY <1>2 DEF ServerAccept, Dir!Claim
  <2>3. QED BY <1>1, <2>1, <2>2 DEF OwnEntry
<1>3. CASE ServerLogin(u)
  <2>1. /\ entry' = [entry EXCEPT ![holding[u]] = Where(u)] /\ holding[u] # 0
        /\ listed' = listed \cup {holding[u]} /\ holding' = holding
    BY <1>3 DEF ServerLogin, Dir!List
  <2>2. entry' \in [Slot -> {entry[s] : s \in Slot} \cup {Where(u)}] /\ Where(u).who = u
    BY <2>1 DEF Where, Typed
  <2>3. \A s \in Slot : entry'[s] = IF s = holding[u] THEN Where(u) ELSE entry[s]
    BY <2>1 DEF Typed
  <2>4. QED BY <1>1, <2>1, <2>2, <2>3 DEF OwnEntry
<1>4. CASE ServerAck(u)
  BY <1>4 DEF ServerAck, OwnEntry
<1>5. CASE ServerLogout(u)
  <2>1. UNCHANGED <<holding, entry>> /\ listed' \subseteq listed
    BY <1>5 DEF ServerLogout, Dir!Unlist
  <2>2. QED BY <2>1 DEF OwnEntry
<1>6. CASE ServerFree(u)
  <2>1. /\ holding[u] # 0 /\ holding[u] \notin listed
        /\ holding' = [holding EXCEPT ![u] = 0] /\ UNCHANGED <<listed, entry>>
    BY <1>6 DEF ServerFree, Dir!Release
  <2>2. QED BY <1>1, <2>1 DEF OwnEntry
<1>7. QED BY <1>2, <1>3, <1>4, <1>5, <1>6 DEF ServerStep

\* The list the server sends has no user twice, none that has given its entry
\* back, and every user at the address it drew.
THEOREM ListIsTrue == Spec => [](OwnEntry /\ Announced)
<1>1. Init => OwnEntry
  BY DEF Init, Dir!Init, OwnEntry
<1>2. ASSUME IInv, OwnEntry, [Next]_vars PROVE OwnEntry'
  <2>1. CASE UNCHANGED <<holding, listed, entry>>
    BY <1>2, <2>1 DEF OwnEntry
  <2>2. ASSUME NEW u \in User, ServerPush(u) \/ ClientStep(u) \/ UserStep(u)
        PROVE  UNCHANGED <<holding, listed, entry>>
    BY <2>2 DEF ServerPush, ClientStep, UserStep, Start, Bind, Listen, Login, Send, Dial,
       Deliver, Show, Leave, Quit, Die, End, server
  <2>3. UNCHANGED vars => UNCHANGED <<holding, listed, entry>>
    BY DEF vars, server
  <2>4. QED BY <1>2, <2>1, <2>2, <2>3, OwnEntryStep DEF Next, SystemStep
<1>3. IInv => Announced
  BY DEF IInv
<1>4. QED BY <1>1, <1>2, <1>3, Inductive, PTL DEF Spec
=============================================================================
