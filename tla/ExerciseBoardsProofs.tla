------------------------ MODULE ExerciseBoardsProofs -------------------------
(* What the boards of March hold and answer, for any set of clients, any size *)
(* of the board and any number of requests: first the processes of 29 March,  *)
(* then the second and the first group of 15 March.                           *)
EXTENDS MCExerciseBoards, SequenceTheorems, WellFoundedInduction, TLAPS

USE ForkAssumption

Boards   == [Slots -> Message]
Requests == [cod : 1..3, msg : Message]
Answers  == [error : {0}, data : {l \in Seq(Message) : Len(l) <= Size}]

\* No entry follows an empty one.
CompactOne(d) == \A i, j \in Slots : i < j /\ d[i].userName = Empty => d[j].userName = Empty

\* The board d is what fits of the messages s, which all have a name.
Keeps(d, s) ==
  /\ \A j \in 1..Len(s) : s[j].userName # Empty
  /\ \A j \in Slots : /\ j <= Len(s) => d[j] = s[j]
                      /\ j > Len(s) => d[j].userName = Empty

BoardsInv ==
  /\ data \in [Procs -> Boards] /\ stored \in [Procs -> Seq(Message)]
  /\ deleted \in [Procs -> BOOLEAN]
  /\ \A p \in Procs : CompactOne(data[p]) /\ (~deleted[p] => Keeps(data[p], stored[p]))

WiresInv ==
  /\ pst \in [Procs -> {"none", "accept", "serve", "exited"}]
  /\ request \in [Clients -> Requests \cup {None}]
  /\ response \in [Clients -> Answers \cup {None}]
  /\ closed \in [Clients -> {"no", "client", "server"}]
  /\ cst \in [Clients -> {"off", "menu", "await", "left"}]
  /\ sent \in [Clients -> Nat] /\ \A c \in Clients : sent[c] <= MaxCommands[c]

IInv == BoardsInv /\ WiresInv

-----------------------------------------------------------------------------
(* The operations of a board.                                               *)

LEMMA FirstSlot ==
  ASSUME NEW T \in SUBSET Slots, T # {}
  PROVE  \E x \in T : \A y \in T : x <= y
<1>1. T \subseteq Nat
  BY DEF Slots
<1>2. PICK x \in T : \A y \in T : <<y, x>> \notin OpToRel(<, Nat)
  BY <1>1, NatLessThanWellFounded, WFMin
<1>3. \A y \in T : ~(y < x)
  BY <1>1, <1>2 DEF OpToRel
<1>4. QED BY <1>1, <1>3

\* There is an end of the listing, and of a board that keeps s it is that of s.
ListingEnd(d, n) ==
  /\ \A i \in 1..n : d[i].userName # Empty
  /\ n < Size => d[n + 1].userName = Empty

LEMMA ListingEnds ==
  ASSUME NEW d \in Boards
  PROVE  \E n \in 0..Size : ListingEnd(d, n)
<1> DEFINE T == {j \in Slots : d[j].userName = Empty}
<1>1. CASE T = {}
  <2>1. \A i \in 1..Size : d[i].userName # Empty
    BY <1>1 DEF Slots
  <2>2. QED BY <2>1 DEF ListingEnd
<1>2. CASE T # {}
  <2>1. PICK x \in T : \A y \in T : x <= y
    BY <1>2, FirstSlot
  <2>2. x \in 1..Size /\ d[x].userName = Empty
    BY <2>1 DEF Slots
  <2>3. \A i \in 1..(x - 1) : d[i].userName # Empty
    BY <2>1, <2>2 DEF Slots
  <2>4. x - 1 \in 0..Size /\ (x - 1) + 1 = x
    BY <2>2
  <2>5. QED BY <2>2, <2>3, <2>4 DEF ListingEnd
<1>3. QED BY <1>1, <1>2

LEMMA ListingIs ==
  ASSUME NEW d \in Boards
  PROVE  \E n \in 0..Size : ListingEnd(d, n) /\ Listing(d) = SubSeq(d, 1, n)
<1>1. \E n \in 0..Size : ListingEnd(d, n)
  BY ListingEnds
<1> DEFINE n == CHOOSE m \in 0..Size : ListingEnd(d, m)
<1>2. n \in 0..Size /\ ListingEnd(d, n)
  BY <1>1
<1>3. Listing(d) = SubSeq(d, 1, n)
  BY DEF Listing, ListingEnd
<1> HIDE DEF n
<1>4. QED BY <1>2, <1>3

LEMMA ListingType ==
  ASSUME NEW d \in Boards
  PROVE  Listing(d) \in Seq(Message) /\ Len(Listing(d)) <= Size
<1>1. PICK n \in 0..Size : Listing(d) = SubSeq(d, 1, n)
  BY ListingIs
<1>2. \A i \in 1..n : d[i] \in Message
  BY DEF Boards, Slots
<1>3. SubSeq(d, 1, n) \in Seq(Message) /\ Len(SubSeq(d, 1, n)) = IF 1 <= n THEN n - 1 + 1 ELSE 0
  BY <1>2, SubSeqProperties
<1>4. QED BY <1>1, <1>3

LEMMA ListingOfKept ==
  ASSUME NEW d \in Boards, NEW s \in Seq(Message), Keeps(d, s)
  PROVE  Listing(d) = SubSeq(s, 1, IF Len(s) <= Size THEN Len(s) ELSE Size)
<1> DEFINE e == IF Len(s) <= Size THEN Len(s) ELSE Size
<1>1. Len(s) \in Nat /\ e \in 0..Size /\ e <= Len(s)
  BY LenProperties
<1>2. PICK n \in 0..Size : ListingEnd(d, n) /\ Listing(d) = SubSeq(d, 1, n)
  BY ListingIs
<1>3. e = Len(s) \/ e = Size
  OBVIOUS
<1> HIDE DEF e
<1>4. \A i \in 1..e : d[i] = s[i] /\ d[i].userName # Empty
  BY <1>1 DEF Keeps, Slots
<1>5. e < Size => d[e + 1].userName = Empty
  BY <1>1, <1>3 DEF Keeps, Slots
<1>6. n = e
  <2>1. ~(n < e)
    BY <1>1, <1>2, <1>4 DEF ListingEnd
  <2>2. ~(e < n)
    BY <1>1, <1>2, <1>5 DEF ListingEnd
  <2>3. QED BY <1>1, <2>1, <2>2
<1>7. SubSeq(d, 1, e) = SubSeq(s, 1, e)
  <2>1. \A i \in 1..e : d[i] \in Message /\ s[i] \in Message
    BY <1>1, ElementOfSeq DEF Boards, Slots
  <2>2. /\ SubSeq(d, 1, e) \in Seq(Message) /\ SubSeq(s, 1, e) \in Seq(Message)
        /\ Len(SubSeq(d, 1, e)) = IF 1 <= e THEN e - 1 + 1 ELSE 0
        /\ Len(SubSeq(s, 1, e)) = IF 1 <= e THEN e - 1 + 1 ELSE 0
        /\ \A i \in 1..(e - 1 + 1) : SubSeq(d, 1, e)[i] = d[1 + i - 1]
        /\ \A i \in 1..(e - 1 + 1) : SubSeq(s, 1, e)[i] = s[1 + i - 1]
    BY <1>1, <2>1, SubSeqProperties
  <2>3. \A i \in 1..e : SubSeq(d, 1, e)[i] = d[i] /\ SubSeq(s, 1, e)[i] = s[i]
    BY <1>1, <2>2
  <2>4. Len(SubSeq(d, 1, e)) = e /\ Len(SubSeq(s, 1, e)) = e
    BY <1>1, <2>2
  <2>5. QED BY <1>4, <2>2, <2>3, <2>4, SeqEqual
<1>8. QED BY <1>2, <1>6, <1>7 DEF e

LEMMA InsertBoard ==
  ASSUME NEW d \in Boards, NEW m \in Message, CompactOne(d)
  PROVE  insertMessage(d, m) \in Boards /\ CompactOne(insertMessage(d, m))
<1>1. insertMessage(d, m) \in Boards
  BY DEF insertMessage, Boards
<1>2. CompactOne(insertMessage(d, m))
  <2> SUFFICES ASSUME NEW i \in Slots, NEW j \in Slots, i < j,
                      insertMessage(d, m)[i].userName = Empty
               PROVE insertMessage(d, m)[j].userName = Empty
    BY DEF CompactOne
  <2>1. d[i].userName = Empty
    BY DEF insertMessage
  <2>2. d[j].userName = Empty
    BY <2>1 DEF CompactOne
  <2>3. i \in 1..(j - 1)
    BY DEF Slots
  <2>4. insertMessage(d, m)[j] = d[j]
    BY <2>1, <2>3 DEF insertMessage
  <2>5. QED BY <2>2, <2>4
<1>3. QED BY <1>1, <1>2

LEMMA InsertKeeps ==
  ASSUME NEW d \in Boards, NEW m \in Message, NEW s \in Seq(Message), Keeps(d, s),
         NEW t, t = IF m.userName = Empty THEN s ELSE Append(s, m)
  PROVE  Keeps(insertMessage(d, m), t)
<1>1. Len(s) \in Nat
  BY LenProperties
<1>2. \A i \in Slots : d[i].userName = Empty <=> i > Len(s)
  BY <1>1 DEF Keeps, Slots
<1>3. \A i \in Slots : insertMessage(d, m)[i] = IF i = Len(s) + 1 THEN m ELSE d[i]
  <2> SUFFICES ASSUME NEW i \in Slots
               PROVE insertMessage(d, m)[i] = IF i = Len(s) + 1 THEN m ELSE d[i]
    OBVIOUS
  <2>1. i \in Nat /\ \A j \in 1..(i - 1) : j \in Slots
    BY DEF Slots
  <2>2. CASE i <= Len(s)
    BY <1>1, <1>2, <2>1, <2>2 DEF insertMessage
  <2>3. CASE i = Len(s) + 1
    BY <1>1, <1>2, <2>1, <2>3 DEF insertMessage
  <2>4. CASE i > Len(s) + 1
    <3>1. Len(s) + 1 \in 1..(i - 1) /\ Len(s) + 1 \in Slots
      BY <1>1, <2>1, <2>4 DEF Slots
    <3>2. d[Len(s) + 1].userName = Empty
      BY <1>1, <1>2, <3>1
    <3>3. QED BY <1>1, <2>1, <2>4, <3>1, <3>2 DEF insertMessage
  <2>5. QED BY <1>1, <2>1, <2>2, <2>3, <2>4
<1> DEFINE e == insertMessage(d, m)
<1> HIDE DEF e
<1>4. CASE m.userName = Empty
  BY <1>1, <1>2, <1>3, <1>4 DEF Keeps, Slots
<1>5. CASE m.userName # Empty
  <2>1. /\ Len(Append(s, m)) = Len(s) + 1 /\ Append(s, m)[Len(s) + 1] = m
        /\ \A j \in 1..Len(s) : Append(s, m)[j] = s[j]
    BY AppendProperties
  <2>2. \A j \in 1..(Len(s) + 1) : Append(s, m)[j].userName # Empty
    BY <1>1, <1>5, <2>1 DEF Keeps
  <2>3. \A j \in Slots : /\ j <= Len(s) + 1 => insertMessage(d, m)[j] = Append(s, m)[j]
                         /\ j > Len(s) + 1 => insertMessage(d, m)[j].userName = Empty
    BY <1>1, <1>2, <1>3, <2>1 DEF Keeps, Slots
  <2>4. QED BY <1>5, <2>1, <2>2, <2>3 DEF Keeps
<1>6. QED BY <1>4, <1>5

LEMMA DeleteBoard ==
  ASSUME NEW d \in Boards, NEW name, CompactOne(d)
  PROVE  deleteWithName(d, name) \in Boards /\ CompactOne(deleteWithName(d, name))
<1> DEFINE found == {i \in Slots : d[i].userName = name}
           index == IF found = {} THEN 1 ELSE CHOOSE i \in found : \A j \in found : i <= j
<1>1. index \in Slots
  <2>1. CASE found = {}
    BY <2>1 DEF Slots
  <2>2. CASE found # {}
    <3>1. \E x \in found : \A y \in found : x <= y
      BY <2>2, FirstSlot
    <3>2. index \in found
      BY <2>2, <3>1
    <3>3. QED BY <3>2
  <2>3. QED BY <2>1, <2>2
<1>2. deleteWithName(d, name) = [i \in Slots |-> IF i >= index /\ i < Size THEN d[i + 1] ELSE d[i]]
  BY DEF deleteWithName
<1> HIDE DEF index
<1> DEFINE e == [i \in Slots |-> IF i >= index /\ i < Size THEN d[i + 1] ELSE d[i]]
<1>3. e \in Boards
  <2>1. \A i \in Slots : i < Size => i + 1 \in Slots
    BY DEF Slots
  <2>2. QED BY <2>1 DEF Boards
<1>4. CompactOne(e)
  <2> SUFFICES ASSUME NEW i \in Slots, NEW j \in Slots, i < j, e[i].userName = Empty
               PROVE e[j].userName = Empty
    BY DEF CompactOne
  <2>1. i \in 1..Size /\ j \in 1..Size /\ i + 1 \in Slots /\ i < Size /\ index \in 1..Size
    BY <1>1 DEF Slots
  <2>2. CASE i < index
    <3>1. d[i].userName = Empty
      BY <2>1, <2>2
    <3>2. \A h \in Slots : h > i => d[h].userName = Empty
      BY <3>1 DEF CompactOne, Slots
    <3>3. \/ e[j] = d[j]
          \/ j + 1 \in Slots /\ e[j] = d[j + 1]
      BY <2>1 DEF Slots
    <3>4. QED BY <2>1, <3>2, <3>3
  <2>3. CASE i >= index
    <3>1. d[i + 1].userName = Empty
      BY <2>1, <2>3
    <3>2. \A h \in Slots : h >= i + 1 => d[h].userName = Empty
      BY <2>1, <3>1 DEF CompactOne, Slots
    <3>3. \/ e[j] = d[j]
          \/ j + 1 \in Slots /\ e[j] = d[j + 1]
      BY <2>1 DEF Slots
    <3>4. QED BY <2>1, <3>2, <3>3
  <2>4. QED BY <2>1, <2>2, <2>3
<1>5. QED BY <1>2, <1>3, <1>4

-----------------------------------------------------------------------------
(* The steps.                                                                *)

\* A step that gives process p the board d and the history s, b.
LEMMA NewBoard ==
  ASSUME BoardsInv, NEW p \in Procs, NEW d \in Boards, CompactOne(d),
         NEW s \in Seq(Message), NEW del \in BOOLEAN, del = FALSE => Keeps(d, s),
         data' = [data EXCEPT ![p] = d], stored' = [stored EXCEPT ![p] = s],
         deleted' = [deleted EXCEPT ![p] = del]
  PROVE  BoardsInv'
<1>1. /\ data' \in [Procs -> Boards] /\ stored' \in [Procs -> Seq(Message)]
      /\ deleted' \in [Procs -> BOOLEAN]
  BY DEF BoardsInv
<1>2. ASSUME NEW q \in Procs
      PROVE  CompactOne(data'[q]) /\ (~deleted'[q] => Keeps(data'[q], stored'[q]))
  <2>1. CASE q = p
    BY <2>1 DEF BoardsInv
  <2>2. CASE q # p
    BY <2>2 DEF BoardsInv
  <2>3. QED BY <2>1, <2>2
<1>3. QED BY <1>1, <1>2 DEF BoardsInv

LEMMA ClientStep ==
  ASSUME IInv, NEW c \in Clients, User(c)
  PROVE  IInv'
<1>1. UNCHANGED <<pst, data, stored, deleted>>
  BY DEF User, Connect, Post, Ask, AskDelete, Send, ReadResponse, Leave, Lost, hist, net
<1>2. BoardsInv'
  BY <1>1 DEF IInv, BoardsInv
<1>3. ASSUME NEW r \in Requests, request' = [request EXCEPT ![c] = r],
             cst' = [cst EXCEPT ![c] = "await"], sent[c] < MaxCommands[c],
             sent' = [sent EXCEPT ![c] = sent[c] + 1], UNCHANGED <<pst, response, closed>>
      PROVE  WiresInv'
  <2>1. /\ request' = [request EXCEPT ![c] = r] /\ cst' = [cst EXCEPT ![c] = "await"]
        /\ sent[c] < MaxCommands[c] /\ sent' = [sent EXCEPT ![c] = sent[c] + 1]
        /\ UNCHANGED <<pst, response, closed>>
    BY <1>3
  <2>2. request' \in [Clients -> Requests \cup {None}]
    BY <2>1 DEF IInv, WiresInv
  <2>3. cst' \in [Clients -> {"off", "menu", "await", "left"}]
    BY <2>1 DEF IInv, WiresInv
  <2>4. sent' \in [Clients -> Nat] /\ \A x \in Clients : sent'[x] <= MaxCommands[x]
    BY <2>1 DEF IInv, WiresInv
  <2>5. QED BY <2>1, <2>2, <2>3, <2>4 DEF IInv, WiresInv
<1>4. CASE \E line \in Lines : Post(c, line) \/ AskDelete(c, line)
  <2>1. PICK line \in Lines : Post(c, line) \/ AskDelete(c, line)
    BY <1>4
  <2>2. [userName |-> line, text |-> Junk] \in Message
    BY DEF Message
  <2>3. \A n \in 1..3 : [cod |-> n, msg |-> [userName |-> line, text |-> Junk]] \in Requests
    BY <2>2 DEF Requests
  <2>4. PICK r \in Requests : request' = [request EXCEPT ![c] = r]
    BY <2>1, <2>3 DEF Post, AskDelete, Send
  <2>5. QED BY <1>2, <1>3, <2>1, <2>4 DEF Post, AskDelete, Send, IInv
<1>5. CASE Ask(c)
  <2>1. Blank \in Message
    BY DEF Blank, Message
  <2>2. [cod |-> 2, msg |-> Blank] \in Requests
    BY <2>1 DEF Requests
  <2>3. PICK r \in Requests : request' = [request EXCEPT ![c] = r]
    BY <1>5, <2>2 DEF Ask, Send
  <2>4. QED BY <1>2, <1>3, <1>5, <2>3 DEF Ask, Send, IInv
<1>6. CASE Connect(c) \/ Lost(c)
  <2>1. /\ \E x \in {"menu", "left"} : cst' = [cst EXCEPT ![c] = x]
        /\ UNCHANGED <<pst, request, response, closed, sent>>
    BY <1>6 DEF Connect, Lost, net
  <2>2. cst' \in [Clients -> {"off", "menu", "await", "left"}]
    BY <2>1 DEF IInv, WiresInv
  <2>3. QED BY <1>2, <2>1, <2>2 DEF IInv, WiresInv
<1>7. CASE ReadResponse(c) \/ Leave(c)
  <2>1. /\ response' = [response EXCEPT ![c] = None]
        /\ \E x \in {"menu", "left"} : cst' = [cst EXCEPT ![c] = x]
        /\ closed' = closed \/ closed' = [closed EXCEPT ![c] = "client"]
        /\ UNCHANGED <<pst, request, sent>>
    BY <1>7 DEF ReadResponse, Leave
  <2>2. closed' \in [Clients -> {"no", "client", "server"}]
    BY <2>1 DEF IInv, WiresInv
  <2>3. response' \in [Clients -> Answers \cup {None}]
    BY <2>1 DEF IInv, WiresInv
  <2>4. cst' \in [Clients -> {"off", "menu", "await", "left"}]
    BY <2>1 DEF IInv, WiresInv
  <2>5. QED BY <1>2, <2>1, <2>2, <2>3, <2>4 DEF IInv, WiresInv
<1>8. QED BY <1>2, <1>4, <1>5, <1>6, <1>7 DEF IInv, User

LEMMA RespondWires ==
  ASSUME WiresInv, NEW c \in Clients, NEW l \in Seq(Message), Len(l) <= Size, Respond(c, l)
  PROVE  WiresInv'
<1>1. [error |-> 0, data |-> l] \in Answers
  BY DEF Answers
<1>2. response' \in [Clients -> Answers \cup {None}]
  BY <1>1 DEF Respond, WiresInv
<1>3. request' \in [Clients -> Requests \cup {None}]
  BY DEF Respond, WiresInv
<1>4. QED BY <1>2, <1>3 DEF Respond, WiresInv

LEMMA ServeStep ==
  ASSUME IInv, NEW c \in Clients, Process(c)
  PROVE  IInv'
<1>1. /\ c \in Procs /\ data[c] \in Boards /\ CompactOne(data[c]) /\ stored[c] \in Seq(Message)
      /\ deleted[c] \in BOOLEAN /\ ~deleted[c] => Keeps(data[c], stored[c])
      /\ data = [data EXCEPT ![c] = data[c]] /\ stored = [stored EXCEPT ![c] = stored[c]]
      /\ deleted = [deleted EXCEPT ![c] = deleted[c]]
  BY DEF IInv, BoardsInv, Procs
<1>2. request[c] # None => request[c].msg \in Message
  BY DEF IInv, WiresInv, Requests
<1>3. << >> \in Seq(Message) /\ Len(<< >>) <= Size
  BY EmptySeq
<1>4. CASE Insert(c)
  <2> DEFINE m == request[c].msg
             d == insertMessage(data[c], m)
             s == IF m.userName = Empty THEN stored[c] ELSE Append(stored[c], m)
  <2>1. m \in Message
    BY <1>2, <1>4 DEF Insert, Serving
  <2>2. d \in Boards /\ CompactOne(d) /\ s \in Seq(Message)
    BY <1>1, <2>1, InsertBoard, AppendProperties
  <2>3. deleted[c] = FALSE => Keeps(d, s)
    <3> SUFFICES ASSUME deleted[c] = FALSE PROVE Keeps(d, s)
      OBVIOUS
    <3>1. s = IF m.userName = Empty THEN stored[c] ELSE Append(stored[c], m)
      OBVIOUS
    <3>2. Keeps(data[c], stored[c])
      BY <1>1
    <3> HIDE DEF m, s
    <3>3. Keeps(insertMessage(data[c], m), s)
      BY <1>1, <2>1, <3>1, <3>2, InsertKeeps
    <3>4. QED BY <3>3
  <2>4. /\ data' = [data EXCEPT ![c] = d] /\ stored' = [stored EXCEPT ![c] = s]
        /\ deleted' = [deleted EXCEPT ![c] = deleted[c]]
    BY <1>1, <1>4 DEF Insert
  <2> HIDE DEF d, s
  <2>5. BoardsInv'
    <3>1. BoardsInv /\ c \in Procs /\ deleted[c] \in BOOLEAN
      BY DEF IInv, BoardsInv, Procs
    <3> DEFINE del == deleted[c]
    <3>2. /\ del \in BOOLEAN /\ (del = FALSE => Keeps(d, s))
          /\ deleted' = [deleted EXCEPT ![c] = del]
      BY <2>3, <2>4, <3>1
    <3> HIDE DEF del
    <3>3. QED BY <2>2, <2>4, <3>1, <3>2, NewBoard
  <2>6. QED BY <1>3, <1>4, <2>5, RespondWires DEF Insert, IInv
<1>5. CASE List(c)
  <2>1. BoardsInv'
    BY <1>5 DEF List, IInv, BoardsInv
  <2>2. Listing(data[c]) \in Seq(Message) /\ Len(Listing(data[c])) <= Size
    BY <1>1, ListingType
  <2>3. QED BY <1>5, <2>1, <2>2, RespondWires DEF List, IInv
<1>6. CASE Delete(c)
  <2> DEFINE d == deleteWithName(data[c], request[c].msg.userName)
  <2>1. d \in Boards /\ CompactOne(d)
    BY <1>1, DeleteBoard
  <2>2. data' = [data EXCEPT ![c] = d] /\ stored' = stored /\ deleted' = [deleted EXCEPT ![c] = TRUE]
    BY <1>6 DEF Delete
  <2> HIDE DEF d
  <2>3. BoardsInv'
    BY <1>1, <2>1, <2>2, NewBoard DEF IInv
  <2>4. QED BY <1>3, <1>6, <2>3, RespondWires DEF Delete, IInv
<1>7. CASE Hangup(c)
  <2>1. BoardsInv'
    BY <1>7 DEF Hangup, IInv, BoardsInv, hist
  <2>2. pst' \in [Procs -> {"none", "accept", "serve", "exited"}]
    BY <1>7 DEF Hangup, IInv, WiresInv
  <2>3. WiresInv'
    BY <1>7, <2>2 DEF Hangup, IInv, WiresInv, net
  <2>4. QED BY <2>1, <2>3 DEF IInv
<1>8. QED BY <1>4, <1>5, <1>6, <1>7 DEF Process

LEMMA ForkStep ==
  ASSUME IInv, NEW c \in Clients, NEW p \in Procs, Accept(p, c) \/ AcceptFails(p, c)
  PROVE  IInv'
<1>1. c \in Procs
  BY DEF Procs
<1>2. CASE Accept(p, c)
  <2>1. /\ data[p] \in Boards /\ CompactOne(data[p]) /\ stored[p] \in Seq(Message)
        /\ deleted[p] \in BOOLEAN /\ (~deleted[p] => Keeps(data[p], stored[p]))
    BY DEF IInv, BoardsInv
  <2>2. BoardsInv'
    BY <1>1, <1>2, <2>1, NewBoard DEF Accept, IInv
  <2>3. pst' \in [Procs -> {"none", "accept", "serve", "exited"}]
    BY <1>2 DEF Accept, IInv, WiresInv
  <2>4. WiresInv'
    BY <1>2, <2>3 DEF Accept, IInv, WiresInv, net
  <2>5. QED BY <2>2, <2>4 DEF IInv
<1>3. CASE AcceptFails(p, c)
  <2>1. BoardsInv'
    BY <1>3 DEF AcceptFails, IInv, BoardsInv, hist
  <2>2. /\ pst' \in [Procs -> {"none", "accept", "serve", "exited"}]
        /\ closed' \in [Clients -> {"no", "client", "server"}]
    BY <1>3 DEF AcceptFails, IInv, WiresInv
  <2>3. WiresInv'
    BY <1>3, <2>2 DEF AcceptFails, IInv, WiresInv
  <2>4. QED BY <2>1, <2>3 DEF IInv
<1>4. QED BY <1>2, <1>3

LEMMA ForkInit == Init => IInv
<1> SUFFICES ASSUME Init PROVE IInv
  OBVIOUS
<1>1. BoardsInv
  <2> DEFINE blanks == [i \in Slots |-> Blank]
  <2>1. blanks \in Boards
    BY DEF Boards, Blank, Message
  <2>2. CompactOne(blanks)
    BY DEF CompactOne, Blank
  <2>3. << >> \in Seq(Message) /\ Len(<< >>) = 0
    BY EmptySeq
  <2>4. Keeps(blanks, << >>)
    BY <2>3 DEF Keeps, Blank, Slots
  <2> HIDE DEF blanks
  <2>5. data = [p \in Procs |-> blanks]
    BY DEF Init, blanks
  <2>6. QED BY <2>1, <2>2, <2>3, <2>4, <2>5 DEF Init, BoardsInv
<1>2. WiresInv
  BY DEF Init, WiresInv
<1>3. QED BY <1>1, <1>2 DEF IInv

LEMMA ForkNext ==
  ASSUME IInv, [Next]_vars
  PROVE  IInv'
<1>1. CASE UNCHANGED vars
  <2>1. UNCHANGED <<pst, data, request, response, closed, cst, sent, stored, deleted>>
    BY <1>1 DEF vars, net, hist
  <2>2. QED BY <2>1 DEF IInv, BoardsInv, WiresInv
<1>2. QED BY <1>1, ClientStep, ServeStep, ForkStep DEF Next

\* Whatever is inserted and deleted in whichever process, no message lies
\* where a listing does not show it; and until something is deleted a process
\* lists what it and those before it were sent, up to the size of the board.
THEOREM NothingIsHidden == Spec => []NothingHidden
<1>1. IInv => NothingHidden
  <2> SUFFICES ASSUME IInv PROVE NothingHidden
    OBVIOUS
  <2>1. TypeOK
    <3>1. data \in [Procs -> [Slots -> Message]]
      BY DEF IInv, BoardsInv, Boards
    <3>2. \A c \in Clients : request[c] # None => request[c].cod \in 1..3
      BY DEF IInv, WiresInv, Requests
    <3>3. \A c \in Clients : response[c] # None => Len(response[c].data) <= Size
      BY DEF IInv, WiresInv, Answers
    <3>4. \A c \in Clients : sent[c] \in 0..MaxCommands[c]
      BY DEF IInv, WiresInv
    <3>5. QED BY <3>1, <3>2, <3>3, <3>4 DEF IInv, BoardsInv, WiresInv, TypeOK
  <2>2. Compact
    BY DEF IInv, BoardsInv, CompactOne, Compact
  <2>3. BoardIsHistory
    BY ListingOfKept DEF IInv, BoardsInv, BoardIsHistory
  <2>4. QED BY <2>1, <2>2, <2>3 DEF NothingHidden
<1>2. QED BY <1>1, ForkInit, ForkNext, PTL DEF Spec

-----------------------------------------------------------------------------
(* The second board (neves): until a request is served a second time, a       *)
(* client has one answer under way at most, that to its last request, and     *)
(* none when it chooses the next one.                                         *)

NevesTypes ==
  /\ served \in [Clients -> BOOLEAN] /\ stale \in BOOLEAN
  /\ pedido \in [Clients -> Neves!Pedidos \cup {None}]
  /\ lugar \in [Clients -> {"menu", "wait", "gone"}]
  /\ respostas = [c \in Clients |-> respostas[c]] /\ resposta = [c \in Clients |-> resposta[c]]
  /\ pedidos \in Seq([de : Clients, r : Neves!Pedidos])

OneAtATime ==
  ~stale => \A c \in Clients :
    /\ respostas[c] # << >> => served[c] /\ respostas[c] = <<respostas[c][1]>>
    /\ lugar[c] = "menu" => respostas[c] = << >> /\ (served[c] \/ pedido[c] = None)

NevesInv == NevesTypes /\ OneAtATime

\* One step of the board that the clients see, or none.
Abstract == stale' \/ Neves!MB!Next \/ UNCHANGED <<Neves!MB!vars, stale>>

\* A sequence without one of its elements.
LEMMA SeqWithout ==
  ASSUME NEW S, NEW s \in Seq(S), NEW j \in 1..Len(s)
  PROVE  RemoveAt(s, j) \in Seq(S)
<1> DEFINE front == SubSeq(s, 1, j - 1)
           back  == SubSeq(s, j + 1, Len(s))
<1>1. front \in Seq(S) /\ back \in Seq(S)
  <2>1. \A n \in 1..(j - 1) : n \in 1..Len(s)
    BY LenProperties
  <2>2. \A n \in (j + 1)..Len(s) : n \in 1..Len(s)
    BY LenProperties
  <2>3. Len(s) \in Nat /\ \A n \in 1..Len(s) : s[n] \in S
    BY LenProperties, ElementOfSeq
  <2>4. QED BY <2>1, <2>2, <2>3, SubSeqProperties
<1>2. QED BY <1>1, ConcatProperties DEF RemoveAt

\* The only element is taken.
LEMMA LastTaken ==
  ASSUME NEW x, NEW j \in DOMAIN <<x>>
  PROVE  j = 1 /\ RemoveAt(<<x>>, j) = << >>
<1>1. j = 1
  OBVIOUS
<1>2. SubSeq(<<x>>, 1, 0) = << >> /\ SubSeq(<<x>>, 2, 1) = << >>
  OBVIOUS
<1>3. QED BY <1>1, <1>2 DEF RemoveAt

(* The steps. *)
LEMMA NevesStart ==
  ASSUME Neves!Init
  PROVE  NevesInv /\ Neves!MB!Init
<1>1. NevesTypes
  <2>1. /\ served = [c \in Clients |-> FALSE] /\ stale = FALSE
        /\ pedido = [c \in Clients |-> None] /\ lugar = [c \in Clients |-> "menu"]
        /\ respostas = [c \in Clients |-> << >>] /\ resposta = [c \in Clients |-> None]
        /\ pedidos = << >>
    BY DEF Neves!Init
  <2>2. pedidos \in Seq([de : Clients, r : Neves!Pedidos])
    BY <2>1, EmptySeq
  <2>3. /\ respostas = [c \in Clients |-> respostas[c]]
        /\ resposta = [c \in Clients |-> resposta[c]]
    BY <2>1
  <2>4. QED BY <2>1, <2>2, <2>3 DEF NevesTypes
<1>2. OneAtATime
  BY DEF Neves!Init, OneAtATime
<1>3. Neves!MB!Init
  BY DEF Neves!Init, Neves!MB!Init
<1>4. QED BY <1>1, <1>2, <1>3 DEF NevesInv

LEMMA NevesAsk ==
  ASSUME NevesInv, NEW c \in Clients, NEW r \in Neves!Pedidos, Neves!Ask(c, r)
  PROVE  NevesInv' /\ Abstract
<1>1. NevesTypes'
  <2>1. pedidos' \in Seq([de : Clients, r : Neves!Pedidos])
    <3>1. [de |-> c, r |-> r] \in [de : Clients, r : Neves!Pedidos]
      OBVIOUS
    <3>2. QED BY <3>1, AppendProperties DEF NevesInv, NevesTypes, Neves!Ask
  <2>2. QED BY <2>1 DEF NevesInv, NevesTypes, Neves!Ask
<1>2. OneAtATime'
  BY DEF NevesInv, NevesTypes, OneAtATime, Neves!Ask
<1>3. ASSUME ~stale'
      PROVE  Neves!MB!Ask(c, r)
  <2>1. lugar[c] = "menu" /\ ~stale
    BY <1>3 DEF Neves!Ask
  <2>2. respostas[c] = << >> /\ (served[c] \/ pedido[c] = None)
    BY <2>1 DEF NevesInv, OneAtATime
  <2>3. UNCHANGED <<vetor_mensagens, respostas, resposta>>
    BY DEF Neves!Ask
  <2>4. served' = [served EXCEPT ![c] = FALSE] /\ pedido' = [pedido EXCEPT ![c] = r]
    BY DEF Neves!Ask
  <2>5. r # None
    BY BoardsAssumption DEF Neves!StructBoardAssumption
  <2>6. QED BY <2>2, <2>3, <2>4 DEF Neves!MB!Ask, NevesInv, NevesTypes
<1>4. r \in Neves!MB!Command(Texto, Usuario)
  BY DEF Neves!Pedidos, Neves!Pedido, Neves!MB!Command
<1>5. QED BY <1>1, <1>2, <1>3, <1>4 DEF Abstract, NevesInv, Neves!MB!Next

\* Requests or answers that get lost, are doubled or find no reader.
LEMMA NevesWires ==
  ASSUME NevesInv, UNCHANGED <<vetor_mensagens, served, stale, pedido, lugar, resposta, respostas>>,
         pedidos' \in Seq([de : Clients, r : Neves!Pedidos])
  PROVE  NevesInv' /\ Abstract
<1>1. NevesInv'
  BY DEF NevesInv, NevesTypes, OneAtATime
<1>2. UNCHANGED <<Neves!MB!vars, stale>>
  BY DEF Neves!MB!vars
<1>3. QED BY <1>1, <1>2 DEF Abstract

\* A client takes its answer away, or the network does.
LEMMA NevesTaken ==
  ASSUME NevesInv, NEW c \in Clients, NEW j \in DOMAIN respostas[c],
         respostas' = [respostas EXCEPT ![c] = RemoveAt(respostas[c], j)],
         UNCHANGED <<vetor_mensagens, served, stale, pedido, pedidos>>,
         \/ resposta' = [resposta EXCEPT ![c] = respostas[c][j].a]
         \/ UNCHANGED resposta,
         \/ lugar[c] = "wait" /\ lugar' = [lugar EXCEPT ![c] = "menu"]
         \/ UNCHANGED lugar
  PROVE  NevesInv' /\ Abstract
<1>1. NevesTypes'
  BY DEF NevesInv, NevesTypes
<1>2. CASE stale
  BY <1>1, <1>2 DEF NevesInv, OneAtATime, Abstract
<1>3. CASE ~stale
  <2>1. served[c] /\ respostas[c] = <<respostas[c][1]>>
    <3>1. respostas[c] # << >>
      OBVIOUS
    <3>2. QED BY <1>3, <3>1 DEF NevesInv, OneAtATime
  <2>2. j = 1 /\ RemoveAt(respostas[c], j) = << >>
    <3> DEFINE one == respostas[c][1]
    <3>1. respostas[c] = <<one>> /\ j \in DOMAIN <<one>>
      BY <2>1
    <3> HIDE DEF one
    <3>2. QED BY <3>1, LastTaken
  <2>3. respostas' = [respostas EXCEPT ![c] = << >>]
    BY <2>2
  <2>4. OneAtATime'
    BY <1>3, <2>1, <2>3 DEF NevesInv, NevesTypes, OneAtATime
  <2>5. Neves!MB!Next \/ UNCHANGED <<Neves!MB!vars, stale>>
    <3> DEFINE x == respostas[c][1].a
    <3>1. respostas[c] # << >> /\ respostas'[c] = << >>
      BY <2>1, <2>3 DEF NevesInv, NevesTypes
    <3>2. \A d \in Clients : d # c => respostas'[d] = respostas[d]
      BY <2>3 DEF NevesInv, NevesTypes
    <3>3. resposta' = [resposta EXCEPT ![c] = x] \/ UNCHANGED resposta
      BY <2>2
    <3> HIDE DEF x
    <3>4. CASE x # None
      <4>1. Neves!MB!Give(c)
        BY <2>1, <3>1, <3>2, <3>3, <3>4 DEF Neves!MB!Give, NevesInv, NevesTypes, x
      <4>2. QED BY <4>1 DEF Neves!MB!Next
    <3>5. CASE x = None
      <4>1. UNCHANGED [d \in Clients |-> IF served[d] /\ respostas[d] # << >> THEN respostas[d][1].a ELSE None]
        BY <2>1, <3>1, <3>2, <3>5 DEF x
      <4>2. UNCHANGED [d \in Clients |-> IF served[d] THEN None ELSE pedido[d]]
        OBVIOUS
      <4>3. CASE UNCHANGED resposta
        BY <4>1, <4>2, <4>3 DEF Neves!MB!vars
      <4>4. CASE resposta' = [resposta EXCEPT ![c] = x] /\ resposta[c] = None
        <5>1. UNCHANGED resposta
          BY <3>5, <4>4 DEF NevesInv, NevesTypes
        <5>2. QED BY <4>3, <5>1
      <4>5. CASE resposta' = [resposta EXCEPT ![c] = x] /\ resposta[c] # None
        <5>1. Neves!MB!Take(c)
          BY <3>5, <4>1, <4>2, <4>5 DEF Neves!MB!Take
        <5>2. QED BY <5>1 DEF Neves!MB!Next
      <4>6. QED BY <3>3, <4>3, <4>4, <4>5
    <3>6. QED BY <3>4, <3>5
  <2>6. QED BY <1>1, <2>4, <2>5 DEF Abstract, NevesInv
<1>4. QED BY <1>2, <1>3

\* The loop runs once, for request r of client c, and answers x.
LEMMA NevesServed ==
  ASSUME NevesInv, NEW c \in Clients, NEW r \in Neves!Pedidos, NEW x,
         Neves!Handle(r, x), pedidos' \in Seq([de : Clients, r : Neves!Pedidos]),
         respostas' = [respostas EXCEPT ![c] = Append(respostas[c], [to |-> r, a |-> x])],
         stale' = (stale \/ served[c] \/ r # pedido[c]),
         served' = [served EXCEPT ![c] = TRUE],
         UNCHANGED <<lugar, pedido, resposta>>
  PROVE  NevesInv' /\ Abstract
<1>1. NevesTypes'
  <2>1. stale' \in BOOLEAN
    OBVIOUS
  <2>2. QED BY <2>1 DEF NevesInv, NevesTypes
<1>2. CASE stale'
  BY <1>1, <1>2 DEF NevesInv, OneAtATime, Abstract
<1>3. CASE ~stale'
  <2>1. ~stale /\ ~served[c] /\ r = pedido[c]
    BY <1>3
  <2>2. r # None
    BY BoardsAssumption DEF Neves!StructBoardAssumption
  <2>3. respostas[c] = << >> /\ lugar[c] # "menu"
    BY <2>1, <2>2 DEF NevesInv, OneAtATime
  <2>4. respostas' = [respostas EXCEPT ![c] = <<[to |-> r, a |-> x]>>]
    BY <2>3
  <2>5. OneAtATime'
    BY <2>1, <2>3, <2>4 DEF NevesInv, NevesTypes, OneAtATime
  <2>6. /\ [d \in Clients |-> IF served[d] THEN None ELSE pedido[d]][c] # None
        /\ [d \in Clients |-> IF served'[d] THEN None ELSE pedido'[d]]
             = [[d \in Clients |-> IF served[d] THEN None ELSE pedido[d]] EXCEPT ![c] = None]
        /\ [d \in Clients |-> IF served'[d] /\ respostas'[d] # << >> THEN respostas'[d][1].a ELSE None]
             = [[d \in Clients |-> IF served[d] /\ respostas[d] # << >> THEN respostas[d][1].a ELSE None]
                  EXCEPT ![c] = x]
        /\ UNCHANGED resposta
    <3>1. /\ respostas'[c] # << >> /\ respostas'[c][1].a = x
          /\ \A d \in Clients : d # c => respostas'[d] = respostas[d]
      <4> DEFINE one == [to |-> r, a |-> x]
      <4>1. one.a = x /\ <<one>> # << >> /\ <<one>>[1] = one
        OBVIOUS
      <4> HIDE DEF one
      <4>2. respostas = [d \in Clients |-> respostas[d]]
        BY DEF NevesInv, NevesTypes
      <4>3. /\ respostas'[c] = <<one>>
            /\ \A d \in Clients : d # c => respostas'[d] = respostas[d]
        BY <2>4, <4>2 DEF one
      <4>4. QED BY <4>1, <4>3
    <3>2. [d \in Clients |-> IF served[d] THEN None ELSE pedido[d]][c] # None
      BY <2>1, <2>2
    <3>3. [d \in Clients |-> IF served'[d] THEN None ELSE pedido'[d]]
            = [[d \in Clients |-> IF served[d] THEN None ELSE pedido[d]] EXCEPT ![c] = None]
      BY DEF NevesInv, NevesTypes
    <3>4. [d \in Clients |-> IF served'[d] /\ respostas'[d] # << >> THEN respostas'[d][1].a ELSE None]
            = [[d \in Clients |-> IF served[d] /\ respostas[d] # << >> THEN respostas[d][1].a ELSE None]
                 EXCEPT ![c] = x]
      BY <3>1 DEF NevesInv, NevesTypes
    <3>5. QED BY <3>2, <3>3, <3>4
  <2>7. [d \in Clients |-> IF served[d] THEN None ELSE pedido[d]][c] = r
    BY <2>1
  <2>8. [d \in Clients |-> IF served[d] THEN None ELSE pedido[d]][c].op = r.op
    BY <2>7
  <2>9. \A ms : Neves!MB!Listing(ms) = Neves!Listing(ms)
    BY Zenon DEF Neves!MB!Listing, Neves!Listing
  <2>10. Neves!MB!Post(c) \/ Neves!MB!Read(c) \/ Neves!MB!Delete(c)
    <3>1. CASE r.op = "cadastrar" /\ Len(vetor_mensagens) < MCSize
      <4>1. x = Neves!Answer("ack") /\ vetor_mensagens' = Append(vetor_mensagens, r.arg)
        BY <3>1 DEF Neves!Handle
      <4>2. QED BY <2>6, <2>7, <3>1, <4>1 DEF Neves!MB!Post, Neves!MB!Settle, Neves!MB!Answer, Neves!Answer
    <3>2. CASE r.op = "cadastrar" /\ ~(Len(vetor_mensagens) < MCSize)
      <4>1. x = Neves!Answer("erro") /\ UNCHANGED vetor_mensagens
        BY <3>2 DEF Neves!Handle
      <4>2. QED BY <2>6, <2>7, <3>2, <4>1 DEF Neves!MB!Post, Neves!MB!Settle, Neves!MB!Answer, Neves!Answer
    <3>3. CASE r.op = "ler"
      <4>1. x = Neves!MB!Listing(vetor_mensagens) /\ UNCHANGED vetor_mensagens
        BY <2>9, <3>3 DEF Neves!Handle
      <4>2. QED BY <2>6, <2>8, <3>3, <4>1 DEF Neves!MB!Read, Neves!MB!Settle
    <3>4. CASE r.op = "apagar"
      <4>1. x = Neves!Listing(Neves!Do(r.arg)) /\ vetor_mensagens' = Neves!Outros(r.arg)
        BY <3>4 DEF Neves!Handle
      <4>2. /\ Neves!Do(r.arg) = Neves!MB!Of(r.arg, vetor_mensagens)
            /\ Neves!Outros(r.arg) = Neves!MB!NotOf(r.arg, vetor_mensagens)
        BY DEF Neves!Do, Neves!Outros, Neves!MB!Of, Neves!MB!NotOf, Neves!Selected, Neves!MB!Selected
      <4>3. /\ x = Neves!MB!Listing(Neves!MB!Of(r.arg, vetor_mensagens))
            /\ vetor_mensagens' = Neves!MB!NotOf(r.arg, vetor_mensagens)
        BY <2>9, <4>1, <4>2
      <4>4. QED BY <2>6, <2>7, <3>4, <4>3 DEF Neves!MB!Delete, Neves!MB!Settle
    <3>5. QED BY <3>1, <3>2, <3>3, <3>4 DEF Neves!Handle
  <2>11. Neves!MB!Next
    <3>1. [d \in Clients |-> IF served[d] THEN None ELSE pedido[d]][c] # None
      BY <2>2, <2>7
    <3>2. QED BY <2>10, <3>1, Zenon DEF Neves!MB!Next
  <2>12. QED BY <1>1, <2>5, <2>11 DEF Abstract, NevesInv
<1>4. QED BY <1>2, <1>3

LEMMA NevesStep ==
  ASSUME NevesInv, Neves!Next
  PROVE  NevesInv' /\ Abstract
<1> DEFINE wired == [de : Clients, r : Neves!Pedidos]
<1>1. /\ pedidos \in Seq(wired)
      /\ \A j \in DOMAIN pedidos : /\ RemoveAt(pedidos, j) \in Seq(wired) /\ pedidos[j] \in wired
                                   /\ Append(pedidos, pedidos[j]) \in Seq(wired)
  <2>1. pedidos \in Seq(wired)
    BY DEF NevesInv, NevesTypes
  <2> SUFFICES ASSUME NEW j \in DOMAIN pedidos
               PROVE  /\ RemoveAt(pedidos, j) \in Seq(wired) /\ pedidos[j] \in wired
                      /\ Append(pedidos, pedidos[j]) \in Seq(wired)
    BY <2>1
  <2> HIDE DEF wired
  <2>2. j \in 1..Len(pedidos)
    BY <2>1, LenProperties
  <2>3. pedidos[j] \in wired
    BY <2>1, <2>2, ElementOfSeq
  <2>4. QED BY <2>1, <2>2, <2>3, SeqWithout, AppendProperties
<1>2. CASE Neves!Serve
  <2>1. PICK j \in DOMAIN pedidos :
          /\ pedidos' = RemoveAt(pedidos, j)
          /\ \E x \in Neves!Answers(pedidos[j].r) :
               /\ Neves!Handle(pedidos[j].r, x)
               /\ respostas' = [respostas EXCEPT ![pedidos[j].de] = Append(@, [to |-> pedidos[j].r, a |-> x])]
          /\ stale' = (stale \/ served[pedidos[j].de] \/ pedidos[j].r # pedido[pedidos[j].de])
          /\ served' = [served EXCEPT ![pedidos[j].de] = TRUE]
    BY <1>2 DEF Neves!Serve, Neves!RemoveAt, RemoveAt
  <2>2. PICK x : /\ Neves!Handle(pedidos[j].r, x)
                 /\ respostas' = [respostas EXCEPT ![pedidos[j].de]
                                    = Append(respostas[pedidos[j].de], [to |-> pedidos[j].r, a |-> x])]
    BY <2>1
  <2>3. PICK c \in Clients : c = pedidos[j].de
    BY <1>1
  <2>4. PICK r \in Neves!Pedidos : r = pedidos[j].r
    BY <1>1
  <2>5. pedidos' \in Seq(wired)
    BY <1>1, <2>1
  <2>6. UNCHANGED <<lugar, pedido, resposta>>
    BY <1>2 DEF Neves!Serve, Neves!users
  <2>7. Neves!Handle(r, x)
    BY <2>2, <2>4 DEF Neves!Handle
  <2>8. /\ respostas' = [respostas EXCEPT ![c] = Append(respostas[c], [to |-> r, a |-> x])]
        /\ stale' = (stale \/ served[c] \/ r # pedido[c])
        /\ served' = [served EXCEPT ![c] = TRUE]
    BY <2>1, <2>2, <2>3, <2>4
  <2>9. QED BY <2>5, <2>6, <2>7, <2>8, NevesServed
<1>3. CASE Neves!ServeAgain
  <2>1. UNCHANGED <<served, pedidos, respostas, lugar, pedido, resposta>>
    BY <1>3 DEF Neves!ServeAgain, Neves!users
  <2>2. CASE stale' = TRUE
    BY <2>1, <2>2 DEF Abstract, NevesInv, NevesTypes, OneAtATime
  <2>3. CASE UNCHANGED <<vetor_mensagens, stale>>
    BY <1>1, <2>1, <2>3, NevesWires
  <2>4. QED BY <1>3, <2>2, <2>3 DEF Neves!ServeAgain
<1>4. CASE Neves!Lose
  <2>1. UNCHANGED <<vetor_mensagens, served, stale, pedido, lugar, resposta>>
    BY <1>4 DEF Neves!Lose, Neves!users, Neves!state
  <2>2. CASE \E j \in DOMAIN pedidos : pedidos' = RemoveAt(pedidos, j) /\ UNCHANGED respostas
    BY <1>1, <2>1, <2>2, NevesWires
  <2>3. CASE \E c \in Clients : \E j \in DOMAIN respostas[c] :
               respostas' = [respostas EXCEPT ![c] = RemoveAt(@, j)] /\ UNCHANGED pedidos
    <3>1. PICK c \in Clients : \E j \in DOMAIN respostas[c] :
                 /\ respostas' = [respostas EXCEPT ![c] = RemoveAt(respostas[c], j)]
                 /\ UNCHANGED pedidos
      BY <2>3
    <3>2. PICK j \in DOMAIN respostas[c] :
                 /\ respostas' = [respostas EXCEPT ![c] = RemoveAt(respostas[c], j)]
                 /\ UNCHANGED pedidos
      BY <3>1
    <3>3. QED BY <2>1, <3>2, NevesTaken
  <2>4. QED BY <1>4, <2>2, <2>3 DEF Neves!Lose, Neves!RemoveAt, RemoveAt
<1>5. CASE Neves!Duplicate
  <2>1. UNCHANGED <<vetor_mensagens, served, stale, pedido, lugar, resposta, respostas>>
    BY <1>5 DEF Neves!Duplicate, Neves!users, Neves!state
  <2>2. pedidos' \in Seq(wired)
    BY <1>1, <1>5 DEF Neves!Duplicate
  <2>3. QED BY <2>1, <2>2, NevesWires
<1>6. ASSUME NEW c \in Clients, Neves!Cadastrar(c) \/ Neves!Ler(c) \/ Neves!Apagar(c)
      PROVE  NevesInv' /\ Abstract
  <2>1. PICK r \in Neves!Pedidos : Neves!Ask(c, r)
    BY <1>6 DEF Neves!Cadastrar, Neves!Ler, Neves!Apagar, Neves!Pedidos
  <2>2. QED BY <2>1, NevesAsk
<1>7. ASSUME NEW c \in Clients, Neves!Sair(c)
      PROVE  NevesInv' /\ Abstract
  <2>1. /\ UNCHANGED <<vetor_mensagens, served, stale, pedido, resposta, respostas, pedidos>>
        /\ lugar' = [lugar EXCEPT ![c] = "gone"]
    BY <1>7 DEF Neves!Sair
  <2>2. NevesInv'
    BY <2>1 DEF NevesInv, NevesTypes, OneAtATime
  <2>3. UNCHANGED <<Neves!MB!vars, stale>>
    BY <2>1 DEF Neves!MB!vars
  <2>4. QED BY <2>2, <2>3 DEF Abstract
<1>8. ASSUME NEW c \in Clients, Neves!Receber(c)
      PROVE  NevesInv' /\ Abstract
  <2>1. PICK j \in DOMAIN respostas[c] :
          /\ resposta' = [resposta EXCEPT ![c] = respostas[c][j].a]
          /\ respostas' = [respostas EXCEPT ![c] = RemoveAt(respostas[c], j)]
    BY <1>8 DEF Neves!Receber, Neves!RemoveAt, RemoveAt
  <2>2. /\ lugar[c] = "wait" /\ lugar' = [lugar EXCEPT ![c] = "menu"]
        /\ UNCHANGED <<vetor_mensagens, served, stale, pedido, pedidos>>
    BY <1>8 DEF Neves!Receber, Neves!state
  <2>3. QED BY <2>1, <2>2, NevesTaken
<1>9. QED BY <1>2, <1>3, <1>4, <1>5, <1>6, <1>7, <1>8 DEF Neves!Next

\* The second board serves every request at one instant, for any number of
\* clients, texts and requests and any size of the board.
THEOREM NevesIsABoard == BoardsSpec => NevesImplementsBoard
<1>1. BoardsInit => NevesInv /\ Neves!MB!Init
  BY NevesStart DEF BoardsInit
<1>2. ASSUME NevesInv, [BoardsNext]_<<vars, basicVars, nevesVars, program>>
      PROVE  NevesInv' /\ Abstract
  <2>1. CASE Neves!Next
    BY <1>2, <2>1, NevesStep
  <2>2. CASE UNCHANGED nevesVars
    <3>1. UNCHANGED <<vetor_mensagens, served, stale, pedido, lugar, resposta, respostas, pedidos>>
      BY <2>2 DEF nevesVars
    <3>2. QED BY <1>2, <3>1, NevesWires DEF NevesInv, NevesTypes
  <2>3. QED BY <1>2, <2>1, <2>2 DEF BoardsNext
<1>3. Abstract => [stale' \/ Neves!MB!Next]_<<Neves!MB!vars, stale>>
  BY DEF Abstract
<1>4. QED BY <1>1, <1>2, <1>3, PTL DEF BoardsSpec, NevesImplementsBoard, Neves!ImplementsBoard

HIDE ForkAssumption

-----------------------------------------------------------------------------
(* The first board of 15 March.                                             *)

Things  == [kind : {"1", "2", "exit", "user", "text", "x", "junk"}, of : Posts \cup {None}]
             \cup [kind : {"count"}, of : 0..MCSize]
Wire    == [item : Things, from : Clients]
Entries == [user : Things, text : Things]
Places  == {"menu", "user", "text", "count", "items", "gone"}

BasicTypes ==
  /\ transport \in {"tcp", "udp"} /\ toServer \in Seq(Wire) /\ toClient \in [Clients -> Seq(Things)]
  /\ spc \in {"command", "user", "text", "ended", "dead"} /\ client \in Clients \cup {None}
  /\ buf \in Things /\ user \in Things /\ newest \in Seq(Entries) /\ Len(newest) <= MCSize
  /\ cpc \in [Clients -> Places] /\ left \in [Clients -> 0..(2 * MCSize)]
  /\ \A c \in Clients : cpc[c] = "items" => left[c] # 0
  /\ got = [c \in Clients |-> got[c]] /\ boards = [c \in Clients |-> boards[c]]
  /\ made \in SUBSET Posts /\ faults \in 0..MaxFaults /\ crossed \in BOOLEAN
  /\ \A c \in Clients : cpc[c] \in {"user", "text"} => \E p \in Posts \ made : p.by = c
  /\ transport = "tcp" => \A n \in 1..Len(toServer) : toServer[n].from = CHOOSE c \in Clients : TRUE

\* No datagram went astray and no client came between; the one over TCP stays.
Clean == IF transport = "tcp" THEN ~Basic!Hungup ELSE faults = 0 /\ ~crossed

\* Post p is the one that client c makes next, when those of mk are made.
IsNext(p, c, mk) ==
  /\ p \in Posts \ mk /\ p.by = c
  /\ \A q \in Posts \ mk : q.by = c => p.nr <= q.nr

\* The next message of client c behind place n is at place k; there is none.
NextFrom(q, n, c, k) ==
  k \in (n + 1)..Len(q) /\ q[k].from = c /\ \A m \in (n + 1)..(k - 1) : q[m].from # c
NoneFrom(q, n, c) == \A m \in (n + 1)..Len(q) : q[m].from # c

\* What follows behind place n when the last message of client c was `last`: a
\* name after the command 1 and then its text, or c is still to send it.
Due(q, n, c, last, pc, mk) ==
  /\ last.kind = "1" =>
       \/ \E k \in 1..Len(q) : NextFrom(q, n, c, k) /\ q[k].item.kind = "user"
       \/ NoneFrom(q, n, c) /\ pc[c] \in {"user", "gone"}
  /\ last.kind = "user" =>
       \/ \E k \in 1..Len(q) : NextFrom(q, n, c, k) /\ q[k].item = [kind |-> "text", of |-> last.of]
       \/ /\ NoneFrom(q, n, c)
          /\ pc[c] = "gone" \/ (pc[c] = "text" /\ IsNext(last.of, c, mk))

Chain(q, pc, mk) ==
  \A n \in 1..Len(q) :
    /\ Due(q, n, q[n].from, q[n].item, pc, mk)
    /\ q[n].item.kind = "user" => q[n].item.of \in Posts /\ q[n].item.of.by = q[n].from

\* The post p comes before the post q of the same client.
Before(p, q) == p.by = q.by => p.nr < q.nr

\* The posts on the board d, newest first.
Whole(d) ==
  /\ \A i \in 1..Len(d) :
       /\ d[i].user.kind = "user" /\ d[i].user.of \in Posts
       /\ d[i].text = [kind |-> "text", of |-> d[i].user.of]
  /\ \A i, j \in 1..Len(d) : i < j => Before(d[j].user.of, d[i].user.of)

\* A post p is older than those under way in q.
Ahead(p, q) == \A n \in 1..Len(q) : q[n].item.kind = "user" => Before(p, q[n].item.of)

\* A client has made the post, or is about to, or has gone.
Known(p, pc, mk) == p \in mk \/ pc[p.by] = "gone" \/ (pc[p.by] = "text" /\ IsNext(p, p.by, mk))

Ordered(q, d, pc, mk) ==
  /\ \A i \in 1..Len(d) : Ahead(d[i].user.of, q) /\ Known(d[i].user.of, pc, mk)
  /\ \A n \in 1..Len(q) : q[n].item.kind = "user" =>
       /\ Known(q[n].item.of, pc, mk)
       /\ \A m \in 1..Len(q) : m < n /\ q[m].item.kind = "user" => Before(q[m].item.of, q[n].item.of)
  /\ \A p \in mk, r \in Posts \ mk : Before(p, r)

\* The server waits in s for the name of a post of client c, or has the name u
\* and waits for the text.
Waiting(q, d, pc, mk, s, u, c) ==
  /\ s = "user" => c \in Clients /\ Due(q, 0, c, [kind |-> "1", of |-> None], pc, mk)
  /\ s = "text" =>
       /\ c \in Clients /\ u.kind = "user" /\ u.of \in Posts
       /\ Due(q, 0, c, u, pc, mk) /\ Ahead(u.of, q) /\ Known(u.of, pc, mk)
       /\ \A i \in 1..Len(d) : Before(d[i].user.of, u.of)

PostsOK(q, d, pc, mk, s, u, c) ==
  Chain(q, pc, mk) /\ Whole(d) /\ Ordered(q, d, pc, mk) /\ Waiting(q, d, pc, mk, s, u, c)

PostsInv ==
  Clean => /\ PostsOK(toServer, newest, cpc, made, spc, user, client)
           /\ transport = "tcp" /\ spc \in {"user", "text"} => client = CHOOSE c \in Clients : TRUE

\* The messages of a listing of board d behind the count.
Flat(d) == FlattenSeq([i \in DOMAIN d |-> <<d[i].user, d[i].text>>])
Asked(q, c) == {n \in 1..Len(q) : q[n].from = c /\ q[n].item.kind = "2"}

\* A client without a listing to come; one that waits for the count; one that
\* has read a part of the listing.
Resting(q, tc, g, d)  == q = {} /\ tc = << >> /\ (d # None => g = Flat(d))
Counting(q, tc, d) ==
  \/ tc = << >> /\ \A m, n \in q : m = n
  \/ /\ q = {} /\ d \in Seq(Entries) /\ Len(d) <= MCSize
     /\ tc = <<[kind |-> "count", of |-> Len(d)]>> \o Flat(d)
Reading(q, tc, g, d, l) ==
  q = {} /\ d \in Seq(Entries) /\ g \in Seq(Things) /\ g \o tc = Flat(d) /\ l = Len(tc)

ListingInv ==
  transport = "udp" /\ faults = 0 => \A c \in Clients :
    /\ cpc[c] \in {"menu", "user", "text"} => Resting(Asked(toServer, c), toClient[c], got[c], boards[c])
    /\ cpc[c] = "count" => Counting(Asked(toServer, c), toClient[c], boards[c])
    /\ cpc[c] = "items" => Reading(Asked(toServer, c), toClient[c], got[c], boards[c], left[c])

BasicInv == BasicTypes /\ PostsInv /\ ListingInv

-----------------------------------------------------------------------------
(* Sequences: what a recursive function over them computes, by its least    *)
(* counterexample.                                                          *)

\* A set of numbers has a least one.
LEMMA Least ==
  ASSUME NEW T \in SUBSET Nat, T # {}
  PROVE  \E x \in T : \A y \in T : x <= y
<1>1. PICK x \in T : \A y \in T : <<y, x>> \notin OpToRel(<, Nat)
  BY NatLessThanWellFounded, WFMin
<1>2. \A y \in T : ~(y < x)
  BY <1>1 DEF OpToRel
<1>3. x \in Nat /\ \A y \in T : y \in Nat
  OBVIOUS
<1>4. QED BY <1>2, <1>3

\* What holds of 1 and goes from each number to the next holds up to n.
LEMMA CountUp ==
  ASSUME NEW n \in Nat, NEW A, 1 \in A, \A i \in 1..n : i # n /\ i \in A => i + 1 \in A
  PROVE  1..n \subseteq A
<1> DEFINE Bad == {i \in 1..n : i \notin A}
<1>1. SUFFICES ASSUME Bad # {} PROVE FALSE
  OBVIOUS
<1>2. PICK i \in Bad : \A j \in Bad : i <= j
  <2>1. Bad \in SUBSET Nat
    OBVIOUS
  <2> HIDE DEF Bad
  <2>2. QED BY <1>1, <2>1, Least
<1>3. i \in 1..n /\ i \notin A /\ i # 1
  BY <1>2
<1>4. i - 1 \in 1..n /\ i - 1 # n /\ ~(i <= i - 1) /\ (i - 1) + 1 = i
  BY <1>3
<1>5. i - 1 \in A
  BY <1>2, <1>4
<1>6. QED BY <1>3, <1>4, <1>5

\* What FlattenSeq computes on the way.
FlatStep(f, ss, n) == IF n = 1 THEN ss[n] ELSE f[n - 1] \o ss[n]
Flattening(f, ss) == f = [n \in 1..Len(ss) |-> FlatStep(f, ss, n)]

\* FlattenSeq is the last value of the function that computes it step by step.
LEMMA FlattenIs ==
  ASSUME NEW ss
  PROVE  FlattenSeq(ss) = IF Len(ss) = 0 THEN ss ELSE (CHOOSE f : Flattening(f, ss))[Len(ss)]
BY DEF FlattenSeq, Flattening, FlatStep

\* There is such a function.
LEMMA FlatteningExists ==
  ASSUME NEW ss, Len(ss) \in Nat \ {0}
  PROVE  \E f : Flattening(f, ss)
<1> DEFINE Upto(n, f) == f = [k \in 1..n |-> FlatStep(f, ss, k)]
           A == {n \in Nat : \E f : Upto(n, f)}
<1>1. 1 \in A
  <2>1. Upto(1, [k \in 1..1 |-> ss[k]])
    BY DEF FlatStep
  <2>2. QED BY <2>1
<1>2. ASSUME NEW n \in 1..Len(ss), n \in A
      PROVE  n + 1 \in A
  <2>1. PICK f : Upto(n, f)
    BY <1>2
  <2> DEFINE g == [k \in 1..(n + 1) |-> IF k = n + 1 THEN FlatStep(f, ss, k) ELSE f[k]]
  <2>2. \A k \in 1..(n + 1) : FlatStep(g, ss, k) = g[k]
    <3> SUFFICES ASSUME NEW k \in 1..(n + 1) PROVE FlatStep(g, ss, k) = g[k]
      OBVIOUS
    <3>1. k # 1 => k - 1 \in 1..(n + 1) /\ k - 1 # n + 1 /\ g[k - 1] = f[k - 1]
      OBVIOUS
    <3>2. FlatStep(g, ss, k) = FlatStep(f, ss, k)
      BY <3>1 DEF FlatStep
    <3>3. CASE k = n + 1
      BY <3>2, <3>3
    <3>4. CASE k # n + 1
      <4>1. k \in 1..n /\ g[k] = f[k]
        BY <3>4
      <4> HIDE DEF g
      <4>2. f[k] = FlatStep(f, ss, k)
        BY <2>1, <4>1
      <4>3. QED BY <3>2, <4>1, <4>2
    <3>5. QED BY <3>3, <3>4
  <2>3. g = [k \in 1..(n + 1) |-> g[k]]
    OBVIOUS
  <2> HIDE DEF g
  <2>4. Upto(n + 1, g)
    BY <2>2, <2>3
  <2>5. QED BY <2>4
<1> HIDE DEF A
<1>3. Len(ss) \in A
  <2>1. 1..Len(ss) \subseteq A
    BY <1>1, <1>2, CountUp
  <2>2. QED BY <2>1
<1>4. QED BY <1>3 DEF A, Flattening

\* FlattenSeq puts one sequence behind the other.
LEMMA FlattenRun ==
  ASSUME NEW ss, NEW n \in Nat \ {0}, Len(ss) = n
  PROVE  \E f : /\ FlattenSeq(ss) = f[n] /\ f[1] = ss[1]
                /\ \A i \in 1..n : i # n => f[i + 1] = f[i] \o ss[i + 1]
<1> DEFINE f == CHOOSE f : Flattening(f, ss)
<1>1. Flattening(f, ss)
  BY FlatteningExists
<1>2. FlattenSeq(ss) = f[n]
  BY FlattenIs
<1> HIDE DEF f
<1>3. f[1] = ss[1]
  BY <1>1 DEF Flattening, FlatStep
<1>4. ASSUME NEW i \in 1..n, i # n
      PROVE  f[i + 1] = f[i] \o ss[i + 1]
  <2>1. i + 1 \in 1..n /\ i + 1 # 1 /\ (i + 1) - 1 = i
    BY <1>4
  <2>2. f[i + 1] = FlatStep(f, ss, i + 1)
    BY <1>1, <2>1 DEF Flattening
  <2>3. QED BY <2>1, <2>2 DEF FlatStep
<1>5. QED BY <1>2, <1>3, <1>4

\* Sequences over T give a sequence over T, and n of length l one of length n * l.
LEMMA FlattenType ==
  ASSUME NEW T, NEW ss, NEW n \in Nat, ss \in [1..n -> Seq(T)]
  PROVE  FlattenSeq(ss) \in Seq(T)
<1>0. Len(ss) = n
  OBVIOUS
<1>1. CASE n = 0
  <2>1. ss = << >>
    BY <1>1
  <2>2. FlattenSeq(ss) = ss
    BY <1>0, <1>1, FlattenIs
  <2>3. QED BY <2>1, <2>2, EmptySeq
<1>2. CASE n # 0
  <2>1. PICK f : /\ FlattenSeq(ss) = f[n] /\ f[1] = ss[1]
                 /\ \A i \in 1..n : i # n => f[i + 1] = f[i] \o ss[i + 1]
    <3>1. n \in Nat \ {0}
      BY <1>0, <1>2
    <3>2. QED BY <1>0, <3>1, FlattenRun
  <2> DEFINE A == {i \in 1..n : f[i] \in Seq(T)}
  <2>2. 1 \in A
    BY <1>2, <2>1
  <2>3. \A i \in 1..n : i # n /\ i \in A => i + 1 \in A
    <3> TAKE i \in 1..n
    <3> HAVE i # n /\ i \in A
    <3>1. i + 1 \in 1..n /\ ss[i + 1] \in Seq(T) /\ f[i] \in Seq(T)
      OBVIOUS
    <3>2. f[i] \o ss[i + 1] \in Seq(T)
      BY <3>1, ConcatProperties
    <3>3. QED BY <2>1, <3>1, <3>2
  <2> HIDE DEF A
  <2>4. 1..n \subseteq A
    BY <2>2, <2>3, CountUp
  <2>5. n \in A
    BY <1>2, <2>4
  <2>6. QED BY <2>1, <2>5 DEF A
<1>3. QED BY <1>1, <1>2

\* Pairs in a row have twice as many elements as there are pairs.
LEMMA FlattenPairs ==
  ASSUME NEW T, NEW ss, NEW n \in Nat, ss \in [1..n -> Seq(T)], \A i \in 1..n : Len(ss[i]) = 2
  PROVE  Len(FlattenSeq(ss)) = 2 * n
<1>0. Len(ss) = n
  OBVIOUS
<1>1. CASE n = 0
  BY <1>0, <1>1, FlattenIs
<1>2. CASE n # 0
  <2>1. PICK f : /\ FlattenSeq(ss) = f[n] /\ f[1] = ss[1]
                 /\ \A i \in 1..n : i # n => f[i + 1] = f[i] \o ss[i + 1]
    <3>1. n \in Nat \ {0}
      BY <1>0, <1>2
    <3>2. QED BY <1>0, <3>1, FlattenRun
  <2> DEFINE A == {i \in 1..n : f[i] \in Seq(T) /\ Len(f[i]) = 2 * i}
  <2>2. 1 \in A
    BY <1>2, <2>1
  <2>3. \A i \in 1..n : i # n /\ i \in A => i + 1 \in A
    <3> TAKE i \in 1..n
    <3> HAVE i # n /\ i \in A
    <3>1. i + 1 \in 1..n /\ ss[i + 1] \in Seq(T) /\ f[i] \in Seq(T) /\ Len(f[i]) = 2 * i /\ Len(ss[i + 1]) = 2
      OBVIOUS
    <3>2. f[i] \o ss[i + 1] \in Seq(T) /\ Len(f[i] \o ss[i + 1]) = Len(f[i]) + Len(ss[i + 1])
      BY <3>1, ConcatProperties
    <3>3. f[i + 1] = f[i] \o ss[i + 1]
      BY <2>1
    <3>4. 2 * i + 2 = 2 * (i + 1)
      OBVIOUS
    <3>5. Len(f[i + 1]) = 2 * (i + 1) /\ f[i + 1] \in Seq(T)
      <4>1. Len(f[i + 1]) = Len(f[i]) + Len(ss[i + 1]) /\ f[i + 1] \in Seq(T)
        BY <3>2, <3>3
      <4>2. Len(f[i]) + Len(ss[i + 1]) = 2 * i + 2
        BY <3>1
      <4>3. QED BY ONLY <4>1, <4>2, <3>4
    <3>6. QED BY <3>1, <3>5
  <2> HIDE DEF A
  <2>4. 1..n \subseteq A
    BY <2>2, <2>3, CountUp
  <2>5. n \in A
    BY <1>2, <2>4
  <2>6. QED BY <2>1, <2>5 DEF A
<1>3. QED BY <1>1, <1>2

\* A sequence put together from its elements is the sequence.
LEMMA FlattenSingles ==
  ASSUME NEW T, NEW s \in Seq(T)
  PROVE  FlattenSeq([i \in DOMAIN s |-> <<s[i]>>]) = s
<1> DEFINE n == Len(s)
           ss == [i \in DOMAIN s |-> <<s[i]>>]
<1>0. n \in Nat /\ DOMAIN s = 1..n /\ Len(s) = n /\ Len(ss) = n
  BY LenProperties
<1> HIDE DEF n
<1>1. CASE n = 0
  <2>1. s = << >> /\ ss = << >>
    BY <1>0, <1>1
  <2>2. QED BY <1>0, <1>1, <2>1, FlattenIs
<1>2. CASE n # 0
  <2>0. \A i \in 1..n : ss[i] = <<s[i]>>
    BY <1>0
  <2> HIDE DEF ss
  <2>1. PICK f : /\ FlattenSeq(ss) = f[n] /\ f[1] = ss[1]
                 /\ \A i \in 1..n : i # n => f[i + 1] = f[i] \o ss[i + 1]
    <3>1. n \in Nat \ {0}
      BY <1>0, <1>2
    <3>2. QED BY <1>0, <3>1, FlattenRun
  <2> DEFINE A == {i \in 1..n : /\ f[i] \in Seq(T) /\ Len(f[i]) = i
                                /\ \A j \in 1..i : f[i][j] = s[j]}
  <2>2. 1 \in A
    <3>1. s[1] \in T
      BY <1>0, <1>2, ElementOfSeq
    <3>2. 1 \in 1..n
      BY <1>0, <1>2
    <3>3. f[1] = <<s[1]>>
      BY <2>0, <2>1, <3>2
    <3>4. <<s[1]>> \in Seq(T) /\ Len(<<s[1]>>) = 1 /\ \A j \in 1..1 : <<s[1]>>[j] = s[j]
      BY <3>1
    <3>5. QED BY <3>2, <3>3, <3>4
  <2>3. \A i \in 1..n : i # n /\ i \in A => i + 1 \in A
    <3> TAKE i \in 1..n
    <3> HAVE i # n /\ i \in A
    <3>0. i + 1 \in 1..n
      BY <1>0
    <3>1. /\ i + 1 \in 1..n /\ ss[i + 1] = <<s[i + 1]>> /\ s[i + 1] \in T
          /\ f[i] \in Seq(T) /\ Len(f[i]) = i /\ \A j \in 1..i : f[i][j] = s[j]
      <4>1. s[i + 1] \in T
        BY <1>0, <3>0, ElementOfSeq
      <4>2. QED BY <2>0, <3>0, <4>1
    <3> HIDE DEF A
    <3>2. f[i + 1] = Append(f[i], s[i + 1])
      <4>1. Append(f[i], s[i + 1]) = f[i] \o <<s[i + 1]>>
        BY <3>1, AppendIsConcat
      <4>2. QED BY <2>1, <3>1, <4>1
    <3>3. /\ Append(f[i], s[i + 1]) \in Seq(T) /\ Len(Append(f[i], s[i + 1])) = i + 1
          /\ \A j \in 1..i : Append(f[i], s[i + 1])[j] = f[i][j]
          /\ Append(f[i], s[i + 1])[i + 1] = s[i + 1]
      BY <3>1, AppendProperties
    <3>4. \A j \in 1..(i + 1) : f[i + 1][j] = s[j]
      BY <3>1, <3>2, <3>3
    <3>5. QED BY <3>1, <3>2, <3>3, <3>4 DEF A
  <2> HIDE DEF A
  <2>4. 1..n \subseteq A
    BY <1>0, <2>2, <2>3, CountUp
  <2>5. n \in A
    BY <1>0, <1>2, <2>4
  <2>6. f[n] \in Seq(T) /\ Len(f[n]) = n /\ \A j \in 1..n : f[n][j] = s[j]
    BY <2>5 DEF A
  <2>7. f[n] = s
    BY <1>0, <2>6, SeqEqual
  <2>8. QED BY <2>1, <2>7 DEF ss
<1>3. QED BY <1>1, <1>2

-----------------------------------------------------------------------------
(* What the server receives.                                                *)

\* The queue r is q without the message at place k.
Drop(q, k, r) ==
  /\ k \in 1..Len(q) /\ Len(r) = Len(q) - 1
  /\ \A n \in 1..Len(r) : r[n] = IF n < k THEN q[n] ELSE q[n + 1]

\* One recv: the first message, or one spoiled by the single bytes before it.
Received(q, item, from, r) ==
  /\ q \in Seq(Wire) /\ q # << >> /\ from = q[1].from
  /\ \/ item = q[1].item /\ Drop(q, 1, r)
     \/ /\ item.kind = "junk" /\ q[1].item.kind = "x"
        /\ \/ r = << >> /\ \A n \in 1..Len(q) : q[n].item.kind = "x"
           \/ \E k \in 2..Len(q) : Drop(q, k, r) /\ \A n \in 1..(k - 1) : q[n].item.kind = "x"

\* The length and the messages of a queue.
LEMMA Queue ==
  ASSUME NEW T, NEW q \in Seq(T)
  PROVE  Len(q) \in Nat /\ DOMAIN q = 1..Len(q) /\ \A n \in 1..Len(q) : q[n] \in T
BY LenProperties, ElementOfSeq

\* The single bytes at the beginning of a stream.
LEMMA SkewIs ==
  ASSUME NEW T, NEW s \in Seq(T), Len(s) # 0
  PROVE  /\ Basic!Skew(s) \in 0..Len(s)
         /\ \A n \in 1..Basic!Skew(s) : s[n] = Basic!Extra
         /\ Basic!Skew(s) # Len(s) => s[Basic!Skew(s) + 1] # Basic!Extra
<1>1. Len(s) \in Nat /\ DOMAIN s = 1..Len(s)
  BY LenProperties
<1>2. CASE \A i \in DOMAIN s : s[i] = Basic!Extra
  BY <1>1, <1>2 DEF Basic!Skew
<1>3. CASE ~ \A i \in DOMAIN s : s[i] = Basic!Extra
  <2> DEFINE First(i) == s[i] # Basic!Extra /\ \A j \in 1..(i - 1) : s[j] = Basic!Extra
             i == CHOOSE i \in DOMAIN s : First(i)
  <2>1. \E x \in DOMAIN s : First(x)
    <3> DEFINE U == {x \in DOMAIN s : s[x] # Basic!Extra}
    <3>1. U \in SUBSET Nat /\ U # {}
      BY <1>1, <1>3
    <3> HIDE DEF U
    <3>2. PICK x \in U : \A y \in U : x <= y
      BY <3>1, Least
    <3>3. x \in 1..Len(s) /\ s[x] # Basic!Extra
      BY <1>1, <3>2 DEF U
    <3>4. ASSUME NEW j \in 1..(x - 1) PROVE s[j] = Basic!Extra
      <4>1. j \in 1..Len(s) /\ ~(x <= j)
        BY <1>1, <3>3
      <4>2. j \notin U
        BY <3>2, <4>1
      <4>3. QED BY <1>1, <4>1, <4>2 DEF U
    <3>5. QED BY <1>1, <3>3, <3>4
  <2>2. i \in DOMAIN s /\ First(i)
    BY <2>1
  <2>3. Basic!Skew(s) = i - 1
    BY <1>3 DEF Basic!Skew
  <2> HIDE DEF i
  <2>4. i \in 1..Len(s) /\ (i - 1) + 1 = i
    BY <1>1, <2>2
  <2>5. QED BY <1>1, <2>2, <2>3, <2>4
<1>4. QED BY <1>2, <1>3

\* The single bytes of a queue, as the stream of its messages has them.
LEMMA QueueItems ==
  ASSUME NEW q \in Seq(Wire)
  PROVE  /\ Basic!Items(q) \in Seq(Things) /\ Len(Basic!Items(q)) = Len(q)
         /\ \A n \in 1..Len(q) : Basic!Items(q)[n] = q[n].item
<1>1. Len(q) \in Nat /\ DOMAIN q = 1..Len(q) /\ \A n \in 1..Len(q) : q[n] \in Wire
  BY Queue
<1>2. Basic!Items(q) = [n \in 1..Len(q) |-> q[n].item]
  BY <1>1 DEF Basic!Items
<1>3. \A n \in 1..Len(q) : q[n].item \in Things
  BY <1>1 DEF Wire
<1>4. Basic!Items(q) \in Seq(Things)
  BY <1>1, <1>2, <1>3, IsASeq
<1>5. QED BY <1>1, <1>2, <1>4

\* The stream without what a recv takes: without everything, or without the
\* message behind the single bytes.
LEMMA RestIs ==
  ASSUME NEW T, NEW s \in Seq(T), Len(s) # 0
  PROVE  \/ Basic!Rest(s) = << >> /\ Basic!Skew(s) = Len(s)
         \/ /\ Basic!Skew(s) + 1 \in 1..Len(s) /\ Basic!Rest(s) \in Seq(T)
            /\ Drop(s, Basic!Skew(s) + 1, Basic!Rest(s))
<1> DEFINE k == Basic!Skew(s)
           l == Len(s)
<1>1. k \in 0..l /\ l \in Nat
  BY SkewIs, LenProperties
<1>2. CASE k = 0
  <2>1. Basic!Rest(s) = Tail(s)
    BY <1>2 DEF Basic!Rest
  <2>2. /\ Tail(s) \in Seq(T) /\ Len(Tail(s)) = l - 1
        /\ \A n \in 1..Len(Tail(s)) : Tail(s)[n] = s[n + 1]
    <3>1. s # << >>
      BY EmptySeq
    <3>2. QED BY <3>1, HeadTailProperties
  <2>3. QED BY <1>1, <1>2, <2>1, <2>2 DEF Drop
<1>3. CASE k = l
  <2>1. k # 0
    BY <1>3
  <2>2. Basic!Rest(s) = << >>
    BY <1>3, <2>1 DEF Basic!Rest
  <2>3. QED BY <1>3, <2>2
<1>4. CASE k # 0 /\ k # l
  <2> DEFINE front == SubSeq(s, 1, k)
             back  == SubSeq(s, k + 2, l)
  <2>1. Basic!Rest(s) = front \o back
    BY <1>4 DEF Basic!Rest
  <2> HIDE DEF k, l
  <2>2. \A n \in 1..l : s[n] \in T
    BY Queue DEF l
  <2>3. /\ front \in Seq(T) /\ Len(front) = k /\ \A n \in 1..k : front[n] = s[n]
    <3>1. \A n \in 1..k : s[n] \in T
      BY <1>1, <2>2
    <3>2. /\ front \in Seq(T) /\ Len(front) = IF 1 <= k THEN k - 1 + 1 ELSE 0
          /\ \A n \in 1..(k - 1 + 1) : front[n] = s[1 + n - 1]
      BY <1>1, <3>1, SubSeqProperties
    <3>3. QED BY <1>1, <1>4, <3>2
  <2>4. /\ back \in Seq(T) /\ Len(back) = l - k - 1
        /\ \A n \in 1..(l - k - 1) : back[n] = s[k + 1 + n]
    <3>1. \A n \in (k + 2)..l : s[n] \in T
      BY <1>1, <2>2
    <3>2. /\ back \in Seq(T) /\ Len(back) = IF k + 2 <= l THEN l - (k + 2) + 1 ELSE 0
          /\ \A n \in 1..(l - (k + 2) + 1) : back[n] = s[k + 2 + n - 1]
      BY <1>1, <3>1, SubSeqProperties
    <3>3. QED BY <1>1, <1>4, <3>2
  <2> HIDE DEF front, back
  <2>5. /\ front \o back \in Seq(T) /\ Len(front \o back) = l - 1
        /\ \A n \in 1..(l - 1) : (front \o back)[n] = IF n <= k THEN front[n] ELSE back[n - k]
    <3>1. /\ front \o back \in Seq(T) /\ Len(front \o back) = Len(front) + Len(back)
          /\ \A n \in 1..(Len(front) + Len(back)) :
               (front \o back)[n] = IF n <= Len(front) THEN front[n] ELSE back[n - Len(front)]
      BY <2>3, <2>4, ConcatProperties
    <3>2. Len(front) + Len(back) = l - 1
      BY <1>1, <2>3, <2>4
    <3>3. QED BY <2>3, <3>1, <3>2
  <2>6. ASSUME NEW n \in 1..(l - 1)
        PROVE  (front \o back)[n] = IF n < k + 1 THEN s[n] ELSE s[n + 1]
    <3>1. CASE n <= k
      BY <1>1, <2>3, <2>5, <3>1
    <3>2. CASE ~(n <= k)
      <4>1. n - k \in 1..(l - k - 1) /\ k + 1 + (n - k) = n + 1 /\ ~(n < k + 1)
        BY <1>1, <3>2
      <4>2. QED BY <2>4, <2>5, <3>2, <4>1
    <3>3. QED BY <3>1, <3>2
  <2>7. k + 1 \in 1..l
    BY <1>1, <1>4
  <2>8. QED BY <2>1, <2>5, <2>6, <2>7 DEF Drop, k, l
<1>5. QED BY <1>2, <1>3, <1>4

\* A recv of the server.  Over TCP it may also return 0.
LEMMA RecvIs ==
  ASSUME BasicTypes, NEW item, NEW from \in Clients, Basic!ServerRecv(item, from)
  PROVE  /\ item \in Things /\ toServer' \in Seq(Wire)
         /\ \/ Received(toServer, item, from, toServer')
            \/ transport = "tcp" /\ Basic!Hungup /\ UNCHANGED toServer
         /\ transport = "udp" => item = toServer[1].item /\ Drop(toServer, 1, toServer')
<1> DEFINE q == toServer
           s == Basic!Items(q)
<1>1. /\ q \in Seq(Wire) /\ Len(q) \in Nat /\ \A n \in 1..Len(q) : q[n] \in Wire
      /\ s \in Seq(Things) /\ Len(s) = Len(q) /\ \A n \in 1..Len(q) : s[n] = q[n].item
  BY Queue, QueueItems DEF BasicTypes
<1>2. CASE toServer # << >> /\ transport = "udp" /\ item = Head(q).item /\ from = Head(q).from
           /\ toServer' = Tail(q)
  <2>1. /\ Head(q) = q[1] /\ 1 \in 1..Len(q)
        /\ Tail(q) \in Seq(Wire) /\ Len(Tail(q)) = Len(q) - 1
        /\ \A n \in 1..Len(Tail(q)) : Tail(q)[n] = q[n + 1]
    BY <1>1, <1>2, HeadTailProperties, EmptySeq
  <2>2. q[1] \in Wire
    BY <1>1, <2>1
  <2>3. item \in Things
    BY <1>2, <2>1, <2>2 DEF Wire
  <2>4. Drop(q, 1, toServer')
    BY <1>1, <1>2, <2>1 DEF Drop
  <2>5. QED BY <1>1, <1>2, <2>1, <2>3, <2>4 DEF Received
<1>3. CASE /\ toServer # << >> /\ transport = "tcp"
           /\ item = Basic!Taken(s) /\ from = Head(q).from
           /\ toServer' = [i \in DOMAIN Basic!Rest(s) |-> [item |-> Basic!Rest(s)[i], from |-> from]]
  <2> DEFINE k == Basic!Skew(s)
  <2>1. /\ Head(q) = q[1] /\ 1 \in 1..Len(q) /\ Len(q) # 0
        /\ \A n \in 1..Len(q) : q[n].from = from
    <3>1. q # << >> /\ transport = "tcp" /\ from = Head(q).from
      BY <1>3
    <3>2. Head(q) = q[1] /\ Len(q) # 0 /\ 1 \in 1..Len(q)
      BY <1>1, <3>1, HeadTailProperties, EmptySeq
    <3>3. \A n \in 1..Len(q) : q[n].from = CHOOSE c \in Clients : TRUE
      BY <3>1 DEF BasicTypes
    <3>4. QED BY <3>1, <3>2, <3>3
  <2>2. /\ k \in 0..Len(q) /\ \A n \in 1..k : q[n].item = Basic!Extra
        /\ k # Len(q) => q[k + 1].item # Basic!Extra
    <3>1. /\ k \in 0..Len(s) /\ \A n \in 1..k : s[n] = Basic!Extra
          /\ k # Len(s) => s[k + 1] # Basic!Extra
      BY <1>1, <2>1, SkewIs
    <3>2. QED BY <1>1, <3>1
  <2>3. item \in Things /\ (k = 0 => item = q[1].item) /\ (k # 0 => item.kind = "junk")
    <3>1. CASE k = 0
      <4>1. Head(s) = q[1].item /\ s[1] \in Things
        BY <1>1, <2>1, HeadTailProperties, EmptySeq, ElementOfSeq
      <4>2. QED BY <1>1, <1>3, <2>1, <3>1, <4>1 DEF Basic!Taken
    <3>2. CASE k # 0
      <4>1. item = Basic!Spoiled
        BY <1>3, <3>2 DEF Basic!Taken
      <4>2. Basic!Spoiled \in Things /\ Basic!Spoiled.kind = "junk"
        BY DEF Basic!Spoiled, Basic!Item, Things
      <4>3. QED BY <3>2, <4>1, <4>2
    <3>3. QED BY <3>1, <3>2
  <2>4. k # 0 => /\ q[1].item.kind = "x" /\ \A n \in 1..k : q[n].item.kind = "x"
    BY <1>1, <2>2 DEF Basic!Extra, Basic!Item
  <2> HIDE DEF k
  <2>5. CASE Basic!Rest(s) = << >> /\ k = Len(q)
    <3>1. toServer' = << >>
      BY <1>3, <2>5
    <3>2. QED BY <1>1, <1>3, <2>1, <2>3, <2>4, <2>5, <3>1, EmptySeq DEF Received
  <2>6. CASE k + 1 \in 1..Len(q) /\ Basic!Rest(s) \in Seq(Things) /\ Drop(s, k + 1, Basic!Rest(s))
    <3> DEFINE r == Basic!Rest(s)
    <3>1. /\ Len(r) = Len(q) - 1 /\ DOMAIN r = 1..Len(r) /\ \A n \in 1..Len(r) : r[n] \in Things
          /\ \A n \in 1..Len(r) : r[n] = IF n < k + 1 THEN s[n] ELSE s[n + 1]
      BY <1>1, <2>6, Queue DEF Drop
    <3> HIDE DEF r
    <3>2. toServer' = [n \in 1..Len(r) |-> [item |-> r[n], from |-> from]]
      BY <1>3, <3>1 DEF r
    <3>3. \A n \in 1..Len(r) : [item |-> r[n], from |-> from] \in Wire
      BY <3>1 DEF Wire
    <3>4. Len(r) \in Nat
      BY <1>1, <2>1, <3>1
    <3>5. toServer' \in Seq(Wire) /\ Len(toServer') = Len(q) - 1
      BY <3>1, <3>2, <3>3, <3>4, IsASeq
    <3>6. ASSUME NEW n \in 1..Len(toServer')
          PROVE  toServer'[n] = IF n < k + 1 THEN q[n] ELSE q[n + 1]
      <4>1. n \in 1..Len(q) /\ n + 1 \in 1..Len(q) /\ n \in 1..Len(r)
        BY <1>1, <3>1, <3>5
      <4>2. \A m \in 1..Len(q) : q[m] = [item |-> s[m], from |-> from]
        BY <1>1, <2>1 DEF Wire
      <4>3. QED BY <3>1, <3>2, <4>1, <4>2
    <3>7. Drop(q, k + 1, toServer')
      BY <2>6, <3>5, <3>6 DEF Drop
    <3>8. CASE k = 0
      BY <1>1, <1>3, <2>1, <2>3, <3>5, <3>7, <3>8 DEF Received
    <3>9. CASE k # 0
      <4>1. k + 1 \in 2..Len(q) /\ (k + 1) - 1 = k
        BY <1>1, <2>2, <2>6, <3>9
      <4>2. QED BY <1>1, <1>3, <2>1, <2>3, <2>4, <3>5, <3>7, <3>9, <4>1 DEF Received
    <3>10. QED BY <3>8, <3>9
  <2>7. QED BY <1>1, <2>1, <2>5, <2>6, RestIs DEF k
<1>4. CASE /\ transport = "tcp" /\ \E c \in Clients : cpc[c] = "gone" /\ from = c
           /\ item = buf /\ UNCHANGED toServer
  BY <1>4 DEF BasicTypes, Basic!Hungup
<1>5. QED BY <1>2, <1>3, <1>4 DEF Basic!ServerRecv

-----------------------------------------------------------------------------
(* Posts: what a recv and what a send leave true.                           *)

\* The messages of r come from q: where from, and what was between them.
LEMMA Dropped ==
  ASSUME NEW q \in Seq(Wire), NEW r \in Seq(Wire), NEW k, Drop(q, k, r)
  PROVE  /\ \A n \in 1..Len(r) : n < k  => n \in 1..Len(q) /\ r[n] = q[n]
         /\ \A n \in 1..Len(r) : n >= k => n + 1 \in 1..Len(q) /\ r[n] = q[n + 1]
         /\ \A n \in 1..Len(r) : \E m \in 1..Len(q) : r[n] = q[m] /\ m >= n /\ (m = n \/ m = n + 1)
         /\ Len(q) \in Nat /\ Len(r) \in Nat /\ Len(r) = Len(q) - 1 /\ k \in 1..Len(q)
<1>1. Len(q) \in Nat /\ Len(r) \in Nat /\ Len(r) = Len(q) - 1 /\ k \in 1..Len(q)
  BY LenProperties DEF Drop
<1>2. \A n \in 1..Len(r) : n \in 1..Len(q) /\ n + 1 \in 1..Len(q) /\ (n < k \/ n >= k)
  BY <1>1
<1>3. \A n \in 1..Len(r) : n < k  => n \in 1..Len(q) /\ r[n] = q[n]
  BY <1>1, <1>2 DEF Drop
<1>4. \A n \in 1..Len(r) : n >= k => n + 1 \in 1..Len(q) /\ r[n] = q[n + 1]
  BY <1>1, <1>2 DEF Drop
<1>5. ASSUME NEW n \in 1..Len(r)
      PROVE  \E m \in 1..Len(q) : r[n] = q[m] /\ m >= n /\ (m = n \/ m = n + 1)
  <2>1. CASE n < k
    BY <1>1, <1>3, <2>1
  <2>2. CASE n >= k
    BY <1>1, <1>4, <2>2
  <2>3. QED BY <1>2, <2>1, <2>2
<1>6. QED BY <1>1, <1>3, <1>4, <1>5

\* What is due stays due when a message before it is received.
LEMMA DueDropped ==
  ASSUME NEW q \in Seq(Wire), NEW r \in Seq(Wire), NEW k, Drop(q, k, r),
         NEW n \in Nat, n + 1 >= k, NEW c, NEW last, NEW pc, NEW mk, Due(q, n + 1, c, last, pc, mk)
  PROVE  Due(r, n, c, last, pc, mk)
<1>1. /\ \A m \in 1..Len(r) : m >= k => m + 1 \in 1..Len(q) /\ r[m] = q[m + 1]
      /\ Len(q) \in Nat /\ Len(r) \in Nat /\ Len(r) = Len(q) - 1 /\ k \in 1..Len(q)
  BY Dropped
<1>2. \A m \in (n + 1)..Len(r) : m >= k /\ m \in 1..Len(r) /\ m + 1 \in (n + 2)..Len(q) /\ r[m] = q[m + 1]
  <2> TAKE m \in (n + 1)..Len(r)
  <2>1. m >= k /\ m \in 1..Len(r) /\ m + 1 \in (n + 2)..Len(q)
    BY <1>1
  <2>2. QED BY <1>1, <2>1
<1>3. NoneFrom(q, n + 1, c) => NoneFrom(r, n, c)
  BY <1>1, <1>2 DEF NoneFrom
<1>4. ASSUME NEW j, NextFrom(q, n + 1, c, j)
      PROVE  j - 1 \in 1..Len(r) /\ NextFrom(r, n, c, j - 1) /\ r[j - 1] = q[j]
  <2>1. j \in (n + 2)..Len(q) /\ q[j].from = c /\ \A m \in (n + 2)..(j - 1) : q[m].from # c
    BY <1>4 DEF NextFrom
  <2>2. j - 1 \in (n + 1)..Len(r) /\ (j - 1) + 1 = j
    BY <1>1, <2>1
  <2>3. r[j - 1] = q[j]
    BY <1>2, <2>2
  <2>4. ASSUME NEW m \in (n + 1)..(j - 1 - 1) PROVE r[m].from # c
    <3>1. m \in (n + 1)..Len(r) /\ m + 1 \in (n + 2)..(j - 1)
      BY <1>1, <2>1, <2>2
    <3>2. QED BY <1>2, <2>1, <3>1
  <2>5. j - 1 \in 1..Len(r)
    BY <1>1, <2>2
  <2>6. QED BY <2>1, <2>2, <2>3, <2>4, <2>5 DEF NextFrom
<1>5. \A j \in 1..Len(q) : NextFrom(q, n + 1, c, j)
         => j - 1 \in 1..Len(r) /\ NextFrom(r, n, c, j - 1) /\ r[j - 1] = q[j]
  BY <1>4
<1>6. QED BY <1>3, <1>5, Zenon DEF Due

\* The messages that a recv leaves are messages that were there, behind it.
LEMMA Remaining ==
  ASSUME NEW q, NEW item, NEW from, NEW r \in Seq(Wire), Received(q, item, from, r)
  PROVE  /\ \A n \in 1..Len(r) : \E m \in 1..Len(q) : r[n] = q[m]
         /\ \A m, n \in 1..Len(r) : m < n =>
              \E i, j \in 1..Len(q) : i < j /\ r[m] = q[i] /\ r[n] = q[j]
         /\ item.kind # "junk" => item = q[1].item /\ Drop(q, 1, r)
<1>1. q \in Seq(Wire)
  BY DEF Received
<1>2. ASSUME NEW k, Drop(q, k, r)
      PROVE  /\ \A n \in 1..Len(r) : \E m \in 1..Len(q) : r[n] = q[m]
             /\ \A m, n \in 1..Len(r) : m < n =>
                  \E i, j \in 1..Len(q) : i < j /\ r[m] = q[i] /\ r[n] = q[j]
  <2>1. /\ \A n \in 1..Len(r) : n < k  => n \in 1..Len(q) /\ r[n] = q[n]
        /\ \A n \in 1..Len(r) : n >= k => n + 1 \in 1..Len(q) /\ r[n] = q[n + 1]
        /\ \A n \in 1..Len(r) : \E m \in 1..Len(q) : r[n] = q[m] /\ m >= n /\ (m = n \/ m = n + 1)
        /\ Len(q) \in Nat /\ Len(r) \in Nat /\ k \in 1..Len(q)
    BY <1>1, <1>2, Dropped
  <2>2. ASSUME NEW m \in 1..Len(r), NEW n \in 1..Len(r), m < n
        PROVE  \E i, j \in 1..Len(q) : i < j /\ r[m] = q[i] /\ r[n] = q[j]
    <3>1. CASE m < k
      <4>1. m \in 1..Len(q) /\ r[m] = q[m]
        BY <2>1, <3>1
      <4>2. PICK j \in 1..Len(q) : r[n] = q[j] /\ j >= n
        BY <2>1
      <4>3. m < j
        BY <2>1, <2>2, <4>2
      <4>4. QED BY <4>1, <4>2, <4>3
    <3>2. CASE m >= k
      <4>1. n >= k
        BY <2>1, <2>2, <3>2
      <4>2. m + 1 \in 1..Len(q) /\ r[m] = q[m + 1] /\ n + 1 \in 1..Len(q) /\ r[n] = q[n + 1]
        BY <2>1, <3>2, <4>1
      <4>3. m + 1 < n + 1
        BY <2>1, <2>2
      <4>4. QED BY <4>2, <4>3
    <3>3. QED BY <2>1, <3>1, <3>2
  <2>3. QED BY <2>1, <2>2
<1>3. CASE r = << >>
  <2>1. Len(r) = 0
    BY <1>3, EmptySeq
  <2>2. item.kind # "junk" => item = q[1].item /\ Drop(q, 1, r)
    BY DEF Received
  <2>3. QED BY <2>1, <2>2
<1>4. CASE \E k : Drop(q, k, r)
  <2>1. item.kind # "junk" => item = q[1].item /\ Drop(q, 1, r)
    BY DEF Received
  <2>2. QED BY <1>2, <1>4, <2>1
<1>5. QED BY <1>3, <1>4 DEF Received

\* A recv takes no message away that something before it needs.
LEMMA ChainReceived ==
  ASSUME NEW q, NEW item, NEW from, NEW r \in Seq(Wire), Received(q, item, from, r),
         NEW pc, NEW mk, Chain(q, pc, mk)
  PROVE  Chain(r, pc, mk)
<1>1. q \in Seq(Wire)
  BY DEF Received
<1>2. ASSUME NEW k, Drop(q, k, r), \A n \in 1..(k - 1) : q[n].item.kind = "x"
      PROVE  Chain(r, pc, mk)
  <2>1. /\ \A n \in 1..Len(r) : n < k  => n \in 1..Len(q) /\ r[n] = q[n]
        /\ \A n \in 1..Len(r) : n >= k => n + 1 \in 1..Len(q) /\ r[n] = q[n + 1]
        /\ Len(q) \in Nat /\ Len(r) \in Nat /\ k \in 1..Len(q)
    BY <1>1, <1>2, Dropped
  <2>2. ASSUME NEW n \in 1..Len(r)
        PROVE  /\ Due(r, n, r[n].from, r[n].item, pc, mk)
               /\ r[n].item.kind = "user" => r[n].item.of \in Posts /\ r[n].item.of.by = r[n].from
    <3>1. CASE n < k
      <4>1. r[n].item.kind = "x"
        <5>1. n \in 1..(k - 1)
          BY <2>1, <3>1
        <5>2. QED BY <1>2, <2>1, <3>1, <5>1
      <4>2. QED BY <4>1 DEF Due
    <3>2. CASE n >= k
      <4>1. n \in Nat /\ n + 1 >= k /\ n + 1 \in 1..Len(q) /\ r[n] = q[n + 1]
        BY <2>1, <3>2
      <4>2. /\ Due(q, n + 1, q[n + 1].from, q[n + 1].item, pc, mk)
            /\ q[n + 1].item.kind = "user" => q[n + 1].item.of \in Posts /\ q[n + 1].item.of.by = q[n + 1].from
        BY <4>1 DEF Chain
      <4>3. Due(r, n, r[n].from, r[n].item, pc, mk)
        BY <1>1, <1>2, <4>1, <4>2, DueDropped
      <4>4. QED BY <4>1, <4>2, <4>3
    <3>3. QED BY <2>1, <3>1, <3>2
  <2>3. QED BY <2>2 DEF Chain
<1>3. CASE r = << >>
  <2>1. Len(r) = 0
    BY <1>3, EmptySeq
  <2>2. QED BY <2>1 DEF Chain
<1>4. CASE Drop(q, 1, r)
  BY <1>2, <1>4
<1>5. CASE \E k \in 2..Len(q) : Drop(q, k, r) /\ \A n \in 1..(k - 1) : q[n].item.kind = "x"
  BY <1>2, <1>5
<1>6. QED BY <1>3, <1>4, <1>5 DEF Received

\* What is received from a client is what was due.
LEMMA DueReceived ==
  ASSUME NEW q, NEW item, NEW c, NEW r \in Seq(Wire), Received(q, item, c, r),
         NEW last, NEW pc, NEW mk, Due(q, 0, c, last, pc, mk)
  PROVE  /\ last.kind = "1" => item.kind = "user"
         /\ last.kind = "user" => item = [kind |-> "text", of |-> last.of]
<1>1. q \in Seq(Wire) /\ q # << >> /\ q[1].from = c
  BY DEF Received
<1>2. 1 \in 1..Len(q) /\ Len(q) \in Nat
  BY <1>1, LenProperties, EmptySeq
<1>3. ~NoneFrom(q, 0, c)
  BY <1>1, <1>2 DEF NoneFrom
<1>4. \A k \in 1..Len(q) : NextFrom(q, 0, c, k) => k = 1
  BY <1>1, <1>2 DEF NextFrom
<1>5. last.kind = "1" => q[1].item.kind = "user"
  BY <1>3, <1>4 DEF Due
<1>6. last.kind = "user" => q[1].item = [kind |-> "text", of |-> last.of]
  BY <1>3, <1>4 DEF Due
<1>7. q[1].item.kind = "x" => last.kind \notin {"1", "user"}
  BY <1>5, <1>6
<1>8. QED BY <1>5, <1>6, <1>7 DEF Received

\* The order of the posts survives a recv, and a name that is received comes
\* after those on the board and before those that follow.
LEMMA OrderReceived ==
  ASSUME NEW q, NEW item, NEW from, NEW r \in Seq(Wire), Received(q, item, from, r),
         NEW d, NEW pc, NEW mk, Ordered(q, d, pc, mk)
  PROVE  /\ Ordered(r, d, pc, mk) /\ \A p : Ahead(p, q) => Ahead(p, r)
         /\ item.kind = "user" =>
              /\ Ahead(item.of, r) /\ Known(item.of, pc, mk)
              /\ \A i \in 1..Len(d) : Before(d[i].user.of, item.of)
<1>1. /\ \A n \in 1..Len(r) : \E m \in 1..Len(q) : r[n] = q[m]
      /\ \A m, n \in 1..Len(r) : m < n =>
           \E i, j \in 1..Len(q) : i < j /\ r[m] = q[i] /\ r[n] = q[j]
      /\ item.kind # "junk" => item = q[1].item /\ Drop(q, 1, r)
  BY Remaining
<1>2. \A p : Ahead(p, q) => Ahead(p, r)
  BY <1>1 DEF Ahead
<1>3. \A i \in 1..Len(d) : Ahead(d[i].user.of, r) /\ Known(d[i].user.of, pc, mk)
  BY <1>2 DEF Ordered
<1>4. \A n \in 1..Len(r) : r[n].item.kind = "user" => Known(r[n].item.of, pc, mk)
  BY <1>1 DEF Ordered
<1>5. \A m, n \in 1..Len(r) : m < n /\ r[m].item.kind = "user" /\ r[n].item.kind = "user"
        => Before(r[m].item.of, r[n].item.of)
  BY <1>1 DEF Ordered
<1>6. Ordered(r, d, pc, mk)
  BY <1>3, <1>4, <1>5 DEF Ordered
<1>7. ASSUME item.kind = "user"
      PROVE  /\ Ahead(item.of, r) /\ Known(item.of, pc, mk)
             /\ \A i \in 1..Len(d) : Before(d[i].user.of, item.of)
  <2>1. q \in Seq(Wire) /\ item = q[1].item /\ Drop(q, 1, r)
    BY <1>1, <1>7 DEF Received
  <2>2. /\ Len(q) \in Nat /\ 1 \in 1..Len(q)
        /\ \A n \in 1..Len(r) : n + 1 \in 1..Len(q) /\ r[n] = q[n + 1] /\ 1 < n + 1
    <3>1. /\ \A n \in 1..Len(r) : n >= 1 => n + 1 \in 1..Len(q) /\ r[n] = q[n + 1]
          /\ Len(q) \in Nat /\ 1 \in 1..Len(q)
      BY <2>1, Dropped
    <3>2. \A n \in 1..Len(r) : n >= 1 /\ 1 < n + 1
      OBVIOUS
    <3>3. QED BY <3>1, <3>2
  <2>3. Ahead(item.of, r)
    BY <1>7, <2>1, <2>2 DEF Ahead, Ordered
  <2>4. QED BY <1>7, <2>1, <2>2, <2>3 DEF Ordered, Ahead
<1>8. QED BY <1>2, <1>6, <1>7

\* The queue r is q with messages of client c behind it.
Grown(q, r, c) ==
  /\ q \in Seq(Wire) /\ r \in Seq(Wire) /\ Len(r) > Len(q)
  /\ \A n \in 1..Len(q) : r[n] = q[n]
  /\ \A n \in (Len(q) + 1)..Len(r) : r[n].from = c

\* Nobody but client c gets to another place.
Others(pc, pc2, c) == \A e \in Clients : e # c => pc2[e] = pc[e]

\* Two posts of a client have different numbers.
LEMMA NextIsOne ==
  ASSUME NEW p, NEW r, NEW c, NEW mk, IsNext(p, c, mk), IsNext(r, c, mk)
  PROVE  p = r
<1>1. p \in [by : Clients, nr : Nat] /\ r \in [by : Clients, nr : Nat]
  BY BoardsAssumption DEF Basic!BasicBoardAssumption, IsNext
<1>2. p.nr <= r.nr /\ r.nr <= p.nr /\ p.by = r.by
  BY DEF IsNext
<1>3. p.nr = r.nr
  BY <1>1, <1>2
<1>4. QED BY <1>1, <1>2, <1>3

\* The next post of a client that has one to make.
LEMMA NextPostIs ==
  ASSUME BasicTypes, NEW c \in Clients, cpc[c] \in {"user", "text"}
  PROVE  IsNext(Basic!NextPost(c), c, made)
<1> DEFINE T == {p \in Posts \ made : p.by = c}
           U == {p.nr : p \in T}
<1>1. Posts \subseteq [by : Clients, nr : Nat]
  BY BoardsAssumption DEF Basic!BasicBoardAssumption
<1>2. U \in SUBSET Nat /\ U # {}
  BY <1>1 DEF BasicTypes
<1> HIDE DEF U
<1>3. PICK n \in U : \A m \in U : n <= m
  BY <1>2, Least
<1>4. PICK p \in T : p.nr = n
  BY DEF U
<1>5. p \in Posts \ made /\ p.by = c /\ \A q \in Posts \ made : q.by = c => p.nr <= q.nr
  BY <1>3, <1>4 DEF U
<1>6. \E x \in Posts \ made : x.by = c /\ \A q \in Posts \ made : q.by = c => x.nr <= q.nr
  BY <1>5
<1>7. QED BY <1>6 DEF Basic!NextPost, IsNext

\* What is due stays due when client c sends, if it sends what is due.
LEMMA DueGrown ==
  ASSUME NEW q, NEW r, NEW c \in Clients, Grown(q, r, c), NEW n \in 0..Len(q), NEW e \in Clients,
         NEW last, NEW pc, NEW pc2, NEW mk, NEW mk2, Due(q, n, e, last, pc, mk),
         e # c => pc2[e] = pc[e] /\ \A p : IsNext(p, e, mk) => IsNext(p, e, mk2),
         e = c => /\ pc[c] # "gone"
                  /\ pc[c] = "user" => r[Len(q) + 1].item.kind = "user"
                  /\ pc[c] = "text" =>
                       \A p : IsNext(p, c, mk) => r[Len(q) + 1].item = [kind |-> "text", of |-> p]
  PROVE  Due(r, n, e, last, pc2, mk2)
<1>1. /\ Len(q) \in Nat /\ Len(r) \in Nat /\ Len(r) > Len(q) /\ Len(q) + 1 \in 1..Len(r)
      /\ \A m \in 1..Len(q) : r[m] = q[m] /\ m \in 1..Len(r)
      /\ \A m \in (Len(q) + 1)..Len(r) : r[m].from = c
  BY LenProperties DEF Grown
<1>2. \A k \in 1..Len(q) : NextFrom(q, n, e, k) => NextFrom(r, n, e, k)
  <2> TAKE k \in 1..Len(q)
  <2> HAVE NextFrom(q, n, e, k)
  <2>1. k \in (n + 1)..Len(q) /\ q[k].from = e /\ \A m \in (n + 1)..(k - 1) : q[m].from # e
    BY DEF NextFrom
  <2>2. k \in (n + 1)..Len(r) /\ \A m \in (n + 1)..(k - 1) : m \in 1..Len(q)
    BY <1>1, <2>1
  <2>3. QED BY <1>1, <2>1, <2>2 DEF NextFrom
<1>3. CASE e # c
  <2>1. NoneFrom(q, n, e) => NoneFrom(r, n, e)
    <3> HAVE NoneFrom(q, n, e)
    <3>1. \A m \in (n + 1)..Len(r) : (m \in 1..Len(q) /\ m \in (n + 1)..Len(q)) \/ m \in (Len(q) + 1)..Len(r)
      BY <1>1
    <3>2. QED BY <1>1, <1>3, <3>1 DEF NoneFrom
  <2>2. QED BY <1>1, <1>2, <1>3, <2>1, Zenon DEF Due
<1>4. CASE e = c
  <2>1. NoneFrom(q, n, c) => NextFrom(r, n, c, Len(q) + 1)
    <3> HAVE NoneFrom(q, n, c)
    <3>1. /\ Len(q) + 1 \in (n + 1)..Len(r)
          /\ \A m \in (n + 1)..((Len(q) + 1) - 1) : m \in 1..Len(q) /\ m \in (n + 1)..Len(q)
      BY <1>1
    <3>2. \A m \in (n + 1)..((Len(q) + 1) - 1) : r[m].from # c
      BY <1>1, <3>1 DEF NoneFrom
    <3>3. r[Len(q) + 1].from = c
      BY <1>1
    <3>4. QED BY <3>1, <3>2, <3>3 DEF NextFrom
  <2>2. last.kind = "1" => \E k \in 1..Len(r) : NextFrom(r, n, c, k) /\ r[k].item.kind = "user"
    BY <1>1, <1>2, <1>4, <2>1 DEF Due
  <2>3. last.kind = "user" =>
          \E k \in 1..Len(r) : NextFrom(r, n, c, k) /\ r[k].item = [kind |-> "text", of |-> last.of]
    BY <1>1, <1>2, <1>4, <2>1 DEF Due
  <2>4. QED BY <1>4, <2>2, <2>3 DEF Due
<1>5. QED BY <1>3, <1>4

\* When a client sends no name, the names under way are those of before.
LEMMA AheadGrown ==
  ASSUME NEW q, NEW r, NEW c, Grown(q, r, c),
         \A n \in (Len(q) + 1)..Len(r) : r[n].item.kind # "user"
  PROVE  /\ \A n \in 1..Len(r) : r[n].item.kind = "user" => n \in 1..Len(q) /\ r[n] = q[n]
         /\ \A x : Ahead(x, q) => Ahead(x, r)
<1>1. /\ \A n \in 1..Len(r) : r[n].item.kind = "user" => n \in 1..Len(q) /\ r[n] = q[n]
  <2>1. Len(q) \in Nat /\ Len(r) \in Nat /\ Len(r) > Len(q) /\ \A n \in 1..Len(q) : r[n] = q[n]
    BY LenProperties DEF Grown
  <2>2. \A n \in 1..Len(r) : n \in 1..Len(q) \/ n \in (Len(q) + 1)..Len(r)
    BY <2>1
  <2>3. QED BY <2>1, <2>2
<1>2. \A x : Ahead(x, q) => Ahead(x, r)
  BY <1>1 DEF Ahead
<1>3. QED BY <1>1, <1>2

\* The order of the posts, when a client sends no name.
LEMMA OrderGrown ==
  ASSUME NEW q, NEW r, NEW c, Grown(q, r, c), NEW d, NEW pc, NEW pc2, NEW mk, NEW mk2,
         Whole(d), Chain(q, pc, mk), Ordered(q, d, pc, mk),
         \A n \in (Len(q) + 1)..Len(r) : r[n].item.kind # "user",
         \A p \in Posts : Known(p, pc, mk) => Known(p, pc2, mk2),
         \A p \in mk2, s \in Posts \ mk2 : Before(p, s)
  PROVE  Ordered(r, d, pc2, mk2)
<1>1. /\ \A n \in 1..Len(r) : r[n].item.kind = "user" => n \in 1..Len(q) /\ r[n] = q[n]
      /\ \A x : Ahead(x, q) => Ahead(x, r)
  BY AheadGrown
<1>2. \A i \in 1..Len(d) : d[i].user.of \in Posts
  BY DEF Whole
<1>3. \A n \in 1..Len(q) : q[n].item.kind = "user" => q[n].item.of \in Posts
  BY DEF Chain
<1>4. QED BY <1>1, <1>2, <1>3 DEF Ordered

\* The sender gets to another place, and the server waits as before.
LEMMA ChainGrown ==
  ASSUME NEW q, NEW r, NEW c \in Clients, Grown(q, r, c), NEW pc, NEW pc2, NEW mk, NEW mk2,
         Chain(q, pc, mk), Others(pc, pc2, c),
         \A e \in Clients : \A p : e # c /\ IsNext(p, e, mk) => IsNext(p, e, mk2),
         pc[c] # "gone",
         pc[c] = "user" => r[Len(q) + 1].item.kind = "user",
         pc[c] = "text" => \A p : IsNext(p, c, mk) => r[Len(q) + 1].item = [kind |-> "text", of |-> p],
         \A n \in (Len(q) + 1)..Len(r) :
           /\ Due(r, n, c, r[n].item, pc2, mk2)
           /\ r[n].item.kind = "user" => r[n].item.of \in Posts /\ r[n].item.of.by = c
  PROVE  /\ Chain(r, pc2, mk2)
         /\ \A e \in Clients : \A last : Due(q, 0, e, last, pc, mk) => Due(r, 0, e, last, pc2, mk2)
<1>1. /\ Len(q) \in Nat /\ Len(r) \in Nat /\ Len(r) > Len(q)
      /\ \A n \in 1..Len(q) : r[n] = q[n] /\ q[n] \in Wire
      /\ \A n \in (Len(q) + 1)..Len(r) : r[n].from = c
  BY Queue DEF Grown
<1>2. ASSUME NEW n \in 0..Len(q), NEW e \in Clients, NEW last, Due(q, n, e, last, pc, mk)
      PROVE  Due(r, n, e, last, pc2, mk2)
  BY <1>2, DueGrown DEF Others
<1>3. ASSUME NEW n \in 1..Len(r)
      PROVE  /\ Due(r, n, r[n].from, r[n].item, pc2, mk2)
             /\ r[n].item.kind = "user" => r[n].item.of \in Posts /\ r[n].item.of.by = r[n].from
  <2>1. CASE n \in 1..Len(q)
    <3>1. n \in 0..Len(q) /\ r[n] = q[n] /\ q[n].from \in Clients
      BY <1>1, <2>1 DEF Wire
    <3>2. /\ Due(q, n, q[n].from, q[n].item, pc, mk)
          /\ q[n].item.kind = "user" => q[n].item.of \in Posts /\ q[n].item.of.by = q[n].from
      BY <2>1 DEF Chain
    <3>3. QED BY <1>2, <3>1, <3>2
  <2>2. CASE n \notin 1..Len(q)
    <3>1. n \in (Len(q) + 1)..Len(r)
      BY <1>1, <2>2
    <3>2. QED BY <1>1, <3>1
  <2>3. QED BY <2>1, <2>2
<1>4. 0 \in 0..Len(q)
  BY <1>1
<1>5. QED BY <1>2, <1>3, <1>4 DEF Chain

\* A client at the menu sends a command.
LEMMA PostsCommanded ==
  ASSUME NEW q, NEW r, NEW c \in Clients, Grown(q, r, c), Len(r) = Len(q) + 1,
         NEW pc, NEW pc2, NEW mk, NEW d, NEW s, NEW u, NEW e,
         PostsOK(q, d, pc, mk, s, u, e), Others(pc, pc2, c), pc[c] = "menu",
         r[Len(q) + 1].item.kind \in {"1", "2", "exit"},
         r[Len(q) + 1].item.kind = "1" => pc2[c] = "user"
  PROVE  PostsOK(r, d, pc2, mk, s, u, e)
<1>1. Chain(q, pc, mk) /\ Whole(d) /\ Ordered(q, d, pc, mk) /\ Waiting(q, d, pc, mk, s, u, e)
  BY DEF PostsOK
<1>2. Len(q) \in Nat /\ Len(r) \in Nat
  BY LenProperties DEF Grown
<1>3. \A n \in (Len(q) + 1)..Len(r) : n = Len(q) + 1 /\ NoneFrom(r, n, c)
  BY <1>2 DEF NoneFrom
<1>4. \A n \in (Len(q) + 1)..Len(r) :
        Due(r, n, c, r[n].item, pc2, mk) /\ r[n].item.kind # "user"
  BY <1>3 DEF Due
<1>5. /\ Chain(r, pc2, mk)
      /\ \A f \in Clients : \A last : Due(q, 0, f, last, pc, mk) => Due(r, 0, f, last, pc2, mk)
  BY <1>1, <1>4, ChainGrown
<1>6. \A p \in Posts : Known(p, pc, mk) => Known(p, pc2, mk)
  <2>1. \A p \in Posts : p.by \in Clients
    BY BoardsAssumption DEF Basic!BasicBoardAssumption
  <2>2. QED BY <2>1 DEF Known, Others
<1>7. Ordered(r, d, pc2, mk) /\ \A x : Ahead(x, q) => Ahead(x, r)
  <2>1. \A x \in mk, y \in Posts \ mk : Before(x, y)
    BY <1>1 DEF Ordered
  <2>2. \A n \in (Len(q) + 1)..Len(r) : r[n].item.kind # "user"
    BY <1>4
  <2>3. \A x : Ahead(x, q) => Ahead(x, r)
    BY <2>2, AheadGrown
  <2>4. Ordered(r, d, pc2, mk)
    BY <1>1, <1>6, <2>1, <2>2, OrderGrown
  <2>5. QED BY <2>3, <2>4
<1>8. Waiting(r, d, pc2, mk, s, u, e)
  BY <1>1, <1>5, <1>6, <1>7 DEF Waiting
<1>9. QED BY <1>1, <1>5, <1>7, <1>8 DEF PostsOK

\* A client sends the name of its next post.
LEMMA PostsNamed ==
  ASSUME NEW q, NEW r, NEW c \in Clients, Grown(q, r, c), Len(r) = Len(q) + 1,
         NEW pc, NEW pc2, NEW mk, NEW d, NEW s, NEW u, NEW e, NEW p,
         PostsOK(q, d, pc, mk, s, u, e), Others(pc, pc2, c), pc[c] = "user", pc2[c] = "text",
         IsNext(p, c, mk), r[Len(q) + 1].item = [kind |-> "user", of |-> p]
  PROVE  PostsOK(r, d, pc2, mk, s, u, e)
<1>1. Chain(q, pc, mk) /\ Whole(d) /\ Ordered(q, d, pc, mk) /\ Waiting(q, d, pc, mk, s, u, e)
  BY DEF PostsOK
<1>2. /\ Len(q) \in Nat /\ Len(r) \in Nat /\ \A n \in 1..Len(q) : r[n] = q[n]
      /\ p \in Posts \ mk /\ p.by = c
  BY LenProperties DEF Grown, IsNext
<1>3. \A n \in (Len(q) + 1)..Len(r) : n = Len(q) + 1 /\ NoneFrom(r, n, c)
  BY <1>2 DEF NoneFrom
<1>4. \A n \in (Len(q) + 1)..Len(r) :
        /\ Due(r, n, c, r[n].item, pc2, mk)
        /\ r[n].item.kind = "user" => r[n].item.of \in Posts /\ r[n].item.of.by = c
  <2> DEFINE it == [kind |-> "user", of |-> p]
  <2>1. it.kind = "user" /\ it.of = p
    OBVIOUS
  <2> HIDE DEF it
  <2>2. \A n \in (Len(q) + 1)..Len(r) : r[n].item = it
    BY <1>3 DEF it
  <2>3. QED BY <1>2, <1>3, <2>1, <2>2 DEF Due
<1>5. /\ Chain(r, pc2, mk)
      /\ \A f \in Clients : \A last : Due(q, 0, f, last, pc, mk) => Due(r, 0, f, last, pc2, mk)
  <2>1. r[Len(q) + 1].item.kind = "user"
    OBVIOUS
  <2>2. QED BY <1>1, <1>4, <2>1, ChainGrown
<1>6. ASSUME NEW x \in Posts, Known(x, pc, mk)
      PROVE  Known(x, pc2, mk) /\ Before(x, p)
  <2>1. x.by \in Clients
    BY BoardsAssumption DEF Basic!BasicBoardAssumption
  <2>2. CASE x.by = c
    <3>1. x \in mk
      BY <1>6, <2>2 DEF Known
    <3>2. QED BY <1>1, <1>2, <3>1 DEF Known, Ordered
  <2>3. CASE x.by # c
    BY <1>2, <1>6, <2>1, <2>3 DEF Known, Before, Others
  <2>4. QED BY <2>2, <2>3
<1>7. Known(p, pc2, mk)
  BY <1>2 DEF Known
<1>8. \A n \in 1..Len(r) : r[n].item.kind = "user" =>
        \/ n \in 1..Len(q) /\ r[n] = q[n] /\ q[n].item.of \in Posts /\ Known(q[n].item.of, pc, mk)
        \/ n = Len(q) + 1 /\ r[n].item.of = p
  <2> DEFINE it == [kind |-> "user", of |-> p]
  <2>1. it.of = p /\ r[Len(q) + 1].item = it
    OBVIOUS
  <2> HIDE DEF it
  <2>2. \A n \in 1..Len(r) : n \in 1..Len(q) \/ n = Len(q) + 1
    BY <1>2
  <2>3. QED BY <1>1, <1>2, <2>1, <2>2 DEF Chain, Ordered
<1>9. ASSUME NEW x \in Posts, Known(x, pc, mk), Ahead(x, q)
      PROVE  Ahead(x, r)
  BY <1>6, <1>8, <1>9 DEF Ahead
<1>10. Ordered(r, d, pc2, mk)
  <2>1. \A i \in 1..Len(d) : d[i].user.of \in Posts
    BY <1>1 DEF Whole
  <2>2. \A i \in 1..Len(d) : Ahead(d[i].user.of, r) /\ Known(d[i].user.of, pc2, mk)
    BY <1>1, <1>6, <1>9, <2>1 DEF Ordered
  <2>3. ASSUME NEW n \in 1..Len(r), r[n].item.kind = "user"
        PROVE  /\ Known(r[n].item.of, pc2, mk)
               /\ \A m \in 1..Len(r) : m < n /\ r[m].item.kind = "user" => Before(r[m].item.of, r[n].item.of)
    <3>1. CASE n \in 1..Len(q) /\ r[n] = q[n] /\ q[n].item.of \in Posts /\ Known(q[n].item.of, pc, mk)
      <4>1. \A m \in 1..Len(r) : m < n => m \in 1..Len(q) /\ r[m] = q[m]
        BY <1>2, <3>1
      <4>2. QED BY <1>1, <1>6, <2>3, <3>1, <4>1 DEF Ordered
    <3>2. CASE n = Len(q) + 1 /\ r[n].item.of = p
      <4>1. \A m \in 1..Len(r) : m < n => m \in 1..Len(q) /\ m # Len(q) + 1
        BY <1>2, <3>2
      <4>2. QED BY <1>6, <1>7, <1>8, <3>2, <4>1
    <3>3. QED BY <1>8, <2>3, <3>1, <3>2
  <2>4. QED BY <1>1, <2>2, <2>3 DEF Ordered
<1>11. Waiting(r, d, pc2, mk, s, u, e)
  BY <1>1, <1>5, <1>6, <1>9 DEF Waiting
<1>12. QED BY <1>1, <1>5, <1>10, <1>11 DEF PostsOK

\* A client sends the text of its next post.
LEMMA PostsWritten ==
  ASSUME NEW q, NEW r, NEW c \in Clients, Grown(q, r, c),
         NEW pc, NEW pc2, NEW mk, NEW d, NEW s, NEW u, NEW e, NEW p,
         PostsOK(q, d, pc, mk, s, u, e), Others(pc, pc2, c), pc[c] = "text", pc2[c] = "menu",
         IsNext(p, c, mk), r[Len(q) + 1].item = [kind |-> "text", of |-> p],
         \A n \in (Len(q) + 1)..Len(r) : r[n].item.kind \in {"text", "x"}
  PROVE  PostsOK(r, d, pc2, mk \cup {p}, s, u, e)
<1> DEFINE mk2 == mk \cup {p}
<1>1. Chain(q, pc, mk) /\ Whole(d) /\ Ordered(q, d, pc, mk) /\ Waiting(q, d, pc, mk, s, u, e)
  BY DEF PostsOK
<1>2. p \in Posts \ mk /\ p.by = c /\ \A x \in Posts \ mk : x.by = c => p.nr <= x.nr
  BY DEF IsNext
<1>3. \A f \in Clients : \A x : f # c /\ IsNext(x, f, mk) => IsNext(x, f, mk2)
  BY <1>2 DEF IsNext
<1>4. \A n \in (Len(q) + 1)..Len(r) : Due(r, n, c, r[n].item, pc2, mk2) /\ r[n].item.kind # "user"
  BY DEF Due
<1>5. /\ Chain(r, pc2, mk2)
      /\ \A f \in Clients : \A last : Due(q, 0, f, last, pc, mk) => Due(r, 0, f, last, pc2, mk2)
  <2>1. \A x : IsNext(x, c, mk) => r[Len(q) + 1].item = [kind |-> "text", of |-> x]
    BY NextIsOne
  <2> HIDE DEF mk2
  <2>2. QED BY <1>1, <1>3, <1>4, <2>1, ChainGrown
<1>6. \A x \in Posts : Known(x, pc, mk) => Known(x, pc2, mk2)
  <2> TAKE x \in Posts
  <2> HAVE Known(x, pc, mk)
  <2>1. x.by \in Clients
    BY BoardsAssumption DEF Basic!BasicBoardAssumption
  <2>2. CASE x.by = c
    <3>1. x \in mk \/ IsNext(x, c, mk)
      BY <2>2 DEF Known
    <3>2. x \in mk2
      BY <3>1, NextIsOne
    <3>3. QED BY <3>2 DEF Known
  <2>3. CASE x.by # c
    BY <1>3, <2>1, <2>3 DEF Known, Others
  <2>4. QED BY <2>2, <2>3
<1>7. ASSUME NEW x \in mk2, NEW y \in Posts \ mk2
      PROVE  Before(x, y)
  <2>1. CASE x \in mk
    BY <1>1, <2>1 DEF Ordered
  <2>2. CASE x = p
    <3>1. p \in [by : Clients, nr : Nat] /\ y \in [by : Clients, nr : Nat]
      BY <1>2, BoardsAssumption DEF Basic!BasicBoardAssumption
    <3>2. SUFFICES ASSUME y.by = c PROVE p.nr < y.nr
      BY <1>2, <2>2 DEF Before
    <3>3. p.nr <= y.nr /\ y # p
      BY <1>2, <3>2
    <3>4. p.nr # y.nr
      BY <1>2, <3>1, <3>2, <3>3
    <3>5. QED BY <3>1, <3>3, <3>4
  <2>3. QED BY <2>1, <2>2
<1> HIDE DEF mk2
<1>8. Ordered(r, d, pc2, mk2) /\ \A x : Ahead(x, q) => Ahead(x, r)
  <2>1. \A n \in (Len(q) + 1)..Len(r) : r[n].item.kind # "user"
    BY <1>4
  <2>2. Ordered(r, d, pc2, mk2)
    BY <1>1, <1>6, <1>7, <2>1, OrderGrown
  <2>3. QED BY <2>1, <2>2, AheadGrown
<1>9. Waiting(r, d, pc2, mk2, s, u, e)
  BY <1>1, <1>5, <1>6, <1>8 DEF Waiting
<1>10. QED BY <1>1, <1>5, <1>8, <1>9 DEF PostsOK, mk2

\* A client reads, or goes.
LEMMA PostsAside ==
  ASSUME NEW q \in Seq(Wire), NEW pc, NEW pc2, NEW mk, NEW d, NEW s, NEW u, NEW e,
         PostsOK(q, d, pc, mk, s, u, e),
         \A f \in Clients : pc[f] \in {"user", "text", "gone"} => pc2[f] \in {pc[f], "gone"}
  PROVE  PostsOK(q, d, pc2, mk, s, u, e)
<1>1. Chain(q, pc, mk) /\ Whole(d) /\ Ordered(q, d, pc, mk) /\ Waiting(q, d, pc, mk, s, u, e)
  BY DEF PostsOK
<1>2. \A n : \A f \in Clients : \A last : Due(q, n, f, last, pc, mk) => Due(q, n, f, last, pc2, mk)
  BY DEF Due
<1>3. \A n \in 1..Len(q) : q[n].from \in Clients
  <2>1. \A n \in 1..Len(q) : q[n] \in Wire
    BY Queue
  <2>2. QED BY <2>1 DEF Wire
<1>4. Chain(q, pc2, mk)
  BY <1>1, <1>2, <1>3 DEF Chain
<1>5. \A p \in Posts : Known(p, pc, mk) => Known(p, pc2, mk)
  <2>1. \A p \in Posts : p.by \in Clients
    BY BoardsAssumption DEF Basic!BasicBoardAssumption
  <2>2. QED BY <2>1 DEF Known
<1>6. Ordered(q, d, pc2, mk)
  <2>1. \A i \in 1..Len(d) : d[i].user.of \in Posts
    BY <1>1 DEF Whole
  <2>2. \A n \in 1..Len(q) : q[n].item.kind = "user" => q[n].item.of \in Posts
    BY <1>1 DEF Chain
  <2>3. QED BY <1>1, <1>5, <2>1, <2>2 DEF Ordered
<1>7. Waiting(q, d, pc2, mk, s, u, e)
  BY <1>1, <1>2, <1>5 DEF Waiting
<1>8. QED BY <1>1, <1>4, <1>6, <1>7 DEF PostsOK

\* The server receives a command; the command 1 makes it wait for a name.
LEMMA PostsReadCommand ==
  ASSUME NEW q, NEW r \in Seq(Wire), NEW item, NEW c \in Clients, Received(q, item, c, r),
         NEW pc, NEW mk, NEW d, NEW s, NEW s2, NEW u, NEW e,
         PostsOK(q, d, pc, mk, s, u, e), s2 # "text", s2 = "user" => item.kind = "1"
  PROVE  PostsOK(r, d, pc, mk, s2, u, c)
<1>1. Chain(q, pc, mk) /\ Whole(d) /\ Ordered(q, d, pc, mk)
  BY DEF PostsOK
<1>2. Chain(r, pc, mk) /\ Ordered(r, d, pc, mk)
  BY <1>1, ChainReceived, OrderReceived
<1>3. ASSUME s2 = "user" PROVE Due(r, 0, c, [kind |-> "1", of |-> None], pc, mk)
  <2>1. item = q[1].item /\ Drop(q, 1, r) /\ q \in Seq(Wire) /\ q[1].from = c /\ item.kind = "1"
    BY <1>3 DEF Received
  <2>2. Due(q, 0 + 1, c, item, pc, mk)
    BY <1>1, <2>1 DEF Chain, Drop
  <2>3. Due(r, 0, c, item, pc, mk)
    BY <2>1, <2>2, DueDropped
  <2> DEFINE one == [kind |-> "1", of |-> None]
  <2>4. one.kind = "1"
    OBVIOUS
  <2> HIDE DEF one
  <2>5. Due(r, 0, c, one, pc, mk)
    BY <2>1, <2>3, <2>4 DEF Due
  <2>6. QED BY <2>5 DEF one
<1>4. Waiting(r, d, pc, mk, s2, u, c)
  BY <1>3 DEF Waiting
<1>5. QED BY <1>1, <1>2, <1>4 DEF PostsOK

\* The server receives the name it waited for.
LEMMA PostsReadUser ==
  ASSUME NEW q, NEW r \in Seq(Wire), NEW item, NEW c, Received(q, item, c, r),
         NEW pc, NEW mk, NEW d, NEW u, PostsOK(q, d, pc, mk, "user", u, c)
  PROVE  PostsOK(r, d, pc, mk, "text", item, c)
<1>1. /\ Chain(q, pc, mk) /\ Whole(d) /\ Ordered(q, d, pc, mk) /\ c \in Clients
      /\ Due(q, 0, c, [kind |-> "1", of |-> None], pc, mk)
  BY DEF PostsOK, Waiting
<1>2. Chain(r, pc, mk) /\ Ordered(r, d, pc, mk)
  BY <1>1, ChainReceived, OrderReceived
<1>3. item.kind = "user"
  <2> DEFINE one == [kind |-> "1", of |-> None]
  <2>1. one.kind = "1" /\ Due(q, 0, c, one, pc, mk)
    BY <1>1
  <2> HIDE DEF one
  <2>2. QED BY <2>1, DueReceived
<1>4. /\ Ahead(item.of, r) /\ Known(item.of, pc, mk)
      /\ \A i \in 1..Len(d) : Before(d[i].user.of, item.of)
  BY <1>1, <1>3, OrderReceived
<1>5. item = q[1].item /\ Drop(q, 1, r) /\ q \in Seq(Wire) /\ q[1].from = c
  BY <1>3 DEF Received
<1>6. Due(q, 0 + 1, c, item, pc, mk) /\ item.of \in Posts
  BY <1>1, <1>3, <1>5 DEF Chain, Drop
<1>7. Due(r, 0, c, item, pc, mk)
  BY <1>5, <1>6, DueDropped
<1>8. Waiting(r, d, pc, mk, "text", item, c)
  BY <1>1, <1>3, <1>4, <1>6, <1>7 DEF Waiting
<1>9. QED BY <1>1, <1>2, <1>8 DEF PostsOK

\* The server receives the text it waited for, and stores the post.
LEMMA PostsReadText ==
  ASSUME NEW q, NEW r \in Seq(Wire), NEW item, NEW c, Received(q, item, c, r),
         NEW pc, NEW mk, NEW d, NEW d2, NEW u, NEW s2, NEW e, PostsOK(q, d, pc, mk, "text", u, c),
         s2 \notin {"user", "text"}, Len(d) \in Nat, Len(d2) \in Nat,
         d2[1] = [user |-> u, text |-> item],
         \A i \in 2..Len(d2) : i - 1 \in 1..Len(d) /\ d2[i] = d[i - 1]
  PROVE  PostsOK(r, d2, pc, mk, s2, u, e)
<1>1. /\ Chain(q, pc, mk) /\ Whole(d) /\ Ordered(q, d, pc, mk)
      /\ u.kind = "user" /\ u.of \in Posts /\ Due(q, 0, c, u, pc, mk)
      /\ Ahead(u.of, q) /\ Known(u.of, pc, mk)
      /\ \A i \in 1..Len(d) : Before(d[i].user.of, u.of)
  BY DEF PostsOK, Waiting
<1>2. Chain(r, pc, mk) /\ Ordered(r, d, pc, mk) /\ Ahead(u.of, r)
  BY <1>1, ChainReceived, OrderReceived
<1>3. item = [kind |-> "text", of |-> u.of]
  BY <1>1, DueReceived
<1>4. d2[1].user = u /\ d2[1].text = [kind |-> "text", of |-> u.of]
  BY <1>3
<1>5. \A i \in 1..Len(d2) : i = 1 \/ (i - 1 \in 1..Len(d) /\ d2[i] = d[i - 1])
  <2> TAKE i \in 1..Len(d2)
  <2>1. i = 1 \/ i \in 2..Len(d2)
    OBVIOUS
  <2>2. QED BY <2>1
<1>6. Whole(d2)
  <2>1. ASSUME NEW i \in 1..Len(d2)
        PROVE  /\ d2[i].user.kind = "user" /\ d2[i].user.of \in Posts
               /\ d2[i].text = [kind |-> "text", of |-> d2[i].user.of]
    <3>1. CASE i = 1
      BY <1>1, <1>4, <3>1
    <3>2. CASE i - 1 \in 1..Len(d) /\ d2[i] = d[i - 1]
      BY <1>1, <3>2 DEF Whole
    <3>3. QED BY <1>5, <3>1, <3>2
  <2>2. ASSUME NEW i \in 1..Len(d2), NEW j \in 1..Len(d2), i < j
        PROVE  Before(d2[j].user.of, d2[i].user.of)
    <3>1. j # 1
      BY <2>2
    <3>2. j - 1 \in 1..Len(d) /\ d2[j] = d[j - 1]
      BY <1>5, <3>1
    <3>3. CASE i = 1
      BY <1>1, <1>4, <3>2, <3>3
    <3>4. CASE i - 1 \in 1..Len(d) /\ d2[i] = d[i - 1]
      <4>1. i - 1 < j - 1
        BY <2>2
      <4>2. QED BY <1>1, <3>2, <3>4, <4>1 DEF Whole
    <3>5. QED BY <1>5, <3>3, <3>4
  <2>3. QED BY <2>1, <2>2 DEF Whole
<1>7. Ordered(r, d2, pc, mk)
  <2>1. \A i \in 1..Len(d2) : Ahead(d2[i].user.of, r) /\ Known(d2[i].user.of, pc, mk)
    BY <1>1, <1>2, <1>4, <1>5 DEF Ordered
  <2>2. QED BY <1>2, <2>1 DEF Ordered
<1>8. QED BY <1>2, <1>6, <1>7 DEF PostsOK, Waiting

-----------------------------------------------------------------------------
(* Listings.                                                                *)

\* The FlattenSeq that BasicBoard sees is that of this module.
LEMMA SameFlatten ==
  ASSUME NEW s
  PROVE  Basic!FlattenSeq(s) = FlattenSeq(s)
BY Zenon DEF Basic!FlattenSeq, FlattenSeq

\* A listing has two messages for every entry.
LEMMA FlatIs ==
  ASSUME NEW d \in Seq(Entries)
  PROVE  Flat(d) \in Seq(Things) /\ Len(Flat(d)) = 2 * Len(d)
<1> DEFINE n == Len(d)
           ss == [i \in DOMAIN d |-> <<d[i].user, d[i].text>>]
<1>1. n \in Nat /\ DOMAIN d = 1..n /\ \A i \in 1..n : d[i] \in Entries
  BY Queue
<1> HIDE DEF n
<1>2. ASSUME NEW i \in 1..n
      PROVE  <<d[i].user, d[i].text>> \in Seq(Things) /\ Len(<<d[i].user, d[i].text>>) = 2
  <2>1. d[i].user \in Things /\ d[i].text \in Things
    BY <1>1 DEF Entries
  <2>2. QED BY <2>1
<1>3. ss = [i \in 1..n |-> <<d[i].user, d[i].text>>]
  BY <1>1
<1>4. ss \in [1..n -> Seq(Things)] /\ \A i \in 1..n : Len(ss[i]) = 2
  BY <1>2, <1>3
<1>5. Flat(d) = FlattenSeq(ss)
  BY DEF Flat
<1> HIDE DEF ss
<1>6. QED BY <1>1, <1>4, <1>5, FlattenType, FlattenPairs DEF n

\* The board counts to a number of its messages.
LEMMA CountIs ==
  ASSUME BasicTypes
  PROVE  Basic!CountData \in 0..Len(newest)
<1> DEFINE l == Len(newest)
           named == {n \in 0..l : \A i \in 1..n : ~Basic!IsNameless(newest[i])}
           T == {l - n : n \in named}
<1>1. l \in Nat
  BY LenProperties DEF BasicTypes
<1>2. Basic!CountData = CHOOSE n \in named : \A m \in named : m <= n
  BY DEF Basic!CountData
<1> HIDE DEF l
<1>3. 0 \in named
  BY <1>1
<1>4. T \in SUBSET Nat /\ T # {}
  BY <1>1, <1>3
<1> HIDE DEF T
<1>5. PICK t \in T : \A y \in T : t <= y
  BY <1>4, Least
<1>6. PICK n \in named : t = l - n
  BY DEF T
<1>7. \A m \in named : m <= n
  <2> TAKE m \in named
  <2>1. l - m \in T
    BY DEF T
  <2>2. l - n <= l - m /\ m \in 0..l /\ n \in 0..l
    BY <1>5, <1>6, <2>1
  <2>3. QED BY <1>1, <2>2
<1>8. Basic!CountData \in named
  BY <1>2, <1>6, <1>7
<1>9. QED BY <1>8 DEF l

\* A listing is the number of messages of a part of the board, and the messages.
LEMMA AnswerIs ==
  ASSUME BasicTypes
  PROVE  LET d == SubSeq(newest, 1, Basic!CountData) IN
         /\ d \in Seq(Entries) /\ Len(d) <= MCSize
         /\ Basic!Listing = <<[kind |-> "count", of |-> Len(d)]>> \o Flat(d)
         /\ Basic!Listing \in Seq(Things) /\ Len(Basic!Listing) # 0
         /\ Basic!Last(Basic!Listing) \in Things
<1> DEFINE n == Basic!CountData
           d == SubSeq(newest, 1, n)
           count == [kind |-> "count", of |-> n]
           one == <<count>>
<1>1. /\ newest \in Seq(Entries) /\ Len(newest) \in Nat /\ Len(newest) <= MCSize
      /\ n \in 0..Len(newest) /\ \A i \in 1..Len(newest) : newest[i] \in Entries
      /\ MCSize \in Nat
  BY CountIs, Queue, BoardsAssumption DEF BasicTypes, Basic!BasicBoardAssumption
<1>2. d \in Seq(Entries) /\ Len(d) = n /\ DOMAIN d = 1..n /\ \A i \in 1..n : d[i] = newest[i]
  <2>1. \A i \in 1..n : newest[i] \in Entries
    BY <1>1
  <2>2. /\ d \in Seq(Entries) /\ Len(d) = IF 1 <= n THEN n - 1 + 1 ELSE 0
        /\ \A i \in 1..(n - 1 + 1) : d[i] = newest[1 + i - 1]
    BY <1>1, <2>1, SubSeqProperties
  <2>3. Len(d) = n
    BY <1>1, <2>2
  <2>4. DOMAIN d = 1..n
    BY <2>2, <2>3, LenProperties
  <2>5. QED BY <1>1, <2>2, <2>3, <2>4
<1>3. [i \in 1..n |-> <<newest[i].user, newest[i].text>>] = [i \in DOMAIN d |-> <<d[i].user, d[i].text>>]
  BY <1>2
<1>4. Basic!Listing = one \o Flat(d)
  BY <1>3, SameFlatten DEF Basic!Listing, Basic!Item, Flat
<1>5. count \in Things
  BY <1>1 DEF Things
<1>6. one \in Seq(Things) /\ Len(one) = 1
  <2> HIDE DEF count
  <2>1. QED BY <1>5
<1> HIDE DEF n, d, one
<1>7. /\ one \o Flat(d) \in Seq(Things)
      /\ Len(one \o Flat(d)) = 1 + Len(Flat(d)) /\ Len(Flat(d)) \in Nat
  <2>1. Flat(d) \in Seq(Things)
    BY <1>2, FlatIs
  <2>2. one \o Flat(d) \in Seq(Things) /\ Len(one \o Flat(d)) = Len(one) + Len(Flat(d))
    BY <1>6, <2>1, ConcatProperties
  <2>3. Len(Flat(d)) \in Nat
    BY <2>1, LenProperties
  <2>4. QED BY <1>6, <2>2, <2>3
<1>8. /\ Basic!Listing \in Seq(Things) /\ Len(Basic!Listing) # 0
      /\ Len(Basic!Listing) \in 1..Len(Basic!Listing)
  BY <1>4, <1>7
<1>9. Basic!Last(Basic!Listing) \in Things
  BY <1>8, ElementOfSeq DEF Basic!Last
<1>10. Len(d) <= MCSize
  BY <1>1, <1>2
<1>11. QED BY <1>2, <1>4, <1>8, <1>9, <1>10 DEF d, one, n

\* What one message is sent as.
LEMMA LongIs ==
  ASSUME NEW item \in Things
  PROVE  /\ Basic!Long(item) \in Seq(Things) /\ Len(Basic!Long(item)) # 0 /\ Basic!Long(item)[1] = item
         /\ \A n \in 2..Len(Basic!Long(item)) : Basic!Long(item)[n].kind = "x"
         /\ transport = "udp" => Basic!Long(item) = <<item>>
<1> DEFINE e == Basic!Extra
<1>1. e \in Things /\ e.kind = "x"
  BY DEF Basic!Extra, Basic!Item, Things
<1>2. Basic!Long(item) = IF transport = "tcp" THEN <<item, e>> ELSE <<item>>
  BY DEF Basic!Long
<1> HIDE DEF e
<1>3. CASE transport = "tcp"
  BY <1>1, <1>2, <1>3
<1>4. CASE transport # "tcp"
  BY <1>2, <1>4
<1>5. QED BY <1>3, <1>4

\* What a listing is sent as; over UDP it is the listing.
LEMMA SentListing ==
  ASSUME BasicTypes
  PROVE  LET s == Basic!FlattenSeq([i \in DOMAIN Basic!Listing |-> Basic!Long(Basic!Listing[i])]) IN
         s \in Seq(Things) /\ (transport = "udp" => s = Basic!Listing)
<1> DEFINE l == Basic!Listing
           ss == [i \in DOMAIN l |-> Basic!Long(l[i])]
<1>1. l \in Seq(Things) /\ Len(l) \in Nat /\ DOMAIN l = 1..Len(l) /\ \A i \in 1..Len(l) : l[i] \in Things
  BY AnswerIs, Queue
<1> HIDE DEF l
<1>2. FlattenSeq(ss) \in Seq(Things)
  <2>1. ss \in [1..Len(l) -> Seq(Things)]
    BY <1>1, LongIs
  <2> HIDE DEF ss
  <2>2. QED BY <1>1, <2>1, FlattenType
<1>3. ASSUME transport = "udp" PROVE FlattenSeq(ss) = l
  <2>1. \A i \in DOMAIN l : Basic!Long(l[i]) = <<l[i]>>
    BY <1>1, <1>3, LongIs
  <2>2. ss = [i \in DOMAIN l |-> <<l[i]>>]
    BY <2>1
  <2> HIDE DEF ss
  <2>3. QED BY <1>1, <2>2, FlattenSingles
<1>4. QED BY <1>2, <1>3, SameFlatten DEF l

\* One recv of a client.
LEMMA ClientRecvIs ==
  ASSUME BasicTypes, NEW c \in Clients, Basic!ClientRecv(c)
  PROVE  /\ toClient[c] # << >> /\ Basic!ClientTaken(c) \in Things
         /\ toClient' \in [Clients -> Seq(Things)]
         /\ \A e \in Clients : e # c => toClient'[e] = toClient[e]
         /\ transport = "udp" => /\ Basic!ClientTaken(c) = Head(toClient[c])
                                 /\ toClient'[c] = Tail(toClient[c])
<1> DEFINE s == toClient[c]
<1>1. s \in Seq(Things) /\ s # << >>
  BY DEF BasicTypes, Basic!ClientRecv
<1>2. Head(s) \in Things /\ Tail(s) \in Seq(Things)
  BY <1>1, HeadTailProperties
<1>3. Basic!Rest(s) \in Seq(Things) /\ Basic!Taken(s) \in Things
  <2>1. Len(s) # 0
    BY <1>1, EmptySeq
  <2>2. Basic!Rest(s) \in Seq(Things)
    BY <1>1, <2>1, RestIs, EmptySeq
  <2>3. Basic!Spoiled \in Things
    BY DEF Basic!Spoiled, Basic!Item, Things
  <2>4. QED BY <1>2, <2>2, <2>3 DEF Basic!Taken
<1>4. toClient' = [toClient EXCEPT ![c] = IF transport = "udp" THEN Tail(s) ELSE Basic!Rest(s)]
  BY DEF Basic!ClientRecv
<1>5. toClient \in [Clients -> Seq(Things)]
  BY DEF BasicTypes
<1> HIDE DEF s
<1>6. QED BY <1>1, <1>2, <1>3, <1>4, <1>5 DEF Basic!ClientTaken, s

\* What a client sends stands behind what is under way.
LEMMA SentIs ==
  ASSUME BasicTypes, NEW c \in Clients, NEW items \in Seq(Things), Len(items) # 0,
         Basic!SendServer(c, items)
  PROVE  /\ Grown(toServer, toServer', c) /\ Len(toServer') = Len(toServer) + Len(items)
         /\ \A n \in 1..Len(items) : toServer'[Len(toServer) + n].item = items[n]
         /\ Len(toServer) \in Nat /\ Len(items) \in Nat
<1> DEFINE q == toServer
           more == [i \in DOMAIN items |-> [item |-> items[i], from |-> c]]
<1>1. /\ q \in Seq(Wire) /\ Len(q) \in Nat /\ Len(items) \in Nat /\ DOMAIN items = 1..Len(items)
      /\ \A i \in 1..Len(items) : items[i] \in Things
  BY Queue DEF BasicTypes
<1>2. /\ more \in Seq(Wire) /\ Len(more) = Len(items)
      /\ \A i \in 1..Len(items) : more[i].item = items[i] /\ more[i].from = c
  <2>1. more = [i \in 1..Len(items) |-> [item |-> items[i], from |-> c]]
    BY <1>1
  <2>2. \A i \in 1..Len(items) : [item |-> items[i], from |-> c] \in Wire
    BY <1>1 DEF Wire
  <2>3. more \in Seq(Wire)
    BY <1>1, <2>1, <2>2, IsASeq
  <2>4. QED BY <1>1, <2>1, <2>3
<1> HIDE DEF more
<1>3. toServer' = q \o more
  BY DEF Basic!SendServer, more
<1>4. /\ q \o more \in Seq(Wire) /\ Len(q \o more) = Len(q) + Len(items)
      /\ \A i \in 1..(Len(q) + Len(items)) : (q \o more)[i] = IF i <= Len(q) THEN q[i] ELSE more[i - Len(q)]
  <2>1. /\ q \o more \in Seq(Wire) /\ Len(q \o more) = Len(q) + Len(more)
        /\ \A i \in 1..(Len(q) + Len(more)) : (q \o more)[i] = IF i <= Len(q) THEN q[i] ELSE more[i - Len(q)]
    <3>1. q \in Seq(Wire) /\ more \in Seq(Wire)
      BY <1>1, <1>2
    <3>2. QED BY <3>1, ConcatProperties
  <2>2. QED BY <1>2, <2>1
<1>5. \A n \in 1..Len(q) : toServer'[n] = q[n]
  BY <1>1, <1>3, <1>4
<1>6. ASSUME NEW n \in (Len(q) + 1)..(Len(q) + Len(items)) PROVE toServer'[n].from = c
  <2>1. n - Len(q) \in 1..Len(items) /\ ~(n <= Len(q)) /\ n \in 1..(Len(q) + Len(items))
    BY <1>1
  <2>2. QED BY <1>2, <1>3, <1>4, <2>1
<1>7. ASSUME NEW n \in 1..Len(items) PROVE toServer'[Len(q) + n].item = items[n]
  <2>1. Len(q) + n \in 1..(Len(q) + Len(items)) /\ ~(Len(q) + n <= Len(q)) /\ (Len(q) + n) - Len(q) = n
    BY <1>1
  <2>2. QED BY <1>2, <1>3, <1>4, <2>1
<1>8. Len(toServer') > Len(q)
  BY <1>1, <1>3, <1>4
<1>9. QED BY <1>1, <1>3, <1>4, <1>5, <1>6, <1>7, <1>8 DEF Grown

\* A message is put on the board: it is the first one, and the last one may go.
LEMMA InsetIs ==
  ASSUME BasicTypes, NEW e \in Entries, Basic!InsetMessage(e)
  PROVE  /\ newest' \in Seq(Entries) /\ Len(newest') <= MCSize /\ newest'[1] = e
         /\ Len(newest) \in Nat /\ Len(newest') \in Nat
         /\ \A i \in 2..Len(newest') : i - 1 \in 1..Len(newest) /\ newest'[i] = newest[i - 1]
<1> DEFINE one == <<e>>
           n == IF Len(newest) < MCSize THEN Len(newest) ELSE MCSize - 1
           old == SubSeq(newest, 1, n)
<1>1. /\ newest \in Seq(Entries) /\ Len(newest) \in Nat /\ Len(newest) <= MCSize
      /\ \A i \in 1..Len(newest) : newest[i] \in Entries
      /\ MCSize \in Nat \ {0} /\ n \in 0..Len(newest) /\ n < MCSize
  BY Queue, BoardsAssumption DEF BasicTypes, Basic!BasicBoardAssumption
<1>2. newest' = one \o old
  <2>1. SubSeq(newest, 1, Len(newest)) = newest
    BY <1>1, SubSeqFull
  <2>2. QED BY <2>1 DEF Basic!InsetMessage
<1> HIDE DEF n
<1>3. old \in Seq(Entries) /\ Len(old) = n /\ \A i \in 1..n : old[i] = newest[i]
  <2>1. \A i \in 1..n : newest[i] \in Entries
    BY <1>1
  <2>2. /\ old \in Seq(Entries) /\ Len(old) = IF 1 <= n THEN n - 1 + 1 ELSE 0
        /\ \A i \in 1..(n - 1 + 1) : old[i] = newest[1 + i - 1]
    BY <1>1, <2>1, SubSeqProperties
  <2>3. QED BY <1>1, <2>2
<1>4. one \in Seq(Entries) /\ Len(one) = 1 /\ one[1] = e
  OBVIOUS
<1> HIDE DEF old, one
<1>5. /\ one \o old \in Seq(Entries) /\ Len(one \o old) = 1 + n
      /\ \A i \in 1..(1 + n) : (one \o old)[i] = IF i <= 1 THEN one[i] ELSE old[i - 1]
  <2>1. /\ one \o old \in Seq(Entries) /\ Len(one \o old) = Len(one) + Len(old)
        /\ \A i \in 1..(Len(one) + Len(old)) :
             (one \o old)[i] = IF i <= Len(one) THEN one[i] ELSE old[i - Len(one)]
    BY <1>3, <1>4, ConcatProperties
  <2>2. QED BY <1>3, <1>4, <2>1
<1>6. newest'[1] = e
  <2>1. 1 \in 1..(1 + n)
    BY <1>1
  <2>2. QED BY <1>2, <1>4, <1>5, <2>1
<1>7. ASSUME NEW i \in 2..(1 + n)
      PROVE  i - 1 \in 1..Len(newest) /\ newest'[i] = newest[i - 1]
  <2>1. i \in 1..(1 + n) /\ ~(i <= 1) /\ i - 1 \in 1..n /\ i - 1 \in 1..Len(newest)
    BY <1>1
  <2>2. QED BY <1>2, <1>3, <1>5, <2>1
<1>8. 1 + n \in Nat /\ 1 + n <= MCSize
  BY <1>1
<1>9. QED BY <1>1, <1>2, <1>5, <1>6, <1>7, <1>8

\* What client c has asked for, when one of the clients sends.
LEMMA AskedGrown ==
  ASSUME NEW q, NEW r, NEW c, Grown(q, r, c), Len(r) = Len(q) + 1 \/ r[Len(q) + 1].item.kind # "2",
         \A n \in (Len(q) + 2)..Len(r) : r[n].item.kind # "2"
  PROVE  /\ \A e : e # c => Asked(r, e) = Asked(q, e)
         /\ r[Len(q) + 1].item.kind # "2" => Asked(r, c) = Asked(q, c)
         /\ Asked(q, c) = {} => \A m, n \in Asked(r, c) : m = n
<1>1. /\ Len(q) \in Nat /\ Len(r) \in Nat /\ Len(r) > Len(q)
      /\ \A n \in 1..Len(q) : r[n] = q[n] /\ n \in 1..Len(r)
      /\ \A n \in 1..Len(r) : n \in 1..Len(q) \/ n = Len(q) + 1 \/ n \in (Len(q) + 2)..Len(r)
  BY LenProperties DEF Grown
<1>2. \A n \in (Len(q) + 1)..Len(r) : r[n].from = c
  BY DEF Grown
<1>3. Len(q) + 1 \in (Len(q) + 1)..Len(r) /\ \A n \in (Len(q) + 2)..Len(r) : n \in (Len(q) + 1)..Len(r)
  BY <1>1
<1>4. \A e : e # c => Asked(r, e) = Asked(q, e)
  BY <1>1, <1>2, <1>3 DEF Asked
<1>5. r[Len(q) + 1].item.kind # "2" => Asked(r, c) = Asked(q, c)
  BY <1>1 DEF Asked
<1>6. \A n \in Asked(r, c) : n \in Asked(q, c) \/ n = Len(q) + 1
  BY <1>1 DEF Asked
<1>7. QED BY <1>4, <1>5, <1>6

\* The same, when the first message is received.
LEMMA AskedDropped ==
  ASSUME NEW q \in Seq(Wire), NEW r \in Seq(Wire), Drop(q, 1, r), NEW c
  PROVE  /\ Asked(q, c) = {} => Asked(r, c) = {}
         /\ (\A m, n \in Asked(q, c) : m = n) =>
              /\ \A m, n \in Asked(r, c) : m = n
              /\ q[1].from = c /\ q[1].item.kind = "2" => Asked(r, c) = {}
<1>1. \A n \in 1..Len(r) : n + 1 \in 1..Len(q) /\ r[n] = q[n + 1] /\ n \in Nat
  <2>1. /\ \A n \in 1..Len(r) : n >= 1 => n + 1 \in 1..Len(q) /\ r[n] = q[n + 1]
    BY Dropped
  <2>2. \A n \in 1..Len(r) : n >= 1 /\ n \in Nat
    OBVIOUS
  <2>3. QED BY <2>1, <2>2
<1>2. \A n \in Asked(r, c) : n + 1 \in Asked(q, c) /\ n \in Nat
  BY <1>1 DEF Asked
<1>3. 1 \in 1..Len(q)
  BY DEF Drop
<1>4. q[1].from = c /\ q[1].item.kind = "2" => 1 \in Asked(q, c)
  BY <1>3 DEF Asked
<1>5. \A n \in Asked(r, c) : n + 1 # 1
  BY <1>1, <1>2 DEF Asked
<1>6. (\A m, n \in Asked(q, c) : m = n) => \A m, n \in Asked(r, c) : m = n
  <2> HAVE \A m, n \in Asked(q, c) : m = n
  <2> TAKE m \in Asked(r, c), n \in Asked(r, c)
  <2>1. m + 1 = n + 1 /\ m \in Nat /\ n \in Nat
    BY <1>2
  <2>2. QED BY <2>1
<1>7. QED BY <1>2, <1>4, <1>5, <1>6

\* A client that reads a listing goes on to the next message of it.
LEMMA ReadOn ==
  ASSUME NEW g \in Seq(Things), NEW tc \in Seq(Things), tc # << >>
  PROVE  /\ Append(g, Head(tc)) \in Seq(Things) /\ Append(g, Head(tc)) \o Tail(tc) = g \o tc
         /\ Len(Tail(tc)) = Len(tc) - 1 /\ Len(tc) \in Nat /\ Tail(tc) \in Seq(Things)
<1> DEFINE h == Head(tc)
           one == <<h>>
<1>1. /\ h \in Things /\ Tail(tc) \in Seq(Things) /\ Len(Tail(tc)) = Len(tc) - 1
      /\ Len(tc) \in Nat /\ 1 \in 1..Len(tc) /\ Len(tc) \in 1..Len(tc) /\ h = tc[1]
  BY HeadTailProperties, LenProperties, EmptySeq
<1>2. tc = one \o Tail(tc)
  <2>1. SubSeq(tc, 1, Len(tc)) = <<tc[1]>> \o SubSeq(tc, 1 + 1, Len(tc))
    BY <1>1, SubSeqRecursiveFirst
  <2>2. SubSeq(tc, 1, Len(tc)) = tc /\ Tail(tc) = SubSeq(tc, 2, Len(tc)) /\ 1 + 1 = 2
    BY SubSeqFull, TailIsSubSeq
  <2>3. QED BY <1>1, <2>1, <2>2
<1>3. one \in Seq(Things)
  BY <1>1
<1>4. Append(g, h) = g \o one /\ Append(g, h) \in Seq(Things)
  BY <1>1, AppendIsConcat, AppendProperties
<1> HIDE DEF one
<1>5. (g \o one) \o Tail(tc) = g \o (one \o Tail(tc))
  BY <1>1, <1>3, ConcatAssociative
<1>6. QED BY <1>1, <1>2, <1>4, <1>5

\* The first element of a sequence that begins with it, and the others.
LEMMA HeadTailOfOne ==
  ASSUME NEW x \in Things, NEW s \in Seq(Things)
  PROVE  Head(<<x>> \o s) = x /\ Tail(<<x>> \o s) = s
<1> DEFINE one == <<x>>
           t == one \o s
<1>1. one \in Seq(Things) /\ Len(one) = 1 /\ one[1] = x /\ Len(s) \in Nat
  BY LenProperties
<1> HIDE DEF one
<1>2. /\ t \in Seq(Things) /\ Len(t) = Len(one) + Len(s)
      /\ \A i \in 1..(Len(one) + Len(s)) : t[i] = IF i <= Len(one) THEN one[i] ELSE s[i - Len(one)]
  BY <1>1, ConcatProperties
<1> HIDE DEF t
<1>3. t # << >> /\ t[1] = x /\ \A i \in 1..Len(s) : t[i + 1] = s[i]
  <2>1. 1 \in 1..(Len(one) + Len(s)) /\ 1 <= Len(one) /\ Len(t) # 0
    BY <1>1, <1>2
  <2>2. ASSUME NEW i \in 1..Len(s) PROVE t[i + 1] = s[i]
    <3>1. i + 1 \in 1..(Len(one) + Len(s)) /\ ~(i + 1 <= Len(one)) /\ (i + 1) - Len(one) = i
      BY <1>1
    <3>2. QED BY <1>2, <3>1
  <2>3. QED BY <1>1, <1>2, <2>1, <2>2
<1>4. /\ Head(t) = t[1] /\ Tail(t) \in Seq(Things) /\ Len(Tail(t)) = Len(s)
      /\ \A i \in 1..Len(Tail(t)) : Tail(t)[i] = t[i + 1]
  <2>1. /\ Tail(t) \in Seq(Things) /\ Len(Tail(t)) = Len(t) - 1
        /\ \A i \in 1..Len(Tail(t)) : Tail(t)[i] = t[i + 1]
    BY <1>2, <1>3, HeadTailProperties
  <2>2. Len(t) - 1 = Len(s)
    BY <1>1, <1>2
  <2>3. Head(t) = t[1]
    BY <1>2, <1>3
  <2>4. QED BY <2>1, <2>2, <2>3
<1>5. Tail(t) = s
  BY <1>3, <1>4, SeqEqual
<1>6. QED BY <1>3, <1>4, <1>5 DEF t, one

-----------------------------------------------------------------------------
(* The steps of the server and of a client.                                 *)

\* The messages over TCP come from the one client that was accepted.
LEMMA ReceivedFrom ==
  ASSUME BasicTypes, NEW item, NEW from \in Clients, Basic!ServerRecv(item, from)
  PROVE  transport = "tcp" =>
           /\ \A n \in 1..Len(toServer') : toServer'[n].from = CHOOSE c \in Clients : TRUE
           /\ ~Basic!Hungup => from = CHOOSE c \in Clients : TRUE
<1> HAVE transport = "tcp"
<1>1. \A n \in 1..Len(toServer) : toServer[n].from = CHOOSE c \in Clients : TRUE
  BY DEF BasicTypes
<1>2. CASE Received(toServer, item, from, toServer')
  <2>1. toServer \in Seq(Wire) /\ toServer # << >> /\ from = toServer[1].from /\ toServer' \in Seq(Wire)
    BY <1>2, RecvIs DEF Received
  <2>2. 1 \in 1..Len(toServer)
    BY <2>1, EmptySeq
  <2>3. \A n \in 1..Len(toServer') : \E m \in 1..Len(toServer) : toServer'[n] = toServer[m]
    BY <1>2, <2>1, Remaining
  <2>4. QED BY <1>1, <2>1, <2>2, <2>3
<1>3. CASE Basic!Hungup /\ UNCHANGED toServer
  BY <1>1, <1>3
<1>4. QED BY <1>2, <1>3, RecvIs

\* A message that is received leaves the listings as they are.
LEMMA ListingTaken ==
  ASSUME BasicTypes, ListingInv, transport = "udp" => Drop(toServer, 1, toServer'), toServer' \in Seq(Wire),
         UNCHANGED <<transport, faults, cpc, left, got, toClient, boards>>
  PROVE  ListingInv'
<1> SUFFICES ASSUME transport = "udp", faults = 0, NEW c \in Clients
             PROVE  /\ cpc[c] \in {"menu", "user", "text"} =>
                         Resting(Asked(toServer', c), toClient[c], got[c], boards[c])
                    /\ cpc[c] = "count" => Counting(Asked(toServer', c), toClient[c], boards[c])
                    /\ cpc[c] = "items" =>
                         Reading(Asked(toServer', c), toClient[c], got[c], boards[c], left[c])
  BY DEF ListingInv
<1>1. toServer \in Seq(Wire)
  BY DEF BasicTypes
<1>2. /\ Asked(toServer, c) = {} => Asked(toServer', c) = {}
      /\ (\A m, n \in Asked(toServer, c) : m = n) => \A m, n \in Asked(toServer', c) : m = n
  BY <1>1, AskedDropped
<1>3. /\ cpc[c] \in {"menu", "user", "text"} =>
           Resting(Asked(toServer, c), toClient[c], got[c], boards[c])
      /\ cpc[c] = "count" => Counting(Asked(toServer, c), toClient[c], boards[c])
      /\ cpc[c] = "items" => Reading(Asked(toServer, c), toClient[c], got[c], boards[c], left[c])
  BY DEF ListingInv
<1>4. QED BY <1>2, <1>3 DEF Resting, Counting, Reading

\* The server reads a command, and may answer with a listing.
LEMMA BasicReadCommand ==
  ASSUME BasicInv, Basic!ReadCommand
  PROVE  BasicInv'
<1> USE DEF BasicInv
<1>1. PICK item \in Basic!Readable, from \in Clients :
        /\ Basic!ServerRecv(item, from) /\ client' = from
        /\ \/ item.kind = "1" /\ spc' = "user" /\ buf' = item /\ UNCHANGED <<toClient, boards>>
           \/ item.kind = "2" /\ Basic!SendAllMessages(from)
           \/ /\ item.kind \notin {"1", "2"}
              /\ buf' = item /\ Basic!Loop(item) /\ UNCHANGED <<toClient, boards>>
  BY DEF Basic!ReadCommand
<1>2. UNCHANGED <<transport, user, newest, cpc, left, got, made, lists, faults, crossed>>
  BY DEF Basic!ReadCommand, Basic!clients
<1>3. /\ item \in Things /\ toServer' \in Seq(Wire)
      /\ \/ Received(toServer, item, from, toServer')
         \/ transport = "tcp" /\ Basic!Hungup /\ UNCHANGED toServer
      /\ transport = "udp" => item = toServer[1].item /\ Drop(toServer, 1, toServer')
  BY <1>1, RecvIs
<1> DEFINE out  == Basic!FlattenSeq([i \in DOMAIN Basic!Listing |-> Basic!Long(Basic!Listing[i])])
           d    == SubSeq(newest, 1, Basic!CountData)
<1>4. /\ d \in Seq(Entries) /\ Len(d) <= MCSize /\ Basic!Last(Basic!Listing) \in Things
      /\ Basic!Listing = <<[kind |-> "count", of |-> Len(d)]>> \o Flat(d)
      /\ out \in Seq(Things) /\ (transport = "udp" => out = Basic!Listing)
  BY AnswerIs, SentListing
<1>5. /\ \/ UNCHANGED <<toClient, boards>> /\ (item.kind # "2" \/ cpc[from] = "gone")
         \/ /\ item.kind = "2" /\ toClient' = [toClient EXCEPT ![from] = @ \o out]
            /\ boards' = [boards EXCEPT ![from] = d] /\ cpc[from] # "gone"
      /\ spc' \in {"user", "command", "ended", "dead"} /\ (spc' = "user" => item.kind = "1")
      /\ buf' \in Things
  <2>1. buf \in Things
    BY DEF BasicTypes
  <2>2. CASE item.kind = "1" /\ spc' = "user" /\ buf' = item /\ UNCHANGED <<toClient, boards>>
    BY <1>3, <2>2
  <2>3. CASE item.kind \notin {"1", "2"} /\ buf' = item /\ Basic!Loop(item) /\ UNCHANGED <<toClient, boards>>
    BY <1>3, <2>3 DEF Basic!Loop
  <2>4. CASE item.kind = "2" /\ Basic!SendAllMessages(from)
    BY <1>4, <2>1, <2>4 DEF Basic!SendAllMessages, Basic!Loop
  <2>5. QED BY <1>1, <2>2, <2>3, <2>4
<1> HIDE DEF out, d
<1>6. BasicTypes'
  <2>1. toClient' \in [Clients -> Seq(Things)] /\ boards' = [c \in Clients |-> boards'[c]]
    <3>1. toClient \in [Clients -> Seq(Things)] /\ boards = [c \in Clients |-> boards[c]]
      BY DEF BasicTypes
    <3>2. CASE UNCHANGED <<toClient, boards>>
      BY <3>1, <3>2
    <3>3. CASE toClient' = [toClient EXCEPT ![from] = @ \o out] /\ boards' = [boards EXCEPT ![from] = d]
      <4>1. toClient[from] \o out \in Seq(Things)
        BY <1>4, <3>1, ConcatProperties
      <4>2. toClient' \in [Clients -> Seq(Things)]
        BY <3>1, <3>3, <4>1
      <4>3. boards' = [c \in Clients |-> boards'[c]]
        BY <3>1, <3>3
      <4>4. QED BY <4>2, <4>3
    <3>4. QED BY <1>5, <3>2, <3>3
  <2>2. client' \in Clients \cup {None} /\ buf' \in Things
        /\ spc' \in {"command", "user", "text", "ended", "dead"}
    BY <1>1, <1>5
  <2>3. transport = "tcp" => \A n \in 1..Len(toServer') : toServer'[n].from = CHOOSE c \in Clients : TRUE
    BY <1>1, ReceivedFrom
  <2>4. QED BY <1>2, <1>3, <2>1, <2>2, <2>3 DEF BasicTypes
<1>7. PostsInv'
  <2> SUFFICES ASSUME Clean'
               PROVE  /\ PostsOK(toServer', newest, cpc, made, spc', user, from)
                      /\ transport = "tcp" /\ spc' \in {"user", "text"} => from = CHOOSE c \in Clients : TRUE
    BY <1>1, <1>2 DEF PostsInv
  <2>1. Clean /\ (transport = "tcp" => ~Basic!Hungup)
    BY <1>2 DEF Clean, Basic!Hungup
  <2>2. Received(toServer, item, from, toServer')
    BY <1>3, <2>1
  <2>3. PostsOK(toServer, newest, cpc, made, spc, user, client)
    BY <2>1 DEF PostsInv
  <2>4. PostsOK(toServer', newest, cpc, made, spc', user, from)
    BY <1>3, <1>5, <2>2, <2>3, PostsReadCommand
  <2>5. QED BY <1>1, <2>1, <2>4, ReceivedFrom
<1>8. ListingInv'
  <2> SUFFICES ASSUME transport = "udp", faults = 0, NEW c \in Clients
               PROVE  /\ cpc[c] \in {"menu", "user", "text"} =>
                           Resting(Asked(toServer', c), toClient'[c], got[c], boards'[c])
                      /\ cpc[c] = "count" => Counting(Asked(toServer', c), toClient'[c], boards'[c])
                      /\ cpc[c] = "items" =>
                           Reading(Asked(toServer', c), toClient'[c], got[c], boards'[c], left[c])
    BY <1>2 DEF ListingInv
  <2>1. /\ toServer \in Seq(Wire) /\ Drop(toServer, 1, toServer') /\ item = toServer[1].item
        /\ toServer[1].from = from /\ 1 \in 1..Len(toServer)
    BY <1>3 DEF BasicTypes, Received, Drop
  <2>2. /\ Asked(toServer, c) = {} => Asked(toServer', c) = {}
        /\ (\A m, n \in Asked(toServer, c) : m = n) =>
             /\ \A m, n \in Asked(toServer', c) : m = n
             /\ from = c /\ item.kind = "2" => Asked(toServer', c) = {}
    BY <1>3, <2>1, AskedDropped
  <2>3. from = c /\ item.kind = "2" => 1 \in Asked(toServer, c)
    BY <2>1 DEF Asked
  <2>4. /\ cpc[c] \in {"menu", "user", "text"} =>
             Resting(Asked(toServer, c), toClient[c], got[c], boards[c])
        /\ cpc[c] = "count" => Counting(Asked(toServer, c), toClient[c], boards[c])
        /\ cpc[c] = "items" => Reading(Asked(toServer, c), toClient[c], got[c], boards[c], left[c])
    BY DEF ListingInv
  <2>5. CASE toClient'[c] = toClient[c] /\ boards'[c] = boards[c]
    BY <2>2, <2>4, <2>5 DEF Resting, Counting, Reading
  <2>6. CASE /\ from = c /\ item.kind = "2" /\ cpc[c] # "gone"
             /\ toClient' = [toClient EXCEPT ![c] = @ \o out] /\ boards' = [boards EXCEPT ![c] = d]
    <3>1. Asked(toServer, c) # {}
      BY <2>3, <2>6
    <3>2. cpc[c] = "count" /\ toClient[c] = << >> /\ Asked(toServer', c) = {}
      <4>1. cpc[c] \in Places
        BY DEF BasicTypes
      <4>2. cpc[c] = "count"
        BY <2>4, <2>6, <3>1, <4>1 DEF Resting, Reading, Places
      <4>3. QED BY <2>2, <2>4, <2>6, <3>1, <4>2 DEF Counting
    <3>3. toClient'[c] = out /\ boards'[c] = d
      <4>1. toClient'[c] = toClient[c] \o out /\ boards'[c] = d
        BY <2>6 DEF BasicTypes
      <4>2. << >> \o out = out
        BY <1>4, ConcatEmptySeq
      <4>3. QED BY <3>2, <4>1, <4>2
    <3>4. Counting(Asked(toServer', c), toClient'[c], boards'[c])
      BY <1>4, <3>2, <3>3 DEF Counting
    <3>5. QED BY <3>2, <3>4
  <2>7. CASE from # c /\ toClient' = [toClient EXCEPT ![from] = @ \o out] /\ boards' = [boards EXCEPT ![from] = d]
    <3>1. toClient'[c] = toClient[c] /\ boards'[c] = boards[c]
      BY <2>7 DEF BasicTypes
    <3>2. QED BY <2>5, <3>1
  <2>8. QED BY <1>5, <2>5, <2>6, <2>7
<1>9. QED BY <1>6, <1>7, <1>8

\* The server reads the name of a post.
LEMMA BasicReadUser ==
  ASSUME BasicInv, Basic!ReadUser
  PROVE  BasicInv'
<1> USE DEF BasicInv
<1>1. PICK item \in Basic!Readable, from \in Clients :
        /\ Basic!ServerRecv(item, from) /\ user' = item /\ buf' = item /\ client' = from
        /\ crossed' = (crossed \/ from # client)
  BY DEF Basic!ReadUser
<1>2. /\ UNCHANGED <<transport, toClient, newest, cpc, left, got, made, lists, faults, boards>>
      /\ spc = "user" /\ spc' = "text"
  BY DEF Basic!ReadUser, Basic!clients
<1>3. /\ item \in Things /\ toServer' \in Seq(Wire)
      /\ \/ Received(toServer, item, from, toServer')
         \/ transport = "tcp" /\ Basic!Hungup /\ UNCHANGED toServer
      /\ transport = "udp" => item = toServer[1].item /\ Drop(toServer, 1, toServer')
  BY <1>1, RecvIs
<1>4. transport = "tcp" =>
        /\ \A n \in 1..Len(toServer') : toServer'[n].from = CHOOSE c \in Clients : TRUE
        /\ ~Basic!Hungup => from = CHOOSE c \in Clients : TRUE
  BY <1>1, ReceivedFrom
<1>5. BasicTypes'
  <2>1. crossed' \in BOOLEAN /\ client' \in Clients
    BY <1>1 DEF BasicTypes
  <2>2. QED BY <1>1, <1>2, <1>3, <1>4, <2>1 DEF BasicTypes
<1>6. PostsInv'
  <2> SUFFICES ASSUME Clean'
               PROVE  /\ PostsOK(toServer', newest, cpc, made, "text", item, from)
                      /\ transport = "tcp" => from = CHOOSE c \in Clients : TRUE
    BY <1>1, <1>2 DEF PostsInv
  <2>1. Clean /\ (transport = "tcp" => ~Basic!Hungup) /\ (transport # "tcp" => from = client)
    BY <1>1, <1>2 DEF Clean, Basic!Hungup
  <2>2. Received(toServer, item, from, toServer')
    BY <1>3, <2>1
  <2>3. PostsOK(toServer, newest, cpc, made, "user", user, client)
    BY <1>2, <2>1 DEF PostsInv
  <2>4. from = client
    BY <1>2, <1>4, <2>1 DEF PostsInv
  <2>5. QED BY <1>3, <1>4, <2>1, <2>2, <2>3, <2>4, PostsReadUser
<1>7. ListingInv'
  BY <1>2, <1>3, ListingTaken
<1>8. QED BY <1>5, <1>6, <1>7

\* The server reads the text of a post and stores the post.
LEMMA BasicReadText ==
  ASSUME BasicInv, Basic!ReadText
  PROVE  BasicInv'
<1> USE DEF BasicInv
<1>1. PICK item \in Basic!Readable, from \in Clients :
        /\ Basic!ServerRecv(item, from) /\ Basic!InsetMessage([user |-> user, text |-> item])
        /\ buf' = item /\ client' = from /\ Basic!Loop(item)
        /\ crossed' = (crossed \/ from # client)
  BY DEF Basic!ReadText
<1>2. /\ UNCHANGED <<transport, toClient, user, cpc, left, got, made, lists, faults, boards>>
      /\ spc = "text"
  BY DEF Basic!ReadText, Basic!clients
<1>3. /\ item \in Things /\ toServer' \in Seq(Wire)
      /\ \/ Received(toServer, item, from, toServer')
         \/ transport = "tcp" /\ Basic!Hungup /\ UNCHANGED toServer
      /\ transport = "udp" => item = toServer[1].item /\ Drop(toServer, 1, toServer')
  BY <1>1, RecvIs
<1>4. transport = "tcp" =>
        /\ \A n \in 1..Len(toServer') : toServer'[n].from = CHOOSE c \in Clients : TRUE
        /\ ~Basic!Hungup => from = CHOOSE c \in Clients : TRUE
  BY <1>1, ReceivedFrom
<1> DEFINE e == [user |-> user, text |-> item]
<1>5. e \in Entries
  BY <1>3 DEF Entries, BasicTypes
<1>6. /\ newest' \in Seq(Entries) /\ Len(newest') <= MCSize /\ newest'[1] = e
      /\ Len(newest) \in Nat /\ Len(newest') \in Nat
      /\ \A i \in 2..Len(newest') : i - 1 \in 1..Len(newest) /\ newest'[i] = newest[i - 1]
  BY <1>1, <1>5, InsetIs
<1>7. spc' \in {"command", "ended"}
  BY <1>1 DEF Basic!Loop
<1>8. BasicTypes'
  <2>1. crossed' \in BOOLEAN /\ client' \in Clients
    BY <1>1 DEF BasicTypes
  <2>2. QED BY <1>1, <1>2, <1>3, <1>4, <1>6, <1>7, <2>1 DEF BasicTypes
<1>9. PostsInv'
  <2> SUFFICES ASSUME Clean' PROVE PostsOK(toServer', newest', cpc, made, spc', user, from)
    BY <1>1, <1>2, <1>7 DEF PostsInv
  <2>1. Clean /\ (transport = "tcp" => ~Basic!Hungup) /\ (transport # "tcp" => from = client)
    BY <1>1, <1>2 DEF Clean, Basic!Hungup
  <2>2. Received(toServer, item, from, toServer')
    BY <1>3, <2>1
  <2>3. PostsOK(toServer, newest, cpc, made, "text", user, client)
    BY <1>2, <2>1 DEF PostsInv
  <2>4. from = client
    BY <1>2, <1>4, <2>1 DEF PostsInv
  <2>5. QED BY <1>3, <1>6, <1>7, <2>2, <2>3, <2>4, PostsReadText
<1>10. ListingInv'
  BY <1>2, <1>3, ListingTaken
<1>11. QED BY <1>8, <1>9, <1>10

\* A reset ends the server.
LEMMA BasicServerReset ==
  ASSUME BasicInv, Basic!ServerReset
  PROVE  BasicInv'
<1> USE DEF BasicInv
<1>1. /\ transport = "tcp" /\ spc' = "dead" /\ \E c \in Clients : cpc[c] = "gone"
      /\ UNCHANGED <<transport, toServer, toClient, buf, user, client, newest, crossed,
                     boards, cpc, left, got, made, faults>>
  BY DEF Basic!ServerReset, Basic!clients
<1>2. BasicTypes'
  BY <1>1 DEF BasicTypes
<1>3. PostsInv'
  BY <1>1 DEF PostsInv, Clean, Basic!Hungup
<1>4. ListingInv'
  BY <1>1 DEF ListingInv
<1>5. QED BY <1>2, <1>3, <1>4

\* What a client that sends leaves as it was.
Kept == UNCHANGED <<transport, toClient, spc, buf, user, client, newest, crossed, boards, left, got, faults>>

\* A client sends and goes on to another place.
LEMMA SentTypes ==
  ASSUME BasicTypes, NEW c \in Clients, Basic!Served(c), cpc[c] # "gone", NEW l \in Places \ {"items"},
         NEW items \in Seq(Things), Len(items) # 0, Basic!SendServer(c, items), Basic!Goto(c, l), Kept,
         made' \in SUBSET Posts, l \in {"user", "text"} => \E p \in Posts \ made' : p.by = c,
         \A p \in made' \ made : p.by = c
  PROVE  /\ BasicTypes' /\ Others(cpc, cpc', c) /\ cpc'[c] = l
         /\ Clean' => Clean
<1>1. /\ Grown(toServer, toServer', c) /\ Len(toServer) \in Nat /\ Len(toServer') \in Nat
      /\ Len(toServer') = Len(toServer) + Len(items) /\ toServer' \in Seq(Wire)
  <2>1. Grown(toServer, toServer', c) /\ Len(toServer) \in Nat /\ Len(items) \in Nat
        /\ Len(toServer') = Len(toServer) + Len(items)
    BY SentIs
  <2>2. QED BY <2>1 DEF Grown
<1>2. cpc \in [Clients -> Places] /\ cpc' = [cpc EXCEPT ![c] = l] /\ l \in Places /\ l # "items"
  BY DEF BasicTypes, Basic!Goto
<1>3. cpc' \in [Clients -> Places] /\ Others(cpc, cpc', c) /\ cpc'[c] = l
  BY <1>2 DEF Others
<1>4. \A e \in Clients : cpc'[e] = "items" => left'[e] # 0
  BY <1>2, <1>3 DEF BasicTypes, Others, Kept
<1>5. \A e \in Clients : cpc'[e] \in {"user", "text"} => \E p \in Posts \ made' : p.by = e
  <2> TAKE e \in Clients
  <2> HAVE cpc'[e] \in {"user", "text"}
  <2>1. CASE e = c
    BY <1>3, <2>1
  <2>2. CASE e # c
    <3>1. PICK p \in Posts \ made : p.by = e
      BY <1>3, <2>2 DEF Others, BasicTypes
    <3>2. p \notin made'
      BY <2>2, <3>1
    <3>3. QED BY <3>1, <3>2
  <2>3. QED BY <2>1, <2>2
<1>6. transport = "tcp" => \A n \in 1..Len(toServer') : toServer'[n].from = CHOOSE d \in Clients : TRUE
  <2> HAVE transport = "tcp"
  <2>1. c = CHOOSE d \in Clients : TRUE
    BY DEF Basic!Served
  <2>2. \A n \in 1..Len(toServer) : toServer[n].from = CHOOSE d \in Clients : TRUE
    BY DEF BasicTypes
  <2>3. \A n \in 1..Len(toServer') : n \in 1..Len(toServer) \/ n \in (Len(toServer) + 1)..Len(toServer')
    BY <1>1
  <2>4. QED BY <1>1, <2>1, <2>2, <2>3 DEF Grown
<1>7. BasicTypes'
  BY <1>1, <1>3, <1>4, <1>5, <1>6 DEF BasicTypes, Kept
<1>8. Clean' => Clean
  BY <1>3 DEF Clean, Basic!Hungup, Kept, Others
<1>9. QED BY <1>3, <1>7, <1>8

\* What a client sends leaves the listings as they are; the command 2 makes it
\* wait for one.
LEMMA SentListings ==
  ASSUME ListingInv, NEW c \in Clients, Grown(toServer, toServer', c), NEW k,
         k = toServer'[Len(toServer) + 1].item.kind,
         Len(toServer') = Len(toServer) + 1 \/ k # "2",
         \A n \in (Len(toServer) + 2)..Len(toServer') : toServer'[n].item.kind # "2",
         Others(cpc, cpc', c), cpc[c] \in {"menu", "user", "text"},
         cpc'[c] \in {"menu", "user", "text", "count", "gone"},
         k = "2" <=> cpc'[c] = "count", Kept
  PROVE  ListingInv'
<1> SUFFICES ASSUME transport = "udp", faults = 0, NEW e \in Clients
             PROVE  /\ cpc'[e] \in {"menu", "user", "text"} =>
                         Resting(Asked(toServer', e), toClient[e], got[e], boards[e])
                    /\ cpc'[e] = "count" => Counting(Asked(toServer', e), toClient[e], boards[e])
                    /\ cpc'[e] = "items" =>
                         Reading(Asked(toServer', e), toClient[e], got[e], boards[e], left[e])
  BY DEF ListingInv, Kept
<1>1. /\ \A f : f # c => Asked(toServer', f) = Asked(toServer, f)
      /\ k # "2" => Asked(toServer', c) = Asked(toServer, c)
      /\ Asked(toServer, c) = {} => \A m, n \in Asked(toServer', c) : m = n
  BY AskedGrown
<1>2. /\ cpc[e] \in {"menu", "user", "text"} =>
           Resting(Asked(toServer, e), toClient[e], got[e], boards[e])
      /\ cpc[e] = "count" => Counting(Asked(toServer, e), toClient[e], boards[e])
      /\ cpc[e] = "items" => Reading(Asked(toServer, e), toClient[e], got[e], boards[e], left[e])
  BY DEF ListingInv
<1>3. CASE e # c
  BY <1>1, <1>2, <1>3 DEF Others
<1>4. CASE e = c
  <2>1. Resting(Asked(toServer, c), toClient[c], got[c], boards[c])
    BY <1>2, <1>4
  <2>2. CASE k # "2"
    BY <1>1, <1>4, <2>1, <2>2
  <2>3. CASE k = "2"
    BY <1>1, <1>4, <2>1, <2>3 DEF Resting, Counting
  <2>4. QED BY <2>2, <2>3
<1>5. QED BY <1>3, <1>4

\* A client at the menu sends one of the commands.
LEMMA BasicCommand ==
  ASSUME BasicInv, NEW c \in Clients, Basic!Served(c), cpc[c] = "menu",
         NEW k \in {"1", "2", "exit"}, NEW l \in {"user", "count", "gone"},
         Basic!SendServer(c, <<Basic!Item(k, None)>>), Basic!Goto(c, l), Kept, made' = made,
         k = "1" => l = "user" /\ {p \in Posts \ made : p.by = c} # {},
         k = "2" => l = "count", k = "exit" => l = "gone"
  PROVE  BasicInv'
<1> USE DEF BasicInv
<1> DEFINE it == Basic!Item(k, None)
           items == <<it>>
<1>1. it \in Things /\ it.kind = k
  BY DEF Basic!Item, Things
<1> HIDE DEF it
<1>2. items \in Seq(Things) /\ Len(items) = 1 /\ items[1] = it
  BY <1>1
<1>3. Basic!SendServer(c, items)
  BY DEF it
<1> HIDE DEF items
<1>4. /\ Grown(toServer, toServer', c) /\ Len(toServer') = Len(toServer) + 1
      /\ toServer'[Len(toServer) + 1].item = it /\ Len(toServer) \in Nat
  <2>1. /\ Grown(toServer, toServer', c) /\ Len(toServer') = Len(toServer) + Len(items)
        /\ \A n \in 1..Len(items) : toServer'[Len(toServer) + n].item = items[n]
        /\ Len(toServer) \in Nat
    BY <1>2, <1>3, SentIs
  <2>2. 1 \in 1..Len(items)
    BY <1>2
  <2>3. QED BY <1>2, <2>1, <2>2
<1>5. BasicTypes' /\ Others(cpc, cpc', c) /\ cpc'[c] = l /\ (Clean' => Clean)
  <2>1. made \in SUBSET Posts
    BY DEF BasicTypes
  <2>2. l \in {"user", "text"} => \E p \in Posts \ made' : p.by = c
    BY DEF Places
  <2>3. l \in Places \ {"items"}
    BY DEF Places
  <2>4. QED BY <1>2, <1>3, <2>1, <2>2, <2>3, SentTypes
<1>6. PostsInv'
  <2> SUFFICES ASSUME Clean'
               PROVE  /\ PostsOK(toServer', newest, cpc', made, spc, user, client)
                      /\ transport = "tcp" /\ spc \in {"user", "text"} => client = CHOOSE d \in Clients : TRUE
    BY DEF PostsInv, Kept
  <2>1. PostsOK(toServer, newest, cpc, made, spc, user, client)
        /\ (transport = "tcp" /\ spc \in {"user", "text"} => client = CHOOSE d \in Clients : TRUE)
    BY <1>5 DEF PostsInv
  <2>2. PostsOK(toServer', newest, cpc', made, spc, user, client)
    BY <1>1, <1>4, <1>5, <2>1, PostsCommanded
  <2>3. QED BY <2>1, <2>2
<1>7. ListingInv'
  <2>1. \A n \in (Len(toServer) + 2)..Len(toServer') : toServer'[n].item.kind # "2"
    BY <1>4
  <2>2. k = "2" <=> cpc'[c] = "count"
    BY <1>5
  <2>3. k = toServer'[Len(toServer) + 1].item.kind
    BY <1>1, <1>4
  <2>4. QED BY <1>4, <1>5, <2>1, <2>2, <2>3, SentListings
<1>8. QED BY <1>5, <1>6, <1>7

\* A client sends the name of the author of a post.
LEMMA BasicSendUser ==
  ASSUME BasicInv, NEW c \in Clients, Basic!Served(c), Basic!SendUser(c)
  PROVE  BasicInv'
<1> USE DEF BasicInv
<1> DEFINE p == Basic!NextPost(c)
           it == Basic!Item("user", p)
           items == <<it>>
<1>1. /\ cpc[c] = "user" /\ Basic!SendServer(c, items) /\ Basic!Goto(c, "text") /\ Kept /\ made' = made
  BY DEF Basic!SendUser, Basic!server, Kept
<1>2. IsNext(p, c, made)
  BY <1>1, NextPostIs
<1> HIDE DEF p
<1>3. p \in Posts \ made /\ p.by = c
  BY <1>2 DEF IsNext
<1>4. it \in Things /\ it.kind = "user" /\ it = [kind |-> "user", of |-> p]
  BY <1>3 DEF Basic!Item, Things
<1> HIDE DEF it
<1>5. items \in Seq(Things) /\ Len(items) = 1 /\ items[1] = it
  BY <1>4
<1> HIDE DEF items
<1>6. /\ Grown(toServer, toServer', c) /\ Len(toServer') = Len(toServer) + 1
      /\ toServer'[Len(toServer) + 1].item = it /\ Len(toServer) \in Nat
  <2>1. /\ Grown(toServer, toServer', c) /\ Len(toServer') = Len(toServer) + Len(items)
        /\ \A n \in 1..Len(items) : toServer'[Len(toServer) + n].item = items[n]
        /\ Len(toServer) \in Nat
    BY <1>1, <1>5, SentIs
  <2>2. 1 \in 1..Len(items)
    BY <1>5
  <2>3. QED BY <1>5, <2>1, <2>2
<1>7. BasicTypes' /\ Others(cpc, cpc', c) /\ cpc'[c] = "text" /\ (Clean' => Clean)
  <2> DEFINE l == "text"
  <2>1. made' \in SUBSET Posts /\ \A x \in made' \ made : x.by = c
    BY <1>1 DEF BasicTypes
  <2>2. l \in {"user", "text"} => \E x \in Posts \ made' : x.by = c
    BY <1>1, <1>3
  <2>3. l \in Places \ {"items"} /\ cpc[c] # "gone" /\ Basic!Goto(c, l)
    BY <1>1 DEF Places
  <2> HIDE DEF l
  <2>4. BasicTypes' /\ Others(cpc, cpc', c) /\ cpc'[c] = l /\ (Clean' => Clean)
    <3>1. Basic!SendServer(c, items) /\ Kept /\ items \in Seq(Things) /\ Len(items) # 0
      BY <1>1, <1>5
    <3>2. QED BY <2>1, <2>2, <2>3, <3>1, SentTypes
  <2>5. QED BY <2>4 DEF l
<1>8. PostsInv'
  <2> SUFFICES ASSUME Clean'
               PROVE  /\ PostsOK(toServer', newest, cpc', made, spc, user, client)
                      /\ transport = "tcp" /\ spc \in {"user", "text"} => client = CHOOSE d \in Clients : TRUE
    BY <1>1 DEF PostsInv, Kept
  <2>1. PostsOK(toServer, newest, cpc, made, spc, user, client)
        /\ (transport = "tcp" /\ spc \in {"user", "text"} => client = CHOOSE d \in Clients : TRUE)
    BY <1>7 DEF PostsInv
  <2>2. PostsOK(toServer', newest, cpc', made, spc, user, client)
    <3>1. toServer'[Len(toServer) + 1].item = [kind |-> "user", of |-> p]
      BY <1>4, <1>6
    <3>2. QED BY <1>1, <1>2, <1>6, <1>7, <2>1, <3>1, PostsNamed
  <2>3. QED BY <2>1, <2>2
<1>9. ListingInv'
  <2>1. \A n \in (Len(toServer) + 2)..Len(toServer') : toServer'[n].item.kind # "2"
    BY <1>6
  <2> DEFINE k == toServer'[Len(toServer) + 1].item.kind
  <2>2. k = "user" /\ k # "2"
    BY <1>4, <1>6
  <2> HIDE DEF k
  <2>3. (k = "2" <=> cpc'[c] = "count") /\ k = toServer'[Len(toServer) + 1].item.kind
    BY <1>7, <2>2 DEF k
  <2>4. QED BY <1>1, <1>6, <1>7, <2>1, <2>2, <2>3, SentListings
<1>10. QED BY <1>7, <1>8, <1>9

\* A client sends the text of a post.
LEMMA BasicSendText ==
  ASSUME BasicInv, NEW c \in Clients, Basic!Served(c), Basic!SendText(c)
  PROVE  BasicInv'
<1> USE DEF BasicInv
<1> DEFINE p == Basic!NextPost(c)
           it == Basic!Item("text", p)
           items == Basic!Long(it)
<1>1. /\ cpc[c] = "text" /\ Basic!SendServer(c, items) /\ Basic!Goto(c, "menu") /\ Kept
      /\ made' = made \cup {p}
  BY DEF Basic!SendText, Basic!server, Kept
<1>2. IsNext(p, c, made)
  BY <1>1, NextPostIs
<1> HIDE DEF p
<1>3. p \in Posts \ made /\ p.by = c
  BY <1>2 DEF IsNext
<1>4. it \in Things /\ it.kind = "text" /\ it = [kind |-> "text", of |-> p]
  BY <1>3 DEF Basic!Item, Things
<1> HIDE DEF it
<1>5. /\ items \in Seq(Things) /\ Len(items) # 0 /\ items[1] = it
      /\ \A n \in 2..Len(items) : items[n].kind = "x"
  BY <1>4, LongIs
<1> HIDE DEF items
<1>6. /\ Grown(toServer, toServer', c) /\ Len(toServer') = Len(toServer) + Len(items)
      /\ toServer'[Len(toServer) + 1].item = it /\ Len(toServer) \in Nat /\ Len(items) \in Nat
      /\ \A n \in (Len(toServer) + 2)..Len(toServer') : toServer'[n].item.kind = "x"
  <2>1. /\ Grown(toServer, toServer', c) /\ Len(toServer') = Len(toServer) + Len(items)
        /\ \A n \in 1..Len(items) : toServer'[Len(toServer) + n].item = items[n]
        /\ Len(toServer) \in Nat /\ Len(items) \in Nat
    BY <1>1, <1>5, SentIs
  <2>2. 1 \in 1..Len(items)
    BY <1>5, <2>1
  <2>3. ASSUME NEW n \in (Len(toServer) + 2)..Len(toServer')
        PROVE  toServer'[n].item.kind = "x"
    <3>1. n - Len(toServer) \in 2..Len(items) /\ n - Len(toServer) \in 1..Len(items)
          /\ Len(toServer) + (n - Len(toServer)) = n
      BY <2>1
    <3>2. toServer'[n].item = items[n - Len(toServer)]
      BY <2>1, <3>1
    <3>3. QED BY <1>5, <3>1, <3>2
  <2>4. QED BY <1>5, <2>1, <2>2, <2>3
<1>7. BasicTypes' /\ Others(cpc, cpc', c) /\ cpc'[c] = "menu" /\ (Clean' => Clean)
  <2>1. made' \in SUBSET Posts /\ \A x \in made' \ made : x.by = c
    BY <1>1, <1>3 DEF BasicTypes
  <2>2. "menu" \in Places \ {"items"} /\ cpc[c] # "gone"
    BY <1>1 DEF Places
  <2>3. QED BY <1>1, <1>5, <2>1, <2>2, SentTypes
<1>8. PostsInv'
  <2> SUFFICES ASSUME Clean'
               PROVE  /\ PostsOK(toServer', newest, cpc', made \cup {p}, spc, user, client)
                      /\ transport = "tcp" /\ spc \in {"user", "text"} => client = CHOOSE d \in Clients : TRUE
    BY <1>1 DEF PostsInv, Kept
  <2>1. PostsOK(toServer, newest, cpc, made, spc, user, client)
        /\ (transport = "tcp" /\ spc \in {"user", "text"} => client = CHOOSE d \in Clients : TRUE)
    BY <1>7 DEF PostsInv
  <2>2. PostsOK(toServer', newest, cpc', made \cup {p}, spc, user, client)
    <3>1. toServer'[Len(toServer) + 1].item = [kind |-> "text", of |-> p]
      BY <1>4, <1>6
    <3>2. \A n \in (Len(toServer) + 1)..Len(toServer') : toServer'[n].item.kind \in {"text", "x"}
      <4>1. \A n \in (Len(toServer) + 1)..Len(toServer') :
              n = Len(toServer) + 1 \/ n \in (Len(toServer) + 2)..Len(toServer')
        BY <1>6
      <4>2. QED BY <1>4, <1>6, <4>1
    <3>3. QED BY <1>1, <1>2, <1>6, <1>7, <2>1, <3>1, <3>2, PostsWritten
  <2>3. QED BY <2>1, <2>2
<1>9. ListingInv'
  <2>1. \A n \in (Len(toServer) + 2)..Len(toServer') : toServer'[n].item.kind # "2"
    BY <1>6
  <2> DEFINE k == toServer'[Len(toServer) + 1].item.kind
  <2>2. k = "text" /\ k # "2"
    BY <1>4, <1>6
  <2> HIDE DEF k
  <2>3. (k = "2" <=> cpc'[c] = "count") /\ k = toServer'[Len(toServer) + 1].item.kind
    BY <1>7, <2>2 DEF k
  <2>4. QED BY <1>1, <1>6, <1>7, <2>1, <2>2, <2>3, SentListings
<1>10. QED BY <1>7, <1>8, <1>9

\* A client reads the number of messages of a listing.
LEMMA BasicReadCount ==
  ASSUME BasicInv, NEW c \in Clients, Basic!ReadCount(c)
  PROVE  BasicInv'
<1> USE DEF BasicInv
<1> DEFINE x == Basic!ClientTaken(c)
           n == IF x.kind = "count" THEN x.of ELSE 0
<1>1. /\ cpc[c] = "count" /\ Basic!ClientRecv(c) /\ left' = [left EXCEPT ![c] = 2 * n]
      /\ cpc' = [cpc EXCEPT ![c] = IF n = 0 THEN "menu" ELSE "items"]
      /\ got' = [got EXCEPT ![c] = << >>]
      /\ UNCHANGED <<transport, toServer, spc, buf, user, client, newest, crossed, boards, made, faults>>
  BY DEF Basic!ReadCount, Basic!Goto, Basic!server
<1>2. /\ toClient[c] # << >> /\ x \in Things /\ toClient' \in [Clients -> Seq(Things)]
      /\ \A e \in Clients : e # c => toClient'[e] = toClient[e]
      /\ transport = "udp" => x = Head(toClient[c]) /\ toClient'[c] = Tail(toClient[c])
  BY <1>1, ClientRecvIs
<1> HIDE DEF x
<1>3. n \in 0..MCSize /\ MCSize \in Nat
  BY <1>2, BoardsAssumption DEF Basic!BasicBoardAssumption, Things
<1>4. \A e \in Clients : /\ cpc'[e] = IF e = c THEN IF n = 0 THEN "menu" ELSE "items" ELSE cpc[e]
                         /\ left'[e] = IF e = c THEN 2 * n ELSE left[e]
                         /\ got'[e] = IF e = c THEN << >> ELSE got[e]
  BY <1>1 DEF BasicTypes
<1>5. BasicTypes'
  <2>1. cpc' \in [Clients -> Places]
    <3>1. (IF n = 0 THEN "menu" ELSE "items") \in Places
      BY DEF Places
    <3>2. QED BY <1>1, <3>1 DEF BasicTypes
  <2>2. left' \in [Clients -> 0..(2 * MCSize)]
    <3>1. 2 * n \in 0..(2 * MCSize)
      BY <1>3
    <3>2. QED BY <1>1, <3>1 DEF BasicTypes
  <2>3. ASSUME NEW e \in Clients, cpc'[e] = "items" PROVE left'[e] # 0
    <3>1. CASE e # c
      BY <1>4, <2>3, <3>1 DEF BasicTypes
    <3>2. CASE e = c
      <4>1. n # 0
        BY <1>4, <2>3, <3>2
      <4>2. 2 * n # 0
        BY <1>3, <4>1
      <4>3. QED BY <1>4, <3>2, <4>2
    <3>3. QED BY <3>1, <3>2
  <2>4. got' = [e \in Clients |-> got'[e]]
    BY <1>1 DEF BasicTypes
  <2>5. \A e \in Clients : cpc'[e] \in {"user", "text"} => \E p \in Posts \ made' : p.by = e
    BY <1>1, <1>4 DEF BasicTypes
  <2>6. QED BY <1>1, <1>2, <2>1, <2>2, <2>3, <2>4, <2>5 DEF BasicTypes
<1>6. PostsInv'
  <2> SUFFICES ASSUME Clean'
               PROVE  /\ PostsOK(toServer, newest, cpc', made, spc, user, client)
                      /\ transport = "tcp" /\ spc \in {"user", "text"} => client = CHOOSE d \in Clients : TRUE
    BY <1>1 DEF PostsInv
  <2>1. Clean
    BY <1>1, <1>4 DEF Clean, Basic!Hungup
  <2>2. \A e \in Clients : cpc[e] \in {"user", "text", "gone"} => cpc'[e] \in {cpc[e], "gone"}
    BY <1>1, <1>4
  <2>3. toServer \in Seq(Wire)
    BY DEF BasicTypes
  <2>4. QED BY <2>1, <2>2, <2>3, PostsAside DEF PostsInv
<1>7. ListingInv'
  <2> SUFFICES ASSUME transport = "udp", faults = 0, NEW e \in Clients
               PROVE  /\ cpc'[e] \in {"menu", "user", "text"} =>
                           Resting(Asked(toServer, e), toClient'[e], got'[e], boards[e])
                      /\ cpc'[e] = "count" => Counting(Asked(toServer, e), toClient'[e], boards[e])
                      /\ cpc'[e] = "items" =>
                           Reading(Asked(toServer, e), toClient'[e], got'[e], boards[e], left'[e])
    BY <1>1 DEF ListingInv
  <2>1. CASE e # c
    BY <1>2, <1>4, <2>1 DEF ListingInv
  <2>2. CASE e = c
    <3> DEFINE d == boards[c]
               one == <<[kind |-> "count", of |-> Len(d)]>>
    <3>1. Asked(toServer, c) = {} /\ d \in Seq(Entries) /\ Len(d) <= MCSize /\ toClient[c] = one \o Flat(d)
      BY <1>1, <1>2 DEF ListingInv, Counting
    <3> HIDE DEF d
    <3>2. Flat(d) \in Seq(Things) /\ Len(Flat(d)) = 2 * Len(d) /\ Len(d) \in Nat
      BY <3>1, FlatIs, LenProperties
    <3>3. [kind |-> "count", of |-> Len(d)] \in Things
      BY <1>3, <3>1, <3>2 DEF Things
    <3>4. one \in Seq(Things)
      BY <3>3
    <3>5. Head(one \o Flat(d)) = [kind |-> "count", of |-> Len(d)] /\ Tail(one \o Flat(d)) = Flat(d)
      BY <3>2, <3>3, HeadTailOfOne
    <3>6. n = Len(d) /\ toClient'[c] = Flat(d)
      <4>1. x = Head(toClient[c]) /\ toClient'[c] = Tail(toClient[c])
        BY <1>2
      <4>2. x = [kind |-> "count", of |-> Len(d)] /\ toClient'[c] = Flat(d)
        BY <3>1, <3>5, <4>1
      <4>3. x.kind = "count" /\ x.of = Len(d)
        BY <4>2
      <4>4. QED BY <4>2, <4>3
    <3>7. CASE n = 0
      <4>1. Flat(d) = << >>
        BY <3>2, <3>6, <3>7, EmptySeq
      <4>2. Resting(Asked(toServer, c), toClient'[c], got'[c], d)
        BY <1>4, <3>1, <3>6, <4>1 DEF Resting
      <4>3. QED BY <1>4, <2>2, <3>7, <4>2 DEF d
    <3>8. CASE n # 0
      <4>1. << >> \o Flat(d) = Flat(d) /\ << >> \in Seq(Things)
        BY <3>2, ConcatEmptySeq, EmptySeq
      <4>2. Reading(Asked(toServer, c), toClient'[c], got'[c], d, left'[c])
        BY <1>4, <3>1, <3>2, <3>6, <4>1 DEF Reading
      <4>3. QED BY <1>4, <2>2, <3>8, <4>2 DEF d
    <3>9. QED BY <3>7, <3>8
  <2>3. QED BY <2>1, <2>2
<1>8. QED BY <1>5, <1>6, <1>7

\* A client reads one more message of a listing.
LEMMA BasicReadItem ==
  ASSUME BasicInv, NEW c \in Clients, Basic!ReadItem(c)
  PROVE  BasicInv'
<1> USE DEF BasicInv
<1> DEFINE x == Basic!ClientTaken(c)
           l == IF left[c] = 1 THEN "menu" ELSE "items"
<1>1. /\ cpc[c] = "items" /\ Basic!ClientRecv(c) /\ left' = [left EXCEPT ![c] = @ - 1]
      /\ cpc' = [cpc EXCEPT ![c] = l] /\ got' = [got EXCEPT ![c] = Append(@, x)]
      /\ UNCHANGED <<transport, toServer, spc, buf, user, client, newest, crossed, boards, made, faults>>
  BY DEF Basic!ReadItem, Basic!Goto, Basic!server
<1>2. /\ toClient[c] # << >> /\ x \in Things /\ toClient' \in [Clients -> Seq(Things)]
      /\ \A e \in Clients : e # c => toClient'[e] = toClient[e]
      /\ transport = "udp" => x = Head(toClient[c]) /\ toClient'[c] = Tail(toClient[c])
  BY <1>1, ClientRecvIs
<1> HIDE DEF x
<1>3. left[c] \in 1..(2 * MCSize) /\ MCSize \in Nat /\ l \in {"menu", "items"}
  <2>1. left[c] \in 0..(2 * MCSize) /\ left[c] # 0
    BY <1>1 DEF BasicTypes
  <2>2. QED BY <2>1, BoardsAssumption DEF Basic!BasicBoardAssumption
<1>4. \A e \in Clients : /\ cpc'[e] = IF e = c THEN l ELSE cpc[e]
                         /\ left'[e] = IF e = c THEN left[c] - 1 ELSE left[e]
                         /\ got'[e] = IF e = c THEN Append(got[c], x) ELSE got[e]
  BY <1>1 DEF BasicTypes
<1>5. BasicTypes'
  <2>1. cpc' \in [Clients -> Places]
    BY <1>1, <1>3 DEF BasicTypes, Places
  <2>2. left' \in [Clients -> 0..(2 * MCSize)]
    <3>1. left[c] - 1 \in 0..(2 * MCSize)
      BY <1>3
    <3>2. QED BY <1>1, <3>1 DEF BasicTypes
  <2>3. ASSUME NEW e \in Clients, cpc'[e] = "items" PROVE left'[e] # 0
    <3>1. CASE e # c
      BY <1>4, <2>3, <3>1 DEF BasicTypes
    <3>2. CASE e = c
      <4>1. left[c] # 1
        BY <1>4, <2>3, <3>2
      <4>2. left[c] - 1 # 0
        BY <1>3, <4>1
      <4>3. QED BY <1>4, <3>2, <4>2
    <3>3. QED BY <3>1, <3>2
  <2>4. got' = [e \in Clients |-> got'[e]]
    BY <1>1 DEF BasicTypes
  <2>5. \A e \in Clients : cpc'[e] \in {"user", "text"} => \E p \in Posts \ made' : p.by = e
    BY <1>1, <1>3, <1>4 DEF BasicTypes
  <2>6. QED BY <1>1, <1>2, <2>1, <2>2, <2>3, <2>4, <2>5 DEF BasicTypes
<1>6. PostsInv'
  <2> SUFFICES ASSUME Clean'
               PROVE  /\ PostsOK(toServer, newest, cpc', made, spc, user, client)
                      /\ transport = "tcp" /\ spc \in {"user", "text"} => client = CHOOSE d \in Clients : TRUE
    BY <1>1 DEF PostsInv
  <2>1. Clean
    BY <1>1, <1>4 DEF Clean, Basic!Hungup
  <2>2. \A e \in Clients : cpc[e] \in {"user", "text", "gone"} => cpc'[e] \in {cpc[e], "gone"}
    BY <1>1, <1>4
  <2>3. toServer \in Seq(Wire)
    BY DEF BasicTypes
  <2>4. QED BY <2>1, <2>2, <2>3, PostsAside DEF PostsInv
<1>7. ListingInv'
  <2> SUFFICES ASSUME transport = "udp", faults = 0, NEW e \in Clients
               PROVE  /\ cpc'[e] \in {"menu", "user", "text"} =>
                           Resting(Asked(toServer, e), toClient'[e], got'[e], boards[e])
                      /\ cpc'[e] = "count" => Counting(Asked(toServer, e), toClient'[e], boards[e])
                      /\ cpc'[e] = "items" =>
                           Reading(Asked(toServer, e), toClient'[e], got'[e], boards[e], left'[e])
    BY <1>1 DEF ListingInv
  <2>1. CASE e # c
    BY <1>2, <1>4, <2>1 DEF ListingInv
  <2>2. CASE e = c
    <3> DEFINE d == boards[c]
               g == got[c]
               tc == toClient[c]
    <3>1. Reading(Asked(toServer, c), tc, g, d, left[c])
      BY <1>1 DEF ListingInv
    <3>2. tc \in Seq(Things) /\ tc # << >> /\ got'[c] = Append(g, Head(tc)) /\ toClient'[c] = Tail(tc)
      BY <1>2, <1>4 DEF BasicTypes
    <3> HIDE DEF d, g, tc
    <3>3. /\ Asked(toServer, c) = {} /\ d \in Seq(Entries) /\ g \in Seq(Things)
          /\ g \o tc = Flat(d) /\ left[c] = Len(tc)
      BY <3>1 DEF Reading
    <3>4. /\ Append(g, Head(tc)) \in Seq(Things) /\ Append(g, Head(tc)) \o Tail(tc) = g \o tc
          /\ Len(Tail(tc)) = Len(tc) - 1 /\ Len(tc) \in Nat /\ Tail(tc) \in Seq(Things)
      BY <3>2, <3>3, ReadOn
    <3>5. CASE left[c] = 1
      <4>1. Tail(tc) = << >>
        <5>1. Len(Tail(tc)) = 0 /\ Tail(tc) \in Seq(Things)
          BY <3>3, <3>4, <3>5
        <5>2. QED BY <5>1, EmptySeq
      <4>2. Append(g, Head(tc)) \o << >> = Append(g, Head(tc))
        BY <3>4, ConcatEmptySeq
      <4>3. Resting(Asked(toServer, c), toClient'[c], got'[c], d)
        BY <3>2, <3>3, <3>4, <4>1, <4>2 DEF Resting
      <4>4. QED BY <1>4, <2>2, <3>5, <4>3 DEF d
    <3>6. CASE left[c] # 1
      <4>1. Reading(Asked(toServer, c), toClient'[c], got'[c], d, left'[c])
        BY <1>4, <3>2, <3>3, <3>4 DEF Reading
      <4>2. QED BY <1>4, <2>2, <3>6, <4>1 DEF d
    <3>7. QED BY <3>5, <3>6
  <2>3. QED BY <2>1, <2>2
<1>8. QED BY <1>5, <1>6, <1>7

\* A client is killed.
LEMMA BasicKilled ==
  ASSUME BasicInv, NEW c \in Clients, Basic!Killed(c)
  PROVE  BasicInv'
<1> USE DEF BasicInv
<1>1. /\ cpc' = [cpc EXCEPT ![c] = "gone"]
      /\ UNCHANGED <<transport, toServer, toClient, spc, buf, user, client, newest, crossed, boards,
                     left, got, made, faults>>
  BY DEF Basic!Killed, Basic!Goto, Basic!server
<1>2. \A e \in Clients : cpc'[e] = IF e = c THEN "gone" ELSE cpc[e]
  BY <1>1 DEF BasicTypes
<1>3. BasicTypes'
  <2>1. cpc' \in [Clients -> Places]
    BY <1>1 DEF BasicTypes, Places
  <2>2. QED BY <1>1, <1>2, <2>1 DEF BasicTypes
<1>4. PostsInv'
  <2> SUFFICES ASSUME Clean'
               PROVE  /\ PostsOK(toServer, newest, cpc', made, spc, user, client)
                      /\ transport = "tcp" /\ spc \in {"user", "text"} => client = CHOOSE d \in Clients : TRUE
    BY <1>1 DEF PostsInv
  <2>1. Clean
    BY <1>1, <1>2 DEF Clean, Basic!Hungup
  <2>2. \A e \in Clients : cpc[e] \in {"user", "text", "gone"} => cpc'[e] \in {cpc[e], "gone"}
    BY <1>2
  <2>3. toServer \in Seq(Wire)
    BY DEF BasicTypes
  <2>4. QED BY <2>1, <2>2, <2>3, PostsAside DEF PostsInv
<1>5. ListingInv'
  BY <1>1, <1>2 DEF ListingInv
<1>6. QED BY <1>3, <1>4, <1>5

\* A sequence with one more element.
LEMMA SeqWith ==
  ASSUME NEW S, NEW s \in Seq(S), NEW j \in 1..Len(s), NEW e \in S
  PROVE  InsertAt(s, j, e) \in Seq(S)
<1> DEFINE front == SubSeq(s, 1, j - 1)
           back  == SubSeq(s, j, Len(s))
           one   == <<e>>
<1>1. front \in Seq(S) /\ back \in Seq(S) /\ one \in Seq(S)
  <2>1. \A n \in 1..(j - 1) : n \in 1..Len(s)
    BY LenProperties
  <2>2. \A n \in j..Len(s) : n \in 1..Len(s)
    BY LenProperties
  <2>3. Len(s) \in Nat /\ \A n \in 1..Len(s) : s[n] \in S
    BY LenProperties, ElementOfSeq
  <2>4. QED BY <2>1, <2>2, <2>3, SubSeqProperties
<1>2. InsertAt(s, j, e) = (front \o one) \o back
  BY DEF InsertAt
<1> HIDE DEF front, back, one
<1>3. front \o one \in Seq(S)
  BY <1>1, ConcatProperties
<1>4. QED BY <1>1, <1>2, <1>3, ConcatProperties

\* The network loses, doubles or swaps datagrams: what comes after it is not
\* looked at any more.
LEMMA BasicNetwork ==
  ASSUME BasicInv, Basic!Network
  PROVE  BasicInv'
<1> USE DEF BasicInv
<1>1. /\ transport = "udp" /\ faults < MaxFaults /\ faults' = faults + 1
      /\ UNCHANGED <<transport, spc, buf, user, client, newest, crossed, boards, cpc, left, got, made>>
  BY DEF Basic!Network, Basic!server, Basic!clients
<1>2. faults' \in 0..MaxFaults /\ faults' # 0
  BY <1>1, BoardsAssumption DEF Basic!BasicBoardAssumption, BasicTypes
<1>3. toServer \in Seq(Wire) /\ toClient \in [Clients -> Seq(Things)]
  BY DEF BasicTypes
<1>4. toServer' \in Seq(Wire) /\ toClient' \in [Clients -> Seq(Things)]
  <2>1. ASSUME NEW j \in DOMAIN toServer, toServer' = Basic!RemoveAt(toServer, j), UNCHANGED toClient
        PROVE  toServer' \in Seq(Wire) /\ toClient' \in [Clients -> Seq(Things)]
    <3>1. j \in 1..Len(toServer)
      BY <1>3, LenProperties
    <3>2. RemoveAt(toServer, j) \in Seq(Wire)
      BY <1>3, <3>1, SeqWithout
    <3>3. QED BY <1>3, <2>1, <3>2 DEF Basic!RemoveAt, RemoveAt
  <2>2. ASSUME NEW j \in DOMAIN toServer, toServer' = Basic!InsertAt(toServer, j, toServer[j]), UNCHANGED toClient
        PROVE  toServer' \in Seq(Wire) /\ toClient' \in [Clients -> Seq(Things)]
    <3>1. j \in 1..Len(toServer) /\ toServer[j] \in Wire
      BY <1>3, LenProperties, ElementOfSeq
    <3>2. Basic!InsertAt(toServer, j, toServer[j]) \in Seq(Wire)
      BY <1>3, <3>1, SeqWith DEF Basic!InsertAt, InsertAt
    <3>3. QED BY <1>3, <2>2, <3>2
  <2>3. ASSUME NEW j \in DOMAIN toServer, j > 1, UNCHANGED toClient,
               toServer' = [toServer EXCEPT ![j] = toServer[j - 1], ![j - 1] = toServer[j]]
        PROVE  toServer' \in Seq(Wire) /\ toClient' \in [Clients -> Seq(Things)]
    <3> DEFINE x == toServer[j - 1]
               y == toServer[j]
               q == [toServer EXCEPT ![j] = x]
    <3>1. j \in 1..Len(toServer) /\ j - 1 \in 1..Len(toServer)
      BY <1>3, <2>3, LenProperties
    <3>2. x \in Wire /\ y \in Wire
      BY <1>3, <3>1, ElementOfSeq
    <3> HIDE DEF x, y
    <3>3. q \in Seq(Wire) /\ Len(q) = Len(toServer)
      BY <1>3, <3>1, <3>2, ExceptSeq
    <3>4. toServer' = [q EXCEPT ![j - 1] = y]
      BY <2>3 DEF x, y
    <3> HIDE DEF q
    <3>5. [q EXCEPT ![j - 1] = y] \in Seq(Wire)
      BY <3>1, <3>2, <3>3, ExceptSeq
    <3>6. QED BY <1>3, <2>3, <3>4, <3>5
  <2>4. ASSUME NEW c \in Clients, NEW j \in DOMAIN toClient[c], UNCHANGED toServer,
               toClient' = [toClient EXCEPT ![c] = Basic!RemoveAt(toClient[c], j)]
        PROVE  toServer' \in Seq(Wire) /\ toClient' \in [Clients -> Seq(Things)]
    <3>1. toClient[c] \in Seq(Things)
      BY <1>3
    <3>2. j \in 1..Len(toClient[c])
      BY <3>1, LenProperties
    <3>3. RemoveAt(toClient[c], j) \in Seq(Things)
      BY <3>1, <3>2, SeqWithout
    <3>4. QED BY <1>3, <2>4, <3>3 DEF Basic!RemoveAt, RemoveAt
  <2>5. QED BY <2>1, <2>2, <2>3, <2>4 DEF Basic!Network
<1>5. BasicTypes'
  BY <1>1, <1>2, <1>4 DEF BasicTypes
<1>6. PostsInv'
  BY <1>1, <1>2 DEF PostsInv, Clean
<1>7. ListingInv'
  BY <1>2 DEF ListingInv
<1>8. QED BY <1>5, <1>6, <1>7

\* A step of the first board.
LEMMA BasicStep ==
  ASSUME BasicInv, Basic!Next
  PROVE  BasicInv'
<1>1. ASSUME NEW c \in Clients, Basic!ClientStep(c)
      PROVE  BasicInv'
  <2>1. Basic!Served(c)
    BY <1>1 DEF Basic!ClientStep
  <2>2. CASE Basic!AskPost(c)
    <3>1. /\ cpc[c] = "menu" /\ {p \in Posts \ made : p.by = c} # {}
          /\ Basic!SendServer(c, <<Basic!Item("1", None)>>) /\ Basic!Goto(c, "user") /\ Kept /\ made' = made
      BY <2>2 DEF Basic!AskPost, Basic!server, Kept
    <3>2. QED BY <2>1, <3>1, BasicCommand
  <2>3. CASE Basic!AskListing(c)
    <3>1. /\ cpc[c] = "menu"
          /\ Basic!SendServer(c, <<Basic!Item("2", None)>>) /\ Basic!Goto(c, "count") /\ Kept /\ made' = made
      BY <2>3 DEF Basic!AskListing, Basic!server, Kept
    <3>2. QED BY <2>1, <3>1, BasicCommand
  <2>4. CASE Basic!Exit(c)
    <3>1. /\ cpc[c] = "menu"
          /\ Basic!SendServer(c, <<Basic!Item("exit", None)>>) /\ Basic!Goto(c, "gone") /\ Kept /\ made' = made
      BY <2>4 DEF Basic!Exit, Basic!server, Kept
    <3>2. QED BY <2>1, <3>1, BasicCommand
  <2>5. QED
    BY <1>1, <2>1, <2>2, <2>3, <2>4, BasicSendUser, BasicSendText, BasicReadCount, BasicReadItem,
       BasicKilled DEF Basic!ClientStep
<1>2. QED
  BY <1>1, BasicReadCommand, BasicReadUser, BasicReadText, BasicServerReset, BasicNetwork
     DEF Basic!Next, Basic!ServerStep

\* The first board is empty, and nobody has asked for anything.
LEMMA BasicStart ==
  ASSUME Basic!Init
  PROVE  BasicInv
<1>1. /\ transport \in {"tcp", "udp"} /\ toServer = << >> /\ toClient = [c \in Clients |-> << >>]
      /\ spc = "command" /\ buf = Basic!Spoiled /\ user = Basic!Spoiled /\ client = None /\ newest = << >>
      /\ cpc = [c \in Clients |-> "menu"] /\ left = [c \in Clients |-> 0] /\ got = [c \in Clients |-> << >>]
      /\ made = {} /\ faults = 0 /\ crossed = FALSE /\ boards = [c \in Clients |-> None]
  BY DEF Basic!Init
<1>2. /\ toServer \in Seq(Wire) /\ Len(toServer) = 0 /\ newest \in Seq(Entries) /\ Len(newest) = 0
      /\ toClient \in [Clients -> Seq(Things)]
  BY <1>1, EmptySeq
<1>3. Basic!Spoiled \in Things
  BY DEF Basic!Spoiled, Basic!Item, Things
<1>4. MCSize \in Nat /\ MaxFaults \in Nat
  BY BoardsAssumption DEF Basic!BasicBoardAssumption
<1>5. BasicTypes
  <2>1. cpc \in [Clients -> Places] /\ \A c \in Clients : cpc[c] = "menu"
    BY <1>1 DEF Places
  <2>2. left \in [Clients -> 0..(2 * MCSize)]
    <3>1. 0 \in 0..(2 * MCSize)
      BY <1>4
    <3>2. QED BY <1>1, <3>1
  <2>3. got = [c \in Clients |-> got[c]] /\ boards = [c \in Clients |-> boards[c]]
    BY <1>1
  <2>4. faults \in 0..MaxFaults /\ Len(newest) <= MCSize
    BY <1>1, <1>2, <1>4
  <2>5. transport = "tcp" => \A n \in 1..Len(toServer) : toServer[n].from = CHOOSE c \in Clients : TRUE
    BY <1>2
  <2>6. QED BY <1>1, <1>2, <1>3, <2>1, <2>2, <2>3, <2>4, <2>5 DEF BasicTypes
<1>6. PostsInv
  BY <1>1, <1>2 DEF PostsInv, PostsOK, Chain, Whole, Ordered, Waiting
<1>7. ListingInv
  <2>1. \A c \in Clients : Asked(toServer, c) = {}
    BY <1>2 DEF Asked
  <2>2. \A c \in Clients : toClient[c] = << >> /\ boards[c] = None /\ cpc[c] = "menu"
    BY <1>1
  <2>3. QED BY <2>1, <2>2 DEF ListingInv, Resting
<1>8. QED BY <1>5, <1>6, <1>7 DEF BasicInv

\* The invariant says what the runs check.
LEMMA BasicRight ==
  ASSUME BasicInv
  PROVE  Basic!BoardRight
<1>1. newest \in Seq(Entries) /\ Len(newest) \in Nat /\ DOMAIN newest = 1..Len(newest) /\ MCSize \in Nat
  BY LenProperties, BoardsAssumption DEF BasicInv, BasicTypes, Basic!BasicBoardAssumption
<1>2. Basic!TypeOK
  <2>1. \A c \in Clients : left[c] <= 2 * MCSize
    <3>1. \A c \in Clients : left[c] \in 0..(2 * MCSize)
      BY DEF BasicInv, BasicTypes
    <3>2. QED BY <1>1, <3>1
  <2>2. QED BY <2>1 DEF BasicInv, BasicTypes, Basic!TypeOK
<1>3. Basic!PostsWhole
  <2> SUFFICES ASSUME Clean
               PROVE  /\ \A i \in DOMAIN newest :
                           /\ newest[i].user.kind = "user"
                           /\ newest[i].text = Basic!Item("text", newest[i].user.of)
                      /\ \A i, j \in DOMAIN newest :
                           i < j /\ newest[i].user.of.by = newest[j].user.of.by
                             => newest[i].user.of.nr > newest[j].user.of.nr
    BY DEF Basic!PostsWhole, Clean
  <2>1. Whole(newest)
    BY DEF BasicInv, PostsInv, PostsOK
  <2>2. ASSUME NEW i \in DOMAIN newest, NEW j \in DOMAIN newest, i < j,
               newest[i].user.of.by = newest[j].user.of.by
        PROVE  newest[i].user.of.nr > newest[j].user.of.nr
    <3>1. newest[i].user.of \in Posts /\ newest[j].user.of \in Posts
      BY <1>1, <2>1 DEF Whole
    <3>2. newest[i].user.of.nr \in Nat /\ newest[j].user.of.nr \in Nat
      BY <3>1, BoardsAssumption DEF Basic!BasicBoardAssumption
    <3>3. newest[j].user.of.nr < newest[i].user.of.nr
      BY <1>1, <2>1, <2>2 DEF Whole, Before
    <3>4. QED BY <3>2, <3>3
  <2>3. QED BY <1>1, <2>1, <2>2 DEF Whole, Basic!Item
<1>4. Basic!ListingRight
  <2> SUFFICES ASSUME NEW c \in Clients, transport = "udp", faults = 0, cpc[c] = "menu", boards[c] # None
               PROVE  Basic!ListingRead(c)
    BY DEF Basic!ListingRight
  <2>1. got[c] = Flat(boards[c])
    BY DEF BasicInv, ListingInv, Resting
  <2>2. QED BY <2>1, SameFlatten DEF Basic!ListingRead, Flat
<1>5. QED BY <1>2, <1>3, <1>4 DEF Basic!BoardRight

-----------------------------------------------------------------------------
(* The elements that the second board selects, by their least counterexample.*)

\* What Selected computes on the way.
SelectStep(f, s, S, n) == IF n = 0 THEN << >>
                          ELSE IF s[n] \in S THEN Append(f[n - 1], s[n]) ELSE f[n - 1]
Selecting(f, s, S) == f = [n \in 0..Len(s) |-> SelectStep(f, s, S, n)]

\* Selected is the last value of the one function that computes it.
LEMMA SelectedIs ==
  ASSUME NEW s, NEW S
  PROVE  Neves!Selected(s, S) = (CHOOSE f : Selecting(f, s, S))[Len(s)]
BY DEF Neves!Selected, Selecting, SelectStep

\* There is such a function: the shortest sequence without one is longer by one
\* element than a sequence with one.
LEMMA SelectingExists ==
  ASSUME NEW T, NEW s \in Seq(T), NEW S
  PROVE  \E f : Selecting(f, s, S)
<1> DEFINE L == Len(s)
           Upto(n, g) == g = [k \in 0..n |-> SelectStep(g, s, S, k)]
           Bad == {n \in 0..L : ~ \E g : Upto(n, g)}
<1>1. L \in Nat
  BY LenProperties
<1>2. SUFFICES Bad = {}
  BY <1>1 DEF Selecting
<1>3. SUFFICES ASSUME Bad # {} PROVE FALSE
  OBVIOUS
<1> HIDE DEF L
<1>4. Bad \in SUBSET Nat
  BY <1>1
<1>5. PICK n \in Bad : \A y \in Bad : n <= y
  BY <1>3, <1>4, Least
<1>6. n \in 0..L /\ ~ \E g : Upto(n, g)
  BY <1>5
<1>7. n # 0
  <2>1. Upto(0, [k \in 0..0 |-> << >>])
    BY DEF SelectStep
  <2>2. QED BY <1>6, <2>1
<1>8. n - 1 \in 0..L /\ ~(n <= n - 1)
  BY <1>1, <1>6, <1>7
<1>9. PICK g : Upto(n - 1, g)
  BY <1>5, <1>8
<1> DEFINE h == [k \in 0..n |-> IF k = n THEN SelectStep(g, s, S, n) ELSE g[k]]
<1>10. \A k \in 0..n : SelectStep(h, s, S, k) = h[k]
  <2> SUFFICES ASSUME NEW k \in 0..n PROVE SelectStep(h, s, S, k) = h[k]
    OBVIOUS
  <2>1. k # 0 => k - 1 \in 0..n /\ k - 1 # n /\ h[k - 1] = g[k - 1]
    BY <1>6
  <2>2. SelectStep(h, s, S, k) = SelectStep(g, s, S, k)
    BY <2>1 DEF SelectStep
  <2>3. CASE k = n
    BY <2>2, <2>3
  <2>4. CASE k # n
    <3>1. k \in 0..(n - 1) /\ h[k] = g[k]
      BY <1>6, <2>4
    <3> HIDE DEF h
    <3>2. g[k] = SelectStep(g, s, S, k)
      BY <1>9, <3>1
    <3>3. QED BY <2>2, <3>1, <3>2
  <2>5. QED BY <2>3, <2>4
<1>11. Upto(n, h)
  <2>1. h = [k \in 0..n |-> h[k]]
    OBVIOUS
  <2> HIDE DEF h
  <2>2. QED BY <1>10, <2>1
<1>12. QED BY <1>6, <1>11

\* Two computations that look at the same elements agree.
LEMMA SelectingAgree ==
  ASSUME NEW s, NEW t, NEW S, NEW f, NEW g, Selecting(f, s, S), Selecting(g, t, S),
         NEW l \in Nat, Len(s) \in Nat, Len(t) \in Nat, l <= Len(s), l <= Len(t),
         \A n \in 1..l : s[n] = t[n]
  PROVE  f[l] = g[l]
<1> DEFINE Bad == {n \in 0..l : f[n] # g[n]}
<1>1. SUFFICES ASSUME Bad # {} PROVE FALSE
  OBVIOUS
<1>2. PICK n \in Bad : \A y \in Bad : n <= y
  <2>1. Bad \in SUBSET Nat
    OBVIOUS
  <2> HIDE DEF Bad
  <2>2. QED BY <1>1, <2>1, Least
<1>3. n \in 0..l /\ f[n] # g[n] /\ n \in 0..Len(s) /\ n \in 0..Len(t)
  BY <1>2
<1>4. f[n] = SelectStep(f, s, S, n) /\ g[n] = SelectStep(g, t, S, n)
  BY <1>3 DEF Selecting
<1>5. n # 0
  BY <1>3, <1>4 DEF SelectStep
<1>6. n \in 1..l /\ n - 1 \in 0..l /\ ~(n <= n - 1)
  BY <1>3, <1>5
<1>7. f[n - 1] = g[n - 1]
  BY <1>2, <1>6
<1>8. s[n] = t[n]
  BY <1>6
<1>9. QED BY <1>3, <1>4, <1>5, <1>7, <1>8 DEF SelectStep

\* Nothing is selected from nothing.
LEMMA SelectedEmpty ==
  ASSUME NEW S
  PROVE  Neves!Selected(<< >>, S) = << >>
<1> DEFINE f == CHOOSE f : Selecting(f, << >>, S)
<1>1. << >> \in Seq({}) /\ Len(<< >>) = 0
  BY EmptySeq
<1>2. Selecting(f, << >>, S)
  BY <1>1, SelectingExists
<1>3. Neves!Selected(<< >>, S) = f[0]
  BY <1>1, SelectedIs
<1> HIDE DEF f
<1>4. f[0] = << >>
  BY <1>1, <1>2 DEF Selecting, SelectStep
<1>5. QED BY <1>3, <1>4

\* A further element is selected or passed.
LEMMA SelectedAppend ==
  ASSUME NEW T, NEW s \in Seq(T), NEW e \in T, NEW S
  PROVE  Neves!Selected(Append(s, e), S) = IF e \in S THEN Append(Neves!Selected(s, S), e) ELSE Neves!Selected(s, S)
<1> DEFINE t == Append(s, e)
           f == CHOOSE f : Selecting(f, s, S)
           g == CHOOSE g : Selecting(g, t, S)
<1>1. /\ t \in Seq(T) /\ Len(t) = Len(s) + 1 /\ Len(s) \in Nat
      /\ \A n \in 1..Len(s) : t[n] = s[n]
      /\ t[Len(s) + 1] = e
  BY AppendProperties, LenProperties
<1> HIDE DEF t
<1>2. Selecting(f, s, S) /\ Selecting(g, t, S)
  BY <1>1, SelectingExists
<1>3. Neves!Selected(s, S) = f[Len(s)] /\ Neves!Selected(t, S) = g[Len(t)]
  BY SelectedIs
<1> HIDE DEF f, g
<1>4. f[Len(s)] = g[Len(s)]
  BY <1>1, <1>2, SelectingAgree
<1>5. g[Len(t)] = SelectStep(g, t, S, Len(t))
  BY <1>1, <1>2 DEF Selecting
<1>6. Len(t) # 0 /\ Len(t) - 1 = Len(s) /\ t[Len(t)] = e
  BY <1>1
<1>7. g[Len(t)] = IF e \in S THEN Append(f[Len(s)], e) ELSE f[Len(s)]
  BY <1>4, <1>5, <1>6 DEF SelectStep
<1>8. QED BY <1>3, <1>7 DEF t

\* Induction over sequences, for a set instead of a predicate.
LEMMA SeqInduction ==
  ASSUME NEW T, NEW A, << >> \in A, \A s \in Seq(T), e \in T : s \in A => Append(s, e) \in A
  PROVE  Seq(T) \subseteq A
<1> DEFINE Bad == {Len(s) : s \in Seq(T) \ A}
<1>1. Bad \in SUBSET Nat
  BY LenProperties
<1>2. SUFFICES ASSUME Bad # {} PROVE FALSE
  OBVIOUS
<1> HIDE DEF Bad
<1>3. PICK n \in Bad : \A y \in Bad : n <= y
  BY <1>1, <1>2, Least
<1>4. PICK s \in Seq(T) : s \notin A /\ n = Len(s)
  BY DEF Bad
<1>5. s # << >>
  BY <1>4
<1>6. PICK t \in Seq(T), e \in T : s = Append(t, e)
  BY <1>5, SequenceEmptyOrAppend
<1>7. Len(s) = Len(t) + 1 /\ Len(t) \in Nat
  BY <1>6, AppendProperties, LenProperties
<1>8. t \notin A
  BY <1>4, <1>6
<1>9. Len(t) \in Bad
  BY <1>8 DEF Bad
<1>10. QED BY <1>3, <1>4, <1>7, <1>9

\* What is selected is a sequence of the same messages, and no longer.
LEMMA SelectedType ==
  ASSUME NEW T, NEW s \in Seq(T), NEW S
  PROVE  Neves!Selected(s, S) \in Seq(T) /\ Len(Neves!Selected(s, S)) <= Len(s)
<1> DEFINE A == {t \in Seq(T) : Neves!Selected(t, S) \in Seq(T) /\ Len(Neves!Selected(t, S)) <= Len(t)}
<1>1. << >> \in A
  <2>1. Neves!Selected(<< >>, S) = << >>
    BY SelectedEmpty
  <2>2. << >> \in Seq(T) /\ Len(<< >>) <= Len(<< >>)
    BY EmptySeq
  <2> DEFINE empty == << >>
  <2> HIDE DEF empty
  <2>3. empty \in A
    BY <2>1, <2>2 DEF empty
  <2>4. QED BY <2>3 DEF empty
<1>2. ASSUME NEW t \in Seq(T), NEW e \in T, t \in A
      PROVE  Append(t, e) \in A
  <2>1. /\ Append(t, e) \in Seq(T) /\ Len(Append(t, e)) = Len(t) + 1 /\ Len(t) \in Nat
    BY AppendProperties, LenProperties
  <2>2. Neves!Selected(t, S) \in Seq(T) /\ Len(Neves!Selected(t, S)) <= Len(t) /\ Len(Neves!Selected(t, S)) \in Nat
    BY <1>2, LenProperties
  <2>3. /\ Append(Neves!Selected(t, S), e) \in Seq(T)
        /\ Len(Append(Neves!Selected(t, S), e)) = Len(Neves!Selected(t, S)) + 1
    BY <2>2, AppendProperties
  <2>4. Neves!Selected(Append(t, e), S) \in {Append(Neves!Selected(t, S), e), Neves!Selected(t, S)}
    BY SelectedAppend
  <2>5. Neves!Selected(Append(t, e), S) \in Seq(T) /\ Len(Neves!Selected(Append(t, e), S)) <= Len(t) + 1
    BY <2>2, <2>3, <2>4
  <2>6. QED BY <2>1, <2>5
<1> HIDE DEF A
<1>3. Seq(T) \subseteq A
  BY <1>1, <1>2, SeqInduction
<1>4. QED BY <1>3 DEF A

\* Two parts of a sequence may be selected from one after the other.
LEMMA SelectedConcat ==
  ASSUME NEW T, NEW s \in Seq(T), NEW t \in Seq(T), NEW S
  PROVE  Neves!Selected(s \o t, S) = Neves!Selected(s, S) \o Neves!Selected(t, S)
<1> DEFINE A == {u \in Seq(T) : Neves!Selected(s \o u, S) = Neves!Selected(s, S) \o Neves!Selected(u, S)}
<1>1. << >> \in A
  <2>1. s \o << >> = s /\ Neves!Selected(s, S) \o << >> = Neves!Selected(s, S)
    BY ConcatEmptySeq, SelectedType
  <2>2. QED BY <2>1, SelectedEmpty, EmptySeq
<1>2. ASSUME NEW u \in Seq(T), NEW e \in T, u \in A
      PROVE  Append(u, e) \in A
  <2>1. Append(u, e) \in Seq(T) /\ s \o u \in Seq(T) /\ <<e>> \in Seq(T)
    BY AppendProperties, ConcatProperties
  <2>2. s \o Append(u, e) = Append(s \o u, e)
    <3>1. Append(u, e) = u \o <<e>> /\ Append(s \o u, e) = (s \o u) \o <<e>>
      BY <2>1, AppendIsConcat
    <3>2. QED BY <2>1, <3>1, ConcatAssociative
  <2> DEFINE p == Neves!Selected(s, S)
             q == Neves!Selected(u, S)
  <2>3. p \in Seq(T) /\ q \in Seq(T) /\ Neves!Selected(s \o u, S) = p \o q
    BY <1>2, SelectedType
  <2>4. /\ Neves!Selected(Append(u, e), S) = IF e \in S THEN Append(q, e) ELSE q
        /\ Neves!Selected(Append(s \o u, e), S) = IF e \in S THEN Append(p \o q, e) ELSE p \o q
    BY <2>1, <2>3, SelectedAppend
  <2> HIDE DEF p, q
  <2>5. p \o Append(q, e) = Append(p \o q, e)
    <3>1. p \o q \in Seq(T)
      BY <2>3, ConcatProperties
    <3>2. Append(q, e) = q \o <<e>> /\ Append(p \o q, e) = (p \o q) \o <<e>>
      BY <2>3, <3>1, AppendIsConcat
    <3>3. QED BY <2>1, <2>3, <3>2, ConcatAssociative
  <2>6. Neves!Selected(s \o Append(u, e), S) = p \o Neves!Selected(Append(u, e), S)
    BY <2>2, <2>4, <2>5
  <2>7. QED BY <2>1, <2>6 DEF p
<1> HIDE DEF A
<1>3. Seq(T) \subseteq A
  BY <1>1, <1>2, SeqInduction
<1>4. QED BY <1>3 DEF A

\* One element is selected or passed.
LEMMA SelectedOne ==
  ASSUME NEW T, NEW x \in T, NEW S
  PROVE  Neves!Selected(<<x>>, S) = IF x \in S THEN <<x>> ELSE << >>
<1>1. << >> \in Seq(T) /\ Append(<< >>, x) = <<x>>
  BY EmptySeq
<1>2. Neves!Selected(Append(<< >>, x), S)
        = IF x \in S THEN Append(Neves!Selected(<< >>, S), x) ELSE Neves!Selected(<< >>, S)
  BY <1>1, SelectedAppend
<1>3. Neves!Selected(<< >>, S) = << >>
  BY SelectedEmpty
<1>4. QED BY <1>1, <1>2, <1>3

\* How many elements of s lie in S.
Number(s, S) == Len(Neves!Selected(s, S))

\* The elements of a sequence that are in S are counted.
LEMMA NumberType ==
  ASSUME NEW T, NEW s \in Seq(T), NEW S
  PROVE  Number(s, S) \in Nat
<1>1. Neves!Selected(s, S) \in Seq(T)
  BY SelectedType
<1>2. QED BY <1>1, LenProperties DEF Number

\* A further element counts, or does not.
LEMMA NumberAppend ==
  ASSUME NEW T, NEW s \in Seq(T), NEW e \in T, NEW S
  PROVE  Number(Append(s, e), S) = Number(s, S) + (IF e \in S THEN 1 ELSE 0)
<1>1. Neves!Selected(s, S) \in Seq(T) /\ Number(s, S) \in Nat
  BY SelectedType, NumberType
<1>2. Len(Append(Neves!Selected(s, S), e)) = Len(Neves!Selected(s, S)) + 1
  BY <1>1, AppendProperties
<1>3. CASE e \in S
  <2>1. Neves!Selected(Append(s, e), S) = Append(Neves!Selected(s, S), e)
    BY <1>3, SelectedAppend
  <2>2. QED BY <1>2, <1>3, <2>1 DEF Number
<1>4. CASE e \notin S
  <2>1. Neves!Selected(Append(s, e), S) = Neves!Selected(s, S)
    BY <1>4, SelectedAppend
  <2>2. QED BY <1>1, <1>4, <2>1 DEF Number
<1>5. QED BY <1>3, <1>4

\* No more are left of a selection.
LEMMA NumberSelected ==
  ASSUME NEW T, NEW s \in Seq(T), NEW S, NEW U
  PROVE  Number(Neves!Selected(s, S), U) <= Number(s, U)
<1> DEFINE A == {u \in Seq(T) : Number(Neves!Selected(u, S), U) <= Number(u, U)}
<1>1. << >> \in A
  <2> DEFINE empty == << >>
  <2>1. empty \in Seq(T) /\ Neves!Selected(empty, S) = empty
    BY EmptySeq, SelectedEmpty
  <2> HIDE DEF empty
  <2>2. Number(empty, U) \in Nat
    BY <2>1, NumberType
  <2>3. empty \in A
    BY <2>1, <2>2
  <2>4. QED BY <2>3 DEF empty
<1>2. ASSUME NEW u \in Seq(T), NEW e \in T, u \in A
      PROVE  Append(u, e) \in A
  <2> DEFINE v == Neves!Selected(u, S)
  <2>1. v \in Seq(T) /\ Append(u, e) \in Seq(T)
    BY SelectedType, AppendProperties
  <2>2. Neves!Selected(Append(u, e), S) = IF e \in S THEN Append(v, e) ELSE v
    BY SelectedAppend
  <2>3. Number(v, U) <= Number(u, U)
    BY <1>2
  <2> HIDE DEF v
  <2>4. /\ Number(v, U) \in Nat /\ Number(u, U) \in Nat
        /\ Number(Append(u, e), U) = Number(u, U) + (IF e \in U THEN 1 ELSE 0)
        /\ Number(Append(v, e), U) = Number(v, U) + (IF e \in U THEN 1 ELSE 0)
    BY <2>1, NumberType, NumberAppend
  <2>5. Number(Append(v, e), U) <= Number(Append(u, e), U) /\ Number(v, U) <= Number(Append(u, e), U)
    BY <2>3, <2>4
  <2>6. QED BY <2>1, <2>2, <2>5
<1> HIDE DEF A
<1>3. Seq(T) \subseteq A
  BY <1>1, <1>2, SeqInduction
<1>4. QED BY <1>3 DEF A

\* An element that is removed counts no longer.
LEMMA NumberWithout ==
  ASSUME NEW T, NEW s \in Seq(T), NEW j \in 1..Len(s), NEW S
  PROVE  Number(s, S) = Number(RemoveAt(s, j), S) + (IF s[j] \in S THEN 1 ELSE 0)
<1> DEFINE n == Len(s)
           x == s[j]
           one == <<x>>
           front == SubSeq(s, 1, j - 1)
           back == SubSeq(s, j + 1, n)
<1>1. n \in Nat /\ j \in 1..n /\ x \in T /\ \A i \in 1..n : s[i] \in T
  BY LenProperties, ElementOfSeq
<1>2. front \in Seq(T) /\ back \in Seq(T) /\ one \in Seq(T)
  <2>1. (\A i \in 1..(j - 1) : i \in 1..n) /\ \A i \in (j + 1)..n : i \in 1..n
    BY <1>1
  <2>2. (\A i \in 1..(j - 1) : s[i] \in T) /\ \A i \in (j + 1)..n : s[i] \in T
    BY <1>1, <2>1
  <2>3. QED BY <1>1, <2>2, SubSeqProperties
<1>3. s = front \o (one \o back)
  <2>1. SubSeq(s, j, n) = one \o back
    BY <1>1, SubSeqRecursiveFirst
  <2>2. front \o SubSeq(s, (j - 1) + 1, n) = SubSeq(s, 1, n)
    <3>1. 1 \in 1..(n + 1) /\ j - 1 \in (1 - 1)..n /\ n \in (j - 1)..n
      BY <1>1
    <3>2. QED BY <3>1, ConcatAdjacentSubSeq
  <2>3. (j - 1) + 1 = j /\ SubSeq(s, 1, n) = s
    BY <1>1, SubSeqFull
  <2>4. QED BY <2>1, <2>2, <2>3
<1>4. RemoveAt(s, j) = front \o back
  BY DEF RemoveAt
<1>5. Number(one, S) = IF x \in S THEN 1 ELSE 0
  <2>1. Neves!Selected(<<x>>, S) = IF x \in S THEN <<x>> ELSE << >>
    BY <1>1, SelectedOne
  <2>2. Len(<<x>>) = 1 /\ Len(<< >>) = 0
    OBVIOUS
  <2>3. QED BY <2>1, <2>2 DEF Number
<1> HIDE DEF n, front, back, one
<1>6. \A u, v \in Seq(T) : Number(u \o v, S) = Number(u, S) + Number(v, S)
  <2> TAKE u \in Seq(T), v \in Seq(T)
  <2>1. Neves!Selected(u \o v, S) = Neves!Selected(u, S) \o Neves!Selected(v, S)
    BY SelectedConcat
  <2>2. Neves!Selected(u, S) \in Seq(T) /\ Neves!Selected(v, S) \in Seq(T)
    BY SelectedType
  <2>3. QED BY <2>1, <2>2, ConcatProperties DEF Number
<1>7. one \o back \in Seq(T)
  BY <1>2, ConcatProperties
<1>8. /\ Number(s, S) = Number(front, S) + (Number(one, S) + Number(back, S))
      /\ Number(RemoveAt(s, j), S) = Number(front, S) + Number(back, S)
  BY <1>2, <1>3, <1>4, <1>6, <1>7
<1>9. Number(front, S) \in Nat /\ Number(back, S) \in Nat /\ Number(one, S) \in Nat
  BY <1>2, NumberType
<1>10. QED BY <1>5, <1>8, <1>9 DEF one

-----------------------------------------------------------------------------
(* The second board stores a message once, and once more for every datagram *)
(* that the network doubles: what is on the board and what is under way.    *)

Wired     == [de : Clients, r : Neves!Pedidos]
Asking(t) == {m \in Wired : m.r = Neves!Pedido("cadastrar", t)}

StoreTypes ==
  /\ mode \in {"tcp", "udp"} /\ vivo \in BOOLEAN /\ reset \in BOOLEAN /\ stale \in BOOLEAN
  /\ vetor_mensagens \in Seq(Texto) /\ Len(vetor_mensagens) <= MCSize
  /\ ultimo \in Neves!Pedidos \cup {None} /\ pedidos \in Seq(Wired)
  /\ lugar \in [Clients -> {"menu", "wait", "gone"}] /\ dups \in 0..MaxDups

StoreInv ==
  /\ StoreTypes
  /\ mode = "udp" \/ ~stale => \A t \in Texto :
       Number(vetor_mensagens, {t}) + Number(pedidos, Asking(t)) <= (IF t \in typed THEN 1 ELSE 0) + dups

\* What the branches of the loop do with the board.
LEMMA HandleStores ==
  ASSUME StoreTypes, NEW r \in Neves!Pedidos, NEW x, Neves!Handle(r, x)
  PROVE  /\ vetor_mensagens' \in Seq(Texto) /\ Len(vetor_mensagens') <= MCSize
         /\ \A t \in Texto : Number(vetor_mensagens', {t})
              <= Number(vetor_mensagens, {t}) + (IF r = Neves!Pedido("cadastrar", t) THEN 1 ELSE 0)
<1> DEFINE v == vetor_mensagens
<1>1. /\ v \in Seq(Texto) /\ Len(v) \in Nat /\ Len(v) <= MCSize /\ MCSize \in Nat
      /\ \A t \in Texto : Number(v, {t}) \in Nat
  BY LenProperties, NumberType, BoardsAssumption DEF StoreTypes, Basic!BasicBoardAssumption
<1>2. CASE r.op = "cadastrar" /\ Len(v) < MCSize /\ v' = Append(v, r.arg)
  <2>1. PICK u \in Texto : r = Neves!Pedido("cadastrar", u) /\ r.arg = u
    BY <1>2 DEF Neves!Pedidos, Neves!Pedido
  <2>2. v' \in Seq(Texto) /\ Len(v') = Len(v) + 1
    BY <1>1, <1>2, <2>1, AppendProperties
  <2>3. ASSUME NEW t \in Texto
        PROVE  Number(v', {t}) <= Number(v, {t}) + (IF r = Neves!Pedido("cadastrar", t) THEN 1 ELSE 0)
    <3>1. Number(v', {t}) = Number(v, {t}) + (IF u \in {t} THEN 1 ELSE 0)
      <4>1. v' = Append(v, u)
        BY <1>2, <2>1
      <4>2. Number(Append(v, u), {t}) = Number(v, {t}) + (IF u \in {t} THEN 1 ELSE 0)
        BY <1>1, NumberAppend
      <4>3. QED BY <4>1, <4>2
    <3>2. u \in {t} => r = Neves!Pedido("cadastrar", t)
      BY <2>1
    <3>3. QED BY <1>1, <3>1, <3>2
  <2>4. QED BY <1>1, <1>2, <2>2, <2>3
<1>3. CASE v' = v
  BY <1>1, <1>3
<1>4. CASE v' = Neves!Outros(r.arg)
  <2> DEFINE S == {t \in Texto : De[t] # r.arg}
  <2>1. v' = Neves!Selected(v, S)
    BY <1>4 DEF Neves!Outros
  <2> HIDE DEF S
  <2>2. /\ Neves!Selected(v, S) \in Seq(Texto) /\ Len(Neves!Selected(v, S)) <= Len(v)
        /\ \A t \in Texto : Number(Neves!Selected(v, S), {t}) <= Number(v, {t})
    BY <1>1, SelectedType, NumberSelected
  <2>3. Len(Neves!Selected(v, S)) \in Nat /\ \A t \in Texto : Number(Neves!Selected(v, S), {t}) \in Nat
    BY <2>2, LenProperties, NumberType
  <2>4. QED BY <1>1, <2>1, <2>2, <2>3
<1>5. QED BY <1>2, <1>3, <1>4 DEF Neves!Handle

\* The requests under way, with one more, or without one.
LEMMA AskingCount ==
  ASSUME StoreTypes
  PROVE  /\ \A t \in Texto : Number(pedidos, Asking(t)) \in Nat /\ Number(vetor_mensagens, {t}) \in Nat
         /\ \A m \in Wired : /\ Append(pedidos, m) \in Seq(Wired)
                             /\ \A t \in Texto : Number(Append(pedidos, m), Asking(t))
                                  = Number(pedidos, Asking(t)) + (IF m \in Asking(t) THEN 1 ELSE 0)
         /\ \A j \in DOMAIN pedidos :
              /\ pedidos[j] \in Wired /\ RemoveAt(pedidos, j) \in Seq(Wired)
              /\ \A t \in Texto : /\ Number(RemoveAt(pedidos, j), Asking(t)) \in Nat
                                  /\ Number(pedidos, Asking(t)) = Number(RemoveAt(pedidos, j), Asking(t))
                                       + (IF pedidos[j] \in Asking(t) THEN 1 ELSE 0)
<1>1. pedidos \in Seq(Wired) /\ vetor_mensagens \in Seq(Texto)
  BY DEF StoreTypes
<1>2. \A t \in Texto : Number(pedidos, Asking(t)) \in Nat /\ Number(vetor_mensagens, {t}) \in Nat
  BY <1>1, NumberType
<1>3. ASSUME NEW m \in Wired
      PROVE  /\ Append(pedidos, m) \in Seq(Wired)
             /\ \A t \in Texto : Number(Append(pedidos, m), Asking(t))
                  = Number(pedidos, Asking(t)) + (IF m \in Asking(t) THEN 1 ELSE 0)
  BY <1>1, NumberAppend, AppendProperties
<1>4. ASSUME NEW j \in DOMAIN pedidos
      PROVE  /\ pedidos[j] \in Wired /\ RemoveAt(pedidos, j) \in Seq(Wired)
             /\ \A t \in Texto : /\ Number(RemoveAt(pedidos, j), Asking(t)) \in Nat
                                 /\ Number(pedidos, Asking(t)) = Number(RemoveAt(pedidos, j), Asking(t))
                                      + (IF pedidos[j] \in Asking(t) THEN 1 ELSE 0)
  <2>1. j \in 1..Len(pedidos)
    BY <1>1, LenProperties
  <2>2. pedidos[j] \in Wired /\ RemoveAt(pedidos, j) \in Seq(Wired)
    BY <1>1, <2>1, ElementOfSeq, SeqWithout
  <2>3. QED BY <1>1, <2>1, <2>2, NumberWithout, NumberType
<1>5. QED BY <1>2, <1>3, <1>4

\* A step of the second board.
LEMMA StoreStep ==
  ASSUME StoreInv, Neves!Next
  PROVE  StoreInv'
<1> DEFINE Count(t) == Number(vetor_mensagens, {t}) + Number(pedidos, Asking(t))
           Limit(t) == (IF t \in typed THEN 1 ELSE 0) + dups
<1>1. StoreTypes /\ dups \in Nat
  BY DEF StoreInv, StoreTypes
<1>2. /\ \A t \in Texto : Number(pedidos, Asking(t)) \in Nat /\ Number(vetor_mensagens, {t}) \in Nat
      /\ \A m \in Wired : /\ Append(pedidos, m) \in Seq(Wired)
                          /\ \A t \in Texto : Number(Append(pedidos, m), Asking(t))
                               = Number(pedidos, Asking(t)) + (IF m \in Asking(t) THEN 1 ELSE 0)
      /\ \A j \in DOMAIN pedidos :
           /\ pedidos[j] \in Wired /\ RemoveAt(pedidos, j) \in Seq(Wired)
           /\ \A t \in Texto : /\ Number(RemoveAt(pedidos, j), Asking(t)) \in Nat
                               /\ Number(pedidos, Asking(t)) = Number(RemoveAt(pedidos, j), Asking(t))
                                    + (IF pedidos[j] \in Asking(t) THEN 1 ELSE 0)
  BY <1>1, AskingCount
<1>3. CASE Neves!Serve
  <2>1. PICK j \in DOMAIN pedidos :
          /\ pedidos' = RemoveAt(pedidos, j) /\ ultimo' = pedidos[j].r
          /\ \E x : Neves!Handle(pedidos[j].r, x)
          /\ reset' \in {reset, reset \/ (mode = "tcp" /\ lugar[pedidos[j].de] = "gone")}
          /\ stale' = (stale \/ served[pedidos[j].de] \/ pedidos[j].r # pedido[pedidos[j].de])
    BY <1>3 DEF Neves!Serve, Neves!RemoveAt, RemoveAt
  <2>2. PICK r \in Neves!Pedidos : r = pedidos[j].r /\ pedidos[j] \in Wired
    BY <1>2 DEF Wired
  <2>3. PICK x : Neves!Handle(r, x)
    BY <2>1, <2>2 DEF Neves!Handle
  <2>4. UNCHANGED <<mode, vivo, lugar, typed, dups>>
    BY <1>3 DEF Neves!Serve, Neves!users
  <2>5. /\ vetor_mensagens' \in Seq(Texto) /\ Len(vetor_mensagens') <= MCSize
        /\ \A t \in Texto : Number(vetor_mensagens', {t})
             <= Number(vetor_mensagens, {t}) + (IF r = Neves!Pedido("cadastrar", t) THEN 1 ELSE 0)
    BY <1>1, <2>3, HandleStores
  <2>6. StoreTypes'
    <3>1. stale' \in BOOLEAN /\ reset' \in BOOLEAN
      BY <1>1, <2>1 DEF StoreTypes
    <3>2. pedidos' \in Seq(Wired) /\ ultimo' \in Neves!Pedidos \cup {None}
      BY <1>2, <2>1, <2>2
    <3>3. QED BY <1>1, <2>4, <2>5, <3>1, <3>2 DEF StoreTypes
  <2>7. ASSUME mode = "udp" \/ ~stale', NEW t \in Texto
        PROVE  Number(vetor_mensagens', {t}) + Number(pedidos', Asking(t)) <= Limit(t)
    <3>1. Count(t) <= Limit(t)
      BY <2>1, <2>7 DEF StoreInv
    <3>2. r = Neves!Pedido("cadastrar", t) <=> pedidos[j] \in Asking(t)
      BY <2>2 DEF Asking
    <3>3. Number(vetor_mensagens', {t}) \in Nat
      BY <2>5, NumberType
    <3>4. Number(pedidos, Asking(t)) = Number(pedidos', Asking(t)) + (IF pedidos[j] \in Asking(t) THEN 1 ELSE 0)
      BY <1>2, <2>1
    <3>5. Number(pedidos', Asking(t)) \in Nat
      BY <1>2, <2>1
    <3>6. Number(vetor_mensagens', {t}) <= Number(vetor_mensagens, {t}) + (IF pedidos[j] \in Asking(t) THEN 1 ELSE 0)
      BY <2>5, <3>2
    <3>7. Limit(t) \in Nat /\ Number(vetor_mensagens, {t}) \in Nat
      BY <1>1, <1>2
    <3> HIDE DEF Limit
    <3>8. QED BY <3>1, <3>3, <3>4, <3>5, <3>6, <3>7
  <2>8. QED BY <2>4, <2>6, <2>7 DEF StoreInv
<1>4. CASE Neves!ServeAgain
  <2>1. UNCHANGED <<mode, ultimo, pedidos, lugar, typed, dups>> /\ mode = "tcp"
    BY <1>4 DEF Neves!ServeAgain, Neves!users
  <2>2. CASE /\ ultimo # None /\ \E x \in Neves!Answers(ultimo) : Neves!Handle(ultimo, x)
             /\ reset' \in BOOLEAN /\ stale' = TRUE /\ UNCHANGED vivo
    <3>1. ultimo \in Neves!Pedidos
      BY <1>1, <2>2 DEF StoreTypes
    <3>2. vetor_mensagens' \in Seq(Texto) /\ Len(vetor_mensagens') <= MCSize
      BY <1>1, <2>2, <3>1, HandleStores
    <3>3. QED BY <1>1, <2>1, <2>2, <3>2 DEF StoreInv, StoreTypes
  <2>3. CASE vivo' = FALSE /\ UNCHANGED <<vetor_mensagens, reset, stale>>
    BY <1>1, <2>1, <2>3 DEF StoreInv, StoreTypes
  <2>4. QED BY <1>4, <2>2, <2>3 DEF Neves!ServeAgain
<1>5. CASE Neves!Lose
  <2>1. UNCHANGED <<mode, vivo, vetor_mensagens, ultimo, reset, stale, lugar, typed, dups>>
    BY <1>5 DEF Neves!Lose, Neves!users, Neves!state
  <2>2. CASE \E j \in DOMAIN pedidos : pedidos' = RemoveAt(pedidos, j)
    <3>1. PICK j \in DOMAIN pedidos : pedidos' = RemoveAt(pedidos, j)
      BY <2>2
    <3>2. \A t \in Texto : Number(pedidos', Asking(t)) <= Number(pedidos, Asking(t))
                           /\ Number(pedidos', Asking(t)) \in Nat
      BY <1>2, <3>1
    <3>3. StoreTypes'
      BY <1>1, <1>2, <2>1, <3>1 DEF StoreTypes
    <3>4. ASSUME mode = "udp" \/ ~stale, NEW t \in Texto
          PROVE  Number(vetor_mensagens, {t}) + Number(pedidos', Asking(t)) <= Limit(t)
      <4>1. Count(t) <= Limit(t)
        BY <3>4 DEF StoreInv
      <4>2. Limit(t) \in Nat
        BY <1>1
      <4> HIDE DEF Limit
      <4>3. QED BY <1>2, <3>2, <4>1, <4>2
    <3>5. QED BY <2>1, <3>3, <3>4 DEF StoreInv
  <2>3. CASE UNCHANGED pedidos
    BY <1>1, <2>1, <2>3 DEF StoreInv, StoreTypes
  <2>4. QED BY <1>5, <2>2, <2>3 DEF Neves!Lose, Neves!RemoveAt, RemoveAt
<1>6. CASE Neves!Duplicate
  <2>1. /\ UNCHANGED <<mode, vivo, vetor_mensagens, ultimo, reset, stale, lugar, typed>>
        /\ dups < MaxDups /\ dups' = dups + 1
    BY <1>6 DEF Neves!Duplicate, Neves!users, Neves!state
  <2>2. PICK j \in DOMAIN pedidos : pedidos' = Append(pedidos, pedidos[j])
    BY <1>6 DEF Neves!Duplicate
  <2>3. pedidos[j] \in Wired
    BY <1>2
  <2>4. StoreTypes'
    <3>1. dups' \in 0..MaxDups
      BY <1>1, <2>1, BoardsAssumption DEF StoreTypes, Neves!StructBoardAssumption
    <3>2. QED BY <1>1, <1>2, <2>1, <2>2, <2>3, <3>1 DEF StoreTypes
  <2>5. ASSUME mode = "udp" \/ ~stale, NEW t \in Texto
        PROVE  Number(vetor_mensagens, {t}) + Number(pedidos', Asking(t)) <= (IF t \in typed THEN 1 ELSE 0) + (dups + 1)
    <3>1. Count(t) <= Limit(t)
      BY <2>5 DEF StoreInv
    <3>2. Number(pedidos', Asking(t)) = Number(pedidos, Asking(t)) + (IF pedidos[j] \in Asking(t) THEN 1 ELSE 0)
      BY <1>2, <2>2, <2>3
    <3>3. Limit(t) \in Nat /\ Limit(t) + 1 = (IF t \in typed THEN 1 ELSE 0) + (dups + 1)
      BY <1>1
    <3> HIDE DEF Limit
    <3>4. Number(vetor_mensagens, {t}) + Number(pedidos', Asking(t)) <= Limit(t) + 1
      BY <1>2, <3>1, <3>2, <3>3
    <3>5. QED BY <3>3, <3>4
  <2>6. QED BY <2>1, <2>4, <2>5 DEF StoreInv
<1>7. ASSUME NEW c \in Clients, NEW r \in Neves!Pedidos, Neves!Ask(c, r),
             \/ UNCHANGED typed /\ r.op # "cadastrar"
             \/ \E u \in Texto \ typed : r = Neves!Pedido("cadastrar", u) /\ typed' = typed \cup {u}
      PROVE  StoreInv'
  <2> DEFINE m == [de |-> c, r |-> r]
  <2>1. /\ UNCHANGED <<mode, vivo, vetor_mensagens, ultimo, reset, stale, dups>>
        /\ lugar' = [lugar EXCEPT ![c] = "wait"] /\ pedidos' = Append(pedidos, m)
    BY <1>7 DEF Neves!Ask
  <2>2. m \in Wired /\ m.r = r
    BY DEF Wired
  <2> HIDE DEF m
  <2>3. StoreTypes'
    <3>1. lugar' \in [Clients -> {"menu", "wait", "gone"}] /\ pedidos' \in Seq(Wired)
      BY <1>1, <1>2, <2>1, <2>2 DEF StoreTypes
    <3>2. QED BY <1>1, <2>1, <3>1 DEF StoreTypes
  <2>4. ASSUME mode = "udp" \/ ~stale, NEW t \in Texto
        PROVE  Number(vetor_mensagens, {t}) + Number(pedidos', Asking(t)) <= (IF t \in typed' THEN 1 ELSE 0) + dups
    <3>1. Count(t) <= Limit(t)
      BY <2>4 DEF StoreInv
    <3>2. Number(pedidos', Asking(t)) = Number(pedidos, Asking(t)) + (IF m \in Asking(t) THEN 1 ELSE 0)
      BY <1>2, <2>1, <2>2
    <3>3. m \in Asking(t) <=> r = Neves!Pedido("cadastrar", t)
      BY <2>2 DEF Asking
    <3>4. CASE UNCHANGED typed /\ r.op # "cadastrar"
      <4>1. m \notin Asking(t)
        BY <3>3, <3>4 DEF Neves!Pedido
      <4>2. QED BY <1>2, <3>1, <3>2, <3>4, <4>1
    <3>5. CASE \E u \in Texto \ typed : r = Neves!Pedido("cadastrar", u) /\ typed' = typed \cup {u}
      <4>1. PICK u \in Texto \ typed : r = Neves!Pedido("cadastrar", u) /\ typed' = typed \cup {u}
        BY <3>5
      <4>2. m \in Asking(t) <=> t = u
        BY <3>3, <4>1 DEF Neves!Pedido
      <4>3. CASE t = u
        BY <1>1, <1>2, <3>1, <3>2, <4>1, <4>2, <4>3
      <4>4. CASE t # u
        BY <1>1, <1>2, <3>1, <3>2, <4>1, <4>2, <4>4
      <4>5. QED BY <4>3, <4>4
    <3>6. QED BY <1>7, <3>4, <3>5
  <2>5. QED BY <2>1, <2>3, <2>4 DEF StoreInv
<1>8. ASSUME NEW c \in Clients, Neves!Cadastrar(c) \/ Neves!Ler(c) \/ Neves!Apagar(c)
      PROVE  StoreInv'
  <2>1. CASE Neves!Cadastrar(c)
    <3>1. PICK u \in Texto \ typed : Neves!Ask(c, Neves!Pedido("cadastrar", u)) /\ typed' = typed \cup {u}
      BY <2>1 DEF Neves!Cadastrar
    <3>2. Neves!Pedido("cadastrar", u) \in Neves!Pedidos
      BY DEF Neves!Pedidos
    <3>3. QED BY <1>7, <3>1, <3>2
  <2>2. CASE Neves!Ler(c)
    <3>1. PICK r \in Neves!Pedidos : r = Neves!Pedido("ler", None)
      BY DEF Neves!Pedidos
    <3>2. Neves!Ask(c, r) /\ UNCHANGED typed /\ r.op # "cadastrar"
      BY <2>2, <3>1 DEF Neves!Ler, Neves!Pedido
    <3>3. QED BY <1>7, <3>2
  <2>3. CASE Neves!Apagar(c)
    <3>1. PICK u \in Usuario : Neves!Ask(c, Neves!Pedido("apagar", u)) /\ UNCHANGED typed
      BY <2>3 DEF Neves!Apagar
    <3>2. PICK r \in Neves!Pedidos : r = Neves!Pedido("apagar", u)
      BY DEF Neves!Pedidos
    <3>3. Neves!Ask(c, r) /\ UNCHANGED typed /\ r.op # "cadastrar"
      BY <3>1, <3>2 DEF Neves!Pedido
    <3>4. QED BY <1>7, <3>3
  <2>4. QED BY <1>8, <2>1, <2>2, <2>3
<1>9. ASSUME NEW c \in Clients, Neves!Sair(c)
      PROVE  StoreInv'
  <2>1. /\ UNCHANGED <<mode, vivo, vetor_mensagens, ultimo, stale, pedidos, typed, dups>>
        /\ lugar' = [lugar EXCEPT ![c] = "gone"] /\ reset' \in BOOLEAN
    BY <1>9 DEF Neves!Sair
  <2>2. QED BY <1>1, <2>1 DEF StoreInv, StoreTypes
<1>10. ASSUME NEW c \in Clients, Neves!Receber(c)
       PROVE  StoreInv'
  <2>1. /\ UNCHANGED <<mode, vivo, vetor_mensagens, ultimo, reset, stale, pedidos, typed, dups>>
        /\ lugar' = [lugar EXCEPT ![c] = "menu"]
    BY <1>10 DEF Neves!Receber, Neves!state
  <2>2. QED BY <1>1, <2>1 DEF StoreInv, StoreTypes
<1>11. QED BY <1>3, <1>4, <1>5, <1>6, <1>8, <1>9, <1>10 DEF Neves!Next

\* The second board is empty, and nothing is under way.
LEMMA StoreStart ==
  ASSUME Neves!Init
  PROVE  StoreInv
<1>1. /\ mode \in {"tcp", "udp"} /\ vivo = TRUE /\ vetor_mensagens = << >> /\ ultimo = None
      /\ pedidos = << >> /\ lugar = [c \in Clients |-> "menu"] /\ typed = {}
      /\ reset = FALSE /\ dups = 0 /\ stale = FALSE
  BY DEF Neves!Init
<1>2. \A S : Number(<< >>, S) = 0
  BY SelectedEmpty, EmptySeq DEF Number
<1>3. vetor_mensagens \in Seq(Texto) /\ Len(vetor_mensagens) = 0 /\ pedidos \in Seq(Wired)
  BY <1>1, EmptySeq
<1>4. MCSize \in Nat /\ MaxDups \in Nat
  BY BoardsAssumption DEF Neves!StructBoardAssumption
<1>5. StoreTypes
  <2>1. dups \in 0..MaxDups /\ Len(vetor_mensagens) <= MCSize
    BY <1>1, <1>3, <1>4
  <2>2. lugar \in [Clients -> {"menu", "wait", "gone"}]
    BY <1>1
  <2>3. ultimo \in Neves!Pedidos \cup {None} /\ vivo \in BOOLEAN /\ reset \in BOOLEAN /\ stale \in BOOLEAN
    BY <1>1
  <2>4. QED BY <1>1, <1>3, <2>1, <2>2, <2>3 DEF StoreTypes
<1>6. ASSUME NEW t \in Texto
      PROVE  Number(vetor_mensagens, {t}) + Number(pedidos, Asking(t)) <= (IF t \in typed THEN 1 ELSE 0) + dups
  <2>1. Number(vetor_mensagens, {t}) = 0 /\ Number(pedidos, Asking(t)) = 0
    BY <1>1, <1>2
  <2>2. t \notin typed /\ dups = 0
    BY <1>1
  <2>3. QED BY <2>1, <2>2
<1>7. QED BY <1>5, <1>6 DEF StoreInv

\* The invariant says what the runs check.
LEMMA StoreRight ==
  ASSUME StoreInv
  PROVE  Neves!TypeOK /\ Neves!StoredOnce
<1>1. vetor_mensagens \in Seq(Texto) /\ DOMAIN vetor_mensagens = 1..Len(vetor_mensagens)
      /\ \A n \in 1..Len(vetor_mensagens) : vetor_mensagens[n] \in Texto
  BY Queue DEF StoreInv, StoreTypes
<1>2. Neves!TypeOK
  BY <1>1 DEF StoreInv, StoreTypes, Neves!TypeOK, Neves!Range
<1>3. ASSUME mode = "udp" \/ ~stale, NEW t \in Texto
      PROVE  Len(Neves!Selected(vetor_mensagens, {t})) <= 1 + dups
  <2>1. Number(vetor_mensagens, {t}) + Number(pedidos, Asking(t)) <= (IF t \in typed THEN 1 ELSE 0) + dups
    BY <1>3 DEF StoreInv
  <2>2. Number(vetor_mensagens, {t}) \in Nat /\ Number(pedidos, Asking(t)) \in Nat /\ dups \in Nat
    BY AskingCount DEF StoreInv, StoreTypes
  <2>3. Number(vetor_mensagens, {t}) <= 1 + dups
    BY <2>1, <2>2
  <2>4. QED BY <2>3 DEF Number
<1>4. QED BY <1>2, <1>3 DEF Neves!StoredOnce

\* The other programs leave the two boards alone.
LEMMA BasicKept ==
  ASSUME BasicInv, UNCHANGED basicVars
  PROVE  BasicInv'
<1>1. UNCHANGED <<transport, toServer, toClient, spc, buf, user, client, newest, cpc, left, got,
                  made, faults, crossed, boards>>
  BY DEF basicVars
<1>2. BasicTypes'
  BY <1>1 DEF BasicInv, BasicTypes
<1>3. PostsInv'
  BY <1>1 DEF BasicInv, PostsInv, Clean, Basic!Hungup
<1>4. ListingInv'
  BY <1>1 DEF BasicInv, ListingInv
<1>5. QED BY <1>2, <1>3, <1>4 DEF BasicInv

LEMMA StoreKept ==
  ASSUME StoreInv, UNCHANGED nevesVars
  PROVE  StoreInv'
BY DEF StoreInv, StoreTypes, nevesVars

\* Whatever order requests and datagrams arrive in, the two boards of 15 March
\* hold whole posts, each once but for what the network or a server doubled, and
\* a listing over UDP is of one board, for any number of clients, posts, requests
\* and faults and any size of the board.
THEOREM BoardsAreWhole == BoardsSpec => []WholeBoards
<1>1. BoardsInit => BasicInv /\ StoreInv
  BY BasicStart, StoreStart DEF BoardsInit
<1>2. ASSUME BasicInv, StoreInv, [BoardsNext]_<<vars, basicVars, nevesVars, program>>
      PROVE  BasicInv' /\ StoreInv'
  <2>1. Basic!Next \/ UNCHANGED basicVars
    BY <1>2 DEF BoardsNext
  <2>2. Neves!Next \/ UNCHANGED nevesVars
    BY <1>2 DEF BoardsNext
  <2>3. QED BY <1>2, <2>1, <2>2, BasicStep, BasicKept, StoreStep, StoreKept
<1>3. BasicInv /\ StoreInv => WholeBoards
  BY BasicRight, StoreRight DEF WholeBoards
<1>4. QED BY <1>1, <1>2, <1>3, PTL DEF BoardsSpec

\* The same of each board of 15 March by itself, whatever its users do.
THEOREM FirstBoardIsWhole == Basic!Spec => []Basic!BoardRight
<1>1. Basic!Init => BasicInv
  BY BasicStart
<1>2. BasicInv /\ [Basic!Next]_Basic!vars => BasicInv'
  <2>1. UNCHANGED Basic!vars => UNCHANGED basicVars
    BY DEF Basic!vars, Basic!server, Basic!clients, basicVars
  <2>2. QED BY <2>1, BasicStep, BasicKept
<1>3. BasicInv => Basic!BoardRight
  BY BasicRight
<1>4. QED BY <1>1, <1>2, <1>3, PTL DEF Basic!Spec

\* A text is stored once, and once more for every datagram that was doubled.
THEOREM SecondBoardStoresOnce == Neves!Spec => [](Neves!TypeOK /\ Neves!StoredOnce)
<1>1. Neves!Init => StoreInv
  BY StoreStart
<1>2. StoreInv /\ [Neves!Next]_Neves!structVars => StoreInv'
  <2>1. UNCHANGED Neves!structVars => UNCHANGED nevesVars
    BY DEF Neves!structVars, Neves!state, Neves!users, nevesVars
  <2>2. QED BY <2>1, StoreStep, StoreKept
<1>3. StoreInv => Neves!TypeOK /\ Neves!StoredOnce
  BY StoreRight
<1>4. QED BY <1>1, <1>2, <1>3, PTL DEF Neves!Spec

\* Until a request is served twice, the second board is the sequential one.
THEOREM SecondBoardIsABoard == Neves!Spec => Neves!ImplementsBoard
<1>1. Neves!Init => NevesInv /\ Neves!MB!Init
  BY NevesStart
<1>2. ASSUME NevesInv, [Neves!Next]_Neves!structVars
      PROVE  NevesInv' /\ Abstract
  <2>1. CASE Neves!Next
    BY <1>2, <2>1, NevesStep
  <2>2. CASE UNCHANGED Neves!structVars
    <3>1. UNCHANGED <<vetor_mensagens, served, stale, pedido, lugar, resposta, respostas, pedidos>>
      BY <2>2 DEF Neves!structVars, Neves!state, Neves!users
    <3>2. QED BY <1>2, <3>1, NevesWires DEF NevesInv, NevesTypes
  <2>3. QED BY <1>2, <2>1, <2>2
<1>3. Abstract => [stale' \/ Neves!MB!Next]_<<Neves!MB!vars, stale>>
  BY DEF Abstract
<1>4. QED BY <1>1, <1>2, <1>3, PTL DEF Neves!Spec, Neves!ImplementsBoard
=============================================================================
