----------------------------- MODULE BasicBoard -----------------------------
(***************************************************************************)
(* The message board of 15 March 2016, first group, over TCP and over UDP  *)
(* (TCP-Servidor-Basico.c, TCP-Cliente-Basico.c and the same for UDP).     *)
(*                                                                         *)
(* A request is a command; the command 1 is followed by a user name and a  *)
(* text, each a message of 32 bytes.  The text and every message of an     *)
(* answer are sent with one byte more.  Over UDP the byte is cut off.      *)
(* Over TCP it stays in the stream: a recv of 32 bytes that begins with    *)
(* such bytes takes the rest from the next message, and both are spoiled.  *)
(*                                                                         *)
(* Over TCP the server accepts one connection, and recv returning 0 leaves *)
(* the buffer as it was.  Over UDP it serves whoever sends: datagrams of   *)
(* two clients may fall between each other, get lost, be doubled or pass   *)
(* one another, and nobody waits with a timeout.                           *)
(***************************************************************************)
EXTENDS Naturals, Sequences, SequencesExt

CONSTANTS
  Client,     \* the clients; over TCP only one is ever accepted
  Posts,      \* the posts a client may make: [by: Client, nr: Nat]
  Nameless,   \* posts with an empty user name
  ExitText,   \* posts whose text is the command that ends the server
  SIZE,       \* entries of the board (5)
  MaxLists,   \* bound: listings a client asks for
  MaxFaults,  \* bound: datagrams lost, doubled or passed by another
  None

BasicBoardAssumption ==
  /\ SIZE \in Nat \ {0} /\ MaxLists \in Nat /\ MaxFaults \in Nat
  /\ Posts \subseteq [by : Client, nr : Nat]
  /\ Nameless \subseteq Posts /\ ExitText \subseteq Posts

VARIABLES
  transport,          \* "tcp" or "udp"
  toServer, toClient, \* messages under way
  spc, buf, user,     \* server: place, buffer, the name read for a post
  client,             \* server: whom it answers
  data,               \* the board, newest first
  cpc, left, got,     \* client: place, messages to come, messages read
  made, lists,        \* posts made and listings asked for
  faults,             \* datagrams the network did not deliver as sent
  crossed,            \* ghost: a post was read from two clients
  merged,             \* ghost: the server read parts of two messages as one
  boards              \* ghost: the board each listing was made from

server == <<spc, buf, user, client, data, crossed, merged, boards>>
clients == <<cpc, left, got, made, lists>>
vars == <<transport, toServer, toClient, server, clients, faults>>

Item(kind, of) == [kind |-> kind, of |-> of]
Extra == Item("x", None)
Spoiled  == Item("junk", None)

\* A message of 33 bytes, and what the transport makes of it.
Long(item) == IF transport = "tcp" THEN <<item, Extra>> ELSE <<item>>

Init ==
  /\ transport \in {"tcp", "udp"}
  /\ toServer = <<>> /\ toClient = [c \in Client |-> <<>>]
  /\ spc = "command" /\ buf = Spoiled /\ user = Spoiled /\ client = None /\ data = <<>>
  /\ cpc = [c \in Client |-> "menu"] /\ left = [c \in Client |-> 0]
  /\ got = [c \in Client |-> <<>>]
  /\ made = {} /\ lists = [c \in Client |-> 0]
  /\ faults = 0 /\ crossed = FALSE /\ merged = FALSE
  /\ boards = [c \in Client |-> None]

\* How many single bytes a stream begins with.
Skew(s) == IF \A i \in DOMAIN s : s[i] = Extra THEN Len(s)
           ELSE (CHOOSE i \in DOMAIN s : s[i] # Extra /\ \A j \in 1..(i - 1) : s[j] = Extra) - 1

\* One recv of 32 bytes from a stream that is not empty.  With k single bytes
\* in front it takes them and all but the last k bytes of the next message.
Taken(s) == IF Skew(s) = 0 THEN Head(s) ELSE Spoiled
Rest(s)  == LET k == Skew(s) IN
            IF k = 0 THEN Tail(s)
            ELSE IF k = Len(s) THEN <<>>
            ELSE SubSeq(s, 1, k) \o SubSeq(s, k + 2, Len(s))

Items(queue) == [i \in DOMAIN queue |-> queue[i].item]
Running == spc \notin {"ended", "dead"}

\* recv of the server: `got` is what the buffer holds afterwards.
ServerRecv(item, from) ==
  \/ /\ toServer # <<>> /\ transport = "udp"
     /\ item = Head(toServer).item /\ from = Head(toServer).from
     /\ toServer' = Tail(toServer) /\ UNCHANGED merged
  \/ /\ toServer # <<>> /\ transport = "tcp"
     /\ LET s == Items(toServer) IN
        /\ item = Taken(s) /\ from = Head(toServer).from
        /\ toServer' = [i \in DOMAIN Rest(s) |-> [item |-> Rest(s)[i], from |-> from]]
        /\ merged' = (merged \/ Skew(s) \in 1..(Len(s) - 1))
  \/ /\ transport = "tcp" /\ toServer = <<>>
     /\ \E c \in Client : cpc[c] = "gone" /\ from = c
     /\ item = buf /\ UNCHANGED <<toServer, merged>>

Readable == {h.item : h \in Range(toServer)} \cup {Spoiled, buf}
Ends(item) == item.kind = "exit" \/ (item.kind = "text" /\ item.of \in ExitText)
Loop(item) == spc' = IF Ends(item) THEN "ended" ELSE "command"

\* An entry without a user name counts as the end of the board.
IsNameless(entry) == entry.user.kind = "user" /\ entry.user.of \in Nameless
CountData ==
  LET named == {n \in 0..Len(data) : \A i \in 1..n : ~IsNameless(data[i])}
  IN  CHOOSE n \in named : \A m \in named : m <= n

\* Mutant: a message is put behind the others.
InsetMessageLast(entry) ==
  data' = IF Len(data) < SIZE THEN Append(data, entry) ELSE Append(SubSeq(data, 1, SIZE - 1), entry)

InsetMessage(entry) ==
  data' = IF Len(data) < SIZE THEN <<entry>> \o data ELSE <<entry>> \o SubSeq(data, 1, SIZE - 1)

\* Mutant: the text of the last message is not sent.
ListingShort ==
  <<Item("count", CountData)>> \o FlattenSeq(
    [i \in 1..CountData |-> IF i < CountData THEN <<data[i].user, data[i].text>> ELSE <<data[i].user>>])

\* The answer to the command 2.  The buffer is left with the last message.  A
\* client that has gone answers with a reset, which kills the server if it
\* arrives before the last send.
Listing == <<Item("count", CountData)>> \o FlattenSeq([i \in 1..CountData |-> <<data[i].user, data[i].text>>])
SendAllMessages(c) ==
  IF cpc[c] = "gone"
    THEN /\ UNCHANGED <<toClient, boards>>
         /\ \/ spc' = "dead" /\ UNCHANGED buf
            \/ buf' = Last(Listing) /\ Loop(Last(Listing))
    ELSE /\ toClient' = [toClient EXCEPT ![c] = @ \o FlattenSeq([i \in DOMAIN Listing |-> Long(Listing[i])])]
         /\ boards' = [boards EXCEPT ![c] = SubSeq(data, 1, CountData)]
         /\ buf' = Last(Listing) /\ Loop(Last(Listing))

ReadCommand ==
  /\ spc = "command"
  /\ \E item \in Readable, from \in Client :
       /\ ServerRecv(item, from)
       /\ client' = from
       /\ \/ item.kind = "1" /\ spc' = "user" /\ buf' = item /\ UNCHANGED <<toClient, boards>>
          \/ item.kind = "2" /\ SendAllMessages(from)
          \/ /\ item.kind \notin {"1", "2"}
             /\ buf' = item /\ Loop(item) /\ UNCHANGED <<toClient, boards>>
  /\ UNCHANGED <<transport, user, data, clients, faults, crossed>>

ReadUser ==
  /\ spc = "user"
  /\ \E item \in Readable, from \in Client :
       /\ ServerRecv(item, from)
       /\ user' = item /\ buf' = item /\ client' = from
       /\ crossed' = (crossed \/ from # client)
  /\ spc' = "text"
  /\ UNCHANGED <<transport, toClient, data, clients, faults, boards>>

ReadText ==
  /\ spc = "text"
  /\ \E item \in Readable, from \in Client :
       /\ ServerRecv(item, from)
       /\ InsetMessage([user |-> user, text |-> item])
       /\ buf' = item /\ client' = from /\ Loop(item)
       /\ crossed' = (crossed \/ from # client)
  /\ UNCHANGED <<transport, toClient, user, clients, faults, boards>>

\* A client that leaves with answers unread resets the connection: recv fails.
ServerReset ==
  /\ transport = "tcp" /\ Running
  /\ \E c \in Client : cpc[c] = "gone" /\ toClient[c] # <<>>
  /\ spc' = "dead"
  /\ UNCHANGED <<transport, toServer, toClient, buf, user, client, data, crossed, merged,
                 boards, clients, faults>>

ServerStep == ReadCommand \/ ReadUser \/ ReadText \/ ServerReset

Goto(c, l) == cpc' = [cpc EXCEPT ![c] = l]
SendServer(c, items) ==
  toServer' = toServer \o [i \in DOMAIN items |-> [item |-> items[i], from |-> c]]

\* The menu.  A post is typed and sent in three messages.
AskPost(c) ==
  /\ Running /\ cpc[c] = "menu" /\ {p \in Posts \ made : p.by = c} # {}
  /\ SendServer(c, <<Item("1", None)>>) /\ Goto(c, "user")
  /\ UNCHANGED <<transport, toClient, server, left, got, made, lists, faults>>

NextPost(c) == CHOOSE p \in Posts \ made : p.by = c /\ \A q \in Posts \ made : q.by = c => p.nr <= q.nr

SendUser(c) ==
  /\ Running /\ cpc[c] = "user"
  /\ SendServer(c, <<Item("user", NextPost(c))>>) /\ Goto(c, "text")
  /\ UNCHANGED <<transport, toClient, server, left, got, made, lists, faults>>

SendText(c) ==
  /\ Running /\ cpc[c] = "text"
  /\ SendServer(c, Long(Item("text", NextPost(c)))) /\ Goto(c, "menu")
  /\ made' = made \cup {NextPost(c)}
  /\ UNCHANGED <<transport, toClient, server, left, got, lists, faults>>

AskListing(c) ==
  /\ Running /\ cpc[c] = "menu" /\ lists[c] < MaxLists
  /\ SendServer(c, <<Item("2", None)>>) /\ Goto(c, "count")
  /\ lists' = [lists EXCEPT ![c] = @ + 1]
  /\ UNCHANGED <<transport, toClient, server, left, got, made, faults>>

\* recvfrom takes one datagram, recv up to 32 bytes.
ClientTaken(c) == IF transport = "udp" THEN Head(toClient[c]) ELSE Taken(toClient[c])
ClientRecv(c) ==
  /\ toClient[c] # <<>>
  /\ toClient' = [toClient EXCEPT ![c] = IF transport = "udp" THEN Tail(@) ELSE Rest(@)]

\* atoi of a spoiled count, or of a message that is no count, gives 0.
ReadCount(c) ==
  /\ cpc[c] = "count" /\ ClientRecv(c)
  /\ LET n == IF ClientTaken(c).kind = "count" THEN ClientTaken(c).of ELSE 0 IN
     /\ left' = [left EXCEPT ![c] = 2 * n]
     /\ Goto(c, IF n = 0 THEN "menu" ELSE "items")
  /\ got' = [got EXCEPT ![c] = <<>>]
  /\ UNCHANGED <<transport, toServer, server, made, lists, faults>>

ReadItem(c) ==
  /\ cpc[c] = "items" /\ ClientRecv(c)
  /\ got' = [got EXCEPT ![c] = Append(@, ClientTaken(c))]
  /\ left' = [left EXCEPT ![c] = @ - 1]
  /\ Goto(c, IF left[c] = 1 THEN "menu" ELSE "items")
  /\ UNCHANGED <<transport, toServer, server, made, lists, faults>>

Exit(c) ==
  /\ Running /\ cpc[c] = "menu"
  /\ SendServer(c, <<Item("exit", None)>>) /\ Goto(c, "gone")
  /\ UNCHANGED <<transport, toClient, server, left, got, made, lists, faults>>

Killed(c) ==
  /\ cpc[c] # "gone" /\ Goto(c, "gone")
  /\ UNCHANGED <<transport, toServer, toClient, server, left, got, made, lists, faults>>

\* A datagram to the server is lost, doubled or passed; an answer is lost.
Network ==
  /\ transport = "udp" /\ faults < MaxFaults
  /\ faults' = faults + 1
  /\ \/ \E i \in DOMAIN toServer :
          /\ \/ toServer' = RemoveAt(toServer, i)
             \/ toServer' = InsertAt(toServer, i, toServer[i])
             \/ i > 1 /\ toServer' = [toServer EXCEPT ![i] = toServer[i - 1], ![i - 1] = toServer[i]]
          /\ UNCHANGED toClient
     \/ \E c \in Client : \E i \in DOMAIN toClient[c] :
          toClient' = [toClient EXCEPT ![c] = RemoveAt(@, i)] /\ UNCHANGED toServer
  /\ UNCHANGED <<transport, server, clients>>

\* Over TCP the only client is the one that was accepted.
Served(c) == transport = "udp" \/ c = CHOOSE d \in Client : TRUE

ClientStep(c) ==
  /\ Served(c)
  /\ \/ AskPost(c) \/ SendUser(c) \/ SendText(c) \/ AskListing(c)
     \/ ReadCount(c) \/ ReadItem(c) \/ Exit(c) \/ Killed(c)

Next == ServerStep \/ Network \/ \E c \in Client : ClientStep(c)

Reading(c) == ReadCount(c) \/ ReadItem(c)
Fairness == WF_vars(ReadCommand) /\ WF_vars(ReadUser) /\ WF_vars(ReadText)
            /\ \A c \in Client : WF_vars(Reading(c))

Spec == Init /\ [][Next]_vars /\ Fairness

-----------------------------------------------------------------------------
TypeOK ==
  /\ transport \in {"tcp", "udp"} /\ Len(data) <= SIZE /\ made \subseteq Posts
  /\ spc \in {"command", "user", "text", "ended", "dead"} /\ client \in Client \cup {None}
  /\ faults \in 0..MaxFaults /\ \A c \in Client : left[c] <= 2 * SIZE

Hungup == \E c \in Client : cpc[c] = "gone"

\* Every entry of the board is one post, name and text, and the posts of a
\* client are there once each and newest first: over TCP even when the byte
\* too many makes the server lose commands, as long as the client is there;
\* over UDP as long as no datagram went astray or fell between two of another.
PostsWhole ==
  (IF transport = "tcp" THEN ~Hungup ELSE faults = 0 /\ ~crossed) =>
    /\ \A i \in DOMAIN data :
         data[i].user.kind = "user" /\ data[i].text = Item("text", data[i].user.of)
    /\ \A i, j \in DOMAIN data :
         i < j /\ data[i].user.of.by = data[j].user.of.by => data[i].user.of.nr > data[j].user.of.nr

\* A listing read over UDP from a network without faults is the board as it
\* was when the server made it, up to an entry without a name.
ListingRead(c) == got[c] = FlattenSeq([i \in DOMAIN boards[c] |-> <<boards[c][i].user, boards[c][i].text>>])
ListingRight ==
  \A c \in Client : transport = "udp" /\ faults = 0 /\ cpc[c] = "menu" /\ boards[c] # None => ListingRead(c)

\* The board consists of whole posts, and a listing shows the board.
BoardRight == TypeOK /\ PostsWhole /\ ListingRight

\* A client that waits for a listing gets one, unless the server spoiled a
\* command of it, the network or another client came between, or the server
\* ended.
ListingArrives ==
  \A c \in Client : cpc[c] \in {"count", "items"} ~>
     cpc[c] \notin {"count", "items"} \/ merged \/ faults > 0 \/ crossed \/ ~Running
=============================================================================
