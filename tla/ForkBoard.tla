------------------------------- MODULE ForkBoard -------------------------------
(***************************************************************************)
(* The bulletin board of the exercise of March 29th: TCP-Servidor/main.c   *)
(* with TCP-Cliente/main.c.  The server forks a process per connection;    *)
(* the board is an ordinary array, so every process has its own.  After    *)
(* its client has left a child runs on into the accept loop of its parent  *)
(* and hands its own board down to the children it forks.                  *)
(*                                                                         *)
(* The process forked for client c is called c, the first one Root.        *)
(***************************************************************************)
EXTENDS Integers, Sequences, FiniteSets, SequencesExt

CONSTANTS
  Clients, Root,
  Lines,          \* what a user may type for a name or a message
  Empty,          \* the empty line
  Junk,           \* what a text holds that the client never fills in
  Size,           \* SIZE
  ForkFails,      \* may fork() or accept() fail?
  MaxCommands,    \* bound: requests each client sends
  None

ASSUME ForkAssumption ==
  /\ Root \notin Clients /\ Empty \in Lines /\ Junk \notin Lines
  /\ Size \in Nat \ {0} /\ ForkFails \in BOOLEAN
  /\ MaxCommands \in [Clients -> Nat]

Procs   == Clients \cup {Root}
Message == [userName : Lines, text : Lines \cup {Junk}]
Blank   == [userName |-> Empty, text |-> Empty]
Slots   == 1..Size

VARIABLES
  \* the processes
  pst,        \* "none", "accept", "serve" or "exited"
  data,       \* the board of a process
  \* the connections
  request,    \* cod and dataParam[0], or None
  response,   \* error, data, or None
  closed,     \* "no", "client" or "server": who closed the connection
  \* the clients
  cst,        \* "off", "menu", "await" or "left"
  sent,       \* requests sent so far
  \* history
  stored,     \* the messages a process and those before it were sent
  deleted     \* some deletion was asked of them

net  == <<request, response, closed>>
hist == <<stored, deleted>>
vars == <<pst, data, net, cst, sent, hist>>

\* The listing: the entries before the first empty one.
Listing(d) == LET n == CHOOSE n \in 0..Size :
                         /\ \A i \in 1..n : d[i].userName # Empty
                         /\ n < Size => d[n + 1].userName = Empty
              IN  SubSeq(d, 1, n)

-----------------------------------------------------------------------------
(* The client.                                                             *)

Connect(c) ==
  /\ cst[c] = "off"
  /\ cst' = [cst EXCEPT ![c] = "menu"]
  /\ UNCHANGED <<pst, data, net, sent, hist>>

Send(c, r) ==
  /\ cst[c] = "menu" /\ closed[c] = "no" /\ sent[c] < MaxCommands[c]
  /\ request' = [request EXCEPT ![c] = r]
  /\ cst' = [cst EXCEPT ![c] = "await"]
  /\ sent' = [sent EXCEPT ![c] = @ + 1]
  /\ UNCHANGED <<pst, data, response, closed, stored, deleted>>

\* createMessage reads the name and then the text, both into userName: the
\* line sent is the second one, and the name typed before it is lost.
Post(c, text) == Send(c, [cod |-> 1, msg |-> [userName |-> text, text |-> Junk]])

Ask(c) == Send(c, [cod |-> 2, msg |-> Blank])

\* The name is read through a pointer that points nowhere in particular.
AskDelete(c, name) == Send(c, [cod |-> 3, msg |-> [userName |-> name, text |-> Junk]])

ReadResponse(c) ==
  /\ cst[c] = "await" /\ response[c] # None
  /\ response' = [response EXCEPT ![c] = None]
  /\ cst' = [cst EXCEPT ![c] = "menu"]
  /\ UNCHANGED <<pst, data, request, closed, sent, hist>>

\* Option 0, a signal, or the pointer of AskDelete.
Leave(c) ==
  /\ cst[c] \in {"menu", "await"} /\ closed[c] = "no"
  /\ cst' = [cst EXCEPT ![c] = "left"]
  /\ closed' = [closed EXCEPT ![c] = "client"]
  /\ response' = [response EXCEPT ![c] = None]
  /\ UNCHANGED <<pst, data, request, sent, hist>>

\* The process that accepted the connection ended, or nobody is left to accept
\* it: the client fails in send or recv, or shows a response it never received
\* until it does.
Lost(c) ==
  /\ cst[c] \in {"menu", "await"}
  /\ \/ closed[c] = "server"
     \/ pst[c] = "none" /\ \A p \in Procs : pst[p] \in {"none", "exited"}
  /\ cst' = [cst EXCEPT ![c] = "left"]
  /\ UNCHANGED <<pst, data, net, sent, hist>>

-----------------------------------------------------------------------------
(* The server.                                                             *)

\* accept, fork: the child inherits the board.
Accept(p, c) ==
  /\ pst[p] = "accept" /\ cst[c] # "off" /\ pst[c] = "none" /\ closed[c] # "server"
  /\ pst' = [pst EXCEPT ![c] = "serve"]
  /\ data' = [data EXCEPT ![c] = data[p]]
  /\ stored' = [stored EXCEPT ![c] = stored[p]]
  /\ deleted' = [deleted EXCEPT ![c] = deleted[p]]
  /\ UNCHANGED <<net, cst, sent>>

\* exit(5), exit(7): the process ends and the connection with it.
AcceptFails(p, c) ==
  /\ ForkFails
  /\ pst[p] = "accept" /\ cst[c] # "off" /\ pst[c] = "none" /\ closed[c] # "server"
  /\ pst' = [pst EXCEPT ![p] = "exited"]
  /\ closed' = [closed EXCEPT ![c] = "server"]
  /\ UNCHANGED <<data, request, response, cst, sent, hist>>

Serving(c, cod) == pst[c] = "serve" /\ request[c] # None /\ request[c].cod = cod

\* send() after the client has left goes nowhere.
Respond(c, list) ==
  /\ request' = [request EXCEPT ![c] = None]
  /\ response' = IF closed[c] = "no" THEN [response EXCEPT ![c] = [error |-> 0, data |-> list]] ELSE response
  /\ UNCHANGED <<pst, closed, cst, sent>>

\* insertMessage: the first entry without a name; none when the board is full.
insertMessage(d, m) ==
  [i \in Slots |-> IF /\ d[i].userName = Empty
                      /\ \A j \in 1..(i - 1) : d[j].userName # Empty
                   THEN m ELSE d[i]]

Insert(c) ==
  /\ Serving(c, 1)
  /\ data' = [data EXCEPT ![c] = insertMessage(@, request[c].msg)]
  /\ stored' = IF request[c].msg.userName = Empty THEN stored
               ELSE [stored EXCEPT ![c] = Append(@, request[c].msg)]
  /\ Respond(c, << >>)
  /\ UNCHANGED deleted

List(c) ==
  /\ Serving(c, 2)
  /\ Respond(c, Listing(data[c]))
  /\ UNCHANGED <<data, stored, deleted>>

\* Mutant: the entry is cleared where it stands.
deleteInPlace(d, name) ==
  LET found == {i \in Slots : d[i].userName = name}
      index == IF found = {} THEN 1 ELSE CHOOSE i \in found : \A j \in found : i <= j
  IN  [d EXCEPT ![index] = Blank]

\* deleteWithName: the first message of the name, or else the first of all;
\* the last entry stays as it is.
deleteWithName(d, name) ==
  LET found == {i \in Slots : d[i].userName = name}
      index == IF found = {} THEN 1 ELSE CHOOSE i \in found : \A j \in found : i <= j
  IN  [i \in Slots |-> IF i >= index /\ i < Size THEN d[i + 1] ELSE d[i]]

Delete(c) ==
  /\ Serving(c, 3)
  /\ data' = [data EXCEPT ![c] = deleteWithName(@, request[c].msg.userName)]
  /\ deleted' = [deleted EXCEPT ![c] = TRUE]
  /\ Respond(c, << >>)
  /\ UNCHANGED stored

\* recv() <= 0: close, and on into the accept loop.
Hangup(c) ==
  /\ pst[c] = "serve" /\ request[c] = None /\ closed[c] = "client"
  /\ pst' = [pst EXCEPT ![c] = "accept"]
  /\ UNCHANGED <<data, net, cst, sent, hist>>

-----------------------------------------------------------------------------
Init ==
  /\ pst = [p \in Procs |-> IF p = Root THEN "accept" ELSE "none"]
  /\ data = [p \in Procs |-> [i \in Slots |-> Blank]]
  /\ request = [c \in Clients |-> None]
  /\ response = [c \in Clients |-> None]
  /\ closed = [c \in Clients |-> "no"]
  /\ cst = [c \in Clients |-> "off"]
  /\ sent = [c \in Clients |-> 0]
  /\ stored = [p \in Procs |-> << >>]
  /\ deleted = [p \in Procs |-> FALSE]

User(c) ==
  \/ Connect(c) \/ Ask(c) \/ ReadResponse(c) \/ Leave(c) \/ Lost(c)
  \/ \E line \in Lines : Post(c, line) \/ AskDelete(c, line)

Process(c) == Insert(c) \/ List(c) \/ Delete(c) \/ Hangup(c)

Next == \E c \in Clients :
  \/ User(c) \/ Process(c)
  \/ \E p \in Procs : Accept(p, c) \/ AcceptFails(p, c)

Spec == Init /\ [][Next]_vars

-----------------------------------------------------------------------------
(* Properties.                                                             *)

\* Types.
TypeOK ==
  /\ pst \in [Procs -> {"none", "accept", "serve", "exited"}]
  /\ data \in [Procs -> [Slots -> Message]]
  /\ \A c \in Clients : request[c] # None => request[c].cod \in 1..3
  /\ \A c \in Clients : response[c] # None => Len(response[c].data) <= Size
  /\ closed \in [Clients -> {"no", "client", "server"}]
  /\ cst \in [Clients -> {"off", "menu", "await", "left"}]
  /\ \A c \in Clients : sent[c] \in 0..MaxCommands[c]
  /\ deleted \in [Procs -> BOOLEAN]

\* No message lies behind an empty entry, where no listing would show it,
\* whatever is inserted and deleted in whatever order.
Compact == \A p \in Procs : \A i, j \in Slots :
  i < j /\ data[p][i].userName = Empty => data[p][j].userName = Empty

\* Until something is deleted, a process lists exactly what was sent to it
\* and, before it was forked, to the processes it descends from, in this
\* order, up to the size of the board.
BoardIsHistory == \A p \in Procs : ~deleted[p] =>
  Listing(data[p]) = SubSeq(stored[p], 1, IF Len(stored[p]) <= Size THEN Len(stored[p]) ELSE Size)

\* Without deletions a listing is what was sent, and with them it still hides
\* nothing that lies on the board.
NothingHidden == TypeOK /\ Compact /\ BoardIsHistory
=============================================================================
