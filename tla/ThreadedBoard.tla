---------------------------- MODULE ThreadedBoard ----------------------------
(***************************************************************************)
(* The bulletin board of Atividade4-Servidor.c, with the clients of        *)
(* Atividade4-Cliente.c: a thread per connection, one array of messages    *)
(* and one mutex.  A client sends a request and waits for its answer; it   *)
(* may be killed at any time.                                              *)
(*                                                                         *)
(* Neither what recv nor what send returns is looked at beyond -1: at the  *)
(* end of a connection the thread serves the last request again and again. *)
(* A send on a connection known to be closed ends the process (SIGPIPE).   *)
(***************************************************************************)
EXTENDS Integers, Sequences, FiniteSets, SequencesExt, Selection

CONSTANTS
  Clients, Messages, Names, NameOf,
  MaxMsgs,       \* MAXMSGS
  MaxFd,         \* connections the process can hold open
  Mortal,        \* the clients that may be killed
  MaxCommands,   \* bound: requests a client sends
  None

ASSUME BoardAssumption ==
  /\ NameOf \in [Messages -> Names]
  /\ MaxMsgs \in Nat \ {0} /\ MaxFd \in Nat \ {0} /\ MaxCommands \in Nat
  /\ Mortal \subseteq Clients
  /\ None \notin Clients \cup Messages \cup Names

Command == [op : {"cadastrar"}, arg : Messages] \cup [op : {"apagar"}, arg : Names]
           \cup [op : {"ler", "querSair", "junk"}, arg : {None}]
Answer(kind) == [kind |-> kind, list |-> << >>]
Listing(ms)  == [kind |-> IF ms = << >> THEN "vazio" ELSE "ack", list |-> ms]
Slots == 1..MaxMsgs

ASSUME NoneIsNoCommand == None \notin Command

VARIABLES
  \* the server
  up,        \* the process runs
  lock,      \* the client whose thread holds mutex, or None
  db,        \* mensagensDB
  count,     \* mensagensCadastradas
  tpc,       \* where the thread of a client is
  buf,       \* recvbuf of the thread; None: never written
  out,       \* sendbuf: the answer under construction
  i,         \* the loop index of the thread
  \* the connections
  request,   \* a request on its way
  net,       \* what the server's kernel knows: "open", "fin", "rst", "dead"
  answer,    \* an answer on its way
  \* the clients
  cst,       \* "off", "menu", "await", "left" or "gone"
  sent,      \* requests sent so far
  posted     \* how often a message was sent to be posted

memory  == <<lock, db, count>>
threads == <<tpc, buf, out, i>>
wires   == <<request, net, answer>>
clients == <<cst, sent, posted>>
vars    == <<up, memory, threads, wires, clients>>

Free(f, c) == f[c] = None

-----------------------------------------------------------------------------
(* The clients.                                                            *)

Connect(c) ==
  /\ cst[c] = "off"
  /\ cst' = [cst EXCEPT ![c] = "menu"]
  /\ UNCHANGED <<up, memory, threads, wires, sent, posted>>

\* Menu entries 1 to 3.
Request(c, r) ==
  /\ up
  /\ cst[c] = "menu" /\ sent[c] < MaxCommands
  /\ r.op \in {"cadastrar", "ler", "apagar"}
  /\ request' = [request EXCEPT ![c] = r]
  /\ cst' = [cst EXCEPT ![c] = "await"]
  /\ sent' = [sent EXCEPT ![c] = @ + 1]
  /\ posted' = IF r.op = "cadastrar" THEN [posted EXCEPT ![r.arg] = @ + 1] ELSE posted
  /\ UNCHANGED <<up, memory, threads, net, answer>>

ReadAnswer(c) ==
  /\ cst[c] = "await" /\ answer[c] # None
  /\ answer' = [answer EXCEPT ![c] = None]
  /\ cst' = [cst EXCEPT ![c] = "menu"]
  /\ UNCHANGED <<up, memory, threads, request, net, sent, posted>>

\* The server is gone: recv fails (exit(6)) or finds the end of the data, and
\* the client shows the answer it had before.
ServerLost(c) ==
  /\ ~up /\ cst[c] = "await" /\ answer[c] = None
  /\ \E s \in {"menu", "left"} : cst' = [cst EXCEPT ![c] = s]
  /\ UNCHANGED <<up, memory, threads, wires, sent, posted>>

\* Mutant: the client leaves without a word.
LeaveSilently(c) ==
  /\ cst[c] = "menu"
  /\ net' = [net EXCEPT ![c] = "fin"]
  /\ cst' = [cst EXCEPT ![c] = "left"]
  /\ UNCHANGED <<up, memory, threads, request, answer, sent, posted>>

\* Menu entry 4: querSair, close.
Leave(c) ==
  /\ cst[c] = "menu"
  /\ request' = [request EXCEPT ![c] = [op |-> "querSair", arg |-> None]]
  /\ net' = [net EXCEPT ![c] = "fin"]
  /\ cst' = [cst EXCEPT ![c] = "left"]
  /\ UNCHANGED <<up, memory, threads, answer, sent, posted>>

\* The client is killed.  An answer it did not read makes this a reset.
Die(c) ==
  /\ c \in Mortal
  /\ cst[c] \in {"menu", "await"}
  /\ cst' = [cst EXCEPT ![c] = "gone"]
  /\ net' = [net EXCEPT ![c] = IF answer[c] = None THEN "fin" ELSE "rst"]
  /\ answer' = [answer EXCEPT ![c] = None]
  /\ UNCHANGED <<up, memory, threads, request, sent, posted>>

-----------------------------------------------------------------------------
(* The main thread of the server.                                          *)

\* No thread ever closes its socket: what was accepted stays open.
Accepted == {c \in Clients : tpc[c] # "none"}
Waiting(c) == cst[c] # "off" /\ tpc[c] = "none"

Accept(c) ==
  /\ up /\ Waiting(c) /\ Cardinality(Accepted) < MaxFd
  /\ tpc' = [tpc EXCEPT ![c] = "recv"]
  /\ UNCHANGED <<up, memory, buf, out, i, wires, clients>>

\* accept() == -1: exit(5).
AcceptFails ==
  /\ up /\ Cardinality(Accepted) >= MaxFd
  /\ \E c \in Clients : Waiting(c)
  /\ up' = FALSE
  /\ UNCHANGED <<memory, threads, wires, clients>>

-----------------------------------------------------------------------------
(* trata_cliente.                                                          *)

At(c, stage)   == up /\ tpc[c] = stage
Goto(c, stage) == tpc' = [tpc EXCEPT ![c] = stage]

Receive(c) ==
  /\ At(c, "recv") /\ request[c] # None
  /\ buf' = [buf EXCEPT ![c] = request[c]]
  /\ request' = [request EXCEPT ![c] = None]
  /\ Goto(c, "got")
  /\ UNCHANGED <<up, memory, out, i, net, answer, clients>>

\* recv() == 0 is no error: recvbuf is taken for a request as it stands.  When
\* it was never written it holds what an earlier thread left on the stack.
ReceiveEnd(c) ==
  /\ At(c, "recv") /\ request[c] = None /\ net[c] \in {"fin", "dead"}
  /\ \E r \in IF Free(buf, c) THEN Command ELSE {buf[c]} :
       buf' = [buf EXCEPT ![c] = r]
  /\ Goto(c, "got")
  /\ UNCHANGED <<up, memory, out, i, wires, clients>>

\* recv() == -1: continue.
ReceiveError(c) ==
  /\ At(c, "recv") /\ request[c] = None /\ net[c] = "rst"
  /\ net' = [net EXCEPT ![c] = "dead"]
  /\ UNCHANGED <<up, memory, threads, request, answer, clients>>

\* send().  What reaches a closed socket is answered by a reset, which takes
\* its time; the send after that is the last one of the process.
Send(c, a) ==
  /\ answer' = IF net[c] = "open" THEN [answer EXCEPT ![c] = a] ELSE answer
  /\ up' = (net[c] # "dead")
  /\ \E n \in CASE net[c] = "fin" -> {"fin", "dead"}
                [] net[c] = "rst" -> {"dead"}
                [] OTHER -> {net[c]} :
       net' = [net EXCEPT ![c] = n]
  /\ UNCHANGED request

Quit(c) ==
  /\ At(c, "got") /\ buf[c].op = "querSair"
  /\ Goto(c, "ended")
  /\ UNCHANGED <<up, memory, buf, out, i, wires, clients>>

Unknown(c) ==
  /\ At(c, "got") /\ buf[c].op = "junk"
  /\ out' = [out EXCEPT ![c] = Answer("invalido")]
  /\ Goto(c, "reply")
  /\ UNCHANGED <<up, memory, buf, i, wires, clients>>

\* Mutant: the mutex is not taken.
LockForgotten(c) ==
  /\ At(c, "got") /\ buf[c].op \in {"cadastrar", "ler", "apagar"}
  /\ lock' = c
  /\ i' = [i EXCEPT ![c] = 1]
  /\ out' = [out EXCEPT ![c] = Answer("vazio")]
  /\ Goto(c, "locked")
  /\ UNCHANGED <<up, db, count, buf, wires, clients>>

Lock(c) ==
  /\ At(c, "got") /\ buf[c].op \in {"cadastrar", "ler", "apagar"}
  /\ lock = None
  /\ lock' = c
  /\ i' = [i EXCEPT ![c] = 1]
  /\ out' = [out EXCEPT ![c] = Answer("vazio")]
  /\ Goto(c, "locked")
  /\ UNCHANGED <<up, db, count, buf, wires, clients>>

Locked(c, op) == At(c, "locked") /\ buf[c].op = op

\* The answer is ready, the mutex released.
Unlock(c, a) ==
  /\ lock' = None
  /\ out' = [out EXCEPT ![c] = a]
  /\ Goto(c, "reply")
  /\ UNCHANGED <<up, buf, wires, clients>>

\* Mutant: the mutex is kept when the board is full.
PostFullLocked(c) ==
  /\ Locked(c, "cadastrar") /\ count >= MaxMsgs
  /\ out' = [out EXCEPT ![c] = Answer("erro")]
  /\ Goto(c, "reply")
  /\ UNCHANGED <<up, buf, wires, clients, lock, db, count, i>>

PostFull(c) ==
  /\ Locked(c, "cadastrar") /\ count >= MaxMsgs
  /\ Unlock(c, Answer("erro"))
  /\ UNCHANGED <<db, count, i>>

PostStore(c) ==
  /\ Locked(c, "cadastrar") /\ count < MaxMsgs
  /\ db' = [db EXCEPT ![count + 1] = buf[c].arg]
  /\ out' = [out EXCEPT ![c] = Answer("ack")]
  /\ Goto(c, "ack")
  /\ UNCHANGED <<up, lock, count, buf, i, wires, clients>>

\* The confirmation is sent while the mutex is held.
PostAck(c) ==
  /\ At(c, "ack")
  /\ Send(c, out[c])
  /\ Goto(c, "count")
  /\ UNCHANGED <<memory, buf, out, i, clients>>

PostCount(c) ==
  /\ At(c, "count")
  /\ count' = count + 1
  /\ lock' = None
  /\ Goto(c, "recv")
  /\ UNCHANGED <<up, db, buf, out, i, wires, clients>>

Matches(c) == i[c] <= count /\ NameOf[db[i[c]]] = buf[c].arg

\* Mutant: the counter of messages is not taken down.
DeleteMatchUncounted(c) ==
  /\ Locked(c, "apagar") /\ Matches(c)
  /\ out' = [out EXCEPT ![c] = Listing(Append(@.list, db[i[c]]))]
  /\ db' = [s \in Slots |-> IF s >= i[c] /\ s < count THEN db[s + 1] ELSE db[s]]
  /\ UNCHANGED <<up, lock, count, tpc, buf, i, wires, clients>>

\* The later messages move down by one; i-- undoes the i++ of the loop.
DeleteMatch(c) ==
  /\ Locked(c, "apagar") /\ Matches(c)
  /\ out' = [out EXCEPT ![c] = Listing(Append(@.list, db[i[c]]))]
  /\ db' = [s \in Slots |-> IF s >= i[c] /\ s < count THEN db[s + 1] ELSE db[s]]
  /\ count' = count - 1
  /\ UNCHANGED <<up, lock, tpc, buf, i, wires, clients>>

DeletePass(c) ==
  /\ Locked(c, "apagar") /\ i[c] <= count /\ ~Matches(c)
  /\ i' = [i EXCEPT ![c] = @ + 1]
  /\ UNCHANGED <<up, memory, tpc, buf, out, wires, clients>>

DeleteEnd(c) ==
  /\ Locked(c, "apagar") /\ i[c] > count
  /\ Unlock(c, out[c])
  /\ UNCHANGED <<db, count, i>>

\* The board is copied into sendbuf, or found empty.
Read(c) ==
  /\ Locked(c, "ler")
  /\ Unlock(c, Listing(SubSeq(db, 1, count)))
  /\ UNCHANGED <<db, count, i>>

Reply(c) ==
  /\ At(c, "reply")
  /\ Send(c, out[c])
  /\ Goto(c, "recv")
  /\ UNCHANGED <<memory, buf, out, i, clients>>

Thread(c) ==
  \/ Receive(c) \/ ReceiveEnd(c) \/ ReceiveError(c)
  \/ Quit(c) \/ Unknown(c) \/ Lock(c)
  \/ PostFull(c) \/ PostStore(c) \/ PostAck(c) \/ PostCount(c)
  \/ DeleteMatch(c) \/ DeletePass(c) \/ DeleteEnd(c)
  \/ Read(c) \/ Reply(c)

-----------------------------------------------------------------------------
Init ==
  /\ up = TRUE
  /\ lock = None /\ db = [s \in Slots |-> None] /\ count = 0
  /\ tpc = [c \in Clients |-> "none"]
  /\ buf = [c \in Clients |-> None]
  /\ out = [c \in Clients |-> Answer("vazio")]
  /\ i = [c \in Clients |-> 1]
  /\ request = [c \in Clients |-> None]
  /\ net = [c \in Clients |-> "open"]
  /\ answer = [c \in Clients |-> None]
  /\ cst = [c \in Clients |-> "off"]
  /\ sent = [c \in Clients |-> 0]
  /\ posted = [m \in Messages |-> 0]

Client(c) == \/ Connect(c) \/ ReadAnswer(c) \/ ServerLost(c) \/ Leave(c) \/ Die(c)
             \/ \E r \in Command : Request(c, r)

Next == AcceptFails \/ \E c \in Clients : Client(c) \/ Accept(c) \/ Thread(c)

Spec == Init /\ [][Next]_vars

\* Threads keep being scheduled and a waiting client reads; nobody has to
\* connect, to send or to leave.
Fairness ==
  /\ WF_vars(AcceptFails)
  /\ \A c \in Clients : WF_vars(Thread(c)) /\ WF_vars(Accept(c)) /\ WF_vars(ReadAnswer(c))

FairSpec == Spec /\ Fairness

-----------------------------------------------------------------------------
(* The board that the clients see: a message that is stored counts although *)
(* mensagensCadastradas follows later, and one that is being deleted is     *)
(* gone from the start.                                                     *)

Stored == SubSeq(db, 1, IF \E c \in Clients : tpc[c] \in {"ack", "count"}
                        THEN count + 1 ELSE count)

Deleting(c) == tpc[c] = "locked" /\ buf[c].op = "apagar" /\ (i[c] > 1 \/ out[c].list # << >>)

Board == IF \E c \in Clients : Deleting(c)
         THEN LET c == CHOOSE c \in Clients : Deleting(c)
              IN  Selected(Stored, {m \in Messages : NameOf[m] # buf[c].arg})
         ELSE Stored

Asked(c) == IF tpc[c] \in {"got", "locked"} /\ ~Deleting(c) THEN buf[c] ELSE None

Outcome(c) ==
  CASE tpc[c] \in {"reply", "ack"} -> out[c]
    [] Deleting(c) -> Listing(out[c].list \o
                        Selected(SubSeq(db, i[c], count), {m \in Messages : NameOf[m] = buf[c].arg}))
    [] OTHER -> None

MB == INSTANCE MessageBoard WITH
        board <- Board,
        asked <- [c \in Clients |-> Asked(c)],
        outcome <- [c \in Clients |-> Outcome(c)]

-----------------------------------------------------------------------------
(* Properties.                                                             *)

\* Types.
TypeOK ==
  /\ up \in BOOLEAN /\ lock \in Clients \cup {None}
  /\ db \in [Slots -> Messages \cup {None}] /\ count \in 0..MaxMsgs
  /\ tpc \in [Clients -> {"none", "recv", "got", "locked", "ack", "count", "reply", "ended"}]
  /\ buf \in [Clients -> Command \cup {None}]
  /\ \A c \in Clients :
       /\ out[c].kind \in {"ack", "vazio", "erro", "invalido"}
       /\ out[c].list \in Seq(Messages) /\ Len(out[c].list) <= MaxMsgs
  /\ i \in [Clients -> 1..(MaxMsgs + 1)]
  /\ request \in [Clients -> Command \cup {None}]
  /\ net \in [Clients -> {"open", "fin", "rst", "dead"}]
  /\ cst \in [Clients -> {"off", "menu", "await", "left", "gone"}]
  /\ sent \in [Clients -> 0..MaxCommands] /\ posted \in [Messages -> Nat]

\* Whatever the threads do, every request is served at one instant and its
\* answer is that of the instant: the list of a deletion is what it deleted,
\* a list that is read was the board, a confirmed message is on it.
ImplementsBoard == MB!Spec

\* A message is stored no more often than it was sent, in the middle of a
\* deletion as well, unless a client hung up: then its thread posts the last
\* message again.
DuplicateOnlyAfterHangup ==
  /\ TypeOK
  /\ (\A c \in Clients : cst[c] # "gone") => \A m \in Messages :
       Cardinality({s \in DOMAIN Stored : Stored[s] = m}) <= posted[m]

\* As long as every client leaves through the menu, the server only ends when
\* MaxFd connections were accepted: none of them is ever closed.
DiesOnlyOfHangup ==
  ~up => (\E c \in Clients : cst[c] = "gone") \/ Cardinality(Accepted) = MaxFd

\* A client that waits for an answer gets one, unless the server ends or some
\* client hangs up: no path through trata_cliente keeps the mutex.
RequestAnswered == \A c \in Clients :
  (cst[c] = "await") ~> (cst[c] # "await" \/ ~up \/ \E d \in Clients : cst[d] = "gone")
=============================================================================
