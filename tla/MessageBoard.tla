----------------------------- MODULE MessageBoard -----------------------------
(***************************************************************************)
(* What a bulletin board of this repository promises its clients: requests *)
(* are served one after the other, each one at one instant between its     *)
(* arrival and its answer, and the answer is that of this instant.         *)
(***************************************************************************)
EXTENDS Integers, Sequences, SequencesExt, Selection

CONSTANTS
  Clients,
  Messages,    \* what is written on the board
  Names,
  NameOf,      \* the name under which a message was posted
  MaxMsgs,     \* the number of messages the board holds
  None         \* no request, no answer

Command(ms, ns) == [op : {"cadastrar"}, arg : ms] \cup [op : {"apagar"}, arg : ns]
                   \cup [op : {"ler", "querSair", "junk"}, arg : {None}]
Answer(kind)    == [kind |-> kind, list |-> << >>]
\* A list of messages, or the note that there are none.
Listing(ms)     == [kind |-> IF ms = << >> THEN "vazio" ELSE "ack", list |-> ms]

VARIABLES
  board,       \* the messages, oldest first
  asked,       \* the request of a client that is still to be served
  outcome,     \* the answer to a request that was served, not yet given
  answer       \* the answer the client may read

vars == <<board, asked, outcome, answer>>

Of(n, ms)    == Selected(ms, {m \in Messages : NameOf[m] = n})
NotOf(n, ms) == Selected(ms, {m \in Messages : NameOf[m] # n})

Ask(c, r) ==
  /\ asked[c] = None /\ outcome[c] = None
  /\ asked' = [asked EXCEPT ![c] = r]
  /\ UNCHANGED <<board, outcome, answer>>

Settle(c, a) ==
  /\ asked[c] # None
  /\ asked' = [asked EXCEPT ![c] = None]
  /\ outcome' = [outcome EXCEPT ![c] = a]
  /\ UNCHANGED answer

Post(c) ==
  /\ asked[c].op = "cadastrar"
  /\ IF Len(board) < MaxMsgs
     THEN Settle(c, Answer("ack")) /\ board' = Append(board, asked[c].arg)
     ELSE Settle(c, Answer("erro")) /\ UNCHANGED board

Read(c) ==
  /\ asked[c].op = "ler"
  /\ Settle(c, Listing(board)) /\ UNCHANGED board

Delete(c) ==
  /\ asked[c].op = "apagar"
  /\ Settle(c, Listing(Of(asked[c].arg, board)))
  /\ board' = NotOf(asked[c].arg, board)

Refuse(c) ==
  /\ asked[c].op = "junk"
  /\ Settle(c, Answer("invalido")) /\ UNCHANGED board

Quit(c) ==
  /\ asked[c].op = "querSair"
  /\ Settle(c, None) /\ UNCHANGED board

\* An answer to a client that left is lost.
Give(c) ==
  /\ outcome[c] # None
  /\ outcome' = [outcome EXCEPT ![c] = None]
  /\ \/ answer' = [answer EXCEPT ![c] = outcome[c]]
     \/ UNCHANGED answer
  /\ UNCHANGED <<board, asked>>

Take(c) ==
  /\ answer[c] # None
  /\ answer' = [answer EXCEPT ![c] = None]
  /\ UNCHANGED <<board, asked, outcome>>

Init ==
  /\ board = << >>
  /\ asked = [c \in Clients |-> None]
  /\ outcome = [c \in Clients |-> None]
  /\ answer = [c \in Clients |-> None]

Next == \E c \in Clients :
  \/ \E r \in Command(Messages, Names) : Ask(c, r)
  \/ asked[c] # None /\ (Post(c) \/ Read(c) \/ Delete(c) \/ Refuse(c) \/ Quit(c))
  \/ Give(c) \/ Take(c)

Spec == Init /\ [][Next]_vars
=============================================================================
