-------------------------- MODULE MCExerciseBoards --------------------------
(* The boards of March for TLC: an execution is one of ForkBoard (29 March),  *)
(* or one of BasicBoard or StructBoard (15 March) over one transport.         *)
(* Scenario restricts the users only.                                         *)
EXTENDS ForkBoard, TLC

CONSTANTS a, b, ana, bia, MCSize, Posts, Nameless, ExitText, MaxLists, MaxFaults,
          t1, t2, t3, Texto, Usuario, De, MaxPedidos, MaxDups

VARIABLES transport, toServer, toClient, spc, buf, user, client, newest, cpc, left, got,
          made, lists, faults, crossed, merged, boards

VARIABLES mode, vivo, vetor_mensagens, ultimo, pedidos, respostas, lugar, pedido,
          resposta, feitos, typed, reset, served, dups, stale

VARIABLE program

P(c, n)    == [by |-> c, nr |-> n]
MCPost     == {P(a, 1), P(a, 2), P(b, 1)}
MCNameless == {P(a, 2)}
MCExit     == {P(b, 1)}
MCDe       == t1 :> ana @@ t2 :> bia @@ t3 :> ana
MCCommands == a :> 2 @@ b :> 2

Basic == INSTANCE BasicBoard WITH Client <- Clients, SIZE <- MCSize, data <- newest
Neves == INSTANCE StructBoard WITH Client <- Clients, Lotado <- MCSize

ASSUME BoardsAssumption == Basic!BasicBoardAssumption /\ Neves!StructBoardAssumption

basicVars == <<transport, toServer, toClient, spc, buf, user, client, newest, cpc, left, got,
               made, lists, faults, crossed, merged, boards>>
nevesVars == <<mode, vivo, vetor_mensagens, ultimo, pedidos, respostas, lugar, pedido,
               resposta, feitos, typed, reset, served, dups, stale>>

\* Over UDP one client of the first board reads and the other may stop in the
\* middle of a post; the clients of the second make fewer requests.
Scenario ==
  /\ transport = "udp" => \A c \in Clients :
       /\ lists[c] # lists'[c] => c = a /\ lists'[c] = 1
       /\ cpc[c] # cpc'[c] /\ cpc'[c] = "gone" => c = b
  /\ mode = "udp" => \A c \in Clients : feitos'[c] <= 2

\* The programs that are not followed keep their initial states.
BoardsInit ==
  /\ Init /\ Basic!Init /\ Neves!Init
  /\ program \in {"fork", "basic", "neves"}
  /\ program # "basic" => transport = "tcp"
  /\ program # "neves" => mode = "tcp"

BoardsNext ==
  /\ \/ program = "fork"  /\ Next       /\ UNCHANGED <<basicVars, nevesVars>>
     \/ program = "basic" /\ Basic!Next /\ UNCHANGED <<vars, nevesVars>>
     \/ program = "neves" /\ Neves!Next /\ UNCHANGED <<vars, basicVars>>
  /\ Scenario /\ UNCHANGED program

BoardsSpec ==
  /\ BoardsInit
  /\ [][BoardsNext]_<<vars, basicVars, nevesVars, program>>
  /\ program = "basic" => Basic!Fairness

-----------------------------------------------------------------------------
\* Whatever order requests and datagrams arrive in, the boards of 15 March hold
\* whole posts, each once but for what the network or a server doubled.
WholeBoards ==
  /\ Basic!BoardRight
  /\ Neves!TypeOK /\ Neves!StoredOnce

\* A client of the first board that waits for a listing gets it.
ListingArrives == program = "basic" => Basic!ListingArrives

\* The second board serves every request at one instant until one is served
\* twice.
NevesImplementsBoard == Neves!ImplementsBoard
=============================================================================
