----------------------------- MODULE StructBoard -----------------------------
(***************************************************************************)
(* The message board of 15 March 2016, second group (neves), over TCP and  *)
(* over UDP: one struct per request, one answer, five messages at most.    *)
(*                                                                         *)
(* A client waits for the answer before its next request, without a        *)
(* timeout.  Over TCP the server accepts one connection; when that client  *)
(* has left recv returns 0, and the server serves the request it still has *)
(* in its buffer again, until the reset that its answers provoke arrives   *)
(* and ends it.                                                            *)
(***************************************************************************)
EXTENDS Naturals, Sequences, SequencesExt, Selection

CONSTANTS
  Client, None,
  Texto,      \* what is posted; each one is typed once
  Usuario,
  De,         \* the user name a message is posted under
  Lotado,     \* messages the board holds (5)
  MaxPedidos, \* bound: requests of a client
  MaxDups     \* bound: requests that the network doubles

Pedido(op, x) == [op |-> op, arg |-> x]
Pedidos == {Pedido("cadastrar", t) : t \in Texto} \cup {Pedido("ler", None)}
             \cup {Pedido("apagar", u) : u \in Usuario}

StructBoardAssumption ==
  /\ De \in [Texto -> Usuario] /\ Lotado \in Nat \ {0}
  /\ MaxPedidos \in Nat /\ MaxDups \in Nat
  /\ None \notin Pedidos

VARIABLES
  mode,            \* "tcp" or "udp"
  vivo,            \* the server runs
  vetor_mensagens, \* the board, oldest first
  ultimo,          \* the request in the server's buffer
  pedidos,         \* requests under way
  respostas,       \* answers under way to a client
  lugar, pedido,   \* client: "menu", "wait" or "gone"; what it asked last
  resposta,        \* client: the answer it displayed last
  feitos, typed,   \* requests made; messages posted
  reset,           \* the reset from a client that left has arrived
  served,          \* ghost: the client's last request was served
  dups, stale      \* ghosts: requests doubled; one was served again

state == <<vivo, vetor_mensagens, ultimo, reset, served, stale>>
users == <<lugar, pedido, resposta, feitos, typed>>
structVars == <<mode, state, pedidos, respostas, users, dups>>

Answer(kind)  == [kind |-> kind, list |-> <<>>]
Listing(ms)   == [kind |-> IF ms = <<>> THEN "vazio" ELSE "ack", list |-> ms]

Init ==
  /\ mode \in {"tcp", "udp"} /\ vivo = TRUE /\ vetor_mensagens = <<>> /\ ultimo = None
  /\ pedidos = <<>> /\ respostas = [c \in Client |-> <<>>]
  /\ lugar = [c \in Client |-> "menu"] /\ pedido = [c \in Client |-> None]
  /\ resposta = [c \in Client |-> None] /\ feitos = [c \in Client |-> 0] /\ typed = {}
  /\ reset = FALSE /\ served = [c \in Client |-> FALSE] /\ dups = 0 /\ stale = FALSE

Ask(c, r) ==
  /\ vivo /\ lugar[c] = "menu" /\ feitos[c] < MaxPedidos
  /\ feitos' = [feitos EXCEPT ![c] = @ + 1]
  /\ pedido' = [pedido EXCEPT ![c] = r]
  /\ lugar' = [lugar EXCEPT ![c] = "wait"]
  /\ pedidos' = Append(pedidos, [de |-> c, r |-> r])
  /\ served' = [served EXCEPT ![c] = FALSE]
  /\ UNCHANGED <<mode, vivo, vetor_mensagens, ultimo, reset, stale, respostas, resposta, dups>>

Cadastrar(c) ==
  \E t \in Texto \ typed : Ask(c, Pedido("cadastrar", t)) /\ typed' = typed \cup {t}
Ler(c) == Ask(c, Pedido("ler", None)) /\ UNCHANGED typed
\* Only the programs for TCP delete.
Apagar(c) ==
  mode = "tcp" /\ \E u \in Usuario : Ask(c, Pedido("apagar", u)) /\ UNCHANGED typed

\* Leaving with an answer unread resets the connection.
Sair(c) ==
  /\ lugar[c] # "gone" /\ lugar' = [lugar EXCEPT ![c] = "gone"]
  /\ reset' = (reset \/ (mode = "tcp" /\ respostas[c] # <<>>))
  /\ UNCHANGED <<mode, vivo, vetor_mensagens, ultimo, served, stale, pedidos, respostas, pedido, resposta, feitos, typed, dups>>

Do(u) == Selected(vetor_mensagens, {t \in Texto : De[t] = u})
\* Mutant: the number of messages is not set to what is left.
OutrosUncounted(u) ==
  LET left == Selected(vetor_mensagens, {t \in Texto : De[t] # u})
  IN  left \o SubSeq(vetor_mensagens, Len(left) + 1, Len(vetor_mensagens))

Outros(u) == Selected(vetor_mensagens, {t \in Texto : De[t] # u})

\* Mutant: a message is confirmed although there is no room for it.
HandleConfirming(r, answer) ==
  \/ /\ r.op = "cadastrar" /\ answer = Answer("ack")
     /\ vetor_mensagens' = IF Len(vetor_mensagens) < Lotado THEN Append(vetor_mensagens, r.arg)
                                                           ELSE vetor_mensagens
  \/ r.op = "ler" /\ UNCHANGED vetor_mensagens /\ answer = Listing(vetor_mensagens)
  \/ r.op = "apagar" /\ vetor_mensagens' = Outros(r.arg) /\ answer = Listing(Do(r.arg))

\* What the three branches of the loop do with a request.
Handle(r, answer) ==
  \/ /\ r.op = "cadastrar" /\ Len(vetor_mensagens) < Lotado
     /\ vetor_mensagens' = Append(vetor_mensagens, r.arg) /\ answer = Answer("ack")
  \/ /\ r.op = "cadastrar" /\ ~(Len(vetor_mensagens) < Lotado)
     /\ UNCHANGED vetor_mensagens /\ answer = Answer("erro")
  \/ r.op = "ler" /\ UNCHANGED vetor_mensagens /\ answer = Listing(vetor_mensagens)
  \/ r.op = "apagar" /\ vetor_mensagens' = Outros(r.arg) /\ answer = Listing(Do(r.arg))

Answers(r) == {Answer("ack"), Answer("erro"), Listing(vetor_mensagens)}
                \cup {Listing(Do(u)) : u \in {r.arg} \cap Usuario}

\* The datagram or the stream holds a request: the loop runs once.
Serve ==
  /\ vivo
  /\ \E i \in DOMAIN pedidos :
       LET c == pedidos[i].de  r == pedidos[i].r IN
       /\ mode = "tcp" => i = 1
       /\ pedidos' = RemoveAt(pedidos, i) /\ ultimo' = r
       /\ \E a \in Answers(r) :
            Handle(r, a) /\ respostas' = [respostas EXCEPT ![c] = Append(@, [to |-> r, a |-> a])]
       /\ reset' \in {reset, reset \/ (mode = "tcp" /\ lugar[c] = "gone")}
       /\ stale' = (stale \/ served[c] \/ r # pedido[c])
       /\ served' = [served EXCEPT ![c] = TRUE]
  /\ UNCHANGED <<mode, vivo, users, dups>>

\* recv returned 0.
ServeAgain ==
  /\ vivo /\ mode = "tcp" /\ pedidos = <<>>
  /\ \E c \in Client : lugar[c] = "gone"
  /\ \/ /\ ~reset /\ ultimo # None
        /\ \E a \in Answers(ultimo) : Handle(ultimo, a)
        /\ reset' \in BOOLEAN /\ stale' = TRUE /\ UNCHANGED vivo
     \/ reset /\ vivo' = FALSE /\ UNCHANGED <<vetor_mensagens, reset, stale>>
  /\ UNCHANGED <<mode, ultimo, served, pedidos, respostas, users, dups>>

\* The one recv of a client takes the answer that arrives first.
Receber(c) ==
  /\ lugar[c] = "wait"
  /\ \E i \in DOMAIN respostas[c] :
       /\ resposta' = [resposta EXCEPT ![c] = respostas[c][i].a]
       /\ respostas' = [respostas EXCEPT ![c] = RemoveAt(@, i)]
  /\ lugar' = [lugar EXCEPT ![c] = "menu"]
  /\ UNCHANGED <<mode, state, pedidos, pedido, feitos, typed, dups>>

\* UDP loses a request or an answer, or delivers a request twice.
Lose ==
  /\ mode = "udp"
  /\ \/ \E i \in DOMAIN pedidos : pedidos' = RemoveAt(pedidos, i) /\ UNCHANGED respostas
     \/ \E c \in Client : \E i \in DOMAIN respostas[c] :
          respostas' = [respostas EXCEPT ![c] = RemoveAt(@, i)] /\ UNCHANGED pedidos
  /\ UNCHANGED <<mode, state, users, dups>>

Duplicate ==
  /\ mode = "udp" /\ dups < MaxDups
  /\ \E i \in DOMAIN pedidos : pedidos' = Append(pedidos, pedidos[i])
  /\ dups' = dups + 1
  /\ UNCHANGED <<mode, state, respostas, users>>

Accepted(c) == mode = "udp" \/ c = CHOOSE d \in Client : TRUE

Next ==
  \/ Serve \/ ServeAgain \/ Lose \/ Duplicate
  \/ \E c \in Client :
       Accepted(c) /\ (Cadastrar(c) \/ Ler(c) \/ Apagar(c) \/ Sair(c) \/ Receber(c))

Spec == Init /\ [][Next]_structVars

-----------------------------------------------------------------------------
TypeOK ==
  /\ mode \in {"tcp", "udp"} /\ {vivo, reset, stale} \subseteq BOOLEAN
  /\ Len(vetor_mensagens) <= Lotado /\ Range(vetor_mensagens) \subseteq Texto
  /\ lugar \in [Client -> {"menu", "wait", "gone"}] /\ dups \in 0..MaxDups

MB == INSTANCE MessageBoard WITH
        Clients <- Client, Messages <- Texto, Names <- Usuario, NameOf <- De, MaxMsgs <- Lotado,
        board <- vetor_mensagens,
        asked <- [c \in Client |-> IF served[c] THEN None ELSE pedido[c]],
        outcome <- [c \in Client |-> IF served[c] /\ respostas[c] # <<>> THEN respostas[c][1].a ELSE None],
        answer <- resposta

\* Until a request is served a second time, because it was doubled or because
\* the server did not notice that its client had left, every request is served
\* at one instant and the answer that is displayed is the one of this instant,
\* whatever requests and answers get lost.
ImplementsBoard == MB!Init /\ [][stale' \/ MB!Next]_<<MB!vars, stale>>

\* A message is on the board at most once more than its request was doubled,
\* unless its client left and the server went on serving it.
StoredOnce ==
  mode = "udp" \/ ~stale =>
    \A t \in Texto : Len(Selected(vetor_mensagens, {t})) <= 1 + dups
=============================================================================
