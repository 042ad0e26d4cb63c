----------------------------- MODULE FileIndex -----------------------------
(***************************************************************************)
(* The file index of 2015 (Projeto P2P 2015: servidorI.c, clienteI.c).     *)
(*                                                                         *)
(* The server gives every connection a thread, and all threads share,      *)
(* without a lock, the request they serve (`enviar`), the last list of     *)
(* files received (`arqs`), the list of users and the index `arquivos`.    *)
(* A thread learns its socket from main's variable `ns`, which a later     *)
(* accept may have changed.  recv returning 0 is not told from a message.  *)
(*                                                                         *)
(* A password and a name are one credential; a keyword is the set of the   *)
(* clients with a file that matches it.  A socket carries messages of 104  *)
(* bytes and lists of files of 392: reading a list where a message is      *)
(* expected leaves the thread astray, and nothing more is modelled of it.  *)
(***************************************************************************)
EXTENDS Naturals, Sequences, SequencesExt

CONSTANTS
  Client,      \* the clients that connect, one connection each
  Cred,        \* what is typed at the login: [user, senha]
  Word,        \* the keywords searched: sets of clients
  MaxSent,     \* bound: messages a client sends on its connection
  IndexCap,    \* bound: entries of the index that are kept
  MaxStarts,   \* bound: times the server is started
  None

\* Fewer than four messages are ever queued, so one recv of 392 bytes takes all.
\* A credential is its name and its password.
ASSUME FileIndexAssumption ==
  /\ MaxSent \in 1..4 /\ IndexCap \in Nat \ {0} /\ MaxStarts \in Nat \ {0}
  /\ None \notin Client
  /\ \A a, b \in Cred : a.user = b.user /\ a.senha = b.senha => a = b

VARIABLES
  up, starts,      \* server process alive; times started
  enviar, writer,  \* the shared request; ghost: the thread that received it
  arqs,            \* the shared list of files received last
  arquivos,        \* the index, newest first
  usuariosCad,     \* the users, newest first
  usuarios_txt,    \* the users' file
  backlog, ns,     \* connections not accepted yet; main's variable
  tpc, sock,       \* thread's place; the socket it reads
  busca,           \* the thread's stack where a search's answer is built
  in, out, broken, \* per socket: requests, answers, reset by the peer
  cpc, ask, sent,  \* client's place, what it last asked, messages sent
  told, shown,     \* login answer believed; search answer displayed
  listed,          \* ghost: clients that made a request that is not answered
  mixed,           \* ghost: a thread has used a request another received
  registered       \* ghost: credentials confirmed as new

data  == <<arqs, arquivos, usuariosCad, usuarios_txt>>
main  == <<backlog, ns>>
cli   == <<cpc, ask, sent, told, shown, listed>>
net   == <<in, out, broken>>
ghost == <<mixed, registered>>
vars  == <<up, starts, enviar, writer, data, main, tpc, sock, busca, net, cli, ghost>>

Slots   == 1..(IndexCap + 1)
NoFiles == [owner |-> None, whole |-> TRUE]
Junk    == [end |-> FALSE, of |-> NoFiles, numero |-> 0]
NADA    == [Junk EXCEPT !.end = TRUE]
Idle    == [op |-> "none", cred |-> None, word |-> {}, flag |-> 0]
Msg(op, cred, word, flag) == [op |-> op, cred |-> cred, word |-> word, flag |-> flag]

All(v)  == [c \in Client |-> v]
Stack   == [i \in Slots |-> Junk]

Init ==
  /\ up = TRUE /\ starts = 1
  /\ enviar = Idle /\ writer = None
  /\ arqs = NoFiles /\ arquivos = <<>>
  /\ usuariosCad = <<>> /\ usuarios_txt = <<>>
  /\ backlog = <<>> /\ ns = None
  /\ tpc = All("none") /\ sock = All(None) /\ busca = All(Stack)
  /\ in = All(<<>>) /\ out = All(<<>>) /\ broken = All(FALSE)
  /\ cpc = All("out") /\ ask = All(Idle) /\ sent = All(0)
  /\ told = All(None) /\ shown = All(None) /\ listed = {}
  /\ mixed = FALSE /\ registered = {}

\* Main and the arrival of a thread.
Accept ==
  /\ up /\ backlog # <<>>
  /\ ns' = Head(backlog) /\ backlog' = Tail(backlog)
  /\ tpc' = [tpc EXCEPT ![Head(backlog)] = "start"]
  /\ UNCHANGED <<up, starts, enviar, writer, data, sock, busca, net, cli, ghost>>

ThreadStart(t) ==
  /\ up /\ tpc[t] = "start"
  /\ sock' = [sock EXCEPT ![t] = ns]
  /\ tpc' = [tpc EXCEPT ![t] = "recv"]
  /\ UNCHANGED <<up, starts, enviar, writer, data, main, busca, net, cli, ghost>>

Goto(t, l) == tpc' = [tpc EXCEPT ![t] = l]
Uses(t)    == mixed' = (mixed \/ writer # t) /\ UNCHANGED registered
Closed(k)  == cpc[k] = "end"

\* recv into `enviar`; at the end of the stream it keeps what it held.
Recv(t) ==
  LET k == sock[t] IN
  /\ up /\ tpc[t] = "recv"
  /\ \/ /\ in[k] # <<>> /\ in' = [in EXCEPT ![k] = Tail(@)]
        /\ IF Head(in[k]).op = "files"
             THEN Goto(t, "astray") /\ UNCHANGED <<enviar, writer>>
             ELSE enviar' = Head(in[k]) /\ writer' = t /\ Goto(t, "dispatch")
     \/ in[k] = <<>> /\ Closed(k) /\ Goto(t, "dispatch") /\ UNCHANGED <<enviar, writer, in>>
  /\ UNCHANGED <<up, starts, data, main, sock, busca, out, broken, cli, ghost>>

\* send to a socket: when the client has left it is answered by a reset; once
\* this has arrived the next one raises SIGPIPE and ends the server.
Send(k, m) ==
  IF ~Closed(k)
    THEN out' = [out EXCEPT ![k] = Append(@, m)] /\ UNCHANGED <<up, broken>>
    ELSE /\ \E arrived \in {broken[k], TRUE} : broken' = [broken EXCEPT ![k] = arrived]
         /\ up' = ~broken[k]
         /\ UNCHANGED out

\* Mutant: name and password are compared together.
KnownUserWhole == {i \in DOMAIN usuariosCad : usuariosCad[i] = enviar.cred}

KnownUser == {i \in DOMAIN usuariosCad : usuariosCad[i].user = enviar.cred.user}

\* autenticar, up to the decision: 0 right, 1 wrong password, else a new user.
Authenticate(t) ==
  /\ up /\ tpc[t] = "dispatch" /\ enviar.op = "login"
  /\ Uses(t)
  /\ \/ /\ KnownUser # {}
        /\ LET i == CHOOSE j \in KnownUser : \A h \in KnownUser : j <= h IN
           enviar' = [enviar EXCEPT !.flag =
                        IF usuariosCad[i].senha = enviar.cred.senha THEN 0 ELSE 1]
        /\ Goto(t, "reply")
     \/ KnownUser = {} /\ Goto(t, "add") /\ UNCHANGED enviar
  /\ UNCHANGED <<up, starts, writer, data, main, sock, busca, net, cli>>

\* Mutant: the new user is answered before the file is written, and it never is.
AddUserUnsaved(t) ==
  /\ up /\ tpc[t] = "add"
  /\ Uses(t)
  /\ usuariosCad' = <<enviar.cred>> \o usuariosCad
  /\ enviar' = [enviar EXCEPT !.flag = 2]
  /\ Goto(t, "reply")
  /\ UNCHANGED <<up, starts, writer, arqs, arquivos, usuarios_txt, main, sock, busca, net, cli>>

AddUser(t) ==
  /\ up /\ tpc[t] = "add"
  /\ Uses(t)
  /\ usuariosCad' = <<enviar.cred>> \o usuariosCad
  /\ Goto(t, "save")
  /\ UNCHANGED <<up, starts, enviar, writer, arqs, arquivos, usuarios_txt, main, sock, busca, net, cli>>

SaveUser(t) ==
  /\ up /\ tpc[t] = "save"
  /\ Uses(t)
  /\ usuarios_txt' = Append(usuarios_txt, enviar.cred)
  /\ enviar' = [enviar EXCEPT !.flag = 2]
  /\ Goto(t, "reply")
  /\ UNCHANGED <<up, starts, writer, arqs, arquivos, usuariosCad, main, sock, busca, net, cli>>

Reply(t) ==
  /\ up /\ tpc[t] = "reply"
  /\ Uses(t)
  /\ Send(sock[t], [kind |-> "auth", body |-> enviar])
  /\ Goto(t, "test")
  /\ UNCHANGED <<starts, enviar, writer, data, main, sock, busca, in, cli>>

Matches(word, e) == e.owner \in word

\* Mutant: a slot passed over keeps its file as well.
AnswerKeeping(word, index, stack) ==
  LET hits  == {i \in DOMAIN index : Matches(word, index[i])}
      first == CHOOSE i \in hits : \A j \in hits : i <= j
  IN  IF hits = {} THEN [stack EXCEPT ![1] = NADA]
      ELSE [i \in Slots |->
              CASE i + first - 1 \in hits -> [end |-> FALSE, of |-> index[i + first - 1], numero |-> 1]
                [] i + first - 1 = Len(index) + 1 -> NADA
                [] OTHER -> stack[i]]

\* buscar: from the first entry that matches on, every entry of the index
\* takes a slot, but only one that matches fills it; then comes the mark NADA.
\* A slot passed over keeps what an earlier search left, with no file in it.
Answer(word, index, stack) ==
  LET hits  == {i \in DOMAIN index : Matches(word, index[i])}
      first == CHOOSE i \in hits : \A j \in hits : i <= j
  IN  IF hits = {} THEN [stack EXCEPT ![1] = NADA]
      ELSE [i \in Slots |->
              CASE i + first - 1 \in hits -> [end |-> FALSE, of |-> index[i + first - 1], numero |-> 1]
                [] i + first - 1 = Len(index) + 1 -> NADA
                [] i + first - 1 > Len(index) + 1 -> stack[i]
                [] OTHER -> [stack[i] EXCEPT !.numero = 0]]

Buscar(t) ==
  LET found == Answer(enviar.word, arquivos, busca[t]) IN
  /\ up /\ tpc[t] = "dispatch" /\ enviar.op = "search"
  /\ Uses(t)
  /\ busca' = [busca EXCEPT ![t] = found]
  /\ Send(sock[t], [kind |-> "found", body |-> found])
  /\ Goto(t, "searched")
  /\ UNCHANGED <<starts, enviar, writer, data, main, sock, in, cli>>

\* Mutant: the flag stays the one the client sent.
SearchedUnmarked(t) ==
  /\ up /\ tpc[t] = "searched"
  /\ Uses(t)
  /\ Goto(t, "test")
  /\ UNCHANGED <<up, starts, enviar, writer, data, main, sock, busca, net, cli>>

Searched(t) ==
  /\ up /\ tpc[t] = "searched"
  /\ Uses(t)
  /\ enviar' = [enviar EXCEPT !.flag = 9]
  /\ Goto(t, "test")
  /\ UNCHANGED <<up, starts, writer, data, main, sock, busca, net, cli>>

\* The requests that get no answer: the two listings, printed by the server;
\* a file, which the server does not have; logout, whose body is empty.
Other(t) ==
  /\ up /\ tpc[t] = "dispatch" /\ enviar.op \notin {"login", "search"}
  /\ Uses(t)
  /\ Goto(t, "test")
  /\ UNCHANGED <<up, starts, enviar, writer, data, main, sock, busca, net, cli>>

\* A request whose flag is 0 or 2 is taken to be followed by a list of files.
Test(t) ==
  /\ up /\ tpc[t] = "test"
  /\ Uses(t)
  /\ Goto(t, IF enviar.flag \in {0, 2} THEN "files" ELSE "recv")
  /\ UNCHANGED <<up, starts, enviar, writer, data, main, sock, busca, net, cli>>

\* recv into `arqs`: requests that wait are swallowed and overwrite its head.
RecvFiles(t) ==
  LET k == sock[t] IN
  /\ up /\ tpc[t] = "files"
  /\ \/ /\ in[k] # <<>>
        /\ IF Head(in[k]).op = "files"
             THEN /\ arqs' = [owner |-> k, whole |-> TRUE]
                  /\ in' = [in EXCEPT ![k] = Tail(@)]
             ELSE /\ arqs' = [arqs EXCEPT !.whole = FALSE]
                  /\ in' = [in EXCEPT ![k] = <<>>]
     \/ in[k] = <<>> /\ Closed(k) /\ UNCHANGED <<arqs, in>>
  /\ Goto(t, "load")
  /\ UNCHANGED <<up, starts, enviar, writer, arquivos, usuariosCad, usuarios_txt,
                 main, sock, busca, out, broken, cli, ghost>>

\* carregar_arquivos
LoadFiles(t) ==
  /\ up /\ tpc[t] = "load"
  /\ Uses(t)
  /\ LET longer == <<arqs>> \o arquivos IN
     arquivos' = IF Len(longer) <= IndexCap THEN longer ELSE SubSeq(longer, 1, IndexCap)
  /\ enviar' = [enviar EXCEPT !.flag = 1000]
  /\ Goto(t, "recv")
  /\ UNCHANGED <<up, starts, writer, arqs, usuariosCad, usuarios_txt, main, sock, busca, net, cli>>

Thread(t) ==
  \/ ThreadStart(t) \/ Recv(t) \/ Authenticate(t) \/ AddUser(t) \/ SaveUser(t) \/ Reply(t)
  \/ Buscar(t) \/ Searched(t) \/ Other(t) \/ Test(t) \/ RecvFiles(t) \/ LoadFiles(t)

server == <<up, starts, enviar, writer, data, ns, tpc, sock, busca, mixed>>

\* The client: conectar, login, and the menu.
Conectar(c) ==
  /\ up /\ cpc[c] = "out"
  /\ cpc' = [cpc EXCEPT ![c] = "login"]
  /\ backlog' = Append(backlog, c)
  /\ UNCHANGED <<server, net, ask, sent, told, shown, listed, registered>>

Ask(c, m, place) ==
  /\ up /\ sent[c] < MaxSent
  /\ sent' = [sent EXCEPT ![c] = @ + 1]
  /\ in' = [in EXCEPT ![c] = Append(@, m)]
  /\ ask' = [ask EXCEPT ![c] = m]
  /\ cpc' = [cpc EXCEPT ![c] = place]
  /\ UNCHANGED <<server, backlog, out, broken, told, shown, registered>>

Login(c, cred) ==
  /\ cpc[c] = "login"
  /\ Ask(c, Msg("login", cred, {}, 0), "auth")
  /\ UNCHANGED listed

\* The answer is received over the client's own request, flag included, and
\* the flag goes out again with every later request.
Auth(c) ==
  /\ up /\ cpc[c] = "auth" /\ out[c] # <<>>
  /\ out' = [out EXCEPT ![c] = Tail(@)]
  /\ LET m == Head(out[c]) IN
     \/ /\ m.kind = "auth"
        /\ told' = [told EXCEPT ![c] = [cred |-> ask[c].cred, flag |-> m.body.flag]]
        /\ ask' = [ask EXCEPT ![c] = m.body]
        /\ registered' = IF m.body.flag = 2 /\ ~mixed
                           THEN registered \cup {ask[c].cred} ELSE registered
        /\ in' = IF m.body.flag \in {0, 2}
                   THEN [in EXCEPT ![c] = Append(@, Msg("files", None, {}, 0))] ELSE in
        /\ cpc' = [cpc EXCEPT ![c] = IF m.body.flag = 1 THEN "login" ELSE "menu"]
     \/ /\ m.kind # "auth"
        /\ cpc' = [cpc EXCEPT ![c] = "astray"]
        /\ UNCHANGED <<told, ask, registered, in>>
  /\ UNCHANGED <<server, backlog, broken, sent, shown, listed>>

Search(c, word) ==
  /\ cpc[c] = "menu"
  /\ Ask(c, Msg("search", ask[c].cred, word, ask[c].flag), "found")
  /\ UNCHANGED listed

\* The client shows the slots before the first NADA that hold files.
Displayed(found) ==
  {found[i].of : i \in {j \in Slots : found[j].numero > 0 /\ \A h \in 1..j : ~found[h].end}}

Found(c) ==
  /\ up /\ cpc[c] = "found" /\ out[c] # <<>>
  /\ out' = [out EXCEPT ![c] = Tail(@)]
  /\ IF Head(out[c]).kind = "found"
       THEN /\ cpc' = [cpc EXCEPT ![c] = "menu"]
            /\ shown' = [shown EXCEPT ![c] = [word |-> ask[c].word, files |-> Displayed(Head(out[c]).body)]]
       ELSE cpc' = [cpc EXCEPT ![c] = "astray"] /\ UNCHANGED shown
  /\ UNCHANGED <<server, backlog, in, broken, ask, sent, told, listed, registered>>

\* Options 6 and 7 (no answer is read), and `receber`, which waits for one.
Unanswered(c) ==
  /\ cpc[c] = "menu"
  /\ \E op \in {"list", "fetch"} :
       Ask(c, Msg(op, ask[c].cred, ask[c].word, ask[c].flag), IF op = "list" THEN "menu" ELSE "fetch")
  /\ listed' = listed \cup {c}

Logout(c) ==
  /\ cpc[c] = "menu"
  /\ Ask(c, Msg("logout", ask[c].cred, ask[c].word, ask[c].flag), "bye")
  /\ UNCHANGED listed

\* The client ends: after logout, killed, or because the server has gone.
\* Waiting for the login's answer it then reads its own flag, 0: "logged in".
Leave(c) ==
  /\ cpc[c] \notin {"out", "end"}
  /\ cpc' = [cpc EXCEPT ![c] = "end"]
  /\ told' = IF ~up /\ cpc[c] = "auth"
               THEN [told EXCEPT ![c] = [cred |-> ask[c].cred, flag |-> 0]] ELSE told
  /\ UNCHANGED <<server, backlog, net, ask, sent, shown, listed, registered>>

\* The server is killed, and started again: users come from the file.
Kill ==
  /\ up /\ starts < MaxStarts
  /\ up' = FALSE
  /\ UNCHANGED <<starts, enviar, writer, data, main, tpc, sock, busca, net, cli, ghost>>

Restart ==
  /\ ~up /\ starts < MaxStarts
  /\ \A c \in Client : cpc[c] \in {"out", "end"}
  /\ up' = TRUE /\ starts' = starts + 1
  /\ usuariosCad' = Reverse(usuarios_txt)
  /\ enviar' = Idle /\ writer' = None
  /\ arqs' = NoFiles /\ arquivos' = <<>>
  /\ backlog' = <<>> /\ ns' = None
  /\ tpc' = All("none") /\ sock' = All(None) /\ busca' = All(Stack)
  /\ in' = All(<<>>) /\ out' = All(<<>>) /\ broken' = All(FALSE)
  /\ cpc' = All("out") /\ ask' = All(Idle) /\ sent' = All(0)
  /\ told' = All(None) /\ shown' = All(None) /\ listed' = {}
  /\ UNCHANGED <<usuarios_txt, ghost>>

ClientStep(c) ==
  \/ Conectar(c) \/ \E cred \in Cred : Login(c, cred)
  \/ Auth(c) \/ \E word \in Word : Search(c, word)
  \/ Found(c) \/ Unanswered(c) \/ Logout(c) \/ Leave(c)

Next ==
  \/ Accept \/ Kill \/ Restart
  \/ \E c \in Client : Thread(c) \/ ClientStep(c)

\* Main and every thread keep running, and a client reads what arrives.
Fairness ==
  /\ WF_vars(Accept)
  /\ \A c \in Client : WF_vars(Thread(c)) /\ WF_vars(Auth(c)) /\ WF_vars(Found(c))

Spec == Init /\ [][Next]_vars /\ Fairness

-----------------------------------------------------------------------------
TypeOK ==
  /\ up \in BOOLEAN /\ starts \in 1..MaxStarts
  /\ writer \in Client \cup {None} /\ Len(arquivos) <= IndexCap
  /\ Range(usuariosCad) \subseteq Cred /\ Range(usuarios_txt) \subseteq Cred
  /\ enviar.flag \in {0, 1, 2, 9, 1000}
  /\ broken \in [Client -> BOOLEAN] /\ sent \in [Client -> 0..MaxSent]

\* As long as no thread served a request that another one received, what a
\* client is told of its login is true of the users' list, and a name is there
\* once: a client let in has its credential there, one refused another password.
LoginRight ==
  /\ TypeOK
  /\ up /\ ~mixed =>
       /\ \A i, j \in DOMAIN usuariosCad : usuariosCad[i].user = usuariosCad[j].user => i = j
       /\ \A c \in Client : told[c] # None =>
            IF told[c].flag = 1
              THEN \E u \in Range(usuariosCad) : u.user = told[c].cred.user /\ u.senha # told[c].cred.senha
              ELSE told[c].cred \in Range(usuariosCad)

\* A user confirmed as new stays registered, whatever threads do later and
\* also after the server dies between any two steps and is started again.
RegisteredSurvives ==
  /\ registered \subseteq Range(usuarios_txt)
  /\ up => registered \subseteq Range(usuariosCad)

\* A search displays only files that match it, although a slot passed over
\* still holds what an earlier search of the same thread left there.
ShownMatch ==
  ~mixed => \A c \in Client : shown[c] # None => \A e \in shown[c].files : Matches(shown[c].word, e)

\* Two threads on one socket, because main accepted again before a new
\* thread had read `ns`.
Overtaken == \E t \in Client : sock[t] \notin {None, t}

\* A client waiting for a login or a search is answered, unless requests of
\* two clients were mixed up, a socket went to the wrong thread, the client
\* sent before a request of the kind that makes the server swallow the next,
\* or the server died.
Answered ==
  \A c \in Client : cpc[c] \in {"auth", "found"} ~>
     cpc[c] \notin {"auth", "found"} \/ mixed \/ Overtaken \/ c \in listed \/ ~up
=============================================================================
