--------------------------- MODULE FileIndexProofs ---------------------------
(* What FileIndex promises of logins and of searches, for any number of       *)
(* clients, any set of credentials and keywords and any number of restarts: as *)
(* long as no thread has used a request that another one received, and         *)
(* whatever becomes of the sockets.                                            *)
EXTENDS FileIndex, SequenceTheorems, WellFoundedInduction, TLAPS

USE FileIndexAssumption

Flags    == {0, 1, 2, 9, 1000}
Ops      == {"none", "login", "search", "list", "fetch", "logout", "files"}
Envelope == [op : Ops, cred : Cred \cup {None}, word : Word \cup {{}}, flag : Flags]
File     == [owner : Client \cup {None}, whole : BOOLEAN]
Slot     == [end : BOOLEAN, of : File, numero : {0, 1}]
Answers  == [kind : {"auth"}, body : Envelope] \cup [kind : {"found"}, body : [Slots -> Slot]]
Told     == [cred : Cred, flag : Flags]
Steps    == {"none", "start", "recv", "dispatch", "add", "save", "reply", "searched", "test",
             "files", "load", "astray"}
Places   == {"out", "login", "auth", "menu", "found", "fetch", "bye", "astray", "end"}

\* Stages of autenticar and of its answer.
Judging == {"add", "save", "reply"}

ThreadTypes ==
  /\ up \in BOOLEAN /\ starts \in 1..MaxStarts /\ mixed \in BOOLEAN
  /\ writer \in Client \cup {None} /\ enviar \in Envelope
  /\ backlog \in Seq(Client) /\ ns \in Client \cup {None}
  /\ tpc \in [Client -> Steps] /\ sock \in [Client -> Client \cup {None}]
  /\ \A t \in Client : /\ tpc[t] = "start" => ns \in Client
                       /\ tpc[t] \notin {"none", "start"} => sock[t] \in Client
                       /\ tpc[t] \in Judging => enviar.op # "none"

DataTypes ==
  /\ arqs \in File /\ arquivos \in Seq(File) /\ Len(arquivos) <= IndexCap
  /\ usuariosCad \in Seq(Cred) /\ usuarios_txt \in Seq(Cred)
  /\ busca \in [Client -> [Slots -> Slot]]

WireTypes ==
  /\ in \in [Client -> Seq(Envelope)] /\ out \in [Client -> Seq(Answers)]
  /\ broken \in [Client -> BOOLEAN]

ClientTypes ==
  /\ cpc \in [Client -> Places] /\ ask \in [Client -> Envelope]
  /\ sent \in [Client -> 0..MaxSent] /\ told \in [Client -> Told \cup {None}]

\* Every request carries a credential that was typed; only a list does not, and
\* it is never received as a request.
Real(m) == m.op \in {"login", "search", "list", "fetch", "logout"} /\ m.cred \in Cred

Typed ==
  /\ enviar.op = "none" \/ Real(enviar)
  /\ \A k \in Client : /\ \A n \in DOMAIN in[k] : in[k][n].op = "files" \/ Real(in[k][n])
                       /\ \A n \in DOMAIN out[k] : out[k][n].kind = "auth" => Real(out[k][n].body)
                       /\ cpc[k] \in {"auth", "menu", "found", "fetch", "bye"} => Real(ask[k])

TypeInv == ThreadTypes /\ DataTypes /\ WireTypes /\ ClientTypes /\ Typed

-----------------------------------------------------------------------------
(* A login on its way, from the request to the answer.                      *)

Live(k) == cpc[k] \notin {"end", "astray"}

\* The thread at work on a login it received itself.
Working(t) == writer = t /\ (tpc[t] \in Judging \/ (tpc[t] = "dispatch" /\ enviar.op = "login"))
Busy(k)    == \E t \in Client : Working(t) /\ sock[t] = k

NoLogin(s) == \A n \in DOMAIN s : s[n].op # "login"
NoAuth(s)  == \A n \in DOMAIN s : s[n].kind # "auth"
OneLogin(s, cred) ==
  /\ \A n \in DOMAIN s : s[n].op = "login" => s[n].cred = cred
  /\ \A n, m \in DOMAIN s : s[n].op = "login" /\ s[m].op = "login" => n = m
OneAuth(s, cred) ==
  /\ \A n \in DOMAIN s : s[n].kind = "auth" => s[n].body.cred = cred
  /\ \A n, m \in DOMAIN s : s[n].kind = "auth" /\ s[m].kind = "auth" => n = m

\* A client has one login under way at most, and waits for its answer: it is a
\* request on the wire, or with the thread that received it, or an answer.
OnWay(place, i, o, busy, cred) ==
  \/ NoLogin(i) /\ NoAuth(o) /\ ~busy
  \/ place = "auth" /\ OneLogin(i, cred) /\ NoAuth(o) /\ ~busy
  \/ place = "auth" /\ NoLogin(i) /\ NoAuth(o) /\ busy /\ enviar.cred = cred
  \/ place = "auth" /\ NoLogin(i) /\ OneAuth(o, cred) /\ ~busy

Linked(k) == Live(k) => OnWay(cpc[k], in[k], out[k], Busy(k), ask[k].cred)
Links == ~mixed => \A k \in Client : Linked(k)

-----------------------------------------------------------------------------
(* The users and what is said about them.                                   *)

UniqueNames(s) == \A i, j \in DOMAIN s : s[i].user = s[j].user => i = j
NewName(s, c)  == \A i \in DOMAIN s : s[i].user # c.user

\* The answer f to a login with c is true.
Verdict(f, c) ==
  /\ f \in {0, 1, 2}
  /\ f # 1 => c \in Range(usuariosCad)
  /\ f = 2 => c \in Range(usuarios_txt)
  /\ f = 1 => \E u \in Range(usuariosCad) : u.user = c.user /\ u.senha # c.senha

Users ==
  /\ ~mixed => UniqueNames(usuarios_txt)
  /\ up /\ ~mixed => UniqueNames(usuariosCad) /\ Range(usuarios_txt) \subseteq Range(usuariosCad)

\* What the thread at work has found out is still so.
Judged == up /\ ~mixed => \A t \in Client : writer = t =>
  /\ tpc[t] = "add" => NewName(usuariosCad, enviar.cred)
  /\ tpc[t] = "save" => enviar.cred \in Range(usuariosCad) /\ NewName(usuarios_txt, enviar.cred)
  /\ tpc[t] = "reply" => Verdict(enviar.flag, enviar.cred)

Truthful == up /\ ~mixed => \A k \in Client : \A n \in DOMAIN out[k] :
  out[k][n].kind = "auth" => Verdict(out[k][n].body.flag, out[k][n].body.cred)

Believed == up /\ ~mixed => \A c \in Client : told[c] # None => Verdict(told[c].flag, told[c].cred)

LoginInv == TypeInv /\ Links /\ Users /\ Judged /\ Truthful /\ Believed /\ RegisteredSurvives

-----------------------------------------------------------------------------
LEMMA Queues ==
  ASSUME NEW S, NEW s \in Seq(S), NEW x \in S
  PROVE  /\ Append(s, x) \in Seq(S)
         /\ DOMAIN Append(s, x) = DOMAIN s \cup {Len(s) + 1} /\ Len(s) + 1 \notin DOMAIN s
         /\ Append(s, x)[Len(s) + 1] = x /\ \A n \in DOMAIN s : Append(s, x)[n] = s[n]
         /\ s # << >> => /\ Tail(s) \in Seq(S) /\ 1 \in DOMAIN s /\ Head(s) = s[1]
                         /\ \A n \in DOMAIN Tail(s) : n + 1 \in DOMAIN s /\ n # 0 /\ Tail(s)[n] = s[n + 1]
  OBVIOUS

LEMMA Ranges ==
  ASSUME NEW S, NEW s \in Seq(S), NEW x \in S
  PROVE  /\ <<x>> \o s \in Seq(S) /\ Range(<<x>> \o s) = {x} \cup Range(s)
         /\ Append(s, x) \in Seq(S) /\ Range(Append(s, x)) = {x} \cup Range(s)
<1>1. <<x>> \o s \in Seq(S) /\ Append(s, x) \in Seq(S)
  OBVIOUS
<1>2. Range(<<x>> \o s) = {x} \cup Range(s)
  <2>1. <<x>> \in Seq(S)
    OBVIOUS
  <2>2. Range(<<x>>) = {x}
    BY DEF Range
  <2>3. Range(<<x>> \o s) = Range(<<x>>) \cup Range(s)
    BY <2>1, RangeConcatenation
  <2>4. QED BY <2>2, <2>3
<1>3. Range(Append(s, x)) = {x} \cup Range(s)
  BY Queues DEF Range
<1>4. QED BY <1>1, <1>2, <1>3

LEMMA Reversed ==
  ASSUME NEW S, NEW s \in Seq(S)
  PROVE  /\ Reverse(s) \in Seq(S) /\ Range(Reverse(s)) = Range(s)
         /\ UniqueNames(s) => UniqueNames(Reverse(s))
<1>1. Reverse(s) = [n \in 1..Len(s) |-> s[Len(s) - n + 1]] /\ Len(s) \in Nat
  BY DEF Reverse
<1>2. Reverse(s) \in Seq(S)
  BY <1>1
<1>3. DOMAIN s = 1..Len(s) /\ DOMAIN Reverse(s) = 1..Len(s)
  BY <1>1
<1>4. \A n \in 1..Len(s) : Len(s) - n + 1 \in 1..Len(s) /\ Reverse(s)[n] = s[Len(s) - n + 1]
  BY <1>1
<1>5. \A n \in 1..Len(s) : s[n] = Reverse(s)[Len(s) - n + 1]
  BY <1>1
<1>6. Range(Reverse(s)) = Range(s)
  <2>1. ASSUME NEW y \in Range(s) PROVE y \in Range(Reverse(s))
    <3>1. PICK n \in 1..Len(s) : y = s[n]
      BY <1>3 DEF Range
    <3>2. QED BY <1>3, <1>4, <1>5, <3>1 DEF Range
  <2>2. ASSUME NEW y \in Range(Reverse(s)) PROVE y \in Range(s)
    <3>1. PICK n \in 1..Len(s) : y = Reverse(s)[n]
      BY <1>3 DEF Range
    <3>2. QED BY <1>3, <1>4, <3>1 DEF Range
  <2>3. QED BY <2>1, <2>2
<1>7. UniqueNames(s) => UniqueNames(Reverse(s))
  BY <1>1, <1>3, <1>4 DEF UniqueNames
<1>8. QED BY <1>2, <1>6, <1>7

LEMMA OneMoreName ==
  ASSUME NEW S, NEW s \in Seq(S), NEW x \in S, UniqueNames(s), NewName(s, x)
  PROVE  UniqueNames(<<x>> \o s) /\ UniqueNames(Append(s, x))
<1>1. UniqueNames(Append(s, x))
  BY Queues DEF UniqueNames, NewName
<1>2. UniqueNames(<<x>> \o s)
  <2>1. /\ DOMAIN (<<x>> \o s) = 1..(Len(s) + 1) /\ DOMAIN s = 1..Len(s) /\ Len(s) \in Nat
        /\ (<<x>> \o s)[1] = x /\ \A n \in 2..(Len(s) + 1) : (<<x>> \o s)[n] = s[n - 1]
    OBVIOUS
  <2>2. QED BY <2>1 DEF UniqueNames, NewName
<1>3. QED BY <1>1, <1>2

LEMMA Verdicts ==
  ASSUME NEW f, NEW c, Verdict(f, c), Range(usuariosCad) \subseteq Range(usuariosCad'),
         Range(usuarios_txt) \subseteq Range(usuarios_txt')
  PROVE  Verdict(f, c)'
BY DEF Verdict

-----------------------------------------------------------------------------
(* The clients.                                                             *)

\* A step of client c leaves the server and the other clients alone.
LEMMA ClientKeeps ==
  ASSUME LoginInv, UNCHANGED server, NEW c \in Client,
         backlog' \in Seq(Client), WireTypes', ClientTypes', Typed',
         \A k \in Client \ {c} : /\ in'[k] = in[k] /\ out'[k] = out[k] /\ cpc'[k] = cpc[k]
                                 /\ ask'[k] = ask[k] /\ told'[k] = told[k],
         ~mixed /\ Linked(c) => Linked(c)',
         up /\ ~mixed => \A n \in DOMAIN out'[c] : out'[c][n].kind = "auth" =>
           Verdict(out'[c][n].body.flag, out'[c][n].body.cred),
         up /\ ~mixed /\ told'[c] # None => Verdict(told'[c].flag, told'[c].cred),
         RegisteredSurvives'
  PROVE  LoginInv'
<1>1. /\ UNCHANGED <<up, starts, enviar, writer, arqs, arquivos, usuariosCad, usuarios_txt>>
      /\ UNCHANGED <<ns, tpc, sock, busca, mixed>>
  BY DEF server, data
<1>2. ThreadTypes' /\ DataTypes'
  BY <1>1 DEF LoginInv, TypeInv, ThreadTypes, DataTypes
<1>3. TypeInv'
  BY <1>2 DEF TypeInv
<1>4. \A k \in Client : Busy(k)' <=> Busy(k)
  BY <1>1 DEF Busy, Working
<1>5. Links'
  <2> SUFFICES ASSUME ~mixed, NEW k \in Client PROVE Linked(k)'
    BY <1>1 DEF Links
  <2>1. Linked(k)
    BY DEF LoginInv, Links
  <2>2. CASE k = c
    BY <2>1, <2>2
  <2>3. CASE k # c
    BY <1>1, <1>4, <2>1, <2>3 DEF Linked, Live, OnWay, Working
  <2>4. QED BY <2>2, <2>3
<1>6. Users' /\ Judged'
  BY <1>1 DEF LoginInv, Users, Judged, Verdict
<1>7. Truthful' /\ Believed'
  BY <1>1 DEF LoginInv, Truthful, Believed, Verdict
<1>8. QED BY <1>3, <1>5, <1>6, <1>7 DEF LoginInv

LEMMA LogsIn ==
  ASSUME LoginInv, NEW c \in Client, NEW cred \in Cred, Login(c, cred)
  PROVE  LoginInv'
<1> DEFINE m == Msg("login", cred, {}, 0)
<1>1. /\ cpc[c] = "login" /\ sent[c] < MaxSent /\ sent' = [sent EXCEPT ![c] = sent[c] + 1]
      /\ in' = [in EXCEPT ![c] = Append(in[c], m)] /\ ask' = [ask EXCEPT ![c] = m]
      /\ cpc' = [cpc EXCEPT ![c] = "auth"]
      /\ UNCHANGED server /\ UNCHANGED <<backlog, out, broken, told, registered>>
  BY DEF Login, Ask
<1>2. m \in Envelope /\ Real(m) /\ m.op = "login" /\ m.cred = cred
  BY DEF Msg, Envelope, Ops, Flags, Real
<1>3. in[c] \in Seq(Envelope)
  BY DEF LoginInv, TypeInv, WireTypes
<1>4. WireTypes'
  BY <1>1, <1>2, <1>3, Queues DEF LoginInv, TypeInv, WireTypes
<1>5. ClientTypes'
  BY <1>1, <1>2 DEF LoginInv, TypeInv, ClientTypes, Places
<1>6. /\ in'[c] = Append(in[c], m) /\ ask'[c] = m /\ cpc'[c] = "auth"
      /\ \A k \in Client \ {c} : in'[k] = in[k] /\ ask'[k] = ask[k] /\ cpc'[k] = cpc[k]
  BY <1>1 DEF LoginInv, TypeInv, WireTypes, ClientTypes
<1>7. Typed'
  <2>1. enviar' = enviar
    BY <1>1 DEF server
  <2>2. \A n \in DOMAIN in'[c] : in'[c][n].op = "files" \/ Real(in'[c][n])
    BY <1>2, <1>3, <1>6, Queues DEF LoginInv, TypeInv, Typed
  <2>3. QED BY <1>1, <1>2, <1>6, <2>1, <2>2 DEF LoginInv, TypeInv, Typed
<1>8. Linked(c) => Linked(c)'
  <2>1. Busy(c)' <=> Busy(c)
    BY <1>1 DEF server, Busy, Working
  <2>2. ASSUME Linked(c) PROVE NoLogin(in[c]) /\ NoAuth(out[c]) /\ ~Busy(c)
    BY <1>1, <2>2 DEF Linked, Live, OnWay
  <2>3. NoLogin(in[c]) => OneLogin(in'[c], cred)
    BY <1>2, <1>3, <1>6, Queues DEF NoLogin, OneLogin
  <2>4. QED BY <1>1, <1>2, <1>6, <2>1, <2>2, <2>3 DEF Linked, OnWay
<1>9. RegisteredSurvives'
  BY <1>1 DEF server, data, LoginInv, RegisteredSurvives
<1>10. QED
  <2>1. backlog' \in Seq(Client)
    BY <1>1 DEF LoginInv, TypeInv, ThreadTypes
  <2>2. UNCHANGED <<out, told>>
    BY <1>1
  <2>3. UNCHANGED server
    BY <1>1
  <2>4. up /\ ~mixed => \A n \in DOMAIN out'[c] : out'[c][n].kind = "auth" =>
          Verdict(out'[c][n].body.flag, out'[c][n].body.cred)
    BY <2>2 DEF LoginInv, Truthful
  <2>5. up /\ ~mixed /\ told'[c] # None => Verdict(told'[c].flag, told'[c].cred)
    BY <2>2 DEF LoginInv, Believed
  <2>6. QED BY <1>4, <1>5, <1>6, <1>7, <1>8, <1>9, <2>1, <2>2, <2>3, <2>4, <2>5, ClientKeeps

\* Requests of the menu.
LEMMA AsksElse ==
  ASSUME LoginInv, NEW c \in Client, cpc[c] = "menu",
         NEW op \in {"search", "list", "fetch", "logout"}, NEW word \in Word \cup {{}},
         NEW place \in {"menu", "found", "fetch", "bye"},
         Ask(c, Msg(op, ask[c].cred, word, ask[c].flag), place)
  PROVE  LoginInv'
<1> DEFINE m == Msg(op, ask[c].cred, word, ask[c].flag)
<1>1. /\ sent[c] < MaxSent /\ sent' = [sent EXCEPT ![c] = sent[c] + 1]
      /\ in' = [in EXCEPT ![c] = Append(in[c], m)] /\ ask' = [ask EXCEPT ![c] = m]
      /\ cpc' = [cpc EXCEPT ![c] = place]
      /\ UNCHANGED server /\ UNCHANGED <<backlog, out, broken, told, registered>>
  BY DEF Ask
<1>2. ask[c] \in Envelope /\ Real(ask[c])
  BY DEF LoginInv, TypeInv, ClientTypes, Typed
<1>3. m \in Envelope /\ Real(m) /\ m.op # "login"
  BY <1>2 DEF Msg, Envelope, Ops, Real
<1>4. in[c] \in Seq(Envelope)
  BY DEF LoginInv, TypeInv, WireTypes
<1>5. WireTypes'
  BY <1>1, <1>3, <1>4, Queues DEF LoginInv, TypeInv, WireTypes
<1>6. ClientTypes'
  BY <1>1, <1>3 DEF LoginInv, TypeInv, ClientTypes, Places
<1>7. /\ in'[c] = Append(in[c], m) /\ ask'[c] = m /\ cpc'[c] = place
      /\ \A k \in Client \ {c} : in'[k] = in[k] /\ ask'[k] = ask[k] /\ cpc'[k] = cpc[k]
  BY <1>1 DEF LoginInv, TypeInv, WireTypes, ClientTypes
<1>8. Typed'
  <2>1. enviar' = enviar
    BY <1>1 DEF server
  <2>2. \A n \in DOMAIN in'[c] : in'[c][n].op = "files" \/ Real(in'[c][n])
    BY <1>3, <1>4, <1>7, Queues DEF LoginInv, TypeInv, Typed
  <2>3. QED BY <1>1, <1>3, <1>7, <2>1, <2>2 DEF LoginInv, TypeInv, Typed
<1>9. Linked(c) => Linked(c)'
  <2>1. Busy(c)' <=> Busy(c)
    BY <1>1 DEF server, Busy, Working
  <2>2. ASSUME Linked(c) PROVE NoLogin(in[c]) /\ NoAuth(out[c]) /\ ~Busy(c)
    BY <2>2 DEF Linked, Live, OnWay
  <2>3. NoLogin(in[c]) => NoLogin(in'[c])
    BY <1>3, <1>4, <1>7, Queues DEF NoLogin
  <2>4. QED BY <1>1, <1>7, <2>1, <2>2, <2>3 DEF Linked, OnWay
<1>10. RegisteredSurvives'
  BY <1>1 DEF server, data, LoginInv, RegisteredSurvives
<1>11. QED
  <2>1. backlog' \in Seq(Client) /\ UNCHANGED server /\ UNCHANGED <<out, told>>
    BY <1>1 DEF LoginInv, TypeInv, ThreadTypes
  <2>2. up /\ ~mixed => \A n \in DOMAIN out'[c] : out'[c][n].kind = "auth" =>
          Verdict(out'[c][n].body.flag, out'[c][n].body.cred)
    BY <2>1 DEF LoginInv, Truthful
  <2>3. up /\ ~mixed /\ told'[c] # None => Verdict(told'[c].flag, told'[c].cred)
    BY <2>1 DEF LoginInv, Believed
  <2>4. QED BY <1>5, <1>6, <1>7, <1>8, <1>9, <1>10, <2>1, <2>2, <2>3, ClientKeeps

\* The answer to a login.
LEMMA IsAnswered ==
  ASSUME LoginInv, NEW c \in Client, Auth(c)
  PROVE  LoginInv'
<1> DEFINE m == Head(out[c])
           files == Msg("files", None, {}, 0)
<1>1. /\ up /\ cpc[c] = "auth" /\ out[c] # << >> /\ out' = [out EXCEPT ![c] = Tail(out[c])]
      /\ UNCHANGED server /\ UNCHANGED <<backlog, broken, sent>>
  BY DEF Auth
<1>2. out[c] \in Seq(Answers) /\ in[c] \in Seq(Envelope)
  BY DEF LoginInv, TypeInv, WireTypes
<1>3. /\ Tail(out[c]) \in Seq(Answers) /\ 1 \in DOMAIN out[c] /\ m = out[c][1] /\ m \in Answers
      /\ \A n \in DOMAIN Tail(out[c]) : n + 1 \in DOMAIN out[c] /\ n # 0 /\ Tail(out[c])[n] = out[c][n + 1]
                                        /\ n \in Nat
  BY <1>1, <1>2
<1>4. out'[c] = Tail(out[c]) /\ \A k \in Client \ {c} : out'[k] = out[k]
  BY <1>1 DEF LoginInv, TypeInv, WireTypes
<1>5. \A n \in DOMAIN out'[c] : out'[c][n].kind = "auth" => Real(out'[c][n].body)
  BY <1>3, <1>4 DEF LoginInv, TypeInv, Typed
<1>6. enviar' = enviar /\ UNCHANGED <<usuariosCad, usuarios_txt, up, mixed>> /\ (Busy(c)' <=> Busy(c))
  BY <1>1 DEF server, data, Busy, Working
<1>7. up /\ ~mixed => \A n \in DOMAIN out'[c] : out'[c][n].kind = "auth" =>
        Verdict(out'[c][n].body.flag, out'[c][n].body.cred)
  BY <1>3, <1>4 DEF LoginInv, Truthful
<1>8. backlog' \in Seq(Client) /\ UNCHANGED server
  BY <1>1 DEF LoginInv, TypeInv, ThreadTypes
<1>9. CASE m.kind # "auth"
  <2>1. cpc' = [cpc EXCEPT ![c] = "astray"] /\ UNCHANGED <<told, ask, registered, in>>
    BY <1>9 DEF Auth
  <2>2. WireTypes' /\ ClientTypes'
    BY <1>1, <1>3, <2>1 DEF LoginInv, TypeInv, WireTypes, ClientTypes, Places
  <2>3. cpc'[c] = "astray" /\ \A k \in Client \ {c} : cpc'[k] = cpc[k]
    BY <2>1 DEF LoginInv, TypeInv, ClientTypes
  <2>4. Typed'
    BY <1>4, <1>5, <1>6, <2>1, <2>3 DEF LoginInv, TypeInv, Typed
  <2>5. Linked(c)'
    BY <2>3 DEF Linked, Live
  <2>6. RegisteredSurvives'
    BY <1>6, <2>1 DEF LoginInv, RegisteredSurvives
  <2>7. up /\ ~mixed /\ told'[c] # None => Verdict(told'[c].flag, told'[c].cred)
    BY <2>1 DEF LoginInv, Believed
  <2>8. QED BY <1>4, <1>7, <1>8, <2>1, <2>2, <2>3, <2>4, <2>5, <2>6, <2>7, ClientKeeps
<1>10. CASE m.kind = "auth"
  <2> DEFINE place == IF m.body.flag = 1 THEN "login" ELSE "menu"
  <2>1. /\ told' = [told EXCEPT ![c] = [cred |-> ask[c].cred, flag |-> m.body.flag]]
        /\ ask' = [ask EXCEPT ![c] = m.body]
        /\ registered' = IF m.body.flag = 2 /\ ~mixed THEN registered \cup {ask[c].cred} ELSE registered
        /\ in' = in \/ in' = [in EXCEPT ![c] = Append(in[c], files)]
        /\ cpc' = [cpc EXCEPT ![c] = place]
    BY <1>10 DEF Auth
  <2>2. m.body \in Envelope /\ Real(m.body) /\ Real(ask[c]) /\ ask[c] \in Envelope
    BY <1>1, <1>3, <1>10 DEF LoginInv, TypeInv, Typed, Answers, ClientTypes
  <2>3. files \in Envelope /\ files.op = "files"
    BY DEF Msg, Envelope, Ops, Flags
  <2>more. /\ Append(in[c], files) \in Seq(Envelope)
           /\ NoLogin(in[c]) => NoLogin(Append(in[c], files))
    BY <1>2, <2>3, Queues DEF NoLogin
  <2>4. [cred |-> ask[c].cred, flag |-> m.body.flag] \in Told /\ place \in {"login", "menu"}
    BY <2>2 DEF Told, Real, Envelope
  <2>5. WireTypes'
    <3>1. in' \in [Client -> Seq(Envelope)]
      BY <2>1, <2>more DEF LoginInv, TypeInv, WireTypes
    <3>2. out' \in [Client -> Seq(Answers)] /\ broken' = broken
      BY <1>1, <1>3 DEF LoginInv, TypeInv, WireTypes
    <3>3. QED BY <3>1, <3>2 DEF LoginInv, TypeInv, WireTypes
  <2>6. ClientTypes'
    BY <1>1, <2>1, <2>2, <2>4 DEF LoginInv, TypeInv, ClientTypes, Places
  <2>7. /\ told'[c] = [cred |-> ask[c].cred, flag |-> m.body.flag] /\ ask'[c] = m.body /\ cpc'[c] = place
        /\ in'[c] = in[c] \/ in'[c] = Append(in[c], files)
        /\ \A k \in Client \ {c} : told'[k] = told[k] /\ ask'[k] = ask[k] /\ cpc'[k] = cpc[k] /\ in'[k] = in[k]
    BY <2>1 DEF LoginInv, TypeInv, WireTypes, ClientTypes
  <2>8. \A n \in DOMAIN in'[c] : in'[c][n].op = "files" \/ Real(in'[c][n])
    BY <1>2, <2>3, <2>7, Queues DEF LoginInv, TypeInv, Typed
  <2>9. Typed'
    <3>1. \A k \in Client : cpc'[k] \in {"auth", "menu", "found", "fetch", "bye"} => Real(ask'[k])
      BY <2>2, <2>7 DEF LoginInv, TypeInv, Typed
    <3>2. \A k \in Client : \A n \in DOMAIN out'[k] : out'[k][n].kind = "auth" => Real(out'[k][n].body)
      BY <1>4, <1>5 DEF LoginInv, TypeInv, Typed
    <3>3. \A k \in Client : \A n \in DOMAIN in'[k] : in'[k][n].op = "files" \/ Real(in'[k][n])
      BY <2>7, <2>8 DEF LoginInv, TypeInv, Typed
    <3>4. enviar'.op = "none" \/ Real(enviar')
      BY <1>6 DEF LoginInv, TypeInv, Typed
    <3>5. QED BY <3>1, <3>2, <3>3, <3>4 DEF Typed, Real
  <2>10. ASSUME ~mixed
         PROVE  m.body.cred = ask[c].cred /\ NoLogin(in[c]) /\ NoAuth(out'[c]) /\ ~Busy(c)
    <3>1. Linked(c) /\ Live(c)
      BY <1>1, <2>10 DEF LoginInv, Links, Live
    <3>2. ~NoAuth(out[c])
      BY <1>3, <1>10 DEF NoAuth
    <3>3. OneAuth(out[c], ask[c].cred) /\ NoLogin(in[c]) /\ ~Busy(c)
      BY <3>1, <3>2 DEF Linked, OnWay
    <3>4. NoAuth(out'[c])
      BY <1>3, <1>4, <1>10, <3>3 DEF OneAuth, NoAuth
    <3>5. QED BY <1>3, <1>10, <3>3, <3>4 DEF OneAuth
  <2>11. ~mixed => Linked(c)'
    <3>1. NoLogin(in[c]) => NoLogin(in'[c])
      BY <2>7, <2>more
    <3>2. QED BY <1>6, <2>10, <3>1 DEF Linked, OnWay
  <2>12. ~mixed => Verdict(m.body.flag, ask[c].cred)
    BY <1>1, <1>3, <1>10, <2>10 DEF LoginInv, Truthful
  <2>13. up /\ ~mixed /\ told'[c] # None => Verdict(told'[c].flag, told'[c].cred)
    BY <2>7, <2>12
  <2>14. RegisteredSurvives'
    BY <1>1, <1>6, <2>1, <2>12 DEF LoginInv, RegisteredSurvives, Verdict
  <2>15. QED BY <1>4, <1>7, <1>8, <2>5, <2>6, <2>7, <2>9, <2>11, <2>13, <2>14, ClientKeeps
<1>11. QED BY <1>9, <1>10

\* The other steps of a client: it connects, reads the answer to a search, ends.
LEMMA ClientElse ==
  ASSUME LoginInv, NEW c \in Client, Conectar(c) \/ Found(c) \/ Leave(c)
  PROVE  LoginInv'
<1>1. UNCHANGED server /\ UNCHANGED <<in, ask, sent, broken, registered>>
  BY DEF Conectar, Found, Leave, net
<1>2. \E place \in Places : /\ cpc' = [cpc EXCEPT ![c] = place]
                            /\ place \in {"login", "menu"} => cpc[c] \in {"out", "found"}
                            /\ place = "menu" => cpc[c] = "found"
                            /\ place \in {"login", "menu", "astray", "end"}
  BY DEF Conectar, Found, Leave, Places
<1>3. PICK place \in {"login", "menu", "astray", "end"} :
        /\ cpc' = [cpc EXCEPT ![c] = place]
        /\ place \in {"login", "menu"} => cpc[c] \in {"out", "found"}
        /\ place = "menu" => cpc[c] = "found"
  BY <1>2
<1>4. cpc'[c] = place /\ \A k \in Client \ {c} : cpc'[k] = cpc[k]
  BY <1>3 DEF LoginInv, TypeInv, ClientTypes
<1>5. /\ out' = out \/ (out[c] # << >> /\ out' = [out EXCEPT ![c] = Tail(out[c])])
      /\ backlog' = backlog \/ backlog' = Append(backlog, c)
      /\ \/ told' = told
         \/ ~up /\ cpc[c] = "auth" /\ told' = [told EXCEPT ![c] = [cred |-> ask[c].cred, flag |-> 0]]
  <2>1. CASE Conectar(c)
    <3>1. out' = out /\ told' = told /\ backlog' = Append(backlog, c)
      BY <2>1 DEF Conectar, net
    <3>2. QED BY <3>1
  <2>2. CASE Found(c)
    BY <2>2 DEF Found
  <2>3. CASE Leave(c)
    <3>1. out' = out /\ backlog' = backlog
      BY <2>3 DEF Leave, net
    <3>2. told' = told \/ (~up /\ cpc[c] = "auth" /\ told' = [told EXCEPT ![c] = [cred |-> ask[c].cred, flag |-> 0]])
      BY <2>3 DEF Leave
    <3>3. QED BY <3>1, <3>2
  <2>4. QED BY <2>1, <2>2, <2>3
<1>6. out[c] \in Seq(Answers)
  BY DEF LoginInv, TypeInv, WireTypes
<1>7. out'[c] = out[c] \/ (out[c] # << >> /\ out'[c] = Tail(out[c]) /\ Tail(out[c]) \in Seq(Answers))
  BY <1>5, <1>6 DEF LoginInv, TypeInv, WireTypes
<1>8. \A n \in DOMAIN out'[c] : \E m \in DOMAIN out[c] : out'[c][n] = out[c][m]
  <2>1. CASE out'[c] = out[c]
    BY <2>1
  <2>2. CASE out[c] # << >> /\ out'[c] = Tail(out[c])
    <3>1. \A n \in DOMAIN Tail(out[c]) : n + 1 \in DOMAIN out[c] /\ Tail(out[c])[n] = out[c][n + 1]
      BY <1>6, <2>2
    <3>2. QED BY <2>2, <3>1
  <2>3. QED BY <1>7, <2>1, <2>2
<1>9. out' \in [Client -> Seq(Answers)] /\ \A k \in Client \ {c} : out'[k] = out[k]
  BY <1>5, <1>6, <1>7 DEF LoginInv, TypeInv, WireTypes
<1>10. WireTypes'
  BY <1>1, <1>9 DEF LoginInv, TypeInv, WireTypes
<1>11. told' \in [Client -> Told \cup {None}] /\ \A k \in Client \ {c} : told'[k] = told[k]
  <2>1. CASE told' = told
    BY <2>1 DEF LoginInv, TypeInv, ClientTypes
  <2>2. CASE told' # told
    <3>1. [cred |-> ask[c].cred, flag |-> 0] \in Told
      BY <1>5, <2>2 DEF LoginInv, TypeInv, Typed, Real, Told, Flags
    <3>2. QED BY <1>5, <2>2, <3>1 DEF LoginInv, TypeInv, ClientTypes
  <2>3. QED BY <2>1, <2>2
<1>12. ClientTypes'
  BY <1>1, <1>3, <1>11 DEF LoginInv, TypeInv, ClientTypes, Places
<1>13. Typed'
  <2>1. enviar' = enviar
    BY <1>1 DEF server
  <2>2. \A n \in DOMAIN out'[c] : out'[c][n].kind = "auth" => Real(out'[c][n].body)
    BY <1>8 DEF LoginInv, TypeInv, Typed
  <2>3. cpc'[c] \in {"auth", "menu", "found", "fetch", "bye"} => Real(ask[c])
    BY <1>3, <1>4 DEF LoginInv, TypeInv, Typed
  <2>4. QED BY <1>1, <1>4, <1>9, <2>1, <2>2, <2>3 DEF LoginInv, TypeInv, Typed
<1>14. Linked(c) => Linked(c)'
  <2> SUFFICES ASSUME Linked(c), Live(c)' PROVE Linked(c)'
    BY DEF Linked
  <2>1. place \in {"login", "menu"}
    BY <1>3, <1>4 DEF Live
  <2>2. cpc[c] \in {"out", "found"}
    BY <1>3, <2>1
  <2>3. NoLogin(in[c]) /\ NoAuth(out[c]) /\ ~Busy(c)
    BY <2>2 DEF Linked, Live, OnWay
  <2>4. NoAuth(out'[c])
    BY <1>8, <2>3 DEF NoAuth
  <2>5. ~Busy(c)'
    BY <1>1, <2>3 DEF server, Busy, Working
  <2>6. QED BY <1>1, <2>3, <2>4, <2>5 DEF Linked, OnWay
<1>15. RegisteredSurvives'
  BY <1>1 DEF server, data, LoginInv, RegisteredSurvives
<1>16. up /\ ~mixed => \A n \in DOMAIN out'[c] : out'[c][n].kind = "auth" =>
         Verdict(out'[c][n].body.flag, out'[c][n].body.cred)
  BY <1>8 DEF LoginInv, Truthful
<1>17. up /\ ~mixed /\ told'[c] # None => Verdict(told'[c].flag, told'[c].cred)
  BY <1>5 DEF LoginInv, Believed
<1>18. backlog' \in Seq(Client)
  BY <1>5 DEF LoginInv, TypeInv, ThreadTypes
<1>19. QED BY <1>1, <1>4, <1>9, <1>10, <1>11, <1>12, <1>13, <1>14, <1>15, <1>16, <1>17, <1>18, ClientKeeps

LEMMA ClientInv ==
  ASSUME LoginInv, NEW c \in Client, ClientStep(c)
  PROVE  LoginInv'
<1>1. CASE \E cred \in Cred : Login(c, cred)
  BY <1>1, LogsIn
<1>2. CASE \E word \in Word : Search(c, word)
  BY <1>2, AsksElse DEF Search
<1>3. CASE Unanswered(c)
  <2>1. PICK op \in {"list", "fetch"} :
          Ask(c, Msg(op, ask[c].cred, ask[c].word, ask[c].flag), IF op = "list" THEN "menu" ELSE "fetch")
    BY <1>3 DEF Unanswered
  <2>2. ask[c].word \in Word \cup {{}} /\ cpc[c] = "menu"
    BY <1>3 DEF Unanswered, LoginInv, TypeInv, ClientTypes, Envelope
  <2>3. QED BY <2>1, <2>2, AsksElse
<1>4. CASE Logout(c)
  <2>1. ask[c].word \in Word \cup {{}} /\ cpc[c] = "menu"
    BY <1>4 DEF Logout, LoginInv, TypeInv, ClientTypes, Envelope
  <2>2. QED BY <1>4, <2>1, AsksElse DEF Logout
<1>5. CASE Conectar(c) \/ Found(c) \/ Leave(c) \/ Auth(c)
  BY <1>5, ClientElse, IsAnswered
<1>6. QED BY <1>1, <1>2, <1>3, <1>4, <1>5 DEF ClientStep

-----------------------------------------------------------------------------
(* The threads of the server.                                               *)

\* A step of thread t leaves the clients alone.
LEMMA ThreadKeeps ==
  ASSUME LoginInv, TypeInv', UNCHANGED <<cpc, ask, told, registered>>,
         mixed => mixed', up' => up,
         Range(usuariosCad) \subseteq Range(usuariosCad'),
         Range(usuarios_txt) \subseteq Range(usuarios_txt'),
         Links', Users', Judged', Truthful'
  PROVE  LoginInv'
<1>1. Believed'
  <2> SUFFICES ASSUME up', ~mixed', NEW c \in Client, told[c] # None
               PROVE  Verdict(told[c].flag, told[c].cred)'
    BY DEF Believed
  <2>1. Verdict(told[c].flag, told[c].cred)
    BY DEF LoginInv, Believed
  <2>2. QED BY <2>1, Verdicts
<1>2. RegisteredSurvives'
  BY DEF LoginInv, RegisteredSurvives
<1>3. QED BY <1>1, <1>2 DEF LoginInv

\* A step that neither reads nor writes a socket: who works on a login then has
\* worked on it before.
LEMMA LinksKept ==
  ASSUME LoginInv, UNCHANGED <<in, out, cpc, ask>>, mixed => mixed',
         ~mixed' => /\ enviar'.cred = enviar.cred
                    /\ \A t \in Client : Working(t)' => Working(t) /\ sock'[t] = sock[t]
  PROVE  Links'
<1> SUFFICES ASSUME ~mixed', NEW k \in Client PROVE Linked(k)'
  BY DEF Links
<1>1. Linked(k)
  BY DEF LoginInv, Links
<1>2. Busy(k)' => Busy(k)
  BY DEF Busy
<1>3. QED BY <1>1, <1>2 DEF Linked, Live, OnWay

LEMMA TruthfulKept ==
  ASSUME LoginInv, out' = out, mixed => mixed', up' => up,
         Range(usuariosCad) \subseteq Range(usuariosCad'),
         Range(usuarios_txt) \subseteq Range(usuarios_txt')
  PROVE  Truthful'
<1> SUFFICES ASSUME up', ~mixed', NEW k \in Client, NEW n \in DOMAIN out[k], out[k][n].kind = "auth"
             PROVE  Verdict(out[k][n].body.flag, out[k][n].body.cred)'
  BY DEF Truthful
<1>1. Verdict(out[k][n].body.flag, out[k][n].body.cred)
  BY DEF LoginInv, Truthful
<1>2. QED BY <1>1, Verdicts

\* Main accepts, or a thread reads its socket's number.
LEMMA Arrives ==
  ASSUME LoginInv, Accept \/ \E t \in Client : ThreadStart(t)
  PROVE  LoginInv'
<1>1. /\ UNCHANGED <<up, starts, enviar, writer, arqs, arquivos, usuariosCad, usuarios_txt, busca>>
      /\ UNCHANGED <<in, out, broken, cpc, ask, sent, told, mixed, registered>>
  BY DEF Accept, ThreadStart, data, net, cli, ghost, main
<1>2. /\ ThreadTypes'
      /\ \A t \in Client : tpc'[t] \notin {"start", "recv"} => tpc'[t] = tpc[t] /\ sock'[t] = sock[t]
  <2>1. CASE Accept
    <3>1. /\ backlog # << >> /\ ns' = Head(backlog) /\ backlog' = Tail(backlog) /\ sock' = sock
          /\ tpc' = [tpc EXCEPT ![Head(backlog)] = "start"]
      BY <2>1 DEF Accept
    <3>2. Head(backlog) \in Client /\ Tail(backlog) \in Seq(Client)
      BY <3>1 DEF LoginInv, TypeInv, ThreadTypes
    <3>3. QED BY <1>1, <3>1, <3>2 DEF LoginInv, TypeInv, ThreadTypes, Steps, Judging
  <2>2. CASE \E t \in Client : ThreadStart(t)
    <3>1. PICK t \in Client : ThreadStart(t)
      BY <2>2
    <3>2. /\ tpc[t] = "start" /\ sock' = [sock EXCEPT ![t] = ns] /\ tpc' = [tpc EXCEPT ![t] = "recv"]
          /\ UNCHANGED <<backlog, ns>>
      BY <3>1 DEF ThreadStart, main
    <3>3. QED BY <1>1, <3>2 DEF LoginInv, TypeInv, ThreadTypes, Steps, Judging
  <2>3. QED BY <2>1, <2>2
<1>3. TypeInv'
  BY <1>1, <1>2 DEF LoginInv, TypeInv, DataTypes, WireTypes, ClientTypes, Typed
<1>4. \A t \in Client : Working(t)' => Working(t) /\ sock'[t] = sock[t]
  BY <1>1, <1>2 DEF Working, Judging
<1>5. Links'
  BY <1>1, <1>4, LinksKept
<1>6. Users' /\ Judged' /\ Truthful'
  BY <1>1, <1>2, TruthfulKept DEF LoginInv, Users, Judged, Verdict
<1>7. QED BY <1>1, <1>3, <1>5, <1>6, ThreadKeeps

\* What the steps that use the request have in common.
LEMMA UsesRequest ==
  ASSUME LoginInv, NEW t \in Client, NEW l \in Steps \ {"none", "start"}, Uses(t), Goto(t, l),
         tpc[t] \notin {"none", "start"}, up, up' \in BOOLEAN,
         UNCHANGED <<starts, writer, backlog, ns, sock>>,
         enviar' = enviar \/ \E f \in Flags : enviar' = [enviar EXCEPT !.flag = f],
         l \in Judging => enviar.op # "none"
  PROVE  /\ ThreadTypes' /\ tpc'[t] = l /\ \A u \in Client \ {t} : tpc'[u] = tpc[u]
         /\ sock[t] \in Client /\ (mixed => mixed') /\ (~mixed' => ~mixed /\ writer = t)
         /\ enviar'.op = enviar.op /\ enviar'.cred = enviar.cred
         /\ (enviar'.op = "none" \/ Real(enviar')) /\ registered' = registered
<1>1. tpc' = [tpc EXCEPT ![t] = l] /\ mixed' = (mixed \/ writer # t) /\ registered' = registered
  BY DEF Uses, Goto
<1>2. tpc' \in [Client -> Steps] /\ tpc'[t] = l /\ \A u \in Client \ {t} : tpc'[u] = tpc[u]
  BY <1>1 DEF LoginInv, TypeInv, ThreadTypes
<1>3. mixed' \in BOOLEAN /\ (mixed => mixed') /\ (~mixed' => ~mixed /\ writer = t)
  BY <1>1 DEF LoginInv, TypeInv, ThreadTypes
<1>4. enviar' \in Envelope /\ enviar'.op = enviar.op /\ enviar'.cred = enviar.cred
  BY DEF LoginInv, TypeInv, ThreadTypes, Envelope
<1>5. enviar'.op = "none" \/ Real(enviar')
  BY <1>4 DEF LoginInv, TypeInv, Typed, Real
<1>6. ThreadTypes'
  BY <1>2, <1>3, <1>4 DEF LoginInv, TypeInv, ThreadTypes
<1>7. sock[t] \in Client
  BY DEF LoginInv, TypeInv, ThreadTypes
<1>8. QED BY <1>1, <1>2, <1>3, <1>4, <1>5, <1>6, <1>7

\* A thread at work on a login goes on with it, or a thread that is not turns to
\* something else; the users and the sockets stay.
LEMMA WorkGoesOn ==
  ASSUME LoginInv, NEW t \in Client, NEW l \in Steps \ {"none", "start"}, Uses(t), Goto(t, l),
         tpc[t] \notin {"none", "start"}, up,
         l \in Judging => Working(t) \/ writer # t, l # "dispatch", l \in Judging => enviar.op # "none",
         enviar' = enviar \/ \E f \in Flags : enviar' = [enviar EXCEPT !.flag = f],
         UNCHANGED <<up, starts, writer, backlog, ns, sock, usuariosCad, usuarios_txt, cpc, ask, sent, told>>,
         UNCHANGED <<in, out, broken>>, DataTypes',
         ~mixed /\ writer = t /\ l = "add" => NewName(usuariosCad, enviar.cred),
         ~mixed /\ writer = t /\ l = "reply" => Verdict(enviar'.flag, enviar.cred),
         l # "save"
  PROVE  LoginInv'
<1>1. /\ ThreadTypes' /\ tpc'[t] = l /\ \A u \in Client \ {t} : tpc'[u] = tpc[u]
      /\ (mixed => mixed') /\ (~mixed' => ~mixed /\ writer = t)
      /\ enviar'.op = enviar.op /\ enviar'.cred = enviar.cred
      /\ (enviar'.op = "none" \/ Real(enviar')) /\ registered' = registered
  <2>1. up' \in BOOLEAN
    BY DEF LoginInv, TypeInv, ThreadTypes
  <2>2. QED BY <2>1, UsesRequest
<1>2. TypeInv'
  BY <1>1 DEF LoginInv, TypeInv, WireTypes, ClientTypes, Typed
<1>3. ASSUME ~mixed' PROVE \A u \in Client : Working(u)' => Working(u) /\ sock'[u] = sock[u]
  BY <1>1, <1>3 DEF Working, Judging
<1>4. Links'
  BY <1>1, <1>3, LinksKept
<1>5. Users' /\ Truthful'
  BY <1>1, TruthfulKept DEF LoginInv, Users
<1>6. Judged'
  <2> SUFFICES ASSUME ~mixed', NEW u \in Client, writer = u
               PROVE  /\ tpc'[u] = "add" => NewName(usuariosCad, enviar'.cred)
                      /\ tpc'[u] = "save" => FALSE
                      /\ tpc'[u] = "reply" => Verdict(enviar'.flag, enviar'.cred)
    BY DEF Judged, Verdict
  <2>1. u = t /\ ~mixed
    BY <1>1
  <2>2. QED BY <1>1, <2>1
<1>7. QED BY <1>1, <1>2, <1>4, <1>5, <1>6, ThreadKeeps

\* autenticar looks at the first user of the name.
LEMMA FirstKnown ==
  ASSUME LoginInv, KnownUser # {}
  PROVE  (CHOOSE i \in KnownUser : \A h \in KnownUser : i <= h) \in KnownUser
<1>1. KnownUser \subseteq Nat
  BY DEF KnownUser, LoginInv, TypeInv, DataTypes
<1>2. PICK x \in KnownUser : \A y \in KnownUser : <<y, x>> \notin OpToRel(<, Nat)
  BY <1>1, NatLessThanWellFounded, WFMin
<1>3. \A y \in KnownUser : ~(y < x)
  BY <1>1, <1>2 DEF OpToRel
<1>4. \A y \in KnownUser : x <= y
  BY <1>1, <1>3
<1>5. QED BY <1>4

LEMMA AuthenticateInv ==
  ASSUME LoginInv, NEW t \in Client, Authenticate(t)
  PROVE  LoginInv'
<1>1. /\ up /\ tpc[t] = "dispatch" /\ enviar.op = "login" /\ Uses(t)
      /\ UNCHANGED <<up, starts, writer, backlog, ns, sock, usuariosCad, usuarios_txt, cpc, ask, sent, told>>
      /\ UNCHANGED <<in, out, broken, arqs, arquivos, busca>>
  BY DEF Authenticate, data, main, net, cli
<1>2. DataTypes'
  BY <1>1 DEF LoginInv, TypeInv, DataTypes
<1>3. Working(t) \/ writer # t
  BY <1>1 DEF Working
<1>4. CASE KnownUser = {} /\ Goto(t, "add") /\ UNCHANGED enviar
  <2>1. NewName(usuariosCad, enviar.cred)
    BY <1>4 DEF KnownUser, NewName
  <2>2. "add" \in Steps \ {"none", "start"}
    BY DEF Steps
  <2>3. QED BY <1>1, <1>2, <1>3, <1>4, <2>1, <2>2, WorkGoesOn
<1>5. CASE KnownUser # {}
  <2> DEFINE i == CHOOSE j \in KnownUser : \A h \in KnownUser : j <= h
             f == IF usuariosCad[i].senha = enviar.cred.senha THEN 0 ELSE 1
  <2>1. enviar' = [enviar EXCEPT !.flag = f] /\ Goto(t, "reply")
    BY <1>5 DEF Authenticate
  <2>2. i \in DOMAIN usuariosCad /\ usuariosCad[i].user = enviar.cred.user
    <3>1. i \in KnownUser
      BY <1>5, FirstKnown
    <3>2. QED BY <3>1 DEF KnownUser
  <2>3. usuariosCad[i] \in Cred /\ enviar.cred \in Cred /\ usuariosCad[i] \in Range(usuariosCad)
    <3>1. usuariosCad \in Seq(Cred) /\ enviar.cred \in Cred
      BY <1>1 DEF LoginInv, TypeInv, DataTypes, Typed, Real
    <3>2. ASSUME NEW n \in DOMAIN usuariosCad
          PROVE  usuariosCad[n] \in Cred /\ usuariosCad[n] \in Range(usuariosCad)
      BY <3>1 DEF Range
    <3>3. QED BY <2>2, <3>1, <3>2
  <2>4. Verdict(f, enviar.cred)
    <3>1. CASE f = 0
      <4>1. usuariosCad[i] = enviar.cred
        BY <2>2, <2>3, <3>1
      <4>2. QED BY <2>3, <3>1, <4>1 DEF Verdict
    <3>2. CASE f = 1
      <4>1. usuariosCad[i].senha # enviar.cred.senha
        BY <3>2
      <4>2. QED BY <2>2, <2>3, <3>2, <4>1 DEF Verdict
    <3>3. QED BY <3>1, <3>2
  <2>5. enviar'.flag = f
    BY <2>1 DEF LoginInv, TypeInv, ThreadTypes, Envelope
  <2>6. f \in Flags /\ "reply" \in Steps \ {"none", "start"}
    BY DEF Flags, Steps
  <2>7. Verdict(enviar'.flag, enviar.cred)
    BY <2>4, <2>5
  <2>8. QED BY <1>1, <1>2, <1>3, <2>1, <2>6, <2>7, WorkGoesOn
<1>6. QED BY <1>4, <1>5 DEF Authenticate

\* The steps after the answer.
LEMMA AfterwardsInv ==
  ASSUME LoginInv, NEW t \in Client, Searched(t) \/ Other(t) \/ Test(t) \/ LoadFiles(t)
  PROVE  LoginInv'
<1>1. /\ up /\ tpc[t] \in {"dispatch", "searched", "test", "load"} /\ Uses(t)
      /\ UNCHANGED <<up, starts, writer, backlog, ns, sock, usuariosCad, usuarios_txt, cpc, ask, sent, told>>
      /\ UNCHANGED <<in, out, broken, arqs, busca>>
  BY DEF Searched, Other, Test, LoadFiles, data, main, net, cli
<1>2. \E l \in {"test", "files", "recv"} : Goto(t, l)
  BY DEF Searched, Other, Test, LoadFiles
<1>3. PICK l \in {"test", "files", "recv"} : Goto(t, l)
  BY <1>2
<1>4. enviar' = enviar \/ \E f \in Flags : enviar' = [enviar EXCEPT !.flag = f]
  BY DEF Searched, Other, Test, LoadFiles, Flags
<1>5. arquivos' \in Seq(File) /\ Len(arquivos') <= IndexCap
  <2>1. CASE LoadFiles(t)
    <3> DEFINE longer == <<arqs>> \o arquivos
    <3>1. arquivos' = IF Len(longer) <= IndexCap THEN longer ELSE SubSeq(longer, 1, IndexCap)
      BY <2>1 DEF LoadFiles
    <3>2. arqs \in File /\ arquivos \in Seq(File) /\ IndexCap \in Nat \ {0}
      BY DEF LoginInv, TypeInv, DataTypes
    <3>3. longer \in Seq(File)
      BY <3>2
    <3>4. CASE Len(longer) <= IndexCap
      BY <3>1, <3>3, <3>4
    <3>5. CASE ~(Len(longer) <= IndexCap)
      <4>1. IndexCap \in 1..Len(longer)
        BY <3>2, <3>3, <3>5
      <4>2. SubSeq(longer, 1, IndexCap) \in Seq(File) /\ Len(SubSeq(longer, 1, IndexCap)) = IndexCap
        BY <3>2, <3>3, <4>1
      <4>3. QED BY <3>1, <3>2, <3>5, <4>2
    <3>6. QED BY <3>4, <3>5
  <2>2. CASE ~LoadFiles(t)
    <3>1. arquivos' = arquivos
      BY <2>2 DEF Searched, Other, Test, data
    <3>2. QED BY <3>1 DEF LoginInv, TypeInv, DataTypes
  <2>3. QED BY <2>1, <2>2
<1>6. DataTypes'
  BY <1>1, <1>5 DEF LoginInv, TypeInv, DataTypes
<1>7. l \in Steps \ {"none", "start"} /\ l \notin Judging /\ l # "dispatch"
  BY DEF Steps, Judging
<1>8. tpc[t] \notin {"none", "start"}
  BY <1>1
<1>9. l # "add" /\ l # "reply" /\ l # "save"
  OBVIOUS
<1>10. QED BY <1>1, <1>3, <1>4, <1>6, <1>7, <1>8, <1>9, WorkGoesOn

LEMMA AddUserInv ==
  ASSUME LoginInv, NEW t \in Client, AddUser(t)
  PROVE  LoginInv'
<1>1. /\ up /\ tpc[t] = "add" /\ Uses(t) /\ Goto(t, "save") /\ usuariosCad' = <<enviar.cred>> \o usuariosCad
      /\ UNCHANGED <<up, starts, enviar, writer, backlog, ns, sock, usuarios_txt, cpc, ask, sent, told>>
      /\ UNCHANGED <<in, out, broken, arqs, arquivos, busca>>
  BY DEF AddUser, main, net, cli
<1>2. "save" \in Steps \ {"none", "start"} /\ enviar.op # "none" /\ up' \in BOOLEAN
  BY <1>1 DEF LoginInv, TypeInv, ThreadTypes, Judging, Steps
<1>3. /\ ThreadTypes' /\ tpc'[t] = "save" /\ \A u \in Client \ {t} : tpc'[u] = tpc[u]
      /\ (mixed => mixed') /\ (~mixed' => ~mixed /\ writer = t) /\ registered' = registered
  BY <1>1, <1>2, UsesRequest
<1>4. enviar.cred \in Cred /\ usuariosCad \in Seq(Cred)
  BY <1>2 DEF LoginInv, TypeInv, Typed, Real, DataTypes
<1>5. usuariosCad' \in Seq(Cred) /\ Range(usuariosCad') = {enviar.cred} \cup Range(usuariosCad)
  BY <1>1, <1>4, Ranges
<1>6. TypeInv'
  BY <1>1, <1>3, <1>5 DEF LoginInv, TypeInv, DataTypes, WireTypes, ClientTypes, Typed
<1>7. ASSUME ~mixed' PROVE \A u \in Client : Working(u)' => Working(u) /\ sock'[u] = sock[u]
  BY <1>1, <1>3, <1>7 DEF Working, Judging
<1>8. Links'
  BY <1>1, <1>3, <1>7, LinksKept
<1>9. Truthful'
  BY <1>1, <1>3, <1>5, TruthfulKept
<1>10. ~mixed' => NewName(usuariosCad, enviar.cred) /\ NewName(usuarios_txt, enviar.cred)
  <2> SUFFICES ASSUME ~mixed' PROVE NewName(usuariosCad, enviar.cred) /\ NewName(usuarios_txt, enviar.cred)
    OBVIOUS
  <2>1. NewName(usuariosCad, enviar.cred) /\ Range(usuarios_txt) \subseteq Range(usuariosCad)
    BY <1>1, <1>3 DEF LoginInv, Judged, Users
  <2>2. \A n \in DOMAIN usuarios_txt : \E m \in DOMAIN usuariosCad : usuarios_txt[n] = usuariosCad[m]
    BY <2>1 DEF Range
  <2>3. QED BY <2>1, <2>2 DEF NewName
<1>11. Users'
  <2>1. ~mixed' => UniqueNames(usuariosCad')
    BY <1>1, <1>3, <1>4, <1>10, OneMoreName DEF LoginInv, Users
  <2>2. QED BY <1>1, <1>3, <1>5, <2>1 DEF LoginInv, Users
<1>12. Judged'
  <2> SUFFICES ASSUME ~mixed', NEW u \in Client, writer = u
               PROVE  /\ tpc'[u] = "add" => FALSE
                      /\ tpc'[u] = "save" => enviar.cred \in Range(usuariosCad') /\ NewName(usuarios_txt, enviar.cred)
                      /\ tpc'[u] = "reply" => FALSE
    BY <1>1 DEF Judged
  <2>1. u = t
    BY <1>3
  <2>2. QED BY <1>3, <1>5, <1>10, <2>1
<1>13. QED BY <1>1, <1>3, <1>5, <1>6, <1>8, <1>9, <1>11, <1>12, ThreadKeeps

LEMMA SaveUserInv ==
  ASSUME LoginInv, NEW t \in Client, SaveUser(t)
  PROVE  LoginInv'
<1>1. /\ up /\ tpc[t] = "save" /\ Uses(t) /\ Goto(t, "reply")
      /\ usuarios_txt' = Append(usuarios_txt, enviar.cred) /\ enviar' = [enviar EXCEPT !.flag = 2]
      /\ UNCHANGED <<up, starts, writer, backlog, ns, sock, usuariosCad, cpc, ask, sent, told>>
      /\ UNCHANGED <<in, out, broken, arqs, arquivos, busca>>
  BY DEF SaveUser, main, net, cli
<1>2. /\ "reply" \in Steps \ {"none", "start"} /\ enviar.op # "none" /\ up' \in BOOLEAN /\ 2 \in Flags
  BY <1>1 DEF LoginInv, TypeInv, ThreadTypes, Judging, Steps, Flags
<1>3. /\ ThreadTypes' /\ tpc'[t] = "reply" /\ \A u \in Client \ {t} : tpc'[u] = tpc[u]
      /\ (mixed => mixed') /\ (~mixed' => ~mixed /\ writer = t) /\ registered' = registered
      /\ enviar'.op = enviar.op /\ enviar'.cred = enviar.cred
      /\ (enviar'.op = "none" \/ Real(enviar'))
  BY <1>1, <1>2, UsesRequest
<1>4. enviar.cred \in Cred /\ usuarios_txt \in Seq(Cred) /\ enviar'.flag = 2
  BY <1>1, <1>2 DEF LoginInv, TypeInv, Typed, Real, DataTypes, ThreadTypes, Envelope
<1>5. usuarios_txt' \in Seq(Cred) /\ Range(usuarios_txt') = {enviar.cred} \cup Range(usuarios_txt)
  BY <1>1, <1>4, Ranges
<1>6. TypeInv'
  BY <1>1, <1>3, <1>5 DEF LoginInv, TypeInv, DataTypes, WireTypes, ClientTypes, Typed
<1>7. ASSUME ~mixed' PROVE \A u \in Client : Working(u)' => Working(u) /\ sock'[u] = sock[u]
  BY <1>1, <1>3, <1>7 DEF Working, Judging
<1>8. Links'
  BY <1>1, <1>3, <1>7, LinksKept
<1>9. Truthful'
  BY <1>1, <1>3, <1>5, TruthfulKept
<1>10. ~mixed' => enviar.cred \in Range(usuariosCad) /\ NewName(usuarios_txt, enviar.cred)
  BY <1>1, <1>3 DEF LoginInv, Judged
<1>11. Users'
  <2>1. ~mixed' => UniqueNames(usuarios_txt')
    BY <1>1, <1>3, <1>4, <1>10, OneMoreName DEF LoginInv, Users
  <2>2. QED BY <1>1, <1>3, <1>5, <1>10, <2>1 DEF LoginInv, Users
<1>12. Judged'
  <2> SUFFICES ASSUME ~mixed', NEW u \in Client, writer = u
               PROVE  /\ tpc'[u] \notin {"add", "save"}
                      /\ tpc'[u] = "reply" => Verdict(enviar.flag, enviar.cred)'
    BY <1>1 DEF Judged
  <2>1. u = t
    BY <1>3
  <2>2. Verdict(enviar.flag, enviar.cred)'
    BY <1>1, <1>3, <1>4, <1>5, <1>10 DEF Verdict
  <2>3. QED BY <1>3, <2>1, <2>2
<1>13. QED BY <1>1, <1>3, <1>5, <1>6, <1>8, <1>9, <1>11, <1>12, ThreadKeeps

-----------------------------------------------------------------------------
(* The steps that read or write a socket.                                   *)

\* What send does to the answers on their way to the client of socket k.
LEMMA SendWires ==
  ASSUME LoginInv, NEW k \in Client, NEW m \in Answers, Send(k, m)
  PROVE  /\ up' \in BOOLEAN /\ broken' \in [Client -> BOOLEAN] /\ out' \in [Client -> Seq(Answers)]
         /\ \A c \in Client \ {k} : out'[c] = out[c]
         /\ cpc[k] = "end" => out' = out
         /\ out'[k] = out[k] \/ out'[k] = Append(out[k], m)
<1>1. out[k] \in Seq(Answers)
  BY DEF LoginInv, TypeInv, WireTypes
<1>2. Append(out[k], m) \in Seq(Answers)
  BY <1>1
<1>3. out' = (IF ~Closed(k) THEN [out EXCEPT ![k] = Append(out[k], m)] ELSE out)
  BY DEF Send
<1>4. up' \in BOOLEAN /\ broken' \in [Client -> BOOLEAN]
  BY DEF Send, LoginInv, TypeInv, WireTypes, ThreadTypes
<1>5. QED BY <1>2, <1>3, <1>4 DEF LoginInv, TypeInv, WireTypes, Closed

LEMMA OneMore ==
  ASSUME NEW S, NEW s \in Seq(S), NEW x \in S, NEW r, r = s \/ r = Append(s, x)
  PROVE  \A n \in DOMAIN r : \/ n \in DOMAIN s /\ r[n] = s[n]
                             \/ n = Len(s) + 1 /\ n \notin DOMAIN s /\ r[n] = x
  BY Queues

LEMMA ReplyInv ==
  ASSUME LoginInv, NEW t \in Client, Reply(t)
  PROVE  LoginInv'
<1> DEFINE k == sock[t]
           m == [kind |-> "auth", body |-> enviar]
<1>1. /\ up /\ tpc[t] = "reply" /\ Uses(t) /\ Goto(t, "test") /\ Send(k, m)
      /\ UNCHANGED <<starts, enviar, writer, backlog, ns, sock, usuariosCad, usuarios_txt, cpc, ask, sent, told>>
      /\ UNCHANGED <<in, arqs, arquivos, busca>>
  BY DEF Reply, main, cli, data
<1>2. /\ "test" \in Steps \ {"none", "start"} /\ "test" \notin Judging /\ k \in Client
      /\ Real(enviar) /\ enviar \in Envelope
  BY <1>1 DEF LoginInv, TypeInv, ThreadTypes, Judging, Steps, Typed
<1>3. m \in Answers /\ m.kind = "auth" /\ m.body = enviar
  BY <1>2 DEF Answers
<1>4. /\ up' \in BOOLEAN /\ broken' \in [Client -> BOOLEAN] /\ out' \in [Client -> Seq(Answers)]
      /\ \A c \in Client \ {k} : out'[c] = out[c]
      /\ cpc[k] = "end" => out' = out
      /\ out'[k] = out[k] \/ out'[k] = Append(out[k], m)
  BY <1>1, <1>2, <1>3, SendWires
<1>5. /\ ThreadTypes' /\ tpc'[t] = "test" /\ \A u \in Client \ {t} : tpc'[u] = tpc[u]
      /\ (mixed => mixed') /\ (~mixed' => ~mixed /\ writer = t) /\ registered' = registered
  BY <1>1, <1>2, <1>4, UsesRequest
<1>6. out[k] \in Seq(Answers)
  BY <1>2 DEF LoginInv, TypeInv, WireTypes
<1> HIDE DEF m
<1>more. \A n \in DOMAIN out'[k] : \/ n \in DOMAIN out[k] /\ out'[k][n] = out[k][n]
                                   \/ n = Len(out[k]) + 1 /\ n \notin DOMAIN out[k] /\ out'[k][n] = m
  <2>1. \A r : r = out[k] \/ r = Append(out[k], m) =>
          \A n \in DOMAIN r : \/ n \in DOMAIN out[k] /\ r[n] = out[k][n]
                              \/ n = Len(out[k]) + 1 /\ n \notin DOMAIN out[k] /\ r[n] = m
    BY <1>3, <1>6, OneMore
  <2>2. QED BY <1>4, <2>1
<1>7. TypeInv'
  <2>1. \A n \in DOMAIN out'[k] : out'[k][n].kind = "auth" => Real(out'[k][n].body)
    BY <1>2, <1>3, <1>4, <1>more DEF LoginInv, TypeInv, Typed
  <2>2. Typed'
    BY <1>1, <1>4, <2>1 DEF LoginInv, TypeInv, Typed, Real
  <2>3. QED BY <1>1, <1>4, <1>5, <2>2 DEF LoginInv, TypeInv, DataTypes, WireTypes, ClientTypes
<1>8. Links'
  <2> SUFFICES ASSUME ~mixed', NEW c \in Client, Live(c) PROVE Linked(c)'
    BY <1>1 DEF Links, Linked, Live
  <2>1. ~Busy(c)'
    BY <1>1, <1>5 DEF Busy, Working, Judging
  <2>2. Linked(c) /\ writer = t
    BY <1>5 DEF LoginInv, Links
  <2>3. CASE c # k
    <3>1. UNCHANGED <<cpc[c], in[c], out[c], ask[c]>>
      BY <1>1, <1>4, <2>3
    <3>2. OnWay(cpc[c], in[c], out[c], FALSE, ask[c].cred)
      BY <1>1, <1>5, <2>1, <2>2, <2>3 DEF Linked, OnWay, Busy, Working
    <3>3. QED BY <1>1, <2>1, <3>1, <3>2 DEF Linked, OnWay
  <2>4. CASE c = k
    <3>1. Busy(k)
      BY <1>1, <2>2 DEF Busy, Working, Judging
    <3>2. cpc[k] = "auth" /\ NoLogin(in[k]) /\ NoAuth(out[k]) /\ enviar.cred = ask[k].cred
      BY <2>2, <2>4, <3>1 DEF Linked, OnWay
    <3>3. OneAuth(out'[k], ask[k].cred)
      BY <1>3, <1>4, <1>more, <3>2 DEF OneAuth, NoAuth
    <3>4. QED BY <1>1, <2>1, <2>4, <3>2, <3>3 DEF Linked, OnWay
  <2>5. QED BY <2>3, <2>4
<1>9. Users'
  BY <1>1, <1>5 DEF LoginInv, Users
<1>10. Judged'
  BY <1>1, <1>5 DEF Judged
<1>11. Truthful'
  <2> SUFFICES ASSUME up', ~mixed', NEW c \in Client, NEW n \in DOMAIN out'[c], out'[c][n].kind = "auth"
               PROVE  Verdict(out'[c][n].body.flag, out'[c][n].body.cred)
    BY <1>1 DEF Truthful, Verdict
  <2>1. Verdict(enviar.flag, enviar.cred)
    BY <1>1, <1>5 DEF LoginInv, Judged
  <2>2. \A j \in DOMAIN out[c] : out[c][j].kind = "auth" => Verdict(out[c][j].body.flag, out[c][j].body.cred)
    BY <1>1, <1>5 DEF LoginInv, Truthful
  <2>3. QED BY <1>3, <1>4, <1>more, <2>1, <2>2
<1>12. QED BY <1>1, <1>5, <1>7, <1>8, <1>9, <1>10, <1>11, ThreadKeeps

LEMMA AnswerType ==
  ASSUME NEW word, NEW index \in Seq(File), NEW stack \in [Slots -> Slot]
  PROVE  Answer(word, index, stack) \in [Slots -> Slot]
<1> DEFINE hits  == {i \in DOMAIN index : Matches(word, index[i])}
           first == CHOOSE i \in hits : \A j \in hits : i <= j
<1>1. NADA \in Slot
  BY DEF NADA, Junk, NoFiles, Slot, File
<1>2. \A i \in DOMAIN index : [end |-> FALSE, of |-> index[i], numero |-> 1] \in Slot
  BY DEF Slot
<1>3. \A i \in Slots : stack[i] \in Slot /\ [stack[i] EXCEPT !.numero = 0] \in Slot
  BY DEF Slot
<1>4. hits \subseteq DOMAIN index
  OBVIOUS
<1>5. CASE hits = {}
  <2>1. Answer(word, index, stack) = [stack EXCEPT ![1] = NADA]
    BY <1>5 DEF Answer
  <2>2. QED BY <1>1, <2>1
<1>6. CASE hits # {}
  <2>1. Answer(word, index, stack) = [i \in Slots |->
              CASE i + first - 1 \in hits -> [end |-> FALSE, of |-> index[i + first - 1], numero |-> 1]
                [] i + first - 1 = Len(index) + 1 -> NADA
                [] i + first - 1 > Len(index) + 1 -> stack[i]
                [] OTHER -> [stack[i] EXCEPT !.numero = 0]]
    BY <1>6 DEF Answer
  <2> HIDE DEF hits
  <2>2. \A i \in Slots :
          (CASE i + first - 1 \in hits -> [end |-> FALSE, of |-> index[i + first - 1], numero |-> 1]
             [] i + first - 1 = Len(index) + 1 -> NADA
             [] i + first - 1 > Len(index) + 1 -> stack[i]
             [] OTHER -> [stack[i] EXCEPT !.numero = 0]) \in Slot
    <3> HIDE DEF first
    <3> SUFFICES ASSUME NEW i \in Slots
                 PROVE  (CASE i + first - 1 \in hits -> [end |-> FALSE, of |-> index[i + first - 1], numero |-> 1]
                           [] i + first - 1 = Len(index) + 1 -> NADA
                           [] i + first - 1 > Len(index) + 1 -> stack[i]
                           [] OTHER -> [stack[i] EXCEPT !.numero = 0]) \in Slot
      OBVIOUS
    <3> DEFINE n == i + first - 1
    <3>1. n \in hits => [end |-> FALSE, of |-> index[n], numero |-> 1] \in Slot
      BY <1>2, <1>4
    <3> HIDE DEF n
    <3>2. (CASE n \in hits -> [end |-> FALSE, of |-> index[n], numero |-> 1]
             [] n = Len(index) + 1 -> NADA
             [] n > Len(index) + 1 -> stack[i]
             [] OTHER -> [stack[i] EXCEPT !.numero = 0]) \in Slot
      <4>1. /\ n \in hits /\ n = Len(index) + 1 => FALSE
            /\ n \in hits /\ n > Len(index) + 1 => FALSE
            /\ n = Len(index) + 1 /\ n > Len(index) + 1 => FALSE
        BY <1>4
      <4>2. QED BY <1>1, <1>3, <3>1, <4>1
    <3>3. QED BY <3>2 DEF n
  <2>3. QED BY <2>1, <2>2
<1>7. QED BY <1>5, <1>6

LEMMA BuscarInv ==
  ASSUME LoginInv, NEW t \in Client, Buscar(t)
  PROVE  LoginInv'
<1> DEFINE k == sock[t]
           found == Answer(enviar.word, arquivos, busca[t])
           m == [kind |-> "found", body |-> found]
<1>1. /\ up /\ tpc[t] = "dispatch" /\ enviar.op = "search" /\ Uses(t) /\ Goto(t, "searched") /\ Send(k, m)
      /\ busca' = [busca EXCEPT ![t] = found]
      /\ UNCHANGED <<starts, enviar, writer, backlog, ns, sock, usuariosCad, usuarios_txt, cpc, ask, sent, told>>
      /\ UNCHANGED <<in, arqs, arquivos>>
  BY DEF Buscar, main, cli, data
<1>2. /\ "searched" \in Steps \ {"none", "start"} /\ "searched" \notin Judging /\ k \in Client
  BY <1>1 DEF LoginInv, TypeInv, ThreadTypes, Judging, Steps
<1>3. found \in [Slots -> Slot]
  BY AnswerType DEF LoginInv, TypeInv, DataTypes
<1> HIDE DEF found
<1>4. m \in Answers /\ m.kind # "auth"
  BY <1>3 DEF Answers
<1> HIDE DEF m
<1>5. /\ up' \in BOOLEAN /\ broken' \in [Client -> BOOLEAN] /\ out' \in [Client -> Seq(Answers)]
      /\ \A c \in Client \ {k} : out'[c] = out[c]
      /\ out'[k] = out[k] \/ out'[k] = Append(out[k], m)
  BY <1>1, <1>2, <1>4, SendWires
<1>6. /\ ThreadTypes' /\ tpc'[t] = "searched" /\ \A u \in Client \ {t} : tpc'[u] = tpc[u]
      /\ (mixed => mixed') /\ (~mixed' => ~mixed /\ writer = t) /\ registered' = registered
  BY <1>1, <1>2, <1>5, UsesRequest
<1>7. \A c \in Client : \A n \in DOMAIN out'[c] : out'[c][n].kind = "auth" =>
        n \in DOMAIN out[c] /\ out'[c][n] = out[c][n]
  <2>1. out[k] \in Seq(Answers)
    BY <1>2 DEF LoginInv, TypeInv, WireTypes
  <2>2. \A r : r = out[k] \/ r = Append(out[k], m) =>
          \A n \in DOMAIN r : \/ n \in DOMAIN out[k] /\ r[n] = out[k][n]
                              \/ n = Len(out[k]) + 1 /\ n \notin DOMAIN out[k] /\ r[n] = m
    BY <1>4, <2>1, OneMore
  <2>3. QED BY <1>4, <1>5, <2>2
<1>8. TypeInv'
  <2>1. DataTypes'
    BY <1>1, <1>3 DEF LoginInv, TypeInv, DataTypes
  <2>2. Typed'
    BY <1>1, <1>7 DEF LoginInv, TypeInv, Typed, Real
  <2>3. QED BY <1>1, <1>5, <1>6, <2>1, <2>2 DEF LoginInv, TypeInv, WireTypes, ClientTypes
<1>9. Links'
  <2> SUFFICES ASSUME ~mixed', NEW c \in Client, Live(c) PROVE Linked(c)'
    BY <1>1 DEF Links, Linked, Live
  <2>1. ~Busy(c)' /\ ~Busy(c)
    BY <1>1, <1>6 DEF Busy, Working, Judging
  <2>2. Linked(c)
    BY <1>6 DEF LoginInv, Links
  <2>3. /\ NoAuth(out[c]) => NoAuth(out'[c])
        /\ OneAuth(out[c], ask[c].cred) => OneAuth(out'[c], ask[c].cred)
    BY <1>7 DEF NoAuth, OneAuth
  <2>4. QED BY <1>1, <2>1, <2>2, <2>3 DEF Linked, OnWay
<1>10. Users' /\ Judged'
  BY <1>1, <1>6 DEF LoginInv, Users, Judged
<1>11. Truthful'
  <2> SUFFICES ASSUME ~mixed', NEW c \in Client, NEW n \in DOMAIN out'[c], out'[c][n].kind = "auth"
               PROVE  Verdict(out'[c][n].body.flag, out'[c][n].body.cred)
    BY <1>1 DEF Truthful, Verdict
  <2>1. QED BY <1>1, <1>6, <1>7 DEF LoginInv, Truthful
<1>12. QED BY <1>1, <1>6, <1>8, <1>9, <1>10, <1>11, ThreadKeeps

\* Requests taken from a socket leave those behind them.
LEMMA RecvFilesInv ==
  ASSUME LoginInv, NEW t \in Client, RecvFiles(t)
  PROVE  LoginInv'
<1> DEFINE k == sock[t]
<1>1. /\ up /\ tpc[t] = "files" /\ tpc' = [tpc EXCEPT ![t] = "load"]
      /\ UNCHANGED <<up, starts, enviar, writer, backlog, ns, sock, arquivos, usuariosCad, usuarios_txt>>
      /\ UNCHANGED <<busca, out, broken, cpc, ask, sent, told, mixed, registered>>
  BY DEF RecvFiles, main, cli, ghost, Goto
<1>2. k \in Client
  BY <1>1 DEF LoginInv, TypeInv, ThreadTypes
<1>3. /\ arqs' \in {arqs, [owner |-> k, whole |-> TRUE], [arqs EXCEPT !.whole = FALSE]}
      /\ \/ in' = in
         \/ in[k] # << >> /\ in' = [in EXCEPT ![k] = Tail(in[k])]
         \/ in' = [in EXCEPT ![k] = << >>]
  BY DEF RecvFiles
<1>4. in[k] \in Seq(Envelope)
  BY <1>2 DEF LoginInv, TypeInv, WireTypes
<1>5. in' \in [Client -> Seq(Envelope)] /\ \A c \in Client \ {k} : in'[c] = in[c]
  <2>1. << >> \in Seq(Envelope) /\ (in[k] # << >> => Tail(in[k]) \in Seq(Envelope))
    BY <1>4
  <2>2. PICK r \in Seq(Envelope) : in' = [in EXCEPT ![k] = r] \/ in' = in
    BY <1>3, <2>1
  <2>3. QED BY <1>2, <2>2 DEF LoginInv, TypeInv, WireTypes
<1>6. in'[k] = in[k] \/ (in[k] # << >> /\ in'[k] = Tail(in[k])) \/ in'[k] = << >>
  BY <1>2, <1>3 DEF LoginInv, TypeInv, WireTypes
<1>7. \E d \in {0, 1} : \A n \in DOMAIN in'[k] : n \in Nat /\ n + d \in DOMAIN in[k] /\ in'[k][n] = in[k][n + d]
  <2>1. CASE in'[k] = in[k]
    <3>1. \A n \in DOMAIN in'[k] : n \in Nat /\ n + 0 \in DOMAIN in[k] /\ in'[k][n] = in[k][n + 0]
      BY <1>4, <2>1
    <3>2. QED BY <3>1
  <2>2. CASE in[k] # << >> /\ in'[k] = Tail(in[k])
    <3>1. \A n \in DOMAIN Tail(in[k]) : n \in Nat /\ n + 1 \in DOMAIN in[k] /\ Tail(in[k])[n] = in[k][n + 1]
      BY <1>4, <2>2
    <3>2. QED BY <2>2, <3>1
  <2>3. CASE in'[k] = << >>
    BY <2>3
  <2>4. QED BY <1>6, <2>1, <2>2, <2>3
<1>8. TypeInv'
  <2>1. arqs' \in File
    <3>1. arqs \in File
      BY DEF LoginInv, TypeInv, DataTypes
    <3>2. [owner |-> k, whole |-> TRUE] \in File /\ [arqs EXCEPT !.whole = FALSE] \in File
      BY <1>2, <3>1 DEF File
    <3>3. QED BY <1>3, <3>1, <3>2
  <2>2. ThreadTypes'
    BY <1>1 DEF LoginInv, TypeInv, ThreadTypes, Steps, Judging
  <2>3. \A n \in DOMAIN in'[k] : in'[k][n].op = "files" \/ Real(in'[k][n])
    BY <1>2, <1>7 DEF LoginInv, TypeInv, Typed
  <2>4. Typed'
    BY <1>1, <1>5, <2>3 DEF LoginInv, TypeInv, Typed, Real
  <2>5. QED BY <1>1, <1>5, <2>1, <2>2, <2>4 DEF LoginInv, TypeInv, DataTypes, WireTypes, ClientTypes
<1>9. \A u \in Client : u # t => tpc'[u] = tpc[u]
  BY <1>1 DEF LoginInv, TypeInv, ThreadTypes
<1>10. tpc'[t] = "load"
  BY <1>1 DEF LoginInv, TypeInv, ThreadTypes
<1>11. Links'
  <2> SUFFICES ASSUME ~mixed, NEW c \in Client, Live(c) PROVE Linked(c)'
    BY <1>1 DEF Links, Linked, Live
  <2>1. Busy(c)' <=> Busy(c)
    BY <1>1, <1>9, <1>10 DEF Busy, Working, Judging
  <2>2. Linked(c)
    BY DEF LoginInv, Links
  <2>3. /\ NoLogin(in[c]) => NoLogin(in'[c])
        /\ OneLogin(in[c], ask[c].cred) => OneLogin(in'[c], ask[c].cred)
    <3>1. CASE c # k
      BY <1>5, <3>1
    <3>2. CASE c = k
      BY <1>7, <3>2 DEF NoLogin, OneLogin
    <3>3. QED BY <3>1, <3>2
  <2>4. QED BY <1>1, <2>1, <2>2, <2>3 DEF Linked, OnWay
<1>12. Users' /\ Judged' /\ Truthful'
  BY <1>1, <1>9, <1>10, TruthfulKept DEF LoginInv, Users, Judged, Verdict
<1>13. QED BY <1>1, <1>8, <1>11, <1>12, ThreadKeeps

LEMMA RecvInv ==
  ASSUME LoginInv, NEW t \in Client, Recv(t)
  PROVE  LoginInv'
<1> DEFINE k == sock[t]
<1>1. /\ up /\ tpc[t] = "recv"
      /\ UNCHANGED <<up, starts, backlog, ns, sock, arqs, arquivos, usuariosCad, usuarios_txt>>
      /\ UNCHANGED <<busca, out, broken, cpc, ask, sent, told, mixed, registered>>
  BY DEF Recv, main, cli, ghost, data
<1>2. k \in Client /\ in[k] \in Seq(Envelope)
  BY <1>1 DEF LoginInv, TypeInv, ThreadTypes, WireTypes
<1>3. Users' /\ Truthful'
  BY <1>1, TruthfulKept DEF LoginInv, Users
<1>4. CASE in[k] # << >> /\ in' = [in EXCEPT ![k] = Tail(in[k])]
  <2>1. /\ Tail(in[k]) \in Seq(Envelope) /\ 1 \in DOMAIN in[k] /\ Head(in[k]) = in[k][1] /\ in[k][1] \in Envelope
        /\ \A n \in DOMAIN Tail(in[k]) : n \in Nat \ {0} /\ n + 1 \in DOMAIN in[k] /\ Tail(in[k])[n] = in[k][n + 1]
    BY <1>2, <1>4
  <2>2. in'[k] = Tail(in[k]) /\ \A c \in Client \ {k} : in'[c] = in[c]
    BY <1>2, <1>4 DEF LoginInv, TypeInv, WireTypes
  <2>3. WireTypes'
    BY <1>1, <1>4, <2>1 DEF LoginInv, TypeInv, WireTypes
  <2>4. \A n \in DOMAIN in'[k] : in'[k][n].op = "files" \/ Real(in'[k][n])
    BY <1>2, <2>1, <2>2 DEF LoginInv, TypeInv, Typed
  <2>5. in[k][1].op = "files" \/ Real(in[k][1])
    BY <1>2, <2>1 DEF LoginInv, TypeInv, Typed
  <2>6. ASSUME NEW c \in Client
        PROVE  /\ NoLogin(in[c]) => NoLogin(in'[c])
               /\ OneLogin(in[c], ask[c].cred) => OneLogin(in'[c], ask[c].cred)
    <3>1. CASE c # k
      BY <2>2, <3>1
    <3>2. CASE c = k
      <4>1. \A n \in DOMAIN in'[c] : n \in Nat \ {0} /\ n + 1 \in DOMAIN in[c] /\ in'[c][n] = in[c][n + 1]
        BY <2>1, <2>2, <3>2
      <4>2. \A n, j \in DOMAIN in'[c] : n + 1 = j + 1 => n = j
        BY <4>1
      <4>3. QED BY <4>1, <4>2 DEF NoLogin, OneLogin
    <3>3. QED BY <3>1, <3>2
  <2>7. CASE in[k][1].op = "files"
    <3>1. tpc' = [tpc EXCEPT ![t] = "astray"] /\ UNCHANGED <<enviar, writer>>
      BY <1>4, <2>1, <2>7 DEF Recv, Goto, Real
    <3>2. tpc'[t] = "astray" /\ \A u \in Client \ {t} : tpc'[u] = tpc[u]
      BY <3>1 DEF LoginInv, TypeInv, ThreadTypes
    <3>3. ThreadTypes'
      BY <1>1, <3>1 DEF LoginInv, TypeInv, ThreadTypes, Steps, Judging
    <3>4. Typed'
      BY <1>1, <2>2, <2>4, <3>1 DEF LoginInv, TypeInv, Typed, Real
    <3>5. TypeInv'
      BY <1>1, <2>3, <3>3, <3>4 DEF LoginInv, TypeInv, DataTypes, ClientTypes
    <3>6. Links'
      <4> SUFFICES ASSUME ~mixed, NEW c \in Client, Live(c) PROVE Linked(c)'
        BY <1>1 DEF Links, Linked, Live
      <4>1. Busy(c)' <=> Busy(c)
        BY <1>1, <3>1, <3>2 DEF Busy, Working, Judging
      <4>2. Linked(c)
        BY DEF LoginInv, Links
      <4>3. OnWay(cpc[c], in[c], out[c], Busy(c), ask[c].cred) /\ enviar' = enviar
        BY <3>1, <4>2 DEF Linked
      <4>4. OnWay(cpc[c], in[c], out[c], Busy(c), ask[c].cred)'
        <5>1. UNCHANGED <<cpc, out, ask>>
          BY <1>1
        <5>2. /\ NoLogin(in[c]) => NoLogin(in'[c])
              /\ OneLogin(in[c], ask[c].cred) => OneLogin(in'[c], ask[c].cred)
          BY <2>6
        <5>3. QED BY <4>1, <4>3, <5>1, <5>2 DEF OnWay
      <4>5. QED BY <4>4 DEF Linked
    <3>7. Judged'
      BY <1>1, <3>1, <3>2 DEF LoginInv, Judged, Verdict
    <3>8. QED BY <1>1, <1>3, <3>5, <3>6, <3>7, ThreadKeeps
  <2>8. CASE in[k][1].op # "files"
    <3>1. tpc' = [tpc EXCEPT ![t] = "dispatch"] /\ enviar' = in[k][1] /\ writer' = t
      BY <1>4, <2>1, <2>8 DEF Recv, Goto
    <3>2. tpc'[t] = "dispatch" /\ \A u \in Client \ {t} : tpc'[u] = tpc[u]
      BY <3>1 DEF LoginInv, TypeInv, ThreadTypes
    <3>3. Real(enviar') /\ enviar' \in Envelope
      BY <2>1, <2>5, <2>8, <3>1
    <3>4. ThreadTypes'
      BY <1>1, <3>1, <3>3 DEF LoginInv, TypeInv, ThreadTypes, Steps, Judging, Real
    <3>5. Typed'
      BY <1>1, <2>2, <2>4, <3>3 DEF LoginInv, TypeInv, Typed, Real
    <3>6. TypeInv'
      BY <1>1, <2>3, <3>4, <3>5 DEF LoginInv, TypeInv, DataTypes, ClientTypes
    <3>7. \A c \in Client : Busy(c)' <=> c = k /\ enviar'.op = "login"
      BY <1>1, <1>2, <3>1, <3>2 DEF Busy, Working, Judging
    <3>8. Links'
      <4> SUFFICES ASSUME ~mixed, NEW c \in Client, Live(c) PROVE Linked(c)'
        BY <1>1 DEF Links, Linked, Live
      <4>1. Linked(c)
        BY DEF LoginInv, Links
      <4>2. CASE c = k /\ enviar'.op = "login"
        <5>1. ~NoLogin(in[c])
          BY <2>1, <3>1, <4>2 DEF NoLogin
        <5>2. cpc[c] = "auth" /\ OneLogin(in[c], ask[c].cred) /\ NoAuth(out[c])
          BY <4>1, <5>1 DEF Linked, OnWay
        <5>3. NoLogin(in'[c]) /\ enviar'.cred = ask[c].cred
          <6>1. \A n \in DOMAIN in'[c] : n + 1 # 1 /\ n + 1 \in DOMAIN in[c] /\ in'[c][n] = in[c][n + 1]
            <7>1. in'[c] = Tail(in[k]) /\ in[c] = in[k]
              BY <2>2, <4>2
            <7>2. QED BY <2>1, <7>1
          <6>2. in[c][1].op = "login" /\ 1 \in DOMAIN in[c]
            BY <2>1, <3>1, <4>2
          <6>3. NoLogin(in'[c])
            BY <5>2, <6>1, <6>2 DEF NoLogin, OneLogin
          <6>4. enviar'.cred = ask[c].cred
            BY <3>1, <4>2, <5>2, <6>2 DEF OneLogin
          <6>5. QED BY <6>3, <6>4
        <5>4. Busy(c)'
          BY <3>7, <4>2
        <5>5. QED BY <1>1, <5>2, <5>3, <5>4 DEF Linked, OnWay
      <4>3. CASE ~(c = k /\ enviar'.op = "login")
        <5>1. ~Busy(c)'
          BY <3>7, <4>3
        <5>2. OnWay(cpc[c], in[c], out[c], Busy(c), ask[c].cred)
          BY <4>1 DEF Linked
        <5>3. OnWay(cpc[c], in[c], out[c], Busy(c), ask[c].cred)'
          <6>1. UNCHANGED <<cpc, out, ask>>
            BY <1>1
          <6>2. /\ NoLogin(in[c]) => NoLogin(in'[c])
                /\ OneLogin(in[c], ask[c].cred) => OneLogin(in'[c], ask[c].cred)
            BY <2>6
          <6>3. QED BY <5>1, <5>2, <6>1, <6>2 DEF OnWay
        <5>4. QED BY <5>3 DEF Linked
      <4>4. QED BY <4>2, <4>3
    <3>9. Judged'
      BY <3>1, <3>2 DEF Judged
    <3>10. QED BY <1>1, <1>3, <3>6, <3>8, <3>9, ThreadKeeps
  <2>9. QED BY <2>7, <2>8
<1>5. CASE in[k] = << >> /\ Closed(k) /\ Goto(t, "dispatch") /\ UNCHANGED <<enviar, writer, in>>
  <2>1. tpc' = [tpc EXCEPT ![t] = "dispatch"] /\ cpc[k] = "end" /\ UNCHANGED <<enviar, writer, in>>
    BY <1>5 DEF Goto, Closed
  <2>2. tpc'[t] = "dispatch" /\ \A u \in Client \ {t} : tpc'[u] = tpc[u]
    BY <2>1 DEF LoginInv, TypeInv, ThreadTypes
  <2>3. ThreadTypes'
    BY <1>1, <2>1 DEF LoginInv, TypeInv, ThreadTypes, Steps, Judging
  <2>4. TypeInv'
    BY <1>1, <2>1, <2>3 DEF LoginInv, TypeInv, DataTypes, WireTypes, ClientTypes, Typed, Real
  <2>5. Links'
    <3> SUFFICES ASSUME ~mixed, NEW c \in Client, Live(c) PROVE Linked(c)'
      BY <1>1 DEF Links, Linked, Live
    <3>1. c # k
      BY <2>1 DEF Live
    <3>2. Busy(c)' <=> Busy(c)
      BY <1>1, <2>1, <2>2, <3>1 DEF Busy, Working, Judging
    <3>3. Linked(c)
      BY DEF LoginInv, Links
    <3>4. QED BY <1>1, <2>1, <3>2, <3>3 DEF Linked, OnWay
  <2>6. Judged'
    BY <1>1, <2>1, <2>2 DEF LoginInv, Judged, Verdict
  <2>7. QED BY <1>1, <1>3, <2>4, <2>5, <2>6, ThreadKeeps
<1>6. QED BY <1>4, <1>5 DEF Recv

-----------------------------------------------------------------------------
LEMMA LoginInit == Init => LoginInv
<1> SUFFICES ASSUME Init PROVE LoginInv
  OBVIOUS
<1>1. << >> \in Seq(Client) /\ << >> \in Seq(Envelope) /\ << >> \in Seq(Answers) /\ << >> \in Seq(File)
      /\ << >> \in Seq(Cred) /\ DOMAIN << >> = {} /\ Len(<< >>) = 0
  OBVIOUS
<1>2. Idle \in Envelope /\ Idle.op = "none" /\ NoFiles \in File /\ Stack \in [Slots -> Slot]
  BY DEF Idle, Envelope, Ops, Flags, NoFiles, File, Stack, Junk, Slot
<1>3. ThreadTypes
  <2>1. 1 \in 1..MaxStarts
    OBVIOUS
  <2>2. tpc \in [Client -> Steps] /\ sock \in [Client -> Client \cup {None}] /\ \A t \in Client : tpc[t] = "none"
    BY DEF Init, All, Steps
  <2>3. QED BY <1>1, <1>2, <2>1, <2>2 DEF Init, ThreadTypes, Judging
<1>4. DataTypes /\ WireTypes /\ ClientTypes
  BY <1>1, <1>2 DEF Init, DataTypes, WireTypes, ClientTypes, All, Places
<1>5. Typed
  BY <1>1, <1>2 DEF Init, Typed, All
<1>6. Links
  BY <1>1 DEF Init, Links, Linked, OnWay, NoLogin, NoAuth, Busy, Working, Judging, All
<1>7. Users /\ RegisteredSurvives
  BY <1>1 DEF Init, Users, UniqueNames, Range, RegisteredSurvives
<1>8. Judged /\ Truthful /\ Believed
  BY <1>1 DEF Init, Judged, Truthful, Believed, All
<1>9. QED BY <1>3, <1>4, <1>5, <1>6, <1>7, <1>8 DEF LoginInv, TypeInv

LEMMA RestartInv ==
  ASSUME LoginInv, Restart
  PROVE  LoginInv'
<1>1. /\ starts < MaxStarts /\ up' = TRUE /\ starts' = starts + 1
      /\ usuariosCad' = Reverse(usuarios_txt) /\ enviar' = Idle /\ writer' = None
      /\ arqs' = NoFiles /\ arquivos' = << >> /\ backlog' = << >> /\ ns' = None
      /\ tpc' = All("none") /\ sock' = All(None) /\ busca' = All(Stack)
      /\ in' = All(<< >>) /\ out' = All(<< >>) /\ broken' = All(FALSE)
      /\ cpc' = All("out") /\ ask' = All(Idle) /\ sent' = All(0) /\ told' = All(None)
      /\ UNCHANGED <<usuarios_txt, mixed, registered>>
  BY DEF Restart, ghost
<1>2. << >> \in Seq(Client) /\ << >> \in Seq(Envelope) /\ << >> \in Seq(Answers) /\ << >> \in Seq(File)
      /\ DOMAIN << >> = {} /\ Len(<< >>) = 0
  OBVIOUS
<1>3. Idle \in Envelope /\ Idle.op = "none" /\ NoFiles \in File /\ Stack \in [Slots -> Slot]
  BY DEF Idle, Envelope, Ops, Flags, NoFiles, File, Stack, Junk, Slot
<1>4. usuarios_txt \in Seq(Cred)
  BY DEF LoginInv, TypeInv, DataTypes
<1>5. /\ usuariosCad' \in Seq(Cred) /\ Range(usuariosCad') = Range(usuarios_txt)
      /\ UniqueNames(usuarios_txt) => UniqueNames(usuariosCad')
  BY <1>1, <1>4, Reversed
<1>6. ThreadTypes'
  <2>1. starts' \in 1..MaxStarts /\ mixed \in BOOLEAN
    BY <1>1 DEF LoginInv, TypeInv, ThreadTypes
  <2>2. QED BY <1>1, <1>2, <1>3, <2>1 DEF ThreadTypes, All, Steps, Judging
<1>7. DataTypes' /\ WireTypes' /\ ClientTypes'
  BY <1>1, <1>2, <1>3, <1>4, <1>5 DEF DataTypes, WireTypes, ClientTypes, All, Places
<1>8. Typed'
  BY <1>1, <1>2, <1>3 DEF Typed, All
<1>9. Links'
  BY <1>1, <1>2 DEF Links, Linked, OnWay, NoLogin, NoAuth, Busy, Working, Judging, All
<1>10. Users' /\ RegisteredSurvives'
  BY <1>1, <1>5 DEF LoginInv, Users, RegisteredSurvives
<1>11. Judged' /\ Truthful' /\ Believed'
  BY <1>1, <1>2 DEF Judged, Truthful, Believed, All
<1>12. QED BY <1>6, <1>7, <1>8, <1>9, <1>10, <1>11 DEF LoginInv, TypeInv

LEMMA LoginNext ==
  ASSUME LoginInv, [Next]_vars
  PROVE  LoginInv'
<1>1. CASE Kill \/ UNCHANGED vars
  <2>1. /\ UNCHANGED <<starts, enviar, writer, arqs, arquivos, usuariosCad, usuarios_txt, backlog, ns>>
        /\ UNCHANGED <<tpc, sock, busca, in, out, broken, cpc, ask, sent, told, mixed, registered>>
        /\ up' \in BOOLEAN /\ (up' => up)
    <3>1. CASE Kill
      BY <3>1 DEF Kill, data, main, net, cli, ghost
    <3>2. CASE UNCHANGED vars
      BY <3>2 DEF vars, data, main, net, cli, ghost, LoginInv, TypeInv, ThreadTypes
    <3>3. QED BY <1>1, <3>1, <3>2
  <2>2. TypeInv'
    BY <2>1 DEF LoginInv, TypeInv, ThreadTypes, DataTypes, WireTypes, ClientTypes, Typed, Real
  <2>3. Links'
    BY <2>1, LinksKept DEF Working
  <2>4. Users' /\ Judged' /\ Truthful'
    BY <2>1, TruthfulKept DEF LoginInv, Users, Judged, Verdict
  <2>5. QED BY <2>1, <2>2, <2>3, <2>4, ThreadKeeps
<1>2. CASE Accept \/ Restart
  BY <1>2, Arrives, RestartInv
<1>3. ASSUME NEW t \in Client, Thread(t) PROVE LoginInv'
  BY <1>3, Arrives, RecvInv, AuthenticateInv, AddUserInv, SaveUserInv, ReplyInv, BuscarInv,
     AfterwardsInv, RecvFilesInv DEF Thread
<1>4. ASSUME NEW c \in Client, ClientStep(c) PROVE LoginInv'
  BY <1>4, ClientInv
<1>5. QED BY <1>1, <1>2, <1>3, <1>4 DEF Next

LEMMA LoginTypes == LoginInv => TypeOK
<1> SUFFICES ASSUME LoginInv PROVE TypeOK
  OBVIOUS
<1>1. Range(usuariosCad) \subseteq Cred /\ Range(usuarios_txt) \subseteq Cred
  BY DEF LoginInv, TypeInv, DataTypes, Range
<1>2. enviar.flag \in {0, 1, 2, 9, 1000}
  BY DEF LoginInv, TypeInv, ThreadTypes, Envelope, Flags
<1>3. QED BY <1>1, <1>2 DEF LoginInv, TypeInv, ThreadTypes, DataTypes, WireTypes, ClientTypes, TypeOK

\* A user confirmed as new is registered for good, through any number of kills
\* between any two steps, and also if threads mix up requests afterwards.
THEOREM ConfirmedForGood == Spec => []RegisteredSurvives
<1>1. LoginInv => RegisteredSurvives
  BY DEF LoginInv
<1>2. QED BY <1>1, LoginInit, LoginNext, PTL DEF Spec

\* Until a thread uses a request that another one received, clients are told the
\* truth about their login, although two threads may read one socket.
THEOREM LoginsAreJudgedRightly == Spec => []LoginRight
<1>1. LoginInv => LoginRight
  <2> SUFFICES ASSUME LoginInv PROVE LoginRight
    OBVIOUS
  <2>1. TypeOK
    BY LoginTypes
  <2>2. up /\ ~mixed => UniqueNames(usuariosCad)
    BY DEF LoginInv, Users
  <2>3. ASSUME up, ~mixed, NEW c \in Client, told[c] # None
        PROVE  IF told[c].flag = 1
                 THEN \E u \in Range(usuariosCad) : u.user = told[c].cred.user /\ u.senha # told[c].cred.senha
                 ELSE told[c].cred \in Range(usuariosCad)
    BY <2>3 DEF LoginInv, Believed, Verdict
  <2>4. QED BY <2>1, <2>2, <2>3 DEF LoginRight, UniqueNames
<1>2. QED BY <1>1, LoginInit, LoginNext, PTL DEF Spec

-----------------------------------------------------------------------------
(* A search on its way, from the request to what is displayed.              *)

\* The thread at work on a search it received itself.
Searching(t) == writer = t /\ tpc[t] = "dispatch" /\ enviar.op = "search"
Wanted(k)    == \E t \in Client : Searching(t) /\ sock[t] = k

\* All that is displayed of an answer matches.
Fits(word, found) == \A e \in Displayed(found) : Matches(word, e)

NoSearch(s) == \A n \in DOMAIN s : s[n].op # "search"
NoFound(s)  == \A n \in DOMAIN s : s[n].kind # "found"
OneSearch(s, word) ==
  /\ \A n \in DOMAIN s : s[n].op = "search" => s[n].word = word
  /\ \A n, m \in DOMAIN s : s[n].op = "search" /\ s[m].op = "search" => n = m
OneFound(s, word) ==
  /\ \A n \in DOMAIN s : s[n].kind = "found" => Fits(word, s[n].body)
  /\ \A n, m \in DOMAIN s : s[n].kind = "found" /\ s[m].kind = "found" => n = m

\* A client has one search under way at most, and waits for its answer: it is a
\* request on the wire, or with the thread that received it, or an answer that
\* fits the keyword the client remembers.
Pending(place, i, o, wanted, word) ==
  \/ NoSearch(i) /\ NoFound(o) /\ ~wanted
  \/ place = "found" /\ OneSearch(i, word) /\ NoFound(o) /\ ~wanted
  \/ place = "found" /\ NoSearch(i) /\ NoFound(o) /\ wanted /\ enviar.word = word
  \/ place = "found" /\ NoSearch(i) /\ OneFound(o, word) /\ ~wanted

Sought(k) == Live(k) => Pending(cpc[k], in[k], out[k], Wanted(k), ask[k].word)

SearchInv ==
  /\ ~mixed => \A k \in Client : Sought(k)
  /\ DOMAIN shown = Client /\ shown = [c \in Client |-> shown[c]]
  /\ ShownMatch

\* Taking the first message away, and adding one at the end.
LEMMA ShorterSearch ==
  ASSUME NEW S, NEW s \in Seq(S), s # << >>, NEW word
  PROVE  /\ NoSearch(s) => NoSearch(Tail(s))
         /\ OneSearch(s, word) => OneSearch(Tail(s), word)
         /\ NoFound(s) => NoFound(Tail(s))
         /\ OneFound(s, word) => OneFound(Tail(s), word)
<1>1. \A n \in DOMAIN Tail(s) : n \in Nat /\ n + 1 \in DOMAIN s /\ Tail(s)[n] = s[n + 1]
  OBVIOUS
<1>2. \A n, m \in DOMAIN Tail(s) : n + 1 = m + 1 => n = m
  BY <1>1
<1>3. QED BY <1>1, <1>2 DEF NoSearch, OneSearch, NoFound, OneFound

LEMMA FirstSearch ==
  ASSUME NEW S, NEW s \in Seq(S), s # << >>, NEW word
  PROVE  /\ Head(s) \in S /\ 1 \in DOMAIN s /\ Head(s) = s[1]
         /\ OneSearch(s, word) /\ Head(s).op = "search" =>
              NoSearch(Tail(s)) /\ Head(s).word = word
         /\ OneFound(s, word) /\ Head(s).kind = "found" =>
              NoFound(Tail(s)) /\ Fits(word, Head(s).body)
<1>1. /\ \A n \in DOMAIN Tail(s) : n \in Nat \ {0} /\ n + 1 \in DOMAIN s /\ Tail(s)[n] = s[n + 1]
      /\ Head(s) \in S /\ 1 \in DOMAIN s /\ Head(s) = s[1]
  OBVIOUS
<1>2. \A n \in DOMAIN Tail(s) : n + 1 # 1
  BY <1>1
<1>3. QED BY <1>1, <1>2 DEF NoSearch, OneSearch, NoFound, OneFound

LEMMA LongerSearch ==
  ASSUME NEW S, NEW s \in Seq(S), NEW x \in S, NEW word
  PROVE  /\ NoSearch(s) /\ x.op # "search" => NoSearch(Append(s, x))
         /\ OneSearch(s, word) /\ x.op # "search" => OneSearch(Append(s, x), word)
         /\ NoSearch(s) /\ x.word = word => OneSearch(Append(s, x), word)
         /\ NoFound(s) /\ x.kind # "found" => NoFound(Append(s, x))
         /\ OneFound(s, word) /\ x.kind # "found" => OneFound(Append(s, x), word)
         /\ NoFound(s) /\ Fits(word, x.body) => OneFound(Append(s, x), word)
BY Queues DEF NoSearch, OneSearch, NoFound, OneFound

\* Whatever the stack held, all that is displayed of an answer of buscar
\* matches: the mark NADA comes within the stack, and what is passed over before
\* it has no file.
LEMMA AnswerFits ==
  ASSUME NEW word, NEW index \in Seq(File), Len(index) <= IndexCap, NEW stack \in [Slots -> Slot]
  PROVE  Fits(word, Answer(word, index, stack))
<1> DEFINE hits  == {i \in DOMAIN index : Matches(word, index[i])}
           first == CHOOSE i \in hits : \A j \in hits : i <= j
           found == Answer(word, index, stack)
<1>1. SUFFICES ASSUME NEW i \in Slots, found[i].numero > 0, \A h \in 1..i : ~found[h].end
               PROVE  Matches(word, found[i].of)
  BY DEF Fits, Displayed
<1>2. Len(index) \in Nat /\ DOMAIN index = 1..Len(index) /\ IndexCap \in Nat
  BY LenProperties
<1>3. i \in Nat /\ i >= 1 /\ i <= IndexCap + 1 /\ 1 \in Slots
  BY <1>2 DEF Slots
<1>4. CASE hits = {}
  <2>1. found = [stack EXCEPT ![1] = NADA]
    BY <1>4 DEF Answer
  <2>2. found[1].end
    BY <1>3, <2>1 DEF NADA, Junk
  <2>3. 1 \in 1..i
    BY <1>3
  <2>4. QED BY <1>1, <2>2, <2>3
<1>5. CASE hits # {}
  <2>1. hits \subseteq Nat /\ hits \subseteq 1..Len(index)
    BY <1>2
  <2> HIDE DEF hits
  <2>2. PICK x \in hits : \A y \in hits : <<y, x>> \notin OpToRel(<, Nat)
    BY <1>5, <2>1, NatLessThanWellFounded, WFMin
  <2>3. \A y \in hits : x <= y
    <3>1. \A y \in hits : ~(y < x)
      BY <2>1, <2>2 DEF OpToRel
    <3>2. QED BY <2>1, <3>1
  <2>4. first \in hits
    BY <2>3
  <2> HIDE DEF first
  <2>5. found = [j \in Slots |->
              CASE j + first - 1 \in hits -> [end |-> FALSE, of |-> index[j + first - 1], numero |-> 1]
                [] j + first - 1 = Len(index) + 1 -> NADA
                [] j + first - 1 > Len(index) + 1 -> stack[j]
                [] OTHER -> [stack[j] EXCEPT !.numero = 0]]
    BY <1>5 DEF Answer, hits, first
  <2> HIDE DEF found
  <2>6. first \in 1..Len(index)
    BY <2>1, <2>4
  <2> DEFINE p == Len(index) + 2 - first
  <2>7. /\ p \in Nat /\ p >= 1 /\ p \in Slots /\ p + first - 1 = Len(index) + 1
        /\ p + first - 1 \notin hits
    BY <1>2, <2>1, <2>6 DEF Slots
  <2>8. found[p].end
    <3>1. found[p] = NADA
      BY <2>5, <2>7
    <3>2. QED BY <3>1 DEF NADA, Junk
  <2>9. i < p
    <3>1. p \notin 1..i
      BY <1>1, <2>8
    <3>2. QED BY <1>3, <2>7, <3>1
  <2>10. i + first - 1 <= Len(index) /\ i + first - 1 \in Nat
    BY <1>2, <1>3, <2>6, <2>9
  <2>11. CASE i + first - 1 \in hits
    <3>1. found[i] = [end |-> FALSE, of |-> index[i + first - 1], numero |-> 1]
      BY <1>2, <2>1, <2>5, <2>7, <2>11
    <3>2. QED BY <2>11, <3>1 DEF hits
  <2>12. CASE i + first - 1 \notin hits
    <3>1. ~(i + first - 1 = Len(index) + 1) /\ ~(i + first - 1 > Len(index) + 1)
      BY <1>2, <2>10
    <3>2. found[i] = [stack[i] EXCEPT !.numero = 0]
      BY <2>5, <2>12, <3>1
    <3>3. found[i].numero = 0
      BY <3>2 DEF Slot
    <3>4. QED BY <1>1, <3>3
  <2>13. QED BY <2>11, <2>12
<1>6. QED BY <1>4, <1>5

\* A search stays where it is: nobody takes it up, and it is not answered.
LEMMA SoughtKept ==
  ASSUME NEW c, Sought(c), cpc'[c] = cpc[c], ask'[c] = ask[c],
         NoSearch(in[c]) => NoSearch(in'[c]),
         OneSearch(in[c], ask[c].word) => OneSearch(in'[c], ask[c].word),
         NoFound(out[c]) => NoFound(out'[c]),
         OneFound(out[c], ask[c].word) => OneFound(out'[c], ask[c].word),
         Wanted(c)' => Wanted(c) /\ enviar'.word = enviar.word
  PROVE  Sought(c)'
<1> SUFFICES ASSUME Live(c)'
             PROVE  Pending(cpc[c], in[c], out[c], Wanted(c), ask[c].word)'
  BY DEF Sought
<1>1. Pending(cpc[c], in[c], out[c], Wanted(c), ask[c].word)
  BY DEF Sought, Live
<1>2. QED BY <1>1 DEF Pending

\* A step of the server that no client sees.
LEMMA SearchKept ==
  ASSUME SearchInv, UNCHANGED <<cpc, ask, shown>>, mixed => mixed',
         ~mixed' => \A c \in Client :
           /\ NoSearch(in[c]) => NoSearch(in'[c])
           /\ OneSearch(in[c], ask[c].word) => OneSearch(in'[c], ask[c].word)
           /\ NoFound(out[c]) => NoFound(out'[c])
           /\ OneFound(out[c], ask[c].word) => OneFound(out'[c], ask[c].word)
           /\ Wanted(c)' => Wanted(c) /\ enviar'.word = enviar.word
  PROVE  SearchInv'
<1>1. ASSUME ~mixed', NEW c \in Client PROVE Sought(c)'
  <2>1. Sought(c)
    BY <1>1 DEF SearchInv
  <2>2. QED BY <1>1, <2>1, SoughtKept
<1>2. ShownMatch'
  BY DEF SearchInv, ShownMatch
<1>3. QED BY <1>1, <1>2 DEF SearchInv

LEMMA ThreadElseSearch ==
  ASSUME LoginInv, SearchInv, NEW t \in Client,
         \/ ThreadStart(t) \/ Authenticate(t) \/ AddUser(t) \/ SaveUser(t) \/ Searched(t)
         \/ Other(t) \/ Test(t) \/ LoadFiles(t)
  PROVE  SearchInv'
<1>1. UNCHANGED <<cpc, ask, shown, in, out, writer>>
  BY DEF ThreadStart, Authenticate, AddUser, SaveUser, Searched, Other, Test, LoadFiles, net, cli
<1>2. mixed => mixed'
  BY DEF ThreadStart, Authenticate, AddUser, SaveUser, Searched, Other, Test, LoadFiles, Uses, ghost
<1>3. enviar' = enviar \/ \E f \in Flags : enviar' = [enviar EXCEPT !.flag = f]
  BY DEF ThreadStart, Authenticate, AddUser, SaveUser, Searched, Other, Test, LoadFiles, Flags
<1>4. enviar'.op = enviar.op /\ enviar'.word = enviar.word
  BY <1>3 DEF LoginInv, TypeInv, ThreadTypes, Envelope
<1>5. \/ tpc[t] = "start" /\ tpc' = [tpc EXCEPT ![t] = "recv"] /\ sock' = [sock EXCEPT ![t] = ns]
      \/ sock' = sock /\ \E l \in Steps \ {"dispatch"} : tpc' = [tpc EXCEPT ![t] = l]
  BY DEF ThreadStart, Authenticate, AddUser, SaveUser, Searched, Other, Test, LoadFiles, Goto, Steps
<1>6. \A u \in Client : tpc'[u] = "dispatch" => tpc[u] = "dispatch" /\ sock'[u] = sock[u]
  BY <1>5 DEF LoginInv, TypeInv, ThreadTypes
<1>7. \A c \in Client : Wanted(c)' => Wanted(c)
  BY <1>1, <1>4, <1>6 DEF Wanted, Searching
<1>8. QED BY <1>1, <1>2, <1>4, <1>7, SearchKept

LEMMA ReplySearch ==
  ASSUME LoginInv, SearchInv, NEW t \in Client, Reply(t)
  PROVE  SearchInv'
<1> DEFINE k == sock[t]
           m == [kind |-> "auth", body |-> enviar]
<1>1. /\ tpc[t] = "reply" /\ Uses(t) /\ Goto(t, "test") /\ Send(k, m)
      /\ UNCHANGED <<enviar, writer, sock, cpc, ask, shown, in>>
  BY DEF Reply, cli
<1>2. k \in Client /\ m \in Answers /\ m.kind # "found"
  BY <1>1 DEF LoginInv, TypeInv, ThreadTypes, Answers, Judging
<1> HIDE DEF m
<1>3. /\ \A c \in Client \ {k} : out'[c] = out[c]
      /\ out'[k] = out[k] \/ out'[k] = Append(out[k], m)
  BY <1>1, <1>2, SendWires
<1>4. ASSUME NEW c \in Client
      PROVE  /\ NoFound(out[c]) => NoFound(out'[c])
             /\ OneFound(out[c], ask[c].word) => OneFound(out'[c], ask[c].word)
  <2>1. out[c] \in Seq(Answers)
    BY DEF LoginInv, TypeInv, WireTypes
  <2>2. out'[c] = out[c] \/ out'[c] = Append(out[c], m)
    BY <1>3
  <2>3. /\ NoFound(out[c]) => NoFound(Append(out[c], m))
        /\ OneFound(out[c], ask[c].word) => OneFound(Append(out[c], m), ask[c].word)
    BY <1>2, <2>1, LongerSearch
  <2>4. CASE out'[c] = out[c]
    BY <2>4
  <2>5. CASE out'[c] = Append(out[c], m)
    BY <2>3, <2>5
  <2>6. QED BY <2>2, <2>4, <2>5
<1>5. tpc' = [tpc EXCEPT ![t] = "test"] /\ (mixed => mixed')
  BY <1>1 DEF Goto, Uses
<1>6. \A c \in Client : Wanted(c)' => Wanted(c)
  BY <1>1, <1>5 DEF Wanted, Searching, LoginInv, TypeInv, ThreadTypes
<1>7. QED BY <1>1, <1>4, <1>5, <1>6, SearchKept

\* The answer goes to the client that waits for it, and fits what it asked.
LEMMA BuscarSearch ==
  ASSUME LoginInv, SearchInv, NEW t \in Client, Buscar(t)
  PROVE  SearchInv'
<1> DEFINE k == sock[t]
           found == Answer(enviar.word, arquivos, busca[t])
           m == [kind |-> "found", body |-> found]
<1>1. /\ up /\ tpc[t] = "dispatch" /\ enviar.op = "search" /\ Uses(t) /\ Goto(t, "searched") /\ Send(k, m)
      /\ UNCHANGED <<enviar, writer, sock, cpc, ask, shown, in>>
  BY DEF Buscar, cli
<1>2. k \in Client
  BY <1>1 DEF LoginInv, TypeInv, ThreadTypes
<1>3. found \in [Slots -> Slot] /\ Fits(enviar.word, found)
  BY AnswerType, AnswerFits DEF LoginInv, TypeInv, DataTypes
<1> HIDE DEF found
<1>4. m \in Answers /\ m.kind = "found" /\ m.body = found
  BY <1>3 DEF Answers
<1> HIDE DEF m
<1>5. /\ \A c \in Client \ {k} : out'[c] = out[c]
      /\ out'[k] = out[k] \/ out'[k] = Append(out[k], m)
  BY <1>1, <1>2, <1>4, SendWires
<1>6. tpc' = [tpc EXCEPT ![t] = "searched"] /\ (mixed => mixed') /\ (~mixed' => writer = t)
  BY <1>1 DEF Goto, Uses
<1>7. \A u \in Client : Searching(u)' => u # t /\ Searching(u)
  BY <1>1, <1>6 DEF Searching, LoginInv, TypeInv, ThreadTypes
<1>8. ASSUME ~mixed' PROVE \A c \in Client : ~Wanted(c)'
  BY <1>1, <1>6, <1>7, <1>8 DEF Wanted, Searching
<1>9. ASSUME ~mixed', NEW c \in Client PROVE Sought(c)'
  <2>1. Sought(c)
    BY <1>6, <1>9 DEF SearchInv
  <2>2. CASE c # k
    <3>1. out'[c] = out[c]
      BY <1>5, <2>2
    <3>2. QED BY <1>1, <1>8, <1>9, <2>1, <3>1, SoughtKept
  <2>3. CASE c = k
    <3> SUFFICES ASSUME Live(c) PROVE Sought(c)'
      BY <1>1 DEF Sought, Live
    <3>1. Wanted(c)
      BY <1>1, <1>6, <1>9, <2>3 DEF Wanted, Searching
    <3>2. cpc[c] = "found" /\ NoSearch(in[c]) /\ NoFound(out[c]) /\ enviar.word = ask[c].word
      BY <2>1, <3>1 DEF Sought, Pending
    <3>3. out[c] \in Seq(Answers)
      BY DEF LoginInv, TypeInv, WireTypes
    <3>4. OneFound(Append(out[c], m), ask[c].word)
      BY <1>3, <1>4, <3>2, <3>3, LongerSearch
    <3>5. NoFound(out'[c]) \/ OneFound(out'[c], ask[c].word)
      BY <1>5, <2>3, <3>2, <3>4
    <3>6. ~Wanted(c)'
      BY <1>8, <1>9
    <3>7. QED BY <1>1, <3>2, <3>5, <3>6 DEF Sought, Pending
  <2>4. QED BY <2>2, <2>3
<1>10. ShownMatch'
  BY <1>1, <1>6 DEF SearchInv, ShownMatch
<1>11. QED BY <1>1, <1>9, <1>10 DEF SearchInv

LEMMA RecvFilesSearch ==
  ASSUME LoginInv, SearchInv, NEW t \in Client, RecvFiles(t)
  PROVE  SearchInv'
<1> DEFINE k == sock[t]
<1>1. /\ tpc[t] = "files" /\ tpc' = [tpc EXCEPT ![t] = "load"]
      /\ UNCHANGED <<enviar, writer, sock, cpc, ask, shown, out, mixed>>
  BY DEF RecvFiles, cli, ghost, Goto
<1>2. k \in Client
  BY <1>1 DEF LoginInv, TypeInv, ThreadTypes
<1>3. \/ in' = in
      \/ in[k] # << >> /\ in' = [in EXCEPT ![k] = Tail(in[k])]
      \/ in' = [in EXCEPT ![k] = << >>]
  BY DEF RecvFiles
<1>4. ASSUME NEW c \in Client
      PROVE  /\ NoSearch(in[c]) => NoSearch(in'[c])
             /\ OneSearch(in[c], ask[c].word) => OneSearch(in'[c], ask[c].word)
  <2>1. in[c] \in Seq(Envelope)
    BY DEF LoginInv, TypeInv, WireTypes
  <2>2. in'[c] = in[c] \/ (in[c] # << >> /\ in'[c] = Tail(in[c])) \/ in'[c] = << >>
    BY <1>2, <1>3 DEF LoginInv, TypeInv, WireTypes
  <2>3. NoSearch(<< >>) /\ OneSearch(<< >>, ask[c].word)
    BY DEF NoSearch, OneSearch
  <2>4. QED BY <2>1, <2>2, <2>3, ShorterSearch
<1>5. \A c \in Client : Wanted(c)' => Wanted(c)
  BY <1>1 DEF Wanted, Searching, LoginInv, TypeInv, ThreadTypes
<1>6. QED BY <1>1, <1>4, <1>5, SearchKept

LEMMA RecvSearch ==
  ASSUME LoginInv, SearchInv, NEW t \in Client, Recv(t)
  PROVE  SearchInv'
<1> DEFINE k == sock[t]
<1>1. tpc[t] = "recv" /\ UNCHANGED <<sock, out, cpc, ask, shown, mixed>>
  BY DEF Recv, cli, ghost
<1>2. k \in Client /\ in[k] \in Seq(Envelope)
  BY <1>1 DEF LoginInv, TypeInv, ThreadTypes, WireTypes
<1>3. ShownMatch'
  BY <1>1 DEF SearchInv, ShownMatch
<1>4. CASE in[k] # << >> /\ in' = [in EXCEPT ![k] = Tail(in[k])]
  <2>1. in'[k] = Tail(in[k]) /\ \A c \in Client \ {k} : in'[c] = in[c]
    BY <1>2, <1>4 DEF LoginInv, TypeInv, WireTypes
  <2>2. ASSUME NEW c \in Client
        PROVE  /\ NoSearch(in[c]) => NoSearch(in'[c])
               /\ OneSearch(in[c], ask[c].word) => OneSearch(in'[c], ask[c].word)
    BY <1>2, <1>4, <2>1, ShorterSearch
  <2>3. CASE Head(in[k]).op = "files"
    <3>1. tpc' = [tpc EXCEPT ![t] = "astray"] /\ UNCHANGED <<enviar, writer>>
      BY <1>4, <2>3 DEF Recv, Goto
    <3>2. \A c \in Client : Wanted(c)' => Wanted(c)
      BY <1>1, <3>1 DEF Wanted, Searching, LoginInv, TypeInv, ThreadTypes
    <3>3. QED BY <1>1, <2>2, <3>1, <3>2, SearchKept
  <2>4. CASE Head(in[k]).op # "files"
    <3>1. tpc' = [tpc EXCEPT ![t] = "dispatch"] /\ enviar' = Head(in[k]) /\ writer' = t
      BY <1>4, <2>4 DEF Recv, Goto
    <3>2. \A c \in Client : Wanted(c)' <=> c = k /\ Head(in[k]).op = "search"
      BY <1>1, <1>2, <3>1 DEF Wanted, Searching, LoginInv, TypeInv, ThreadTypes
    <3>3. ASSUME ~mixed', NEW c \in Client PROVE Sought(c)'
      <4>1. Sought(c)
        BY <1>1, <3>3 DEF SearchInv
      <4>2. CASE ~Wanted(c)'
        BY <1>1, <2>2, <4>1, <4>2, SoughtKept
      <4>3. CASE Wanted(c)'
        <5> SUFFICES ASSUME Live(c) PROVE Sought(c)'
          BY <1>1 DEF Sought, Live
        <5>1. c = k /\ Head(in[c]).op = "search"
          BY <3>2, <4>3
        <5>2. Head(in[c]) = in[c][1] /\ 1 \in DOMAIN in[c]
          BY <1>2, <1>4, <5>1, FirstSearch
        <5>3. ~NoSearch(in[c])
          BY <5>1, <5>2 DEF NoSearch
        <5>4. cpc[c] = "found" /\ OneSearch(in[c], ask[c].word) /\ NoFound(out[c])
          BY <4>1, <5>3 DEF Sought, Pending
        <5>5. NoSearch(in'[c]) /\ enviar'.word = ask[c].word
          BY <1>2, <1>4, <2>1, <3>1, <5>1, <5>4, FirstSearch
        <5>6. QED BY <1>1, <4>3, <5>4, <5>5 DEF Sought, Pending
      <4>4. QED BY <4>2, <4>3
    <3>4. QED BY <1>1, <1>3, <3>3 DEF SearchInv
  <2>5. QED BY <2>3, <2>4
<1>5. CASE in[k] = << >> /\ Closed(k) /\ Goto(t, "dispatch") /\ UNCHANGED <<enviar, writer, in>>
  <2>1. tpc' = [tpc EXCEPT ![t] = "dispatch"] /\ cpc[k] = "end" /\ UNCHANGED <<enviar, writer, in>>
    BY <1>5 DEF Goto, Closed
  <2>2. \A c \in Client \ {k} : Wanted(c)' => Wanted(c)
    BY <1>1, <2>1 DEF Wanted, Searching, LoginInv, TypeInv, ThreadTypes
  <2>3. ASSUME ~mixed', NEW c \in Client PROVE Sought(c)'
    <3>1. CASE c = k
      BY <1>1, <2>1, <3>1 DEF Sought, Live
    <3>2. CASE c # k
      <4>1. Sought(c)
        BY <1>1, <2>3 DEF SearchInv
      <4>2. QED BY <1>1, <2>1, <2>2, <3>2, <4>1, SoughtKept
    <3>3. QED BY <3>1, <3>2
  <2>4. QED BY <1>1, <1>3, <2>3 DEF SearchInv
<1>6. QED BY <1>4, <1>5 DEF Recv

\* What client c does to its own search is all that its step does to searches.
LEMMA OthersSearch ==
  ASSUME SearchInv, UNCHANGED server, NEW c \in Client,
         \A k \in Client \ {c} : /\ in'[k] = in[k] /\ out'[k] = out[k] /\ cpc'[k] = cpc[k]
                                 /\ ask'[k] = ask[k],
         ~mixed /\ Sought(c) => Sought(c)',
         DOMAIN shown' = Client, shown' = [k \in Client |-> shown'[k]], ShownMatch'
  PROVE  SearchInv'
<1>1. UNCHANGED <<enviar, writer, tpc, sock, mixed>>
  BY DEF server
<1>2. ASSUME ~mixed', NEW k \in Client PROVE Sought(k)'
  <2>1. Sought(k)
    BY <1>1, <1>2 DEF SearchInv
  <2>2. CASE k = c
    BY <1>1, <1>2, <2>1, <2>2
  <2>3. CASE k # c
    <3>1. Wanted(k)' => Wanted(k)
      BY <1>1 DEF Wanted, Searching
    <3>2. in'[k] = in[k] /\ out'[k] = out[k] /\ cpc'[k] = cpc[k] /\ ask'[k] = ask[k]
      BY <2>3
    <3>3. QED BY <1>1, <2>1, <3>1, <3>2, SoughtKept
  <2>4. QED BY <2>2, <2>3
<1>3. QED BY <1>2 DEF SearchInv

\* A request, of the login or of the menu: no search is under way before it, and
\* one is after it only if the client waits for its answer.
LEMMA AskSearch ==
  ASSUME LoginInv, SearchInv, NEW c \in Client, cpc[c] \in {"login", "menu"},
         NEW m \in Envelope, NEW place \in Places, Ask(c, m, place),
         m.op = "search" => place = "found"
  PROVE  SearchInv'
<1>1. /\ in' = [in EXCEPT ![c] = Append(in[c], m)] /\ ask' = [ask EXCEPT ![c] = m]
      /\ cpc' = [cpc EXCEPT ![c] = place]
      /\ UNCHANGED server /\ UNCHANGED <<out, shown>>
  BY DEF Ask
<1>2. /\ in'[c] = Append(in[c], m) /\ ask'[c] = m /\ cpc'[c] = place
      /\ \A k \in Client \ {c} : in'[k] = in[k] /\ ask'[k] = ask[k] /\ cpc'[k] = cpc[k]
  BY <1>1 DEF LoginInv, TypeInv, WireTypes, ClientTypes
<1>3. Wanted(c)' => Wanted(c)
  BY <1>1 DEF server, Wanted, Searching
<1>4. ASSUME Sought(c) PROVE Sought(c)'
  <2>1. NoSearch(in[c]) /\ NoFound(out[c]) /\ ~Wanted(c)
    BY <1>4 DEF Sought, Live, Pending
  <2>2. in[c] \in Seq(Envelope)
    BY DEF LoginInv, TypeInv, WireTypes
  <2>3. /\ m.op # "search" => NoSearch(in'[c])
        /\ OneSearch(in'[c], m.word)
    BY <1>2, <2>1, <2>2, LongerSearch
  <2>4. NoFound(out'[c]) /\ ~Wanted(c)'
    BY <1>1, <1>3, <2>1
  <2>5. CASE m.op = "search"
    BY <1>2, <2>3, <2>4, <2>5 DEF Sought, Pending
  <2>6. CASE m.op # "search"
    BY <1>2, <2>3, <2>4, <2>6 DEF Sought, Pending
  <2>7. QED BY <2>5, <2>6
<1>5. ShownMatch'
  BY <1>1 DEF server, SearchInv, ShownMatch
<1>6. DOMAIN shown' = Client /\ shown' = [k \in Client |-> shown'[k]]
  BY <1>1 DEF SearchInv
<1>7. QED BY <1>1, <1>2, <1>4, <1>5, <1>6, OthersSearch

LEMMA AsksSearch ==
  ASSUME LoginInv, SearchInv, NEW c \in Client,
         \/ \E cred \in Cred : Login(c, cred)
         \/ \E word \in Word : Search(c, word)
         \/ Unanswered(c) \/ Logout(c)
  PROVE  SearchInv'
<1>1. ASSUME NEW cred \in Cred, Login(c, cred) PROVE SearchInv'
  <2>1. Msg("login", cred, {}, 0) \in Envelope /\ Msg("login", cred, {}, 0).op # "search"
    BY DEF Msg, Envelope, Ops, Flags
  <2>2. "auth" \in Places
    BY DEF Places
  <2>3. QED BY <1>1, <2>1, <2>2, AskSearch DEF Login
<1>2. ASSUME cpc[c] = "menu", NEW op \in {"search", "list", "fetch", "logout"}, NEW word \in Word \cup {{}}
      PROVE  /\ Msg(op, ask[c].cred, word, ask[c].flag) \in Envelope
             /\ Msg(op, ask[c].cred, word, ask[c].flag).op = op
  BY DEF LoginInv, TypeInv, ClientTypes, Msg, Envelope, Ops
<1>3. ask[c].word \in Word \cup {{}} /\ {"menu", "found", "fetch", "bye"} \subseteq Places
  BY DEF LoginInv, TypeInv, ClientTypes, Envelope, Places
<1>4. ASSUME NEW word \in Word, Search(c, word) PROVE SearchInv'
  <2>1. cpc[c] = "menu" /\ Ask(c, Msg("search", ask[c].cred, word, ask[c].flag), "found")
    BY <1>4 DEF Search
  <2>2. Msg("search", ask[c].cred, word, ask[c].flag) \in Envelope
    BY <1>2, <2>1
  <2>3. QED BY <1>3, <2>1, <2>2, AskSearch
<1>5. CASE Unanswered(c)
  <2>1. cpc[c] = "menu"
    BY <1>5 DEF Unanswered
  <2>2. PICK op \in {"list", "fetch"} :
          Ask(c, Msg(op, ask[c].cred, ask[c].word, ask[c].flag), IF op = "list" THEN "menu" ELSE "fetch")
    BY <1>5 DEF Unanswered
  <2>3. /\ Msg(op, ask[c].cred, ask[c].word, ask[c].flag) \in Envelope
        /\ Msg(op, ask[c].cred, ask[c].word, ask[c].flag).op # "search"
    BY <1>2, <1>3, <2>1
  <2>4. (IF op = "list" THEN "menu" ELSE "fetch") \in Places
    BY <1>3
  <2>5. QED BY <2>1, <2>2, <2>3, <2>4, AskSearch
<1>6. CASE Logout(c)
  <2>1. cpc[c] = "menu" /\ Ask(c, Msg("logout", ask[c].cred, ask[c].word, ask[c].flag), "bye")
    BY <1>6 DEF Logout
  <2>2. /\ Msg("logout", ask[c].cred, ask[c].word, ask[c].flag) \in Envelope
        /\ Msg("logout", ask[c].cred, ask[c].word, ask[c].flag).op # "search"
    BY <1>2, <1>3, <2>1
  <2>3. QED BY <1>3, <2>1, <2>2, AskSearch
<1>7. QED BY <1>1, <1>4, <1>5, <1>6

\* conectar, and the end of a client.
LEMMA ComesAndGoesSearch ==
  ASSUME LoginInv, SearchInv, NEW c \in Client, Conectar(c) \/ Leave(c)
  PROVE  SearchInv'
<1>1. /\ UNCHANGED server /\ UNCHANGED <<in, out, ask, shown>>
      /\ \/ cpc[c] = "out" /\ cpc' = [cpc EXCEPT ![c] = "login"]
         \/ cpc' = [cpc EXCEPT ![c] = "end"]
  BY DEF Conectar, Leave, net
<1>2. \A k \in Client \ {c} : cpc'[k] = cpc[k]
  BY <1>1 DEF LoginInv, TypeInv, ClientTypes
<1>3. (cpc[c] = "out" /\ cpc'[c] = "login") \/ cpc'[c] = "end"
  BY <1>1 DEF LoginInv, TypeInv, ClientTypes
<1>4. Wanted(c)' => Wanted(c)
  BY <1>1 DEF server, Wanted, Searching
<1>5. Sought(c) => Sought(c)'
  BY <1>1, <1>3, <1>4 DEF Sought, Live, Pending
<1>6. ShownMatch'
  BY <1>1 DEF server, SearchInv, ShownMatch
<1>7. DOMAIN shown' = Client /\ shown' = [k \in Client |-> shown'[k]]
  BY <1>1 DEF SearchInv
<1>8. QED BY <1>1, <1>2, <1>5, <1>6, <1>7, OthersSearch

\* The login's answer is read before any search is sent.
LEMMA AuthSearch ==
  ASSUME LoginInv, SearchInv, NEW c \in Client, Auth(c)
  PROVE  SearchInv'
<1> DEFINE list == Msg("files", None, {}, 0)
<1>1. /\ cpc[c] = "auth" /\ out[c] # << >> /\ out' = [out EXCEPT ![c] = Tail(out[c])]
      /\ UNCHANGED server /\ UNCHANGED shown
  BY DEF Auth
<1>2. in' = in \/ in' = [in EXCEPT ![c] = Append(in[c], list)]
  BY DEF Auth
<1>3. /\ \E place \in Places \ {"found"} : cpc' = [cpc EXCEPT ![c] = place]
      /\ ask' = ask \/ ask' = [ask EXCEPT ![c] = Head(out[c]).body]
  BY DEF Auth, Places
<1>4. in[c] \in Seq(Envelope) /\ out[c] \in Seq(Answers)
  BY DEF LoginInv, TypeInv, WireTypes
<1>5. list \in Envelope /\ list.op # "search"
  BY DEF Msg, Envelope, Ops, Flags
<1> HIDE DEF list
<1>6. \A k \in Client \ {c} : in'[k] = in[k] /\ out'[k] = out[k] /\ cpc'[k] = cpc[k] /\ ask'[k] = ask[k]
  BY <1>1, <1>2, <1>3 DEF LoginInv, TypeInv, WireTypes, ClientTypes
<1>7. Wanted(c)' => Wanted(c)
  BY <1>1 DEF server, Wanted, Searching
<1>8. ASSUME Sought(c) PROVE Sought(c)'
  <2>1. NoSearch(in[c]) /\ NoFound(out[c]) /\ ~Wanted(c)
    BY <1>1, <1>8 DEF Sought, Live, Pending
  <2>2. in'[c] = in[c] \/ in'[c] = Append(in[c], list)
    BY <1>2 DEF LoginInv, TypeInv, WireTypes
  <2>3. NoSearch(Append(in[c], list))
    BY <1>4, <1>5, <2>1, LongerSearch
  <2>4. out'[c] = Tail(out[c])
    BY <1>1 DEF LoginInv, TypeInv, WireTypes
  <2>5. NoFound(out'[c])
    BY <1>1, <1>4, <2>1, <2>4, ShorterSearch
  <2>6. QED BY <1>7, <2>1, <2>2, <2>3, <2>5 DEF Sought, Pending
<1>9. ShownMatch'
  BY <1>1 DEF server, SearchInv, ShownMatch
<1>10. DOMAIN shown' = Client /\ shown' = [k \in Client |-> shown'[k]]
  BY <1>1 DEF SearchInv
<1>11. QED BY <1>1, <1>6, <1>8, <1>9, <1>10, OthersSearch

\* The answer that is displayed is the one to the last search.
LEMMA FoundSearch ==
  ASSUME LoginInv, SearchInv, NEW c \in Client, Found(c)
  PROVE  SearchInv'
<1> DEFINE answer == Head(out[c])
           seen   == [word |-> ask[c].word, files |-> Displayed(answer.body)]
<1>1. /\ cpc[c] = "found" /\ out[c] # << >> /\ out' = [out EXCEPT ![c] = Tail(out[c])]
      /\ UNCHANGED server /\ UNCHANGED <<in, ask>>
      /\ \/ /\ answer.kind = "found" /\ cpc' = [cpc EXCEPT ![c] = "menu"]
            /\ shown' = [shown EXCEPT ![c] = seen]
         \/ cpc' = [cpc EXCEPT ![c] = "astray"] /\ shown' = shown
  BY DEF Found
<1>2. out[c] \in Seq(Answers) /\ out'[c] = Tail(out[c])
  BY <1>1 DEF LoginInv, TypeInv, WireTypes
<1>3. \A k \in Client \ {c} : in'[k] = in[k] /\ out'[k] = out[k] /\ cpc'[k] = cpc[k] /\ ask'[k] = ask[k]
  BY <1>1 DEF LoginInv, TypeInv, WireTypes, ClientTypes
<1>4. DOMAIN shown' = Client /\ shown' = [k \in Client |-> shown'[k]]
  BY <1>1 DEF SearchInv
<1>5. Wanted(c)' => Wanted(c)
  BY <1>1 DEF server, Wanted, Searching
<1>6. ASSUME Sought(c), answer.kind = "found"
      PROVE  /\ NoSearch(in[c]) /\ ~Wanted(c) /\ NoFound(out'[c])
             /\ Fits(ask[c].word, answer.body)
  <2>1. ~NoFound(out[c])
    BY <1>1, <1>2, <1>6, FirstSearch DEF NoFound
  <2>2. NoSearch(in[c]) /\ OneFound(out[c], ask[c].word) /\ ~Wanted(c)
    BY <1>1, <1>6, <2>1 DEF Sought, Live, Pending
  <2>3. QED BY <1>1, <1>2, <1>6, <2>2, FirstSearch
<1>7. ASSUME Sought(c) PROVE Sought(c)'
  <2>1. CASE cpc' = [cpc EXCEPT ![c] = "astray"]
    BY <2>1 DEF Sought, Live, LoginInv, TypeInv, ClientTypes
  <2>2. CASE answer.kind = "found"
    BY <1>1, <1>5, <1>6, <1>7, <2>2 DEF Sought, Pending
  <2>3. QED BY <1>1, <2>1, <2>2
<1>8. ShownMatch'
  <2> SUFFICES ASSUME ~mixed, NEW k \in Client, shown'[k] # None, NEW e \in shown'[k].files
               PROVE  Matches(shown'[k].word, e)
    BY <1>1 DEF server, ShownMatch
  <2>1. CASE shown'[k] = shown[k]
    BY <2>1 DEF SearchInv, ShownMatch
  <2>2. CASE shown'[k] # shown[k]
    <3>1. answer.kind = "found" /\ shown' = [shown EXCEPT ![c] = seen]
      BY <1>1, <2>2
    <3>2. k = c /\ shown'[k] = seen
      BY <2>2, <3>1 DEF SearchInv
    <3>3. Sought(c)
      BY DEF SearchInv
    <3>4. Fits(ask[c].word, answer.body)
      BY <1>6, <3>1, <3>3
    <3>5. QED BY <3>2, <3>4 DEF Fits
  <2>3. QED BY <2>1, <2>2
<1>9. QED BY <1>1, <1>3, <1>4, <1>7, <1>8, OthersSearch

LEMMA SearchInit == Init => SearchInv
<1> SUFFICES ASSUME Init PROVE SearchInv
  OBVIOUS
<1>1. \A c \in Client : in[c] = << >> /\ out[c] = << >> /\ shown[c] = None /\ tpc[c] = "none"
  BY DEF Init, All
<1>2. DOMAIN shown = Client /\ shown = [c \in Client |-> shown[c]]
  BY DEF Init, All
<1>3. \A c \in Client : Sought(c)
  BY <1>1 DEF Sought, Pending, NoSearch, NoFound, Wanted, Searching
<1>4. QED BY <1>1, <1>2, <1>3 DEF SearchInv, ShownMatch

LEMMA RestartSearch ==
  ASSUME Restart
  PROVE  SearchInv'
<1>1. \A c \in Client : in'[c] = << >> /\ out'[c] = << >> /\ shown'[c] = None /\ tpc'[c] = "none"
  BY DEF Restart, All
<1>2. DOMAIN shown' = Client /\ shown' = [c \in Client |-> shown'[c]]
  BY DEF Restart, All
<1>3. \A c \in Client : Sought(c)'
  BY <1>1 DEF Sought, Pending, NoSearch, NoFound, Wanted, Searching
<1>4. QED BY <1>1, <1>2, <1>3 DEF SearchInv, ShownMatch

LEMMA SearchNext ==
  ASSUME LoginInv, SearchInv, [Next]_vars
  PROVE  SearchInv'
<1>1. CASE Kill \/ Accept \/ UNCHANGED vars
  <2>1. UNCHANGED <<enviar, writer, sock, in, out, cpc, ask, shown, mixed>>
    BY <1>1 DEF Kill, Accept, vars, net, cli, ghost
  <2>2. tpc' = tpc \/ \E t \in Client : tpc' = [tpc EXCEPT ![t] = "start"]
    <3>1. CASE Accept
      <4>1. backlog \in Seq(Client) /\ backlog # << >> /\ tpc' = [tpc EXCEPT ![Head(backlog)] = "start"]
        BY <3>1 DEF Accept, LoginInv, TypeInv, ThreadTypes
      <4>2. Head(backlog) \in Client
        BY <4>1
      <4>3. QED BY <4>1, <4>2
    <3>2. CASE Kill \/ UNCHANGED vars
      BY <3>2 DEF Kill, vars
    <3>3. QED BY <1>1, <3>1, <3>2
  <2>3. \A c \in Client : Wanted(c)' => Wanted(c)
    BY <2>1, <2>2 DEF Wanted, Searching, LoginInv, TypeInv, ThreadTypes
  <2>4. QED BY <2>1, <2>3, SearchKept
<1>2. CASE Restart
  BY <1>2, RestartSearch
<1>3. ASSUME NEW t \in Client, Thread(t) PROVE SearchInv'
  BY <1>3, ThreadElseSearch, ReplySearch, BuscarSearch, RecvFilesSearch, RecvSearch DEF Thread
<1>4. ASSUME NEW c \in Client, ClientStep(c) PROVE SearchInv'
  BY <1>4, AsksSearch, ComesAndGoesSearch, AuthSearch, FoundSearch DEF ClientStep
<1>5. QED BY <1>1, <1>2, <1>3, <1>4 DEF Next

\* What a search displays matches the keyword it was asked with, whatever an
\* earlier search of the same thread left on its stack, and in whatever order
\* threads and clients run, as long as no thread has used another one's request.
THEOREM DisplayedMatches == Spec => []ShownMatch
<1>1. SearchInv => ShownMatch
  BY DEF SearchInv
<1>2. Init => LoginInv /\ SearchInv
  BY LoginInit, SearchInit
<1>3. LoginInv /\ SearchInv /\ [Next]_vars => (LoginInv /\ SearchInv)'
  BY LoginNext, SearchNext
<1>4. QED BY <1>1, <1>2, <1>3, PTL DEF Spec
=============================================================================
