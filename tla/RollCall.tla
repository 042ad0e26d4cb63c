------------------------------- MODULE RollCall -------------------------------
(***************************************************************************)
(* The roll call: TCPServidor.c, which forks a child per connection on a   *)
(* list in shared memory, and the iOS app of the students, which sends one *)
(* line per tap.  The parent does not accept again before its child has    *)
(* ended: waitpid(WNOHANG) is called until there is no child left.         *)
(*                                                                         *)
(* The server reads one message per connection, at fixed offsets.  It      *)
(* answers only to a number that is on the list already.                   *)
(***************************************************************************)
EXTENDS Integers, Sequences, FiniteSets, SequencesExt

CONSTANTS
  Students,
  Ra,              \* the registration number a student typed in
  LongRas,         \* the numbers of more than eight digits, which the app lets pass
  JunkRa,          \* the number read from a buffer that was never written
  MaxRas,          \* the entries of alunosRA
  ForkFails,       \* may fork() fail?
  MaxConns,        \* bound: connections
  MaxTaps,         \* bound: messages sent on one connection
  NoOne

ASSUME RollCallAssumption ==
  /\ JunkRa \notin {Ra[s] : s \in Students} /\ NoOne \notin Students
  /\ MaxRas \in Nat \ {0} /\ MaxConns \in Nat /\ MaxTaps \in Nat
  /\ ForkFails \in BOOLEAN

Conns == 1..MaxConns
Ras   == {Ra[s] : s \in Students} \cup {JunkRa}
Live  == {"recv", "door", "passed", "scan", "store", "close"}

VARIABLES
  \* the server: shared memory and the parent
  list,        \* alunosRA[0..count-1]
  doors,       \* doorCounter
  corrupted,   \* entry MaxRas was written: count and doorCounter are its bytes
  mpc,         \* the parent: "accept" or "wait"
  \* what the stack of main holds, which every child inherits
  terminated,  \* buf.ra[8] is zero
  junk,        \* bufferer reads as: "door", "present" or "absent"
  \* the connections, in the order of their arrival
  owner,       \* the student
  cpc,         \* "none", "queued", where the child is, or "done"
  got,         \* the number the child read
  loaded,      \* doorCounter as the child read it
  inbox,       \* messages on their way
  eof,         \* the app closed its side
  reply,       \* the answer is there for the app
  \* the apps
  app,         \* "login", "connecting", "stuck" or "action"
  cur,         \* the connection of an app, or 0
  \* history
  confirmed,   \* the students told "Confirmed!"
  passages     \* the connections taken for a passage through the door

shared  == <<list, doors, corrupted, terminated, junk>>
conns   == <<owner, inbox, eof, reply>>
children  == <<cpc, got, loaded>>
apps    == <<app, cur>>
vars    == <<shared, mpc, conns, children, apps, confirmed, passages>>

Opened == Cardinality({k \in Conns : owner[k] # NoOne})

-----------------------------------------------------------------------------
(* The app: LoginViewController, ActionViewController, NetworkManager.     *)

ConnectAction(s) ==
  /\ app[s] = "login"
  /\ app' = [app EXCEPT ![s] = "connecting"]
  /\ UNCHANGED <<shared, mpc, conns, children, cur, confirmed, passages>>

\* NSStreamEventHasSpaceAvailable: the action view takes over.
DidConnect(s) ==
  /\ app[s] = "connecting" /\ Opened < MaxConns
  /\ LET k == Opened + 1 IN
       /\ owner' = [owner EXCEPT ![k] = s]
       /\ cpc' = [cpc EXCEPT ![k] = "queued"]
       /\ cur' = [cur EXCEPT ![s] = k]
  /\ app' = [app EXCEPT ![s] = "action"]
  /\ UNCHANGED <<shared, mpc, inbox, eof, reply, got, loaded, confirmed, passages>>

\* NSStreamEventErrorOccurred: the delegate is asked for a method that no view
\* has, the button stays disabled and isConnected stays YES.
ErrorOccurred(s) ==
  /\ app[s] = "connecting"
  /\ app' = [app EXCEPT ![s] = "stuck"]
  /\ UNCHANGED <<shared, mpc, conns, children, cur, confirmed, passages>>

\* What reaches a connection the server has closed is lost.
PresentAction(s) ==
  /\ app[s] = "action"
  /\ cpc[cur[s]] # "done"
  /\ inbox[cur[s]] < MaxTaps
  /\ inbox' = [inbox EXCEPT ![cur[s]] = @ + 1]
  /\ UNCHANGED <<shared, mpc, owner, eof, reply, children, apps, confirmed, passages>>

\* disconnectWithCompletion.
Disconnect(s) ==
  /\ eof' = [eof EXCEPT ![cur[s]] = TRUE]
  /\ cur' = [cur EXCEPT ![s] = 0]
  /\ app' = [app EXCEPT ![s] = "login"]
  /\ UNCHANGED <<shared, mpc, owner, inbox, reply, children, passages>>

DidReceiveData(s) ==
  /\ app[s] = "action" /\ reply[cur[s]]
  /\ confirmed' = confirmed \cup {s}
  /\ Disconnect(s)

\* viewWillDisappear.
Back(s) ==
  /\ app[s] = "action"
  /\ Disconnect(s)
  /\ UNCHANGED confirmed

-----------------------------------------------------------------------------
(* The parent.                                                             *)

FirstQueued == CHOOSE k \in Conns : cpc[k] = "queued" /\ \A j \in 1..(k - 1) : cpc[j] # "queued"

Accept ==
  /\ mpc = "accept" /\ \E k \in Conns : cpc[k] = "queued"
  /\ cpc' = [cpc EXCEPT ![FirstQueued] = "recv"]
  /\ mpc' = "wait"
  /\ UNCHANGED <<shared, conns, got, loaded, apps, confirmed, passages>>

\* fork() == -1: the connection is closed.
AcceptNoFork ==
  /\ ForkFails
  /\ mpc = "accept" /\ \E k \in Conns : cpc[k] = "queued"
  /\ cpc' = [cpc EXCEPT ![FirstQueued] = "done"]
  /\ mpc' = "wait"
  /\ UNCHANGED <<shared, conns, got, loaded, apps, confirmed, passages>>

\* Mutant: one call of waitpid, which finds the child running.
ReapOnce ==
  /\ mpc = "wait"
  /\ mpc' = "accept"
  /\ UNCHANGED <<shared, conns, children, apps, confirmed, passages>>

Reap ==
  /\ mpc = "wait" /\ \A k \in Conns : cpc[k] \notin Live
  /\ mpc' = "accept"
  /\ UNCHANGED <<shared, conns, children, apps, confirmed, passages>>

-----------------------------------------------------------------------------
(* A child.                                                                *)

Goto(k, stage) == cpc' = [cpc EXCEPT ![k] = stage]

\* In a message with a long number, offset 19 is not the '0' of isDoor.
Recv(k) ==
  /\ cpc[k] = "recv" /\ inbox[k] > 0
  /\ inbox' = [inbox EXCEPT ![k] = @ - 1]
  /\ got' = [got EXCEPT ![k] = Ra[owner[k]]]
  /\ Goto(k, IF Ra[owner[k]] \in LongRas THEN "door" ELSE "scan")
  /\ UNCHANGED <<shared, mpc, owner, eof, reply, loaded, apps, confirmed, passages>>

\* recv() == 0 is no error: the buffer is read as it stands.
RecvEnd(k) ==
  /\ cpc[k] = "recv" /\ inbox[k] = 0 /\ eof[k]
  /\ got' = [got EXCEPT ![k] = JunkRa]
  /\ Goto(k, CASE junk = "door" -> "door" [] junk = "present" -> "scan" [] OTHER -> "close")
  /\ UNCHANGED <<shared, mpc, conns, loaded, apps, confirmed, passages>>

\* doorCounter++: a load and a store.
DoorLoad(k) ==
  /\ cpc[k] = "door"
  /\ loaded' = [loaded EXCEPT ![k] = doors]
  /\ Goto(k, "passed")
  /\ UNCHANGED <<shared, mpc, conns, got, apps, confirmed, passages>>

DoorStore(k) ==
  /\ cpc[k] = "passed"
  /\ doors' = loaded[k] + 1
  /\ passages' = passages \cup {k}
  /\ Goto(k, "close")
  /\ UNCHANGED <<list, corrupted, terminated, junk, mpc, conns, got, loaded, apps, confirmed>>

\* The comparison is made with buf.ra, which nothing terminates, and not with
\* the terminated copy in temp (one byte too small for it; nothing reads that
\* byte).
OnList(ra) == terminated /\ \E n \in DOMAIN list : list[n] = ra

\* Mutant: the answer is sent before the list is looked at.
ScanAfterReply(k) ==
  /\ cpc[k] = "scan"
  /\ reply' = [reply EXCEPT ![k] = ~eof[k]]
  /\ Goto(k, IF corrupted \/ OnList(got[k]) THEN "close" ELSE "store")
  /\ UNCHANGED <<shared, mpc, owner, inbox, eof, got, loaded, apps, confirmed, passages>>

\* With a corrupted count the loop leaves the segment, which ends the child.
Scan(k) ==
  /\ cpc[k] = "scan"
  /\ reply' = [reply EXCEPT ![k] = OnList(got[k]) /\ ~eof[k]]
  /\ Goto(k, IF corrupted \/ OnList(got[k]) THEN "close" ELSE "store")
  /\ UNCHANGED <<shared, mpc, owner, inbox, eof, got, loaded, apps, confirmed, passages>>

Store(k) ==
  /\ cpc[k] = "store"
  /\ IF Len(list) < MaxRas
     THEN list' = Append(list, got[k]) /\ UNCHANGED corrupted
     ELSE corrupted' = TRUE /\ UNCHANGED list
  /\ Goto(k, "close")
  /\ UNCHANGED <<doors, terminated, junk, mpc, conns, got, loaded, apps, confirmed, passages>>

\* Mutant: the child goes back to recv in place of exit.
CloseLooping(k) ==
  /\ cpc[k] = "close"
  /\ Goto(k, "recv")
  /\ UNCHANGED <<shared, mpc, conns, got, loaded, apps, confirmed, passages>>

\* close(ns), exit(0).  With messages left unread this is a reset, which may
\* take the answer with it.
Close(k) ==
  /\ cpc[k] = "close"
  /\ Goto(k, "done")
  /\ \E kept \in IF inbox[k] > 0 THEN BOOLEAN ELSE {TRUE} :
       reply' = [reply EXCEPT ![k] = @ /\ kept]
  /\ UNCHANGED <<shared, mpc, owner, inbox, eof, got, loaded, apps, confirmed, passages>>

Child(k) == \/ Recv(k) \/ RecvEnd(k) \/ DoorLoad(k) \/ DoorStore(k)
            \/ Scan(k) \/ Store(k) \/ Close(k)

-----------------------------------------------------------------------------
Init ==
  /\ list = << >> /\ doors = 0 /\ corrupted = FALSE /\ mpc = "accept"
  /\ terminated \in BOOLEAN /\ junk \in {"door", "present", "absent"}
  /\ owner = [k \in Conns |-> NoOne]
  /\ cpc = [k \in Conns |-> "none"]
  /\ got = [k \in Conns |-> JunkRa]
  /\ loaded = [k \in Conns |-> 0]
  /\ inbox = [k \in Conns |-> 0]
  /\ eof = [k \in Conns |-> FALSE]
  /\ reply = [k \in Conns |-> FALSE]
  /\ app = [s \in Students |-> "login"]
  /\ cur = [s \in Students |-> 0]
  /\ confirmed = {} /\ passages = {}

App(s) == \/ ConnectAction(s) \/ DidConnect(s) \/ ErrorOccurred(s)
          \/ PresentAction(s) \/ DidReceiveData(s) \/ Back(s)

Server == Accept \/ AcceptNoFork \/ Reap \/ \E k \in Conns : Child(k)

Next == Server \/ \E s \in Students : App(s)

Spec == Init /\ [][Next]_vars

\* The processes of the server keep being scheduled; the students owe nothing.
ServerFairness == WF_vars(Server) /\ \A k \in Conns : WF_vars(Child(k))
FairSpec == Spec /\ ServerFairness

-----------------------------------------------------------------------------
(* Properties.                                                             *)

\* Types.
TypeOK ==
  /\ list \in Seq(Ras) /\ Len(list) <= MaxRas
  /\ doors \in 0..MaxConns /\ corrupted \in BOOLEAN /\ mpc \in {"accept", "wait"}
  /\ owner \in [Conns -> Students \cup {NoOne}]
  /\ cpc \in [Conns -> Live \cup {"none", "queued", "done"}]
  /\ got \in [Conns -> Ras] /\ loaded \in [Conns -> 0..MaxConns]
  /\ inbox \in [Conns -> 0..MaxTaps]
  /\ eof \in [Conns -> BOOLEAN] /\ reply \in [Conns -> BOOLEAN]
  /\ app \in [Students -> {"login", "connecting", "stuck", "action"}]
  /\ cur \in [Students -> {0} \cup Conns]
  /\ confirmed \subseteq Students /\ passages \subseteq Conns

\* The comment of the scan: it checks that the number is not in the system yet.
ListedOnce == \A m, n \in DOMAIN list : list[m] = list[n] => m = n

\* Provided the byte behind the number happens to be zero, no number is listed
\* twice: the test and the insertion of two children never interleave,
\* although nothing locks the shared memory.
ListedOnceIfTerminated == terminated => ListedOnce

\* No passage is lost although doorCounter++ is not atomic, until the list
\* runs over it.
PassagesCounted == ~corrupted => doors = Cardinality(passages)

\* The shared memory is right although nothing locks it: only the loop around
\* waitpid, there to clean up, keeps the children from running at once.
MemoryRight == TypeOK /\ ListedOnceIfTerminated /\ PassagesCounted

\* Who is told "Confirmed!" is on the list.
ConfirmedIsListed == \A s \in confirmed : \E n \in DOMAIN list : list[n] = Ra[s]

Listed(ra) == \E n \in DOMAIN list : list[n] = ra

\* A child that waits for a message nobody has sent.
Silent(k) == cpc[k] = "recv" /\ inbox[k] = 0 /\ ~eof[k]

\* No child was forked for a connection on which a message had arrived.
Refused(k) == cpc[k] = "done" /\ got[k] = JunkRa /\ inbox[k] > 0

\* A message that was sent puts its number on the list, whatever became of the
\* app and of the other connections, unless the fork fails or a student who
\* connected stays silent for ever: the server then serves nobody.
AnswerListed ==
  []<>(\A k \in Conns : ~Silent(k)) =>
     \A k \in Conns :
       (owner[k] # NoOne /\ inbox[k] > 0 /\ cpc[k] \in {"queued", "recv"})
         ~> (Refused(k) \/ corrupted
             \/ \E s \in Students : owner[k] = s /\ (Ra[s] \in LongRas \/ Listed(Ra[s])))
=============================================================================
