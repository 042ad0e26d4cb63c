----------------------------- MODULE DoorCounter -----------------------------
(***************************************************************************)
(* The sequential copy of the roll call server, on port 5001 ("Copia de    *)
(* TCPServidor.c"), and the Arduino at the door that reports to it         *)
(* (Door_Sensor.ino).  The server accepts a connection, reads one message, *)
(* and accepts the next one; it closes nothing and answers nobody.  The    *)
(* sensor reports every passage on the one connection it opened when it    *)
(* was switched on.                                                        *)
(***************************************************************************)
EXTENDS Naturals, Sequences, FiniteSets, SequencesExt

CONSTANTS
  Sensor, Alunos,  \* who connects
  MaxLinks,        \* bound: connections made
  MaxFd,           \* descriptors for connections; below 300, the size of alunosRA
  MaxMsgs          \* bound: messages on one connection

DoorCounterAssumption ==
  /\ Sensor \notin Alunos /\ {"door", "absent"} \cap Alunos = {}
  /\ MaxLinks \in Nat /\ MaxFd \in 1..299 /\ MaxMsgs \in Nat \ {0}

VARIABLES
  links,        \* the connections in order: who, messages sent, end sent
  served,       \* how many of them the server has read
  waiting,      \* it has accepted the next one
  bufferer,     \* what the buffer says: "door", "absent" or a number
  doorCounter, alunosRA,
  zeroed,       \* the byte behind buf.ra is zero
  on,           \* the server runs
  shouldCount,  \* the sensor saw nobody since the last passage
  mine          \* the connection of a peer, 0 if none

doorServer == <<served, waiting, bufferer, doorCounter, alunosRA, zeroed, on>>
doorVars == <<links, doorServer, shouldCount, mine>>

Peers == Alunos \cup {Sensor}

Init ==
  /\ links = <<>> /\ served = 0 /\ waiting = FALSE /\ doorCounter = 0 /\ alunosRA = <<>>
  /\ bufferer \in {"door", "absent"} /\ zeroed \in BOOLEAN /\ on = TRUE
  /\ shouldCount = TRUE /\ mine = [p \in Peers |-> 0]

\* Switched on again, the sensor leaves its old connection open for ever.
Connect(p) ==
  /\ on /\ Len(links) < MaxLinks /\ (p = Sensor \/ mine[p] = 0)
  /\ links' = Append(links, [who |-> p, msgs |-> 0, eof |-> FALSE])
  /\ mine' = [mine EXCEPT ![p] = Len(links) + 1]
  /\ shouldCount' = (p = Sensor \/ shouldCount)
  /\ UNCHANGED doorServer

Send(p) ==
  /\ mine[p] # 0 /\ links[mine[p]].msgs < MaxMsgs
  /\ links' = [links EXCEPT ![mine[p]].msgs = @ + 1]

\* loop(): a distance in centimetres, 0 when no echo came back.  Between 60
\* and the width of the door nothing is counted, and counting starts again.
\* When the server has gone the sensor stops for ever.
Loop(distance) ==
  /\ on /\ mine[Sensor] # 0
  /\ \/ /\ shouldCount /\ distance \in 1..59
        /\ Send(Sensor) /\ shouldCount' = FALSE
     \/ shouldCount /\ distance \notin 1..59 /\ UNCHANGED <<links, shouldCount>>
     \/ ~shouldCount /\ shouldCount' = (distance > 60) /\ UNCHANGED links
  /\ UNCHANGED <<doorServer, mine>>

Tap(a)  == Send(a) /\ UNCHANGED <<doorServer, shouldCount, mine>>
Hang(a) ==
  /\ mine[a] # 0
  /\ links' = [links EXCEPT ![mine[a]].eof = TRUE]
  /\ mine' = [mine EXCEPT ![a] = 0]
  /\ UNCHANGED <<doorServer, shouldCount>>

Accept ==
  /\ on /\ ~waiting /\ served < Len(links)
  /\ IF served < MaxFd THEN waiting' = TRUE /\ UNCHANGED on
                       ELSE on' = FALSE /\ UNCHANGED waiting
  /\ UNCHANGED <<links, served, bufferer, doorCounter, alunosRA, zeroed, shouldCount, mine>>

\* Mutant: the loop ends before the last number.
ListedButLast(ra) == zeroed /\ \E i \in 1..(Len(alunosRA) - 1) : alunosRA[i] = ra

\* The comparison needs the byte behind the number to be zero.
Listed(ra) == zeroed /\ \E i \in DOMAIN alunosRA : alunosRA[i] = ra

Count(said) ==
  \/ said = "door" /\ doorCounter' = doorCounter + 1 /\ UNCHANGED alunosRA
  \/ /\ said \in Alunos /\ UNCHANGED doorCounter
     /\ alunosRA' = IF Listed(said) THEN alunosRA ELSE Append(alunosRA, said)
  \/ said = "absent" /\ UNCHANGED <<doorCounter, alunosRA>>

\* Mutant: a connection is read until its end.
ReadUntilEnd ==
  /\ on /\ waiting
  /\ LET link == links[served + 1] IN
     /\ link.eof
     /\ bufferer' = IF link.msgs = 0 THEN bufferer
                    ELSE IF link.who = Sensor THEN "door" ELSE link.who
     /\ Count(bufferer')
  /\ served' = served + 1 /\ waiting' = FALSE
  /\ UNCHANGED <<links, zeroed, on, shouldCount, mine>>

\* One message is read; of a connection that ended without one nothing is, and
\* the buffer is evaluated as the connection before left it.
Read ==
  /\ on /\ waiting
  /\ LET link == links[served + 1] IN
     /\ link.msgs > 0 \/ link.eof
     /\ bufferer' = IF link.msgs = 0 THEN bufferer
                    ELSE IF link.who = Sensor THEN "door" ELSE link.who
     /\ Count(bufferer')
  /\ served' = served + 1 /\ waiting' = FALSE
  /\ UNCHANGED <<links, zeroed, on, shouldCount, mine>>

Next ==
  \/ Accept \/ Read
  \/ \E p \in Peers : Connect(p)
  \/ \E d \in {0, 59, 60, 61, 90} : Loop(d)
  \/ \E a \in Alunos : Tap(a) \/ Hang(a)

Fairness == WF_doorVars(Accept) /\ WF_doorVars(Read)
Spec == Init /\ [][Next]_doorVars /\ Fairness

-----------------------------------------------------------------------------
TypeOK ==
  /\ served \in 0..Len(links) /\ bufferer \in {"door", "absent"} \cup Alunos
  /\ Range(alunosRA) \subseteq Alunos /\ mine \in [Peers -> 0..MaxLinks]
  /\ {waiting, zeroed, on, shouldCount} \subseteq BOOLEAN

From(who) == {k \in 1..served : links[k].who = who /\ links[k].msgs > 0}
Empty     == {k \in 1..served : links[k].msgs = 0}

\* The counter counts the connections of the sensor on which somebody passed,
\* however many did; a connection that ended without a message may count once
\* more.  A number is listed only if its student sent it, and once if the byte
\* behind it happens to be zero.
DoorListTrue ==
  /\ TypeOK
  /\ doorCounter \in Cardinality(From(Sensor))..(Cardinality(From(Sensor)) + Cardinality(Empty))
  /\ \A i \in DOMAIN alunosRA : From(alunosRA[i]) # {}
  /\ zeroed => \A i, j \in DOMAIN alunosRA : alunosRA[i] = alunosRA[j] => i = j

\* A peer that is connected and says nothing; a sensor that was switched off
\* says nothing for ever.
Silent == \E k \in DOMAIN links : links[k].msgs = 0 /\ ~links[k].eof

\* A message on a connection is read, unless an earlier connection stays
\* silent or the descriptors, which are never closed, run out.
MessageRead ==
  []<>~Silent => \A k \in 1..MaxLinks :
    (k <= Len(links) /\ links[k].msgs > 0) ~> (served >= k \/ ~on)
=============================================================================
