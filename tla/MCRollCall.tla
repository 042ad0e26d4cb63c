----------------------------- MODULE MCRollCall -----------------------------
(* Instances of RollCall and DoorCounter for TLC: an execution is one of the  *)
(* server on port 5000 or one of its copy on port 5001.                       *)
EXTENDS RollCall, TLC

CONSTANTS s1, s2, ra1, long,
          Sensor, Alunos, MaxLinks, MaxFd, MaxMsgs

VARIABLES links, served, waiting, bufferer, doorCounter, alunosRA, zeroed, on,
          shouldCount, mine

Door == INSTANCE DoorCounter

ASSUME DoorAssumption == Door!DoorCounterAssumption

VARIABLE port

doorVars == <<links, served, waiting, bufferer, doorCounter, alunosRA, zeroed, on,
              shouldCount, mine>>

\* An ordinary number, which its student may send over several connections, and
\* one that is too long.
MCOneLong == s1 :> ra1 @@ s2 :> long

\* The server that is not followed keeps one initial state.
BothInit ==
  /\ Init /\ Door!Init
  /\ \/ port = 5000 /\ zeroed /\ bufferer = "door"
     \/ port = 5001 /\ terminated /\ junk = "door"

BothNext ==
  /\ UNCHANGED port
  /\ \/ port = 5000 /\ Next /\ UNCHANGED doorVars
     \/ port = 5001 /\ Door!Next /\ UNCHANGED vars

BothSpec ==
  /\ BothInit /\ [][BothNext]_<<vars, doorVars, port>>
  /\ ServerFairness /\ Door!Fairness

-----------------------------------------------------------------------------
\* What the copy has counted and listed is what was sent to it.
DoorListTrue == Door!DoorListTrue

\* The copy reads what is sent to it.
MessageRead == Door!MessageRead
=============================================================================
