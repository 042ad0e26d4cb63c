----------------------------- MODULE MCP2PClient -----------------------------
(* Instances of the parts of one client for TLC: an execution is one of its   *)
(* threads at the table (P2PClient), one of its contacts and their file       *)
(* (ContactBook), or one of the bytes of its connection (Framing).            *)
EXTENDS P2PClient, TLC

CONSTANTS
  Followed,   \* the parts that are followed
  Kinds,      \* bound: kinds of messages the user sends
  Departing,  \* bound: users that may go away
  Resets,     \* bound: whether the connection to the server may break
  People, MaxGroups, Garbage,
  Writer, Plan, IntBytes, ShortBytes, ShortRange, Margin, Window,
  handler, updater

VARIABLES pc, active, contacts, exists, count, stored, wi, kept, torn, added

Book == INSTANCE ContactBook

VARIABLES todo, sending, stream, closed, error, phase, want, buffer, received,
          got, begun, overlap, split

Wire == INSTANCE Framing

ASSUME BookAssumption == Book!BookAssumption
ASSUME WireAssumption == Wire!FramingAssumption

VARIABLE followed

bookVars == <<pc, active, contacts, exists, count, stored, wi, kept, torn, added>>
wireVars == <<todo, sending, stream, closed, error, phase, want, buffer, received,
              got, begun, overlap, split>>

\* The handler confirms the login once; the updater sends three lists, a longer
\* one before shorter ones, with ports that do and do not fit into a short.
MCList(n, m, p) == [id |-> 2, count |-> n, name |-> m, port |-> p]
MCPlan == handler :> <<[id |-> 1]>>
            @@ updater :> <<MCList(1, 2, 9), MCList(1, 0, 3), MCList(2, 1, 15)>>

Scenario ==
  /\ sends # sends' => kind' \in Kinds
  /\ listening \ listening' \subseteq Departing
  /\ link' = "rst" => Resets

\* A dead process takes no step, and its peers no longer matter.
Explored == up

\* What is not followed keeps its initial state.
PartsInit == Init /\ Book!Init /\ Wire!Init /\ followed \in Followed

PartsNext ==
  /\ UNCHANGED followed
  /\ \/ followed = "threads" /\ Next /\ Scenario /\ UNCHANGED <<bookVars, wireVars>>
     \/ followed = "book" /\ Book!Next /\ UNCHANGED <<vars, wireVars>>
     \/ followed = "bytes" /\ Wire!Next /\ UNCHANGED <<vars, bookVars>>

PartsSpec == PartsInit /\ [][PartsNext]_<<vars, bookVars, wireVars, followed>>

\* The fairness of P2PClient and of Framing, each where it is followed.
FairPartsSpec ==
  /\ PartsSpec
  /\ WF_vars(followed = "threads" /\ ReceiverStep)
  /\ WF_vars(followed = "threads" /\ OperationStep)
  /\ Wire!Fairness

-----------------------------------------------------------------------------
\* What a complete save wrote is in every later book.
SavedSurvives == Book!SavedSurvives

\* The book is what was saved last and what was added since.
RoundTrip == Book!RoundTrip

\* What arrives is what was sent.
MessagesIntact == Wire!MessagesIntact

\* What is sent arrives.
MessageArrives == Wire!MessageArrives
=============================================================================
