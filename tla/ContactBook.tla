----------------------------- MODULE ContactBook -----------------------------
(***************************************************************************)
(* The contacts and broadcast groups of a WhatsAP2P client                 *)
(* (WhatsAp2p-Client.c): the array myGroups, filled by two menu entries,   *)
(* written to contactsBook.amiguinhos only when the user leaves, and read  *)
(* back when the program starts.  The program may be killed at any time;   *)
(* fwrite reaches the disk piece by piece, in order, one group a piece.    *)
(***************************************************************************)
EXTENDS Integers, Sequences, FiniteSets, SequencesExt

CONSTANTS
  People,            \* the contacts the user may type in
  MaxGroups,         \* MAXGROUPS
  MaxGroupContact,   \* MAXGROUPCONTACT
  Garbage            \* a contact read from memory that holds none

BookAssumption ==
  /\ MaxGroups \in Nat \ {0} /\ MaxGroupContact \in Nat \ {0}
  /\ Garbage \notin People

Index     == 0..(MaxGroups - 1)
Contact   == People \cup {Garbage}
Group     == UNION {[1..n -> Contact] : n \in 0..MaxGroupContact}
Unwritten == -1      \* the count of a file nothing was written to

VARIABLES
  pc,        \* "off", "menu", or the stage of the save: "open", "write", "saved"
  active, contacts,        \* myGroups
  \* contactsBook.amiguinhos
  exists, count, stored,
  wi,        \* the group fwrite has come to; 0: the count
  \* history
  kept,      \* the book of the last complete save before the first torn one
  torn,      \* some save was cut short
  added      \* what the user added since the program started

memory == <<active, contacts>>
file   == <<exists, count, stored>>
vars   == <<pc, memory, file, wi, kept, torn, added>>

\* The active entries of myGroups, in their order.
Used   == {i \in Index : active[i]}
Nth(n) == CHOOSE i \in Used : Cardinality({j \in Used : j < i}) = n - 1
Book   == [n \in 1..Cardinality(Used) |-> contacts[Nth(n)]]

\* The entry a contact or a group is put into.
FirstInactive(i) == ~active[i] /\ \A j \in 0..(i - 1) : active[j]

Fill(i, g) ==
  /\ active' = [active EXCEPT ![i] = TRUE]
  /\ contacts' = [contacts EXCEPT ![i] = g]
  /\ added' = Append(added, g)

-----------------------------------------------------------------------------
(* Start of the program: readGroupsFromFile.                               *)

\* Mutant: the groups are counted from one.
LoadedOffByOne(n) == n \in 1..(count - 1)

\* Is there an n-th group to read?
Loaded(n) == n \in 1..count

\* What the parser finds for group n: past the end of what was written the
\* bytes are arbitrary, a size of zero among the possible readings.
Parsed(n) == IF n <= Len(stored) THEN {stored[n]} ELSE {<< >>, <<Garbage>>}

\* An empty file has an arbitrary count.  Since the file is closed twice the
\* C library may also abort here, which leaves everything as it was.
Start ==
  /\ pc = "off"
  /\ pc' = "menu"
  /\ IF exists /\ count # Unwritten
     THEN \E g \in [Index -> Group] :
            /\ \A i \in Index : g[i] \in IF Loaded(i + 1) THEN Parsed(i + 1) ELSE {<< >>}
            /\ contacts' = g
            /\ active' = [i \in Index |-> Loaded(i + 1)]
     ELSE \E n \in IF exists THEN 0..MaxGroups ELSE {0} :
            /\ contacts' = [i \in Index |-> IF i < n THEN <<Garbage>> ELSE << >>]
            /\ active' = [i \in Index |-> i < n]
  /\ added' = << >>
  /\ UNCHANGED <<file, wi, kept, torn>>

-----------------------------------------------------------------------------
(* The menu.                                                               *)

\* OP_ADDCONTACT; with no inactive entry it does nothing (but says it did).
AddContact(p) ==
  /\ pc = "menu"
  /\ \E i \in Index : FirstInactive(i) /\ Fill(i, <<p>>)
  /\ UNCHANGED <<pc, file, wi, kept, torn>>

\* The contact an id stands for: the first of its entry.  MAXGROUPS passes
\* the range test and reads the memory behind myGroups.
Member(id) == IF id \in Index /\ contacts[id] # << >> THEN contacts[id][1] ELSE Garbage

\* The ids MAKEGROUP takes; the entry at MAXGROUPS may look active.
Choosable == Used \cup {MaxGroups}

\* OP_MAKEGROUP: ids until -1 or until the group is full.
MakeGroup ==
  /\ pc = "menu"
  /\ \E i \in Index, n \in 1..MaxGroupContact :
       /\ FirstInactive(i)
       /\ \E ids \in [1..n -> Choosable] :
            Fill(i, [m \in 1..n |-> Member(ids[m])])
  /\ UNCHANGED <<pc, file, wi, kept, torn>>

\* OP_LEAVE: serializeGroupsToFile, saveBufferToFile.
Leave ==
  /\ pc = "menu"
  /\ pc' = "open"
  /\ UNCHANGED <<memory, file, wi, kept, torn, added>>

\* Mutant: the file is always opened with "w".
SaveOpenTruncating ==
  /\ pc = "open"
  /\ exists' = TRUE /\ count' = Unwritten /\ stored' = << >>
  /\ pc' = "write" /\ wi' = 0
  /\ UNCHANGED <<memory, kept, torn, added>>

\* fopen "r+" keeps the contents; a missing file is first created empty.
SaveOpen ==
  /\ pc = "open"
  /\ exists' = TRUE
  /\ pc' = "write" /\ wi' = 0
  /\ UNCHANGED <<memory, count, stored, kept, torn, added>>

\* The count of the file: entries that are active and not empty, while every
\* active one is written.
NumberOfGroups == Cardinality({i \in Index : active[i] /\ contacts[i] # << >>})

\* Group n of the new contents reaches the disk.  When its bytes differ from
\* what was there, what follows on the disk is no longer where it belongs.
Overwrite(n, g) ==
  IF n <= Len(stored) /\ stored[n] = g THEN stored
  ELSE Append(SubSeq(stored, 1, n - 1), g)

SaveWrite ==
  /\ pc = "write"
  /\ IF wi = 0
     THEN count' = NumberOfGroups /\ UNCHANGED stored
     ELSE stored' = Overwrite(wi, Book[wi]) /\ UNCHANGED count
  /\ IF wi < Len(Book)
     THEN wi' = wi + 1 /\ UNCHANGED <<pc, kept>>
     ELSE pc' = "saved" /\ kept' = (IF torn THEN kept ELSE Book) /\ UNCHANGED wi
  /\ UNCHANGED <<memory, exists, torn, added>>

\* fwrite stops early, the disk being full; its result is not looked at.
SaveShort ==
  /\ pc = "write"
  /\ pc' = "saved"
  /\ torn' = TRUE
  /\ UNCHANGED <<memory, file, wi, kept, added>>

\* DISCONNECT_REQUEST, exit(0).
Exit ==
  /\ pc = "saved"
  /\ pc' = "off"
  /\ UNCHANGED <<memory, file, wi, kept, torn, added>>

\* The process is killed; in the middle of a save the rest is never written.
Crash ==
  /\ pc # "off"
  /\ pc' = "off"
  /\ torn' = (torn \/ pc = "write")
  /\ UNCHANGED <<memory, file, wi, kept, added>>

-----------------------------------------------------------------------------
Init ==
  /\ pc = "off"
  /\ active = [i \in Index |-> FALSE]
  /\ contacts = [i \in Index |-> << >>]
  /\ exists = FALSE /\ count = Unwritten /\ stored = << >>
  /\ wi = 0
  /\ kept = << >> /\ torn = FALSE /\ added = << >>

Next == \/ Start \/ Leave \/ SaveOpen \/ SaveWrite \/ SaveShort \/ Exit \/ Crash
        \/ MakeGroup \/ \E p \in People : AddContact(p)

Spec == Init /\ [][Next]_vars

-----------------------------------------------------------------------------
(* What the book owes its user.                                            *)

\* Types.
TypeOK ==
  /\ pc \in {"off", "menu", "open", "write", "saved"}
  /\ active \in [Index -> BOOLEAN]
  /\ contacts \in [Index -> Group]
  /\ exists \in BOOLEAN
  /\ count \in {Unwritten} \cup 0..MaxGroups
  /\ stored \in Seq(Group) /\ Len(stored) <= MaxGroups
  /\ wi \in 0..MaxGroups
  /\ kept \in Seq(Group) /\ added \in Seq(Group)
  /\ torn \in BOOLEAN

\* What a complete save wrote is in every later book, under the same ids,
\* whatever kills the program and wherever a later save is cut short: the
\* groups in use never have a gap, so a save only ever extends the file.
SavedSurvives == pc # "off" => IsPrefix(kept, Book)

\* As long as no save was cut short, the book is what was saved last followed
\* by what the user added since the start: nothing is lost, invented or moved.
RoundTrip ==
  /\ TypeOK
  /\ pc # "off" /\ ~torn => Book = IF pc = "saved" THEN kept ELSE kept \o added
=============================================================================
