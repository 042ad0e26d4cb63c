--------------------------- MODULE RollCallProofs ---------------------------
(* Theorems about the roll call servers: RollCall, for any number of students *)
(* and connections and any size of the list, and the sequential copy, for any *)
(* set of students and any number of connections and messages.                *)
EXTENDS MCRollCall, FiniteSetTheorems, SequenceTheorems, WellFoundedInduction, TLAPS

USE RollCallAssumption

\* The loop around waitpid is a lock: one child at a time, and none while the
\* parent accepts.
Alone ==
  /\ \A j, k \in Conns : cpc[j] \in Live /\ cpc[k] \in Live => j = k
  /\ mpc = "accept" => \A k \in Conns : cpc[k] \notin Live

\* Connections are numbered as they come, and those there are have an owner.
InOrder   == \E n \in 0..MaxConns : \A k \in Conns : owner[k] # NoOne <=> k <= n
Connected == \A k \in Conns : owner[k] = NoOne <=> cpc[k] = "none"

\* Every passage was counted, and the child in doorCounter++ holds the counter.
Counted ==
  /\ doors = Cardinality(passages)
  /\ \A k \in passages : cpc[k] \in {"close", "done"}
  /\ \A k \in Conns : cpc[k] = "passed" => loaded[k] = doors

\* A number about to be stored is still not on the list.
Unlisted ==
  terminated => ListedOnce /\ \A k \in Conns : cpc[k] = "store" => ~Listed(got[k])

\* An answer is about the number of the connection's owner.
Answered ==
  /\ \A k \in Conns : reply[k] => owner[k] # NoOne /\ Listed(Ra[owner[k]])
  /\ \A k \in Conns : cpc[k] = "scan" /\ ~eof[k] => got[k] = Ra[owner[k]]
Own == \A s \in Students : app[s] = "action" => cur[s] \in Conns /\ owner[cur[s]] = s

IInv == TypeOK /\ Alone /\ InOrder /\ Connected /\ Counted /\ Unlisted
          /\ Answered /\ Own /\ ConfirmedIsListed

-----------------------------------------------------------------------------
(* The numbering of connections and the queue.                              *)

LEMMA OpenedIsPrefix ==
  ASSUME TypeOK, InOrder
  PROVE  Opened \in 0..MaxConns /\ \A k \in Conns : owner[k] # NoOne <=> k <= Opened
<1>1. PICK n \in 0..MaxConns : \A k \in Conns : owner[k] # NoOne <=> k <= n
  BY DEF InOrder
<1>2. {k \in Conns : owner[k] # NoOne} = 1..n
  BY <1>1 DEF Conns
<1>3. Cardinality(1..n) = n
  BY FS_Interval
<1>4. Opened = n
  BY <1>2, <1>3 DEF Opened
<1>5. QED BY <1>1, <1>4

LEMMA QueueHasFirst ==
  ASSUME NEW k \in Conns, cpc[k] = "queued"
  PROVE  FirstQueued \in Conns /\ cpc[FirstQueued] = "queued"
<1> DEFINE T == {j \in Conns : cpc[j] = "queued"}
<1>1. T \subseteq Nat /\ T # {}
  BY DEF Conns
<1>2. PICK x \in T : \A y \in T : <<y, x>> \notin OpToRel(<, Nat)
  BY <1>1, NatLessThanWellFounded, WFMin
<1>3. \A y \in T : ~(y < x)
  BY <1>1, <1>2 DEF OpToRel
<1>4. \A j \in 1..(x - 1) : cpc[j] # "queued"
  BY <1>1, <1>3 DEF Conns
<1>5. QED
  BY <1>4 DEF FirstQueued

LEMMA PassageAdded ==
  ASSUME TypeOK, NEW k \in Conns \ passages
  PROVE  /\ Cardinality(passages \cup {k}) = Cardinality(passages) + 1
         /\ Cardinality(passages \cup {k}) \in 0..MaxConns
<1>1. IsFiniteSet(Conns) /\ Cardinality(Conns) = MaxConns
  BY FS_Interval DEF Conns
<1>2. IsFiniteSet(passages) /\ passages \cup {k} \subseteq Conns
  BY <1>1, FS_Subset DEF TypeOK
<1>3. Cardinality(passages \cup {k}) = Cardinality(passages) + 1
  BY <1>2, FS_AddElement
<1>4. Cardinality(passages) \in Nat /\ Cardinality(passages \cup {k}) <= MaxConns
  BY <1>1, <1>2, FS_Subset, FS_CardinalityType
<1>5. QED BY <1>3, <1>4

LEMMA InitIInv == Init => IInv
<1> SUFFICES ASSUME Init PROVE IInv
  OBVIOUS
<1>1. TypeOK
  <2>1. list \in Seq(Ras) /\ Len(list) <= MaxRas
    BY DEF Init
  <2>2. JunkRa \in Ras
    BY DEF Ras
  <2>3. /\ doors \in 0..MaxConns /\ loaded \in [Conns -> 0..MaxConns]
        /\ inbox \in [Conns -> 0..MaxTaps] /\ got \in [Conns -> Ras]
    BY <2>2 DEF Init
  <2>4. cpc \in [Conns -> Live \cup {"none", "queued", "done"}]
    BY DEF Init
  <2>5. /\ owner \in [Conns -> Students \cup {NoOne}] /\ cur \in [Students -> {0} \cup Conns]
        /\ app \in [Students -> {"login", "connecting", "stuck", "action"}]
    BY DEF Init
  <2>6. QED BY <2>1, <2>3, <2>4, <2>5 DEF Init, TypeOK
<1>2. InOrder
  <2>1. 0 \in 0..MaxConns /\ \A k \in Conns : owner[k] # NoOne <=> k <= 0
    BY DEF Init, Conns
  <2>2. QED BY <2>1 DEF InOrder
<1>3. Counted
  BY FS_EmptySet DEF Init, Counted
<1>4. QED
  BY <1>1, <1>2, <1>3 DEF Init, IInv, Alone, Live, Connected, Unlisted, ListedOnce,
     Answered, Own, ConfirmedIsListed

-----------------------------------------------------------------------------
(* The steps.                                                               *)

LEMMA AppInv ==
  ASSUME IInv, NEW s \in Students, App(s)
  PROVE  IInv'
<1> USE DEF shared, conns, children, apps
<1>1. ASSUME ConnectAction(s) PROVE IInv'
  BY <1>1 DEF IInv, TypeOK, ConnectAction, Alone, InOrder, Connected, Counted, Unlisted,
     ListedOnce, Listed, Answered, Own, ConfirmedIsListed
<1>2. ASSUME ErrorOccurred(s) PROVE IInv'
  BY <1>2 DEF IInv, TypeOK, ErrorOccurred, Alone, InOrder, Connected, Counted, Unlisted,
     ListedOnce, Listed, Answered, Own, ConfirmedIsListed
<1>3. ASSUME PresentAction(s) PROVE IInv'
  BY <1>3 DEF IInv, TypeOK, PresentAction, Alone, InOrder, Connected, Counted, Unlisted,
     ListedOnce, Listed, Answered, Own, ConfirmedIsListed
<1>4. ASSUME Back(s) PROVE IInv'
  <2>1. TypeOK'
    BY <1>4 DEF Back, Disconnect, IInv, TypeOK
  <2>2. Alone' /\ InOrder' /\ Connected' /\ Counted'
    BY <1>4 DEF Back, Disconnect, IInv, Alone, InOrder, Connected, Counted
  <2>3. Unlisted' /\ ConfirmedIsListed'
    BY <1>4 DEF Back, Disconnect, IInv, Unlisted, ListedOnce, Listed, Answered, Own, ConfirmedIsListed
  <2>4. Answered'
    BY <1>4 DEF Back, Disconnect, IInv, TypeOK, Answered, Listed
  <2>5. Own'
    BY <1>4 DEF Back, Disconnect, IInv, TypeOK, Own
  <2>6. QED BY <2>1, <2>2, <2>3, <2>4, <2>5 DEF IInv
<1>5. ASSUME DidReceiveData(s) PROVE IInv'
  <2>1. TypeOK'
    BY <1>5 DEF DidReceiveData, Disconnect, IInv, TypeOK
  <2>2. Alone' /\ InOrder' /\ Connected' /\ Counted'
    BY <1>5 DEF DidReceiveData, Disconnect, IInv, Alone, InOrder, Connected, Counted
  <2>3. Unlisted' /\ ConfirmedIsListed'
    BY <1>5 DEF DidReceiveData, Disconnect, IInv, Unlisted, ListedOnce, Listed, Answered, Own, ConfirmedIsListed
  <2>4. Answered'
    BY <1>5 DEF DidReceiveData, Disconnect, IInv, TypeOK, Answered, Listed
  <2>5. Own'
    BY <1>5 DEF DidReceiveData, Disconnect, IInv, TypeOK, Own
  <2>6. QED BY <2>1, <2>2, <2>3, <2>4, <2>5 DEF IInv
<1>6. ASSUME DidConnect(s) PROVE IInv'
  <2> DEFINE k == Opened + 1
  <2>1. k \in Conns /\ \A j \in Conns : owner[j] # NoOne <=> j < k
    BY <1>6, OpenedIsPrefix DEF IInv, DidConnect, Conns
  <2>2. /\ owner' = [owner EXCEPT ![k] = s] /\ cpc' = [cpc EXCEPT ![k] = "queued"]
        /\ cur' = [cur EXCEPT ![s] = k] /\ app' = [app EXCEPT ![s] = "action"]
        /\ UNCHANGED <<shared, mpc, inbox, eof, reply, got, loaded, confirmed, passages>>
    BY <1>6 DEF DidConnect
  <2> HIDE DEF k
  <2>3. cpc[k] = "none" /\ owner[k] = NoOne
    BY <2>1 DEF IInv, Connected, Conns
  <2>4. TypeOK'
    BY <2>1, <2>2 DEF IInv, TypeOK
  <2>5. InOrder'
    <3>1. \A j \in Conns : owner'[j] # NoOne <=> j <= k
      BY <2>1, <2>2 DEF IInv, TypeOK, Conns
    <3>2. QED BY <2>1, <3>1 DEF InOrder, Conns
  <2>6. Counted'
    BY <2>1, <2>2, <2>3 DEF IInv, TypeOK, Counted
  <2>7. Alone' /\ Connected'
    BY <2>1, <2>2, <2>3 DEF IInv, TypeOK, Alone, Live, Connected
  <2>8. Unlisted' /\ ConfirmedIsListed'
    BY <2>1, <2>2, <2>3 DEF IInv, TypeOK, Unlisted, ListedOnce, Listed, ConfirmedIsListed
  <2>9. Answered'
    BY <2>1, <2>2, <2>3 DEF IInv, TypeOK, Answered, Listed
  <2>10. Own'
    BY <2>1, <2>2, <2>3 DEF IInv, TypeOK, Own
  <2>11. QED BY <2>4, <2>5, <2>6, <2>7, <2>8, <2>9, <2>10 DEF IInv
<1>7. QED BY <1>1, <1>2, <1>3, <1>4, <1>5, <1>6 DEF App

LEMMA ParentInv ==
  ASSUME IInv, Accept \/ AcceptNoFork \/ Reap
  PROVE  IInv'
<1> USE DEF shared, conns, children, apps
<1>1. CASE Reap
  BY <1>1 DEF IInv, TypeOK, Reap, Alone, InOrder, Connected, Counted, Unlisted,
     ListedOnce, Listed, Answered, Own, ConfirmedIsListed
<1>2. ASSUME NEW st \in {"recv", "done"}, mpc = "accept", mpc' = "wait",
             \E k \in Conns : cpc[k] = "queued",
             cpc' = [cpc EXCEPT ![FirstQueued] = st],
             UNCHANGED <<shared, conns, got, loaded, apps, confirmed, passages>>
      PROVE  IInv'
  <2> DEFINE k == FirstQueued
  <2>1. k \in Conns /\ cpc[k] = "queued"
    BY <1>2, QueueHasFirst
  <2>2. cpc' = [cpc EXCEPT ![k] = st]
    BY <1>2
  <2> HIDE DEF k
  <2>3. TypeOK'
    <3>1. st \in Live \cup {"none", "queued", "done"}
      BY DEF Live
    <3>2. cpc' \in [Conns -> Live \cup {"none", "queued", "done"}]
      BY <2>2, <3>1 DEF IInv, TypeOK
    <3>3. mpc' \in {"accept", "wait"}
      BY <1>2
    <3>4. UNCHANGED <<shared, conns, got, loaded, apps, confirmed, passages>>
      BY <1>2
    <3>5. QED BY <3>2, <3>3, <3>4 DEF IInv, TypeOK
  <2>4. Alone' /\ Connected' /\ InOrder'
    BY <1>2, <2>1, <2>2 DEF IInv, TypeOK, Alone, Live, Connected, InOrder
  <2>5. Counted' /\ Unlisted' /\ ConfirmedIsListed'
    BY <1>2, <2>1, <2>2 DEF IInv, TypeOK, Counted, Unlisted, ListedOnce, Listed, ConfirmedIsListed
  <2>6. Answered' /\ Own'
    BY <1>2, <2>1, <2>2 DEF IInv, TypeOK, Answered, Listed, Own
  <2>7. QED BY <2>3, <2>4, <2>5, <2>6 DEF IInv
<1>3. QED BY <1>1, <1>2 DEF Accept, AcceptNoFork

LEMMA ChildInv ==
  ASSUME IInv, NEW k \in Conns, Child(k)
  PROVE  IInv'
<1> USE DEF shared, conns, children, apps
<1>1. ASSUME Recv(k) PROVE IInv'
  <2>1. owner[k] \in Students /\ Ra[owner[k]] \in Ras
    BY <1>1 DEF Recv, IInv, TypeOK, Connected, Ras
  <2>2. TypeOK'
    BY <1>1, <2>1 DEF Recv, IInv, TypeOK, Goto, Live
  <2>3. QED
    BY <1>1, <2>2 DEF Recv, Goto, IInv, TypeOK, Alone, Live, InOrder, Connected, Counted,
       Unlisted, ListedOnce, Listed, Answered, Own, ConfirmedIsListed
<1>2. ASSUME RecvEnd(k) PROVE IInv'
  <2>1. TypeOK'
    BY <1>2 DEF RecvEnd, Goto, IInv, TypeOK, Live, Ras
  <2>2. Alone' /\ InOrder' /\ Connected'
    BY <1>2 DEF RecvEnd, Goto, IInv, TypeOK, Alone, Live, InOrder, Connected
  <2>3. Counted'
    BY <1>2 DEF RecvEnd, Goto, IInv, TypeOK, Alone, Live, Counted
  <2>4. Unlisted' /\ ConfirmedIsListed'
    BY <1>2 DEF RecvEnd, Goto, IInv, TypeOK, Unlisted, ListedOnce, Listed, ConfirmedIsListed
  <2>5. Answered' /\ Own'
    BY <1>2 DEF RecvEnd, Goto, IInv, TypeOK, Answered, Listed, Own
  <2>6. QED BY <2>1, <2>2, <2>3, <2>4, <2>5 DEF IInv
<1>3. ASSUME DoorLoad(k) PROVE IInv'
  <2>1. TypeOK'
    BY <1>3 DEF DoorLoad, Goto, IInv, TypeOK, Live, Ras
  <2>2. Alone' /\ InOrder' /\ Connected'
    BY <1>3 DEF DoorLoad, Goto, IInv, TypeOK, Alone, Live, InOrder, Connected
  <2>3. Counted'
    BY <1>3 DEF DoorLoad, Goto, IInv, TypeOK, Alone, Live, Counted
  <2>4. Unlisted' /\ ConfirmedIsListed'
    BY <1>3 DEF DoorLoad, Goto, IInv, TypeOK, Unlisted, ListedOnce, Listed, ConfirmedIsListed
  <2>5. Answered' /\ Own'
    BY <1>3 DEF DoorLoad, Goto, IInv, TypeOK, Answered, Listed, Own
  <2>6. QED BY <2>1, <2>2, <2>3, <2>4, <2>5 DEF IInv
<1>4. ASSUME DoorStore(k) PROVE IInv'
  <2>1. k \notin passages /\ loaded[k] = Cardinality(passages)
    BY <1>4 DEF DoorStore, IInv, Counted
  <2>2. doors' = Cardinality(passages') /\ doors' \in 0..MaxConns
    BY <1>4, <2>1, PassageAdded DEF DoorStore, IInv
  <2>3. TypeOK'
    BY <1>4, <2>2 DEF DoorStore, IInv, TypeOK, Goto, Live
  <2>4. Counted'
    BY <1>4, <2>2 DEF DoorStore, Goto, IInv, TypeOK, Alone, Live, Counted
  <2>5. QED
    BY <1>4, <2>3, <2>4 DEF DoorStore, Goto, IInv, TypeOK, Alone, Live, InOrder, Connected,
       Unlisted, ListedOnce, Listed, Answered, Own, ConfirmedIsListed
<1>5. ASSUME Scan(k) PROVE IInv'
  <2>1. OnList(got[k]) => Listed(got[k])
    BY DEF OnList, Listed
  <2>2. terminated /\ ~OnList(got[k]) => ~Listed(got[k])
    BY DEF OnList, Listed
  <2>3. TypeOK'
    BY <1>5 DEF Scan, IInv, TypeOK, Goto, Live
  <2>4. Answered'
    BY <1>5, <2>1 DEF Scan, Goto, IInv, TypeOK, Connected, Answered, Listed
  <2>5. Unlisted'
    BY <1>5, <2>2 DEF Scan, Goto, IInv, TypeOK, Unlisted, ListedOnce, Listed
  <2>6. QED
    BY <1>5, <2>3, <2>4, <2>5 DEF Scan, Goto, IInv, TypeOK, Alone, Live, InOrder, Connected,
       Counted, Own, ConfirmedIsListed
<1>6. ASSUME Store(k) PROVE IInv'
  <2>1. list \in Seq(Ras) /\ got[k] \in Ras /\ Len(list) <= MaxRas
    BY DEF IInv, TypeOK
  <2>2. TypeOK'
    <3>1. list' \in Seq(Ras) /\ Len(list') <= MaxRas /\ corrupted' \in BOOLEAN
      <4>1. CASE Len(list) < MaxRas
        <5>1. list' = Append(list, got[k]) /\ corrupted' = corrupted
          BY <1>6, <4>1 DEF Store
        <5>2. Len(list') = Len(list) + 1 /\ list' \in Seq(Ras)
          BY <2>1, <5>1, AppendProperties
        <5>3. Len(list) \in Nat /\ corrupted \in BOOLEAN
          BY <2>1, LenProperties DEF IInv, TypeOK
        <5>4. Len(list') <= MaxRas
          BY <4>1, <5>2, <5>3
        <5>5. QED BY <5>1, <5>2, <5>3, <5>4
      <4>2. CASE ~(Len(list) < MaxRas)
        BY <1>6, <2>1, <4>2 DEF Store
      <4>3. QED BY <4>1, <4>2
    <3>2. QED BY <1>6, <3>1 DEF Store, IInv, TypeOK, Goto, Live
  <2>3. \A ra : Listed(ra) => Listed(ra)'
    BY <1>6, <2>1 DEF Store, Listed
  <2>4. Unlisted'
    <3>1. \A j \in Conns : cpc'[j] # "store"
      BY <1>6 DEF Store, Goto, IInv, TypeOK, Alone, Live
    <3>2. terminated => ListedOnce /\ ~Listed(got[k])
      BY <1>6 DEF Store, IInv, Unlisted
    <3>3. CASE list' = Append(list, got[k])
      BY <1>6, <2>1, <3>1, <3>2, <3>3 DEF Store, Unlisted, ListedOnce, Listed
    <3>4. CASE UNCHANGED list
      BY <1>6, <3>1, <3>2, <3>4 DEF Store, Unlisted, ListedOnce
    <3>5. QED BY <1>6, <3>3, <3>4 DEF Store
  <2>5. ConfirmedIsListed'
    BY <1>6, <2>1 DEF Store, IInv, ConfirmedIsListed
  <2>6. Answered'
    BY <1>6, <2>3 DEF Store, Goto, IInv, TypeOK, Answered
  <2>7. QED
    BY <1>6, <2>2, <2>4, <2>5, <2>6 DEF Store, Goto, IInv, TypeOK, Alone, Live, InOrder,
       Connected, Counted, Own
<1>7. ASSUME Close(k) PROVE IInv'
  <2>1. TypeOK'
    BY <1>7 DEF Close, IInv, TypeOK, Goto, Live
  <2>2. QED
    BY <1>7, <2>1 DEF Close, Goto, IInv, TypeOK, Alone, Live, InOrder, Connected, Counted,
       Unlisted, ListedOnce, Listed, Answered, Own, ConfirmedIsListed
<1>8. QED BY <1>1, <1>2, <1>3, <1>4, <1>5, <1>6, <1>7 DEF Child

LEMMA Inductive == Spec => []IInv
<1>1. ASSUME IInv, [Next]_vars PROVE IInv'
  <2>1. CASE UNCHANGED vars
    <3> USE <1>1, <2>1 DEF vars, shared, conns, children, apps, IInv
    <3>1. TypeOK'
      BY DEF TypeOK
    <3>2. Alone' /\ InOrder' /\ Connected' /\ Counted'
      BY DEF Alone, InOrder, Connected, Counted
    <3>3. Unlisted' /\ Answered' /\ Own' /\ ConfirmedIsListed'
      BY DEF Unlisted, ListedOnce, Listed, Answered, Own, ConfirmedIsListed
    <3>4. QED BY <3>1, <3>2, <3>3
  <2>2. QED BY <1>1, <2>1, AppInv, ParentInv, ChildInv DEF Next, Server
<1>2. QED BY <1>1, InitIInv, PTL DEF Spec

\* Nothing locks the shared memory, and still no number is listed twice (the
\* byte behind it being zero) and no passage is lost, in every interleaving of
\* the parent and its children: because of the loop around waitpid.
THEOREM MemoryIsRight == Spec => []MemoryRight
<1>1. IInv => MemoryRight
  BY DEF IInv, MemoryRight, ListedOnceIfTerminated, PassagesCounted, Unlisted, Counted
<1>2. QED BY <1>1, Inductive, PTL

\* A student the app told "Confirmed!" is on the list.
THEOREM ConfirmationIsTrue == Spec => []ConfirmedIsListed
<1>1. IInv => ConfirmedIsListed
  BY DEF IInv
<1>2. QED BY <1>1, Inductive, PTL

-----------------------------------------------------------------------------
(* The sequential copy: its counter and its list.                           *)

DoorLink == [who : Door!Peers, msgs : Nat, eof : BOOLEAN]

\* The connections of who among the first n of L with a message, and those of
\* anybody without one.
FromOf(who, n, L) == {k \in 1..n : L[k].who = who /\ L[k].msgs > 0}
EmptyOf(n, L)     == {k \in 1..n : L[k].msgs = 0}

DoorTyped ==
  /\ links \in Seq(DoorLink) /\ served \in 0..Len(links)
  /\ bufferer \in {"door", "absent"} \cup Alunos
  /\ doorCounter \in Nat /\ alunosRA \in Seq(Alunos)
  /\ mine \in [Door!Peers -> 0..MaxLinks] /\ Len(links) <= MaxLinks
  /\ {waiting, zeroed, on, shouldCount} \subseteq BOOLEAN

\* A peer speaks on its last connection, which is its own and has not ended.
OwnLink == \A p \in Door!Peers : mine[p] # 0 =>
         mine[p] \in 1..Len(links) /\ links[mine[p]].who = p /\ ~links[mine[p]].eof

\* What was read of a connection is settled: without a message it had ended.
DoorSettled ==
  /\ waiting => served < Len(links)
  /\ \A k \in 1..served : links[k].msgs > 0 \/ links[k].eof

DoorCounted ==
  LET f == Cardinality(FromOf(Sensor, served, links))
      e == Cardinality(EmptyOf(served, links))
  IN  f <= doorCounter /\ doorCounter <= f + e

\* A number in the list or in the buffer came from its student.
DoorSent ==
  /\ \A i \in DOMAIN alunosRA : FromOf(alunosRA[i], served, links) # {}
  /\ bufferer \in Alunos => FromOf(bufferer, served, links) # {}

DoorOnce == zeroed => \A i, j \in DOMAIN alunosRA : alunosRA[i] = alunosRA[j] => i = j

DoorInv == DoorTyped /\ OwnLink /\ DoorSettled /\ DoorCounted /\ DoorSent /\ DoorOnce

LEMMA LinkFacts ==
  ASSUME DoorTyped
  PROVE  /\ Len(links) \in Nat /\ DOMAIN links = 1..Len(links) /\ served \in Nat
         /\ \A k \in 1..Len(links) : links[k] \in DoorLink
  BY LenProperties, ElementOfSeq DEF DoorTyped

LEMMA SetsFinite ==
  ASSUME NEW n \in Nat, NEW L, NEW who
  PROVE  /\ IsFiniteSet(FromOf(who, n, L)) /\ Cardinality(FromOf(who, n, L)) \in Nat
         /\ IsFiniteSet(EmptyOf(n, L)) /\ Cardinality(EmptyOf(n, L)) \in Nat
<1>1. IsFiniteSet(1..n)
  BY FS_Interval
<1>2. FromOf(who, n, L) \in SUBSET (1..n) /\ EmptyOf(n, L) \in SUBSET (1..n)
  BY DEF FromOf, EmptyOf
<1>3. IsFiniteSet(FromOf(who, n, L)) /\ IsFiniteSet(EmptyOf(n, L))
  BY <1>1, <1>2, FS_Subset
<1>4. QED BY <1>3, FS_CardinalityType

\* What peers do leaves the connections that were read as they were.
LEMMA PeersKeep ==
  ASSUME DoorInv, NEW L, L = links', links' \in Seq(DoorLink), Len(links) <= Len(links'),
         Len(links') <= MaxLinks,
         \A k \in 1..served : L[k].who = links[k].who /\ (L[k].msgs > 0 <=> links[k].msgs > 0)
                                /\ (links[k].eof => L[k].eof),
         UNCHANGED Door!doorServer, shouldCount' \in BOOLEAN,
         mine' \in [Door!Peers -> 0..MaxLinks], OwnLink'
  PROVE  DoorInv'
<1>1. UNCHANGED <<served, waiting, bufferer, doorCounter, alunosRA, zeroed, on>>
  BY DEF Door!doorServer
<1>2. Len(links) \in Nat /\ Len(L) \in Nat /\ served \in 0..Len(links)
      /\ (\A k \in 1..Len(links) : links[k] \in DoorLink) /\ \A k \in 1..Len(L) : L[k] \in DoorLink
  BY LenProperties, ElementOfSeq, LinkFacts DEF DoorInv, DoorTyped
<1>3. DoorTyped'
  BY <1>1, <1>2 DEF DoorInv, DoorTyped
<1>4. DoorSettled'
  BY <1>1, <1>2 DEF DoorInv, DoorSettled
<1>5. \A who : FromOf(who, served, L) = FromOf(who, served, links)
  BY DEF FromOf
<1>6. EmptyOf(served, L) = EmptyOf(served, links)
  <2>1. \A k \in 1..served : links[k].msgs \in Nat /\ L[k].msgs \in Nat
    BY <1>2 DEF DoorLink
  <2>2. QED BY <2>1 DEF EmptyOf
<1>7. DoorCounted'
  BY <1>1, <1>5, <1>6 DEF DoorInv, DoorCounted
<1>8. DoorSent' /\ DoorOnce'
  BY <1>1, <1>5 DEF DoorInv, DoorSent, DoorOnce
<1>9. QED BY <1>3, <1>4, <1>7, <1>8 DEF DoorInv

LEMMA ConnectStep ==
  ASSUME Door!DoorCounterAssumption, DoorInv, NEW p \in Door!Peers, Door!Connect(p)
  PROVE  DoorInv'
<1> DEFINE link == [who |-> p, msgs |-> 0, eof |-> FALSE]
           L == Append(links, link)
<1>1. Len(links) \in Nat /\ served \in 0..Len(links) /\ links \in Seq(DoorLink) /\ link \in DoorLink
  BY LinkFacts DEF DoorInv, DoorTyped, DoorLink
<1>2. /\ Len(links) < MaxLinks /\ links' = L /\ UNCHANGED Door!doorServer
      /\ mine' = [mine EXCEPT ![p] = Len(links) + 1]
      /\ shouldCount' = (p = Sensor \/ shouldCount)
  BY DEF Door!Connect
<1>3. /\ L \in Seq(DoorLink) /\ Len(L) = Len(links) + 1 /\ L[Len(links) + 1] = link
      /\ \A k \in 1..Len(links) : L[k] = links[k]
  BY <1>1, AppendProperties
<1> HIDE DEF L
<1>4. shouldCount' \in BOOLEAN
  BY <1>2 DEF DoorInv, DoorTyped
<1>5. mine' \in [Door!Peers -> 0..MaxLinks]
  BY <1>1, <1>2 DEF DoorInv, DoorTyped, Door!DoorCounterAssumption
<1>6. OwnLink'
  <2> SUFFICES ASSUME NEW q \in Door!Peers, mine'[q] # 0
               PROVE mine'[q] \in 1..Len(L) /\ L[mine'[q]].who = q /\ ~L[mine'[q]].eof
    BY <1>2 DEF OwnLink
  <2>1. CASE q = p
    BY <1>1, <1>2, <1>3, <2>1 DEF DoorInv, DoorTyped
  <2>2. CASE q # p
    <3>1. mine'[q] = mine[q]
      BY <1>2, <2>2 DEF DoorInv, DoorTyped
    <3>2. QED BY <1>1, <1>3, <3>1 DEF DoorInv, OwnLink
  <2>3. QED BY <2>1, <2>2
<1>7. Len(links) <= Len(L) /\ Len(L) <= MaxLinks
  BY <1>1, <1>2, <1>3 DEF Door!DoorCounterAssumption
<1>8. \A k \in 1..served : L[k] = links[k]
  BY <1>1, <1>3
<1>9. QED BY <1>2, <1>3, <1>4, <1>5, <1>6, <1>7, <1>8, PeersKeep

\* A message or an end on the connection of p.
LEMMA SpeakStep ==
  ASSUME Door!DoorCounterAssumption, DoorInv, NEW p \in Door!Peers, mine[p] # 0, NEW x \in DoorLink,
         links' = [links EXCEPT ![mine[p]] = x],
         x.who = p, links[mine[p]].msgs > 0 => x.msgs > 0,
         \/ mine' = mine /\ ~x.eof
         \/ mine' = [mine EXCEPT ![p] = 0] /\ x.msgs = links[mine[p]].msgs,
         UNCHANGED Door!doorServer, shouldCount' \in BOOLEAN
  PROVE  DoorInv'
<1>1. /\ Len(links) \in Nat /\ served \in 0..Len(links) /\ links \in Seq(DoorLink)
      /\ mine[p] \in 1..Len(links) /\ links[mine[p]].who = p /\ ~links[mine[p]].eof
      /\ DOMAIN links = 1..Len(links) /\ \A k \in 1..Len(links) : links[k] \in DoorLink
  BY LinkFacts DEF DoorInv, DoorTyped, OwnLink
<1> DEFINE L == [links EXCEPT ![mine[p]] = x]
<1>2. /\ L \in Seq(DoorLink) /\ Len(L) = Len(links)
      /\ \A k \in 1..Len(links) : L[k] = IF k = mine[p] THEN x ELSE links[k]
  BY <1>1, ExceptSeq
<1>3. links' = L
  OBVIOUS
<1> HIDE DEF L
<1>4. \A k \in 1..served : /\ L[k].who = links[k].who
                           /\ L[k].msgs > 0 <=> links[k].msgs > 0
                           /\ links[k].eof => L[k].eof
  <2> SUFFICES ASSUME NEW k \in 1..served
               PROVE /\ L[k].who = links[k].who
                     /\ L[k].msgs > 0 <=> links[k].msgs > 0
                     /\ links[k].eof => L[k].eof
    OBVIOUS
  <2>1. k \in 1..Len(links)
    BY <1>1
  <2>2. CASE k # mine[p]
    BY <1>2, <2>1, <2>2
  <2>3. CASE k = mine[p]
    <3>1. links[k].msgs > 0
      BY <1>1, <2>3 DEF DoorInv, DoorSettled
    <3>2. QED BY <1>1, <1>2, <2>1, <2>3, <3>1
  <2>4. QED BY <2>2, <2>3
<1>5. mine' \in [Door!Peers -> 0..MaxLinks]
  BY DEF DoorInv, DoorTyped, Door!DoorCounterAssumption
<1>6. OwnLink'
  <2> SUFFICES ASSUME NEW q \in Door!Peers, mine'[q] # 0
               PROVE mine'[q] \in 1..Len(L) /\ L[mine'[q]].who = q /\ ~L[mine'[q]].eof
    BY <1>3 DEF OwnLink
  <2>1. mine'[q] = mine[q] /\ (q = p => mine' = mine /\ ~x.eof)
    BY DEF DoorInv, DoorTyped
  <2>2. mine[q] \in 1..Len(links) /\ links[mine[q]].who = q /\ ~links[mine[q]].eof
    BY <2>1 DEF DoorInv, OwnLink
  <2>3. CASE mine[q] = mine[p]
    <3>1. q = p
      BY <1>1, <2>2, <2>3
    <3>2. QED BY <1>1, <1>2, <2>1, <2>2, <3>1
  <2>4. CASE mine[q] # mine[p]
    BY <1>2, <2>1, <2>2, <2>4
  <2>5. QED BY <2>3, <2>4
<1>7. Len(L) <= MaxLinks
  BY <1>2 DEF DoorInv, DoorTyped
<1>8. Len(links) <= Len(L)
  BY <1>1, <1>2
<1>9. QED BY <1>2, <1>3, <1>4, <1>5, <1>6, <1>7, <1>8, PeersKeep

LEMMA SendStep ==
  ASSUME Door!DoorCounterAssumption, DoorInv, NEW p \in Door!Peers, Door!Send(p),
         UNCHANGED <<Door!doorServer, mine>>, shouldCount' \in BOOLEAN
  PROVE  DoorInv'
<1>1. mine[p] # 0 /\ mine[p] \in 1..Len(links) /\ links[mine[p]] \in DoorLink
      /\ links[mine[p]].who = p /\ ~links[mine[p]].eof
  BY LinkFacts DEF Door!Send, DoorInv, OwnLink
<1> DEFINE x == [links[mine[p]] EXCEPT !.msgs = links[mine[p]].msgs + 1]
<1>2. x \in DoorLink /\ x.who = p /\ x.msgs > 0 /\ ~x.eof
  BY <1>1 DEF DoorLink
<1>3. links' = [links EXCEPT ![mine[p]] = x]
  BY DEF Door!Send
<1> HIDE DEF x
<1>4. QED BY <1>1, <1>2, <1>3, SpeakStep

LEMMA HangStep ==
  ASSUME Door!DoorCounterAssumption, DoorInv, NEW a \in Alunos, Door!Hang(a)
  PROVE  DoorInv'
<1>1. /\ a \in Door!Peers /\ mine[a] # 0 /\ links[mine[a]] \in DoorLink /\ links[mine[a]].who = a
      /\ links' = [links EXCEPT ![mine[a]].eof = TRUE]
      /\ mine' = [mine EXCEPT ![a] = 0] /\ UNCHANGED <<Door!doorServer, shouldCount>>
  BY LinkFacts DEF Door!Hang, DoorInv, OwnLink, Door!Peers
<1> DEFINE x == [links[mine[a]] EXCEPT !.eof = TRUE]
<1>2. x \in DoorLink /\ x.who = a /\ x.msgs = links[mine[a]].msgs
  BY <1>1 DEF DoorLink
<1>3. links' = [links EXCEPT ![mine[a]] = x]
  BY <1>1
<1>4. shouldCount' \in BOOLEAN
  BY <1>1 DEF DoorInv, DoorTyped
<1> HIDE DEF x
<1>5. QED BY <1>1, <1>2, <1>3, <1>4, SpeakStep

LEMMA AcceptStep ==
  ASSUME DoorInv, Door!Accept
  PROVE  DoorInv'
<1>1. /\ waiting' \in BOOLEAN /\ on' \in BOOLEAN /\ served < Len(links)
      /\ UNCHANGED <<links, served, bufferer, doorCounter, alunosRA, zeroed, shouldCount, mine>>
  BY DEF Door!Accept, DoorInv, DoorTyped
<1>2. DoorTyped' /\ OwnLink' /\ DoorSettled'
  BY <1>1 DEF DoorInv, DoorTyped, OwnLink, DoorSettled
<1>3. DoorCounted' /\ DoorSent' /\ DoorOnce'
  BY <1>1 DEF DoorInv, DoorCounted, DoorSent, DoorOnce
<1>4. QED BY <1>2, <1>3 DEF DoorInv

LEMMA ReadStep ==
  ASSUME Door!DoorCounterAssumption, DoorInv, Door!Read
  PROVE  DoorInv'
<1> DEFINE n == served + 1
           link == links[n]
<1>1. /\ Len(links) \in Nat /\ served \in Nat /\ n \in 1..Len(links) /\ link \in DoorLink
      /\ served < n /\ link.msgs \in Nat
  BY LinkFacts DEF DoorInv, DoorTyped, DoorSettled, Door!Read, DoorLink
<1>2. /\ link.msgs > 0 \/ link.eof
      /\ bufferer' = IF link.msgs = 0 THEN bufferer
                     ELSE IF link.who = Sensor THEN "door" ELSE link.who
      /\ Door!Count(bufferer') /\ served' = n /\ waiting' = FALSE
      /\ UNCHANGED <<links, zeroed, on, shouldCount, mine>>
  BY DEF Door!Read
<1>3. /\ bufferer \in {"door", "absent"} \cup Alunos
      /\ bufferer' \in {"door", "absent"} \cup Alunos
      /\ doorCounter \in Nat /\ alunosRA \in Seq(Alunos) /\ {"door", "absent"} \cap Alunos = {}
      /\ Len(alunosRA) \in Nat /\ DOMAIN alunosRA = 1..Len(alunosRA)
      /\ \A i \in 1..Len(alunosRA) : alunosRA[i] \in Alunos
  BY <1>1, <1>2, LenProperties, ElementOfSeq
     DEF DoorInv, DoorTyped, DoorLink, Door!Peers, Door!DoorCounterAssumption
<1>4. \/ bufferer' = "door" /\ doorCounter' = doorCounter + 1 /\ alunosRA' = alunosRA
      \/ bufferer' = "absent" /\ doorCounter' = doorCounter /\ alunosRA' = alunosRA
      \/ /\ bufferer' \in Alunos /\ doorCounter' = doorCounter
         /\ alunosRA' = IF Door!Listed(bufferer') THEN alunosRA ELSE Append(alunosRA, bufferer')
  BY <1>2, <1>3 DEF Door!Count
<1>5. /\ alunosRA' = alunosRA
      \/ /\ bufferer' \in Alunos /\ ~Door!Listed(bufferer') /\ alunosRA' = Append(alunosRA, bufferer')
         /\ alunosRA' \in Seq(Alunos) /\ Len(alunosRA') = Len(alunosRA) + 1
         /\ DOMAIN alunosRA' = 1..(Len(alunosRA) + 1)
         /\ alunosRA'[Len(alunosRA) + 1] = bufferer'
         /\ \A i \in 1..Len(alunosRA) : alunosRA'[i] = alunosRA[i]
  <2>1. CASE alunosRA' = alunosRA
    BY <2>1
  <2>2. CASE alunosRA' # alunosRA
    <3>1. bufferer' \in Alunos /\ ~Door!Listed(bufferer') /\ alunosRA' = Append(alunosRA, bufferer')
      BY <1>4, <2>2
    <3>2. /\ alunosRA' \in Seq(Alunos) /\ Len(alunosRA') = Len(alunosRA) + 1
          /\ alunosRA'[Len(alunosRA) + 1] = bufferer'
          /\ \A i \in 1..Len(alunosRA) : alunosRA'[i] = alunosRA[i]
      BY <1>3, <3>1, AppendProperties
    <3>3. DOMAIN alunosRA' = 1..(Len(alunosRA) + 1)
      BY <3>2, LenProperties
    <3>4. QED BY <3>1, <3>2, <3>3
  <2>3. QED BY <2>1, <2>2
<1>6. DoorTyped'
  <2>1. doorCounter' \in Nat
    BY <1>3, <1>4
  <2>2. alunosRA' \in Seq(Alunos)
    BY <1>3, <1>5
  <2>3. {waiting', zeroed', on', shouldCount'} \subseteq BOOLEAN
    BY <1>2 DEF DoorInv, DoorTyped
  <2>4. links' \in Seq(DoorLink) /\ served' \in 0..Len(links') /\ Len(links') <= MaxLinks
    BY <1>1, <1>2 DEF DoorInv, DoorTyped
  <2>5. mine' \in [Door!Peers -> 0..MaxLinks]
    BY <1>2 DEF DoorInv, DoorTyped
  <2>6. QED BY <1>3, <2>1, <2>2, <2>3, <2>4, <2>5 DEF DoorTyped
<1>7. OwnLink' /\ DoorSettled'
  <2>1. OwnLink'
    BY <1>2 DEF DoorInv, OwnLink
  <2>2. \A k \in 1..n : links[k].msgs > 0 \/ links[k].eof
    <3>1. \A k \in 1..n : k \in 1..served \/ k = n
      BY <1>1
    <3>2. QED BY <1>2, <3>1 DEF DoorInv, DoorSettled
  <2>3. QED BY <1>2, <2>1, <2>2 DEF DoorSettled
<1>8. \A who : FromOf(who, n, links) =
         FromOf(who, served, links) \cup (IF link.who = who /\ link.msgs > 0 THEN {n} ELSE {})
  <2>1. \A k : k \in 1..n <=> k \in 1..served \/ k = n
    BY <1>1
  <2>2. QED BY <2>1 DEF FromOf
<1>9. EmptyOf(n, links) =
         EmptyOf(served, links) \cup (IF link.msgs = 0 THEN {n} ELSE {})
  <2>1. \A k : k \in 1..n <=> k \in 1..served \/ k = n
    BY <1>1
  <2>2. QED BY <2>1 DEF EmptyOf
<1>10. DoorCounted'
  <2> DEFINE F == FromOf(Sensor, served, links)
             E == EmptyOf(served, links)
             F2 == FromOf(Sensor, n, links)
             E2 == EmptyOf(n, links)
  <2>1. /\ IsFiniteSet(F) /\ IsFiniteSet(E) /\ n \notin F /\ n \notin E
        /\ Cardinality(F) \in Nat /\ Cardinality(E) \in Nat
    <3>1. n \notin 1..served
      BY <1>1
    <3>2. n \notin F /\ n \notin E
      BY <3>1 DEF FromOf, EmptyOf
    <3>3. QED BY <1>1, <3>2, SetsFinite
  <2>2. F2 = F \cup (IF link.who = Sensor /\ link.msgs > 0 THEN {n} ELSE {})
    BY <1>8
  <2>3. E2 = E \cup (IF link.msgs = 0 THEN {n} ELSE {})
    BY <1>9
  <2>4. Cardinality(F) <= doorCounter /\ doorCounter <= Cardinality(F) + Cardinality(E)
    BY DEF DoorInv, DoorCounted
  <2> HIDE DEF F, E, F2, E2
  <2>5. Cardinality(F \cup {n}) = Cardinality(F) + 1 /\ Cardinality(E \cup {n}) = Cardinality(E) + 1
    BY <2>1, FS_AddElement
  <2>6. Cardinality(F2) <= doorCounter' /\ doorCounter' <= Cardinality(F2) + Cardinality(E2)
    <3>1. CASE link.msgs = 0
      <4>1. F2 = F /\ E2 = E \cup {n}
        BY <2>2, <2>3, <3>1
      <4>2. doorCounter' \in {doorCounter, doorCounter + 1}
        BY <1>4
      <4>3. QED BY <1>3, <2>1, <2>4, <2>5, <4>1, <4>2
    <3>2. CASE link.msgs > 0 /\ link.who = Sensor
      <4>1. F2 = F \cup {n} /\ E2 = E
        BY <2>2, <2>3, <3>2
      <4>2. doorCounter' = doorCounter + 1
        BY <1>1, <1>2, <1>3, <1>4, <3>2
      <4>3. QED BY <1>3, <2>1, <2>4, <2>5, <4>1, <4>2
    <3>3. CASE link.msgs > 0 /\ link.who # Sensor
      <4>1. F2 = F /\ E2 = E
        BY <2>2, <2>3, <3>3
      <4>2. link.who \in Alunos
        BY <1>1, <3>3 DEF DoorLink, Door!Peers
      <4>3. doorCounter' = doorCounter
        BY <1>1, <1>2, <1>3, <1>4, <3>3, <4>2
      <4>4. QED BY <2>4, <4>1, <4>3
    <3>4. QED BY <1>1, <3>1, <3>2, <3>3
  <2>7. QED BY <1>2, <2>6 DEF DoorCounted, F2, E2
<1>11. DoorSent'
  <2>1. \A who : FromOf(who, served, links) # {} => FromOf(who, n, links) # {}
    BY <1>8
  <2>2. bufferer' \in Alunos => FromOf(bufferer', n, links) # {}
    <3>1. CASE link.msgs = 0
      BY <1>2, <2>1, <3>1 DEF DoorInv, DoorSent
    <3>2. CASE link.msgs > 0
      <4> SUFFICES ASSUME bufferer' \in Alunos PROVE FromOf(bufferer', n, links) # {}
        OBVIOUS
      <4>1. link.who = bufferer'
        BY <1>1, <1>2, <1>3, <3>2
      <4>2. n \in FromOf(bufferer', n, links)
        BY <1>1, <3>2, <4>1 DEF FromOf
      <4>3. QED BY <4>2
    <3>3. QED BY <1>1, <3>1, <3>2
  <2>3. \A i \in DOMAIN alunosRA' : FromOf(alunosRA'[i], n, links) # {}
    <3> SUFFICES ASSUME NEW i \in DOMAIN alunosRA' PROVE FromOf(alunosRA'[i], n, links) # {}
      OBVIOUS
    <3>1. \A j \in DOMAIN alunosRA : FromOf(alunosRA[j], n, links) # {}
      BY <2>1 DEF DoorInv, DoorSent
    <3>2. CASE alunosRA' = alunosRA
      BY <3>1, <3>2
    <3>3. CASE alunosRA' # alunosRA
      <4>1. i \in 1..Len(alunosRA) \/ i = Len(alunosRA) + 1
        BY <1>3, <1>5, <3>3
      <4>2. QED BY <1>3, <1>5, <2>2, <3>1, <3>3, <4>1
    <3>4. QED BY <3>2, <3>3
  <2>4. QED BY <1>2, <2>2, <2>3 DEF DoorSent
<1>12. DoorOnce'
  <2> SUFFICES ASSUME zeroed
               PROVE \A i, j \in DOMAIN alunosRA' : alunosRA'[i] = alunosRA'[j] => i = j
    BY <1>2 DEF DoorOnce
  <2>1. \A i, j \in DOMAIN alunosRA : alunosRA[i] = alunosRA[j] => i = j
    BY DEF DoorInv, DoorOnce
  <2>2. CASE alunosRA' = alunosRA
    BY <2>1, <2>2
  <2>3. CASE alunosRA' # alunosRA
    <3>1. \A i \in 1..Len(alunosRA) : alunosRA[i] # bufferer'
      BY <1>3, <1>5, <2>3 DEF Door!Listed
    <3>2. \A i \in DOMAIN alunosRA' : i \in 1..Len(alunosRA) \/ i = Len(alunosRA) + 1
      BY <1>3, <1>5, <2>3
    <3>3. QED BY <1>3, <1>5, <2>1, <2>3, <3>1, <3>2
  <2>4. QED BY <2>2, <2>3
<1>13. QED BY <1>6, <1>7, <1>10, <1>11, <1>12 DEF DoorInv

LEMMA DoorInit ==
  ASSUME Door!DoorCounterAssumption, Door!Init
  PROVE  DoorInv
<1>1. /\ << >> \in Seq(DoorLink) /\ << >> \in Seq(Alunos) /\ Len(<< >>) = 0 /\ 0 \in 0..0
      /\ \A S : 1..0 = {}
  BY EmptySeq
<1>2. DoorTyped
  <2>1. links \in Seq(DoorLink) /\ served \in 0..Len(links) /\ alunosRA \in Seq(Alunos)
    BY <1>1 DEF Door!Init
  <2>2. mine \in [Door!Peers -> 0..MaxLinks] /\ Len(links) <= MaxLinks
    BY <1>1 DEF Door!Init, Door!DoorCounterAssumption
  <2>3. {waiting, zeroed, on, shouldCount} \subseteq BOOLEAN
    BY DEF Door!Init
  <2>4. doorCounter \in Nat /\ bufferer \in {"door", "absent"} \cup Alunos
    BY DEF Door!Init
  <2>5. QED BY <2>1, <2>2, <2>3, <2>4 DEF DoorTyped
<1>3. OwnLink /\ DoorSettled /\ DoorOnce
  BY DEF Door!Init, OwnLink, DoorSettled, DoorOnce
<1>4. DoorCounted
  <2>1. FromOf(Sensor, 0, links) = {} /\ EmptyOf(0, links) = {}
    BY DEF FromOf, EmptyOf
  <2>2. Cardinality({}) = 0
    BY FS_EmptySet
  <2>3. served = 0 /\ doorCounter = 0
    BY DEF Door!Init
  <2>4. Cardinality(FromOf(Sensor, served, links)) = 0 /\ Cardinality(EmptyOf(served, links)) = 0
    BY <2>1, <2>2, <2>3
  <2>5. QED BY <2>3, <2>4 DEF DoorCounted
<1>5. DoorSent
  BY DEF Door!Init, DoorSent, Door!DoorCounterAssumption
<1>6. QED BY <1>2, <1>3, <1>4, <1>5 DEF DoorInv

LEMMA DoorStep ==
  ASSUME Door!DoorCounterAssumption, DoorInv, [Door!Next]_Door!doorVars
  PROVE  DoorInv'
<1>1. ASSUME NEW d \in {0, 59, 60, 61, 90}, Door!Loop(d)
      PROVE  DoorInv'
  <2>1. UNCHANGED <<Door!doorServer, mine>>
    BY <1>1 DEF Door!Loop
  <2>2. CASE Door!Send(Sensor) /\ shouldCount' = FALSE
    BY <2>1, <2>2, SendStep DEF Door!Peers
  <2>3. CASE UNCHANGED links /\ shouldCount' \in BOOLEAN
    <3>1. UNCHANGED <<served, waiting, bufferer, doorCounter, alunosRA, zeroed, on>>
      BY <2>1 DEF Door!doorServer
    <3>2. DoorTyped' /\ OwnLink' /\ DoorSettled'
      BY <2>1, <2>3, <3>1 DEF DoorInv, DoorTyped, OwnLink, DoorSettled
    <3>3. DoorCounted' /\ DoorSent' /\ DoorOnce'
      BY <2>3, <3>1 DEF DoorInv, DoorCounted, DoorSent, DoorOnce
    <3>4. QED BY <3>2, <3>3 DEF DoorInv
  <2>4. shouldCount \in BOOLEAN
    BY DEF DoorInv, DoorTyped
  <2>5. (d > 60) \in BOOLEAN
    OBVIOUS
  <2>6. \/ Door!Send(Sensor) /\ shouldCount' = FALSE
        \/ UNCHANGED links /\ shouldCount' = shouldCount
        \/ UNCHANGED links /\ shouldCount' = (d > 60)
    BY <1>1 DEF Door!Loop
  <2>7. QED BY <2>2, <2>3, <2>4, <2>5, <2>6
<1>2. ASSUME NEW a \in Alunos, Door!Tap(a)
      PROVE  DoorInv'
  <2>1. a \in Door!Peers /\ Door!Send(a) /\ UNCHANGED <<Door!doorServer, mine>> /\ shouldCount' \in BOOLEAN
    BY <1>2 DEF Door!Tap, Door!Peers, DoorInv, DoorTyped
  <2>2. QED BY <2>1, SendStep
<1>3. CASE UNCHANGED Door!doorVars
  <2>1. UNCHANGED <<links, served, waiting, bufferer, doorCounter, alunosRA, zeroed, on, shouldCount, mine>>
    BY <1>3 DEF Door!doorVars, Door!doorServer
  <2>2. DoorTyped' /\ OwnLink' /\ DoorSettled'
    BY <2>1 DEF DoorInv, DoorTyped, OwnLink, DoorSettled
  <2>3. DoorCounted' /\ DoorSent' /\ DoorOnce'
    BY <2>1 DEF DoorInv, DoorCounted, DoorSent, DoorOnce
  <2>4. QED BY <2>2, <2>3 DEF DoorInv
<1>4. QED
  BY <1>1, <1>2, <1>3, ConnectStep, HangStep, AcceptStep, ReadStep DEF Door!Next

LEMMA DoorInvImplies == DoorInv => Door!DoorListTrue
<1> SUFFICES ASSUME DoorInv PROVE Door!DoorListTrue
  OBVIOUS
<1>1. Door!TypeOK
  <2>1. \A i \in DOMAIN alunosRA : alunosRA[i] \in Alunos
    BY LenProperties, ElementOfSeq DEF DoorInv, DoorTyped
  <2>2. QED BY <2>1 DEF DoorInv, DoorTyped, Door!TypeOK, Door!Range
<1>2. Door!From(Sensor) = FromOf(Sensor, served, links) /\ Door!Empty = EmptyOf(served, links)
  BY DEF Door!From, FromOf, Door!Empty, EmptyOf
<1>3. /\ Cardinality(Door!From(Sensor)) \in Nat /\ Cardinality(Door!Empty) \in Nat
      /\ doorCounter \in Nat
  BY <1>2, LinkFacts, SetsFinite DEF DoorInv, DoorTyped
<1>4. doorCounter \in Cardinality(Door!From(Sensor))..(Cardinality(Door!From(Sensor)) + Cardinality(Door!Empty))
  BY <1>2, <1>3 DEF DoorInv, DoorCounted
<1>5. \A i \in DOMAIN alunosRA : Door!From(alunosRA[i]) # {}
  BY DEF DoorInv, DoorSent, Door!From, FromOf
<1>6. \A S : Door!Cardinality(S) = Cardinality(S)
  BY DEF Cardinality, Door!Cardinality
<1>7. QED BY <1>1, <1>4, <1>5, <1>6 DEF Door!DoorListTrue, DoorInv, DoorOnce

\* The counter is the number of the sensor's connections that carried a
\* passage, but for connections that ended in silence; a listed number was
\* sent by its student, and is listed once if the byte behind it is zero.
THEOREM CopyListIsTrue == Door!Spec => []Door!DoorListTrue
<1>1. Door!Init => DoorInv
  BY DoorAssumption, DoorInit
<1>2. DoorInv /\ [Door!Next]_Door!doorVars => DoorInv'
  BY DoorAssumption, DoorStep
<1>3. QED BY <1>1, <1>2, DoorInvImplies, PTL DEF Door!Spec

\* The same of the copy beside the server of port 5000, which it shares nothing
\* with: a step is one of the copy or leaves all of it alone.
THEOREM DoorListIsTrue == BothSpec => []DoorListTrue
<1>1. BothInit => DoorInv
  BY DoorAssumption, DoorInit DEF BothInit
<1>2. DoorInv /\ [BothNext]_<<vars, doorVars, port>> => DoorInv'
  <2> SUFFICES ASSUME DoorInv, [BothNext]_<<vars, doorVars, port>> PROVE DoorInv'
    OBVIOUS
  <2>1. Door!Next \/ UNCHANGED doorVars
    BY DEF BothNext
  <2>2. UNCHANGED doorVars => UNCHANGED Door!doorVars
    BY DEF doorVars, Door!doorVars, Door!doorServer
  <2>3. QED BY <2>1, <2>2, DoorAssumption, DoorStep
<1>3. DoorInv => DoorListTrue
  BY DoorInvImplies DEF DoorListTrue
<1>4. QED BY <1>1, <1>2, <1>3, PTL DEF BothSpec
=============================================================================
