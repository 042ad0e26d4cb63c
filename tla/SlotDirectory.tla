---------------------------- MODULE SlotDirectory ----------------------------
(***************************************************************************)
(* What a presence server promises about its table, without its threads:   *)
(* a user claims an entry nobody holds, may be listed in it, and gives it  *)
(* back unlisted.  NoSlot is no slot.  P2PServer (WhatsAp2p-Server.c) and   *)
(* P2PInbox (WhatsAp2p-Client.c) are shown to implement it.                *)
(***************************************************************************)
CONSTANTS Users, Slots, NoSlot

VARIABLES
  holding,   \* holding[u]: the entry of user u, or NoSlot
  listed     \* the entries shown to the other users

vars == <<holding, listed>>

Init == /\ holding = [u \in Users |-> NoSlot]
        /\ listed = {}

Claim(u) ==
  /\ holding[u] = NoSlot
  /\ \E s \in Slots :
       /\ \A v \in Users : holding[v] # s
       /\ holding' = [holding EXCEPT ![u] = s]
  /\ UNCHANGED listed

List(u) ==
  /\ holding[u] # NoSlot
  /\ listed' = listed \cup {holding[u]}
  /\ UNCHANGED holding

Unlist(u) ==
  /\ holding[u] # NoSlot
  /\ listed' = listed \ {holding[u]}
  /\ UNCHANGED holding

Release(u) ==
  /\ holding[u] # NoSlot
  /\ holding[u] \notin listed
  /\ holding' = [holding EXCEPT ![u] = NoSlot]
  /\ UNCHANGED listed

Next == \E u \in Users : Claim(u) \/ List(u) \/ Unlist(u) \/ Release(u)

Spec == Init /\ [][Next]_vars
=============================================================================
