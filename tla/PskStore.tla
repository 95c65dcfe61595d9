------------------------------ MODULE PskStore ------------------------------
(***************************************************************************)
(* What PskManager and its callbacks together promise an application,      *)
(* with no ids, maps, locks, loads or restarts in it: a durable set of     *)
(* PSKs that changes by one PSK at a time, and a service that at any time  *)
(* offers all of that set or nothing.                                      *)
(***************************************************************************)
EXTENDS Integers, FiniteSets

CONSTANT Psks      \* records with a content, a valid time and an end

VARIABLES
  store,     \* the PSKs the application must find again after a restart
  offered,   \* the PSKs the manager offers
  used,      \* contents ever made: none of them is made again
  limit      \* how many PSKs the manager accepts at present

vars == <<store, offered, used, limit>>

Init == store = {} /\ offered = {} /\ used = {} /\ limit \in Nat

\* The service goes with the store, or is down.
Serve == offered' \in {{}, store'}

New(psk) == psk.content \notin used /\ used' = used \cup {psk.content}

Add(psk) ==
  /\ New(psk) /\ Cardinality(store) < limit
  /\ store' = store \cup {psk}
  /\ UNCHANGED limit

\* A rotated PSK is new in content and end, and valid for as long as before.
Replace(old, psk) ==
  /\ New(psk) /\ old \in store /\ psk.valid = old.valid
  /\ store' = (store \ {old}) \cup {psk}
  /\ UNCHANGED limit

Remove(psk) ==
  /\ psk \in store
  /\ store' = store \ {psk}
  /\ UNCHANGED <<used, limit>>

\* A refused call may have used up a content; starting, stopping, loading and
\* being killed change how much is accepted and whether anything is offered.
Refuse  == used \subseteq used' /\ UNCHANGED <<store, limit>>
Restart == limit' \in Nat /\ UNCHANGED <<store, used>>

Next ==
  /\ Serve
  /\ \/ Refuse \/ Restart
     \/ \E psk \in Psks :
          Add(psk) \/ Remove(psk) \/ \E old \in store : Replace(old, psk)

Spec == Init /\ [][Next]_vars
=============================================================================
