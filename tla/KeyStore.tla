------------------------------ MODULE KeyStore ------------------------------
(***************************************************************************)
(* What OpenbaoKeyManager promises an application, with no threads, locks, *)
(* vault commands or times in it: keys that are made, removed and used one *)
(* at a time, of which the manager knows some.                             *)
(*                                                                         *)
(* A slot is a pair of a domain and an id in it.  The material of a key is *)
(* what it encrypts with; 0 stands for none.                               *)
(***************************************************************************)
EXTENDS Integers

CONSTANT Slots

VARIABLES
  keys,      \* the material in each slot
  known,     \* the slots the manager offers
  used,      \* the materials ever made: none of them is made again
  ciphers,   \* what was encrypted: with which material, under which slot
  removed    \* the materials whose removal was reported

vars == <<keys, known, used, ciphers, removed>>

Init ==
  /\ keys = [x \in Slots |-> 0] /\ known = {} /\ used = {}
  /\ ciphers = {} /\ removed = {}

\* A call under way may outlive what the manager knew when it began.
Offered(x) == x \in known \/ known = {}

\* No key the manager offers is newer than the one in x.
Newest(x) == \A y \in known : y[1] = x[1] => y[2] <= x[2]

\* A new key goes above those of its domain, or where a known one was.
Make(x) ==
  /\ keys[x] = 0 /\ (x \in known \/ Newest(x))
  /\ keys'[x] \notin used \cup {0}
  /\ keys' = [keys EXCEPT ![x] = keys'[x]]
  /\ used' = used \cup {keys'[x]}
  /\ UNCHANGED <<known, ciphers, removed>>

\* A removal is only reported if the slot is no longer offered.
Delete(x) ==
  /\ keys[x] # 0
  /\ keys' = [keys EXCEPT ![x] = 0]
  /\ \/ known' \in {known, {}} /\ UNCHANGED removed
     \/ Offered(x) /\ known' = known \ {x}
        /\ removed' \in {removed, removed \cup {keys[x]}}
  /\ UNCHANGED <<used, ciphers>>

Learn(x) ==
  /\ keys[x] # 0
  /\ known' = known \cup {x}
  /\ UNCHANGED <<keys, used, ciphers, removed>>

\* A removal of which the manager heard nothing, and that it took for done.
Hide(x) == known' = known \ {x} /\ UNCHANGED <<keys, used, ciphers, removed>>

\* The manager is stopped, fails to start, or its process ends.
Forget == known' = {} /\ UNCHANGED <<keys, used, ciphers, removed>>

Encrypt(x) ==
  /\ keys[x] # 0 /\ Offered(x) /\ Newest(x)
  /\ ciphers' = ciphers \cup {[dom |-> x[1], key |-> x[2], gen |-> keys[x]]}
  /\ UNCHANGED <<keys, known, used, removed>>

Next ==
  \/ Forget
  \/ \E x \in Slots : Make(x) \/ Delete(x) \/ Learn(x) \/ Hide(x) \/ Encrypt(x)

Spec == Init /\ [][Next]_vars
=============================================================================
