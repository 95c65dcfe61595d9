-------------------------- MODULE OpenbaoKeyManager --------------------------
(***************************************************************************)
(* The process-wide OpenbaoKeyManager singleton                            *)
(* (src/cdf/modules/key_management/openbao) and the OpenBao/Vault transit  *)
(* engine it drives through a command line client.                         *)
(*                                                                         *)
(* Every public call is a small program of a thread: it takes mutex_ in    *)
(* shared or exclusive mode, checks its arguments, and then runs vault     *)
(* commands one after the other, g_mtx serialising them.  One action is    *)
(* the code from the end of one vault command to the end of the next: the  *)
(* call's checks belong to its first step, its last assignments and its    *)
(* return to the step of its last command.  A call that returns early and  *)
(* changes nothing is a stuttering step and has no disjunct.               *)
(***************************************************************************)
EXTENDS Integers, FiniteSets

CONSTANTS
  Threads,        \* the threads that call the singleton
  Ops,            \* the operations these threads call in this instance
  Domains,        \* domain ids a caller may pass, 0 .. n
  KeyIds,         \* key ids, 0 .. UINT16_MAX
  DomainCounts,   \* the legal values of Init's domainCount
  MinDomainCount, \* DOMAINID_MIN
  MaxKeyCount,    \* MAX_KEY_COUNT
  Leads,          \* values of CheckDomainKeysExpired*'s lead, in ticks
  Validity,       \* OPENBAO_MAX_MASTER_KEY_VALID_TIME, in ticks
  IntMax,         \* first creation time that is no JSON int (2^31 seconds)
  TimeWrap,       \* 2^32 seconds, in ticks
  Faults,         \* how a vault command may go wrong, see Outcomes
  UnInitAnywhere, \* may UnInit, which takes no lock, overlap another call?
  MaxTime,        \* bound: the clock stops here
  MaxGen          \* bound: no new key is begun once this many were made

OpNames == {"Init", "UnInit", "CreateKey", "RemoveKey", "DeleteAllKey",
            "AutoUpdate", "Encrypt", "Decrypt", "GetLatestKey", "Crash"}

ASSUME KeyManagerAssumption ==
  /\ Ops \subseteq OpNames
  /\ Domains \subseteq Nat /\ KeyIds \subseteq Nat
  /\ DomainCounts \subseteq Nat
  /\ MinDomainCount \in Nat /\ MaxKeyCount \in Nat
  /\ Leads \subseteq Nat
  /\ Validity \in Nat /\ IntMax \in Nat /\ TimeWrap \in Nat \ {0}
  /\ Faults \subseteq {"failed", "lost", "silent"}
  /\ UnInitAnywhere \in BOOLEAN
  /\ MaxTime \in Nat /\ MaxGen \in Nat

VARIABLES
  vault,        \* transit/keys: the record of CDF<domain>_Key<id>, per key
  nextGen,      \* generation of the next key material the vault makes up
  now,          \* the time of day
  inited,       \* inited_
  domainCount,  \* domainCount_
  token,        \* is accessToken_ non-empty?
  mapDomains,   \* the domains domainKeyMap_ has an inner map for
  mapTime,      \* creation time domainKeyMap_ holds per key, or NoTime
  pc,           \* where in which call each thread is
  arg,          \* the arguments and locals of that call
  ciphers,      \* history: the ciphertexts Encrypt returned
  removed,      \* history: key material whose removal RemoveKey reported
  unheard       \* history: the same, but the client had printed nothing

vaultVars   == <<vault, nextGen>>
stateVars   == <<inited, domainCount, token>>
mapVars     == <<mapDomains, mapTime>>
historyVars == <<ciphers, removed, unheard>>
vars == <<vault, nextGen, now, inited, domainCount, token, mapDomains,
          mapTime, pc, arg, ciphers, removed, unheard>>

-----------------------------------------------------------------------------
(* Data.                                                                   *)

Keys   == Domains \X KeyIds
NoTime == -1
Times  == Nat \cup {NoTime}

\* gen 0 is "no such key"; otherwise it stands for the key's random bytes.
VaultKey == [gen : Nat, ctime : Nat, exportable : BOOLEAN, deletable : BOOLEAN]
NoKey    == [gen |-> 0, ctime |-> 0, exportable |-> FALSE, deletable |-> FALSE]

\* The header (domain, key id) in front of what the key encrypted.
Ciphertext == [dom : Domains, key : KeyIds, gen : Nat]

(* The call a thread is in.                                                *)
(*   todo   the keys its loop has still to visit                           *)
(*   gen    the material behind the key it picked (ciphertext: made with)  *)
(*   auth   was accessToken_ non-empty when the running command started?   *)
(*   live   do the loop's iterators still point into domainKeyMap_?        *)
Call(d, k, count, todo, gen, auth) ==
  [dom |-> d, key |-> k, count |-> count, todo |-> todo, gen |-> gen,
   auth |-> auth, live |-> TRUE]
CallType == [dom : Nat, key : Nat, count : Nat, todo : SUBSET Keys, gen : Nat,
             auth : BOOLEAN, live : BOOLEAN]
NoCall == [dom |-> 0, key |-> 0, count |-> 0, todo |-> {}, gen |-> 0,
           auth |-> FALSE, live |-> FALSE]

ExclusivePc == {"initList", "initRead", "createWrite", "createConfig",
                "createRead", "removeDelete", "clearDelete", "clearStray",
                "rotateDelete", "rotateWrite", "rotateConfig", "rotateRead"}
SharedPc    == {"encryptExport", "encryptUpgrade", "decryptExport"}
RotatePc    == {"rotateDelete", "rotateWrite", "rotateConfig", "rotateRead"}
KeylessPc   == {"idle", "initList", "initRead", "encryptUpgrade"}
PcValues    == {"idle", "latestExport"} \cup ExclusivePc \cup SharedPc

\* mutex_ is held exactly in the scope of the call's lock object.
NoLock        == TRUE   \* mutant of SharedFree
SharedFree    == \A t \in Threads : pc[t] \notin ExclusivePc
ExclusiveFree == \A t \in Threads : pc[t] \notin ExclusivePc \cup SharedPc

Goto(t, label, call) ==
  /\ pc' = [pc EXCEPT ![t] = label]
  /\ arg' = [arg EXCEPT ![t] = call]

Return(t) == Goto(t, "idle", NoCall)

-----------------------------------------------------------------------------
(* domainKeyMap_.                                                          *)

MapIds(d) == {k \in KeyIds : mapTime[<<d, k>>] # NoTime}
MapKeys   == {x \in Keys : mapTime[x] # NoTime}

IsLeast(S, k)   == k \in S /\ \A j \in S : k <= j
IsOldest(d, k)  == IsLeast(MapIds(d), k)   \* mutant of IsNewest
IsNewest(d, k)  == k \in MapIds(d) /\ \A j \in MapIds(d) : j <= k

ValidateDomain(d) == inited /\ d < domainCount

\* The checks Encrypt, Decrypt, RemoveKey and the expiry calls share.
KnownDomain(d) == ValidateDomain(d) /\ mapDomains # {} /\ d \in mapDomains

\* GenerateKeyId: one above the largest id in use; 0 in an empty domain.
CandidateIds == KeyIds \cup {k + 1 : k \in KeyIds}
IsNextId(d, k) ==
  /\ k \in KeyIds
  /\ Cardinality(MapIds(d)) < MaxKeyCount
  /\ IF MapIds(d) = {} THEN k = 0 ELSE IsNewest(d, k - 1)

Expired(x, lead)  == mapTime[x] + Validity <= (now + lead) % TimeWrap

\* CheckDomainKeysExpired, which reads under a shared lock and answers.
CheckDomainKeysExpired(d, lead) ==
  IF ~inited THEN "UNINITED"
  ELSE IF mapDomains = {} THEN "ERROR"
  ELSE IF ~KnownDomain(d) \/ lead > Validity THEN "INVALID_PARAM"
  ELSE IF \E k \in MapIds(d) : ~Expired(<<d, k>>, lead) THEN "OK"
  ELSE "KEY_EXPIRED"

-----------------------------------------------------------------------------
(* Vault commands (external).  ExecOpenbaoCmd logs in and runs one command *)
(* under g_mtx; RunCommandAndCheck turns what comes back into OK or ERROR. *)
(*   done    the command took effect and its answer arrived                *)
(*   failed  no effect, ERROR                                              *)
(*   lost    it took effect but ERROR came back                            *)
(*   silent  no effect and no output: ExecOpenbaoCmd calls that a success  *)
(* An empty token is refused before the client is started.                 *)

Outcomes(t, permitted) ==
  IF ~arg[t].auth THEN {"failed"}
  ELSE IF permitted THEN {"done"} \cup Faults
  ELSE {"failed"} \cup (Faults \cap {"silent"})

Applied(outcome)  == outcome \in {"done", "lost"}
AnyAnswer(outcome) == TRUE   \* mutant of Accepted
Accepted(outcome) == outcome \in {"done", "silent"}

Here(t)      == <<arg[t].dom, arg[t].key>>
Present(x)   == vault[x].gen # 0
CanDelete(x) == Present(x) /\ vault[x].deletable
CanExport(x) == Present(x) /\ vault[x].exportable

\* write -f: makes the key up; on a key that exists it changes nothing.
VaultWrite(x) ==
  IF Present(x) THEN UNCHANGED vaultVars
  ELSE /\ vault' = [vault EXCEPT ![x] =
                      [gen |-> nextGen, ctime |-> now,
                       exportable |-> FALSE, deletable |-> FALSE]]
       /\ nextGen' = nextGen + 1

VaultConfig(x, exportable) ==
  /\ vault' = [vault EXCEPT ![x].deletable = TRUE,
                            ![x].exportable = @ \/ exportable]
  /\ UNCHANGED nextGen

VaultDelete(x) ==
  /\ vault' = [vault EXCEPT ![x] = NoKey]
  /\ UNCHANGED nextGen

ClockTime(x, outcome) ==   \* mutant of ReadTime: when it was asked
  IF outcome = "done" THEN now ELSE NoTime
\* GetJsonFieldMaxInt of the answer to "read": -1 for no or no int answer.
ReadTime(x, outcome) ==
  IF outcome = "done" /\ vault[x].ctime < IntMax THEN vault[x].ctime ELSE NoTime

\* The steps of a call that run one command under RunCommandAndCheck: on OK
\* the call goes on at "next", on ERROR it ends.
Continue(t, outcome, next) ==
  IF Accepted(outcome)
  THEN Goto(t, next, [arg[t] EXCEPT !.auth = token])
  ELSE Return(t)

WriteStep(t, here, next) ==
  /\ pc[t] = here
  /\ \E outcome \in Outcomes(t, TRUE) :
       /\ IF Applied(outcome) THEN VaultWrite(Here(t)) ELSE UNCHANGED vaultVars
       /\ Continue(t, outcome, next)
  /\ UNCHANGED <<now, stateVars, mapVars, historyVars>>

ConfigStep(t, here, exportable, next) ==
  /\ pc[t] = here
  /\ \E outcome \in Outcomes(t, Present(Here(t))) :
       /\ IF Applied(outcome) THEN VaultConfig(Here(t), exportable)
          ELSE UNCHANGED vaultVars
       /\ Continue(t, outcome, next)
  /\ UNCHANGED <<now, stateVars, mapVars, historyVars>>

-----------------------------------------------------------------------------
(* The process starts, and is lost: killed, or ended by undefined          *)
(* behaviour.  The vault outlives it.                                      *)

Init ==
  /\ vault = [x \in Keys |-> NoKey] /\ nextGen = 1 /\ now = 0
  /\ inited = FALSE /\ domainCount = MinDomainCount /\ token = FALSE
  /\ mapDomains = {} /\ mapTime = [x \in Keys |-> NoTime]
  /\ pc = [t \in Threads |-> "idle"] /\ arg = [t \in Threads |-> NoCall]
  /\ ciphers = {} /\ removed = {} /\ unheard = {}

ClearState ==
  /\ inited' = FALSE /\ domainCount' = MinDomainCount /\ token' = FALSE
  /\ mapDomains' = {} /\ mapTime' = [x \in Keys |-> NoTime]

ProcessLost ==
  /\ ClearState
  /\ pc' = [t \in Threads |-> "idle"] /\ arg' = [t \in Threads |-> NoCall]

Crash ==
  /\ "Crash" \in Ops
  /\ ProcessLost
  /\ UNCHANGED <<vaultVars, now, historyVars>>

Tick ==
  /\ now < MaxTime
  /\ now' = now + 1
  /\ UNCHANGED <<vaultVars, stateVars, mapVars, pc, arg, historyVars>>

-----------------------------------------------------------------------------
(* Init and UnInit.                                                        *)

InitStart(t, count) ==
  /\ "Init" \in Ops /\ pc[t] = "idle" /\ ExclusiveFree
  /\ ~inited
  /\ token' = TRUE
  /\ Goto(t, "initList", Call(0, 0, count, {}, 0, TRUE))
  /\ UNCHANGED <<vaultVars, now, inited, domainCount, mapVars, historyVars>>

InitDone(t) ==
  /\ inited' = TRUE /\ domainCount' = arg[t].count
  /\ Return(t)

InitFailed(t) == Return(t) /\ UNCHANGED <<inited, domainCount>>

InitListed(t, outcome) ==
  LET listed == {x \in Keys : Present(x)}
  IN  \/ outcome = "done" /\ listed = {} /\ InitDone(t)
      \/ /\ outcome = "done" /\ listed # {}
         /\ Goto(t, "initRead", Call(0, 0, arg[t].count, listed, 0, token))
         /\ UNCHANGED <<inited, domainCount>>
      \/ outcome # "done" /\ InitFailed(t)

InitList(t) ==
  /\ pc[t] = "initList"
  /\ \E outcome \in Outcomes(t, TRUE) : InitListed(t, outcome)
  /\ UNCHANGED <<vaultVars, now, token, mapVars, historyVars>>

\* PrepareMap's loop body.  insert() keeps a time already there; an empty
\* answer ends the loop with OK, an unusable one drops the map.
PrepareMapEntry(t, x, outcome) ==
  LET time == ReadTime(x, outcome)
      rest == arg[t].todo \ {x}
  IN  \/ /\ time # NoTime
         /\ mapDomains' = mapDomains \cup {x[1]}
         /\ mapTime' = [mapTime EXCEPT ![x] = IF @ = NoTime THEN time ELSE @]
         /\ \/ rest = {} /\ InitDone(t)
            \/ /\ rest # {}
               /\ Goto(t, "initRead", Call(0, 0, arg[t].count, rest, 0, token))
               /\ UNCHANGED <<inited, domainCount>>
      \/ /\ outcome = "done" /\ time = NoTime
         /\ mapDomains' = {} /\ mapTime' = [y \in Keys |-> NoTime]
         /\ InitFailed(t)
      \/ outcome = "silent" /\ InitDone(t) /\ UNCHANGED mapVars
      \/ ~Accepted(outcome) /\ InitFailed(t) /\ UNCHANGED mapVars

InitRead(t) ==
  /\ pc[t] = "initRead"
  /\ \E x \in arg[t].todo :
       \E outcome \in Outcomes(t, Present(x)) : PrepareMapEntry(t, x, outcome)
  /\ UNCHANGED <<vaultVars, now, token, historyVars>>

\* UnInit takes no lock: it may pull the map from under a running loop.
UnInit(t) ==
  /\ "UnInit" \in Ops /\ pc[t] = "idle"
  /\ UnInitAnywhere \/ \A u \in Threads : pc[u] = "idle"
  /\ ClearState
  /\ arg' = [u \in Threads |-> [arg[u] EXCEPT !.live = FALSE]]
  /\ UNCHANGED <<vaultVars, now, pc, historyVars>>

-----------------------------------------------------------------------------
(* CreateKey.                                                              *)

CreateStart(t, d) ==
  /\ "CreateKey" \in Ops /\ pc[t] = "idle" /\ ExclusiveFree
  /\ nextGen <= MaxGen
  /\ ValidateDomain(d)
  /\ mapDomains' = mapDomains \cup {d}   \* operator[] in GenerateKeyId
  /\ \E k \in CandidateIds :
       IsNextId(d, k) /\ Goto(t, "createWrite", Call(d, k, 0, {}, 0, token))
  /\ UNCHANGED <<vaultVars, now, stateVars, mapTime, historyVars>>

CreateWrite(t)  == WriteStep(t, "createWrite", "createConfig")
CreateConfigPrivate(t) ==   \* mutant of CreateConfig: exportable left out
  ConfigStep(t, "createConfig", FALSE, "createRead")
CreateConfig(t) == ConfigStep(t, "createConfig", TRUE, "createRead")

\* Without a creation time CreateKey calls RemoveKey, which asks for mutex_
\* again: lock() throws EDEADLK and the call ends with the key left behind.
CreateRead(t) ==
  /\ pc[t] = "createRead"
  /\ \E outcome \in Outcomes(t, Present(Here(t))) :
       LET time == ReadTime(Here(t), outcome)
       IN  IF time = NoTime THEN UNCHANGED mapVars
           ELSE /\ mapDomains' = mapDomains \cup {arg[t].dom}
                /\ mapTime' = [mapTime EXCEPT ![Here(t)] = time]
  /\ Return(t)
  /\ UNCHANGED <<vaultVars, now, stateVars, historyVars>>

-----------------------------------------------------------------------------
(* RemoveKey.                                                              *)

RemoveStart(t, d, k) ==
  /\ "RemoveKey" \in Ops /\ pc[t] = "idle" /\ ExclusiveFree
  /\ KnownDomain(d) /\ k \in MapIds(d)
  /\ Goto(t, "removeDelete", Call(d, k, 0, {}, vault[<<d, k>>].gen, token))
  /\ UNCHANGED <<vaultVars, now, stateVars, mapVars, historyVars>>

\* RemoveKey returns OK for material g.
Report(g, outcome) ==
  IF outcome = "silent"
  THEN unheard' = unheard \cup ({g} \ {0}) /\ UNCHANGED removed
  ELSE removed' = removed \cup ({g} \ {0}) /\ UNCHANGED unheard

RemoveDelete(t) ==
  /\ pc[t] = "removeDelete"
  /\ \E outcome \in Outcomes(t, CanDelete(Here(t))) :
       /\ IF Applied(outcome) THEN VaultDelete(Here(t))
          ELSE UNCHANGED vaultVars
       /\ IF Accepted(outcome)
          THEN /\ mapTime' = [mapTime EXCEPT ![Here(t)] = NoTime]
               /\ mapDomains' = IF MapIds(arg[t].dom) \subseteq {arg[t].key}
                                THEN mapDomains \ {arg[t].dom} ELSE mapDomains
               /\ Report(arg[t].gen, outcome)
          ELSE UNCHANGED <<mapVars, removed, unheard>>
  /\ Return(t)
  /\ UNCHANGED <<now, stateVars, ciphers>>

-----------------------------------------------------------------------------
(* DeleteAllKey.  outerIt is at arg.dom; innerIt is at arg.key, of the     *)
(* domain the loop was in when it got there.                               *)

\* Move to the first key left, erasing empty inner maps on the way.
ClearNext(t, doms, times) ==
  LET left == {x \in Keys : times[x] # NoTime}
  IN  \/ left = {} /\ mapDomains' = {} /\ Return(t)
      \/ \E x \in left :
           /\ IsLeast({y[1] : y \in left}, x[1])
           /\ IsLeast({y[2] : y \in {z \in left : z[1] = x[1]}}, x[2])
           /\ mapDomains' = {d \in doms : x[1] <= d}
           /\ Goto(t, "clearDelete",
                   Call(x[1], x[2], 0, {}, vault[x].gen, token))

ClearStart(t) ==
  /\ "DeleteAllKey" \in Ops /\ pc[t] = "idle" /\ ExclusiveFree
  /\ inited /\ mapDomains # {}
  /\ ClearNext(t, mapDomains, mapTime)
  /\ UNCHANGED <<vaultVars, now, stateVars, mapTime, historyVars>>

\* The failure branch of the inner loop: ++outerIt, and the loop goes on with
\* the old innerIt against the new outerIt.  Past the last domain, or with
\* iterators that UnInit invalidated, that is undefined behaviour.
ClearSkip(t) ==
  IF arg[t].live /\ \E d \in mapDomains : arg[t].dom < d
  THEN /\ \E d \in mapDomains :
            /\ IsLeast({e \in mapDomains : arg[t].dom < e}, d)
            /\ Goto(t, "clearStray", Call(d, arg[t].key, 0, {}, 0, token))
       /\ UNCHANGED <<stateVars, mapVars>>
  ELSE ProcessLost

ClearDelete(t) ==
  /\ pc[t] = "clearDelete"
  /\ \E outcome \in Outcomes(t, CanDelete(Here(t))) :
       /\ IF Applied(outcome) THEN VaultDelete(Here(t))
          ELSE UNCHANGED vaultVars
       /\ \/ /\ Accepted(outcome) /\ arg[t].live
             /\ mapTime' = [mapTime EXCEPT ![Here(t)] = NoTime]
             /\ ClearNext(t, mapDomains, mapTime')
             /\ UNCHANGED stateVars
          \/ Accepted(outcome) /\ ~arg[t].live /\ ProcessLost
          \/ ~Accepted(outcome) /\ ClearSkip(t)
  /\ UNCHANGED <<now, historyVars>>

\* A delete for <<next domain, old key id>>; when it succeeds, the inner map
\* of one domain erases a node of another's.
ClearStray(t) ==
  /\ pc[t] = "clearStray"
  /\ \E outcome \in Outcomes(t, CanDelete(Here(t))) :
       /\ IF Applied(outcome) THEN VaultDelete(Here(t))
          ELSE UNCHANGED vaultVars
       /\ IF Accepted(outcome) THEN ProcessLost ELSE ClearSkip(t)
  /\ UNCHANGED <<now, historyVars>>

-----------------------------------------------------------------------------
(* CheckDomainKeysExpiredAndAutoUpdate.                                    *)

RotateNext(t, todo) ==
  \/ todo = {} /\ Return(t)
  \/ \E x \in todo :
       /\ IsLeast({y[2] : y \in todo}, x[2])
       /\ Goto(t, "rotateDelete",
               Call(x[1], x[2], 0, todo \ {x}, vault[x].gen, token))

RotateStart(t, d, lead) ==
  /\ "AutoUpdate" \in Ops /\ pc[t] = "idle" /\ ExclusiveFree
  /\ nextGen <= MaxGen
  /\ KnownDomain(d) /\ lead <= Validity
  /\ now + lead < TimeWrap
  /\ RotateNext(t, {x \in MapKeys : x[1] = d /\ Expired(x, lead)})
  /\ UNCHANGED <<vaultVars, now, stateVars, mapVars, historyVars>>

\* HandleCommand: delete, make up again, allow deletion.
RotateDelete(t) ==
  /\ pc[t] = "rotateDelete"
  /\ \E outcome \in Outcomes(t, CanDelete(Here(t))) :
       /\ IF Applied(outcome) THEN VaultDelete(Here(t))
          ELSE UNCHANGED vaultVars
       /\ Continue(t, outcome, "rotateWrite")
  /\ UNCHANGED <<now, stateVars, mapVars, historyVars>>

RotateWrite(t)  == WriteStep(t, "rotateWrite", "rotateConfig")
RotateConfig(t) == ConfigStep(t, "rotateConfig", FALSE, "rotateRead")

\* The new time goes in through operator[], even into a map UnInit cleared;
\* advancing an iterator UnInit invalidated ends the loop or the process.
RotateRead(t) ==
  /\ pc[t] = "rotateRead"
  /\ \E outcome \in Outcomes(t, Present(Here(t))) :
       LET time == ReadTime(Here(t), outcome)
       IN  \/ time = NoTime /\ Return(t) /\ UNCHANGED <<stateVars, mapVars>>
           \/ /\ time # NoTime
              /\ mapDomains' = mapDomains \cup {arg[t].dom}
              /\ mapTime' = [mapTime EXCEPT ![Here(t)] = time]
              /\ IF arg[t].live THEN RotateNext(t, arg[t].todo) ELSE Return(t)
              /\ UNCHANGED stateVars
           \/ time # NoTime /\ ~arg[t].live /\ ProcessLost
  /\ UNCHANGED <<vaultVars, now, historyVars>>

-----------------------------------------------------------------------------
(* Encrypt, Decrypt and the unlocked GetLatestKey.                         *)

EncryptStart(t, d) ==
  /\ "Encrypt" \in Ops /\ pc[t] = "idle" /\ SharedFree
  /\ KnownDomain(d)
  /\ \/ \E k \in KeyIds :
          /\ IsNewest(d, k)
          /\ Goto(t, "encryptExport",
                  Call(d, k, 0, {}, vault[<<d, k>>].gen, token))
     \/ MapIds(d) = {} /\ Goto(t, "encryptUpgrade", NoCall)
  /\ UNCHANGED <<vaultVars, now, stateVars, mapVars, historyVars>>

\* With no key in hand Encrypt calls CreateKey while it holds mutex_ shared:
\* the thread is at "encryptUpgrade", where ExclusiveFree is what it waits for
\* and what it itself makes false, so that no action leaves that point.
EncryptExport(t) ==
  /\ pc[t] = "encryptExport"
  /\ \E outcome \in Outcomes(t, CanExport(Here(t))) :
       IF outcome = "done"
       THEN /\ ciphers' = ciphers \cup {[dom |-> arg[t].dom,
                                         key |-> arg[t].key,
                                         gen |-> vault[Here(t)].gen]}
            /\ Return(t)
       ELSE Goto(t, "encryptUpgrade", NoCall) /\ UNCHANGED ciphers
  /\ UNCHANGED <<vaultVars, now, stateVars, mapVars, removed, unheard>>

DecryptStart(t, c) ==
  /\ "Decrypt" \in Ops /\ pc[t] = "idle" /\ SharedFree
  /\ KnownDomain(c.dom) /\ c.key \in MapIds(c.dom)
  /\ Goto(t, "decryptExport",
          Call(c.dom, c.key, 0, {}, vault[<<c.dom, c.key>>].gen, token))
  /\ UNCHANGED <<vaultVars, now, stateVars, mapVars, historyVars>>

DecryptExport(t) ==
  /\ pc[t] = "decryptExport"
  /\ Return(t)
  /\ UNCHANGED <<vaultVars, now, stateVars, mapVars, historyVars>>

LatestStart(t, d) ==
  /\ "GetLatestKey" \in Ops /\ pc[t] = "idle"
  /\ ValidateDomain(d) /\ mapDomains # {}
  /\ mapDomains' = mapDomains \cup {d}   \* operator[]
  /\ \/ \E k \in KeyIds :
          /\ IsNewest(d, k)
          /\ Goto(t, "latestExport",
                  Call(d, k, 0, {}, vault[<<d, k>>].gen, token))
     \/ MapIds(d) = {} /\ UNCHANGED <<pc, arg>>
  /\ UNCHANGED <<vaultVars, now, stateVars, mapTime, historyVars>>

LatestExport(t) ==
  /\ pc[t] = "latestExport"
  /\ Return(t)
  /\ UNCHANGED <<vaultVars, now, stateVars, mapVars, historyVars>>

-----------------------------------------------------------------------------
Begin(t) ==
  \/ \E count \in DomainCounts : InitStart(t, count)
  \/ UnInit(t)
  \/ ClearStart(t)
  \/ \E c \in ciphers : DecryptStart(t, c)
  \/ \E d \in Domains :
       \/ CreateStart(t, d)
       \/ \E k \in KeyIds : RemoveStart(t, d, k)
       \/ \E lead \in Leads : RotateStart(t, d, lead)
       \/ EncryptStart(t, d)
       \/ LatestStart(t, d)

Proceed(t) ==
  \/ InitList(t) \/ InitRead(t)
  \/ CreateWrite(t) \/ CreateConfig(t) \/ CreateRead(t)
  \/ RemoveDelete(t)
  \/ ClearDelete(t) \/ ClearStray(t)
  \/ RotateDelete(t) \/ RotateWrite(t) \/ RotateConfig(t) \/ RotateRead(t)
  \/ EncryptExport(t) \/ DecryptExport(t) \/ LatestExport(t)

Next == Crash \/ Tick \/ \E t \in Threads : Begin(t) \/ Proceed(t)

Spec == Init /\ [][Next]_vars

\* A call once begun goes on: the scheduler runs the thread and the vault
\* client's process ends.  Nobody need call anything.
FairSpec == Spec /\ \A t \in Threads : WF_vars(Proceed(t))
-----------------------------------------------------------------------------
(* Properties.                                                             *)

VaultOK   == vault \in [Keys -> VaultKey] /\ nextGen \in Nat \ {0} /\ now \in Nat
StateOK   == inited \in BOOLEAN /\ domainCount \in Nat /\ token \in BOOLEAN
MapOK     == mapDomains \subseteq Domains /\ mapTime \in [Keys -> Times]
ThreadsOK ==
  /\ pc \in [Threads -> PcValues] /\ arg \in [Threads -> CallType]
  /\ \A t \in Threads : pc[t] \notin KeylessPc => Here(t) \in Keys
HistoryOK ==
  /\ ciphers \subseteq Ciphertext
  /\ removed \subseteq Nat \ {0} /\ unheard \subseteq Nat \ {0}

\* The types.  The key a call names is always one the vault could hold: its
\* domain and its id (GenerateKeyId's too) passed the checks of the code.
TypeOK == VaultOK /\ StateOK /\ MapOK /\ ThreadsOK /\ HistoryOK

\* mutex_: a call that changes keys overlaps no other locked call, on any
\* path, including those of Encrypt that call CreateKey and of DeleteAllKey
\* that skips a key.
MutexExclusive ==
  \A t, u \in Threads :
    t # u /\ pc[t] \in ExclusivePc => pc[u] \notin ExclusivePc \cup SharedPc

\* Check-then-use across a vault command: the key material Encrypt, Decrypt,
\* RemoveKey, DeleteAllKey and AutoUpdate act on when their command runs is
\* the material that was behind the key id when they picked it.
HoldsPicked(t) ==
  pc[t] \in {"encryptExport", "decryptExport", "removeDelete", "clearDelete",
            "rotateDelete"} => vault[Here(t)].gen = arg[t].gen
PickedKeyIsStable == \A t \in Threads : HoldsPicked(t)

\* Encrypt uses the domain's newest key, and a key CreateKey is making gets
\* an id above all of the domain's: no other call makes either stale while
\* the vault commands run.
HoldsNewest(t) ==
  /\ pc[t] = "encryptExport" => \A j \in MapIds(arg[t].dom) : j <= arg[t].key
  /\ pc[t] \in {"createWrite", "createConfig", "createRead"} =>
       \A j \in MapIds(arg[t].dom) : j < arg[t].key
NewestKeyInUse == \A t \in Threads : HoldsNewest(t)

\* Key material whose removal RemoveKey reported as OK, on an answer of the
\* client, is never in the vault again, although CreateKey reuses the id and
\* finds what is stored there: a silent command is the one way to be told of a
\* removal that did not happen.
RemovedStaysGone == \A x \in Keys : vault[x].gen \notin removed

\* RemoveKey, which "removes the specified key", returns OK on success: what
\* it returned OK for is gone, however the client answered.  The code says this
\* of itself (key_manager.h) and a silent command breaks it, as km_silent shows.
ReportedIsGone == \A x \in Keys : vault[x].gen \notin removed \cup unheard

\* What the manager believes: outside a call that changes keys, an inited
\* manager's map has exactly the vault's keys, with their creation times,
\* whatever was crashed, retried or rotated before.
MapMatchesVault ==
  inited /\ SharedFree =>
    \A x \in Keys :
      /\ mapTime[x] # NoTime <=> Present(x)
      /\ Present(x) => mapTime[x] = vault[x].ctime

\* The half of that which failed commands leave: what the map names, the vault
\* has, with that time, in the middle of calls too.
MapNamesStoredKeys ==
  \A x \in MapKeys : Present(x) /\ mapTime[x] = vault[x].ctime

\* Where a key is made, read and entered in the map in separate commands, and
\* a key may be rotated without the map hearing of it, the map never takes a
\* key for younger than it is, so that an expired one passes for valid.
NoKeyPassesForYounger ==
  \A x \in MapKeys : Present(x) => mapTime[x] <= vault[x].ctime

\* However calls, UnInit, crashes and failed commands interleave, the manager
\* does what one that makes, removes and uses keys one at a time does.
Store == INSTANCE KeyStore WITH
  Slots <- Keys, keys <- [x \in Keys |-> vault[x].gen], known <- MapKeys,
  used <- 1..nextGen - 1
ImplementsKeyStore == Store!Spec

\* A call that has picked a key to delete, and from which UnInit has since
\* taken the map, without a lock.
Outlived(t) ==
  /\ pc[t] \in {"removeDelete", "clearDelete", "rotateDelete"}
  /\ ~arg[t].live /\ vault[Here(t)].gen = arg[t].gen

\* No command deletes a vault key that the map does not hold at that moment,
\* whatever fails, crashes or is rotated, with two exceptions: the key a call
\* picked before UnInit emptied the map, and what DeleteAllKey comes to when
\* it goes on after a failed command.
DeletesNameMappedKeys ==
  [][\A x \in Keys : Present(x) /\ ~Present(x)' =>
       \/ x \in MapKeys
       \/ \E t \in Threads :
            Here(t) = x /\ (Outlived(t) \/ pc[t] = "clearStray")]_vars

\* CheckDomainKeysExpiredAndAutoUpdate "automatically updates the master key"
\* that has expired: what is in the map afterwards can be used to encrypt.
\* Claimed in key_manager.h; a rotation alone breaks it, as km_rotate shows.
UpdatedKeysAreUsable ==
  inited /\ SharedFree => \A x \in MapKeys : CanExport(x)

\* CheckInited is to "check if the given accessToken is still valid": a manager
\* that says it is inited has one to give to the vault.  Claimed in
\* key_manager.h; an UnInit during Init breaks it, as km_token shows.
InitedHasToken == inited => token

\* The vault commands a call may still run, each for a key: those for the key
\* in hand, and those its loop may come to.
\* Encrypt that waits for itself has none left.
StepsForKey(q) ==
  IF q = "createWrite" THEN {"createWrite", "createConfig", "createRead"}
  ELSE IF q = "createConfig" THEN {"createConfig", "createRead"}
  ELSE IF q = "rotateDelete" THEN RotatePc
  ELSE IF q = "rotateWrite"  THEN RotatePc \ {"rotateDelete"}
  ELSE IF q = "rotateConfig" THEN {"rotateConfig", "rotateRead"}
  ELSE {q} \ {"idle", "encryptUpgrade", "initRead", "clearStray"}

StepsForOthers(t) ==
  IF pc[t] = "initList" THEN {"initRead"} \X Keys
  ELSE IF pc[t] = "initRead" THEN {"initRead"} \X arg[t].todo
  ELSE IF pc[t] = "clearDelete"
  THEN ({"clearDelete"} \X MapKeys) \cup ({"clearStray"} \X Keys)
  ELSE IF pc[t] = "clearStray"
  THEN {"clearStray"} \X {x \in Keys : arg[t].dom <= x[1]}
  ELSE IF pc[t] \in RotatePc THEN RotatePc \X arg[t].todo
  ELSE {}

CommandsLeft(t) == (StepsForKey(pc[t]) \X {Here(t)}) \cup StepsForOthers(t)

\* No loop runs for ever: a step of a call leaves it fewer commands, whatever
\* fails, and no other thread gives it more, not even by clearing the map.
CallsGetShorter ==
  [][\A t \in Threads : pc[t] # "idle" =>
       /\ CommandsLeft(t)' \subseteq CommandsLeft(t)
       /\ Proceed(t) => CommandsLeft(t)' # CommandsLeft(t)]_vars

\* Every call that takes mutex_ gives it back, as long as Encrypt always finds
\* a key that it can export: without one it waits for itself, see below.
LockIsReleased ==
  \A t \in Threads :
    pc[t] \in ExclusivePc \cup SharedPc ~>
      pc[t] \notin ExclusivePc \cup SharedPc

\* Encrypt without a key in hand "manually creates a key" and goes on: claimed
\* in a comment of the code, and broken, as km_upgrade shows.
MissingKeyIsCreated ==
  \A t \in Threads : pc[t] = "encryptUpgrade" ~> pc[t] # "encryptUpgrade"
=============================================================================
