----------------------- MODULE OpenbaoKeyManagerProofs -----------------------
(***************************************************************************)
(* Theorems about OpenbaoKeyManager, for every value of its constants: its *)
(* types, its lock and what a call holds on to under it, removed key       *)
(* material, the map against the vault, the times of keys, what is deleted,*)
(* and that the manager implements KeyStore.                               *)
(***************************************************************************)
EXTENDS OpenbaoKeyManager, TLAPS

-----------------------------------------------------------------------------
(* Type correctness.                                                       *)

\* A step that moves one thread to a well typed call keeps the threads typed.
LEMMA GotoOK ==
  ASSUME ThreadsOK,
         NEW t \in Threads, NEW label \in PcValues, NEW call \in CallType,
         Goto(t, label, call),
         label \in KeylessPc \/ <<call.dom, call.key>> \in Keys
  PROVE  ThreadsOK'
  BY DEF ThreadsOK, Goto, Here

LEMMA ReturnOK ==
  ASSUME ThreadsOK, NEW t \in Threads, Return(t)
  PROVE  ThreadsOK'
  <1>1. NoCall \in CallType
    BY DEF NoCall, CallType
  <1>2. "idle" \in PcValues /\ "idle" \in KeylessPc
    BY DEF PcValues, KeylessPc
  <1> QED BY <1>1, <1>2, GotoOK DEF Return

LEMMA CallOK ==
  ASSUME NEW d \in Nat, NEW k \in Nat, NEW count \in Nat,
         NEW todo \in SUBSET Keys, NEW gen \in Nat, NEW auth \in BOOLEAN
  PROVE  Call(d, k, count, todo, gen, auth) \in CallType
  BY DEF Call, CallType

LEMMA ContinueOK ==
  ASSUME TypeOK, NEW t \in Threads, pc[t] \notin KeylessPc,
         NEW outcome, NEW next \in PcValues, Continue(t, outcome, next)
  PROVE  ThreadsOK'
  <1> DEFINE call == [arg[t] EXCEPT !.auth = token]
  <1>1. call \in CallType /\ <<call.dom, call.key>> = Here(t)
    BY DEF TypeOK, ThreadsOK, StateOK, CallType, Here
  <1>2. Here(t) \in Keys
    BY DEF TypeOK, ThreadsOK
  <1>3. CASE Accepted(outcome)
    BY <1>1, <1>2, <1>3, GotoOK DEF Continue, TypeOK
  <1>4. CASE ~Accepted(outcome)
    BY <1>4, ReturnOK DEF Continue, TypeOK
  <1> QED BY <1>3, <1>4

LEMMA VaultWriteOK ==
  ASSUME VaultOK, NEW x \in Keys, VaultWrite(x), now' = now
  PROVE  VaultOK'
  <1>1. CASE Present(x)
    BY <1>1 DEF VaultOK, VaultWrite, vaultVars
  <1>2. CASE ~Present(x)
    <2> DEFINE made == [gen |-> nextGen, ctime |-> now,
                        exportable |-> FALSE, deletable |-> FALSE]
    <2>1. made \in VaultKey
      BY DEF VaultOK, VaultKey
    <2>2. vault' = [vault EXCEPT ![x] = made] /\ nextGen' = nextGen + 1
      BY <1>2 DEF VaultWrite
    <2> QED BY <2>1, <2>2 DEF VaultOK
  <1> QED BY <1>1, <1>2

LEMMA VaultConfigOK ==
  ASSUME VaultOK, NEW x \in Keys, NEW b \in BOOLEAN, VaultConfig(x, b),
         now' = now
  PROVE  VaultOK'
  BY DEF VaultOK, VaultConfig, VaultKey

LEMMA VaultDeleteOK ==
  ASSUME VaultOK, NEW x \in Keys, VaultDelete(x), now' = now
  PROVE  VaultOK'
  BY DEF VaultOK, VaultDelete, VaultKey, NoKey

LEMMA ProcessLostOK ==
  ASSUME ProcessLost, KeyManagerAssumption
  PROVE  StateOK' /\ MapOK' /\ ThreadsOK'
  BY DEF ProcessLost, ClearState, StateOK, MapOK, ThreadsOK, Times, NoCall,
         CallType, PcValues, KeylessPc, KeyManagerAssumption

-----------------------------------------------------------------------------
(* Each step keeps the types.                                              *)

LEMMA InitTypeOK == KeyManagerAssumption /\ Init => TypeOK
  <1> SUFFICES ASSUME KeyManagerAssumption, Init PROVE TypeOK
    OBVIOUS
  <1>1. VaultOK
    BY DEF Init, VaultOK, VaultKey, NoKey
  <1>2. StateOK /\ MapOK /\ HistoryOK
    BY DEF Init, KeyManagerAssumption, StateOK, MapOK, HistoryOK, Times
  <1>3. ThreadsOK
    BY DEF Init, ThreadsOK, NoCall, CallType, PcValues, KeylessPc
  <1> QED BY <1>1, <1>2, <1>3 DEF TypeOK

\* The three ways in which a step of Init leaves inited_ and domainCount_.
LEMMA InitExitOK ==
  ASSUME StateOK, ThreadsOK, NEW t \in Threads, token' \in BOOLEAN,
         \/ InitDone(t)
         \/ InitFailed(t)
         \/ \E todo \in SUBSET Keys :
              /\ Goto(t, "initRead", Call(0, 0, arg[t].count, todo, 0, token))
              /\ UNCHANGED <<inited, domainCount>>
  PROVE  StateOK' /\ ThreadsOK'
  <1>1. arg[t].count \in Nat
    BY DEF ThreadsOK, CallType
  <1>2. CASE InitDone(t)
    BY <1>1, <1>2, ReturnOK DEF InitDone, StateOK
  <1>3. CASE InitFailed(t)
    BY <1>3, ReturnOK DEF InitFailed, StateOK
  <1>4. ASSUME NEW todo \in SUBSET Keys,
               Goto(t, "initRead", Call(0, 0, arg[t].count, todo, 0, token)),
               UNCHANGED <<inited, domainCount>>
        PROVE  StateOK' /\ ThreadsOK'
    <2>1. Call(0, 0, arg[t].count, todo, 0, token) \in CallType
      BY <1>1, CallOK DEF StateOK
    <2>2. "initRead" \in PcValues /\ "initRead" \in KeylessPc
      BY DEF PcValues, ExclusivePc, KeylessPc
    <2> QED BY <1>4, <2>1, <2>2, GotoOK DEF StateOK
  <1> QED BY <1>2, <1>3, <1>4

LEMMA InitListOK ==
  ASSUME TypeOK, NEW t \in Threads, InitList(t)
  PROVE  TypeOK'
  <1>1. PICK outcome \in Outcomes(t, TRUE) : InitListed(t, outcome)
    BY DEF InitList
  <1>2. UNCHANGED <<vaultVars, now, token, mapVars, historyVars>>
    BY DEF InitList
  <1>3. StateOK' /\ ThreadsOK'
    BY <1>1, <1>2, InitExitOK DEF InitListed, TypeOK, StateOK
  <1> QED BY <1>2, <1>3
          DEF TypeOK, VaultOK, MapOK, HistoryOK, vaultVars, mapVars, historyVars

LEMMA ReadTimeOK ==
  ASSUME VaultOK, NEW x \in Keys, NEW outcome
  PROVE  ReadTime(x, outcome) \in Times
  BY DEF VaultOK, VaultKey, ReadTime, Times

LEMMA InitReadOK ==
  ASSUME TypeOK, NEW t \in Threads, InitRead(t)
  PROVE  TypeOK'
  <1> USE DEF TypeOK
  <1>1. PICK x \in arg[t].todo :
          \E outcome \in Outcomes(t, Present(x)) : PrepareMapEntry(t, x, outcome)
    BY DEF InitRead
  <1>2. PICK outcome : PrepareMapEntry(t, x, outcome)
    BY <1>1
  <1>3. UNCHANGED <<vaultVars, now, token, historyVars>>
    BY DEF InitRead
  <1>4. arg[t].todo \subseteq Keys /\ x \in Keys /\ x[1] \in Domains
    BY DEF ThreadsOK, CallType, Keys
  <1>5. ReadTime(x, outcome) \in Times
    BY <1>4, ReadTimeOK
  <1>6. MapOK'
    <2>1. mapDomains' \subseteq Domains
      BY <1>2, <1>4 DEF PrepareMapEntry, MapOK, mapVars
    <2>2. \/ \E time \in Times : mapTime' = [mapTime EXCEPT ![x] = time]
          \/ mapTime' = [y \in Keys |-> NoTime]
          \/ mapTime' = mapTime
      BY <1>2, <1>4, <1>5 DEF PrepareMapEntry, MapOK, mapVars
    <2>3. mapTime' \in [Keys -> Times]
      BY <1>4, <2>2 DEF MapOK, Times
    <2> QED BY <2>1, <2>3 DEF MapOK
  <1>7. StateOK' /\ ThreadsOK'
    BY <1>2, <1>3, <1>4, InitExitOK DEF PrepareMapEntry, StateOK
  <1> QED BY <1>3, <1>6, <1>7 DEF VaultOK, HistoryOK, vaultVars, historyVars

LEMMA InitStartOK ==
  ASSUME KeyManagerAssumption, TypeOK,
         NEW t \in Threads, NEW count \in DomainCounts, InitStart(t, count)
  PROVE  TypeOK'
  <1>1. Call(0, 0, count, {}, 0, TRUE) \in CallType
    BY CallOK DEF KeyManagerAssumption
  <1>2. "initList" \in PcValues /\ "initList" \in KeylessPc
    BY DEF PcValues, ExclusivePc, KeylessPc
  <1>3. ThreadsOK'
    BY <1>1, <1>2, GotoOK DEF InitStart, TypeOK
  <1> QED BY <1>3 DEF InitStart, TypeOK, VaultOK, StateOK, MapOK, HistoryOK,
                      vaultVars, mapVars, historyVars

LEMMA UnInitOK ==
  ASSUME KeyManagerAssumption, TypeOK, NEW t \in Threads, UnInit(t)
  PROVE  TypeOK'
  <1>1. StateOK' /\ MapOK'
    BY DEF UnInit, ClearState, KeyManagerAssumption, StateOK, MapOK, Times
  <1>2. arg' \in [Threads -> CallType]
    BY DEF UnInit, TypeOK, ThreadsOK, CallType
  <1>3. \A u \in Threads : pc'[u] \notin KeylessPc => Here(u)' \in Keys
    BY DEF UnInit, TypeOK, ThreadsOK, CallType, Here
  <1>4. ThreadsOK'
    BY <1>2, <1>3 DEF UnInit, TypeOK, ThreadsOK
  <1> QED BY <1>1, <1>4
          DEF UnInit, TypeOK, VaultOK, HistoryOK, vaultVars, historyVars

\* Where a call for the key <<d, k>> starts.
LEMMA KeyCallOK ==
  ASSUME KeyManagerAssumption, ThreadsOK, VaultOK, StateOK, NEW t \in Threads,
         NEW d \in Domains, NEW k \in KeyIds, NEW todo \in SUBSET Keys,
         NEW gen \in Nat, NEW label \in PcValues,
         Goto(t, label, Call(d, k, 0, todo, gen, token))
  PROVE  ThreadsOK'
  <1> DEFINE call == Call(d, k, 0, todo, gen, token)
  <1>1. call \in CallType
    BY CallOK DEF KeyManagerAssumption, StateOK
  <1>2. <<call.dom, call.key>> \in Keys
    BY DEF Call, Keys
  <1> QED BY <1>1, <1>2, GotoOK

\* The material behind a key is a generation.
LEMMA GenOK ==
  ASSUME VaultOK, NEW x \in Keys
  PROVE  vault[x].gen \in Nat
  BY DEF VaultOK, VaultKey

LEMMA CreateStartOK ==
  ASSUME KeyManagerAssumption, TypeOK,
         NEW t \in Threads, NEW d \in Domains, CreateStart(t, d)
  PROVE  TypeOK'
  <1>1. PICK k \in CandidateIds :
          IsNextId(d, k) /\ Goto(t, "createWrite", Call(d, k, 0, {}, 0, token))
    BY DEF CreateStart
  <1>2. k \in KeyIds
    BY <1>1 DEF IsNextId
  <1>3. "createWrite" \in PcValues
    BY DEF PcValues, ExclusivePc
  <1>4. ThreadsOK'
    BY <1>1, <1>2, <1>3, KeyCallOK DEF TypeOK
  <1> QED BY <1>4 DEF CreateStart, TypeOK, VaultOK, StateOK, MapOK, HistoryOK,
                      vaultVars, stateVars, historyVars

LEMMA WriteStepOK ==
  ASSUME TypeOK, NEW t \in Threads, NEW here, here \notin KeylessPc,
         NEW next \in PcValues, WriteStep(t, here, next)
  PROVE  TypeOK'
  <1>1. pc[t] = here /\ Here(t) \in Keys
    BY DEF WriteStep, TypeOK, ThreadsOK
  <1>2. PICK outcome \in Outcomes(t, TRUE) :
          /\ IF Applied(outcome) THEN VaultWrite(Here(t)) ELSE UNCHANGED vaultVars
          /\ Continue(t, outcome, next)
    BY DEF WriteStep
  <1>3. UNCHANGED <<now, stateVars, mapVars, historyVars>>
    BY DEF WriteStep
  <1>4. VaultOK'
    BY <1>1, <1>2, <1>3, VaultWriteOK DEF TypeOK, VaultOK, vaultVars
  <1>5. ThreadsOK'
    BY <1>1, <1>2, ContinueOK
  <1> QED BY <1>3, <1>4, <1>5
          DEF TypeOK, StateOK, MapOK, HistoryOK, stateVars, mapVars, historyVars

LEMMA ConfigStepOK ==
  ASSUME TypeOK, NEW t \in Threads, NEW here, here \notin KeylessPc,
         NEW exportable \in BOOLEAN, NEW next \in PcValues,
         ConfigStep(t, here, exportable, next)
  PROVE  TypeOK'
  <1>1. pc[t] = here /\ Here(t) \in Keys
    BY DEF ConfigStep, TypeOK, ThreadsOK
  <1>2. PICK outcome \in Outcomes(t, Present(Here(t))) :
          /\ IF Applied(outcome) THEN VaultConfig(Here(t), exportable)
             ELSE UNCHANGED vaultVars
          /\ Continue(t, outcome, next)
    BY DEF ConfigStep
  <1>3. UNCHANGED <<now, stateVars, mapVars, historyVars>>
    BY DEF ConfigStep
  <1>4. VaultOK'
    BY <1>1, <1>2, <1>3, VaultConfigOK DEF TypeOK, VaultOK, vaultVars
  <1>5. ThreadsOK'
    BY <1>1, <1>2, ContinueOK
  <1> QED BY <1>3, <1>4, <1>5
          DEF TypeOK, StateOK, MapOK, HistoryOK, stateVars, mapVars, historyVars

LEMMA CreateReadOK ==
  ASSUME TypeOK, NEW t \in Threads, CreateRead(t)
  PROVE  TypeOK'
  <1>1. Here(t) \in Keys /\ arg[t].dom \in Domains
    BY DEF CreateRead, TypeOK, ThreadsOK, KeylessPc, Here, Keys
  <1>2. \A outcome : ReadTime(Here(t), outcome) \in Times
    BY <1>1, ReadTimeOK DEF TypeOK
  <1>3. MapOK'
    BY <1>1, <1>2 DEF CreateRead, TypeOK, MapOK, mapVars
  <1>4. ThreadsOK'
    BY ReturnOK DEF CreateRead, TypeOK
  <1> QED BY <1>3, <1>4 DEF CreateRead, TypeOK, VaultOK, StateOK, HistoryOK,
                            vaultVars, stateVars, historyVars

LEMMA RemoveStartOK ==
  ASSUME KeyManagerAssumption, TypeOK, NEW t \in Threads,
         NEW d \in Domains, NEW k \in KeyIds, RemoveStart(t, d, k)
  PROVE  TypeOK'
  <1>1. vault[<<d, k>>].gen \in Nat
    BY GenOK DEF TypeOK, Keys
  <1>2. "removeDelete" \in PcValues
    BY DEF PcValues, ExclusivePc
  <1>3. ThreadsOK'
    BY <1>1, <1>2, KeyCallOK DEF RemoveStart, TypeOK
  <1> QED BY <1>3 DEF RemoveStart, TypeOK, VaultOK, StateOK, MapOK, HistoryOK,
                      vaultVars, stateVars, mapVars, historyVars

\* A delete command, whatever became of it.
LEMMA DeleteCommandOK ==
  ASSUME VaultOK, NEW x \in Keys, now' = now,
         VaultDelete(x) \/ UNCHANGED vaultVars
  PROVE  VaultOK'
  BY VaultDeleteOK DEF VaultOK, vaultVars

LEMMA RemoveDeleteOK ==
  ASSUME TypeOK, NEW t \in Threads, RemoveDelete(t)
  PROVE  TypeOK'
  <1>1. Here(t) \in Keys /\ arg[t].gen \in Nat
    BY DEF RemoveDelete, TypeOK, ThreadsOK, KeylessPc, CallType
  <1>2. PICK outcome \in Outcomes(t, CanDelete(Here(t))) :
          /\ IF Applied(outcome) THEN VaultDelete(Here(t))
             ELSE UNCHANGED vaultVars
          /\ IF Accepted(outcome)
             THEN /\ mapTime' = [mapTime EXCEPT ![Here(t)] = NoTime]
                  /\ mapDomains' = IF MapIds(arg[t].dom) \subseteq {arg[t].key}
                                   THEN mapDomains \ {arg[t].dom} ELSE mapDomains
                  /\ Report(arg[t].gen, outcome)
             ELSE UNCHANGED <<mapVars, removed, unheard>>
    BY DEF RemoveDelete
  <1>3. UNCHANGED <<now, stateVars, ciphers>>
    BY DEF RemoveDelete
  <1>4. VaultOK'
    BY <1>1, <1>2, <1>3, DeleteCommandOK DEF TypeOK
  <1>5. MapOK'
    BY <1>1, <1>2 DEF TypeOK, MapOK, Times, mapVars
  <1>6. HistoryOK'
    BY <1>1, <1>2, <1>3 DEF TypeOK, HistoryOK, Report
  <1>7. ThreadsOK'
    BY ReturnOK DEF RemoveDelete, TypeOK
  <1> QED BY <1>3, <1>4, <1>5, <1>6, <1>7 DEF TypeOK, StateOK, stateVars

LEMMA ClearNextOK ==
  ASSUME KeyManagerAssumption, VaultOK, StateOK, ThreadsOK, NEW t \in Threads,
         NEW doms \in SUBSET Domains, NEW times, ClearNext(t, doms, times)
  PROVE  mapDomains' \subseteq Domains /\ ThreadsOK'
  <1> DEFINE left == {x \in Keys : times[x] # NoTime}
  <1>1. CASE mapDomains' = {} /\ Return(t)
    BY <1>1, ReturnOK
  <1>2. ASSUME NEW x \in left,
               mapDomains' = {d \in doms : x[1] <= d},
               Goto(t, "clearDelete", Call(x[1], x[2], 0, {}, vault[x].gen, token))
        PROVE  mapDomains' \subseteq Domains /\ ThreadsOK'
    <2>1. x[1] \in Domains /\ x[2] \in KeyIds /\ vault[x].gen \in Nat
      BY GenOK DEF Keys
    <2>2. "clearDelete" \in PcValues
      BY DEF PcValues, ExclusivePc
    <2> QED BY <1>2, <2>1, <2>2, KeyCallOK
  <1> QED BY <1>1, <1>2 DEF ClearNext

LEMMA ClearStartOK ==
  ASSUME KeyManagerAssumption, TypeOK, NEW t \in Threads, ClearStart(t)
  PROVE  TypeOK'
  <1>1. mapDomains' \subseteq Domains /\ ThreadsOK'
    BY ClearNextOK DEF ClearStart, TypeOK, MapOK
  <1> QED BY <1>1 DEF ClearStart, TypeOK, VaultOK, StateOK, MapOK, HistoryOK,
                      vaultVars, stateVars, historyVars

LEMMA ClearSkipOK ==
  ASSUME KeyManagerAssumption, VaultOK, StateOK, MapOK, ThreadsOK,
         NEW t \in Threads, Here(t) \in Keys, ClearSkip(t)
  PROVE  StateOK' /\ MapOK' /\ ThreadsOK'
  <1>1. CASE ProcessLost
    BY <1>1, ProcessLostOK
  <1>2. ASSUME NEW d \in mapDomains,
               Goto(t, "clearStray", Call(d, arg[t].key, 0, {}, 0, token)),
               UNCHANGED <<stateVars, mapVars>>
        PROVE  StateOK' /\ MapOK' /\ ThreadsOK'
    <2>1. d \in Domains /\ arg[t].key \in KeyIds
      BY DEF MapOK, Here, Keys
    <2>2. "clearStray" \in PcValues
      BY DEF PcValues, ExclusivePc
    <2>3. ThreadsOK'
      BY <1>2, <2>1, <2>2, KeyCallOK
    <2> QED BY <1>2, <2>3 DEF StateOK, MapOK, stateVars, mapVars
  <1> QED BY <1>1, <1>2 DEF ClearSkip

LEMMA ClearDeleteOK ==
  ASSUME KeyManagerAssumption, TypeOK, NEW t \in Threads, ClearDelete(t)
  PROVE  TypeOK'
  <1>1. Here(t) \in Keys
    BY DEF ClearDelete, TypeOK, ThreadsOK, KeylessPc
  <1>2. VaultOK'
    BY <1>1, DeleteCommandOK DEF ClearDelete, TypeOK
  <1>3. StateOK' /\ MapOK' /\ ThreadsOK'
    <2>1. CASE ProcessLost
      BY <2>1, ProcessLostOK
    <2>2. CASE ClearSkip(t)
      BY <1>1, <2>2, ClearSkipOK DEF TypeOK
    <2>3. CASE /\ mapTime' = [mapTime EXCEPT ![Here(t)] = NoTime]
               /\ ClearNext(t, mapDomains, mapTime')
               /\ UNCHANGED stateVars
      <3>1. mapDomains' \subseteq Domains /\ ThreadsOK'
        BY <2>3, ClearNextOK DEF TypeOK, MapOK
      <3> QED BY <1>1, <2>3, <3>1 DEF TypeOK, StateOK, MapOK, Times, stateVars
    <2> QED BY <2>1, <2>2, <2>3 DEF ClearDelete
  <1> QED BY <1>2, <1>3 DEF ClearDelete, TypeOK, HistoryOK, historyVars

LEMMA ClearStrayOK ==
  ASSUME KeyManagerAssumption, TypeOK, NEW t \in Threads, ClearStray(t)
  PROVE  TypeOK'
  <1>1. Here(t) \in Keys
    BY DEF ClearStray, TypeOK, ThreadsOK, KeylessPc
  <1>2. VaultOK'
    BY <1>1, DeleteCommandOK DEF ClearStray, TypeOK
  <1>3. StateOK' /\ MapOK' /\ ThreadsOK'
    BY <1>1, ProcessLostOK, ClearSkipOK DEF ClearStray, TypeOK
  <1> QED BY <1>2, <1>3 DEF ClearStray, TypeOK, HistoryOK, historyVars

LEMMA RotateNextOK ==
  ASSUME KeyManagerAssumption, VaultOK, StateOK, ThreadsOK, NEW t \in Threads,
         NEW todo \in SUBSET Keys, RotateNext(t, todo)
  PROVE  ThreadsOK'
  <1>1. CASE Return(t)
    BY <1>1, ReturnOK
  <1>2. ASSUME NEW x \in todo,
               Goto(t, "rotateDelete",
                    Call(x[1], x[2], 0, todo \ {x}, vault[x].gen, token))
        PROVE  ThreadsOK'
    <2>1. x[1] \in Domains /\ x[2] \in KeyIds /\ vault[x].gen \in Nat
      BY GenOK DEF Keys
    <2>2. "rotateDelete" \in PcValues /\ todo \ {x} \in SUBSET Keys
      BY DEF PcValues, ExclusivePc
    <2> QED BY <1>2, <2>1, <2>2, KeyCallOK
  <1> QED BY <1>1, <1>2 DEF RotateNext

LEMMA RotateStartOK ==
  ASSUME KeyManagerAssumption, TypeOK,
         NEW t \in Threads, NEW d, NEW lead, RotateStart(t, d, lead)
  PROVE  TypeOK'
  <1>1. ThreadsOK'
    BY RotateNextOK DEF RotateStart, TypeOK, MapKeys
  <1> QED BY <1>1 DEF RotateStart, TypeOK, VaultOK, StateOK, MapOK, HistoryOK,
                      vaultVars, stateVars, mapVars, historyVars

LEMMA RotateDeleteOK ==
  ASSUME TypeOK, NEW t \in Threads, RotateDelete(t)
  PROVE  TypeOK'
  <1>1. pc[t] \notin KeylessPc /\ Here(t) \in Keys
    BY DEF RotateDelete, TypeOK, ThreadsOK, KeylessPc
  <1>2. VaultOK'
    BY <1>1, DeleteCommandOK DEF RotateDelete, TypeOK
  <1>3. ThreadsOK'
    BY <1>1, ContinueOK DEF RotateDelete, PcValues, ExclusivePc
  <1> QED BY <1>2, <1>3 DEF RotateDelete, TypeOK, StateOK, MapOK, HistoryOK,
                            stateVars, mapVars, historyVars

LEMMA RotateReadOK ==
  ASSUME KeyManagerAssumption, TypeOK, NEW t \in Threads, RotateRead(t)
  PROVE  TypeOK'
  <1>1. /\ Here(t) \in Keys /\ arg[t].dom \in Domains
        /\ arg[t].todo \subseteq Keys
    BY DEF RotateRead, TypeOK, ThreadsOK, KeylessPc, CallType, Here, Keys
  <1>2. PICK outcome :
          LET time == ReadTime(Here(t), outcome)
          IN  \/ time = NoTime /\ Return(t) /\ UNCHANGED <<stateVars, mapVars>>
              \/ /\ time # NoTime
                 /\ mapDomains' = mapDomains \cup {arg[t].dom}
                 /\ mapTime' = [mapTime EXCEPT ![Here(t)] = time]
                 /\ IF arg[t].live THEN RotateNext(t, arg[t].todo) ELSE Return(t)
                 /\ UNCHANGED stateVars
              \/ time # NoTime /\ ~arg[t].live /\ ProcessLost
    BY DEF RotateRead
  <1> DEFINE time == ReadTime(Here(t), outcome)
  <1>3. time \in Times
    BY <1>1, ReadTimeOK DEF TypeOK
  <1>4. StateOK' /\ MapOK' /\ ThreadsOK'
    <2>1. CASE Return(t) /\ UNCHANGED <<stateVars, mapVars>>
      BY <2>1, ReturnOK DEF TypeOK, StateOK, MapOK, stateVars, mapVars
    <2>2. CASE /\ mapDomains' = mapDomains \cup {arg[t].dom}
               /\ mapTime' = [mapTime EXCEPT ![Here(t)] = time]
               /\ IF arg[t].live THEN RotateNext(t, arg[t].todo) ELSE Return(t)
               /\ UNCHANGED stateVars
      <3>1. ThreadsOK'
        BY <1>1, <2>2, ReturnOK, RotateNextOK DEF TypeOK
      <3> QED BY <1>1, <1>3, <2>2, <3>1 DEF TypeOK, StateOK, MapOK, stateVars
    <2>3. CASE ProcessLost
      BY <2>3, ProcessLostOK
    <2> QED BY <1>2, <2>1, <2>2, <2>3
  <1> QED BY <1>4 DEF RotateRead, TypeOK, VaultOK, HistoryOK, vaultVars, historyVars

\* Encrypt's way to CreateKey.
LEMMA EncryptUpgradeOK ==
  ASSUME ThreadsOK, NEW t \in Threads, Goto(t, "encryptUpgrade", NoCall)
  PROVE  ThreadsOK'
  <1>1. NoCall \in CallType
    BY DEF NoCall, CallType
  <1>2. "encryptUpgrade" \in PcValues /\ "encryptUpgrade" \in KeylessPc
    BY DEF PcValues, SharedPc, KeylessPc
  <1> QED BY <1>1, <1>2, GotoOK

LEMMA EncryptStartOK ==
  ASSUME KeyManagerAssumption, TypeOK,
         NEW t \in Threads, NEW d \in Domains, EncryptStart(t, d)
  PROVE  TypeOK'
  <1>1. \A k \in KeyIds : vault[<<d, k>>].gen \in Nat
    BY GenOK DEF TypeOK, Keys
  <1>2. "encryptExport" \in PcValues
    BY DEF PcValues, SharedPc
  <1>3. ThreadsOK'
    BY <1>1, <1>2, KeyCallOK, EncryptUpgradeOK DEF EncryptStart, TypeOK
  <1> QED BY <1>3 DEF EncryptStart, TypeOK, VaultOK, StateOK, MapOK, HistoryOK,
                      vaultVars, stateVars, mapVars, historyVars

LEMMA EncryptExportOK ==
  ASSUME TypeOK, NEW t \in Threads, EncryptExport(t)
  PROVE  TypeOK'
  <1>1. arg[t].dom \in Domains /\ arg[t].key \in KeyIds /\ Here(t) \in Keys
    BY DEF EncryptExport, TypeOK, ThreadsOK, KeylessPc, Here, Keys
  <1>2. vault[Here(t)].gen \in Nat
    BY <1>1, GenOK DEF TypeOK
  <1>3. ThreadsOK'
    BY ReturnOK, EncryptUpgradeOK DEF EncryptExport, TypeOK
  <1>4. HistoryOK'
    BY <1>1, <1>2 DEF EncryptExport, TypeOK, HistoryOK, Ciphertext
  <1> QED BY <1>3, <1>4 DEF EncryptExport, TypeOK, VaultOK, StateOK, MapOK,
                            vaultVars, stateVars, mapVars

LEMMA DecryptStartOK ==
  ASSUME KeyManagerAssumption, TypeOK,
         NEW t \in Threads, NEW c \in ciphers, DecryptStart(t, c)
  PROVE  TypeOK'
  <1>1. c.dom \in Domains /\ c.key \in KeyIds
    BY DEF TypeOK, HistoryOK, Ciphertext
  <1>2. vault[<<c.dom, c.key>>].gen \in Nat
    BY <1>1, GenOK DEF TypeOK, Keys
  <1>3. "decryptExport" \in PcValues
    BY DEF PcValues, SharedPc
  <1>4. ThreadsOK'
    BY <1>1, <1>2, <1>3, KeyCallOK DEF DecryptStart, TypeOK
  <1> QED BY <1>4 DEF DecryptStart, TypeOK, VaultOK, StateOK, MapOK, HistoryOK,
                      vaultVars, stateVars, mapVars, historyVars

LEMMA LatestStartOK ==
  ASSUME KeyManagerAssumption, TypeOK,
         NEW t \in Threads, NEW d \in Domains, LatestStart(t, d)
  PROVE  TypeOK'
  <1>1. \A k \in KeyIds : vault[<<d, k>>].gen \in Nat
    BY GenOK DEF TypeOK, Keys
  <1>2. "latestExport" \in PcValues
    BY DEF PcValues
  <1>3. ThreadsOK'
    <2>1. CASE UNCHANGED <<pc, arg>>
      BY <2>1 DEF TypeOK, ThreadsOK, Here
    <2> QED BY <1>1, <1>2, <2>1, KeyCallOK DEF LatestStart, TypeOK
  <1> QED BY <1>3 DEF LatestStart, TypeOK, VaultOK, StateOK, MapOK, HistoryOK,
                      vaultVars, stateVars, historyVars

\* DecryptExport and LatestExport: the call returns and nothing changes.
LEMMA ReturnOnlyOK ==
  ASSUME TypeOK, NEW t \in Threads, Return(t),
         UNCHANGED <<vaultVars, now, stateVars, mapVars, historyVars>>
  PROVE  TypeOK'
  BY ReturnOK DEF TypeOK, VaultOK, StateOK, MapOK, HistoryOK,
                  vaultVars, stateVars, mapVars, historyVars

LEMMA BeginOK ==
  ASSUME KeyManagerAssumption, TypeOK, NEW t \in Threads, Begin(t)
  PROVE  TypeOK'
  BY InitStartOK, UnInitOK, ClearStartOK, DecryptStartOK, CreateStartOK,
     RemoveStartOK, RotateStartOK, EncryptStartOK, LatestStartOK DEF Begin

LEMMA ProceedOK ==
  ASSUME KeyManagerAssumption, TypeOK, NEW t \in Threads, Proceed(t)
  PROVE  TypeOK'
  <1>1. CASE CreateWrite(t)
    BY <1>1, WriteStepOK DEF CreateWrite, KeylessPc, PcValues, ExclusivePc
  <1>2. CASE CreateConfig(t)
    BY <1>2, ConfigStepOK DEF CreateConfig, KeylessPc, PcValues, ExclusivePc
  <1>3. CASE RotateWrite(t)
    BY <1>3, WriteStepOK DEF RotateWrite, KeylessPc, PcValues, ExclusivePc
  <1>4. CASE RotateConfig(t)
    BY <1>4, ConfigStepOK DEF RotateConfig, KeylessPc, PcValues, ExclusivePc
  <1>5. CASE DecryptExport(t)
    BY <1>5, ReturnOnlyOK DEF DecryptExport
  <1>6. CASE LatestExport(t)
    BY <1>6, ReturnOnlyOK DEF LatestExport
  <1> QED BY <1>1, <1>2, <1>3, <1>4, <1>5, <1>6, InitListOK, InitReadOK,
             CreateReadOK, RemoveDeleteOK, ClearDeleteOK, ClearStrayOK,
             RotateDeleteOK, RotateReadOK, EncryptExportOK DEF Proceed

LEMMA NextTypeOK ==
  ASSUME KeyManagerAssumption, TypeOK, [Next]_vars
  PROVE  TypeOK'
  <1>1. CASE Crash
    BY <1>1, ProcessLostOK
       DEF Crash, TypeOK, VaultOK, HistoryOK, vaultVars, historyVars
  <1>2. CASE Tick
    BY <1>2 DEF Tick, TypeOK, VaultOK, StateOK, MapOK, ThreadsOK, HistoryOK, Here,
                vaultVars, stateVars, mapVars, historyVars
  <1>3. CASE \E t \in Threads : Begin(t) \/ Proceed(t)
    BY <1>3, BeginOK, ProceedOK
  <1>4. CASE UNCHANGED vars
    BY <1>4 DEF vars, TypeOK, VaultOK, StateOK, MapOK, ThreadsOK, HistoryOK, Here
  <1> QED BY <1>1, <1>2, <1>3, <1>4 DEF Next

\* Every state of every instance is well typed; in particular the key a vault
\* command is run for is one of the keys the vault could hold, whichever call
\* chose it (GenerateKeyId's new id, the id in a ciphertext's header, the stray
\* id of DeleteAllKey's failure branch).
THEOREM TypeCorrect == Spec => []TypeOK
  <1>1. Init => TypeOK
    BY KeyManagerAssumption, InitTypeOK
  <1>2. TypeOK /\ [Next]_vars => TypeOK'
    BY KeyManagerAssumption, NextTypeOK
  <1> QED BY <1>1, <1>2, PTL DEF Spec

-----------------------------------------------------------------------------
(* The lock and what it protects.                                          *)

\* What a step of u keeps, for the lock to work: it moves no other thread,
\* changes keys only with mutex_ held exclusively, enters a locked section
\* only when mutex_ lets it, and picks a key it then holds on to.
StepOf(u) ==
  /\ \A t \in Threads \ {u} :
       /\ pc'[t] = pc[t] /\ Here(t)' = Here(t)
       /\ arg'[t].gen = arg[t].gen /\ arg'[t].todo = arg[t].todo
  /\ pc[u] \in ExclusivePc \/ (vault' = vault /\ MapKeys' \subseteq MapKeys)
  /\ pc'[u] \in ExclusivePc => pc[u] \in ExclusivePc \/ ExclusiveFree
  /\ pc'[u] \in SharedPc => pc[u] \in SharedPc \/ SharedFree
  /\ HoldsPicked(u)' /\ HoldsNewest(u)'

LockInv == MutexExclusive /\ PickedKeyIsStable /\ NewestKeyInUse

LEMMA StepKeepsLockInv ==
  ASSUME TypeOK, LockInv, NEW u \in Threads, StepOf(u)
  PROVE  LockInv'
  <1>1. MutexExclusive'
    <2> SUFFICES ASSUME NEW t \in Threads, NEW v \in Threads, t # v,
                        pc'[t] \in ExclusivePc
                 PROVE  pc'[v] \notin ExclusivePc \cup SharedPc
      BY DEF MutexExclusive
    <2>1. CASE u # t /\ u # v
      BY <2>1 DEF StepOf, LockInv, MutexExclusive
    <2>2. CASE u = t
      BY <2>2 DEF StepOf, LockInv, MutexExclusive, ExclusiveFree
    <2>3. CASE u = v
      BY <2>3 DEF StepOf, LockInv, MutexExclusive, ExclusiveFree, SharedFree
    <2> QED BY <2>1, <2>2, <2>3
  <1> SUFFICES ASSUME NEW t \in Threads, t # u,
                      pc[t] \in ExclusivePc \cup SharedPc
               PROVE  HoldsPicked(t)' /\ HoldsNewest(t)'
    <2>1. ASSUME NEW t \in Threads, pc'[t] \notin ExclusivePc \cup SharedPc
          PROVE  HoldsPicked(t)' /\ HoldsNewest(t)'
      BY <2>1 DEF HoldsPicked, HoldsNewest, ExclusivePc, SharedPc
    <2> QED BY <1>1, <2>1 DEF StepOf, LockInv, PickedKeyIsStable, NewestKeyInUse
  <1>2. vault' = vault /\ MapKeys' \subseteq MapKeys
    BY DEF StepOf, LockInv, MutexExclusive
  <1>3. pc'[t] = pc[t] /\ Here(t)' = Here(t) /\ arg'[t].gen = arg[t].gen
    BY DEF StepOf
  <1>4. HoldsPicked(t)'
    BY <1>2, <1>3 DEF LockInv, PickedKeyIsStable, HoldsPicked
  <1>5. arg'[t].dom = arg[t].dom /\ arg'[t].key = arg[t].key
    BY <1>3 DEF Here
  <1>6. ASSUME pc[t] \notin KeylessPc
        PROVE  MapIds(arg[t].dom)' \subseteq MapIds(arg[t].dom)
    <2>1. arg[t].dom \in Domains
      BY <1>6 DEF TypeOK, ThreadsOK, Here, Keys
    <2> SUFFICES ASSUME NEW k \in KeyIds, mapTime'[<<arg[t].dom, k>>] # NoTime
                 PROVE  mapTime[<<arg[t].dom, k>>] # NoTime
      BY <1>5 DEF MapIds
    <2>2. <<arg[t].dom, k>> \in MapKeys'
      BY <2>1 DEF MapKeys, Keys
    <2> QED BY <1>2, <2>2 DEF MapKeys
  <1>7. HoldsNewest(t)'
    BY <1>3, <1>5, <1>6
       DEF LockInv, NewestKeyInUse, HoldsNewest, KeylessPc, MapIds
  <1> QED BY <1>4, <1>7

KeepsKeys == vault' = vault /\ MapKeys' \subseteq MapKeys

LEMMA GotoStepOf ==
  ASSUME TypeOK, NEW t \in Threads, NEW label, NEW call, Goto(t, label, call),
         pc[t] \in ExclusivePc \/ KeepsKeys,
         label \in ExclusivePc => pc[t] \in ExclusivePc \/ ExclusiveFree,
         label \in SharedPc => pc[t] \in SharedPc \/ SharedFree,
         label \in {"encryptExport", "decryptExport", "removeDelete",
                   "clearDelete", "rotateDelete"} =>
           vault'[<<call.dom, call.key>>].gen = call.gen,
         label = "encryptExport" =>
           \A j \in KeyIds : mapTime'[<<call.dom, j>>] # NoTime => j <= call.key,
         label \in {"createWrite", "createConfig", "createRead"} =>
           \A j \in KeyIds : mapTime'[<<call.dom, j>>] # NoTime => j < call.key
  PROVE  StepOf(t)
  <1>1. /\ pc'[t] = label /\ arg'[t] = call
        /\ \A v \in Threads \ {t} : pc'[v] = pc[v] /\ arg'[v] = arg[v]
    BY DEF Goto, TypeOK, ThreadsOK
  <1>2. HoldsPicked(t)'
    BY <1>1 DEF HoldsPicked, Here
  <1>3. MapIds(arg[t].dom)' = {j \in KeyIds : mapTime'[<<call.dom, j>>] # NoTime}
    BY <1>1 DEF MapIds
  <1>4. HoldsNewest(t)'
    BY <1>1, <1>3 DEF HoldsNewest
  <1> QED BY <1>1, <1>2, <1>4 DEF StepOf, Here, KeepsKeys

LEMMA ReturnStepOf ==
  ASSUME TypeOK, NEW t \in Threads, Return(t),
         pc[t] \in ExclusivePc \/ KeepsKeys
  PROVE  StepOf(t)
  BY GotoStepOf DEF Return, ExclusivePc, SharedPc

\* Any thread may start a call that needs no key yet.
LEMMA KeylessStepOf ==
  ASSUME TypeOK, NEW t \in Threads, NEW label, NEW call, Goto(t, label, call),
         pc[t] \in ExclusivePc \/ KeepsKeys,
         \/ label \in {"initList", "initRead", "clearStray", "rotateWrite",
                      "rotateConfig", "rotateRead"}
            /\ (pc[t] \in ExclusivePc \/ ExclusiveFree)
         \/ label = "encryptUpgrade" /\ (pc[t] \in SharedPc \/ SharedFree)
         \/ label = "latestExport"
  PROVE  StepOf(t)
  BY GotoStepOf DEF ExclusivePc, SharedPc

\* The steps that begin a call.
LEMMA BeginStepOf ==
  ASSUME KeyManagerAssumption, TypeOK, NEW t \in Threads, Begin(t)
  PROVE  StepOf(t)
  <1>1. ASSUME NEW count \in DomainCounts, InitStart(t, count)
        PROVE  StepOf(t)
    BY <1>1, KeylessStepOf DEF InitStart, KeepsKeys, MapKeys, vaultVars, mapVars
  <1>2. CASE UnInit(t)
    <2>1. \A v \in Threads : /\ pc'[v] = pc[v] /\ Here(v)' = Here(v)
                             /\ arg'[v].gen = arg[v].gen /\ arg'[v].todo = arg[v].todo
      BY <1>2 DEF UnInit, TypeOK, ThreadsOK, CallType, Here
    <2>2. KeepsKeys
      BY <1>2 DEF UnInit, ClearState, KeepsKeys, MapKeys, vaultVars
    <2>3. pc'[t] = "idle"
      BY <1>2 DEF UnInit, TypeOK, ThreadsOK
    <2> QED BY <2>1, <2>2, <2>3 DEF StepOf, KeepsKeys, HoldsPicked, HoldsNewest,
                                    ExclusivePc, SharedPc
  <1>3. CASE ClearStart(t)
    <2>1. KeepsKeys
      BY <1>3 DEF ClearStart, KeepsKeys, MapKeys, vaultVars
    <2>2. CASE Return(t)
      BY <2>1, <2>2, ReturnStepOf
    <2>3. ASSUME NEW x \in Keys, Goto(t, "clearDelete",
                   Call(x[1], x[2], 0, {}, vault[x].gen, token))
          PROVE  StepOf(t)
      <3>1. x = <<x[1], x[2]>>
        BY DEF Keys
      <3> QED BY <1>3, <2>1, <2>3, <3>1, GotoStepOf
              DEF ClearStart, KeepsKeys, Call, ExclusivePc, SharedPc
    <2> QED BY <1>3, <2>2, <2>3 DEF ClearStart, ClearNext
  <1>4. ASSUME NEW c \in ciphers, DecryptStart(t, c)
        PROVE  StepOf(t)
    <2>1. KeepsKeys
      BY <1>4 DEF DecryptStart, KeepsKeys, MapKeys, vaultVars, mapVars
    <2> QED BY <1>4, <2>1, GotoStepOf
            DEF DecryptStart, KeepsKeys, Call, ExclusivePc, SharedPc
  <1>5. ASSUME NEW d \in Domains, CreateStart(t, d)
        PROVE  StepOf(t)
    <2>1. KeepsKeys /\ MapIds(d)' = MapIds(d)
      BY <1>5 DEF CreateStart, KeepsKeys, MapKeys, MapIds, vaultVars
    <2>2. PICK k \in KeyIds : /\ IsNextId(d, k)
                             /\ Goto(t, "createWrite", Call(d, k, 0, {}, 0, token))
      BY <1>5 DEF CreateStart, IsNextId
    <2>3. ASSUME NEW j \in KeyIds, mapTime'[<<d, j>>] # NoTime
          PROVE  j < k
      <3>1. j \in MapIds(d)
        BY <2>1, <2>3 DEF MapIds
      <3>2. j <= k - 1
        BY <2>2, <3>1 DEF IsNextId, IsNewest
      <3> QED BY <3>2 DEF KeyManagerAssumption
    <2> DEFINE call == Call(d, k, 0, {}, 0, token)
    <2>4. \A j \in KeyIds : mapTime'[<<call.dom, j>>] # NoTime => j < call.key
      BY <2>3 DEF Call
    <2>5. Goto(t, "createWrite", call) /\ ExclusiveFree
      BY <1>5, <2>2 DEF CreateStart
    <2> HIDE DEF call
    <2> QED BY <2>1, <2>4, <2>5, GotoStepOf DEF ExclusivePc, SharedPc
  <1>6. ASSUME NEW d \in Domains, NEW k \in KeyIds, RemoveStart(t, d, k)
        PROVE  StepOf(t)
    <2>1. KeepsKeys
      BY <1>6 DEF RemoveStart, KeepsKeys, MapKeys, vaultVars, mapVars
    <2> QED BY <1>6, <2>1, GotoStepOf
            DEF RemoveStart, KeepsKeys, Call, ExclusivePc, SharedPc
  <1>7. ASSUME NEW d \in Domains, NEW lead \in Leads, RotateStart(t, d, lead)
        PROVE  StepOf(t)
    <2>1. KeepsKeys
      BY <1>7 DEF RotateStart, KeepsKeys, MapKeys, vaultVars, mapVars
    <2>2. CASE Return(t)
      BY <2>1, <2>2, ReturnStepOf
    <2>3. ASSUME NEW x \in Keys, NEW todo, Goto(t, "rotateDelete",
                   Call(x[1], x[2], 0, todo, vault[x].gen, token))
          PROVE  StepOf(t)
      <3>1. x = <<x[1], x[2]>>
        BY DEF Keys
      <3> QED BY <1>7, <2>1, <2>3, <3>1, GotoStepOf
              DEF RotateStart, KeepsKeys, Call, ExclusivePc, SharedPc
    <2> QED BY <1>7, <2>2, <2>3 DEF RotateStart, RotateNext, MapKeys
  <1>8. ASSUME NEW d \in Domains, EncryptStart(t, d)
        PROVE  StepOf(t)
    <2>1. KeepsKeys /\ MapIds(d)' = MapIds(d)
      BY <1>8 DEF EncryptStart, KeepsKeys, MapKeys, MapIds, vaultVars, mapVars
    <2>2. CASE Goto(t, "encryptUpgrade", NoCall)
      BY <1>8, <2>1, <2>2, KeylessStepOf DEF EncryptStart
    <2>3. ASSUME NEW k \in KeyIds, IsNewest(d, k),
                 Goto(t, "encryptExport",
                      Call(d, k, 0, {}, vault[<<d, k>>].gen, token))
          PROVE  StepOf(t)
      <3> DEFINE call == Call(d, k, 0, {}, vault[<<d, k>>].gen, token)
      <3>1. call.dom = d /\ call.key = k /\ call.gen = vault[<<d, k>>].gen
        BY DEF Call
      <3>2. ASSUME NEW j \in KeyIds, mapTime'[<<d, j>>] # NoTime
            PROVE  j <= k
        BY <2>1, <2>3, <3>2 DEF IsNewest, MapIds
      <3>3. \A j \in KeyIds : mapTime'[<<call.dom, j>>] # NoTime => j <= call.key
        BY <3>1, <3>2
      <3>4. vault'[<<call.dom, call.key>>].gen = call.gen
        BY <2>1, <3>1 DEF KeepsKeys
      <3>5. Goto(t, "encryptExport", call) /\ SharedFree
        BY <1>8, <2>3 DEF EncryptStart
      <3> HIDE DEF call
      <3> QED BY <2>1, <3>3, <3>4, <3>5, GotoStepOf DEF ExclusivePc, SharedPc
    <2> QED BY <1>8, <2>2, <2>3 DEF EncryptStart
  <1>9. ASSUME NEW d \in Domains, LatestStart(t, d)
        PROVE  StepOf(t)
    <2>1. KeepsKeys
      BY <1>9 DEF LatestStart, KeepsKeys, MapKeys, vaultVars
    <2>2. CASE UNCHANGED <<pc, arg>>
      BY <1>9, <2>1, <2>2 DEF LatestStart, StepOf, KeepsKeys, Here, HoldsPicked,
                              HoldsNewest, ExclusivePc, SharedPc
    <2>3. ASSUME NEW call, Goto(t, "latestExport", call)
          PROVE  StepOf(t)
      BY <2>1, <2>3, KeylessStepOf
    <2> QED BY <1>9, <2>2, <2>3 DEF LatestStart
  <1> QED BY <1>1, <1>2, <1>3, <1>4, <1>5, <1>6, <1>7, <1>8, <1>9 DEF Begin

\* Going on to the next command of the same key.
LEMMA ContinueStepOf ==
  ASSUME TypeOK, LockInv, NEW t \in Threads, pc[t] \in ExclusivePc,
         NEW outcome, NEW next, Continue(t, outcome, next), mapTime' = mapTime,
         \/ next \in {"rotateWrite", "rotateConfig", "rotateRead"}
         \/ /\ pc[t] \in {"createWrite", "createConfig"}
            /\ next \in {"createConfig", "createRead"}
  PROVE  StepOf(t)
  <1> DEFINE call == [arg[t] EXCEPT !.auth = token]
  <1>1. CASE ~Accepted(outcome)
    BY <1>1, ReturnStepOf DEF Continue
  <1>2. CASE Accepted(outcome)
    <2>1. Goto(t, next, call)
      BY <1>2 DEF Continue
    <2>2. CASE next \in {"rotateWrite", "rotateConfig", "rotateRead"}
      BY <2>1, <2>2, KeylessStepOf
    <2>3. CASE /\ pc[t] \in {"createWrite", "createConfig"}
               /\ next \in {"createConfig", "createRead"}
      <3>1. HoldsNewest(t)
        BY DEF LockInv, NewestKeyInUse
      <3>2. \A j \in MapIds(arg[t].dom) : j < arg[t].key
        BY <2>3, <3>1 DEF HoldsNewest
      <3>3. call.dom = arg[t].dom /\ call.key = arg[t].key
        BY DEF TypeOK, ThreadsOK, CallType
      <3>4. \A j \in KeyIds : mapTime'[<<call.dom, j>>] # NoTime => j < call.key
        BY <3>2, <3>3 DEF MapIds
      <3> HIDE DEF call
      <3> QED BY <2>1, <2>3, <3>4, GotoStepOf DEF ExclusivePc, SharedPc
    <2> QED BY <2>2, <2>3
  <1> QED BY <1>1, <1>2

\* DeleteAllKey's way from key to key: where it stops, the key it picked is
\* not the one whose deletion just ended.
LEMMA ClearNextStepOf ==
  ASSUME TypeOK, NEW t \in Threads, pc[t] \in ExclusivePc,
         NEW doms, NEW times, ClearNext(t, doms, times),
         \A x \in Keys : times[x] # NoTime => vault'[x].gen = vault[x].gen
  PROVE  StepOf(t)
  <1>1. CASE Return(t)
    BY <1>1, ReturnStepOf
  <1>2. ASSUME NEW x \in Keys, times[x] # NoTime,
               Goto(t, "clearDelete", Call(x[1], x[2], 0, {}, vault[x].gen, token))
        PROVE  StepOf(t)
    <2>1. x = <<x[1], x[2]>>
      BY DEF Keys
    <2> QED BY <1>2, <2>1, GotoStepOf DEF Call, ExclusivePc, SharedPc
  <1> QED BY <1>1, <1>2 DEF ClearNext

LEMMA ClearSkipStepOf ==
  ASSUME TypeOK, NEW t \in Threads, pc[t] \in ExclusivePc, ClearSkip(t)
  PROVE  StepOf(t) \/ ProcessLost
  BY KeylessStepOf DEF ClearSkip

LEMMA ClearDeleteStepOf ==
  ASSUME TypeOK, NEW t \in Threads, ClearDelete(t)
  PROVE  StepOf(t) \/ ProcessLost
  <1>1. pc[t] = "clearDelete" /\ pc[t] \in ExclusivePc /\ Here(t) \in Keys
    BY DEF ClearDelete, ExclusivePc, TypeOK, ThreadsOK, KeylessPc
  <1>2. CASE ClearSkip(t)
    BY <1>1, <1>2, ClearSkipStepOf
  <1>3. CASE /\ mapTime' = [mapTime EXCEPT ![Here(t)] = NoTime]
             /\ ClearNext(t, mapDomains, mapTime')
    <2>1. VaultDelete(Here(t)) \/ vault' = vault
      BY DEF ClearDelete, vaultVars
    <2>2. \A x \in Keys : x # Here(t) => vault'[x].gen = vault[x].gen
      BY <2>1 DEF VaultDelete, TypeOK, VaultOK
    <2>3. mapTime'[Here(t)] = NoTime
      BY <1>1, <1>3 DEF TypeOK, MapOK
    <2> QED BY <1>1, <1>3, <2>2, <2>3, ClearNextStepOf
  <1> QED BY <1>2, <1>3 DEF ClearDelete

LEMMA RotateReadStepOf ==
  ASSUME TypeOK, NEW t \in Threads, RotateRead(t)
  PROVE  StepOf(t) \/ ProcessLost
  <1>1. /\ pc[t] \in ExclusivePc /\ vault' = vault
        /\ arg[t].todo \subseteq Keys
    BY DEF RotateRead, ExclusivePc, vaultVars, TypeOK, ThreadsOK, CallType
  <1>2. CASE Return(t)
    BY <1>1, <1>2, ReturnStepOf
  <1>3. ASSUME NEW x \in Keys, NEW todo, Goto(t, "rotateDelete",
                 Call(x[1], x[2], 0, todo, vault[x].gen, token))
        PROVE  StepOf(t)
    <2>1. x = <<x[1], x[2]>>
      BY DEF Keys
    <2> QED BY <1>1, <1>3, <2>1, GotoStepOf DEF Call, ExclusivePc, SharedPc
  <1>4. CASE RotateNext(t, arg[t].todo)
    BY <1>1, <1>2, <1>3, <1>4 DEF RotateNext
  <1> QED BY <1>2, <1>4 DEF RotateRead

\* The steps that go on with a call.
LEMMA ProceedStepOf ==
  ASSUME TypeOK, LockInv, NEW t \in Threads, Proceed(t)
  PROVE  StepOf(t) \/ ProcessLost
  <1>1. CASE InitList(t)
    BY <1>1, ReturnStepOf, KeylessStepOf
       DEF InitList, InitListed, InitDone, InitFailed, ExclusivePc
  <1>2. CASE InitRead(t)
    BY <1>2, ReturnStepOf, KeylessStepOf
       DEF InitRead, PrepareMapEntry, InitDone, InitFailed, ExclusivePc
  <1>3. CASE CreateWrite(t)
    BY <1>3, ContinueStepOf DEF CreateWrite, WriteStep, ExclusivePc, mapVars
  <1>4. CASE CreateConfig(t)
    BY <1>4, ContinueStepOf DEF CreateConfig, ConfigStep, ExclusivePc, mapVars
  <1>5. CASE CreateRead(t)
    BY <1>5, ReturnStepOf DEF CreateRead, ExclusivePc
  <1>6. CASE RemoveDelete(t)
    BY <1>6, ReturnStepOf DEF RemoveDelete, ExclusivePc
  <1>7. CASE ClearDelete(t)
    BY <1>7, ClearDeleteStepOf
  <1>8. CASE ClearStray(t)
    BY <1>8, ClearSkipStepOf DEF ClearStray, ExclusivePc
  <1>9. CASE RotateDelete(t)
    BY <1>9, ContinueStepOf DEF RotateDelete, ExclusivePc, mapVars
  <1>10. CASE RotateWrite(t)
    BY <1>10, ContinueStepOf DEF RotateWrite, WriteStep, ExclusivePc, mapVars
  <1>11. CASE RotateConfig(t)
    BY <1>11, ContinueStepOf DEF RotateConfig, ConfigStep, ExclusivePc, mapVars
  <1>12. CASE RotateRead(t)
    BY <1>12, RotateReadStepOf
  <1>13. CASE EncryptExport(t)
    BY <1>13, ReturnStepOf, KeylessStepOf
       DEF EncryptExport, KeepsKeys, MapKeys, SharedPc, vaultVars, mapVars
  <1>14. CASE DecryptExport(t) \/ LatestExport(t)
    BY <1>14, ReturnStepOf
       DEF DecryptExport, LatestExport, KeepsKeys, MapKeys, vaultVars, mapVars
  <1> QED BY <1>1, <1>2, <1>3, <1>4, <1>5, <1>6, <1>7, <1>8, <1>9, <1>10,
             <1>11, <1>12, <1>13, <1>14 DEF Proceed

LEMMA NextLockInv ==
  ASSUME KeyManagerAssumption, TypeOK, LockInv, [Next]_vars
  PROVE  LockInv'
  <1>1. CASE ProcessLost
    BY <1>1 DEF ProcessLost, LockInv, MutexExclusive, PickedKeyIsStable,
                NewestKeyInUse, HoldsPicked, HoldsNewest, ExclusivePc
  <1>2. CASE Tick
    BY <1>2 DEF Tick, LockInv, MutexExclusive, PickedKeyIsStable, NewestKeyInUse,
                HoldsPicked, HoldsNewest, MapIds, Here, vaultVars, mapVars
  <1>3. ASSUME NEW t \in Threads, Begin(t) \/ Proceed(t)
        PROVE  LockInv'
    BY <1>1, <1>3, BeginStepOf, ProceedStepOf, StepKeepsLockInv
  <1>4. CASE UNCHANGED vars
    BY <1>4 DEF vars, LockInv, MutexExclusive, PickedKeyIsStable, NewestKeyInUse,
                HoldsPicked, HoldsNewest, MapIds, Here
  <1> QED BY <1>1, <1>2, <1>3, <1>4 DEF Next, Crash

LEMMA LockInvCorrect == Spec => []LockInv
  <1>1. Init => LockInv
    BY DEF Init, LockInv, MutexExclusive, PickedKeyIsStable, NewestKeyInUse,
           HoldsPicked, HoldsNewest, ExclusivePc
  <1>2. TypeOK /\ LockInv /\ [Next]_vars => LockInv'
    BY KeyManagerAssumption, NextLockInv
  <1> QED BY <1>1, <1>2, TypeCorrect, PTL DEF Spec

\* While one thread is in a call that changes keys, no other is in any locked
\* call, for any number of threads and on every path of the code.
THEOREM MutexIsExclusive == Spec => []MutexExclusive
  BY LockInvCorrect, PTL DEF LockInv

\* The material a command acts on is what the call picked, however the calls
\* of the threads interleave with each other, UnInit, crashes and faults.
THEOREM PickedKeyStays == Spec => []PickedKeyIsStable
  BY LockInvCorrect, PTL DEF LockInv

\* Encrypt's key is still the newest when it is exported, and the id CreateKey
\* chose is still above all others when the key is entered in the map.
THEOREM NewestKeyStays == Spec => []NewestKeyInUse
  BY LockInvCorrect, PTL DEF LockInv

-----------------------------------------------------------------------------
(* Removed key material.                                                   *)

\* What a step may do to the vault.
VaultStep ==
  \/ UNCHANGED vaultVars
  \/ \E x \in Keys : \/ VaultWrite(x)
                    \/ VaultDelete(x)
                    \/ \E exportable \in BOOLEAN : VaultConfig(x, exportable)

\* Key material is made once: every generation the vault or the history knows
\* is below nextGen, and no two keys have the same.
FreshInv ==
  /\ \A x \in Keys : vault[x].gen < nextGen
  /\ \A x, y \in Keys : vault[x].gen = vault[y].gen /\ vault[x].gen # 0 => x = y
  /\ \A g \in removed : g < nextGen
  /\ RemovedStaysGone

LEMMA VaultStepFresh ==
  ASSUME TypeOK, FreshInv, VaultStep, removed' = removed
  PROVE  FreshInv'
  <1> USE DEF TypeOK, VaultOK, VaultKey, HistoryOK, FreshInv, RemovedStaysGone
  <1>1. CASE UNCHANGED vaultVars
    BY <1>1 DEF vaultVars
  <1>2. ASSUME NEW x \in Keys, VaultWrite(x), ~Present(x) PROVE FreshInv'
    <2>1. vault'[x].gen = nextGen /\ nextGen' = nextGen + 1
      BY <1>2 DEF VaultWrite
    <2>2. \A y \in Keys \ {x} : vault'[y] = vault[y]
      BY <1>2 DEF VaultWrite
    <2>3. \A y \in Keys : vault[y].gen \in Nat /\ vault[y].gen < nextGen
      OBVIOUS
    <2>4. \A y \in Keys : vault'[y].gen < nextGen'
      BY <2>1, <2>2, <2>3
    <2>5. \A y, z \in Keys :
            vault'[y].gen = vault'[z].gen /\ vault'[y].gen # 0 => y = z
      BY <2>1, <2>2, <2>3
    <2>6. \A g \in removed' : g < nextGen'
      <3>1. nextGen \in Nat /\ removed \subseteq Nat
        OBVIOUS
      <3>2. removed' = removed /\ \A g \in removed : g < nextGen
        OBVIOUS
      <3> HIDE DEF TypeOK, FreshInv
      <3> QED BY <2>1, <3>1, <3>2
    <2>7. nextGen \notin removed'
      BY <2>1
    <2>8. \A y \in Keys : vault'[y].gen \notin removed'
      BY <2>1, <2>2, <2>7
    <2> QED BY <2>4, <2>5, <2>6, <2>8
  <1>3. ASSUME NEW x \in Keys, VaultDelete(x) PROVE FreshInv'
    <2>1. nextGen' = nextGen /\ vault'[x].gen = 0 /\ 0 \notin removed
      BY <1>3 DEF VaultDelete, NoKey
    <2>2. \A y \in Keys \ {x} : vault'[y] = vault[y]
      BY <1>3 DEF VaultDelete
    <2> QED BY <2>1, <2>2
  <1>4. ASSUME NEW x \in Keys, NEW exportable \in BOOLEAN,
               VaultConfig(x, exportable)
        PROVE  FreshInv'
    <2>1. nextGen' = nextGen /\ \A y \in Keys : vault'[y].gen = vault[y].gen
      BY <1>4 DEF VaultConfig
    <2> QED BY <2>1
  <1>5. ASSUME NEW x \in Keys, VaultWrite(x), Present(x) PROVE FreshInv'
    BY <1>1, <1>5 DEF VaultWrite
  <1> QED BY <1>1, <1>2, <1>3, <1>4, <1>5 DEF VaultStep

\* An answer on which RemoveKey reports OK is that of a delete that took effect,
\* and PickedKeyIsStable says whose material that removed.
LEMMA RemoveDeleteFresh ==
  ASSUME TypeOK, FreshInv, LockInv, NEW t \in Threads, RemoveDelete(t)
  PROVE  FreshInv'
  <1>1. Here(t) \in Keys /\ vault[Here(t)].gen = arg[t].gen
    BY DEF RemoveDelete, TypeOK, ThreadsOK, KeylessPc, LockInv,
           PickedKeyIsStable, HoldsPicked
  <1>2. PICK outcome \in Outcomes(t, CanDelete(Here(t))) :
          /\ IF Applied(outcome) THEN VaultDelete(Here(t))
             ELSE UNCHANGED vaultVars
          /\ IF Accepted(outcome)
             THEN Report(arg[t].gen, outcome)
             ELSE UNCHANGED removed
    BY DEF RemoveDelete
  <1>3. CASE ~Accepted(outcome) \/ outcome = "silent"
    BY <1>1, <1>2, <1>3, VaultStepFresh DEF VaultStep, Report, Applied
  <1>4. CASE outcome = "done"
    <2> USE DEF TypeOK, VaultOK, VaultKey, HistoryOK, FreshInv, RemovedStaysGone
    <2>1. VaultDelete(Here(t)) /\ removed' = removed \cup ({arg[t].gen} \ {0})
      BY <1>2, <1>4 DEF Applied, Accepted, Report
    <2>2. nextGen' = nextGen /\ vault'[Here(t)].gen = 0
      BY <1>1, <2>1 DEF VaultDelete, NoKey
    <2>3. \A y \in Keys \ {Here(t)} : vault'[y] = vault[y]
      BY <1>1, <2>1 DEF VaultDelete
    <2>4. \A g \in removed' : g < nextGen'
      BY <1>1, <2>1, <2>2
    <2>5. \A y \in Keys : vault'[y].gen \notin removed'
      BY <1>1, <2>1, <2>2, <2>3
    <2> QED BY <1>1, <2>2, <2>3, <2>4, <2>5
  <1> QED BY <1>3, <1>4 DEF Accepted

LEMMA NextVaultStep ==
  ASSUME KeyManagerAssumption, TypeOK, [Next]_vars
  PROVE  \/ VaultStep /\ removed' = removed
         \/ \E t \in Threads : RemoveDelete(t)
  <1>1. CASE Crash \/ Tick \/ UNCHANGED vars
    BY <1>1 DEF Crash, Tick, vars, VaultStep, vaultVars, historyVars
  <1>2. ASSUME NEW t \in Threads, Begin(t)
        PROVE  VaultStep /\ removed' = removed
    BY <1>2 DEF Begin, InitStart, UnInit, ClearStart, DecryptStart, CreateStart,
                RemoveStart, RotateStart, EncryptStart, LatestStart, VaultStep,
                historyVars
  <1>3. ASSUME NEW t \in Threads, Proceed(t), ~RemoveDelete(t)
        PROVE  VaultStep /\ removed' = removed
    <2>1. CASE InitList(t) \/ InitRead(t) \/ CreateRead(t) \/ RotateRead(t)
      BY <2>1 DEF InitList, InitRead, CreateRead, RotateRead, VaultStep, historyVars
    <2>2. CASE EncryptExport(t) \/ DecryptExport(t) \/ LatestExport(t)
      BY <2>2 DEF EncryptExport, DecryptExport, LatestExport, VaultStep, historyVars
    <2>3. pc[t] \notin KeylessPc => Here(t) \in Keys
      BY DEF TypeOK, ThreadsOK
    <2>4. CASE ClearDelete(t) \/ ClearStray(t) \/ RotateDelete(t)
      BY <2>3, <2>4 DEF ClearDelete, ClearStray, RotateDelete, KeylessPc,
                        VaultStep, historyVars
    <2>5. CASE CreateWrite(t) \/ RotateWrite(t)
      BY <2>3, <2>5 DEF CreateWrite, RotateWrite, WriteStep, KeylessPc,
                        VaultStep, historyVars
    <2>6. CASE CreateConfig(t) \/ RotateConfig(t)
      BY <2>3, <2>6 DEF CreateConfig, RotateConfig, ConfigStep, KeylessPc,
                        VaultStep, historyVars
    <2> QED BY <1>3, <2>1, <2>2, <2>4, <2>5, <2>6 DEF Proceed
  <1> QED BY <1>1, <1>2, <1>3 DEF Next

LEMMA FreshCorrect == Spec => []FreshInv
  <1>1. Init => FreshInv
    BY DEF Init, FreshInv, NoKey, RemovedStaysGone
  <1>2. TypeOK /\ LockInv /\ FreshInv /\ [Next]_vars => FreshInv'
    BY KeyManagerAssumption, NextVaultStep, VaultStepFresh, RemoveDeleteFresh
  <1> QED BY <1>1, <1>2, TypeCorrect, LockInvCorrect, PTL DEF Spec

\* Key material whose removal RemoveKey reported on an answer of the client never
\* comes back, whatever else fails, also without a word.
THEOREM RemovedStaysRemoved == Spec => []RemovedStaysGone
  <1>1. FreshInv => RemovedStaysGone
    BY DEF FreshInv
  <1> QED BY <1>1, FreshCorrect, PTL

-----------------------------------------------------------------------------
(* The map and the vault.                                                  *)

\* No vault command fails, UnInit overlaps nothing, and creation times stay
\* below what JsonCpp calls an int.
Calm == Faults = {} /\ UnInitAnywhere = FALSE /\ MaxTime < IntMax

Matches(x) == mapTime[x] = IF Present(x) THEN vault[x].ctime ELSE NoTime

SettledPc == {"createWrite", "removeDelete", "clearDelete", "clearStray",
              "rotateDelete"}
BusyPc    == {"createConfig", "createRead", "rotateWrite", "rotateConfig",
              "rotateRead"}

\* What a thread's place in its call says of the manager: it is inited, the
\* vault accepts it, and the map is the vault's but for the key in hand.
CallSync(t) ==
  /\ pc[t] \in {"initList", "initRead"} => ~inited
  /\ pc[t] \notin {"idle", "initList", "initRead"} => inited
  /\ pc[t] # "idle" => token
  /\ pc[t] \notin {"idle", "encryptUpgrade"} => arg[t].auth /\ arg[t].live
  /\ pc[t] = "initList" => \A x \in Keys : mapTime[x] = NoTime
  /\ pc[t] = "initRead" =>
       \A x \in Keys : IF x \in arg[t].todo THEN mapTime[x] = NoTime /\ Present(x)
                       ELSE Matches(x)
  /\ pc[t] \in SettledPc => \A x \in Keys : Matches(x)
  /\ pc[t] \in BusyPc => \A x \in Keys \ {Here(t)} : Matches(x)
  /\ pc[t] \in BusyPc \ {"rotateWrite"} => Present(Here(t))

\* The same between the calls that change keys.
RestSync == \A x \in Keys : IF inited THEN Matches(x) ELSE mapTime[x] = NoTime

ClockOK == now <= MaxTime /\ \A x \in Keys : vault[x].ctime <= now

Sync ==
  /\ ClockOK
  /\ inited => token
  /\ \A t \in Threads : CallSync(t)
  /\ SharedFree => RestSync

\* A step of one thread that moves no other and ends no session.
MovesOnly(t) ==
  /\ \A u \in Threads \ {t} : pc'[u] = pc[u] /\ arg'[u] = arg[u]
  /\ inited => inited'
  /\ token => token'

GoodStep(t) ==
  /\ MovesOnly(t)
  /\ pc[t] \notin ExclusivePc /\ pc'[t] \notin ExclusivePc =>
       UNCHANGED <<vault, mapTime, inited>>
  /\ ClockOK' /\ (inited => token)'
  /\ CallSync(t)'
  /\ pc[t] \in ExclusivePc /\ pc'[t] \notin ExclusivePc => RestSync'

\* Others are in no call that changes keys while this one is.
LEMMA GoodStepSync ==
  ASSUME TypeOK, Sync, MutexExclusive, MutexExclusive', NEW t \in Threads,
         GoodStep(t)
  PROVE  Sync'
  <1>1. ASSUME NEW u \in Threads, u # t
        PROVE  CallSync(u)'
    <2>1. pc'[u] = pc[u] /\ arg'[u] = arg[u] /\ CallSync(u)
      BY <1>1 DEF GoodStep, MovesOnly, Sync
    <2>2. CASE pc[t] \in ExclusivePc \/ pc'[t] \in ExclusivePc
      <3>1. pc[u] \notin ExclusivePc
        BY <1>1, <2>1, <2>2 DEF MutexExclusive
      <3> QED BY <2>1, <3>1 DEF CallSync, GoodStep, MovesOnly, ExclusivePc,
                                SettledPc, BusyPc
    <2>3. CASE pc[t] \notin ExclusivePc /\ pc'[t] \notin ExclusivePc
      <3>1. UNCHANGED <<vault, mapTime, inited>> /\ (token => token')
        BY <2>3 DEF GoodStep, MovesOnly
      <3> QED BY <2>1, <3>1 DEF CallSync, Matches, Present, Here
    <2> QED BY <2>2, <2>3
  <1>2. ASSUME SharedFree' PROVE RestSync'
    <2>1. CASE pc[t] \in ExclusivePc
      BY <1>2, <2>1 DEF SharedFree, GoodStep
    <2>2. CASE pc[t] \notin ExclusivePc
      <3>1. SharedFree /\ pc'[t] \notin ExclusivePc
        BY <1>2, <2>2 DEF SharedFree, GoodStep, MovesOnly
      <3>2. UNCHANGED <<vault, mapTime, inited>>
        BY <2>2, <3>1 DEF GoodStep
      <3> QED BY <3>1, <3>2 DEF Sync, RestSync, Matches, Present
    <2> QED BY <2>1, <2>2
  <1> QED BY <1>1, <1>2 DEF Sync, GoodStep

\* Where Goto leads, in the words of the lemma above.
LEMMA GotoMoves ==
  ASSUME TypeOK, NEW t \in Threads, NEW label, NEW call, Goto(t, label, call)
  PROVE  /\ pc'[t] = label /\ arg'[t] = call
         /\ \A u \in Threads \ {t} : pc'[u] = pc[u] /\ arg'[u] = arg[u]
  BY DEF Goto, TypeOK, ThreadsOK

\* A process that is lost leaves an empty, uninited manager.
LEMMA ProcessLostSync ==
  ASSUME ProcessLost, ClockOK'
  PROVE  Sync'
  BY DEF ProcessLost, ClearState, Sync, CallSync, RestSync, SettledPc, BusyPc

\* A vault command leaves the creation times below the clock.
LEMMA VaultStepClock ==
  ASSUME TypeOK, ClockOK, VaultStep, now' = now
  PROVE  ClockOK'
  <1> USE DEF TypeOK, VaultOK, VaultKey, ClockOK
  <1>1. CASE UNCHANGED vaultVars
    BY <1>1 DEF vaultVars
  <1>2. ASSUME NEW x \in Keys, VaultWrite(x) PROVE ClockOK'
    BY <1>2 DEF VaultWrite, vaultVars
  <1>3. ASSUME NEW x \in Keys, VaultDelete(x) PROVE ClockOK'
    BY <1>3 DEF VaultDelete, NoKey
  <1>4. ASSUME NEW x \in Keys, NEW exportable \in BOOLEAN,
               VaultConfig(x, exportable)
        PROVE  ClockOK'
    BY <1>4 DEF VaultConfig
  <1> QED BY <1>1, <1>2, <1>3, <1>4 DEF VaultStep

\* The creation time read of a key that is there is the one the vault has.
LEMMA TimeIsRead ==
  ASSUME KeyManagerAssumption, Calm, TypeOK, ClockOK, NEW x \in Keys
  PROVE  /\ ReadTime(x, "done") = vault[x].ctime
         /\ vault[x].ctime # NoTime
         /\ \A outcome : outcome # "done" => ReadTime(x, outcome) = NoTime
  <1>1. vault[x].ctime \in Nat /\ vault[x].ctime <= now /\ now \in Nat
    BY DEF TypeOK, VaultOK, VaultKey, ClockOK
  <1>2. now <= MaxTime /\ MaxTime < IntMax /\ MaxTime \in Nat /\ IntMax \in Nat
    BY DEF ClockOK, Calm, KeyManagerAssumption
  <1>3. vault[x].ctime < IntMax
    BY <1>1, <1>2
  <1> QED BY <1>1, <1>3 DEF ReadTime, NoTime

LEMMA CalmOutcomes ==
  ASSUME Calm, Sync, NEW t \in Threads, pc[t] \notin {"idle", "encryptUpgrade"},
         NEW permitted \in BOOLEAN
  PROVE  Outcomes(t, permitted) = IF permitted THEN {"done"} ELSE {"failed"}
  BY DEF Calm, Sync, CallSync, Outcomes

\* A call that gets no further than an exclusive section of its own.
LEMMA QuietStep ==
  ASSUME TypeOK, Sync, NEW t \in Threads, NEW label, NEW call,
         Goto(t, label, call),
         label \notin ExclusivePc, pc[t] \notin ExclusivePc,
         UNCHANGED <<vault, now, mapTime, inited, token>>,
         label = "idle" \/ inited,
         label \notin {"idle", "encryptUpgrade"} => call.auth /\ call.live
  PROVE  GoodStep(t)
  <1>1. pc'[t] = label /\ arg'[t] = call /\ MovesOnly(t)
    BY GotoMoves DEF MovesOnly
  <1>2. CallSync(t)'
    BY <1>1 DEF CallSync, Sync, ExclusivePc, SettledPc, BusyPc
  <1> QED BY <1>1, <1>2 DEF GoodStep, Sync, ClockOK

\* A call that starts with the map the vault's.
LEMMA SettledStart ==
  ASSUME TypeOK, Sync, NEW t \in Threads, NEW label \in SettledPc, NEW call,
         Goto(t, label, call), ExclusiveFree, inited,
         UNCHANGED <<vault, now, mapTime, inited, token>>,
         call.auth = token /\ call.live
  PROVE  GoodStep(t)
  <1>1. pc'[t] = label /\ arg'[t] = call /\ MovesOnly(t)
    BY GotoMoves DEF MovesOnly
  <1>2. \A x \in Keys : Matches(x)'
    BY DEF Sync, ExclusiveFree, SharedFree, RestSync, Matches, Present
  <1>3. CallSync(t)'
    BY <1>1, <1>2 DEF CallSync, Sync, SettledPc, BusyPc
  <1>4. pc[t] \notin ExclusivePc
    BY DEF ExclusiveFree
  <1> QED BY <1>1, <1>3, <1>4 DEF GoodStep, Sync, ClockOK

LEMMA BeginSync ==
  ASSUME KeyManagerAssumption, Calm, TypeOK, Sync, NEW t \in Threads, Begin(t)
  PROVE  GoodStep(t) \/ Sync'
  <1>1. ASSUME NEW count \in DomainCounts, InitStart(t, count) PROVE GoodStep(t)
    <2>1. /\ pc'[t] = "initList" /\ arg'[t] = Call(0, 0, count, {}, 0, TRUE)
          /\ MovesOnly(t)
      BY <1>1, GotoMoves DEF InitStart, MovesOnly
    <2>2. \A x \in Keys : mapTime'[x] = NoTime
      BY <1>1 DEF InitStart, mapVars, Sync, ExclusiveFree, SharedFree, RestSync
    <2>3. CallSync(t)'
      BY <1>1, <2>1, <2>2 DEF InitStart, CallSync, Call, SettledPc, BusyPc
    <2>4. "initList" \in ExclusivePc
      BY DEF ExclusivePc
    <2> QED BY <1>1, <2>1, <2>3, <2>4
            DEF InitStart, GoodStep, Sync, ClockOK, vaultVars, ExclusiveFree
  <1>2. CASE UnInit(t)
    <2>1. \A u \in Threads : pc[u] = "idle" /\ pc'[u] = "idle"
      BY <1>2 DEF UnInit, Calm
    <2> QED BY <1>2, <2>1 DEF UnInit, ClearState, vaultVars, Sync, ClockOK,
                              CallSync, RestSync, SettledPc, BusyPc
  <1>3. CASE ClearStart(t)
    <2>1. /\ UNCHANGED <<vault, now, mapTime, inited, token>>
          /\ ExclusiveFree /\ inited
      BY <1>3 DEF ClearStart, vaultVars, stateVars
    <2>2. CASE Return(t)
      BY <2>1, <2>2, QuietStep DEF Return, ExclusiveFree, ExclusivePc
    <2>3. ASSUME NEW x, Goto(t, "clearDelete",
                             Call(x[1], x[2], 0, {}, vault[x].gen, token))
          PROVE  GoodStep(t)
      BY <2>1, <2>3, SettledStart DEF Call, SettledPc
    <2> QED BY <1>3, <2>2, <2>3 DEF ClearStart, ClearNext
  <1>4. ASSUME NEW c \in ciphers, DecryptStart(t, c) PROVE GoodStep(t)
    BY <1>4, QuietStep DEF DecryptStart, KnownDomain, ValidateDomain, Call, Sync,
       ExclusivePc, vaultVars, stateVars, mapVars
  <1>5. ASSUME NEW d \in Domains, CreateStart(t, d) PROVE GoodStep(t)
    BY <1>5, SettledStart DEF CreateStart, ValidateDomain, Call, SettledPc,
       vaultVars, stateVars
  <1>6. ASSUME NEW d \in Domains, NEW k \in KeyIds, RemoveStart(t, d, k)
        PROVE  GoodStep(t)
    BY <1>6, SettledStart DEF RemoveStart, KnownDomain, ValidateDomain, Call,
       SettledPc, vaultVars, stateVars, mapVars
  <1>7. ASSUME NEW d \in Domains, NEW lead \in Leads, RotateStart(t, d, lead)
        PROVE  GoodStep(t)
    <2>1. /\ UNCHANGED <<vault, now, mapTime, inited, token>>
          /\ ExclusiveFree /\ inited
      BY <1>7 DEF RotateStart, KnownDomain, ValidateDomain, vaultVars, stateVars,
                  mapVars
    <2>2. CASE Return(t)
      BY <2>1, <2>2, QuietStep DEF Return, ExclusiveFree, ExclusivePc
    <2>3. ASSUME NEW x, NEW todo, Goto(t, "rotateDelete",
                   Call(x[1], x[2], 0, todo, vault[x].gen, token))
          PROVE  GoodStep(t)
      BY <2>1, <2>3, SettledStart DEF Call, SettledPc
    <2> QED BY <1>7, <2>2, <2>3 DEF RotateStart, RotateNext
  <1>8. ASSUME NEW d \in Domains, EncryptStart(t, d) PROVE GoodStep(t)
    <2>1. /\ UNCHANGED <<vault, now, mapTime, inited, token>>
          /\ inited /\ token /\ SharedFree
      BY <1>8 DEF EncryptStart, KnownDomain, ValidateDomain, Sync, vaultVars,
                  stateVars, mapVars
    <2>2. ASSUME NEW k \in KeyIds, Goto(t, "encryptExport",
                   Call(d, k, 0, {}, vault[<<d, k>>].gen, token))
          PROVE  GoodStep(t)
      BY <2>1, <2>2, QuietStep DEF Call, ExclusivePc, SharedFree
    <2>3. CASE Goto(t, "encryptUpgrade", NoCall)
      BY <2>1, <2>3, QuietStep DEF ExclusivePc, SharedFree
    <2> QED BY <1>8, <2>2, <2>3 DEF EncryptStart
  <1>9. ASSUME NEW d \in Domains, LatestStart(t, d) PROVE GoodStep(t)
    <2>1. CASE UNCHANGED <<pc, arg>>
      <3>1. UNCHANGED <<vault, now, mapTime, inited, token, pc, arg>>
        BY <1>9, <2>1 DEF LatestStart, vaultVars, stateVars
      <3> QED BY <3>1 DEF GoodStep, MovesOnly, Sync, CallSync, ClockOK, Matches,
                          Present, Here
    <2>2. ASSUME NEW k \in KeyIds, Goto(t, "latestExport",
                   Call(d, k, 0, {}, vault[<<d, k>>].gen, token))
          PROVE  GoodStep(t)
      <3>1. /\ UNCHANGED <<vault, now, mapTime, inited, token>>
            /\ inited /\ token /\ pc[t] = "idle"
        BY <1>9 DEF LatestStart, ValidateDomain, Sync, vaultVars, stateVars
      <3> QED BY <2>2, <3>1, QuietStep DEF Call, ExclusivePc
    <2> QED BY <1>9, <2>1, <2>2 DEF LatestStart
  <1> QED BY <1>1, <1>2, <1>3, <1>4, <1>5, <1>6, <1>7, <1>8, <1>9 DEF Begin

-----------------------------------------------------------------------------
(* The steps that go on with a call.                                       *)

\* A step to a place where the map is the vault's but for the key in hand.
LEMMA BusyStep ==
  ASSUME TypeOK, Sync, NEW t \in Threads, pc[t] \in SettledPc \cup BusyPc,
         NEW label \in SettledPc \cup BusyPc \cup {"idle"}, NEW call,
         Goto(t, label, call), UNCHANGED stateVars, ClockOK',
         label # "idle" => call.auth = token /\ call.live,
         IF label \in BusyPc
         THEN \A x \in Keys \ {<<call.dom, call.key>>} : Matches(x)'
         ELSE \A x \in Keys : Matches(x)',
         label \in BusyPc \ {"rotateWrite"} => Present(<<call.dom, call.key>>)'
  PROVE  GoodStep(t)
  <1>1. /\ pc'[t] = label /\ arg'[t] = call /\ MovesOnly(t)
        /\ inited /\ inited' /\ token /\ token'
    BY GotoMoves DEF MovesOnly, stateVars, Sync, CallSync, SettledPc, BusyPc
  <1>2. SettledPc \cap BusyPc = {} /\ "idle" \notin SettledPc \cup BusyPc
    BY DEF SettledPc, BusyPc
  <1>3. {"initList", "initRead"} \cap (SettledPc \cup BusyPc) = {}
    BY DEF SettledPc, BusyPc
  <1>4. Here(t)' = <<call.dom, call.key>>
    BY <1>1 DEF Here
  <1>5. label \in BusyPc =>
          /\ \A x \in Keys \ {Here(t)'} : Matches(x)'
          /\ label # "rotateWrite" => Present(Here(t))'
    BY <1>4 DEF Present
  <1>6. CallSync(t)'
    BY <1>1, <1>2, <1>3, <1>5 DEF CallSync
  <1>7. label = "idle" => RestSync'
    BY <1>1, <1>2 DEF RestSync
  <1>8. pc[t] \in ExclusivePc /\ (label # "idle" => label \in ExclusivePc)
    BY DEF ExclusivePc, SettledPc, BusyPc
  <1> QED BY <1>1, <1>6, <1>7, <1>8 DEF GoodStep

LEMMA DeletedMatches ==
  ASSUME TypeOK, NEW x \in Keys, \A y \in Keys \ {x} : Matches(y),
         VaultDelete(x)
  PROVE  /\ mapTime' = mapTime => \A y \in Keys \ {x} : Matches(y)'
         /\ mapTime' = [mapTime EXCEPT ![x] = NoTime] => \A y \in Keys : Matches(y)'
  BY DEF TypeOK, VaultOK, MapOK, VaultDelete, NoKey, Matches, Present

LEMMA WrittenMatches ==
  ASSUME TypeOK, NEW x \in Keys, \A y \in Keys \ {x} : Matches(y),
         VaultWrite(x), mapTime' = mapTime
  PROVE  Present(x)' /\ \A y \in Keys \ {x} : Matches(y)'
  <1>1. CASE Present(x)
    BY <1>1 DEF VaultWrite, vaultVars, Matches, Present
  <1>2. CASE ~Present(x)
    <2>1. vault' = [vault EXCEPT ![x] = [gen |-> nextGen, ctime |-> now,
                                 exportable |-> FALSE, deletable |-> FALSE]]
      BY <1>2 DEF VaultWrite
    <2>2. nextGen # 0
      BY DEF TypeOK, VaultOK
    <2> QED BY <2>1, <2>2 DEF TypeOK, VaultOK, Matches, Present
  <1> QED BY <1>1, <1>2

LEMMA ConfiguredMatches ==
  ASSUME TypeOK, NEW x \in Keys, \A y \in Keys \ {x} : Matches(y),
         NEW exportable \in BOOLEAN, VaultConfig(x, exportable), mapTime' = mapTime
  PROVE  (Present(x) => Present(x)') /\ \A y \in Keys \ {x} : Matches(y)'
  BY DEF TypeOK, VaultOK, VaultKey, VaultConfig, Matches, Present

\* Putting the time the vault has in the map makes the key in hand match.
LEMMA EnteredMatches ==
  ASSUME TypeOK, NEW x \in Keys, \A y \in Keys \ {x} : Matches(y), Present(x),
         vault' = vault, mapTime' = [mapTime EXCEPT ![x] = vault[x].ctime]
  PROVE  \A y \in Keys : Matches(y)'
  BY DEF TypeOK, MapOK, Matches, Present

\* A command that goes on with the same call.
LEMMA ContinueSync ==
  ASSUME TypeOK, Sync, NEW t \in Threads, pc[t] \in SettledPc \cup BusyPc,
         NEW x, x = Here(t), NEW outcome, outcome = "done",
         NEW next \in BusyPc, Continue(t, outcome, next),
         UNCHANGED <<now, stateVars>>, VaultStep,
         \A y \in Keys \ {x} : Matches(y)',
         next # "rotateWrite" => Present(x)'
  PROVE  GoodStep(t)
  <1> DEFINE call == [arg[t] EXCEPT !.auth = token]
  <1>1. Goto(t, next, call)
    BY DEF Continue, Accepted
  <1>2. arg[t] \in CallType /\ arg[t].live
    BY DEF TypeOK, ThreadsOK, Sync, CallSync, SettledPc, BusyPc
  <1>3. call.auth = token /\ call.live /\ <<call.dom, call.key>> = x
    BY <1>2 DEF CallType, Here
  <1>4. ClockOK'
    BY VaultStepClock DEF Sync
  <1> HIDE DEF call
  <1>5. next # "rotateWrite" => vault'[<<call.dom, call.key>>].gen # 0
    BY <1>3 DEF Present
  <1> QED BY <1>1, <1>3, <1>4, <1>5, BusyStep DEF Present

LEMMA WriteStepSync ==
  ASSUME Calm, TypeOK, Sync, NEW t \in Threads,
         NEW here \in {"createWrite", "rotateWrite"},
         NEW next \in {"createConfig", "rotateConfig"}, WriteStep(t, here, next)
  PROVE  GoodStep(t)
  <1>1. pc[t] = here /\ pc[t] \in SettledPc \cup BusyPc /\ Here(t) \in Keys
    BY DEF WriteStep, SettledPc, BusyPc, TypeOK, ThreadsOK, KeylessPc
  <1>2. PICK outcome \in Outcomes(t, TRUE) :
          /\ IF Applied(outcome) THEN VaultWrite(Here(t)) ELSE UNCHANGED vaultVars
          /\ Continue(t, outcome, next)
    BY DEF WriteStep
  <1>3. outcome = "done"
    BY <1>1, <1>2, CalmOutcomes
  <1>4. PICK x \in Keys : x = Here(t)
    BY <1>1
  <1>5. VaultWrite(x)
    BY <1>2, <1>3, <1>4 DEF Applied
  <1>6. UNCHANGED <<now, stateVars, mapTime>>
    BY DEF WriteStep, mapVars
  <1>7. \A y \in Keys \ {x} : Matches(y)
    BY <1>1, <1>4 DEF Sync, CallSync
  <1>8. Present(x)' /\ \A y \in Keys \ {x} : Matches(y)'
    BY <1>5, <1>6, <1>7, WrittenMatches
  <1>9. next \in BusyPc /\ VaultStep
    BY <1>5 DEF BusyPc, VaultStep
  <1> QED BY <1>1, <1>2, <1>3, <1>4, <1>6, <1>8, <1>9, ContinueSync

LEMMA ConfigStepSync ==
  ASSUME Calm, TypeOK, Sync, NEW t \in Threads,
         NEW here \in {"createConfig", "rotateConfig"}, NEW exportable \in BOOLEAN,
         NEW next \in {"createRead", "rotateRead"},
         ConfigStep(t, here, exportable, next)
  PROVE  GoodStep(t)
  <1>1. pc[t] = here /\ pc[t] \in SettledPc \cup BusyPc /\ Here(t) \in Keys
    BY DEF ConfigStep, SettledPc, BusyPc, TypeOK, ThreadsOK, KeylessPc
  <1>2. PICK outcome \in Outcomes(t, Present(Here(t))) :
          /\ IF Applied(outcome) THEN VaultConfig(Here(t), exportable)
             ELSE UNCHANGED vaultVars
          /\ Continue(t, outcome, next)
    BY DEF ConfigStep
  <1>3. Present(Here(t))
    BY <1>1 DEF Sync, CallSync, BusyPc
  <1>4. outcome = "done"
    BY <1>1, <1>2, <1>3, CalmOutcomes DEF Present
  <1>5. PICK x \in Keys : x = Here(t)
    BY <1>1
  <1>6. VaultConfig(x, exportable)
    BY <1>2, <1>4, <1>5 DEF Applied
  <1>7. UNCHANGED <<now, stateVars, mapTime>>
    BY DEF ConfigStep, mapVars
  <1>8. \A y \in Keys \ {x} : Matches(y)
    BY <1>1, <1>5 DEF Sync, CallSync
  <1>9. Present(x)' /\ \A y \in Keys \ {x} : Matches(y)'
    BY <1>3, <1>5, <1>6, <1>7, <1>8, ConfiguredMatches
  <1>10. next \in BusyPc /\ VaultStep
    BY <1>6 DEF BusyPc, VaultStep
  <1> QED BY <1>1, <1>2, <1>4, <1>5, <1>7, <1>9, <1>10, ContinueSync

\* The end of a call after which the map is the vault's.
LEMMA ReturnSync ==
  ASSUME TypeOK, Sync, NEW t \in Threads, pc[t] \in SettledPc \cup BusyPc,
         Return(t), UNCHANGED stateVars, ClockOK', \A x \in Keys : Matches(x)'
  PROVE  GoodStep(t)
  BY BusyStep DEF Return, SettledPc, BusyPc

LEMMA CreateReadSync ==
  ASSUME KeyManagerAssumption, Calm, TypeOK, Sync, NEW t \in Threads,
         CreateRead(t)
  PROVE  GoodStep(t)
  <1>1. /\ pc[t] = "createRead" /\ pc[t] \in SettledPc \cup BusyPc
        /\ Here(t) \in Keys
    BY DEF CreateRead, SettledPc, BusyPc, TypeOK, ThreadsOK, KeylessPc
  <1>2. PICK x \in Keys : x = Here(t)
    BY <1>1
  <1>3. PICK outcome \in Outcomes(t, Present(x)) :
          LET time == ReadTime(x, outcome)
          IN  IF time = NoTime THEN UNCHANGED mapVars
              ELSE mapTime' = [mapTime EXCEPT ![x] = time]
    BY <1>2 DEF CreateRead
  <1>4. Present(x) /\ \A y \in Keys \ {x} : Matches(y)
    BY <1>1, <1>2 DEF Sync, CallSync, BusyPc
  <1>5. outcome = "done"
    BY <1>1, <1>3, <1>4, CalmOutcomes DEF Present
  <1>6. mapTime' = [mapTime EXCEPT ![x] = vault[x].ctime]
    BY <1>3, <1>5, TimeIsRead DEF Sync
  <1>7. UNCHANGED <<vault, now, stateVars>> /\ Return(t)
    BY DEF CreateRead, vaultVars
  <1>8. \A y \in Keys : Matches(y)'
    BY <1>4, <1>6, <1>7, EnteredMatches
  <1>9. ClockOK'
    BY <1>7 DEF Sync, ClockOK
  <1> QED BY <1>1, <1>7, <1>8, <1>9, ReturnSync

LEMMA RemoveDeleteSync ==
  ASSUME Calm, TypeOK, Sync, NEW t \in Threads, RemoveDelete(t)
  PROVE  GoodStep(t)
  <1>1. /\ pc[t] = "removeDelete" /\ pc[t] \in SettledPc \cup BusyPc
        /\ Here(t) \in Keys
    BY DEF RemoveDelete, SettledPc, BusyPc, TypeOK, ThreadsOK, KeylessPc
  <1>2. PICK x \in Keys : x = Here(t)
    BY <1>1
  <1>3. PICK outcome \in Outcomes(t, CanDelete(x)) :
          /\ IF Applied(outcome) THEN VaultDelete(x) ELSE UNCHANGED vaultVars
          /\ IF Accepted(outcome) THEN mapTime' = [mapTime EXCEPT ![x] = NoTime]
             ELSE UNCHANGED mapVars
    BY <1>2 DEF RemoveDelete
  <1>4. outcome \in {"done", "failed"}
    BY <1>1, <1>3, CalmOutcomes DEF CanDelete, Present, TypeOK, VaultOK, VaultKey
  <1>5. \A y \in Keys : Matches(y)
    BY <1>1 DEF Sync, CallSync, SettledPc
  <1>6. /\ UNCHANGED <<now, stateVars>> /\ Return(t)
    BY DEF RemoveDelete
  <1>7. VaultStep
    BY <1>3 DEF VaultStep
  <1>8. ClockOK'
    BY <1>6, <1>7, VaultStepClock DEF Sync
  <1>9. \A y \in Keys : Matches(y)'
    <2>1. CASE outcome = "done"
      BY <1>3, <1>5, <2>1, DeletedMatches DEF Applied, Accepted
    <2>2. CASE outcome = "failed"
      BY <1>3, <1>5, <2>2 DEF Applied, Accepted, vaultVars, mapVars, Matches, Present
    <2> QED BY <1>4, <2>1, <2>2
  <1> QED BY <1>1, <1>6, <1>8, <1>9, ReturnSync

\* DeleteAllKey on its way to the next key.
LEMMA ClearNextSync ==
  ASSUME TypeOK, Sync, NEW t \in Threads, pc[t] \in SettledPc \cup BusyPc,
         NEW doms, NEW times, ClearNext(t, doms, times),
         UNCHANGED stateVars, ClockOK', \A x \in Keys : Matches(x)'
  PROVE  GoodStep(t)
  <1>1. ASSUME NEW x, Goto(t, "clearDelete",
                           Call(x[1], x[2], 0, {}, vault[x].gen, token))
        PROVE  GoodStep(t)
    BY <1>1, BusyStep DEF Call, SettledPc, BusyPc
  <1> QED BY <1>1, ReturnSync DEF ClearNext

LEMMA ClearSkipSync ==
  ASSUME TypeOK, Sync, NEW t \in Threads, pc[t] \in SettledPc \cup BusyPc,
         ClearSkip(t), ClockOK', vault' = vault, \A x \in Keys : Matches(x)
  PROVE  GoodStep(t) \/ Sync'
  <1>1. CASE ProcessLost
    BY <1>1, ProcessLostSync
  <1>2. ASSUME NEW d, Goto(t, "clearStray", Call(d, arg[t].key, 0, {}, 0, token)),
               UNCHANGED <<stateVars, mapVars>>
        PROVE  GoodStep(t)
    <2>1. \A x \in Keys : Matches(x)'
      BY <1>2 DEF mapVars, Matches, Present
    <2> QED BY <1>2, <2>1, BusyStep DEF Call, SettledPc, BusyPc
  <1> QED BY <1>1, <1>2 DEF ClearSkip

LEMMA ClearDeleteSync ==
  ASSUME Calm, TypeOK, Sync, NEW t \in Threads, ClearDelete(t)
  PROVE  GoodStep(t) \/ Sync'
  <1>1. /\ pc[t] = "clearDelete" /\ pc[t] \in SettledPc \cup BusyPc
        /\ Here(t) \in Keys
    BY DEF ClearDelete, SettledPc, BusyPc, TypeOK, ThreadsOK, KeylessPc
  <1>2. PICK x \in Keys : x = Here(t)
    BY <1>1
  <1>3. PICK outcome \in Outcomes(t, CanDelete(x)) :
          /\ IF Applied(outcome) THEN VaultDelete(x) ELSE UNCHANGED vaultVars
          /\ \/ /\ Accepted(outcome) /\ arg[t].live
                /\ mapTime' = [mapTime EXCEPT ![x] = NoTime]
                /\ ClearNext(t, mapDomains, mapTime')
                /\ UNCHANGED stateVars
             \/ Accepted(outcome) /\ ~arg[t].live /\ ProcessLost
             \/ ~Accepted(outcome) /\ ClearSkip(t)
    BY <1>2 DEF ClearDelete
  <1>4. outcome \in {"done", "failed"}
    BY <1>1, <1>3, CalmOutcomes DEF CanDelete, Present, TypeOK, VaultOK, VaultKey
  <1>5. arg[t].live /\ \A y \in Keys : Matches(y)
    BY <1>1 DEF Sync, CallSync, SettledPc
  <1>6. now' = now /\ VaultStep
    BY <1>3 DEF ClearDelete, VaultStep
  <1>7. ClockOK'
    BY <1>6, VaultStepClock DEF Sync
  <1>8. CASE outcome = "done"
    <2>1. /\ VaultDelete(x) /\ mapTime' = [mapTime EXCEPT ![x] = NoTime]
          /\ ClearNext(t, mapDomains, mapTime') /\ UNCHANGED stateVars
      BY <1>3, <1>5, <1>8 DEF Applied, Accepted
    <2>2. \A y \in Keys : Matches(y)'
      BY <1>5, <2>1, DeletedMatches
    <2> QED BY <1>1, <1>7, <2>1, <2>2, ClearNextSync
  <1>9. CASE outcome = "failed"
    BY <1>1, <1>3, <1>5, <1>7, <1>9, ClearSkipSync DEF Applied, Accepted, vaultVars
  <1> QED BY <1>4, <1>8, <1>9

LEMMA ClearStraySync ==
  ASSUME Calm, TypeOK, Sync, NEW t \in Threads, ClearStray(t)
  PROVE  GoodStep(t) \/ Sync'
  <1>1. /\ pc[t] = "clearStray" /\ pc[t] \in SettledPc \cup BusyPc
        /\ Here(t) \in Keys
    BY DEF ClearStray, SettledPc, BusyPc, TypeOK, ThreadsOK, KeylessPc
  <1>2. PICK outcome :
          /\ IF Applied(outcome) THEN VaultDelete(Here(t)) ELSE UNCHANGED vaultVars
          /\ IF Accepted(outcome) THEN ProcessLost ELSE ClearSkip(t)
          /\ outcome \in Outcomes(t, CanDelete(Here(t)))
    BY DEF ClearStray
  <1>3. now' = now /\ VaultStep
    BY <1>1, <1>2 DEF ClearStray, VaultStep
  <1>4. ClockOK'
    BY <1>3, VaultStepClock DEF Sync
  <1>5. CASE Accepted(outcome)
    BY <1>2, <1>4, <1>5, ProcessLostSync
  <1>6. CASE ~Accepted(outcome)
    <2>1. outcome # "lost"
      BY <1>2 DEF Outcomes, Calm
    <2>2. vault' = vault /\ ClearSkip(t)
      BY <1>2, <1>6, <2>1 DEF Applied, Accepted, vaultVars
    <2>3. \A x \in Keys : Matches(x)
      BY <1>1 DEF Sync, CallSync, SettledPc
    <2> QED BY <1>1, <1>4, <2>2, <2>3, ClearSkipSync
  <1> QED BY <1>5, <1>6

LEMMA RotateDeleteSync ==
  ASSUME Calm, TypeOK, Sync, NEW t \in Threads, RotateDelete(t)
  PROVE  GoodStep(t)
  <1>1. /\ pc[t] = "rotateDelete" /\ pc[t] \in SettledPc \cup BusyPc
        /\ Here(t) \in Keys
    BY DEF RotateDelete, SettledPc, BusyPc, TypeOK, ThreadsOK, KeylessPc
  <1>2. PICK x \in Keys : x = Here(t)
    BY <1>1
  <1>3. PICK outcome \in Outcomes(t, CanDelete(x)) :
          /\ IF Applied(outcome) THEN VaultDelete(x) ELSE UNCHANGED vaultVars
          /\ Continue(t, outcome, "rotateWrite")
    BY <1>2 DEF RotateDelete
  <1>4. outcome \in {"done", "failed"}
    BY <1>1, <1>3, CalmOutcomes DEF CanDelete, Present, TypeOK, VaultOK, VaultKey
  <1>5. \A y \in Keys : Matches(y)
    BY <1>1 DEF Sync, CallSync, SettledPc
  <1>6. UNCHANGED <<now, stateVars, mapTime>> /\ VaultStep
    BY <1>3 DEF RotateDelete, mapVars, VaultStep
  <1>7. CASE outcome = "done"
    <2>1. \A y \in Keys \ {x} : Matches(y)'
      BY <1>3, <1>5, <1>6, <1>7, DeletedMatches DEF Applied
    <2> QED BY <1>1, <1>2, <1>3, <1>6, <1>7, <2>1, ContinueSync DEF BusyPc
  <1>8. CASE outcome = "failed"
    <2>1. vault' = vault /\ Return(t)
      BY <1>3, <1>8 DEF Applied, Accepted, Continue, vaultVars
    <2>2. \A y \in Keys : Matches(y)'
      BY <1>5, <1>6, <2>1 DEF Matches, Present
    <2>3. ClockOK'
      BY <1>6, VaultStepClock DEF Sync
    <2> QED BY <1>1, <1>6, <2>1, <2>2, <2>3, ReturnSync
  <1> QED BY <1>4, <1>7, <1>8

LEMMA RotateReadSync ==
  ASSUME KeyManagerAssumption, Calm, TypeOK, Sync, NEW t \in Threads,
         RotateRead(t)
  PROVE  GoodStep(t)
  <1>1. /\ pc[t] = "rotateRead" /\ pc[t] \in SettledPc \cup BusyPc
        /\ Here(t) \in Keys
    BY DEF RotateRead, SettledPc, BusyPc, TypeOK, ThreadsOK, KeylessPc
  <1>2. PICK x \in Keys : x = Here(t)
    BY <1>1
  <1>3. /\ Present(x) /\ arg[t].live
        /\ \A y \in Keys \ {x} : Matches(y)
    BY <1>1, <1>2 DEF Sync, CallSync, BusyPc
  <1>4. PICK outcome \in Outcomes(t, Present(x)) :
          LET time == ReadTime(x, outcome)
          IN  \/ time = NoTime /\ Return(t) /\ UNCHANGED <<stateVars, mapVars>>
              \/ /\ time # NoTime
                 /\ mapDomains' = mapDomains \cup {arg[t].dom}
                 /\ mapTime' = [mapTime EXCEPT ![x] = time]
                 /\ IF arg[t].live THEN RotateNext(t, arg[t].todo) ELSE Return(t)
                 /\ UNCHANGED stateVars
              \/ time # NoTime /\ ~arg[t].live /\ ProcessLost
    BY <1>2 DEF RotateRead
  <1>5. outcome = "done"
    BY <1>1, <1>3, <1>4, CalmOutcomes DEF Present
  <1>6. ReadTime(x, outcome) = vault[x].ctime /\ vault[x].ctime # NoTime
    BY <1>5, TimeIsRead DEF Sync
  <1>7. /\ mapTime' = [mapTime EXCEPT ![x] = vault[x].ctime]
        /\ RotateNext(t, arg[t].todo) /\ UNCHANGED stateVars
    BY <1>3, <1>4, <1>6
  <1>8. UNCHANGED <<vault, now>>
    BY DEF RotateRead, vaultVars
  <1>9. ClockOK' /\ \A y \in Keys : Matches(y)'
    BY <1>3, <1>7, <1>8, EnteredMatches DEF Sync, ClockOK
  <1>10. ASSUME NEW y, NEW todo, Goto(t, "rotateDelete",
                  Call(y[1], y[2], 0, todo, vault[y].gen, token))
         PROVE  GoodStep(t)
    BY <1>1, <1>7, <1>9, <1>10, BusyStep DEF Call, SettledPc, BusyPc
  <1> QED BY <1>1, <1>7, <1>9, <1>10, ReturnSync DEF RotateNext

\* Init leaves the map empty, or the vault's but for the keys still to read.
LEMMA InitDoneSync ==
  ASSUME TypeOK, Sync, NEW t \in Threads, pc[t] \in {"initList", "initRead"},
         InitDone(t), UNCHANGED <<vault, now, token>>, \A x \in Keys : Matches(x)'
  PROVE  GoodStep(t)
  <1>1. pc'[t] = "idle" /\ MovesOnly(t) /\ inited'
    BY GotoMoves DEF InitDone, Return, MovesOnly
  <1>2. CallSync(t)'
    BY <1>1 DEF CallSync, SettledPc, BusyPc
  <1>3. token /\ pc[t] \in ExclusivePc
    BY DEF Sync, CallSync, ExclusivePc
  <1> QED BY <1>1, <1>2, <1>3 DEF GoodStep, RestSync, Sync, ClockOK

LEMMA InitGoesOnSync ==
  ASSUME TypeOK, Sync, NEW t \in Threads, pc[t] \in {"initList", "initRead"},
         NEW count, NEW todo,
         Goto(t, "initRead", Call(0, 0, count, todo, 0, token)),
         UNCHANGED <<vault, now, inited, token>>,
         \A x \in Keys : IF x \in todo THEN mapTime'[x] = NoTime /\ Present(x)
                         ELSE Matches(x)'
  PROVE  GoodStep(t)
  <1>1. /\ pc'[t] = "initRead" /\ arg'[t] = Call(0, 0, count, todo, 0, token)
        /\ MovesOnly(t)
    BY GotoMoves DEF MovesOnly
  <1>2. token /\ ~inited
    BY DEF Sync, CallSync
  <1>3. CallSync(t)'
    BY <1>1, <1>2 DEF CallSync, Call, Present, SettledPc, BusyPc
  <1>4. pc[t] \in ExclusivePc /\ "initRead" \in ExclusivePc
    BY DEF ExclusivePc
  <1> QED BY <1>1, <1>2, <1>3, <1>4 DEF GoodStep, Sync, ClockOK

LEMMA InitListSync ==
  ASSUME Calm, TypeOK, Sync, NEW t \in Threads, InitList(t)
  PROVE  GoodStep(t)
  <1>1. pc[t] = "initList" /\ UNCHANGED <<vault, now, token, mapTime>>
    BY DEF InitList, vaultVars, mapVars
  <1>2. PICK outcome \in Outcomes(t, TRUE) : InitListed(t, outcome)
    BY DEF InitList
  <1>3. outcome = "done"
    BY <1>1, <1>2, CalmOutcomes
  <1>4. \A x \in Keys : mapTime[x] = NoTime
    BY <1>1 DEF Sync, CallSync
  <1> DEFINE listed == {x \in Keys : Present(x)}
  <1>5. CASE listed = {} /\ InitDone(t)
    <2>1. \A x \in Keys : Matches(x)'
      BY <1>1, <1>4, <1>5 DEF Matches, Present
    <2> QED BY <1>1, <1>5, <2>1, InitDoneSync
  <1>6. CASE /\ Goto(t, "initRead", Call(0, 0, arg[t].count, listed, 0, token))
             /\ UNCHANGED <<inited, domainCount>>
    <2>1. \A x \in Keys : IF x \in listed THEN mapTime'[x] = NoTime /\ Present(x)
                          ELSE Matches(x)'
      BY <1>1, <1>4 DEF Matches, Present
    <2> HIDE DEF listed
    <2> QED BY <1>1, <1>6, <2>1, InitGoesOnSync
  <1> QED BY <1>2, <1>3, <1>5, <1>6 DEF InitListed

LEMMA InitReadSync ==
  ASSUME KeyManagerAssumption, Calm, TypeOK, Sync, NEW t \in Threads, InitRead(t)
  PROVE  GoodStep(t)
  <1>1. pc[t] = "initRead" /\ UNCHANGED <<vault, now, token>>
    BY DEF InitRead, vaultVars
  <1>2. PICK x \in arg[t].todo : \E outcome \in Outcomes(t, Present(x)) :
          PrepareMapEntry(t, x, outcome)
    BY DEF InitRead
  <1>3. arg[t].todo \subseteq Keys /\ x \in Keys
    BY DEF TypeOK, ThreadsOK, CallType
  <1>4. \A y \in Keys : IF y \in arg[t].todo THEN mapTime[y] = NoTime /\ Present(y)
                        ELSE Matches(y)
    BY <1>1 DEF Sync, CallSync
  <1>5. Present(x) /\ mapTime[x] = NoTime
    BY <1>3, <1>4
  <1>6. PrepareMapEntry(t, x, "done")
    BY <1>1, <1>2, <1>5, CalmOutcomes DEF Present
  <1>7. ReadTime(x, "done") = vault[x].ctime /\ vault[x].ctime # NoTime
    BY <1>3, TimeIsRead DEF Sync
  <1> DEFINE rest == arg[t].todo \ {x}
  <1>8. /\ mapTime' = [mapTime EXCEPT ![x] = vault[x].ctime]
        /\ \/ rest = {} /\ InitDone(t)
           \/ /\ Goto(t, "initRead", Call(0, 0, arg[t].count, rest, 0, token))
              /\ UNCHANGED <<inited, domainCount>>
    BY <1>5, <1>6, <1>7 DEF PrepareMapEntry, Accepted
  <1>9. \A y \in Keys : IF y \in rest THEN mapTime'[y] = NoTime /\ Present(y)
                        ELSE Matches(y)'
    BY <1>1, <1>3, <1>4, <1>5, <1>8 DEF TypeOK, MapOK, Matches, Present
  <1> HIDE DEF rest
  <1>10. CASE rest = {} /\ InitDone(t)
    BY <1>1, <1>9, <1>10, InitDoneSync
  <1>11. CASE /\ Goto(t, "initRead", Call(0, 0, arg[t].count, rest, 0, token))
              /\ UNCHANGED <<inited, domainCount>>
    BY <1>1, <1>9, <1>11, InitGoesOnSync
  <1> QED BY <1>8, <1>10, <1>11

LEMMA ProceedSync ==
  ASSUME KeyManagerAssumption, Calm, TypeOK, Sync, NEW t \in Threads, Proceed(t)
  PROVE  GoodStep(t) \/ Sync'
  <1>1. CASE CreateWrite(t)
    BY <1>1, WriteStepSync DEF CreateWrite
  <1>2. CASE RotateWrite(t)
    BY <1>2, WriteStepSync DEF RotateWrite
  <1>3. CASE CreateConfig(t)
    BY <1>3, ConfigStepSync DEF CreateConfig
  <1>4. CASE RotateConfig(t)
    BY <1>4, ConfigStepSync DEF RotateConfig
  <1>5. CASE EncryptExport(t) \/ DecryptExport(t) \/ LatestExport(t)
    <2>1. /\ UNCHANGED <<vault, now, mapTime, inited, token>>
          /\ pc[t] \in {"encryptExport", "decryptExport", "latestExport"}
          /\ Return(t) \/ Goto(t, "encryptUpgrade", NoCall)
      BY <1>5 DEF EncryptExport, DecryptExport, LatestExport, vaultVars,
                  stateVars, mapVars
    <2>2. inited /\ pc[t] \notin ExclusivePc
      BY <2>1 DEF Sync, CallSync, ExclusivePc
    <2> QED BY <2>1, <2>2, QuietStep DEF Return, ExclusivePc
  <1> QED BY <1>1, <1>2, <1>3, <1>4, <1>5, InitListSync, InitReadSync,
             CreateReadSync, RemoveDeleteSync, ClearDeleteSync, ClearStraySync,
             RotateDeleteSync, RotateReadSync DEF Proceed

LEMMA NextSync ==
  ASSUME KeyManagerAssumption, Calm, TypeOK, MutexExclusive, MutexExclusive',
         Sync, [Next]_vars
  PROVE  Sync'
  <1>1. CASE Crash
    BY <1>1, ProcessLostSync DEF Crash, vaultVars, Sync, ClockOK
  <1>2. CASE Tick
    <2>1. now < MaxTime /\ now' = now + 1 /\ now \in Nat /\ MaxTime \in Nat
      BY <1>2 DEF Tick, TypeOK, VaultOK, KeyManagerAssumption
    <2>2. UNCHANGED <<vault, inited, token, mapTime, pc, arg>>
      BY <1>2 DEF Tick, vaultVars, stateVars, mapVars
    <2>3. ClockOK'
      BY <2>1, <2>2 DEF Sync, ClockOK, TypeOK, VaultOK, VaultKey
    <2> QED BY <2>2, <2>3 DEF Sync, CallSync, RestSync, SharedFree, Matches,
                              Present, Here
  <1>3. ASSUME NEW t \in Threads, Begin(t) \/ Proceed(t)
        PROVE  Sync'
    BY <1>3, BeginSync, ProceedSync, GoodStepSync
  <1>4. CASE UNCHANGED vars
    BY <1>4 DEF vars, Sync, CallSync, RestSync, SharedFree, Matches, Present,
                Here, ClockOK
  <1> QED BY <1>1, <1>2, <1>3, <1>4 DEF Next

LEMMA SyncCorrect ==
  ASSUME Calm
  PROVE  Spec => []Sync
  <1>1. Init => Sync
    BY KeyManagerAssumption
       DEF Init, KeyManagerAssumption, Sync, ClockOK, CallSync, RestSync, NoKey,
           SettledPc, BusyPc
  <1>2. TypeOK /\ MutexExclusive /\ MutexExclusive' /\ Sync /\ [Next]_vars => Sync'
    BY KeyManagerAssumption, NextSync
  <1> QED BY <1>1, <1>2, TypeCorrect, MutexIsExclusive, PTL DEF Spec

\* As long as commands do not fail, UnInit waits for the calls it would
\* overlap and creation times fit an int, an inited manager's map has exactly
\* the vault's keys and times between the calls that change keys: after a crash
\* in the middle of any call, after Init's reading, after rotations, and in
\* DeleteAllKey when a key it meets cannot be deleted.
THEOREM MapIsTheVaults ==
  ASSUME Calm
  PROVE  Spec => []MapMatchesVault
  <1>1. ASSUME TypeOK, Sync PROVE MapMatchesVault
    <2> SUFFICES ASSUME inited, SharedFree, NEW x \in Keys
                 PROVE  /\ mapTime[x] # NoTime <=> Present(x)
                        /\ Present(x) => mapTime[x] = vault[x].ctime
      BY DEF MapMatchesVault
    <2>1. Matches(x) /\ vault[x].ctime \in Nat
      BY <1>1 DEF Sync, RestSync, TypeOK, VaultOK, VaultKey
    <2> QED BY <2>1 DEF Matches, NoTime
  <1> QED BY <1>1, TypeCorrect, SyncCorrect, PTL

-----------------------------------------------------------------------------
(* Times, under all faults.                                                *)

\* What a step may do to the map: forget a time, or enter the time of a key
\* that is in the vault.
MapStep ==
  \A x \in Keys : \/ mapTime'[x] \in {mapTime[x], NoTime}
                  \/ /\ Present(x) /\ mapTime'[x] = vault[x].ctime
                     /\ vault' = vault

TimesInv ==
  /\ \A x \in Keys : mapTime[x] <= now /\ vault[x].ctime <= now
  /\ NoKeyPassesForYounger

\* Only a key that is there has a time to read.
LEMMA ReadTimeFound ==
  ASSUME NEW t \in Threads, NEW x, NEW outcome \in Outcomes(t, Present(x)),
         ReadTime(x, outcome) # NoTime
  PROVE  Present(x) /\ ReadTime(x, outcome) = vault[x].ctime
  BY DEF ReadTime, Outcomes

LEMMA NextMapStep ==
  ASSUME KeyManagerAssumption, TypeOK, [Next]_vars
  PROVE  MapStep
  <1> USE DEF TypeOK, MapOK
  <1>1. CASE mapTime' = mapTime
    BY <1>1 DEF MapStep
  <1>2. CASE ClearState
    BY <1>2 DEF ClearState, MapStep
  <1>3. ASSUME NEW t \in Threads, NEW x \in Keys, NEW outcome \in Outcomes(t, Present(x)),
               ReadTime(x, outcome) # NoTime, vault' = vault,
               \A y \in Keys : mapTime'[y] = mapTime[y]
                               \/ (y = x /\ mapTime'[y] = ReadTime(x, outcome))
        PROVE  MapStep
    BY <1>3, ReadTimeFound DEF MapStep
  <1>4. ASSUME NEW t \in Threads, Begin(t)
        PROVE  MapStep
    BY <1>1, <1>2, <1>4 DEF Begin, InitStart, UnInit, ClearStart, DecryptStart,
       CreateStart, RemoveStart, RotateStart, EncryptStart, LatestStart, mapVars
  <1>5. ASSUME NEW t \in Threads, Proceed(t)
        PROVE  MapStep
    <2>1. pc[t] \notin KeylessPc => Here(t) \in Keys
      BY DEF ThreadsOK
    <2>2. ASSUME ClearSkip(t) PROVE MapStep
      BY <1>1, <1>2, <2>2 DEF ClearSkip, mapVars, ProcessLost
    <2>3. CASE InitRead(t)
      <3>1. PICK x \in arg[t].todo : \E outcome \in Outcomes(t, Present(x)) :
              PrepareMapEntry(t, x, outcome)
        BY <2>3 DEF InitRead
      <3>2. PICK outcome \in Outcomes(t, Present(x)) : PrepareMapEntry(t, x, outcome)
        BY <3>1
      <3>3. x \in Keys /\ vault' = vault
        BY <2>3 DEF ThreadsOK, CallType, InitRead, vaultVars
      <3>4. CASE /\ ReadTime(x, outcome) # NoTime
                 /\ mapTime' = [mapTime EXCEPT ![x] =
                      IF @ = NoTime THEN ReadTime(x, outcome) ELSE @]
        <4>1. \A y \in Keys : mapTime'[y] = mapTime[y]
                              \/ (y = x /\ mapTime'[y] = ReadTime(x, outcome))
          BY <3>4
        <4> QED BY <1>3, <3>3, <3>4, <4>1
      <3>5. CASE mapTime' = [y \in Keys |-> NoTime]
        BY <3>5 DEF MapStep
      <3>6. CASE mapTime' = mapTime
        BY <1>1, <3>6
      <3> QED BY <3>2, <3>4, <3>5, <3>6 DEF PrepareMapEntry, mapVars
    <2>4. CASE CreateRead(t)
      <3>1. PICK outcome \in Outcomes(t, Present(Here(t))) :
              IF ReadTime(Here(t), outcome) = NoTime THEN UNCHANGED mapVars
              ELSE mapTime' = [mapTime EXCEPT ![Here(t)] = ReadTime(Here(t), outcome)]
        BY <2>4 DEF CreateRead
      <3>2. Here(t) \in Keys /\ vault' = vault
        BY <2>1, <2>4 DEF CreateRead, KeylessPc, vaultVars
      <3>3. CASE UNCHANGED mapVars
        BY <1>1, <3>3 DEF mapVars
      <3>4. CASE /\ ReadTime(Here(t), outcome) # NoTime
                 /\ mapTime' = [mapTime EXCEPT ![Here(t)] = ReadTime(Here(t), outcome)]
        <4>1. \A y \in Keys : mapTime'[y] = mapTime[y]
                \/ (y = Here(t) /\ mapTime'[y] = ReadTime(Here(t), outcome))
          BY <3>4
        <4> QED BY <1>3, <3>2, <3>4, <4>1
      <3> QED BY <3>1, <3>3, <3>4
    <2>5. CASE RotateRead(t)
      <3>1. PICK outcome \in Outcomes(t, Present(Here(t))) :
              \/ UNCHANGED mapVars
              \/ /\ ReadTime(Here(t), outcome) # NoTime
                 /\ mapTime' = [mapTime EXCEPT ![Here(t)] = ReadTime(Here(t), outcome)]
              \/ ProcessLost
        BY <2>5 DEF RotateRead
      <3>2. Here(t) \in Keys /\ vault' = vault
        BY <2>1, <2>5 DEF RotateRead, KeylessPc, vaultVars
      <3>3. CASE UNCHANGED mapVars \/ ProcessLost
        BY <1>1, <1>2, <3>3 DEF mapVars, ProcessLost
      <3>4. CASE /\ ReadTime(Here(t), outcome) # NoTime
                 /\ mapTime' = [mapTime EXCEPT ![Here(t)] = ReadTime(Here(t), outcome)]
        <4>1. \A y \in Keys : mapTime'[y] = mapTime[y]
                \/ (y = Here(t) /\ mapTime'[y] = ReadTime(Here(t), outcome))
          BY <3>4
        <4> QED BY <1>3, <3>2, <3>4, <4>1
      <3> QED BY <3>1, <3>3, <3>4
    <2>6. CASE RemoveDelete(t) \/ ClearDelete(t) \/ ClearStray(t)
      <3>1. \/ mapTime' = [mapTime EXCEPT ![Here(t)] = NoTime]
            \/ mapTime' = mapTime
            \/ ProcessLost
            \/ ClearSkip(t)
        BY <2>6 DEF RemoveDelete, ClearDelete, ClearStray, mapVars
      <3>2. CASE mapTime' = [mapTime EXCEPT ![Here(t)] = NoTime]
        BY <3>2 DEF MapStep
      <3> QED BY <1>1, <1>2, <2>2, <3>1, <3>2 DEF ProcessLost
    <2>7. CASE InitList(t) \/ CreateWrite(t) \/ CreateConfig(t) \/ RotateDelete(t)
               \/ RotateWrite(t) \/ RotateConfig(t) \/ EncryptExport(t)
               \/ DecryptExport(t) \/ LatestExport(t)
      BY <1>1, <2>7 DEF InitList, CreateWrite, CreateConfig, RotateDelete, RotateWrite,
         RotateConfig, WriteStep, ConfigStep, EncryptExport, DecryptExport,
         LatestExport, mapVars
    <2> QED BY <1>5, <2>3, <2>4, <2>5, <2>6, <2>7 DEF Proceed
  <1> QED BY <1>1, <1>2, <1>4, <1>5 DEF Next, Crash, Tick, ProcessLost, mapVars, vars

\* The vault stamps a new key with the time of day, and keeps the stamps.
LEMMA NextStamps ==
  ASSUME KeyManagerAssumption, TypeOK, [Next]_vars
  PROVE  /\ now' \in Nat /\ now <= now'
         /\ \A x \in Keys : \/ Present(x)' => Present(x) /\ vault'[x].ctime = vault[x].ctime
                            \/ vault'[x].ctime = now
         /\ \A x \in Keys : vault'[x].ctime \in {vault[x].ctime, now, 0}
  <1> USE DEF TypeOK, VaultOK, VaultKey, Present
  <1>1. VaultStep
    BY NextVaultStep DEF VaultStep, RemoveDelete, TypeOK, ThreadsOK, KeylessPc
  <1>2. now' \in Nat /\ now <= now'
    <2>1. CASE Crash \/ Tick \/ UNCHANGED vars
      BY <2>1 DEF Crash, Tick, vars
    <2>2. ASSUME NEW t \in Threads, Begin(t) PROVE now' = now
      BY <2>2 DEF Begin, InitStart, UnInit, ClearStart, DecryptStart, CreateStart,
                  RemoveStart, RotateStart, EncryptStart, LatestStart
    <2>3. ASSUME NEW t \in Threads, Proceed(t) PROVE now' = now
      BY <2>3 DEF Proceed, InitList, InitRead, CreateWrite, CreateConfig, CreateRead,
         RemoveDelete, ClearDelete, ClearStray, RotateDelete, RotateWrite, RotateConfig,
         WriteStep, ConfigStep, RotateRead, EncryptExport, DecryptExport, LatestExport
    <2> QED BY <2>1, <2>2, <2>3 DEF Next
  <1>3. CASE UNCHANGED vaultVars
    BY <1>2, <1>3 DEF vaultVars
  <1>4. ASSUME NEW x \in Keys, VaultWrite(x), ~Present(x)
        PROVE  \A y \in Keys : vault'[y] = vault[y] \/ vault'[y].ctime = now
    BY <1>4 DEF VaultWrite
  <1>5. ASSUME NEW x \in Keys, VaultDelete(x)
        PROVE  \A y \in Keys : vault'[y] = vault[y] \/ vault'[y] = NoKey
    BY <1>5 DEF VaultDelete
  <1>6. ASSUME NEW x \in Keys, NEW exportable \in BOOLEAN, VaultConfig(x, exportable)
        PROVE  \A y \in Keys : vault'[y].gen = vault[y].gen /\ vault'[y].ctime = vault[y].ctime
    BY <1>6 DEF VaultConfig
  <1>7. NoKey.gen = 0 /\ NoKey.ctime = 0
    BY DEF NoKey
  <1>8. ASSUME NEW x \in Keys
        PROVE  /\ \/ Present(x)' => Present(x) /\ vault'[x].ctime = vault[x].ctime
                  \/ vault'[x].ctime = now
               /\ vault'[x].ctime \in {vault[x].ctime, now, 0}
    BY <1>1, <1>3, <1>4, <1>5, <1>6, <1>7, <1>8 DEF VaultStep, VaultWrite
  <1> QED BY <1>2, <1>8

\* No key of the map seems younger than it is, whatever command fails, is lost
\* or fails without a word, and whatever a crash or UnInit comes between:
\* CheckDomainKeysExpired never takes an expired key for a valid one on
\* account of a time that CreateKey or AutoUpdate left behind.
THEOREM NoKeySeemsYounger == Spec => []NoKeyPassesForYounger
  <1>1. Init => TimesInv
    BY DEF Init, TimesInv, NoKeyPassesForYounger, MapKeys, NoKey, NoTime
  <1>2. TypeOK /\ TypeOK' /\ TimesInv /\ [Next]_vars => TimesInv'
    <2> SUFFICES ASSUME TypeOK, TypeOK', TimesInv, [Next]_vars PROVE TimesInv'
      OBVIOUS
    <2>1. MapStep
      BY KeyManagerAssumption, NextMapStep
    <2>2. /\ now \in Nat /\ now' \in Nat /\ now <= now'
          /\ \A x \in Keys : \/ Present(x)' => Present(x) /\ vault'[x].ctime = vault[x].ctime
                             \/ vault'[x].ctime = now
          /\ \A x \in Keys : vault'[x].ctime \in {vault[x].ctime, now, 0}
      BY KeyManagerAssumption, NextStamps DEF TypeOK, VaultOK
    <2>3. ASSUME NEW x \in Keys
          PROVE  /\ mapTime'[x] <= now' /\ vault'[x].ctime <= now'
                 /\ x \in MapKeys' /\ Present(x)' => mapTime'[x] <= vault'[x].ctime
      <3>1. /\ mapTime[x] \in Times /\ mapTime'[x] \in Times
            /\ vault[x].ctime \in Nat /\ vault'[x].ctime \in Nat
        BY DEF TypeOK, VaultOK, VaultKey, MapOK
      <3>2. mapTime[x] <= now /\ vault[x].ctime <= now
        BY DEF TimesInv
      <3>3. mapTime[x] # NoTime /\ Present(x) => mapTime[x] <= vault[x].ctime
        BY DEF TimesInv, NoKeyPassesForYounger, MapKeys
      <3>4. \/ mapTime'[x] \in {mapTime[x], NoTime}
            \/ Present(x) /\ mapTime'[x] = vault[x].ctime /\ vault'[x] = vault[x]
        BY <2>1 DEF MapStep
      <3>5. mapTime'[x] <= now /\ vault'[x].ctime <= now
        BY <2>2, <3>1, <3>2, <3>4 DEF Times, NoTime
      <3>6. mapTime'[x] <= now' /\ vault'[x].ctime <= now'
        BY <2>2, <3>1, <3>5 DEF Times, NoTime
      <3>7. ASSUME x \in MapKeys', Present(x)' PROVE mapTime'[x] <= vault'[x].ctime
        <4>1. mapTime'[x] # NoTime
          BY <3>7 DEF MapKeys
        <4>2. CASE vault'[x].ctime = now
          BY <3>5, <4>2
        <4>3. CASE Present(x) /\ vault'[x].ctime = vault[x].ctime
          BY <3>1, <3>3, <3>4, <4>1, <4>3
        <4> QED BY <2>2, <3>7, <4>2, <4>3
      <3> QED BY <3>6, <3>7
    <2>4. MapKeys' \subseteq Keys
      BY DEF MapKeys
    <2> QED BY <2>3, <2>4 DEF TimesInv, NoKeyPassesForYounger
  <1>3. TimesInv => NoKeyPassesForYounger
    BY DEF TimesInv
  <1> QED BY <1>1, <1>2, <1>3, TypeCorrect, PTL DEF Spec

-----------------------------------------------------------------------------
(* The manager implements KeyStore.                                        *)

\* Where a thread works on keys that were in the map when it picked them.
UsesKeyPc == {"encryptExport", "removeDelete", "clearDelete"} \cup RotatePc

CallMapped(t) ==
  pc[t] \in UsesKeyPc =>
    IF arg[t].live THEN {Here(t)} \cup arg[t].todo \subseteq MapKeys
    ELSE MapKeys = {}

\* They are still there, unless UnInit has cleared it.
MappedInv == \A t \in Threads : CallMapped(t)

MappedStep(t) ==
  /\ \A u \in Threads \ {t} : pc'[u] = pc[u] /\ arg'[u] = arg[u]
  /\ pc[t] \in ExclusivePc \/ mapTime' = mapTime
  /\ CallMapped(t)'

LEMMA MappedStepInv ==
  ASSUME MutexExclusive, MappedInv, NEW t \in Threads, MappedStep(t)
  PROVE  MappedInv'
  <1> SUFFICES ASSUME NEW u \in Threads, u # t PROVE CallMapped(u)'
    BY DEF MappedInv, MappedStep
  <1>1. pc'[u] = pc[u] /\ arg'[u] = arg[u] /\ CallMapped(u)
    BY DEF MappedInv, MappedStep
  <1>2. CASE pc[t] \in ExclusivePc
    BY <1>1, <1>2 DEF MutexExclusive, CallMapped, UsesKeyPc, RotatePc, ExclusivePc,
                      SharedPc
  <1>3. CASE mapTime' = mapTime
    BY <1>1, <1>3 DEF CallMapped, Here, MapKeys
  <1> QED BY <1>2, <1>3 DEF MappedStep

LEMMA GotoMapped ==
  ASSUME TypeOK, NEW t \in Threads, NEW label, NEW call, Goto(t, label, call),
         pc[t] \in ExclusivePc \/ mapTime' = mapTime,
         label \in UsesKeyPc =>
           IF call.live THEN {<<call.dom, call.key>>} \cup call.todo \subseteq MapKeys'
           ELSE MapKeys' = {}
  PROVE  MappedStep(t)
  <1>1. /\ pc'[t] = label /\ arg'[t] = call
        /\ \A u \in Threads \ {t} : pc'[u] = pc[u] /\ arg'[u] = arg[u]
    BY GotoMoves
  <1> QED BY <1>1 DEF MappedStep, CallMapped, Here

\* A call that is new at a key of the map.
LEMMA PickMapped ==
  ASSUME TypeOK, NEW t \in Threads, NEW label, NEW x \in Keys, NEW todo, NEW gen, NEW auth,
         Goto(t, label, Call(x[1], x[2], 0, todo, gen, auth)),
         pc[t] \in ExclusivePc \/ mapTime' = mapTime,
         {x} \cup todo \subseteq MapKeys'
  PROVE  MappedStep(t)
  <1>1. x = <<x[1], x[2]>>
    BY DEF Keys
  <1> DEFINE call == Call(x[1], x[2], 0, todo, gen, auth)
  <1>2. <<call.dom, call.key>> = x /\ call.todo = todo
    BY <1>1 DEF Call
  <1>3. Goto(t, label, call)
    OBVIOUS
  <1>4. call.live = TRUE
    BY DEF Call
  <1> HIDE DEF call
  <1> QED BY <1>2, <1>3, <1>4, GotoMapped

LEMMA OtherMapped ==
  ASSUME TypeOK, NEW t \in Threads, NEW label, NEW call, Goto(t, label, call),
         label \notin UsesKeyPc,
         pc[t] \in ExclusivePc \/ mapTime' = mapTime
  PROVE  MappedStep(t)
  BY GotoMapped

LEMMA RotateNextMapped ==
  ASSUME TypeOK, NEW t \in Threads, NEW todo, todo \subseteq MapKeys',
         RotateNext(t, todo), pc[t] \in ExclusivePc \/ mapTime' = mapTime
  PROVE  MappedStep(t)
  <1>1. CASE Return(t)
    BY <1>1, OtherMapped DEF Return, UsesKeyPc, RotatePc
  <1>2. ASSUME NEW x \in todo, Goto(t, "rotateDelete",
                 Call(x[1], x[2], 0, todo \ {x}, vault[x].gen, token))
        PROVE  MappedStep(t)
    <2>1. x \in Keys /\ {x} \cup (todo \ {x}) \subseteq MapKeys'
      BY DEF MapKeys
    <2> QED BY <1>2, <2>1, PickMapped
  <1> QED BY <1>1, <1>2 DEF RotateNext

LEMMA ClearNextMapped ==
  ASSUME TypeOK, NEW t \in Threads, NEW doms, ClearNext(t, doms, mapTime'),
         pc[t] \in ExclusivePc \/ mapTime' = mapTime
  PROVE  MappedStep(t)
  <1>1. CASE Return(t)
    BY <1>1, OtherMapped DEF Return, UsesKeyPc, RotatePc
  <1>2. ASSUME NEW x \in Keys, mapTime'[x] # NoTime,
               Goto(t, "clearDelete", Call(x[1], x[2], 0, {}, vault[x].gen, token))
        PROVE  MappedStep(t)
    <2>1. {x} \cup {} \subseteq MapKeys'
      BY <1>2 DEF MapKeys
    <2> QED BY <1>2, <2>1, PickMapped
  <1> QED BY <1>1, <1>2 DEF ClearNext

LEMMA BeginMapped ==
  ASSUME KeyManagerAssumption, TypeOK, MappedInv, NEW t \in Threads, Begin(t)
  PROVE  MappedStep(t) \/ MappedInv'
  <1> USE DEF mapVars
  <1>1. ASSUME NEW count \in DomainCounts, InitStart(t, count) PROVE MappedStep(t)
    BY <1>1, OtherMapped DEF InitStart, UsesKeyPc, RotatePc
  <1>2. CASE UnInit(t)
    <2>1. MapKeys' = {}
      BY <1>2 DEF UnInit, ClearState, MapKeys
    <2>2. \A u \in Threads : arg'[u].live = FALSE
      BY <1>2 DEF UnInit, TypeOK, ThreadsOK, CallType
    <2> QED BY <2>1, <2>2 DEF MappedInv, CallMapped
  <1>3. CASE ClearStart(t)
    <2>1. mapTime' = mapTime /\ ClearNext(t, mapDomains, mapTime')
      BY <1>3 DEF ClearStart
    <2> QED BY <2>1, ClearNextMapped
  <1>4. ASSUME NEW c \in ciphers, DecryptStart(t, c) PROVE MappedStep(t)
    BY <1>4, OtherMapped DEF DecryptStart, UsesKeyPc, RotatePc
  <1>5. ASSUME NEW d \in Domains, CreateStart(t, d) PROVE MappedStep(t)
    BY <1>5, OtherMapped DEF CreateStart, UsesKeyPc, RotatePc
  <1>6. ASSUME NEW d \in Domains, NEW k \in KeyIds, RemoveStart(t, d, k)
        PROVE  MappedStep(t)
    <2>1. /\ Goto(t, "removeDelete", Call(d, k, 0, {}, vault[<<d, k>>].gen, token))
          /\ mapTime' = mapTime /\ mapTime[<<d, k>>] # NoTime
      BY <1>6 DEF RemoveStart, MapIds
    <2> DEFINE x == <<d, k>>
    <2>2. x \in Keys /\ x[1] = d /\ x[2] = k /\ {x} \cup {} \subseteq MapKeys'
      BY <2>1 DEF Keys, MapKeys
    <2> HIDE DEF x
    <2> QED BY <2>1, <2>2, PickMapped
  <1>7. ASSUME NEW d \in Domains, NEW lead \in Leads, RotateStart(t, d, lead)
        PROVE  MappedStep(t)
    <2> DEFINE expired == {x \in MapKeys : x[1] = d /\ Expired(x, lead)}
    <2>1. mapTime' = mapTime /\ RotateNext(t, expired)
      BY <1>7 DEF RotateStart
    <2>2. expired \subseteq MapKeys'
      BY <2>1 DEF MapKeys
    <2> HIDE DEF expired
    <2> QED BY <2>1, <2>2, RotateNextMapped
  <1>8. ASSUME NEW d \in Domains, EncryptStart(t, d) PROVE MappedStep(t)
    <2>1. mapTime' = mapTime
      BY <1>8 DEF EncryptStart
    <2>2. CASE Goto(t, "encryptUpgrade", NoCall)
      BY <2>1, <2>2, OtherMapped DEF UsesKeyPc, RotatePc
    <2>3. ASSUME NEW k \in KeyIds, IsNewest(d, k),
                 Goto(t, "encryptExport", Call(d, k, 0, {}, vault[<<d, k>>].gen, token))
          PROVE  MappedStep(t)
      <3> DEFINE x == <<d, k>>
      <3>1. x \in Keys /\ x[1] = d /\ x[2] = k /\ {x} \cup {} \subseteq MapKeys'
        BY <2>1, <2>3 DEF Keys, MapKeys, IsNewest, MapIds
      <3> HIDE DEF x
      <3> QED BY <2>1, <2>3, <3>1, PickMapped
    <2> QED BY <1>8, <2>2, <2>3 DEF EncryptStart
  <1>9. ASSUME NEW d \in Domains, LatestStart(t, d) PROVE MappedStep(t) \/ MappedInv'
    <2>1. mapTime' = mapTime
      BY <1>9 DEF LatestStart
    <2>2. CASE UNCHANGED <<pc, arg>>
      BY <2>1, <2>2 DEF MappedInv, CallMapped, Here, MapKeys
    <2> QED BY <1>9, <2>1, <2>2, OtherMapped DEF LatestStart, UsesKeyPc, RotatePc
  <1> QED BY <1>1, <1>2, <1>3, <1>4, <1>5, <1>6, <1>7, <1>8, <1>9 DEF Begin

\* Going on with the same key.
LEMMA ContinueMapped ==
  ASSUME TypeOK, MappedInv, NEW t \in Threads, NEW outcome, NEW next,
         Continue(t, outcome, next), mapTime' = mapTime,
         next \notin UsesKeyPc \/ pc[t] \in UsesKeyPc
  PROVE  MappedStep(t)
  <1>1. CASE Return(t)
    BY <1>1, OtherMapped DEF Return, UsesKeyPc, RotatePc
  <1> DEFINE call == [arg[t] EXCEPT !.auth = token]
  <1>2. CASE Goto(t, next, call)
    <2>1. /\ call.live = arg[t].live /\ call.todo = arg[t].todo
          /\ <<call.dom, call.key>> = Here(t)
      BY DEF TypeOK, ThreadsOK, CallType, Here
    <2>2. MapKeys' = MapKeys
      BY DEF MapKeys
    <2> HIDE DEF call
    <2>3. CASE next \notin UsesKeyPc
      BY <1>2, <2>3, OtherMapped
    <2>4. CASE pc[t] \in UsesKeyPc
      BY <1>2, <2>1, <2>2, <2>4, GotoMapped DEF MappedInv, CallMapped
    <2> QED BY <2>3, <2>4
  <1> QED BY <1>1, <1>2 DEF Continue

LEMMA ClearSkipMapped ==
  ASSUME TypeOK, NEW t \in Threads, pc[t] \in ExclusivePc, ClearSkip(t)
  PROVE  MappedStep(t) \/ ProcessLost
  BY OtherMapped DEF ClearSkip, UsesKeyPc, RotatePc

LEMMA ProceedMapped ==
  ASSUME TypeOK, MappedInv, NEW t \in Threads, Proceed(t)
  PROVE  MappedStep(t) \/ ProcessLost
  <1> USE DEF mapVars
  <1>1. CASE InitList(t)
    BY <1>1, OtherMapped DEF InitList, InitListed, InitDone, InitFailed, Return,
                             UsesKeyPc, RotatePc
  <1>2. CASE InitRead(t)
    BY <1>2, OtherMapped DEF InitRead, PrepareMapEntry, InitDone, InitFailed, Return,
                             ExclusivePc, UsesKeyPc, RotatePc
  <1>3. CASE CreateWrite(t) \/ CreateConfig(t)
    BY <1>3, ContinueMapped DEF CreateWrite, CreateConfig, WriteStep, ConfigStep,
                                UsesKeyPc, RotatePc
  <1>4. CASE CreateRead(t) \/ RemoveDelete(t)
    BY <1>4, OtherMapped DEF CreateRead, RemoveDelete, Return, ExclusivePc, UsesKeyPc,
                             RotatePc
  <1>5. CASE ClearDelete(t)
    <2>1. pc[t] \in ExclusivePc
      BY <1>5 DEF ClearDelete, ExclusivePc
    <2> QED BY <1>5, <2>1, ClearNextMapped, ClearSkipMapped DEF ClearDelete
  <1>6. CASE ClearStray(t)
    <2>1. pc[t] \in ExclusivePc
      BY <1>6 DEF ClearStray, ExclusivePc
    <2> QED BY <1>6, <2>1, ClearSkipMapped DEF ClearStray
  <1>7. CASE RotateDelete(t)
    BY <1>7, ContinueMapped DEF RotateDelete, UsesKeyPc, RotatePc
  <1>8. CASE RotateWrite(t)
    BY <1>8, ContinueMapped DEF RotateWrite, WriteStep, UsesKeyPc, RotatePc
  <1>9. CASE RotateConfig(t)
    BY <1>9, ContinueMapped DEF RotateConfig, ConfigStep, UsesKeyPc, RotatePc
  <1>10. CASE RotateRead(t)
    <2>1. pc[t] = "rotateRead" /\ pc[t] \in ExclusivePc /\ CallMapped(t)
          /\ Here(t) \in Keys
      BY <1>10 DEF RotateRead, ExclusivePc, MappedInv, TypeOK, ThreadsOK, KeylessPc
    <2>2. CASE Return(t)
      BY <2>1, <2>2, OtherMapped DEF Return, UsesKeyPc, RotatePc
    <2>3. ASSUME NEW time, time # NoTime, mapTime' = [mapTime EXCEPT ![Here(t)] = time],
                 arg[t].live, RotateNext(t, arg[t].todo)
          PROVE  MappedStep(t)
      <3>1. arg[t].todo \subseteq MapKeys
        BY <2>1, <2>3 DEF CallMapped, UsesKeyPc, RotatePc
      <3>2. MapKeys \subseteq MapKeys'
        BY <2>3 DEF MapKeys, TypeOK, MapOK
      <3> QED BY <2>1, <2>3, <3>1, <3>2, RotateNextMapped
    <2> QED BY <1>10, <2>2, <2>3 DEF RotateRead
  <1>11. CASE EncryptExport(t)
    BY <1>11, OtherMapped DEF EncryptExport, Return, UsesKeyPc, RotatePc
  <1>12. CASE DecryptExport(t) \/ LatestExport(t)
    BY <1>12, OtherMapped DEF DecryptExport, LatestExport, Return, UsesKeyPc, RotatePc
  <1> QED BY <1>1, <1>2, <1>3, <1>4, <1>5, <1>6, <1>7, <1>8, <1>9, <1>10, <1>11,
             <1>12 DEF Proceed

LEMMA MappedCorrect == Spec => []MappedInv
  <1>1. Init => MappedInv
    BY DEF Init, MappedInv, CallMapped, UsesKeyPc, RotatePc
  <1>2. TypeOK /\ MutexExclusive /\ MappedInv /\ [Next]_vars => MappedInv'
    <2> SUFFICES ASSUME TypeOK, MutexExclusive, MappedInv, [Next]_vars
                 PROVE  MappedInv'
      OBVIOUS
    <2>1. CASE Tick \/ UNCHANGED vars
      BY <2>1 DEF Tick, vars, mapVars, MappedInv, CallMapped, Here, MapKeys
    <2>2. CASE ProcessLost
      BY <2>2 DEF ProcessLost, MappedInv, CallMapped, UsesKeyPc, RotatePc
    <2>3. ASSUME NEW t \in Threads, Begin(t) \/ Proceed(t)
          PROVE  MappedInv'
      BY <2>2, <2>3, KeyManagerAssumption, BeginMapped, ProceedMapped, MappedStepInv
    <2> QED BY <2>1, <2>2, <2>3 DEF Next, Crash
  <1> QED BY <1>1, <1>2, TypeCorrect, MutexIsExclusive, PTL DEF Spec

DeletePc == {"removeDelete", "clearDelete", "clearStray", "rotateDelete"}

\* A key is taken from the vault by the delete command of a call that is at it.
LEMMA NextDeletes ==
  ASSUME TypeOK, [Next]_vars, NEW x \in Keys, Present(x), ~Present(x)'
  PROVE  \E t \in Threads : pc[t] \in DeletePc /\ Here(t) = x
  <1>1. vault' # vault
    BY DEF Present
  <1>2. PICK t \in Threads : Proceed(t)
    BY <1>1 DEF Next, Crash, Tick, vars, vaultVars, Begin, InitStart, UnInit,
                ClearStart, DecryptStart, CreateStart, RemoveStart, RotateStart,
                EncryptStart, LatestStart
  <1>3. CASE CreateWrite(t) \/ RotateWrite(t)
    <2>1. VaultWrite(Here(t)) /\ ~Present(Here(t))
      BY <1>1, <1>3 DEF CreateWrite, RotateWrite, WriteStep, VaultWrite, vaultVars
    <2>2. x # Here(t)
      BY <2>1
    <2> QED BY <2>1, <2>2 DEF VaultWrite, Present, TypeOK, VaultOK
  <1>4. CASE CreateConfig(t) \/ RotateConfig(t)
    <2>1. PICK exportable \in BOOLEAN : VaultConfig(Here(t), exportable)
      BY <1>1, <1>4 DEF CreateConfig, RotateConfig, ConfigStep, vaultVars
    <2> QED BY <2>1 DEF VaultConfig, Present, TypeOK, VaultOK, VaultKey
  <1>5. CASE RemoveDelete(t) \/ ClearDelete(t) \/ ClearStray(t) \/ RotateDelete(t)
    <2>1. pc[t] \in DeletePc /\ VaultDelete(Here(t))
      BY <1>1, <1>5 DEF RemoveDelete, ClearDelete, ClearStray, RotateDelete, DeletePc,
                        vaultVars
    <2>2. x # Here(t) => vault'[x] = vault[x]
      BY <2>1 DEF VaultDelete, TypeOK, VaultOK
    <2> QED BY <2>1, <2>2 DEF Present
  <1> QED BY <1>1, <1>2, <1>3, <1>4, <1>5
          DEF Proceed, InitList, InitRead, CreateRead, RotateRead, EncryptExport,
              DecryptExport, LatestExport, vaultVars

\* Whatever fails, crashes or is rotated, and wherever UnInit strikes, a key is
\* only deleted while the map names it, or after UnInit emptied the map under a
\* call that had picked it, or by DeleteAllKey going on after a failure.
THEOREM DeletesOnlyMapped == Spec => DeletesNameMappedKeys
  <1>1. TypeOK /\ LockInv /\ MappedInv /\ [Next]_vars =>
          [\A x \in Keys : Present(x) /\ ~Present(x)' =>
             \/ x \in MapKeys
             \/ \E t \in Threads :
                  Here(t) = x /\ (Outlived(t) \/ pc[t] = "clearStray")]_vars
    <2> SUFFICES ASSUME TypeOK, LockInv, MappedInv, [Next]_vars,
                        NEW x \in Keys, Present(x), ~Present(x)', x \notin MapKeys
                 PROVE  \E t \in Threads :
                          Here(t) = x /\ (Outlived(t) \/ pc[t] = "clearStray")
      OBVIOUS
    <2>1. PICK t \in Threads : pc[t] \in DeletePc /\ Here(t) = x
      BY NextDeletes
    <2>2. CASE pc[t] # "clearStray"
      <3>1. ~arg[t].live
        BY <2>1, <2>2 DEF MappedInv, CallMapped, UsesKeyPc, RotatePc, DeletePc
      <3>2. vault[Here(t)].gen = arg[t].gen
        BY <2>1, <2>2 DEF LockInv, PickedKeyIsStable, HoldsPicked, DeletePc
      <3> QED BY <2>1, <2>2, <3>1, <3>2 DEF Outlived, DeletePc
    <2> QED BY <2>1, <2>2
  <1> QED BY <1>1, TypeCorrect, LockInvCorrect, MappedCorrect, PTL
          DEF Spec, DeletesNameMappedKeys

-----------------------------------------------------------------------------
(* Its steps are those of KeyStore.                                       *)

StoreStep == [Store!Next]_(Store!vars)

SameGens ==
  nextGen' = nextGen /\ \A x \in Keys : vault'[x].gen = vault[x].gen

\* The map forgets a key or all of them, or learns of one that is there.
LEMMA StoreLearns ==
  ASSUME SameGens, UNCHANGED <<ciphers, removed>>,
         \/ MapKeys' \in {MapKeys, {}}
         \/ \E x \in Keys : Present(x) /\ MapKeys' = MapKeys \cup {x}
         \/ \E x \in Keys : MapKeys' = MapKeys \ {x}
  PROVE  StoreStep
  <1>1. /\ [x \in Keys |-> vault[x].gen]' = [x \in Keys |-> vault[x].gen]
        /\ (1..nextGen - 1)' = 1..nextGen - 1
        /\ ciphers' = ciphers /\ removed' = removed
    BY DEF SameGens
  <1>2. CASE MapKeys' = MapKeys
    BY <1>1, <1>2 DEF StoreStep, Store!vars
  <1>3. CASE MapKeys' = {}
    <2>1. Store!Forget
      BY <1>1, <1>3 DEF Store!Forget
    <2> QED BY <2>1 DEF StoreStep, Store!Next
  <1>4. ASSUME NEW x \in Keys, Present(x), MapKeys' = MapKeys \cup {x}
        PROVE  StoreStep
    <2>1. Store!Learn(x)
      BY <1>1, <1>4 DEF Store!Learn, Present
    <2> QED BY <2>1 DEF StoreStep, Store!Next
  <1>5. ASSUME NEW x \in Keys, MapKeys' = MapKeys \ {x} PROVE StoreStep
    <2>1. Store!Hide(x)
      BY <1>1, <1>5 DEF Store!Hide
    <2> QED BY <2>1 DEF StoreStep, Store!Next
  <1> QED BY <1>2, <1>3, <1>4, <1>5

\* A key that is written is a new one, of material never seen before.
LEMMA StoreMakes ==
  ASSUME TypeOK, FreshInv, NEW x \in Keys, VaultWrite(x),
         x \in MapKeys \/ Store!Newest(x),
         mapTime' = mapTime, UNCHANGED historyVars
  PROVE  StoreStep
  <1> DEFINE gens == [y \in Keys |-> vault[y].gen]
  <1>1. MapKeys' = MapKeys
    BY DEF MapKeys
  <1>2. CASE Present(x)
    BY <1>1, <1>2, StoreLearns DEF VaultWrite, vaultVars, SameGens, historyVars
  <1>3. CASE ~Present(x)
    <2>1. nextGen \in Nat \ {0} /\ \A y \in Keys : vault[y].gen \in Nat
      BY DEF TypeOK, VaultOK, VaultKey
    <2>2. nextGen' = nextGen + 1 /\ \A y \in Keys : vault'[y].gen =
            IF y = x THEN nextGen ELSE vault[y].gen
      BY <1>3 DEF VaultWrite, TypeOK, VaultOK
    <2>3. gens[x] = 0 /\ gens'[x] = nextGen /\ gens' = [gens EXCEPT ![x] = nextGen]
      BY <1>3, <2>2 DEF Present
    <2>4. nextGen \notin (1..nextGen - 1) \cup {0}
      BY <2>1
    <2>5. (1..nextGen - 1)' = (1..nextGen - 1) \cup {nextGen}
      BY <2>1, <2>2
    <2>6. Store!Make(x)
      BY <1>1, <2>3, <2>4, <2>5 DEF Store!Make, historyVars
    <2> QED BY <2>6 DEF StoreStep, Store!Next
  <1> QED BY <1>2, <1>3

\* A delete the vault carries out removes the key, whatever is said of it.
LEMMA StoreDeletes ==
  ASSUME TypeOK, NEW x \in Keys, Present(x), VaultDelete(x), ciphers' = ciphers,
         \/ MapKeys' \in {MapKeys, {}} /\ removed' = removed
         \/ /\ Store!Offered(x) /\ MapKeys' = MapKeys \ {x}
            /\ removed' \in {removed, removed \cup {vault[x].gen}}
  PROVE  StoreStep
  <1> DEFINE gens == [y \in Keys |-> vault[y].gen]
  <1>1. nextGen' = nextGen /\ \A y \in Keys : vault'[y].gen =
          IF y = x THEN 0 ELSE vault[y].gen
    BY DEF VaultDelete, TypeOK, VaultOK, NoKey
  <1>2. gens[x] # 0 /\ gens[x] = vault[x].gen /\ gens' = [gens EXCEPT ![x] = 0]
    BY <1>1 DEF Present
  <1>3. (1..nextGen - 1)' = 1..nextGen - 1
    BY <1>1
  <1>4. Store!Delete(x)
    BY <1>2, <1>3 DEF Store!Delete
  <1> QED BY <1>4 DEF StoreStep, Store!Next

\* What a call picked is still on offer, and there is nothing above it.
LEMMA PickedOffered ==
  ASSUME MappedInv, NEW t \in Threads, pc[t] \in UsesKeyPc
  PROVE  Store!Offered(Here(t))
  BY DEF MappedInv, CallMapped, Store!Offered

LEMMA AboveAll ==
  ASSUME NEW t \in Threads, \A j \in MapIds(arg[t].dom) : j <= arg[t].key
  PROVE  Store!Newest(Here(t))
  <1> SUFFICES ASSUME NEW y \in MapKeys, y[1] = arg[t].dom
               PROVE  y[2] <= arg[t].key
    BY DEF Store!Newest, Here
  <1>1. y[2] \in MapIds(arg[t].dom)
    <2>1. y = <<y[1], y[2]>> /\ y[2] \in KeyIds /\ mapTime[y] # NoTime
      BY DEF MapKeys, Keys
    <2> QED BY <2>1 DEF MapIds
  <1> QED BY <1>1

-----------------------------------------------------------------------------
LEMMA BeginStores ==
  ASSUME TypeOK, NEW t \in Threads, Begin(t)
  PROVE  StoreStep
  <1>1. vault' = vault /\ nextGen' = nextGen /\ UNCHANGED historyVars
    BY DEF Begin, InitStart, UnInit, ClearStart, DecryptStart, CreateStart,
           RemoveStart, RotateStart, EncryptStart, LatestStart, vaultVars
  <1>2. \/ mapTime' = mapTime
        \/ mapTime' = [x \in Keys |-> NoTime]
    BY DEF Begin, InitStart, UnInit, ClearState, ClearStart, DecryptStart, CreateStart,
           RemoveStart, RotateStart, EncryptStart, LatestStart, mapVars
  <1>3. MapKeys' \in {MapKeys, {}}
    BY <1>2 DEF MapKeys
  <1> QED BY <1>1, <1>3, StoreLearns DEF SameGens, historyVars

\* What InitRead, CreateRead and RotateRead enter in the map.
LEMMA EntryStores ==
  ASSUME TypeOK, UNCHANGED vaultVars, UNCHANGED historyVars,
         NEW t \in Threads, NEW x \in Keys, NEW outcome \in Outcomes(t, Present(x)),
         \/ mapTime' = mapTime
         \/ mapTime' = [y \in Keys |-> NoTime]
         \/ /\ ReadTime(x, outcome) # NoTime
            /\ \/ mapTime' = [mapTime EXCEPT ![x] = ReadTime(x, outcome)]
               \/ mapTime' = [mapTime EXCEPT ![x] =
                                IF @ = NoTime THEN ReadTime(x, outcome) ELSE @]
  PROVE  StoreStep
  <1>1. SameGens
    BY DEF SameGens, vaultVars
  <1>2. CASE mapTime' = mapTime \/ mapTime' = [y \in Keys |-> NoTime]
    <2>1. MapKeys' \in {MapKeys, {}}
      BY <1>2 DEF MapKeys
    <2> QED BY <1>1, <2>1, StoreLearns DEF historyVars
  <1>3. CASE /\ ReadTime(x, outcome) # NoTime
             /\ \/ mapTime' = [mapTime EXCEPT ![x] = ReadTime(x, outcome)]
                \/ mapTime' = [mapTime EXCEPT ![x] =
                                 IF @ = NoTime THEN ReadTime(x, outcome) ELSE @]
    <2>1. mapTime'[x] # NoTime /\ \A y \in Keys \ {x} : mapTime'[y] = mapTime[y]
      BY <1>3 DEF TypeOK, MapOK
    <2>2. MapKeys' = MapKeys \cup {x}
      BY <2>1 DEF MapKeys
    <2>3. Present(x)
      BY <1>3, ReadTimeFound
    <2> QED BY <1>1, <2>2, <2>3, StoreLearns DEF historyVars
  <1> QED BY <1>2, <1>3

LEMMA ReadStores ==
  ASSUME TypeOK, NEW t \in Threads, InitRead(t) \/ CreateRead(t) \/ RotateRead(t)
  PROVE  StoreStep
  <1>1. UNCHANGED vaultVars /\ UNCHANGED historyVars
    BY DEF InitRead, CreateRead, RotateRead
  <1>2. CASE InitRead(t)
    <2> PICK x \in arg[t].todo :
          \E outcome \in Outcomes(t, Present(x)) : PrepareMapEntry(t, x, outcome)
      BY <1>2 DEF InitRead
    <2>1. PICK outcome \in Outcomes(t, Present(x)) : PrepareMapEntry(t, x, outcome)
      OBVIOUS
    <2>2. x \in Keys
      BY DEF TypeOK, ThreadsOK, CallType
    <2>3. \/ mapTime' = mapTime
          \/ mapTime' = [y \in Keys |-> NoTime]
          \/ /\ ReadTime(x, outcome) # NoTime
             /\ mapTime' = [mapTime EXCEPT ![x] =
                              IF @ = NoTime THEN ReadTime(x, outcome) ELSE @]
      BY <2>1 DEF PrepareMapEntry, mapVars
    <2> QED BY <1>1, <2>2, <2>3, EntryStores
  <1>3. CASE CreateRead(t) \/ RotateRead(t)
    <2>1. Here(t) \in Keys
      BY <1>3 DEF CreateRead, RotateRead, TypeOK, ThreadsOK, KeylessPc
    <2>2. PICK outcome \in Outcomes(t, Present(Here(t))) :
            \/ mapTime' = mapTime
            \/ mapTime' = [y \in Keys |-> NoTime]
            \/ /\ ReadTime(Here(t), outcome) # NoTime
               /\ mapTime' = [mapTime EXCEPT ![Here(t)] = ReadTime(Here(t), outcome)]
      BY <1>3 DEF CreateRead, RotateRead, mapVars, ProcessLost, ClearState
    <2> QED BY <1>1, <2>1, <2>2, EntryStores
  <1> QED BY <1>2, <1>3

LEMMA WriteStores ==
  ASSUME TypeOK, LockInv, FreshInv, MappedInv,
         NEW t \in Threads, CreateWrite(t) \/ RotateWrite(t)
  PROVE  StoreStep
  <1>1. /\ pc[t] \in {"createWrite", "rotateWrite"} /\ mapTime' = mapTime
        /\ UNCHANGED historyVars /\ (VaultWrite(Here(t)) \/ UNCHANGED vaultVars)
    BY DEF CreateWrite, RotateWrite, WriteStep, mapVars
  <1>2. Here(t) \in Keys
    BY <1>1 DEF TypeOK, ThreadsOK, KeylessPc
  <1>3. CASE UNCHANGED vaultVars
    <2>1. MapKeys' = MapKeys /\ SameGens
      BY <1>1, <1>3 DEF MapKeys, SameGens, vaultVars
    <2> QED BY <1>1, <2>1, StoreLearns DEF historyVars
  <1>4. CASE VaultWrite(Here(t)) /\ pc[t] = "createWrite"
    <2>1. arg[t].dom \in Nat /\ arg[t].key \in Nat
      BY DEF TypeOK, ThreadsOK, CallType
    <2>2. MapIds(arg[t].dom) \subseteq Nat
      BY KeyManagerAssumption DEF MapIds
    <2>3. \A j \in MapIds(arg[t].dom) : j <= arg[t].key
      BY <1>4, <2>1, <2>2 DEF LockInv, NewestKeyInUse, HoldsNewest
    <2>4. Store!Newest(Here(t))
      BY <2>3, AboveAll
    <2> QED BY <1>1, <1>2, <1>4, <2>4, StoreMakes
  <1>5. CASE VaultWrite(Here(t)) /\ pc[t] = "rotateWrite"
    <2>1. Here(t) \in MapKeys \/ MapKeys = {}
      BY <1>5 DEF MappedInv, CallMapped, UsesKeyPc, RotatePc
    <2>2. Here(t) \in MapKeys \/ Store!Newest(Here(t))
      BY <2>1 DEF Store!Newest
    <2> QED BY <1>1, <1>2, <1>5, <2>2, StoreMakes
  <1> QED BY <1>1, <1>3, <1>4, <1>5

\* A step of a delete command that the map hears nothing of.
LEMMA UnheardDelete ==
  ASSUME TypeOK, NEW x \in Keys, UNCHANGED historyVars,
         (Present(x) /\ VaultDelete(x)) \/ UNCHANGED vaultVars,
         mapTime' = mapTime \/ ClearState
  PROVE  StoreStep
  <1>1. MapKeys' \in {MapKeys, {}}
    BY DEF MapKeys, ClearState
  <1>2. CASE UNCHANGED vaultVars
    BY <1>1, <1>2, StoreLearns DEF SameGens, vaultVars, historyVars
  <1>3. CASE Present(x) /\ VaultDelete(x)
    BY <1>1, <1>3, StoreDeletes DEF historyVars
  <1> QED BY <1>2, <1>3

\* One that it takes for done: it was, or the command did nothing and said so
\* by its silence.
LEMMA HeardDelete ==
  ASSUME TypeOK, MappedInv, NEW t \in Threads, pc[t] \in UsesKeyPc, Here(t) \in Keys,
         mapTime' = [mapTime EXCEPT ![Here(t)] = NoTime], ciphers' = ciphers,
         \/ UNCHANGED vaultVars /\ removed' = removed
         \/ /\ Present(Here(t)) /\ VaultDelete(Here(t))
            /\ removed' \in {removed, removed \cup {vault[Here(t)].gen}}
  PROVE  StoreStep
  <1>1. MapKeys' = MapKeys \ {Here(t)}
    BY DEF MapKeys, TypeOK, MapOK
  <1>2. CASE UNCHANGED vaultVars /\ removed' = removed
    BY <1>1, <1>2, StoreLearns DEF SameGens, vaultVars
  <1>3. CASE /\ Present(Here(t)) /\ VaultDelete(Here(t))
             /\ removed' \in {removed, removed \cup {vault[Here(t)].gen}}
    BY <1>1, <1>3, PickedOffered, StoreDeletes
  <1> QED BY <1>2, <1>3

\* What the outcome of a delete command says of the vault.
LEMMA DeleteOutcome ==
  ASSUME NEW t \in Threads, NEW x,
         NEW outcome \in Outcomes(t, CanDelete(x)),
         IF Applied(outcome) THEN VaultDelete(x) ELSE UNCHANGED vaultVars
  PROVE  /\ (Present(x) /\ VaultDelete(x)) \/ UNCHANGED vaultVars
         /\ outcome = "done" => Present(x) /\ VaultDelete(x)
         /\ outcome = "silent" => UNCHANGED vaultVars
         /\ Accepted(outcome) => outcome \in {"done", "silent"}
  BY DEF Outcomes, Applied, Accepted, CanDelete

LEMMA DeleteStores ==
  ASSUME TypeOK, LockInv, MappedInv, NEW t \in Threads,
         RemoveDelete(t) \/ ClearDelete(t) \/ ClearStray(t) \/ RotateDelete(t)
  PROVE  StoreStep
  <1>1. Here(t) \in Keys
    BY DEF RemoveDelete, ClearDelete, ClearStray, RotateDelete, TypeOK, ThreadsOK,
           KeylessPc
  <1>2. CASE RemoveDelete(t)
    <2>1. PICK outcome \in Outcomes(t, CanDelete(Here(t))) :
            /\ IF Applied(outcome) THEN VaultDelete(Here(t)) ELSE UNCHANGED vaultVars
            /\ IF Accepted(outcome)
               THEN /\ mapTime' = [mapTime EXCEPT ![Here(t)] = NoTime]
                    /\ Report(arg[t].gen, outcome)
               ELSE UNCHANGED <<mapVars, removed, unheard>>
      BY <1>2 DEF RemoveDelete
    <2>2. /\ (Present(Here(t)) /\ VaultDelete(Here(t))) \/ UNCHANGED vaultVars
          /\ outcome = "done" => Present(Here(t)) /\ VaultDelete(Here(t))
          /\ outcome = "silent" => UNCHANGED vaultVars
          /\ Accepted(outcome) => outcome \in {"done", "silent"}
      BY <2>1, DeleteOutcome
    <2>3. pc[t] \in UsesKeyPc /\ vault[Here(t)].gen = arg[t].gen /\ ciphers' = ciphers
      BY <1>2 DEF RemoveDelete, UsesKeyPc, LockInv, PickedKeyIsStable, HoldsPicked
    <2>4. CASE Accepted(outcome)
      <3>1. \/ UNCHANGED vaultVars /\ removed' = removed
            \/ /\ Present(Here(t)) /\ VaultDelete(Here(t))
               /\ removed' = removed \cup {vault[Here(t)].gen}
        BY <2>1, <2>2, <2>3, <2>4 DEF Present, Report
      <3> QED BY <1>1, <2>1, <2>3, <2>4, <3>1, HeardDelete
    <2>5. CASE ~Accepted(outcome)
      BY <1>1, <2>1, <2>2, <2>3, <2>5, UnheardDelete DEF mapVars, historyVars
    <2> QED BY <2>4, <2>5
  <1>3. CASE ClearDelete(t)
    <2>1. PICK outcome \in Outcomes(t, CanDelete(Here(t))) :
            /\ IF Applied(outcome) THEN VaultDelete(Here(t)) ELSE UNCHANGED vaultVars
            /\ \/ /\ Accepted(outcome)
                  /\ mapTime' = [mapTime EXCEPT ![Here(t)] = NoTime]
               \/ ProcessLost
               \/ ClearSkip(t)
      BY <1>3 DEF ClearDelete
    <2>2. (Present(Here(t)) /\ VaultDelete(Here(t))) \/ UNCHANGED vaultVars
      BY <2>1, DeleteOutcome
    <2>3. pc[t] \in UsesKeyPc /\ UNCHANGED historyVars
      BY <1>3 DEF ClearDelete, UsesKeyPc
    <2>4. CASE /\ Accepted(outcome)
               /\ mapTime' = [mapTime EXCEPT ![Here(t)] = NoTime]
      BY <1>1, <2>2, <2>3, <2>4, HeardDelete DEF historyVars
    <2>5. CASE ProcessLost \/ ClearSkip(t)
      <3>1. mapTime' = mapTime \/ ClearState
        BY <2>5 DEF ClearSkip, ProcessLost, mapVars
      <3> QED BY <1>1, <2>2, <2>3, <3>1, UnheardDelete
    <2> QED BY <2>1, <2>4, <2>5
  <1>4. CASE ClearStray(t) \/ RotateDelete(t)
    <2>1. PICK outcome \in Outcomes(t, CanDelete(Here(t))) :
            IF Applied(outcome) THEN VaultDelete(Here(t)) ELSE UNCHANGED vaultVars
      BY <1>4 DEF ClearStray, RotateDelete
    <2>2. (Present(Here(t)) /\ VaultDelete(Here(t))) \/ UNCHANGED vaultVars
      BY <2>1, DeleteOutcome
    <2>3. (mapTime' = mapTime \/ ClearState) /\ UNCHANGED historyVars
      BY <1>4 DEF ClearStray, RotateDelete, ClearSkip, ProcessLost, mapVars
    <2> QED BY <1>1, <2>2, <2>3, UnheardDelete
  <1> QED BY <1>2, <1>3, <1>4

LEMMA ConfigStores ==
  ASSUME TypeOK, NEW t \in Threads, CreateConfig(t) \/ RotateConfig(t)
  PROVE  StoreStep
  <1>1. UNCHANGED historyVars /\ MapKeys' = MapKeys
    BY DEF CreateConfig, RotateConfig, ConfigStep, MapKeys, mapVars
  <1>2. \/ UNCHANGED vaultVars
        \/ \E exportable \in BOOLEAN : VaultConfig(Here(t), exportable)
    BY DEF CreateConfig, RotateConfig, ConfigStep
  <1>3. ASSUME NEW exportable \in BOOLEAN, VaultConfig(Here(t), exportable)
        PROVE  SameGens
    BY <1>3 DEF VaultConfig, SameGens, TypeOK, VaultOK, VaultKey
  <1>4. SameGens
    BY <1>2, <1>3 DEF SameGens, vaultVars
  <1> QED BY <1>1, <1>4, StoreLearns DEF historyVars

LEMMA EncryptStores ==
  ASSUME TypeOK, LockInv, MappedInv, NEW t \in Threads, EncryptExport(t)
  PROVE  StoreStep
  <1>1. /\ pc[t] = "encryptExport" /\ UNCHANGED vaultVars /\ mapTime' = mapTime
        /\ removed' = removed /\ Here(t) \in Keys
    BY DEF EncryptExport, mapVars, TypeOK, ThreadsOK, KeylessPc
  <1>2. MapKeys' = MapKeys /\ SameGens
    BY <1>1 DEF MapKeys, SameGens, vaultVars
  <1>3. CASE ciphers' = ciphers
    BY <1>1, <1>2, <1>3, StoreLearns
  <1>4. CASE /\ ciphers' = ciphers \cup {[dom |-> arg[t].dom, key |-> arg[t].key,
                                          gen |-> vault[Here(t)].gen]}
             /\ Present(Here(t))
    <2>1. Store!Offered(Here(t))
      BY <1>1, PickedOffered DEF UsesKeyPc
    <2>2. Store!Newest(Here(t))
      BY <1>1, AboveAll DEF LockInv, NewestKeyInUse, HoldsNewest
    <2>3. /\ [y \in Keys |-> vault[y].gen][Here(t)] = vault[Here(t)].gen
          /\ Here(t)[1] = arg[t].dom /\ Here(t)[2] = arg[t].key
          /\ [y \in Keys |-> vault[y].gen]' = [y \in Keys |-> vault[y].gen]
          /\ (1..nextGen - 1)' = 1..nextGen - 1
      BY <1>1, <1>2 DEF Here, SameGens
    <2>4. Store!Encrypt(Here(t))
      BY <1>1, <1>2, <1>4, <2>1, <2>2, <2>3 DEF Store!Encrypt, Present
    <2> QED BY <1>1, <2>4 DEF StoreStep, Store!Next
  <1>5. \/ ciphers' = ciphers
        \/ /\ ciphers' = ciphers \cup {[dom |-> arg[t].dom, key |-> arg[t].key,
                                        gen |-> vault[Here(t)].gen]}
           /\ Present(Here(t))
    <2>1. PICK outcome \in Outcomes(t, CanExport(Here(t))) :
            IF outcome = "done"
            THEN ciphers' = ciphers \cup {[dom |-> arg[t].dom, key |-> arg[t].key,
                                           gen |-> vault[Here(t)].gen]}
            ELSE UNCHANGED ciphers
      BY DEF EncryptExport
    <2>2. outcome = "done" => Present(Here(t))
      BY DEF Outcomes, CanExport
    <2> QED BY <2>1, <2>2
  <1> QED BY <1>3, <1>4, <1>5

LEMMA ProceedStores ==
  ASSUME TypeOK, LockInv, FreshInv, MappedInv,
         NEW t \in Threads, Proceed(t)
  PROVE  StoreStep
  <1>1. CASE InitList(t) \/ DecryptExport(t) \/ LatestExport(t)
    <2>1. UNCHANGED vaultVars /\ UNCHANGED historyVars /\ MapKeys' = MapKeys
      BY <1>1 DEF InitList, DecryptExport, LatestExport, mapVars, MapKeys
    <2> QED BY <2>1, StoreLearns DEF SameGens, vaultVars, historyVars
  <1> QED BY <1>1, ReadStores, WriteStores, DeleteStores, ConfigStores, EncryptStores
          DEF Proceed

\* Every step, of any call, whatever becomes of its command, is one of KeyStore
\* or changes nothing that KeyStore speaks of.
LEMMA NextStores ==
  ASSUME TypeOK, LockInv, FreshInv, MappedInv, [Next]_vars
  PROVE  StoreStep
  <1>1. CASE Crash \/ Tick \/ UNCHANGED vars
    <2>1. UNCHANGED vaultVars /\ UNCHANGED historyVars /\ (mapTime' = mapTime \/ ClearState)
      BY <1>1 DEF Crash, Tick, vars, ProcessLost, vaultVars, historyVars, mapVars
    <2>2. MapKeys' \in {MapKeys, {}}
      BY <2>1 DEF MapKeys, ClearState
    <2> QED BY <2>1, <2>2, StoreLearns DEF SameGens, vaultVars, historyVars
  <1> QED BY <1>1, BeginStores, ProceedStores DEF Next

\* The manager implements KeyStore: seen through what the vault holds and what
\* the map names, its calls are indivisible, whatever threads, crashes, UnInit
\* and failed, lost or silent commands come between.
THEOREM ManagerImplementsKeyStore == Spec => ImplementsKeyStore
  <1>1. Init => Store!Init
    <2> SUFFICES ASSUME Init PROVE Store!Init
      OBVIOUS
    <2>1. [x \in Keys |-> vault[x].gen] = [x \in Keys |-> 0]
      BY DEF Init, NoKey
    <2>2. MapKeys = {} /\ 1..nextGen - 1 = {}
      BY DEF Init, MapKeys
    <2> QED BY <2>1, <2>2 DEF Init, Store!Init
  <1>2. TypeOK /\ LockInv /\ FreshInv /\ MappedInv /\ [Next]_vars
          => [Store!Next]_(Store!vars)
    BY NextStores DEF StoreStep
  <1> QED BY <1>1, <1>2, TypeCorrect, LockInvCorrect, FreshCorrect, MappedCorrect,
             PTL DEF Spec, ImplementsKeyStore, Store!Spec

-----------------------------------------------------------------------------
(* The map under commands that fail.                                       *)

\* With AutoUpdate not in use no thread is in the middle of it.
NothingRotates == \A t \in Threads : pc[t] \notin RotatePc

LEMMA NextRotatesNothing ==
  ASSUME KeyManagerAssumption, TypeOK, "AutoUpdate" \notin Ops, NothingRotates, [Next]_vars
  PROVE  NothingRotates'
  <1> USE DEF NothingRotates
  <1>1. ASSUME NEW t \in Threads, NEW call, NEW label \in PcValues \ RotatePc,
               Goto(t, label, call)
        PROVE  NothingRotates'
    BY <1>1, GotoMoves
  <1> DEFINE Label(l) == l \in PcValues \ RotatePc
  <1>2. /\ Label("idle") /\ Label("initList") /\ Label("initRead") /\ Label("createWrite")
        /\ Label("createConfig") /\ Label("createRead") /\ Label("removeDelete")
        /\ Label("clearDelete") /\ Label("clearStray") /\ Label("encryptExport")
        /\ Label("encryptUpgrade") /\ Label("decryptExport") /\ Label("latestExport")
    BY DEF PcValues, ExclusivePc, SharedPc, RotatePc
  <1> HIDE DEF Label
  <1>3. ASSUME NEW t \in Threads, NEW call, NEW label, Label(label), Goto(t, label, call)
        PROVE  NothingRotates'
    BY <1>1, <1>3 DEF Label
  <1>4. CASE UNCHANGED pc
    BY <1>4
  <1>5. CASE ProcessLost
    BY <1>5 DEF ProcessLost, RotatePc
  <1>6. ASSUME NEW t \in Threads, Return(t) PROVE NothingRotates'
    BY <1>2, <1>3, <1>6 DEF Return
  <1>7. ASSUME NEW t \in Threads, NEW outcome, NEW next, Continue(t, outcome, next),
               Label(next)
        PROVE  NothingRotates'
    BY <1>3, <1>6, <1>7 DEF Continue
  <1>8. ASSUME NEW t \in Threads, Begin(t) PROVE NothingRotates'
    <2>1. ASSUME NEW count \in DomainCounts, InitStart(t, count) PROVE NothingRotates'
      BY <1>2, <1>3, <2>1 DEF InitStart
    <2>2. CASE ClearStart(t)
      BY <1>2, <1>3, <1>6, <2>2 DEF ClearStart, ClearNext
    <2>3. ASSUME NEW c \in ciphers, DecryptStart(t, c) PROVE NothingRotates'
      BY <1>2, <1>3, <2>3 DEF DecryptStart
    <2>4. ASSUME NEW d \in Domains, CreateStart(t, d) PROVE NothingRotates'
      BY <1>2, <1>3, <2>4 DEF CreateStart
    <2>5. ASSUME NEW d \in Domains, NEW k \in KeyIds, RemoveStart(t, d, k)
          PROVE  NothingRotates'
      BY <1>2, <1>3, <2>5 DEF RemoveStart
    <2>6. ASSUME NEW d \in Domains, EncryptStart(t, d) PROVE NothingRotates'
      BY <1>2, <1>3, <2>6 DEF EncryptStart
    <2>7. ASSUME NEW d \in Domains, LatestStart(t, d) PROVE NothingRotates'
      BY <1>2, <1>3, <1>4, <2>7 DEF LatestStart
    <2>8. CASE UnInit(t)
      BY <1>4, <2>8 DEF UnInit
    <2>9. \A d \in Domains, lead \in Leads : ~RotateStart(t, d, lead)
      BY DEF RotateStart
    <2> QED BY <1>8, <2>1, <2>2, <2>3, <2>4, <2>5, <2>6, <2>7, <2>8, <2>9 DEF Begin
  <1>9. ASSUME NEW t \in Threads, Proceed(t) PROVE NothingRotates'
    <2>1. ASSUME ClearSkip(t) PROVE NothingRotates'
      BY <1>2, <1>3, <1>5, <2>1 DEF ClearSkip
    <2>2. CASE InitList(t) \/ InitRead(t)
      BY <1>2, <1>3, <1>6, <2>2 DEF InitList, InitListed, InitRead, PrepareMapEntry, InitDone,
         InitFailed
    <2>3. CASE CreateWrite(t) \/ CreateConfig(t)
      BY <1>2, <1>7, <2>3 DEF CreateWrite, CreateConfig, WriteStep, ConfigStep
    <2>4. CASE ClearDelete(t) \/ ClearStray(t)
      BY <1>2, <1>3, <1>5, <1>6, <2>1, <2>4 DEF ClearDelete, ClearStray, ClearNext
    <2>5. CASE RotateDelete(t) \/ RotateWrite(t) \/ RotateConfig(t) \/ RotateRead(t)
      BY <2>5 DEF RotateDelete, RotateWrite, RotateConfig, WriteStep, ConfigStep,
         RotateRead, RotatePc
    <2>6. CASE CreateRead(t) \/ RemoveDelete(t) \/ DecryptExport(t) \/ LatestExport(t)
      BY <1>6, <2>6 DEF CreateRead, RemoveDelete, DecryptExport, LatestExport
    <2>7. CASE EncryptExport(t)
      BY <1>2, <1>3, <1>6, <2>7 DEF EncryptExport
    <2> QED BY <1>9, <2>2, <2>3, <2>4, <2>5, <2>6, <2>7 DEF Proceed
  <1> QED BY <1>4, <1>5, <1>8, <1>9 DEF Next, Crash, Tick, vars

LEMMA NextNamesStored ==
  ASSUME KeyManagerAssumption, "lost" \notin Faults, TypeOK, TypeOK', NothingRotates,
         MapNamesStoredKeys, [Next]_vars
  PROVE  MapNamesStoredKeys'
  <1>1. MapStep
    BY NextMapStep
  <1>2. ASSUME \A x \in Keys : mapTime'[x] # NoTime =>
                 \/ vault'[x].gen = vault[x].gen /\ vault'[x].ctime = vault[x].ctime
                 \/ mapTime[x] = NoTime /\ vault[x].gen = 0
        PROVE  MapNamesStoredKeys'
    BY <1>1, <1>2 DEF MapStep, MapNamesStoredKeys, MapKeys, Present
  <1>3. CASE vault' = vault
    BY <1>2, <1>3
  <1>4. ASSUME NEW t \in Threads, CreateWrite(t) PROVE MapNamesStoredKeys'
    <2>1. Here(t) \in Keys /\ mapTime' = mapTime
      BY <1>4 DEF CreateWrite, WriteStep, TypeOK, ThreadsOK, KeylessPc, mapVars
    <2>2. CASE vault' = vault
      BY <1>3, <2>2
    <2>3. CASE ~Present(Here(t)) /\ VaultWrite(Here(t))
      <3>1. \A x \in Keys : x # Here(t) => vault'[x] = vault[x]
        BY <2>1, <2>3 DEF VaultWrite, TypeOK, VaultOK
      <3>2. mapTime[Here(t)] = NoTime /\ vault[Here(t)].gen = 0
        BY <2>1, <2>3 DEF MapNamesStoredKeys, MapKeys, Present
      <3> QED BY <1>2, <3>1, <3>2
    <2> QED BY <1>4, <2>2, <2>3 DEF CreateWrite, WriteStep, VaultWrite, vaultVars
  <1>5. ASSUME NEW t \in Threads, CreateConfig(t) PROVE MapNamesStoredKeys'
    <2>1. ASSUME VaultConfig(Here(t), TRUE)
          PROVE  \A x \in Keys : vault'[x].gen = vault[x].gen /\ vault'[x].ctime = vault[x].ctime
      BY <2>1 DEF VaultConfig, TypeOK, VaultOK, VaultKey
    <2> QED BY <1>2, <1>3, <1>5, <2>1 DEF CreateConfig, ConfigStep, vaultVars
  <1>6. ASSUME NEW t \in Threads, RemoveDelete(t) \/ ClearDelete(t) \/ ClearStray(t)
        PROVE  MapNamesStoredKeys'
    <2>1. Here(t) \in Keys
      BY <1>6 DEF RemoveDelete, ClearDelete, ClearStray, TypeOK, ThreadsOK, KeylessPc
    <2>2. PICK outcome \in Outcomes(t, CanDelete(Here(t))) :
            /\ IF Applied(outcome) THEN VaultDelete(Here(t)) ELSE UNCHANGED vaultVars
            /\ Accepted(outcome) =>
                 \/ mapTime' = [mapTime EXCEPT ![Here(t)] = NoTime]
                 \/ ProcessLost
      BY <1>6 DEF RemoveDelete, ClearDelete, ClearStray
    <2>3. Applied(outcome) => Accepted(outcome)
      BY DEF Outcomes, Applied, Accepted
    <2>4. CASE ~Applied(outcome)
      BY <1>3, <2>2, <2>4 DEF vaultVars
    <2>5. CASE Applied(outcome)
      <3>1. \A x \in Keys : x # Here(t) => vault'[x] = vault[x]
        BY <2>1, <2>2, <2>5 DEF VaultDelete, TypeOK, VaultOK
      <3>2. mapTime'[Here(t)] = NoTime
        BY <2>1, <2>2, <2>3, <2>5 DEF ProcessLost, ClearState, TypeOK, MapOK
      <3> QED BY <1>2, <3>1, <3>2
    <2> QED BY <2>4, <2>5
  <1>7. CASE Crash \/ Tick \/ UNCHANGED vars
    BY <1>3, <1>7 DEF Crash, Tick, vars, vaultVars
  <1>8. ASSUME NEW t \in Threads, Begin(t) PROVE vault' = vault
    BY <1>8 DEF Begin, InitStart, UnInit, ClearStart, DecryptStart, CreateStart,
       RemoveStart, RotateStart, EncryptStart, LatestStart, vaultVars
  <1>9. ASSUME NEW t \in Threads, Proceed(t) PROVE MapNamesStoredKeys'
    <2>1. CASE InitList(t) \/ InitRead(t) \/ CreateRead(t) \/ EncryptExport(t)
               \/ DecryptExport(t) \/ LatestExport(t)
      BY <1>3, <2>1 DEF InitList, InitRead, CreateRead, EncryptExport, DecryptExport,
         LatestExport, vaultVars
    <2>2. ~(RotateDelete(t) \/ RotateWrite(t) \/ RotateConfig(t) \/ RotateRead(t))
      BY DEF NothingRotates, RotateDelete, RotateWrite, RotateConfig, WriteStep,
         ConfigStep, RotateRead, RotatePc
    <2> QED BY <1>4, <1>5, <1>6, <1>9, <2>1, <2>2 DEF Proceed
  <1> QED BY <1>3, <1>7, <1>8, <1>9 DEF Next

\* A command that fails, with or without a word, a crash, or UnInit in the middle
\* of a call leaves no name in the map without its key: only a lost answer and a
\* rotation, which the theorem excludes, can.
THEOREM MappedKeysAreStored ==
  ASSUME "lost" \notin Faults, "AutoUpdate" \notin Ops
  PROVE  Spec => []MapNamesStoredKeys
  <1>1. Init => NothingRotates /\ MapNamesStoredKeys
    BY DEF Init, NothingRotates, RotatePc, MapNamesStoredKeys, MapKeys
  <1>2. /\ TypeOK /\ TypeOK' /\ NothingRotates /\ MapNamesStoredKeys /\ [Next]_vars
        => NothingRotates' /\ MapNamesStoredKeys'
    BY KeyManagerAssumption, NextRotatesNothing, NextNamesStored
  <1> QED BY <1>1, <1>2, TypeCorrect, PTL DEF Spec

-----------------------------------------------------------------------------
(* Calls end: each has a bounded number of commands.                       *)

\* AutoUpdate has taken the key in hand off the keys it has still to rotate.
OnceOnly(t) == pc[t] \in RotatePc => Here(t) \notin arg[t].todo
LoopInv == \A t \in Threads : OnceOnly(t)

Fewer(t) ==
  CommandsLeft(t)' \subseteq CommandsLeft(t) /\ CommandsLeft(t)' # CommandsLeft(t)

\* A step of a call: fewer commands, and a key is not rotated twice.
LeftStep(t) == Fewer(t) /\ OnceOnly(t)'

LEMMA ReturnFewer ==
  ASSUME NEW t \in Threads, CommandsLeft(t) # {}, pc'[t] \in {"idle", "encryptUpgrade"}
  PROVE  LeftStep(t)
  <1>1. CommandsLeft(t)' = {}
    BY DEF CommandsLeft, StepsForKey, StepsForOthers, RotatePc
  <1> QED BY <1>1 DEF LeftStep, Fewer, OnceOnly, RotatePc

\* The next command for the same key.
LEMMA ContinueFewer ==
  ASSUME TypeOK, NEW t \in Threads, OnceOnly(t), NEW outcome, NEW next,
         Continue(t, outcome, next),
         <<pc[t], next>> \in {<<"createWrite", "createConfig">>,
           <<"createConfig", "createRead">>, <<"rotateDelete", "rotateWrite">>,
           <<"rotateWrite", "rotateConfig">>, <<"rotateConfig", "rotateRead">>}
  PROVE  LeftStep(t)
  <1>1. <<pc[t], Here(t)>> \in CommandsLeft(t)
    BY DEF CommandsLeft, StepsForKey, RotatePc
  <1>2. CASE Return(t)
    <2>1. pc'[t] = "idle"
      BY <1>2, GotoMoves DEF Return
    <2> QED BY <1>1, <2>1, ReturnFewer
  <1>3. CASE Goto(t, next, [arg[t] EXCEPT !.auth = token])
    <2>1. pc'[t] = next /\ arg'[t] = [arg[t] EXCEPT !.auth = token]
      BY <1>3, GotoMoves
    <2>2. Here(t)' = Here(t) /\ arg'[t].todo = arg[t].todo
      BY <2>1 DEF Here, TypeOK, ThreadsOK, CallType
    <2>3. StepsForOthers(t)' = StepsForOthers(t)
      BY <2>1, <2>2 DEF StepsForOthers, RotatePc
    <2>4. StepsForKey(next) = StepsForKey(pc[t]) \ {pc[t]}
      BY DEF StepsForKey, RotatePc
    <2>5. <<pc[t], Here(t)>> \notin StepsForOthers(t)
      BY DEF StepsForOthers, OnceOnly, RotatePc
    <2>6. OnceOnly(t)'
      BY <2>1, <2>2 DEF OnceOnly, RotatePc
    <2> QED BY <1>1, <2>1, <2>2, <2>3, <2>4, <2>5, <2>6 DEF CommandsLeft, LeftStep, Fewer
  <1> QED BY <1>2, <1>3 DEF Continue

\* A call that ends with its last command, or goes on to a place without one.
LEMMA LastFewer ==
  ASSUME TypeOK, NEW t \in Threads, NEW label, NEW call, Goto(t, label, call),
         label \in {"idle", "encryptUpgrade"},
         StepsForKey(pc[t]) # {}
  PROVE  LeftStep(t)
  <1>1. PICK q \in StepsForKey(pc[t]) : TRUE
    OBVIOUS
  <1>2. <<q, Here(t)>> \in CommandsLeft(t)
    BY <1>1 DEF CommandsLeft
  <1>3. pc'[t] = label
    BY GotoMoves
  <1> QED BY <1>2, <1>3, ReturnFewer

LEMMA InitFewer ==
  ASSUME TypeOK, NEW t \in Threads, InitList(t) \/ InitRead(t)
  PROVE  LeftStep(t)
  <1>1. CASE InitList(t)
    <2>1. pc[t] = "initList" /\ StepsForKey(pc[t]) = {"initList"}
      BY <1>1 DEF InitList, StepsForKey
    <2>2. CASE Return(t)
      BY <2>1, <2>2, LastFewer DEF Return
    <2>3. ASSUME NEW listed \in SUBSET Keys,
                 Goto(t, "initRead", Call(0, 0, arg[t].count, listed, 0, token))
          PROVE  LeftStep(t)
      <3>1. pc'[t] = "initRead" /\ arg'[t].todo = listed
        BY <2>3, GotoMoves DEF Call
      <3>2. CommandsLeft(t)' = {"initRead"} \X listed
        BY <3>1 DEF CommandsLeft, StepsForKey, StepsForOthers
      <3>3. CommandsLeft(t) = {<<"initList", Here(t)>>} \cup ({"initRead"} \X Keys)
        BY <2>1 DEF CommandsLeft, StepsForOthers
      <3>4. OnceOnly(t)'
        BY <3>1 DEF OnceOnly, RotatePc
      <3>5. <<"initList", Here(t)>> \notin {"initRead"} \X listed
        OBVIOUS
      <3>6. <<"initList", Here(t)>> \in CommandsLeft(t)
        BY <3>3
      <3>7. CommandsLeft(t)' \subseteq CommandsLeft(t)
        BY <3>2, <3>3
      <3> QED BY <3>2, <3>4, <3>5, <3>6, <3>7 DEF LeftStep, Fewer
    <2> QED BY <1>1, <2>2, <2>3 DEF InitList, InitListed, InitDone, InitFailed
  <1>2. CASE InitRead(t)
    <2>1. pc[t] = "initRead"
      BY <1>2 DEF InitRead
    <2>2. CommandsLeft(t) = {"initRead"} \X arg[t].todo
      BY <2>1 DEF CommandsLeft, StepsForKey, StepsForOthers
    <2>3. PICK x \in arg[t].todo : \E outcome \in Outcomes(t, Present(x)) :
                                     PrepareMapEntry(t, x, outcome)
      BY <1>2 DEF InitRead
    <2>4. <<"initRead", x>> \in CommandsLeft(t)
      BY <2>2
    <2>5. CASE Return(t)
      <3>1. pc'[t] = "idle"
        BY <2>5, GotoMoves DEF Return
      <3> QED BY <2>4, <3>1, ReturnFewer
    <2>6. CASE Goto(t, "initRead", Call(0, 0, arg[t].count, arg[t].todo \ {x}, 0, token))
      <3>1. pc'[t] = "initRead" /\ arg'[t].todo = arg[t].todo \ {x}
        BY <2>6, GotoMoves DEF Call
      <3>2. CommandsLeft(t)' = {"initRead"} \X (arg[t].todo \ {x})
        BY <3>1 DEF CommandsLeft, StepsForKey, StepsForOthers
      <3>3. OnceOnly(t)'
        BY <3>1 DEF OnceOnly, RotatePc
      <3> QED BY <2>2, <2>4, <3>2, <3>3 DEF LeftStep, Fewer
    <2> QED BY <2>3, <2>5, <2>6 DEF PrepareMapEntry, InitDone, InitFailed
  <1> QED BY <1>1, <1>2

\* DeleteAllKey: a key that was deleted is not in the map, and is not visited
\* again; after a failure outerIt goes up, and only up.
LEMMA ClearFewer ==
  ASSUME TypeOK, NEW t \in Threads, ClearDelete(t) \/ ClearStray(t), ~ProcessLost
  PROVE  LeftStep(t)
  <1>1. pc[t] \in {"clearDelete", "clearStray"} /\ Here(t) \in Keys
    BY DEF ClearDelete, ClearStray, TypeOK, ThreadsOK, KeylessPc
  <1>2. arg[t].dom \in Nat /\ Here(t)[1] = arg[t].dom
    BY DEF TypeOK, ThreadsOK, CallType, Here
  <1>3. <<pc[t], Here(t)>> \in CommandsLeft(t)
    BY <1>1, <1>2 DEF CommandsLeft, StepsForKey, StepsForOthers, RotatePc
  <1>4. CASE Return(t)
    <2>1. pc'[t] = "idle"
      BY <1>4, GotoMoves DEF Return
    <2> QED BY <1>3, <2>1, ReturnFewer
  <1>5. ASSUME NEW d \in mapDomains, arg[t].dom < d, UNCHANGED mapVars,
               Goto(t, "clearStray", Call(d, arg[t].key, 0, {}, 0, token))
        PROVE  LeftStep(t)
    <2>1. pc'[t] = "clearStray" /\ arg'[t].dom = d
      BY <1>5, GotoMoves DEF Call
    <2>2. CommandsLeft(t)' = {"clearStray"} \X {x \in Keys : d <= x[1]}
      BY <2>1 DEF CommandsLeft, StepsForKey, StepsForOthers, RotatePc
    <2>3. d \in Nat /\ \A x \in Keys : x[1] \in Nat
      BY KeyManagerAssumption DEF KeyManagerAssumption, Keys, TypeOK, MapOK
    <2>4. {"clearStray"} \X {x \in Keys : d <= x[1]} \subseteq CommandsLeft(t)
      BY <1>1, <1>2, <1>5, <2>3
         DEF CommandsLeft, StepsForKey, StepsForOthers, RotatePc
    <2>5. <<pc[t], Here(t)>> \notin {"clearStray"} \X {x \in Keys : d <= x[1]}
      BY <1>2, <1>5, <2>3
    <2>6. OnceOnly(t)'
      BY <2>1 DEF OnceOnly, RotatePc
    <2> QED BY <1>3, <2>2, <2>4, <2>5, <2>6 DEF LeftStep, Fewer
  <1>6. ASSUME pc[t] = "clearDelete", mapTime' = [mapTime EXCEPT ![Here(t)] = NoTime],
               NEW x \in Keys, mapTime'[x] # NoTime,
               Goto(t, "clearDelete", Call(x[1], x[2], 0, {}, vault[x].gen, token))
        PROVE  LeftStep(t)
    <2>1. pc'[t] = "clearDelete" /\ Here(t)' = x
      BY <1>6, GotoMoves DEF Call, Here, Keys
    <2>2. MapKeys' = MapKeys \ {Here(t)} /\ x \in MapKeys'
      BY <1>1, <1>6 DEF MapKeys, TypeOK, MapOK
    <2>3. CommandsLeft(t) =
            ({"clearDelete"} \X (MapKeys \cup {Here(t)})) \cup ({"clearStray"} \X Keys)
      BY <1>6 DEF CommandsLeft, StepsForKey, StepsForOthers, RotatePc
    <2>4. CommandsLeft(t)' =
            ({"clearDelete"} \X MapKeys') \cup ({"clearStray"} \X Keys)
      BY <2>1, <2>2 DEF CommandsLeft, StepsForKey, StepsForOthers, RotatePc
    <2>5. CommandsLeft(t)' \subseteq CommandsLeft(t)
      BY <2>2, <2>3, <2>4
    <2>6. <<pc[t], Here(t)>> \notin CommandsLeft(t)'
      BY <1>6, <2>2, <2>4
    <2>7. OnceOnly(t)'
      BY <2>1 DEF OnceOnly, RotatePc
    <2> QED BY <1>3, <2>5, <2>6, <2>7 DEF LeftStep, Fewer
  <1>7. CASE ClearSkip(t)
    BY <1>5, <1>7 DEF ClearSkip, IsLeast
  <1>8. ASSUME pc[t] = "clearDelete", mapTime' = [mapTime EXCEPT ![Here(t)] = NoTime],
               ClearNext(t, mapDomains, mapTime')
        PROVE  LeftStep(t)
    BY <1>4, <1>6, <1>8 DEF ClearNext
  <1> QED BY <1>7, <1>8 DEF ClearDelete, ClearStray

\* AutoUpdate: the key that was rotated is not among those still to rotate.
LEMMA RotateReadFewer ==
  ASSUME TypeOK, NEW t \in Threads, OnceOnly(t), RotateRead(t), ~ProcessLost
  PROVE  LeftStep(t)
  <1>1. pc[t] = "rotateRead" /\ Here(t) \notin arg[t].todo
    BY DEF RotateRead, OnceOnly, RotatePc
  <1>2. CommandsLeft(t) = {<<"rotateRead", Here(t)>>} \cup (RotatePc \X arg[t].todo)
    BY <1>1 DEF CommandsLeft, StepsForKey, StepsForOthers, RotatePc
  <1>3. CASE Return(t)
    <2>1. pc'[t] = "idle"
      BY <1>3, GotoMoves DEF Return
    <2> QED BY <1>2, <2>1, ReturnFewer
  <1>4. ASSUME NEW x \in arg[t].todo,
               Goto(t, "rotateDelete",
                    Call(x[1], x[2], 0, arg[t].todo \ {x}, vault[x].gen, token))
        PROVE  LeftStep(t)
    <2>1. x \in Keys
      BY DEF TypeOK, ThreadsOK, CallType
    <2>2. pc'[t] = "rotateDelete" /\ Here(t)' = x /\ arg'[t].todo = arg[t].todo \ {x}
      BY <1>4, <2>1, GotoMoves DEF Call, Here, Keys
    <2>3. CommandsLeft(t)' = (RotatePc \X {x}) \cup (RotatePc \X (arg[t].todo \ {x}))
      BY <2>2 DEF CommandsLeft, StepsForKey, StepsForOthers, RotatePc
    <2>4. CommandsLeft(t)' \subseteq CommandsLeft(t)
      BY <1>2, <2>3
    <2>5. <<"rotateRead", Here(t)>> \notin CommandsLeft(t)'
      BY <1>1, <2>3
    <2>6. OnceOnly(t)'
      BY <2>2 DEF OnceOnly
    <2> QED BY <1>2, <2>4, <2>5, <2>6 DEF LeftStep, Fewer
  <1> QED BY <1>3, <1>4 DEF RotateRead, RotateNext

LEMMA ProceedFewer ==
  ASSUME TypeOK, LoopInv, NEW t \in Threads, Proceed(t)
  PROVE  LeftStep(t) \/ ProcessLost
  <1>1. OnceOnly(t)
    BY DEF LoopInv
  <1>2. CASE InitList(t) \/ InitRead(t)
    BY <1>2, InitFewer
  <1>3. CASE CreateWrite(t) \/ CreateConfig(t)
    BY <1>1, <1>3, ContinueFewer DEF CreateWrite, CreateConfig, WriteStep, ConfigStep
  <1>4. CASE RotateDelete(t) \/ RotateWrite(t) \/ RotateConfig(t)
    BY <1>1, <1>4, ContinueFewer DEF RotateDelete, RotateWrite, RotateConfig, WriteStep,
                                     ConfigStep
  <1>5. CASE CreateRead(t) \/ RemoveDelete(t) \/ DecryptExport(t) \/ LatestExport(t)
    <2>1. Return(t) /\ StepsForKey(pc[t]) # {}
      BY <1>5 DEF CreateRead, RemoveDelete, DecryptExport, LatestExport, StepsForKey
    <2> QED BY <2>1, LastFewer DEF Return
  <1>6. CASE EncryptExport(t)
    <2>1. StepsForKey(pc[t]) # {}
      BY <1>6 DEF EncryptExport, StepsForKey
    <2> QED BY <1>6, <2>1, LastFewer DEF EncryptExport, Return
  <1>7. CASE ClearDelete(t) \/ ClearStray(t)
    BY <1>7, ClearFewer
  <1>8. CASE RotateRead(t)
    BY <1>1, <1>8, RotateReadFewer
  <1> QED BY <1>2, <1>3, <1>4, <1>5, <1>6, <1>7, <1>8 DEF Proceed

\* A call begins with a key that is not among those its loop has still to visit.
LEMMA BeginOnce ==
  ASSUME TypeOK, NEW t \in Threads, Begin(t), pc'[t] \in RotatePc
  PROVE  OnceOnly(t)'
  <1>1. ASSUME NEW label, pc' = [pc EXCEPT ![t] = label] PROVE label \in RotatePc
    BY <1>1 DEF TypeOK, ThreadsOK
  <1> DEFINE Turns == \E todo \in SUBSET Keys, x \in Keys :
                        Goto(t, "rotateDelete",
                             Call(x[1], x[2], 0, todo \ {x}, vault[x].gen, token))
  <1>2. Turns
    <2>1. ASSUME NEW d \in Domains, NEW lead \in Leads, RotateStart(t, d, lead)
          PROVE  Turns
      BY <1>1, <2>1 DEF RotateStart, RotateNext, Return, Goto, RotatePc, MapKeys
    <2>2. ~UnInit(t)
      BY DEF UnInit, RotatePc
    <2>3. /\ ~ClearStart(t) /\ \A count \in DomainCounts : ~InitStart(t, count)
          /\ \A c \in ciphers : ~DecryptStart(t, c)
      <3>1. ~ClearStart(t)
        BY <1>1 DEF ClearStart, ClearNext, Return, Goto, RotatePc
      <3>2. ASSUME NEW count \in DomainCounts, InitStart(t, count) PROVE FALSE
        BY <1>1, <3>2 DEF InitStart, Goto, RotatePc
      <3>3. ASSUME NEW c \in ciphers, DecryptStart(t, c) PROVE FALSE
        BY <1>1, <3>3 DEF DecryptStart, Goto, RotatePc
      <3> QED BY <3>1, <3>2, <3>3
    <2>4. ASSUME NEW d \in Domains
          PROVE  /\ ~CreateStart(t, d) /\ ~EncryptStart(t, d)
                 /\ \A k \in KeyIds : ~RemoveStart(t, d, k)
      <3>1. ~CreateStart(t, d)
        BY <1>1 DEF CreateStart, Goto, RotatePc
      <3>2. ~EncryptStart(t, d)
        BY <1>1 DEF EncryptStart, Goto, RotatePc
      <3>3. ASSUME NEW k \in KeyIds, RemoveStart(t, d, k) PROVE FALSE
        BY <1>1, <3>3 DEF RemoveStart, Goto, RotatePc
      <3> QED BY <3>1, <3>2, <3>3
    <2>5. ASSUME NEW d \in Domains, LatestStart(t, d) PROVE FALSE
      <3>1. CASE UNCHANGED <<pc, arg>>
        BY <2>5, <3>1 DEF LatestStart, RotatePc
      <3>2. CASE pc' = [pc EXCEPT ![t] = "latestExport"]
        BY <3>2 DEF RotatePc, TypeOK, ThreadsOK
      <3> QED BY <2>5, <3>1, <3>2 DEF LatestStart, Goto
    <2> QED BY <2>1, <2>2, <2>3, <2>4, <2>5 DEF Begin
  <1>3. PICK todo \in SUBSET Keys, x \in Keys :
          Goto(t, "rotateDelete",
               Call(x[1], x[2], 0, todo \ {x}, vault[x].gen, token))
    BY <1>2
  <1>4. Here(t)' = x /\ arg'[t].todo = todo \ {x}
    BY <1>3, GotoMoves DEF Call, Here, Keys
  <1> QED BY <1>4 DEF OnceOnly

\* What another thread does gives a call no more to do.
LEMMA OthersAddNothing ==
  ASSUME TypeOK, MutexExclusive, NEW u \in Threads, StepOf(u),
         NEW t \in Threads, t # u
  PROVE  /\ CommandsLeft(t)' \subseteq CommandsLeft(t)
         /\ OnceOnly(t) => OnceOnly(t)'
  <1>1. /\ pc'[t] = pc[t] /\ Here(t)' = Here(t) /\ arg'[t].todo = arg[t].todo
    BY DEF StepOf
  <1>2. arg'[t].dom = arg[t].dom
    BY <1>1 DEF Here
  <1>3. pc[t] = "clearDelete" => MapKeys' \subseteq MapKeys
    BY DEF StepOf, MutexExclusive, ExclusivePc
  <1>4. StepsForOthers(t)' \subseteq StepsForOthers(t)
    <2>1. CASE pc[t] = "clearDelete"
      BY <1>1, <1>3, <2>1 DEF StepsForOthers
    <2>2. CASE pc[t] # "clearDelete"
      BY <1>1, <1>2, <2>2 DEF StepsForOthers
    <2> QED BY <2>1, <2>2
  <1>5. OnceOnly(t) => OnceOnly(t)'
    BY <1>1 DEF OnceOnly
  <1> QED BY <1>1, <1>4, <1>5 DEF CommandsLeft

\* What a step leaves of every call.
LEMMA NextFewer ==
  ASSUME KeyManagerAssumption, TypeOK, LockInv, LoopInv, [Next]_vars, NEW t \in Threads
  PROVE  /\ OnceOnly(t)'
         /\ pc[t] # "idle" => CommandsLeft(t)' \subseteq CommandsLeft(t)
  <1>1. CASE ProcessLost
    <2>1. pc'[t] = "idle"
      BY <1>1 DEF ProcessLost
    <2>2. CommandsLeft(t)' = {}
      BY <2>1 DEF CommandsLeft, StepsForKey, StepsForOthers, RotatePc
    <2> QED BY <2>1, <2>2 DEF OnceOnly, RotatePc
  <1>2. CASE Tick \/ UNCHANGED vars
    <2>1. /\ pc' = pc /\ arg' = arg /\ mapTime' = mapTime
      BY <1>2 DEF Tick, vars, mapVars
    <2> QED BY <2>1 DEF CommandsLeft, StepsForOthers, Here, MapKeys, OnceOnly, LoopInv
  <1>3. ASSUME NEW u \in Threads, u # t, Begin(u) \/ Proceed(u), ~ProcessLost
        PROVE  OnceOnly(t)' /\ CommandsLeft(t)' \subseteq CommandsLeft(t)
    <2>1. StepOf(u)
      BY <1>3, BeginStepOf, ProceedStepOf
    <2> QED BY <1>3, <2>1, OthersAddNothing DEF LockInv, LoopInv
  <1>4. ASSUME Begin(t) PROVE OnceOnly(t)' /\ pc[t] = "idle"
    <2>1. pc[t] = "idle"
      BY <1>4 DEF Begin, InitStart, UnInit, ClearStart, DecryptStart, CreateStart,
                  RemoveStart, RotateStart, EncryptStart, LatestStart
    <2>2. OnceOnly(t)'
      BY <1>4, BeginOnce DEF OnceOnly
    <2> QED BY <2>1, <2>2
  <1>5. ASSUME Proceed(t), ~ProcessLost
        PROVE  OnceOnly(t)' /\ CommandsLeft(t)' \subseteq CommandsLeft(t)
    BY <1>5, ProceedFewer DEF LeftStep, Fewer
  <1> QED BY <1>1, <1>2, <1>3, <1>4, <1>5 DEF Next, Crash

\* Even a call that ends with the process had a command to run.
LEMMA CommandsThere ==
  ASSUME TypeOK, NEW t \in Threads, Proceed(t)
  PROVE  CommandsLeft(t) # {}
  <1>1. CASE InitRead(t)
    <2>1. pc[t] = "initRead" /\ arg[t].todo # {}
      BY <1>1 DEF InitRead
    <2>2. PICK x \in arg[t].todo : TRUE
      BY <2>1
    <2>3. <<"initRead", x>> \in CommandsLeft(t)
      BY <2>1 DEF CommandsLeft, StepsForOthers
    <2> QED BY <2>3
  <1>2. CASE ClearStray(t)
    <2>1. pc[t] = "clearStray" /\ Here(t) \in Keys /\ Here(t)[1] = arg[t].dom
          /\ arg[t].dom \in Nat
      BY <1>2 DEF ClearStray, TypeOK, ThreadsOK, KeylessPc, CallType, Here
    <2>2. <<"clearStray", Here(t)>> \in CommandsLeft(t)
      BY <2>1 DEF CommandsLeft, StepsForOthers
    <2> QED BY <2>2
  <1>3. CASE pc[t] \in PcValues \ {"idle", "encryptUpgrade", "initRead", "clearStray"}
    <2>1. pc[t] \in StepsForKey(pc[t])
      BY <1>3 DEF StepsForKey, RotatePc
    <2>2. <<pc[t], Here(t)>> \in CommandsLeft(t)
      BY <2>1 DEF CommandsLeft
    <2> QED BY <2>2
  <1>4. \/ InitRead(t) \/ ClearStray(t)
        \/ pc[t] \in PcValues \ {"idle", "encryptUpgrade", "initRead", "clearStray"}
    BY DEF Proceed, InitList, CreateWrite, CreateConfig, CreateRead, RemoveDelete,
       ClearDelete, RotateDelete, RotateWrite, RotateConfig, WriteStep, ConfigStep,
       RotateRead, EncryptExport, DecryptExport, LatestExport, PcValues, ExclusivePc,
       SharedPc
  <1> QED BY <1>1, <1>2, <1>3, <1>4

\* Nothing that happens makes a call longer, and its own steps make it shorter:
\* however commands fail and threads interleave, Init visits no key twice,
\* AutoUpdate rotates none twice and DeleteAllKey, which goes on after a
\* failure with the iterator of another map, comes to its end.
THEOREM CallsAreBounded == Spec => CallsGetShorter
  <1> DEFINE Step == \A t \in Threads : pc[t] # "idle" =>
                       /\ CommandsLeft(t)' \subseteq CommandsLeft(t)
                       /\ Proceed(t) => CommandsLeft(t)' # CommandsLeft(t)
  <1>1. Init => LoopInv
    BY DEF Init, LoopInv, OnceOnly, RotatePc
  <1>2. TypeOK /\ LockInv /\ LoopInv /\ [Next]_vars => LoopInv'
    BY KeyManagerAssumption, NextFewer DEF LoopInv
  <1>3. TypeOK /\ LockInv /\ LoopInv /\ [Next]_vars => [Step]_vars
    <2> SUFFICES ASSUME TypeOK, LockInv, LoopInv, [Next]_vars, NEW t \in Threads,
                        pc[t] # "idle"
                 PROVE  /\ CommandsLeft(t)' \subseteq CommandsLeft(t)
                        /\ Proceed(t) => CommandsLeft(t)' # CommandsLeft(t)
      OBVIOUS
    <2>1. CommandsLeft(t)' \subseteq CommandsLeft(t)
      BY KeyManagerAssumption, NextFewer
    <2>2. ASSUME Proceed(t) PROVE CommandsLeft(t)' # CommandsLeft(t)
      <3>1. CASE LeftStep(t)
        BY <3>1 DEF LeftStep, Fewer
      <3>2. CASE ProcessLost
        <4>1. pc'[t] = "idle"
          BY <3>2 DEF ProcessLost
        <4>2. CommandsLeft(t)' = {}
          BY <4>1 DEF CommandsLeft, StepsForKey, StepsForOthers, RotatePc
        <4> QED BY <2>2, <4>2, CommandsThere
      <3> QED BY <2>2, <3>1, <3>2, ProceedFewer
    <2> QED BY <2>1, <2>2
  <1>4. Spec => [][Step]_vars
    BY <1>1, <1>2, <1>3, TypeCorrect, LockInvCorrect, PTL DEF Spec
  <1> QED BY <1>4 DEF CallsGetShorter
=============================================================================
