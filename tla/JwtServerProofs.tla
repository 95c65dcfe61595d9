--------------------------- MODULE JwtServerProofs ---------------------------
(***************************************************************************)
(* Theorems about JwtServer, for any servers, keys, lifetimes and bounds:  *)
(* the types hold, an accepted token's key is fresh and a refresh loses no *)
(* present key, whoever inits or uninits the key manager meanwhile.        *)
(***************************************************************************)
EXTENDS JwtServer, TLAPS

\* What one server's keys, and its call under way, have in common.
RingInv(s) ==
  /\ key[s].key # NoKey =>
       /\ lastSet[s][key[s].key] >= key[s].time
       /\ key[s].time <= now
  /\ oldKey[s].key # NoKey =>
       /\ lastSet[s][oldKey[s].key] >= oldKey[s].time
       /\ key[s].key # NoKey /\ oldKey[s].time <= key[s].time

Sets(s) ==
  /\ arg[s] \in Keys
  /\ key[s].key # NoKey => key[s].time <= began[s]
Reads(s, held) ==
  /\ arg[s] = held.key /\ held.key # NoKey
  /\ began[s] <= held.time + keyLife[s]
CallInv(s) ==
  /\ began[s] <= now
  /\ pc[s] \in {"set", "refresh"} => Sets(s)
  /\ pc[s] = "validate" => Reads(s, key[s])
  /\ pc[s] = "validate old" => Reads(s, oldKey[s])

Inv == TypeOK /\ \A s \in Servers : RingInv(s) /\ CallInv(s)

-----------------------------------------------------------------------------
(* Type correctness.                                                       *)

LEMMA EmptyOK == Empty \in Held
  BY DEF Empty, Held

LEMMA InitTypeOK == JwtServerAssumption /\ Init => TypeOK
  <1> SUFFICES ASSUME JwtServerAssumption, Init PROVE TypeOK
    OBVIOUS
  <1>1. header \in [Servers -> Header] /\ lastSet \in [Servers -> [Keys -> Lives]]
    BY DEF Init, Header, Lives
  <1>2. /\ started \in [Servers -> BOOLEAN] /\ mode \in [Servers -> Modes]
        /\ pc \in [Servers -> Calls]
    BY DEF Init, Modes, Calls
  <1> QED BY <1>1, <1>2, EmptyOK DEF JwtServerAssumption, Init, TypeOK

LEMMA CallTypeOK ==
  ASSUME TypeOK, NEW s \in Servers, NEW name \in Calls,
         NEW k \in Keys \cup {NoKey}, NEW signed \in Keys \cup {NoKey},
         Call(s, name, k, signed)
  PROVE  /\ pc' \in [Servers -> Calls] /\ began' \in [Servers -> Nat]
         /\ arg' \in [Servers -> Keys \cup {NoKey}]
         /\ signer' \in [Servers -> Keys \cup {NoKey}]
  BY DEF TypeOK, Call

LEMMA ReturnTypeOK ==
  ASSUME TypeOK, NEW s \in Servers, Return(s)
  PROVE  /\ pc' \in [Servers -> Calls] /\ began' \in [Servers -> Nat]
         /\ arg' \in [Servers -> Keys \cup {NoKey}]
         /\ signer' \in [Servers -> Keys \cup {NoKey}]
  BY DEF TypeOK, Return, Calls

LEMMA StartTypeOK ==
  ASSUME JwtServerAssumption, TypeOK, NEW s \in Servers, NEW m \in Modes,
         NEW life \in TokenLives, NEW hours \in KeyLives,
         Start(s, m, life, hours)
  PROVE  TypeOK'
  <1>1. header' \in [Servers -> Header] /\ mode' \in [Servers -> Modes]
    <2>1. [life |-> life, created |-> now] \in Header
      BY DEF JwtServerAssumption, TypeOK, Header, Lives
    <2> QED BY <2>1 DEF Start, TypeOK
  <1>2. KeyLife(hours) \in Nat
    BY DEF JwtServerAssumption, KeyLife
  <1>3. CASE NewKeyPass(s, hours) /\ km' = TRUE
    <2>1. /\ keyLife' \in [Servers -> Nat] /\ key' \in [Servers -> Held]
          /\ oldKey' \in [Servers -> Held]
      BY <1>2, <1>3, EmptyOK DEF NewKeyPass, TypeOK
    <2>2. lastSet' \in [Servers -> [Keys -> Lives]]
      BY <1>3 DEF NewKeyPass, TypeOK, Lives
    <2>3. started' \in [Servers -> BOOLEAN]
      BY DEF Start, TypeOK
    <2> QED BY <1>1, <1>3, <2>1, <2>2, <2>3 DEF Start, TypeOK, callVars
  <1>4. CASE UNCHANGED <<km, ringVars>>
    <2>1. started' \in [Servers -> BOOLEAN]
      BY DEF Start, TypeOK
    <2> QED BY <1>1, <1>4, <2>1 DEF Start, TypeOK, ringVars, callVars
  <1> QED BY <1>3, <1>4 DEF Start

LEMMA SetEndTypeOK ==
  ASSUME TypeOK, NEW s \in Servers, CallInv(s), SetEnd(s)
  PROVE  TypeOK'
  <1>1. arg[s] \in Keys /\ began[s] \in Nat
    BY DEF SetEnd, CallInv, Sets, TypeOK
  <1>2. key' \in [Servers -> Held]
    <2>1. [key |-> arg[s], time |-> began[s]] \in Held
      BY <1>1 DEF Held
    <2> QED BY <2>1 DEF SetEnd, TypeOK
  <1>3. lastSet' \in [Servers -> [Keys -> Lives]]
    <2>1. began[s] \in Lives
      BY <1>1 DEF Lives
    <2>2. CASE lastSet' = [lastSet EXCEPT ![s][arg[s]] = began[s]]
      BY <1>1, <2>1, <2>2 DEF TypeOK
    <2>3. CASE UNCHANGED lastSet
      BY <2>3 DEF TypeOK
    <2> QED BY <2>2, <2>3 DEF SetEnd
  <1> QED BY <1>2, <1>3, ReturnTypeOK DEF SetEnd, TypeOK

LEMMA StepTypeOK ==
  ASSUME JwtServerAssumption, Inv, [Next]_vars
  PROVE  TypeOK'
  <1> USE DEF Inv
  <1>1. CASE Tick
    BY <1>1 DEF Tick, TypeOK, serverVars, ringVars, callVars
  <1>2. CASE KmByOthers
    BY <1>2 DEF KmByOthers, TypeOK, serverVars, ringVars, callVars,
                JwtServerAssumption
  <1>3. ASSUME NEW s \in Servers, NEW m \in Modes, NEW life \in TokenLives,
               NEW hours \in KeyLives, Start(s, m, life, hours)
        PROVE  TypeOK'
    BY <1>3, StartTypeOK
  <1>4. ASSUME NEW s \in Servers, Stop(s)
        PROVE  TypeOK'
    <2>1. km' \in BOOLEAN
      BY <1>4 DEF Stop, TypeOK
    <2>2. started' \in [Servers -> BOOLEAN]
      BY <1>4 DEF Stop, TypeOK
    <2> QED BY <1>4, <2>1, <2>2 DEF Stop, TypeOK, ringVars, callVars
  <1>5. ASSUME NEW s \in Servers, NEW k \in Keys, Set(s, k)
        PROVE  TypeOK'
    BY <1>5, CallTypeOK DEF Set, TypeOK, serverVars, ringVars, Calls
  <1>6. ASSUME NEW s \in Servers, NEW k \in Keys, Refresh(s, k)
        PROVE  TypeOK'
    BY <1>6, CallTypeOK DEF Refresh, TypeOK, OldAfterRefresh, Calls
  <1>7. ASSUME NEW s \in Servers, SetEnd(s)
        PROVE  TypeOK'
    BY <1>7, SetEndTypeOK
  <1>8. ASSUME NEW s \in Servers, Create(s)
        PROVE  TypeOK'
    <2>1. key[s].key \in Keys \cup {NoKey}
      BY DEF TypeOK, Held
    <2> QED BY <1>8, <2>1, CallTypeOK
            DEF Create, TypeOK, serverVars, ringVars, Calls
  <1>9. ASSUME NEW s \in Servers, CreateEnd(s) \/ ValidateEnd(s)
        PROVE  TypeOK'
    BY <1>9, ReturnTypeOK
    DEF CreateEnd, ValidateEnd, TypeOK, serverVars, ringVars
  <1>10. ASSUME NEW s \in Servers, NEW t \in Tokens, Validate(s, t)
         PROVE  TypeOK'
    <2>1. key[s].key \in Keys \cup {NoKey} /\ t.key \in Keys \cup {NoKey}
      BY DEF TypeOK, Held, Tokens
    <2> QED BY <1>10, <2>1, CallTypeOK
            DEF Validate, TypeOK, serverVars, ringVars, Calls
  <1>11. ASSUME NEW s \in Servers, ValidateOld(s)
         PROVE  TypeOK'
    <2>1. oldKey[s].key \in Keys \cup {NoKey}
      BY DEF TypeOK, Held
    <2> QED BY <1>11, <2>1
            DEF ValidateOld, TypeOK, serverVars, ringVars, Calls
  <1>12. CASE UNCHANGED vars
    BY <1>12 DEF vars, TypeOK
  <1> QED BY <1>1, <1>2, <1>3, <1>4, <1>5, <1>6, <1>7, <1>8, <1>9, <1>10,
             <1>11, <1>12 DEF Next

-----------------------------------------------------------------------------
(* The rest of the invariant.                                              *)

\* What a step leaves of one server.
SameRing(s) ==
  /\ key'[s] = key[s] /\ oldKey'[s] = oldKey[s]
  /\ keyLife'[s] = keyLife[s] /\ lastSet'[s] = lastSet[s]
SameCall(s) == pc'[s] = pc[s] /\ began'[s] = began[s] /\ arg'[s] = arg[s]

LEMMA Untouched ==
  ASSUME TypeOK, now' \in Nat, now <= now', NEW s \in Servers,
         RingInv(s), CallInv(s), SameRing(s), SameCall(s)
  PROVE  RingInv(s)' /\ CallInv(s)'
  <1>1. /\ key[s].time \in Nat /\ now \in Nat /\ began[s] \in Nat
    BY DEF TypeOK, Held
  <1>2. RingInv(s)'
    BY <1>1 DEF RingInv, SameRing
  <1>3. /\ Sets(s) => Sets(s)'
        /\ Reads(s, key[s]) => Reads(s, key[s])'
        /\ Reads(s, oldKey[s]) => Reads(s, oldKey[s])'
    <2>1. Sets(s) => Sets(s)'
      BY DEF Sets, SameRing, SameCall
    <2>2. Reads(s, key[s]) => Reads(s, key[s])'
      BY DEF Reads, SameRing, SameCall
    <2>3. Reads(s, oldKey[s]) => Reads(s, oldKey[s])'
      BY DEF Reads, SameRing, SameCall
    <2> QED BY <2>1, <2>2, <2>3
  <1>4. began'[s] <= now'
    <2>1. began[s] <= now /\ began'[s] = began[s]
      BY DEF CallInv, SameCall
    <2> QED BY <1>1, <2>1
  <1>5. CallInv(s)'
    BY <1>3, <1>4 DEF CallInv, SameCall
  <1> QED BY <1>2, <1>5

LEMMA InitInv == JwtServerAssumption /\ Init => Inv
  <1> SUFFICES ASSUME JwtServerAssumption, Init PROVE Inv
    OBVIOUS
  <1>1. ASSUME NEW s \in Servers
        PROVE  RingInv(s) /\ CallInv(s)
    <2>1. key[s].key = NoKey /\ oldKey[s].key = NoKey /\ pc[s] = "idle"
      BY DEF Init, Empty
    <2>2. began[s] <= now
      BY DEF Init
    <2> QED BY <2>1, <2>2 DEF RingInv, CallInv
  <1> QED BY <1>1, InitTypeOK DEF Inv

\* A call that begins without touching the keys.
LEMMA BeginInv ==
  ASSUME Inv, NEW s \in Servers, NEW name, NEW k, NEW signed,
         Call(s, name, k, signed), UNCHANGED <<now, serverVars>>,
         name \in {"set", "create"} \/ name = "validate",
         name = "set" => k \in Keys,
         name = "validate" => /\ k = key[s].key /\ k # NoKey
                              /\ now <= key[s].time + keyLife[s]
  PROVE  \A t \in Servers : RingInv(t)' /\ CallInv(t)'
  <1>1. ASSUME NEW t \in Servers, t # s
        PROVE  RingInv(t)' /\ CallInv(t)'
    BY <1>1, Untouched
    DEF Inv, Call, SameRing, SameCall, serverVars, ringVars, TypeOK
  <1>2. RingInv(s)'
    BY DEF Inv, RingInv, serverVars, ringVars
  <1>3. /\ pc'[s] = name /\ began'[s] = now /\ arg'[s] = k
        /\ key'[s] = key[s] /\ keyLife'[s] = keyLife[s] /\ now' = now
        /\ now \in Nat
    BY DEF Inv, TypeOK, Call, serverVars, ringVars
  <1>4. name = "set" => Sets(s)'
    BY <1>3 DEF Inv, RingInv, Sets
  <1>5. name = "validate" => Reads(s, key[s])'
    <2>1. name = "validate" => /\ arg'[s] = key'[s].key /\ key'[s].key # NoKey
                               /\ began'[s] <= key'[s].time + keyLife'[s]
      BY <1>3
    <2> QED BY <2>1 DEF Reads
  <1>6. began'[s] <= now'
    BY <1>3
  <1>7. CallInv(s)'
    BY <1>3, <1>4, <1>5, <1>6 DEF CallInv
  <1> QED BY <1>1, <1>2, <1>7

LEMMA RefreshInv ==
  ASSUME Inv, NEW s \in Servers, NEW k \in Keys, Refresh(s, k)
  PROVE  \A t \in Servers : RingInv(t)' /\ CallInv(t)'
  <1>1. ASSUME NEW t \in Servers, t # s
        PROVE  RingInv(t)' /\ CallInv(t)'
    BY <1>1, Untouched DEF Inv, Refresh, Call, SameRing, SameCall, TypeOK
  <1>2. /\ oldKey'[s] = key[s] /\ key' = key /\ lastSet' = lastSet
        /\ key[s].key # NoKey /\ key[s].time \in Nat /\ now' = now
        /\ pc'[s] = "refresh" /\ began'[s] = now /\ arg'[s] = k /\ now \in Nat
    BY DEF Inv, TypeOK, Refresh, OldAfterRefresh, Call, Held
  <1>3. RingInv(s)'
    BY <1>2 DEF Inv, RingInv
  <1>4. Sets(s)'
    BY <1>2 DEF Inv, RingInv, Sets
  <1>5. CallInv(s)'
    BY <1>2, <1>4 DEF CallInv
  <1> QED BY <1>1, <1>3, <1>5

\* A call that returns without touching the keys.
LEMMA ReturnInv ==
  ASSUME Inv, NEW s \in Servers, Return(s), UNCHANGED <<now, serverVars>>
  PROVE  \A t \in Servers : RingInv(t)' /\ CallInv(t)'
  <1>1. ASSUME NEW t \in Servers, t # s
        PROVE  RingInv(t)' /\ CallInv(t)'
    BY <1>1, Untouched
    DEF Inv, Return, SameRing, SameCall, serverVars, ringVars, TypeOK
  <1>2. RingInv(s)'
    BY DEF Inv, RingInv, serverVars, ringVars
  <1>3. pc'[s] = "idle" /\ began'[s] = 0 /\ now' \in Nat
    BY DEF Inv, Return, TypeOK
  <1>4. CallInv(s)'
    BY <1>3 DEF CallInv
  <1> QED BY <1>1, <1>2, <1>4

LEMMA SetEndInv ==
  ASSUME JwtServerAssumption, Inv, NEW s \in Servers, SetEnd(s)
  PROVE  \A t \in Servers : RingInv(t)' /\ CallInv(t)'
  <1>1. CASE UNCHANGED <<key, lastSet>>
    BY <1>1, ReturnInv DEF SetEnd, serverVars, ringVars
  <1>2. CASE /\ key' = [key EXCEPT ![s] = [key |-> arg[s], time |-> began[s]]]
             /\ lastSet' = [lastSet EXCEPT ![s][arg[s]] = began[s]]
    <2>1. ASSUME NEW t \in Servers, t # s
          PROVE  RingInv(t)' /\ CallInv(t)'
      BY <1>2, <2>1, Untouched DEF Inv, SetEnd, Return, SameRing, SameCall, TypeOK
    <2>2. /\ arg[s] \in Keys /\ began[s] \in Nat /\ began[s] <= now
          /\ now \in Nat /\ now' = now /\ oldKey' = oldKey
          /\ key[s].key # NoKey => key[s].time <= began[s]
      BY DEF Inv, CallInv, Sets, SetEnd, TypeOK
    <2>3. /\ key'[s] = [key |-> arg[s], time |-> began[s]]
          /\ lastSet'[s] = [lastSet[s] EXCEPT ![arg[s]] = began[s]]
          /\ lastSet[s] \in [Keys -> Lives]
      BY <1>2 DEF Inv, TypeOK
    <2>4. oldKey[s].key \in Keys \cup {NoKey} /\ oldKey[s].time \in Nat
          /\ key[s].time \in Nat
      BY DEF Inv, TypeOK, Held
    <2>5. ASSUME oldKey[s].key # NoKey
          PROVE  /\ lastSet'[s][oldKey[s].key] >= oldKey[s].time
                 /\ oldKey[s].time <= began[s]
      <3>1. /\ lastSet[s][oldKey[s].key] >= oldKey[s].time
            /\ key[s].key # NoKey /\ oldKey[s].time <= key[s].time
        BY <2>5 DEF Inv, RingInv
      <3>2. oldKey[s].time <= began[s]
        BY <2>2, <2>4, <3>1
      <3>3. CASE oldKey[s].key = arg[s]
        BY <2>2, <2>3, <3>2, <3>3
      <3>4. CASE oldKey[s].key # arg[s]
        <4>1. oldKey[s].key \in Keys
          BY <2>4, <2>5
        <4>2. lastSet'[s][oldKey[s].key] = lastSet[s][oldKey[s].key]
          BY <2>3, <3>4, <4>1
        <4> QED BY <3>1, <3>2, <4>2
      <3> QED BY <3>2, <3>3, <3>4
    <2>6. RingInv(s)'
      BY <2>2, <2>3, <2>5 DEF RingInv, JwtServerAssumption
    <2>7. pc'[s] = "idle" /\ began'[s] = 0
      BY DEF SetEnd, Return, Inv, TypeOK
    <2>8. CallInv(s)'
      BY <2>2, <2>7 DEF CallInv
    <2> QED BY <2>1, <2>6, <2>8
  <1> QED BY <1>1, <1>2 DEF SetEnd

LEMMA StartInv ==
  ASSUME Inv, NEW s \in Servers, NEW m, NEW life, NEW hours,
         Start(s, m, life, hours)
  PROVE  \A t \in Servers : RingInv(t)' /\ CallInv(t)'
  <1>1. CASE UNCHANGED ringVars
    BY <1>1, Untouched
    DEF Inv, Start, SameRing, SameCall, ringVars, callVars, TypeOK
  <1>2. CASE NewKeyPass(s, hours)
    <2>1. ASSUME NEW t \in Servers, t # s
          PROVE  RingInv(t)' /\ CallInv(t)'
      BY <1>2, <2>1, Untouched
      DEF Inv, Start, NewKeyPass, SameRing, SameCall, callVars, TypeOK
    <2>2. key'[s] = Empty /\ oldKey'[s] = Empty
      BY <1>2 DEF NewKeyPass, Inv, TypeOK
    <2>3. RingInv(s)'
      BY <2>2 DEF RingInv, Empty
    <2>4. pc'[s] = "idle" /\ began'[s] <= now'
      BY DEF Start, callVars, Inv, CallInv
    <2>5. CallInv(s)'
      BY <2>4 DEF CallInv
    <2> QED BY <2>1, <2>3, <2>5
  <1> QED BY <1>1, <1>2 DEF Start

LEMMA ValidateInv ==
  ASSUME Inv, NEW s \in Servers, NEW t \in Tokens, Validate(s, t)
  PROVE  \A u \in Servers : RingInv(u)' /\ CallInv(u)'
  <1>1. /\ key[s].time \in Nat /\ oldKey[s].time \in Nat /\ keyLife[s] \in Nat
        /\ now \in Nat
    BY DEF Inv, TypeOK, Held
  <1>2. now <= key[s].time + keyLife[s]
    <2>1. CASE Usable(s, key[s])
      BY <1>1, <2>1 DEF Usable, Expired
    <2>2. CASE Usable(s, oldKey[s])
      <3>1. oldKey[s].time <= key[s].time
        BY <2>2 DEF Usable, Inv, RingInv
      <3> QED BY <1>1, <2>2, <3>1 DEF Usable, Expired
    <2> QED BY <2>1, <2>2 DEF Validate
  <1> QED BY <1>2, BeginInv DEF Validate

LEMMA ValidateOldInv ==
  ASSUME Inv, NEW s \in Servers, ValidateOld(s)
  PROVE  \A u \in Servers : RingInv(u)' /\ CallInv(u)'
  <1>1. ASSUME NEW t \in Servers, t # s
        PROVE  RingInv(t)' /\ CallInv(t)'
    <2>1. SameRing(t) /\ now' = now /\ now \in Nat
      BY DEF ValidateOld, SameRing, serverVars, ringVars, Inv, TypeOK
    <2>2. SameCall(t)
      BY <1>1 DEF ValidateOld, SameCall, Inv, TypeOK
    <2> QED BY <2>1, <2>2, Untouched DEF Inv
  <1>2. RingInv(s)'
    BY DEF Inv, ValidateOld, RingInv, serverVars, ringVars
  <1>3. /\ oldKey[s].time \in Nat /\ keyLife[s] \in Nat /\ began[s] \in Nat
        /\ now \in Nat /\ began[s] <= now
    BY DEF Inv, TypeOK, Held, CallInv
  <1>4. oldKey[s].key # NoKey /\ now <= oldKey[s].time + keyLife[s]
    <2>1. oldKey[s].key # NoKey /\ ~(oldKey[s].time + keyLife[s] < now)
      BY DEF ValidateOld, OldIsTried, Usable, Expired
    <2> QED BY <1>3, <2>1
  <1>5. /\ pc'[s] = "validate old" /\ arg'[s] = oldKey[s].key
        /\ began' = began /\ oldKey' = oldKey /\ keyLife' = keyLife /\ now' = now
    BY DEF ValidateOld, serverVars, ringVars, Inv, TypeOK
  <1>6. began[s] <= oldKey[s].time + keyLife[s]
    BY <1>3, <1>4
  <1>7. Reads(s, oldKey[s])'
    BY <1>4, <1>5, <1>6 DEF Reads
  <1>8. CallInv(s)'
    BY <1>3, <1>5, <1>7 DEF CallInv
  <1> QED BY <1>1, <1>2, <1>8

LEMMA StepInv ==
  ASSUME JwtServerAssumption, Inv, [Next]_vars
  PROVE  Inv'
  <1>0. TypeOK'
    BY StepTypeOK
  <1> SUFFICES \A t \in Servers : RingInv(t)' /\ CallInv(t)'
    BY <1>0 DEF Inv
  <1>1. CASE Tick
    BY <1>1, Untouched
    DEF Inv, Tick, SameRing, SameCall, serverVars, ringVars, callVars, TypeOK
  <1>2. CASE KmByOthers
    BY <1>2, Untouched
    DEF Inv, KmByOthers, SameRing, SameCall, serverVars, ringVars, callVars,
        TypeOK
  <1>3. ASSUME NEW s \in Servers, NEW m, NEW life, NEW hours,
               Start(s, m, life, hours)
        PROVE  \A t \in Servers : RingInv(t)' /\ CallInv(t)'
    BY <1>3, StartInv
  <1>4. ASSUME NEW s \in Servers, Stop(s)
        PROVE  \A t \in Servers : RingInv(t)' /\ CallInv(t)'
    BY <1>4, Untouched
    DEF Inv, Stop, SameRing, SameCall, ringVars, callVars, TypeOK
  <1>5. ASSUME NEW s \in Servers, NEW k \in Keys, Set(s, k)
        PROVE  \A t \in Servers : RingInv(t)' /\ CallInv(t)'
    BY <1>5, BeginInv DEF Set
  <1>6. ASSUME NEW s \in Servers, NEW k \in Keys, Refresh(s, k)
        PROVE  \A t \in Servers : RingInv(t)' /\ CallInv(t)'
    BY <1>6, RefreshInv
  <1>7. ASSUME NEW s \in Servers, SetEnd(s)
        PROVE  \A t \in Servers : RingInv(t)' /\ CallInv(t)'
    BY <1>7, SetEndInv
  <1>8. ASSUME NEW s \in Servers, Create(s)
        PROVE  \A t \in Servers : RingInv(t)' /\ CallInv(t)'
    BY <1>8, BeginInv DEF Create
  <1>9. ASSUME NEW s \in Servers, CreateEnd(s) \/ ValidateEnd(s)
        PROVE  \A t \in Servers : RingInv(t)' /\ CallInv(t)'
    BY <1>9, ReturnInv DEF CreateEnd, ValidateEnd
  <1>10. ASSUME NEW s \in Servers, NEW t \in Tokens, Validate(s, t)
         PROVE  \A u \in Servers : RingInv(u)' /\ CallInv(u)'
    BY <1>10, ValidateInv
  <1>11. ASSUME NEW s \in Servers, ValidateOld(s)
         PROVE  \A t \in Servers : RingInv(t)' /\ CallInv(t)'
    BY <1>11, ValidateOldInv
  <1>12. CASE UNCHANGED vars
    BY <1>12, Untouched DEF vars, Inv, SameRing, SameCall, TypeOK
  <1> QED BY <1>1, <1>2, <1>3, <1>4, <1>5, <1>6, <1>7, <1>8, <1>9, <1>10,
             <1>11, <1>12 DEF Next

\* The old key is no younger than the present one, a key was set no earlier
\* than the server thinks, and a validation reads a key that had not expired
\* when it began.
THEOREM InvHolds == Spec => []Inv
  <1>1. Init => Inv
    BY InitInv, JwtServerAssumption
  <1>2. Inv /\ [Next]_vars => Inv'
    BY StepInv, JwtServerAssumption
  <1> QED BY <1>1, <1>2, PTL DEF Spec

\* The types of every reachable state.
THEOREM TypeCorrect == Spec => []TypeOK
  BY InvHolds, PTL DEF Inv

\* An internal server accepts only tokens whose key was set since it started
\* and no longer than the key's lifetime before the call: although it does
\* not look whether the present key has expired when the old one has not.
THEOREM AcceptsFreshKeys == Spec => []AcceptedKeyIsFresh
  <1>1. Inv => AcceptedKeyIsFresh
    <2> SUFFICES ASSUME Inv, NEW s \in Servers, Accepts(s)
                 PROVE  /\ lastSet[s][signer[s]] # -1
                        /\ began[s] - lastSet[s][signer[s]] <= keyLife[s]
      BY DEF AcceptedKeyIsFresh
    <2>1. PICK held \in {key[s], oldKey[s]} :
            /\ arg[s] = held.key /\ held.key # NoKey
            /\ began[s] <= held.time + keyLife[s]
      BY DEF Accepts, Inv, CallInv, Reads
    <2>2. /\ held.key \in Keys /\ held.time \in Nat
          /\ lastSet[s][held.key] >= held.time
      BY <2>1 DEF Inv, RingInv, TypeOK, Held
    <2>3. /\ began[s] \in Nat /\ keyLife[s] \in Nat
          /\ lastSet[s][held.key] \in Lives
      BY <2>2 DEF Inv, TypeOK
    <2>4. signer[s] = held.key
      BY <2>1 DEF Accepts
    <2> QED BY <2>1, <2>2, <2>3, <2>4 DEF Lives
  <1> QED BY <1>1, InvHolds, PTL

-----------------------------------------------------------------------------
(* Refreshing.                                                             *)

\* RefreshKey has put the present key into the old one's place before it asks
\* the key manager for anything.
CopyInv == \A s \in Servers : pc[s] = "refresh" => oldKey[s] = key[s]

LEMMA StepCopyInv ==
  ASSUME TypeOK, CopyInv, [Next]_vars
  PROVE  /\ CopyInv'
         /\ \A s \in Servers : \/ key[s].key \in {key'[s].key, oldKey'[s].key}
                               \/ pc[s] = "set" \/ ~started[s]
  <1> USE DEF CopyInv, TypeOK
  <1> DEFINE Goal ==
        /\ CopyInv'
        /\ \A s \in Servers : \/ key[s].key \in {key'[s].key, oldKey'[s].key}
                              \/ pc[s] = "set" \/ ~started[s]
  <1>1. ASSUME UNCHANGED <<key, oldKey>>,
               \A s \in Servers : pc'[s] = "refresh" => pc[s] = "refresh"
        PROVE  Goal
    BY <1>1
  <1>2. CASE Tick \/ KmByOthers \/ UNCHANGED vars
    BY <1>1, <1>2 DEF Tick, KmByOthers, serverVars, ringVars, callVars, vars
  <1>3. ASSUME NEW s \in Servers, NEW m, NEW life, NEW hours,
               Start(s, m, life, hours)
        PROVE  Goal
    BY <1>3 DEF Start, NewKeyPass, ringVars, callVars
  <1>4. ASSUME NEW s \in Servers, Stop(s) PROVE Goal
    BY <1>1, <1>4 DEF Stop, ringVars, callVars
  <1>5. ASSUME NEW s \in Servers, NEW k \in Keys, Set(s, k) PROVE Goal
    BY <1>1, <1>5 DEF Set, Call, serverVars, ringVars
  <1>6. ASSUME NEW s \in Servers, NEW k \in Keys, Refresh(s, k) PROVE Goal
    BY <1>6 DEF Refresh, Call, OldAfterRefresh
  <1>7. ASSUME NEW s \in Servers, SetEnd(s) PROVE Goal
    BY <1>7 DEF SetEnd, Return
  <1>8. ASSUME NEW s \in Servers, Create(s) \/ CreateEnd(s) PROVE Goal
    BY <1>1, <1>8 DEF Create, CreateEnd, Call, Return, serverVars, ringVars
  <1>9. ASSUME NEW s \in Servers, NEW t, Validate(s, t) PROVE Goal
    BY <1>1, <1>9 DEF Validate, Call, serverVars, ringVars
  <1>10. ASSUME NEW s \in Servers, ValidateOld(s) \/ ValidateEnd(s) PROVE Goal
    BY <1>1, <1>10 DEF ValidateOld, ValidateEnd, Return, serverVars, ringVars
  <1> HIDE DEF CopyInv, TypeOK
  <1> QED BY <1>2, <1>3, <1>4, <1>5, <1>6, <1>7, <1>8, <1>9, <1>10 DEF Next

\* A refresh that fails leaves the present key in both places, one that
\* succeeds moves it to the old one: no token signed with it is refused for it.
THEOREM KeepsPresentKey == Spec => PresentKeyIsKept
  <1>1. Init => CopyInv
    BY DEF Init, CopyInv
  <1>2. TypeOK /\ CopyInv /\ [Next]_vars =>
          /\ CopyInv'
          /\ [\A s \in Servers :
                key[s].key \in {key'[s].key, oldKey'[s].key}
                  \/ pc[s] = "set" \/ ~started[s]]_vars
    BY StepCopyInv
  <1> QED BY <1>1, <1>2, TypeCorrect, PTL DEF Spec, PresentKeyIsKept
=============================================================================
