----------------------------- MODULE RandProofs -----------------------------
(***************************************************************************)
(* Theorems about Rand, for any threads, configurations and bounds: the    *)
(* types, what GetRand draws from, the providers of the chain, that        *)
(* neither a configuration nor a context in use is taken away, and that    *)
(* calls end as far as that is a matter of safety.                         *)
(***************************************************************************)
EXTENDS Rand, TLAPS

InitMutexPlaces ==
  {"build", "failed", "get rand", "generate", "deinit rand", "deinit end"}
RandMutexPlaces == {"generate", "health ctx", "health read"}

\* A mutex is held in certain places, and nowhere else.
MutexInv ==
  \A t \in Threads :
    /\ initMutex = t <=> pc[t] \in InitMutexPlaces
    /\ randMutex = t <=> pc[t] \in RandMutexPlaces

\* The chain is there when the module is initialised, but for the end of
\* RandDeinit, and otherwise only while it is built.
ChainInv ==
  /\ \A t \in Threads :
       /\ pc[t] = "build" => ~initialized /\ Needed(arg[t]) \subseteq providers
       /\ pc[t] = "failed" => ~initialized /\ chain = 0
       /\ pc[t] = "generate" => initialized /\ chain = Ready
       /\ pc[t] = "deinit end" => chain = 0
  /\ initialized => \/ chain = Ready /\ Needed(active) \subseteq providers
                    \/ chain = 0 /\ \E t \in Threads : pc[t] = "deinit end"
  /\ ~initialized => chain = 0 \/ \E t \in Threads : pc[t] = "build"

Pwds == {"none", "one type", "many types"}
LocalTypeOK ==
  /\ call \in [Threads -> Calls] /\ pc \in [Threads -> Places]
  /\ arg \in [Threads -> Config]
  /\ attempt \in [Threads -> 0..MaxAttempts - 1]
  /\ retry \in [Threads -> 0..MaxRetries - 1]
  /\ pwd \in [Threads -> Pwds]

\* Only within GetSecurePwd is a buffer weak.
CallInv ==
  \A t \in Threads :
    /\ call[t] # "GetSecurePwd" => pwd[t] # "one type"
    /\ pc[t] = "idle" => call[t] = "none"
    /\ pc[t] \in {"deinit", "deinit rand", "deinit end"} => call[t] = "RandDeinit"
    /\ pc[t] \in {"health", "health ctx", "health read"}
         => call[t] = "GetRandHealthStatus"

LocalInv == LocalTypeOK /\ CallInv
Inv == TypeOK /\ MutexInv /\ ChainInv /\ CallInv

-----------------------------------------------------------------------------
(* How calls end: where that leaves the thread.                            *)

LEMMA Bounds ==
  /\ MaxAttempts \in Nat /\ 0 \in 0..(MaxAttempts - 1)
  /\ MaxRetries \in Nat /\ 0 \in 0..(MaxRetries - 1)
  <1>1. MaxAttempts \in Nat \ {0} /\ MaxRetries \in Nat \ {0}
    BY RandAssumption DEF RandAssumption
  <1>2. 0 \in 0..(MaxAttempts - 1)
    BY <1>1
  <1>3. 0 \in 0..(MaxRetries - 1)
    BY <1>1
  <1> QED BY <1>1, <1>2, <1>3

LEMMA NextInRange ==
  ASSUME NEW n \in Nat, NEW i \in 0..(n - 1), i + 1 < n
  PROVE  i + 1 \in 0..(n - 1)
  OBVIOUS

LEMMA ReturnLocal ==
  ASSUME LocalInv, NEW t \in Threads,
         NEW p \in {"none", "many types"}, Return(t, p), UNCHANGED arg
  PROVE  LocalInv' /\ Goto(t, "idle")
  <1>1. 0 \in 0..MaxAttempts - 1 /\ 0 \in 0..MaxRetries - 1
    BY Bounds
  <1>2. LocalTypeOK'
    BY <1>1 DEF LocalInv, LocalTypeOK, Return, Goto, Calls, Places, Pwds
  <1>3. CallInv'
    BY DEF LocalInv, LocalTypeOK, CallInv, Return, Goto
  <1> QED BY <1>2, <1>3 DEF LocalInv, Return

LEMMA NextRetryLocal ==
  ASSUME LocalInv, NEW t \in Threads, NEW p \in Pwds,
         call[t] = "GetSecurePwd", NextRetry(t, p), UNCHANGED arg
  PROVE  LocalInv' /\ UNCHANGED arg /\ \E q \in {"idle", "ensure"} : Goto(t, q)
  <1>1. CASE Return(t, BufferAfterFailure(t))
    BY <1>1, ReturnLocal DEF BufferAfterFailure
  <1>2. CASE ~Return(t, BufferAfterFailure(t))
    <2>1. /\ retry[t] + 1 < MaxRetries /\ retry' = [retry EXCEPT ![t] = @ + 1]
          /\ attempt' = [attempt EXCEPT ![t] = 0] /\ pwd' = [pwd EXCEPT ![t] = p]
          /\ Goto(t, "ensure") /\ UNCHANGED call
      BY <1>2 DEF NextRetry
    <2>2. 0 \in 0..MaxAttempts - 1 /\ retry[t] + 1 \in 0..MaxRetries - 1
      BY <2>1, Bounds DEF LocalInv, LocalTypeOK
    <2>3. LocalTypeOK'
      BY <2>1, <2>2 DEF LocalInv, LocalTypeOK, Goto, Places
    <2>4. CallInv'
      BY <2>1 DEF LocalInv, LocalTypeOK, CallInv, Goto
    <2> QED BY <2>1, <2>3, <2>4 DEF LocalInv
  <1> QED BY <1>1, <1>2

LEMMA GetReturnsLocal ==
  ASSUME LocalInv, NEW t \in Threads, NEW ok \in BOOLEAN,
         GetReturns(t, ok)
  PROVE  LocalInv' /\ UNCHANGED arg /\ \E q \in {"idle", "ensure"} : Goto(t, q)
  <1>1. UNCHANGED arg /\ pwd[t] \in Pwds
    BY DEF GetReturns, LocalInv, LocalTypeOK
  <1>2. CASE call[t] = "GetRand" /\ Return(t, pwd[t])
    <2>1. pwd[t] \in {"none", "many types"}
      BY <1>1, <1>2 DEF LocalInv, CallInv, Pwds
    <2> QED BY <1>1, <1>2, <2>1, ReturnLocal
  <1>3. CASE call[t] = "GetSecurePwd" /\ NextRetry(t, pwd[t])
    BY <1>1, <1>3, NextRetryLocal
  <1>4. CASE call[t] = "GetSecurePwd" /\ Return(t, "many types")
    BY <1>1, <1>4, ReturnLocal
  <1>5. CASE call[t] = "GetSecurePwd" /\ NextRetry(t, "one type")
    BY <1>1, <1>5, NextRetryLocal DEF Pwds
  <1> QED BY <1>2, <1>3, <1>4, <1>5 DEF GetReturns, ManyTypes

LEMMA NextAttemptLocal ==
  ASSUME LocalInv, NEW t \in Threads, NextAttempt(t),
         pc[t] \in {"init", "build", "failed", "get rand"}
  PROVE  LocalInv' /\ UNCHANGED arg /\ \E q \in {"idle", "ensure"} : Goto(t, q)
  <1>1. CASE GetReturns(t, FALSE)
    BY <1>1, GetReturnsLocal
  <1>2. CASE ~GetReturns(t, FALSE)
    <2>1. /\ attempt[t] + 1 < MaxAttempts
          /\ attempt' = [attempt EXCEPT ![t] = @ + 1]
          /\ Goto(t, "ensure") /\ UNCHANGED <<call, arg, retry, pwd>>
      BY <1>2 DEF NextAttempt, AttemptLeft
    <2>2. attempt[t] + 1 \in 0..MaxAttempts - 1
      <3>1. attempt[t] \in 0..MaxAttempts - 1
        BY DEF LocalInv, LocalTypeOK
      <3>2. attempt[t] + 1 < MaxAttempts
        BY <2>1
      <3> QED BY <3>1, <3>2, Bounds, NextInRange
    <2>3. LocalTypeOK'
      BY <2>1, <2>2 DEF LocalInv, LocalTypeOK, Goto, Places
    <2>4. CallInv'
      BY <2>1 DEF LocalInv, LocalTypeOK, CallInv, Goto
    <2> QED BY <2>1, <2>3, <2>4 DEF LocalInv
  <1> QED BY <1>1, <1>2

LEMMA InitReturnsLocal ==
  ASSUME LocalInv, NEW t \in Threads, NEW ok \in BOOLEAN,
         InitReturns(t, ok), pc[t] \in {"init", "build", "failed"}
  PROVE  LocalInv' /\ UNCHANGED arg /\ \E q \in {"idle", "ensure", "get"} : Goto(t, q)
  <1>1. CASE call[t] = "RandInit" /\ Return(t, pwd[t]) /\ UNCHANGED arg
    <2>1. pwd[t] \in {"none", "many types"}
      BY <1>1 DEF LocalInv, LocalTypeOK, CallInv, Pwds
    <2> QED BY <1>1, <2>1, ReturnLocal
  <1>2. CASE Goto(t, "get") /\ UNCHANGED <<call, arg, attempt, retry, pwd>>
    BY <1>2 DEF LocalInv, LocalTypeOK, CallInv, Goto, Places
  <1>3. CASE NextAttempt(t)
    BY <1>3, NextAttemptLocal
  <1> QED BY <1>1, <1>2, <1>3 DEF InitReturns

-----------------------------------------------------------------------------
(* Every action keeps what is said of the threads.                         *)

LEMMA LocalStep ==
  ASSUME Inv, [Next]_vars
  PROVE  LocalInv'
  <1>1. LocalInv
    BY DEF Inv, TypeOK, LocalInv, LocalTypeOK, Pwds
  <1>2. CASE UNCHANGED vars
    BY <1>1, <1>2 DEF vars, LocalInv, LocalTypeOK, CallInv
  <1>3. CASE Next
    <2>1. PICK t \in Threads : Call(t) \/ Step(t)
      BY <1>3 DEF Next
    <2>2. ASSUME NEW c \in Configs, RandInit(t, c) PROVE LocalInv'
      BY <1>1, <2>2, RandAssumption DEF RandInit, Begin, Goto, LocalInv,
                        LocalTypeOK, CallInv, Calls, Places
    <2>3. CASE GetRand(t)
      BY <1>1, <2>3 DEF GetRand, Begin, Goto, LocalInv, LocalTypeOK, CallInv,
                        Calls, Places
    <2>4. CASE GetSecurePwd(t)
      BY <1>1, <2>4 DEF GetSecurePwd, Begin, Goto, LocalInv, LocalTypeOK,
                        CallInv, Calls, Places, Pwds
    <2>5. CASE RandDeinit(t)
      BY <1>1, <2>5 DEF RandDeinit, Begin, Goto, LocalInv, LocalTypeOK,
                        CallInv, Calls, Places
    <2>6. CASE GetRandHealthStatus(t)
      BY <1>1, <2>6 DEF GetRandHealthStatus, Begin, Goto, LocalInv,
                        LocalTypeOK, CallInv, Calls, Places
    <2>7. CASE InitLock(t)
      <3>1. CASE \E ok \in BOOLEAN : InitReturns(t, ok)
        BY <1>1, <2>7, <3>1, InitReturnsLocal DEF InitLock
      <3>2. CASE Goto(t, "build") /\ UNCHANGED <<call, arg, attempt, retry, pwd>>
        BY <1>1, <3>2 DEF Goto, LocalInv, LocalTypeOK, CallInv, Places
      <3> QED BY <2>7, <3>1, <3>2 DEF InitLock
    <2>8. CASE InitBuild(t)
      BY <1>1, <2>8 DEF InitBuild, localVars, LocalInv, LocalTypeOK, CallInv
    <2>9. CASE InitFail(t)
      BY <1>1, <2>9 DEF InitFail, Goto, LocalInv, LocalTypeOK, CallInv, Places
    <2>10. CASE InitFailEnd(t) \/ InitEnd(t)
      BY <1>1, <2>10, InitReturnsLocal DEF InitFailEnd, InitEnd
    <2>11. CASE EnsureRandReady(t)
      <3>1. Default \in Config
        BY DEF Default, Config
      <3>2. LocalTypeOK'
        BY <1>1, <2>11, <3>1 DEF EnsureRandReady, Goto, LocalInv, LocalTypeOK, Places
      <3>3. CallInv'
        BY <1>1, <2>11 DEF EnsureRandReady, Goto, LocalInv, LocalTypeOK, CallInv
      <3> QED BY <3>2, <3>3 DEF LocalInv
    <2>12. CASE GetLock(t)
      BY <1>1, <2>12 DEF GetLock, Goto, LocalInv, LocalTypeOK, CallInv, Places
    <2>13. CASE GetRandLock(t)
      <3>1. CASE NextAttempt(t)
        BY <1>1, <2>13, <3>1, NextAttemptLocal DEF GetRandLock
      <3>2. CASE Goto(t, "generate") /\ UNCHANGED <<call, arg, attempt, retry, pwd>>
        BY <1>1, <3>2 DEF Goto, LocalInv, LocalTypeOK, CallInv, Places
      <3> QED BY <2>13, <3>1, <3>2 DEF GetRandLock
    <2>14. CASE Generate(t)
      BY <1>1, <2>14, GetReturnsLocal DEF Generate
    <2>15. CASE DeinitLock(t)
      BY <1>1, <2>15 DEF DeinitLock, Goto, LocalInv, LocalTypeOK, CallInv, Places
    <2>16. CASE DeinitChain(t)
      BY <1>1, <2>16 DEF DeinitChain, Goto, LocalInv, LocalTypeOK, CallInv, Places
    <2>17. ASSUME call[t] # "GetSecurePwd", Return(t, pwd[t]), UNCHANGED arg
           PROVE  LocalInv'
      <3>1. pwd[t] \in {"none", "many types"}
        BY <1>1, <2>17 DEF LocalInv, LocalTypeOK, CallInv, Pwds
      <3> QED BY <1>1, <2>17, <3>1, ReturnLocal
    <2>18. CASE DeinitEnd(t)
      BY <1>1, <2>17, <2>18 DEF DeinitEnd, LocalInv, CallInv
    <2>19. CASE HealthLock(t)
      <3>1. CASE Return(t, pwd[t]) /\ UNCHANGED arg
        BY <1>1, <2>17, <2>19, <3>1 DEF HealthLock, LocalInv, CallInv
      <3>2. CASE Goto(t, "health ctx") /\ UNCHANGED <<call, arg, attempt, retry, pwd>>
        BY <1>1, <2>19, <3>2 DEF HealthLock, Goto, LocalInv, LocalTypeOK,
                                 CallInv, Places
      <3> QED BY <2>19, <3>1, <3>2 DEF HealthLock
    <2>20. CASE HealthCtx(t)
      <3>1. CASE Return(t, pwd[t]) /\ UNCHANGED arg
        BY <1>1, <2>17, <2>20, <3>1 DEF HealthCtx, LocalInv, CallInv
      <3>2. CASE Goto(t, "health read") /\ UNCHANGED <<call, arg, attempt, retry, pwd>>
        BY <1>1, <2>20, <3>2 DEF HealthCtx, Goto, LocalInv, LocalTypeOK,
                                 CallInv, Places
      <3> QED BY <2>20, <3>1, <3>2 DEF HealthCtx
    <2>21. CASE HealthRead(t)
      BY <1>1, <2>17, <2>21 DEF HealthRead, LocalInv, CallInv
    <2> QED BY <2>1, <2>2, <2>3, <2>4, <2>5, <2>6, <2>7, <2>8, <2>9, <2>10,
               <2>11, <2>12, <2>13, <2>14, <2>15, <2>16, <2>18, <2>19, <2>20,
               <2>21 DEF Call, Step
  <1> QED BY <1>2, <1>3

-----------------------------------------------------------------------------
(* The invariant.                                                          *)

SharedTypeOK ==
  /\ initialized \in BOOLEAN /\ chain \in 0..Ready /\ broken \in BOOLEAN
  /\ active \in Config /\ providers \subseteq {"default", "fips", "custom"}
  /\ initMutex \in Threads \cup {NoThread}
  /\ randMutex \in Threads \cup {NoThread}

LEMMA DefaultOK == Default \in Config
  BY DEF Default, Config

LEMMA ChainRange ==
  /\ 0 \in 0..Ready
  /\ \A i \in 0..Ready : i < Ready => i + 1 \in 0..Ready
  BY DEF Ready

LEMMA NeededOK ==
  ASSUME NEW c PROVE Needed(c) \subseteq {"default", "fips", "custom"}
  BY DEF Needed

LEMMA InitInv == Init => Inv
  <1> SUFFICES ASSUME Init PROVE Inv
    OBVIOUS
  <1>1. TypeOK
    <2>1. LocalTypeOK
      <3>1. /\ attempt \in [Threads -> 0..MaxAttempts - 1]
            /\ retry \in [Threads -> 0..MaxRetries - 1]
        <4>1. attempt = [t \in Threads |-> 0] /\ retry = [t \in Threads |-> 0]
          BY DEF Init
        <4>2. 0 \in 0..MaxAttempts - 1 /\ 0 \in 0..MaxRetries - 1
          BY Bounds
        <4> QED BY <4>1, <4>2, Zenon
      <3>2. arg \in [Threads -> Config]
        BY DefaultOK DEF Init
      <3>3. /\ call \in [Threads -> Calls] /\ pc \in [Threads -> Places]
            /\ pwd \in [Threads -> Pwds]
        BY DEF Init, Calls, Places, Pwds
      <3> QED BY <3>1, <3>2, <3>3 DEF LocalTypeOK
    <2>2. SharedTypeOK
      BY DefaultOK, ChainRange DEF Init, SharedTypeOK
    <2> QED BY <2>1, <2>2 DEF TypeOK, LocalTypeOK, SharedTypeOK, Pwds
  <1>2. MutexInv /\ ChainInv /\ CallInv
    BY RandAssumption DEF RandAssumption, Init, MutexInv, ChainInv, CallInv,
                          InitMutexPlaces, RandMutexPlaces
  <1> QED BY <1>1, <1>2 DEF Inv

\* Thread t goes from one place to another, and no one else moves.
Moves(t, q) ==
  /\ pc'[t] = q
  /\ \A u \in Threads : u # t => pc'[u] = pc[u] /\ arg'[u] = arg[u]

LEMMA GotoMoves ==
  ASSUME Inv, NEW t \in Threads, NEW q, Goto(t, q), UNCHANGED arg
  PROVE  Moves(t, q)
  BY DEF Inv, TypeOK, Goto, Moves

\* Steps that leave the chain alone, and no mutex is held before or after.
LEMMA QuietStep ==
  ASSUME Inv, NEW t \in Threads, NEW q, Moves(t, q),
         UNCHANGED <<chainVars, mutexVars>>,
         q \notin InitMutexPlaces \cup RandMutexPlaces,
         pc[t] \notin InitMutexPlaces \cup RandMutexPlaces
  PROVE  SharedTypeOK' /\ MutexInv' /\ ChainInv'
  <1> USE DEF Inv, TypeOK, chainVars, mutexVars, Moves
  <1>1. SharedTypeOK'
    BY DEF SharedTypeOK
  <1>2. MutexInv'
    BY DEF MutexInv
  <1>3. ChainInv'
    <2>1. \A u \in Threads : /\ pc'[u] = "build" => pc[u] = "build" /\ arg'[u] = arg[u]
                             /\ pc'[u] = "failed" => pc[u] = "failed"
                             /\ pc'[u] = "generate" => pc[u] = "generate"
                             /\ pc'[u] = "deinit end" <=> pc[u] = "deinit end"
                             /\ pc[u] = "build" => pc'[u] = "build"
      BY DEF InitMutexPlaces, RandMutexPlaces
    <2> QED BY <2>1 DEF ChainInv
  <1> QED BY <1>1, <1>2, <1>3

LEMMA InitLockStep ==
  ASSUME Inv, NEW t \in Threads, InitLock(t)
  PROVE  SharedTypeOK' /\ MutexInv' /\ ChainInv'
  <1>0. LocalInv /\ t # NoThread
    BY RandAssumption DEF RandAssumption, Inv, TypeOK, LocalInv, LocalTypeOK, Pwds
  <1>1. pc[t] = "init" /\ initMutex = NoThread
    BY DEF InitLock
  <1>2. \A u \in Threads : pc[u] \notin InitMutexPlaces
    BY <1>1, RandAssumption DEF RandAssumption, Inv, MutexInv
  <1>3. ~initialized => chain = 0
    BY <1>2 DEF Inv, ChainInv, InitMutexPlaces
  <1>4. CASE \E ok \in BOOLEAN : InitReturns(t, ok)
    <2>1. PICK q \in {"idle", "ensure", "get"} : Goto(t, q) /\ UNCHANGED arg
      BY <1>0, <1>1, <1>4, InitReturnsLocal
    <2>2. Moves(t, q)
      BY <2>1, GotoMoves
    <2>3. CASE UNCHANGED providers /\ UNCHANGED initMutex
      <3>1. q \notin InitMutexPlaces \cup RandMutexPlaces
        BY DEF InitMutexPlaces, RandMutexPlaces
      <3>2. pc[t] \notin InitMutexPlaces \cup RandMutexPlaces
        BY <1>1 DEF InitMutexPlaces, RandMutexPlaces
      <3>3. UNCHANGED <<chainVars, mutexVars>>
        BY <2>3 DEF InitLock, chainVars, mutexVars
      <3> QED BY <2>2, <3>1, <3>2, <3>3, QuietStep
    <2>4. CASE ~initialized /\ providers' = {} /\ UNCHANGED initMutex
      <3>1. UNCHANGED <<initialized, chain, broken, active, randMutex>>
        BY DEF InitLock
      <3>2. SharedTypeOK'
        BY <2>4, <3>1 DEF Inv, TypeOK, SharedTypeOK
      <3>3. MutexInv'
        BY <1>1, <2>2, <2>4, <3>1 DEF Inv, MutexInv, Moves, InitMutexPlaces,
                                      RandMutexPlaces
      <3>4. ChainInv'
        BY <1>2, <1>3, <2>2, <2>4, <3>1 DEF Inv, ChainInv, Moves, InitMutexPlaces
      <3> QED BY <3>2, <3>3, <3>4
    <2> QED BY <1>1, <2>1, <2>3, <2>4 DEF InitLock, InitializedMeanwhile, Goto, Inv, TypeOK
  <1>5. CASE /\ ~initialized /\ providers' = providers \cup Needed(arg[t])
             /\ initMutex' = t /\ Goto(t, "build") /\ UNCHANGED arg
    <2>1. Moves(t, "build") /\ UNCHANGED <<initialized, chain, broken, active, randMutex>>
      BY <1>5, GotoMoves DEF InitLock
    <2>2. SharedTypeOK'
      BY <1>5, <2>1, NeededOK DEF Inv, TypeOK, SharedTypeOK
    <2>3. MutexInv'
      BY <1>0, <1>1, <1>2, <1>5, <2>1 DEF Inv, MutexInv, Moves, InitMutexPlaces,
                                    RandMutexPlaces
    <2>4. ChainInv'
      BY <1>1, <1>2, <1>3, <1>5, <2>1 DEF Inv, ChainInv, Moves, InitMutexPlaces
    <2> QED BY <2>2, <2>3, <2>4
  <1> QED BY <1>4, <1>5 DEF InitLock, InitializedMeanwhile

LEMMA BuildStep ==
  ASSUME Inv, NEW t \in Threads, InitBuild(t) \/ InitFail(t)
  PROVE  SharedTypeOK' /\ MutexInv' /\ ChainInv'
  <1>1. pc[t] = "build"
    BY DEF InitBuild, InitFail
  <1>2. /\ initMutex = t /\ ~initialized /\ Needed(arg[t]) \subseteq providers
        /\ \A u \in Threads : u # t => pc[u] \notin InitMutexPlaces
    BY <1>1 DEF Inv, MutexInv, ChainInv, InitMutexPlaces
  <1>3. CASE InitBuild(t)
    <2>1. /\ chain' = chain + 1 /\ chain < Ready
          /\ UNCHANGED <<initialized, broken, active, providers, mutexVars, localVars>>
      BY <1>3 DEF InitBuild
    <2>2. SharedTypeOK'
      BY <2>1, ChainRange DEF Inv, TypeOK, SharedTypeOK, mutexVars
    <2>3. MutexInv'
      BY <2>1 DEF Inv, MutexInv, mutexVars, localVars
    <2>4. ChainInv'
      BY <1>1, <1>2, <2>1 DEF Inv, ChainInv, InitMutexPlaces, localVars
    <2> QED BY <2>2, <2>3, <2>4
  <1>4. CASE InitFail(t)
    <2>1. /\ chain' = 0
          /\ UNCHANGED <<initialized, broken, active, providers, initMutex, randMutex>>
      BY <1>4 DEF InitFail, ChainAfterFailure, mutexVars
    <2>2. Moves(t, "failed")
      BY <1>4, GotoMoves DEF InitFail
    <2>3. SharedTypeOK'
      BY <2>1, ChainRange DEF Inv, TypeOK, SharedTypeOK
    <2>4. MutexInv'
      BY <1>1, <1>2, <2>1, <2>2
      DEF Inv, MutexInv, Moves, InitMutexPlaces, RandMutexPlaces
    <2>5. ChainInv'
      BY <1>2, <2>1, <2>2 DEF Inv, ChainInv, Moves, InitMutexPlaces
    <2> QED BY <2>3, <2>4, <2>5
  <1> QED BY <1>3, <1>4

LEMMA InitReturnsStep ==
  ASSUME Inv, NEW t \in Threads, InitFailEnd(t) \/ InitEnd(t)
  PROVE  SharedTypeOK' /\ MutexInv' /\ ChainInv'
  <1>0. LocalInv /\ t # NoThread
    BY RandAssumption DEF RandAssumption, Inv, TypeOK, LocalInv, LocalTypeOK, Pwds
  <1>1. pc[t] \in {"build", "failed"}
    BY DEF InitFailEnd, InitEnd
  <1>2. /\ initMutex = t /\ ~initialized
        /\ pc[t] = "build" => Needed(arg[t]) \subseteq providers
        /\ pc[t] = "failed" => chain = 0
        /\ \A u \in Threads : u # t => pc[u] \notin InitMutexPlaces
    BY <1>1 DEF Inv, MutexInv, ChainInv, InitMutexPlaces
  <1>3. initMutex' = NoThread /\ UNCHANGED randMutex
    BY DEF InitFailEnd, InitEnd
  <1>4. PICK q \in {"idle", "ensure", "get"} : Goto(t, q) /\ UNCHANGED arg
    BY <1>0, <1>1, InitReturnsLocal DEF InitFailEnd, InitEnd
  <1>5. Moves(t, q)
    BY <1>4, GotoMoves
  <1>6. MutexInv'
    <2>1. \A u \in Threads : u # t => initMutex # u /\ pc[u] \notin InitMutexPlaces
      BY <1>2
    <2> QED BY <1>0, <1>1, <1>3, <1>5, <2>1, RandAssumption
           DEF RandAssumption, Inv, MutexInv, Moves, InitMutexPlaces, RandMutexPlaces
  <1>7. \A u \in Threads : pc'[u] \notin InitMutexPlaces
    BY <1>2, <1>5 DEF Moves, InitMutexPlaces
  <1>8. CASE InitFailEnd(t)
    <2>1. /\ chain = 0 /\ providers' = {}
          /\ UNCHANGED <<initialized, chain, broken, active>>
      BY <1>2, <1>8 DEF InitFailEnd
    <2>2. SharedTypeOK'
      BY <1>3, <2>1 DEF Inv, TypeOK, SharedTypeOK
    <2>3. ChainInv'
      BY <1>2, <1>7, <2>1 DEF ChainInv, InitMutexPlaces
    <2> QED BY <1>6, <2>2, <2>3
  <1>9. CASE InitEnd(t)
    <2>1. /\ chain = Ready /\ broken' = FALSE /\ active' = arg[t] /\ pc[t] = "build"
          /\ initialized' = TRUE /\ UNCHANGED <<chain, providers>>
      BY <1>9 DEF InitEnd
    <2> QED BY <1>0, <1>2, <1>3, <1>6, <1>7, <2>1 DEF Inv, TypeOK, SharedTypeOK,
                         ChainInv, InitMutexPlaces, LocalInv, LocalTypeOK
  <1> QED BY <1>8, <1>9

\* Steps that take or release mutexes and leave the rest alone.
LEMMA MutexStep ==
  ASSUME Inv, NEW t \in Threads, NEW q, Moves(t, q), UNCHANGED chainVars,
         initMutex' \in Threads \cup {NoThread},
         randMutex' \in Threads \cup {NoThread},
         MutexInv',
         pc[t] \notin {"build", "failed", "deinit end"},
         q \notin {"build", "failed", "deinit end"},
         q = "generate" => initialized /\ chain = Ready
  PROVE  SharedTypeOK' /\ MutexInv' /\ ChainInv'
  <1>1. SharedTypeOK'
    BY DEF Inv, TypeOK, SharedTypeOK, chainVars
  <1>2. ChainInv'
    BY DEF Inv, ChainInv, Moves, chainVars
  <1> QED BY <1>1, <1>2

LEMMA MutexMoves ==
  ASSUME Inv, NEW t \in Threads, NEW q, Moves(t, q),
         initMutex' = IF q \in InitMutexPlaces THEN t
                      ELSE IF pc[t] \in InitMutexPlaces THEN NoThread ELSE initMutex,
         randMutex' = IF q \in RandMutexPlaces THEN t
                      ELSE IF pc[t] \in RandMutexPlaces THEN NoThread ELSE randMutex,
         q \in InitMutexPlaces => initMutex \in {t, NoThread},
         q \in RandMutexPlaces => randMutex \in {t, NoThread}
  PROVE  /\ MutexInv'
         /\ initMutex' \in Threads \cup {NoThread}
         /\ randMutex' \in Threads \cup {NoThread}
  BY RandAssumption DEF RandAssumption, Inv, TypeOK, MutexInv, Moves

LEMMA GetStep ==
  ASSUME Inv, NEW t \in Threads,
         EnsureRandReady(t) \/ GetLock(t) \/ GetRandLock(t) \/ Generate(t)
  PROVE  SharedTypeOK' /\ MutexInv' /\ ChainInv'
  <1> USE DEF InitMutexPlaces, RandMutexPlaces
  <1>0. LocalInv
    BY DEF Inv, TypeOK, LocalInv, LocalTypeOK, Pwds
  <1>1. CASE EnsureRandReady(t)
    <2>1. PICK q \in {"get", "init"} : Moves(t, q)
      BY <1>0, <1>1 DEF EnsureRandReady, Goto, Moves, LocalInv, LocalTypeOK
    <2> QED BY <1>1, <2>1, QuietStep DEF EnsureRandReady
  <1>2. CASE GetLock(t)
    <2>1. Moves(t, "get rand")
      BY <1>2, GotoMoves DEF GetLock
    <2>2. MutexInv' /\ initMutex' \in Threads \cup {NoThread}
                    /\ randMutex' \in Threads \cup {NoThread}
      BY <1>2, <2>1, MutexMoves DEF GetLock
    <2> QED BY <1>2, <2>1, <2>2, MutexStep DEF GetLock
  <1>3. CASE GetRandLock(t)
    <2>1. initMutex = t /\ pc[t] = "get rand" /\ UNCHANGED chainVars
      BY <1>3 DEF GetRandLock, Inv, MutexInv
    <2>2. CASE Drawable /\ Goto(t, "generate") /\ UNCHANGED <<initMutex, arg>>
                        /\ randMutex = NoThread /\ randMutex' = t
      <3>1. Moves(t, "generate")
        BY <2>2, GotoMoves
      <3>2. MutexInv' /\ initMutex' \in Threads \cup {NoThread}
                      /\ randMutex' \in Threads \cup {NoThread}
        BY <2>1, <2>2, <3>1, MutexMoves
      <3>3. initialized /\ chain = Ready
        <4>1. initialized /\ chain >= 5
          BY <2>2 DEF Drawable, HasCtx, RandCtx
        <4>2. chain = Ready \/ chain = 0
          BY <4>1 DEF Inv, ChainInv
        <4> QED BY <4>1, <4>2
      <3> QED BY <2>1, <3>1, <3>2, <3>3, MutexStep
    <2>3. CASE /\ initMutex' = NoThread /\ NextAttempt(t) /\ UNCHANGED randMutex
      <3>1. PICK q \in {"idle", "ensure"} : Goto(t, q) /\ UNCHANGED arg
        BY <1>0, <2>1, <2>3, NextAttemptLocal
      <3>2. Moves(t, q)
        BY <3>1, GotoMoves
      <3>3. MutexInv' /\ initMutex' \in Threads \cup {NoThread}
                      /\ randMutex' \in Threads \cup {NoThread}
        BY <2>1, <2>3, <3>2, MutexMoves
      <3> QED BY <2>1, <3>2, <3>3, MutexStep
    <2> QED BY <1>3, <2>2, <2>3 DEF GetRandLock, MutexAfterMiss
  <1>4. CASE Generate(t)
    <2>1. pc[t] = "generate" /\ initMutex' = NoThread /\ randMutex' = NoThread
      BY <1>4 DEF Generate
    <2>2. PICK q \in {"idle", "ensure"} : Goto(t, q) /\ UNCHANGED arg
      BY <1>0, <1>4, GetReturnsLocal DEF Generate
    <2>3. Moves(t, q)
      BY <2>2, GotoMoves
    <2>4. MutexInv' /\ initMutex' \in Threads \cup {NoThread}
                    /\ randMutex' \in Threads \cup {NoThread}
      BY <2>1, <2>3, MutexMoves
    <2>5. UNCHANGED <<initialized, chain, active, providers>> /\ broken' \in BOOLEAN
      BY <1>4 DEF Generate, Inv, TypeOK
    <2>6. SharedTypeOK'
      BY <2>4, <2>5 DEF Inv, TypeOK, SharedTypeOK
    <2>7. ChainInv'
      BY <2>1, <2>3, <2>5 DEF Inv, ChainInv, Moves
    <2> QED BY <2>4, <2>6, <2>7
  <1> QED BY <1>1, <1>2, <1>3, <1>4

LEMMA DeinitStep ==
  ASSUME Inv, NEW t \in Threads, DeinitLock(t) \/ DeinitChain(t) \/ DeinitEnd(t)
  PROVE  SharedTypeOK' /\ MutexInv' /\ ChainInv'
  <1> USE DEF InitMutexPlaces, RandMutexPlaces
  <1>1. CASE DeinitLock(t)
    <2>1. Moves(t, "deinit rand")
      BY <1>1, GotoMoves DEF DeinitLock
    <2>2. MutexInv' /\ initMutex' \in Threads \cup {NoThread}
                    /\ randMutex' \in Threads \cup {NoThread}
      BY <1>1, <2>1, MutexMoves DEF DeinitLock
    <2> QED BY <1>1, <2>1, <2>2, MutexStep DEF DeinitLock
  <1>2. CASE DeinitChain(t)
    <2>1. /\ pc[t] = "deinit rand" /\ randMutex = NoThread /\ chain' = 0
          /\ UNCHANGED <<initialized, broken, active, providers, mutexVars>>
      BY <1>2 DEF DeinitChain, RandMutexFree
    <2>2. Moves(t, "deinit end")
      BY <1>2, GotoMoves DEF DeinitChain
    <2>3. initMutex = t /\ \A u \in Threads : u # t => pc[u] \notin InitMutexPlaces
      BY <2>1 DEF Inv, MutexInv
    <2>4. MutexInv' /\ initMutex' \in Threads \cup {NoThread}
                    /\ randMutex' \in Threads \cup {NoThread}
      BY <2>1, <2>2, <2>3, MutexMoves DEF mutexVars
    <2>5. SharedTypeOK'
      BY <2>1, <2>4, ChainRange DEF Inv, TypeOK, SharedTypeOK
    <2>6. ChainInv'
      BY <2>1, <2>2, <2>3 DEF Inv, ChainInv, Moves
    <2> QED BY <2>4, <2>5, <2>6
  <1>3. CASE DeinitEnd(t)
    <2>1. /\ pc[t] = "deinit end" /\ providers' = {} /\ initialized' = FALSE
          /\ active' = Default /\ initMutex' = NoThread
          /\ UNCHANGED <<chain, broken, randMutex>>
      BY <1>3 DEF DeinitEnd
    <2>2. Moves(t, "idle")
      BY <1>3, GotoMoves DEF DeinitEnd, Return
    <2>3. chain = 0 /\ \A u \in Threads : u # t => pc[u] \notin InitMutexPlaces
      BY <2>1 DEF Inv, MutexInv, ChainInv
    <2>4. MutexInv' /\ initMutex' \in Threads \cup {NoThread}
                    /\ randMutex' \in Threads \cup {NoThread}
      BY <2>1, <2>2, MutexMoves
    <2>5. SharedTypeOK'
      BY <2>1, <2>4, DefaultOK DEF Inv, TypeOK, SharedTypeOK
    <2>6. ChainInv'
      BY <2>1, <2>2, <2>3 DEF ChainInv, Moves
    <2> QED BY <2>4, <2>5, <2>6
  <1> QED BY <1>1, <1>2, <1>3

LEMMA HealthStep ==
  ASSUME Inv, NEW t \in Threads, HealthLock(t) \/ HealthCtx(t) \/ HealthRead(t)
  PROVE  SharedTypeOK' /\ MutexInv' /\ ChainInv'
  <1> USE DEF InitMutexPlaces, RandMutexPlaces, Return
  <1>1. UNCHANGED <<chainVars, initMutex, arg>>
    BY DEF HealthLock, HealthCtx, HealthRead
  <1>2. CASE HealthLock(t)
    <2>1. CASE Goto(t, "health ctx") /\ randMutex' = t
      <3>1. Moves(t, "health ctx")
        BY <1>1, <2>1, GotoMoves
      <3>2. MutexInv' /\ initMutex' \in Threads \cup {NoThread}
                      /\ randMutex' \in Threads \cup {NoThread}
        BY <1>1, <1>2, <2>1, <3>1, MutexMoves DEF HealthLock
      <3> QED BY <1>1, <1>2, <3>1, <3>2, MutexStep DEF HealthLock
    <2>2. CASE Goto(t, "idle") /\ UNCHANGED randMutex
      <3>1. Moves(t, "idle")
        BY <1>1, <2>2, GotoMoves
      <3> QED BY <1>1, <1>2, <2>2, <3>1, QuietStep DEF HealthLock, mutexVars
    <2> QED BY <1>2, <2>1, <2>2 DEF HealthLock
  <1>3. CASE HealthCtx(t) /\ Goto(t, "health read")
    <2>1. Moves(t, "health read") /\ pc[t] = "health ctx" /\ randMutex = t
      BY <1>1, <1>3, GotoMoves DEF HealthCtx, Inv, MutexInv
    <2>2. UNCHANGED randMutex
      BY <1>3, <2>1 DEF HealthCtx, Goto, Inv, TypeOK
    <2>3. MutexInv' /\ initMutex' \in Threads \cup {NoThread}
                    /\ randMutex' \in Threads \cup {NoThread}
      BY <1>1, <2>1, <2>2, MutexMoves
    <2> QED BY <1>1, <2>1, <2>3, MutexStep
  <1>4. CASE Goto(t, "idle") /\ randMutex' = NoThread /\ pc[t] \in {"health ctx", "health read"}
    <2>1. Moves(t, "idle")
      BY <1>1, <1>4, GotoMoves
    <2>2. MutexInv' /\ initMutex' \in Threads \cup {NoThread}
                    /\ randMutex' \in Threads \cup {NoThread}
      BY <1>1, <1>4, <2>1, MutexMoves
    <2> QED BY <1>1, <1>4, <2>1, <2>2, MutexStep
  <1> QED BY <1>2, <1>3, <1>4 DEF HealthCtx, HealthRead

LEMMA InvStep == Inv /\ [Next]_vars => Inv'
  <1> SUFFICES ASSUME Inv, [Next]_vars PROVE Inv'
    OBVIOUS
  <1>1. LocalInv'
    BY LocalStep
  <1>2. SharedTypeOK' /\ MutexInv' /\ ChainInv'
    <2>1. CASE UNCHANGED vars
      BY <2>1 DEF vars, Inv, TypeOK, SharedTypeOK, MutexInv, ChainInv
    <2>2. CASE Next
      <3>1. PICK t \in Threads : Call(t) \/ Step(t)
        BY <2>2 DEF Next
      <3>2. CASE Call(t)
        <4>1. /\ pc[t] = "idle" /\ UNCHANGED <<chainVars, mutexVars>>
              /\ \E q \in {"init", "ensure", "deinit", "health"} : Goto(t, q)
              /\ \A u \in Threads : u # t => arg'[u] = arg[u]
          BY <3>2 DEF Call, RandInit, GetRand, GetSecurePwd, RandDeinit,
                      GetRandHealthStatus, Begin, Inv, TypeOK
        <4>2. PICK q \in {"init", "ensure", "deinit", "health"} : Moves(t, q)
          BY <4>1 DEF Goto, Moves, Inv, TypeOK
        <4> QED BY <4>1, <4>2, QuietStep DEF InitMutexPlaces, RandMutexPlaces
      <3> QED BY <3>1, <3>2, InitLockStep, BuildStep, InitReturnsStep, GetStep, DeinitStep,
                 HealthStep DEF Step
    <2> QED BY <2>1, <2>2
  <1> QED BY <1>1, <1>2 DEF Inv, TypeOK, SharedTypeOK, LocalInv, LocalTypeOK, Pwds

\* The inductive invariant the theorems below rest on.
THEOREM InvHolds == Spec => []Inv
  BY InitInv, InvStep, PTL DEF Spec

-----------------------------------------------------------------------------
(* The theorems.                                                           *)

\* Type correctness, with the bound on GetRand's attempts.
THEOREM TypeCorrect == Spec => []TypeOK
  <1>1. Inv => TypeOK
    BY DEF Inv
  <1> QED BY <1>1, InvHolds, PTL

\* GetRand draws from a finished chain, for any number of threads.
THEOREM DrawsSafely == Spec => []DrawsFromReadyChain
  <1>1. Inv => DrawsFromReadyChain
    BY DEF Inv, ChainInv, DrawsFromReadyChain
  <1> QED BY <1>1, InvHolds, PTL

\* Providers are unloaded after the chain that was fetched from them is freed.
THEOREM ProvidersLast == Spec => []ProvidersOutliveChain
  <1>1. ASSUME Inv PROVE ProvidersOutliveChain
    <2>1. \A c \in Config : Needed(c) # {}
      <3>2. ASSUME NEW c PROVE "default" \in Needed(c) \/ "custom" \in Needed(c)
        <4>1. CASE c.custom
          BY <4>1 DEF Needed
        <4>2. CASE ~c.custom
          BY <4>2 DEF Needed
        <4> QED BY <4>1, <4>2
      <3> QED BY <3>2
    <2>2. active \in Config /\ \A t \in Threads : arg[t] \in Config
      <3>1. active \in Config
        BY <1>1 DEF Inv, TypeOK
      <3>2. arg \in [Threads -> Config]
        BY <1>1 DEF Inv, TypeOK
      <3> QED BY <3>1, <3>2
    <2>3. SUFFICES ASSUME chain # 0
                   PROVE  providers # {} /\ (initialized => Needed(active) \subseteq providers)
      BY DEF ProvidersOutliveChain
    <2>4. CASE initialized
      <3>1. Needed(active) \subseteq providers
        BY <1>1, <2>3, <2>4 DEF Inv, ChainInv
      <3>2. Needed(active) # {}
        BY <2>1, <2>2
      <3> QED BY <3>1, <3>2
    <2>5. CASE ~initialized
      <3>1. PICK t \in Threads : Needed(arg[t]) \subseteq providers
        BY <1>1, <2>3, <2>5 DEF Inv, ChainInv
      <3>2. Needed(arg[t]) # {}
        BY <2>1, <2>2
      <3> QED BY <2>5, <3>1, <3>2
    <2> QED BY <2>4, <2>5
  <1> QED BY <1>1, InvHolds, PTL

\* GetSecurePwd leaves no weak password behind.
THEOREM PwdsAreStrongOrErased == Spec => []PwdIsStrongOrErased
  <1>1. Inv => PwdIsStrongOrErased
    BY DEF Inv, TypeOK, CallInv, PwdIsStrongOrErased
  <1> QED BY <1>1, InvHolds, PTL

\* No thread's RandInit replaces the configuration another put in force.
THEOREM ConfigsAreKept == Spec => ConfigIsKept
  <1>1. ASSUME Inv, [Next]_vars
        PROVE  [initialized /\ initialized' => active' = active]_vars
    <2>1. SUFFICES ASSUME Next, initialized, initialized' PROVE active' = active
      BY <1>1
    <2>2. PICK t \in Threads : Call(t) \/ Step(t)
      BY <2>1 DEF Next
    <2>3. CASE InitEnd(t)
      BY <1>1, <2>1, <2>3 DEF InitEnd, Inv, ChainInv
    <2>4. CASE DeinitEnd(t)
      BY <2>1, <2>4 DEF DeinitEnd
    <2> QED BY <2>2, <2>3, <2>4 DEF Call, Step, RandInit, GetRand, GetSecurePwd,
          RandDeinit, GetRandHealthStatus, InitLock, InitBuild, InitFail,
          InitFailEnd,
          EnsureRandReady, GetLock, GetRandLock, Generate, DeinitLock,
          DeinitChain, HealthLock, HealthCtx, HealthRead, chainVars
  <1> QED BY <1>1, InvHolds, PTL DEF Spec, ConfigIsKept

\* The chain is only freed under a reader by a RandInit that fails.
THEOREM ReadersAreSafe == Spec => OnlyFailuresFreeUnderReader
  <1>1. ASSUME Inv, [Next]_vars
        PROVE  [(\E t \in Threads : pc[t] \in {"health read", "generate"}) /\ chain' < chain
                  => \E u \in Threads : pc[u] = "build"]_vars
    <2>1. SUFFICES ASSUME Next, NEW r \in Threads, pc[r] \in {"health read", "generate"},
                          chain' < chain
                   PROVE  \E u \in Threads : pc[u] = "build"
      BY <1>1
    <2>2. PICK t \in Threads : Call(t) \/ Step(t)
      BY <2>1 DEF Next
    <2>3. CASE InitFail(t) \/ InitBuild(t)
      BY <2>3 DEF InitFail, InitBuild
    <2>4. CASE DeinitChain(t)
      BY <1>1, <2>1, <2>4, RandAssumption DEF RandAssumption, DeinitChain,
            RandMutexFree, Inv, MutexInv, RandMutexPlaces
    <2>5. ASSUME chain' = chain PROVE FALSE
      <3>1. chain \in 0..6
        BY <1>1 DEF Inv, TypeOK, Ready
      <3>2. chain < chain
        BY <2>1, <2>5
      <3> QED BY <3>1, <3>2
    <2> QED BY <2>2, <2>3, <2>4, <2>5 DEF Call, Step, RandInit, GetRand, GetSecurePwd,
          RandDeinit, GetRandHealthStatus, InitLock, InitFailEnd, InitEnd,
          EnsureRandReady, GetLock, GetRandLock, Generate, DeinitLock,
          DeinitEnd, HealthLock, HealthCtx, HealthRead, chainVars
  <1> QED BY <1>1, InvHolds, PTL DEF Spec, OnlyFailuresFreeUnderReader

-----------------------------------------------------------------------------
(* Calls end: none waits for itself, and each has a bounded number of      *)
(* steps.                                                                  *)

\* Where threads wait for the mutexes, one of them can go on: initMutex is
\* always taken before randMutex, and GetRand lets go before it starts over.
THEOREM NoDeadlock == Spec => []SomebodyGoesOn
  <1>1. ASSUME Inv PROVE SomebodyGoesOn
    <2> SUFFICES ASSUME NEW t \in Threads, Waits(t)
                 PROVE  \E u \in Threads : pc[u] # "idle" /\ ~Waits(u)
      BY DEF SomebodyGoesOn
    <2> USE RandAssumption DEF RandAssumption, Inv, TypeOK, MutexInv,
            InitMutexPlaces, RandMutexPlaces
    <2>1. CASE randMutex # NoThread
      <3>1. randMutex \in Threads /\ pc[randMutex] \in RandMutexPlaces
        BY <1>1, <2>1
      <3> QED BY <3>1 DEF Waits
    <2>2. CASE randMutex = NoThread
      <3>1. initMutex \in Threads /\ pc[initMutex] \in InitMutexPlaces
        BY <1>1, <2>2 DEF Waits
      <3> QED BY <2>2, <3>1 DEF Waits
    <2> QED BY <2>1, <2>2
  <1> QED BY <1>1, InvHolds, PTL

LEMMA Counts ==
  ASSUME Inv
  PROVE  /\ pc \in [Threads -> Places] /\ chain \in 0..6
         /\ retry \in [Threads -> 0..MaxRetries - 1]
         /\ attempt \in [Threads -> 0..MaxAttempts - 1]
         /\ \A t \in Threads : retry[t] \in Nat /\ attempt[t] \in Nat
  <1>1. /\ pc \in [Threads -> Places] /\ chain \in 0..6
        /\ retry \in [Threads -> 0..MaxRetries - 1]
        /\ attempt \in [Threads -> 0..MaxAttempts - 1]
    BY DEF Inv, TypeOK, Ready
  <1>2. \A t \in Threads : retry[t] \in Nat /\ attempt[t] \in Nat
    BY <1>1, Bounds
  <1> QED BY <1>1, <1>2

\* What is left of a call under way is never nothing.
LEMMA LeftIsThere ==
  ASSUME Inv, NEW t \in Threads
  PROVE  /\ MaxRetries - retry[t] \in Nat \ {0}
         /\ MaxAttempts - attempt[t] \in Nat \ {0}
         /\ StepsLeft(t) \in Nat \ {0}
  <1>1. /\ MaxRetries \in Nat \ {0} /\ MaxAttempts \in Nat \ {0}
        /\ retry[t] \in 0..MaxRetries - 1 /\ attempt[t] \in 0..MaxAttempts - 1
        /\ chain \in 0..6
    BY Counts, RandAssumption DEF RandAssumption
  <1>2. StepsLeft(t) \in Nat \ {0}
    BY <1>1 DEF StepsLeft, Ready
  <1> QED BY <1>1, <1>2

\* When the next step is nearer to the end of the attempt.
LEMMA NearerIsShorter ==
  ASSUME NEW t \in Threads, pc[t] # "idle", pc'[t] # "idle",
         retry'[t] = retry[t], attempt'[t] = attempt[t],
         StepsLeft(t)' < StepsLeft(t)
  PROVE  Shorter(Left(t)', Left(t))
  BY DEF Shorter, Left

LEMMA ReturnIsShorter ==
  ASSUME Inv, NEW t \in Threads, NEW p, pc[t] # "idle", Return(t, p)
  PROVE  Shorter(Left(t)', Left(t))
  <1>1. pc'[t] = "idle"
    BY Counts DEF Return, Goto
  <1> QED BY <1>1, LeftIsThere DEF Shorter, Left

LEMMA NextRetryIsShorter ==
  ASSUME Inv, NEW t \in Threads, NEW p, pc[t] # "idle", NextRetry(t, p)
  PROVE  Shorter(Left(t)', Left(t))
  <1>1. CASE Goto(t, "ensure") /\ retry' = [retry EXCEPT ![t] = @ + 1]
    <2>1. pc'[t] = "ensure" /\ retry'[t] = retry[t] + 1
      BY <1>1, Counts DEF Goto
    <2>2. MaxRetries \in Nat /\ retry[t] \in Nat
      BY Counts, Bounds
    <2>3. MaxRetries - (retry[t] + 1) < MaxRetries - retry[t]
      BY <2>2
    <2> QED BY <2>1, <2>3 DEF Shorter, Left
  <1> QED BY <1>1, ReturnIsShorter DEF NextRetry

LEMMA GetReturnsShorter ==
  ASSUME Inv, NEW t \in Threads, NEW ok, pc[t] # "idle", GetReturns(t, ok)
  PROVE  Shorter(Left(t)', Left(t))
  BY ReturnIsShorter, NextRetryIsShorter DEF GetReturns

LEMMA NextAttemptIsShorter ==
  ASSUME Inv, NEW t \in Threads, pc[t] # "idle", NextAttempt(t)
  PROVE  Shorter(Left(t)', Left(t))
  <1>1. CASE /\ attempt' = [attempt EXCEPT ![t] = @ + 1] /\ Goto(t, "ensure")
             /\ retry' = retry
    <2>1. pc'[t] = "ensure" /\ attempt'[t] = attempt[t] + 1
      BY <1>1, Counts DEF Goto
    <2>2. MaxAttempts \in Nat /\ attempt[t] \in Nat
      BY Counts, Bounds
    <2>3. MaxAttempts - (attempt[t] + 1) < MaxAttempts - attempt[t]
      BY <2>2
    <2> QED BY <1>1, <2>1, <2>3 DEF Shorter, Left
  <1> QED BY <1>1, GetReturnsShorter DEF NextAttempt

LEMMA InitReturnsShorter ==
  ASSUME Inv, NEW t \in Threads, NEW ok, pc[t] \in {"init", "build", "failed"},
         InitReturns(t, ok)
  PROVE  Shorter(Left(t)', Left(t))
  <1>1. CASE Goto(t, "get") /\ UNCHANGED <<attempt, retry>>
    <2>1. pc'[t] = "get" /\ chain \in 0..6
      BY <1>1, Counts DEF Goto
    <2>2. StepsLeft(t)' = 11 /\ StepsLeft(t) > 11
      BY <2>1 DEF StepsLeft, Ready
    <2> QED BY <1>1, <2>1, <2>2, NearerIsShorter
  <1> QED BY <1>1, ReturnIsShorter, NextAttemptIsShorter DEF InitReturns

LEMMA StepIsShorter ==
  ASSUME Inv, NEW t \in Threads, Step(t)
  PROVE  Shorter(Left(t)', Left(t))
  <1> USE DEF Goto
  <1>1. pc \in [Threads -> Places] /\ chain \in 0..6
    BY Counts
  <1>2. CASE InitLock(t)
    <2>1. pc[t] = "init"
      BY <1>2 DEF InitLock
    <2>2. CASE Goto(t, "build") /\ UNCHANGED <<attempt, retry, chain>>
      <3>1. pc'[t] = "build" /\ StepsLeft(t)' = 12 + (Ready - chain) /\ StepsLeft(t) = 19
        BY <1>1, <2>1, <2>2 DEF StepsLeft
      <3>2. StepsLeft(t)' < StepsLeft(t)
        BY <1>1, <3>1 DEF Ready
      <3> QED BY <2>1, <2>2, <3>1, <3>2, NearerIsShorter
    <2>3. \/ \E ok \in BOOLEAN : InitReturns(t, ok)
          \/ Goto(t, "build") /\ UNCHANGED <<attempt, retry, chain>>
      BY <1>2 DEF InitLock
    <2> QED BY <2>1, <2>2, <2>3, InitReturnsShorter
  <1>3. CASE InitBuild(t)
    <2>1. /\ pc[t] = "build" /\ pc'[t] = "build" /\ chain' = chain + 1
          /\ UNCHANGED <<attempt, retry>>
      BY <1>1, <1>3 DEF InitBuild, localVars
    <2>2. StepsLeft(t)' < StepsLeft(t)
      BY <1>1, <2>1 DEF StepsLeft, Ready
    <2> QED BY <2>1, <2>2, NearerIsShorter
  <1>4. CASE InitFail(t)
    <2>1. /\ pc[t] = "build" /\ chain < Ready /\ pc'[t] = "failed"
          /\ UNCHANGED <<attempt, retry>>
      BY <1>1, <1>4 DEF InitFail
    <2>2. StepsLeft(t) = 12 + (Ready - chain) /\ StepsLeft(t)' = 12
      BY <2>1 DEF StepsLeft
    <2>3. StepsLeft(t)' < StepsLeft(t)
      BY <1>1, <2>1, <2>2 DEF Ready
    <2> QED BY <2>1, <2>3, NearerIsShorter
  <1>14. CASE InitFailEnd(t) \/ InitEnd(t)
    <2>1. /\ pc[t] \in {"build", "failed"}
          /\ \E ok \in BOOLEAN : InitReturns(t, ok)
      BY <1>14 DEF InitFailEnd, InitEnd
    <2> QED BY <2>1, InitReturnsShorter
  <1>5. CASE EnsureRandReady(t)
    <2>1. /\ pc[t] = "ensure" /\ pc'[t] \in {"get", "init"}
          /\ UNCHANGED <<attempt, retry>>
      BY <1>1, <1>5 DEF EnsureRandReady
    <2>2. StepsLeft(t) = 20 /\ StepsLeft(t)' \in {11, 19}
      BY <2>1 DEF StepsLeft
    <2> QED BY <2>1, <2>2, NearerIsShorter
  <1>6. CASE GetLock(t)
    <2>1. pc[t] = "get" /\ pc'[t] = "get rand" /\ UNCHANGED <<attempt, retry>>
      BY <1>1, <1>6 DEF GetLock
    <2>2. StepsLeft(t) = 11
      BY <2>1 DEF StepsLeft
    <2>3. StepsLeft(t)' = 10
      BY <2>1 DEF StepsLeft
    <2>4. StepsLeft(t)' < StepsLeft(t)
      BY <2>2, <2>3
    <2> QED BY <2>1, <2>4, NearerIsShorter
  <1>7. CASE GetRandLock(t)
    <2>1. CASE Goto(t, "generate") /\ UNCHANGED <<attempt, retry>>
      <3>1. pc[t] = "get rand" /\ pc'[t] = "generate"
        BY <1>1, <1>7, <2>1 DEF GetRandLock
      <3>2. StepsLeft(t) = 10
        BY <3>1 DEF StepsLeft
      <3>3. StepsLeft(t)' = 9
        BY <3>1 DEF StepsLeft
      <3>4. StepsLeft(t)' < StepsLeft(t)
        BY <3>2, <3>3
      <3> QED BY <2>1, <3>1, <3>4, NearerIsShorter
    <2> QED BY <1>7, <2>1, NextAttemptIsShorter DEF GetRandLock
  <1>8. CASE Generate(t)
    <2>1. pc[t] = "generate" /\ \E ok \in BOOLEAN : GetReturns(t, ok)
      BY <1>8 DEF Generate
    <2> QED BY <2>1, GetReturnsShorter
  <1>9. CASE DeinitLock(t)
    <2>1. pc[t] = "deinit" /\ pc'[t] = "deinit rand" /\ UNCHANGED <<attempt, retry>>
      BY <1>1, <1>9 DEF DeinitLock
    <2>2. StepsLeft(t) = 3
      BY <2>1 DEF StepsLeft
    <2>3. StepsLeft(t)' = 2
      BY <2>1 DEF StepsLeft
    <2>4. StepsLeft(t)' < StepsLeft(t)
      BY <2>2, <2>3
    <2> QED BY <2>1, <2>4, NearerIsShorter
  <1>10. CASE DeinitChain(t)
    <2>1. pc[t] = "deinit rand" /\ pc'[t] = "deinit end" /\ UNCHANGED <<attempt, retry>>
      BY <1>1, <1>10 DEF DeinitChain
    <2>2. StepsLeft(t) = 2
      BY <2>1 DEF StepsLeft
    <2>3. StepsLeft(t)' = 1
      BY <2>1 DEF StepsLeft
    <2>4. StepsLeft(t)' < StepsLeft(t)
      BY <2>2, <2>3
    <2> QED BY <2>1, <2>4, NearerIsShorter
  <1>11. CASE HealthLock(t)
    <2>1. CASE Goto(t, "health ctx") /\ UNCHANGED <<attempt, retry>>
      <3>1. pc[t] = "health" /\ pc'[t] = "health ctx"
        BY <1>1, <1>11, <2>1 DEF HealthLock
      <3>2. StepsLeft(t) = 3
        BY <3>1 DEF StepsLeft
      <3>3. StepsLeft(t)' = 2
        BY <3>1 DEF StepsLeft
      <3>4. StepsLeft(t)' < StepsLeft(t)
        BY <3>2, <3>3
      <3> QED BY <2>1, <3>1, <3>4, NearerIsShorter
    <2>2. CASE pc[t] # "idle" /\ Return(t, pwd[t])
      BY <2>2, ReturnIsShorter
    <2> QED BY <1>11, <2>1, <2>2 DEF HealthLock
  <1>12. CASE HealthCtx(t)
    <2>1. CASE Goto(t, "health read") /\ UNCHANGED <<attempt, retry>>
      <3>1. pc[t] = "health ctx" /\ pc'[t] = "health read"
        BY <1>1, <1>12, <2>1 DEF HealthCtx
      <3>2. StepsLeft(t) = 2
        BY <3>1 DEF StepsLeft
      <3>3. StepsLeft(t)' = 1
        BY <3>1 DEF StepsLeft
      <3>4. StepsLeft(t)' < StepsLeft(t)
        BY <3>2, <3>3
      <3> QED BY <2>1, <3>1, <3>4, NearerIsShorter
    <2>2. CASE pc[t] # "idle" /\ Return(t, pwd[t])
      BY <2>2, ReturnIsShorter
    <2> QED BY <1>12, <2>1, <2>2 DEF HealthCtx
  <1>13. CASE DeinitEnd(t) \/ HealthRead(t)
    <2>1. pc[t] # "idle" /\ Return(t, pwd[t])
      BY <1>13 DEF DeinitEnd, HealthRead
    <2> QED BY <2>1, ReturnIsShorter
  <1> QED BY <1>2, <1>3, <1>4, <1>5, <1>6, <1>7, <1>8, <1>9, <1>10, <1>11, <1>12,
             <1>13, <1>14 DEF Step

\* What a step of t leaves alone of the other threads' calls.
LEMMA OthersKept ==
  ASSUME Inv, NEW t \in Threads, Call(t) \/ Step(t), NEW u \in Threads, u # t
  PROVE  Left(u)' = Left(u)
  <1> USE DEF Inv, TypeOK
  <1>1. \A p : Return(t, p) => /\ pc'[u] = pc[u] /\ attempt'[u] = attempt[u]
                               /\ retry'[u] = retry[u]
    BY DEF Return, Goto
  <1>2. \A p : NextRetry(t, p) => /\ pc'[u] = pc[u] /\ attempt'[u] = attempt[u]
                                  /\ retry'[u] = retry[u]
    BY <1>1 DEF NextRetry, Goto
  <1>3. \A ok : GetReturns(t, ok) => /\ pc'[u] = pc[u] /\ attempt'[u] = attempt[u]
                                     /\ retry'[u] = retry[u]
    BY <1>1, <1>2 DEF GetReturns
  <1>4. NextAttempt(t) => /\ pc'[u] = pc[u] /\ attempt'[u] = attempt[u]
                          /\ retry'[u] = retry[u]
    BY <1>3 DEF NextAttempt, Goto
  <1>5. \A ok : InitReturns(t, ok) => /\ pc'[u] = pc[u] /\ attempt'[u] = attempt[u]
                                      /\ retry'[u] = retry[u]
    BY <1>1, <1>4 DEF InitReturns, Goto
  <1>6. pc'[u] = pc[u] /\ attempt'[u] = attempt[u] /\ retry'[u] = retry[u]
    <2>1. CASE Call(t)
      BY <2>1 DEF Call, RandInit, GetRand, GetSecurePwd, RandDeinit,
                  GetRandHealthStatus, Begin, Goto
    <2>2. CASE InitLock(t) \/ InitFail(t) \/ InitFailEnd(t) \/ InitEnd(t)
      BY <1>5, <2>2 DEF InitLock, InitFail, InitFailEnd, InitEnd, Goto
    <2>3. CASE InitBuild(t)
      BY <2>3 DEF InitBuild, localVars
    <2>4. CASE EnsureRandReady(t) \/ GetLock(t) \/ GetRandLock(t) \/ Generate(t)
      BY <1>3, <1>4, <2>4 DEF EnsureRandReady, GetLock, GetRandLock, Generate, Goto
    <2>5. CASE \/ DeinitLock(t) \/ DeinitChain(t) \/ DeinitEnd(t)
               \/ HealthLock(t) \/ HealthCtx(t) \/ HealthRead(t)
      BY <1>1, <2>5 DEF DeinitLock, DeinitChain, DeinitEnd, HealthLock, HealthCtx,
                        HealthRead, Goto
    <2> QED BY <2>1, <2>2, <2>3, <2>4, <2>5 DEF Step
  <1>7. CASE pc[u] = "build"
    <2>1. pc[t] \notin InitMutexPlaces
      BY <1>7, RandAssumption DEF RandAssumption, MutexInv, InitMutexPlaces
    <2>2. chain' = chain
      BY <2>1 DEF Call, RandInit, GetRand, GetSecurePwd, RandDeinit,
         GetRandHealthStatus, Step, InitLock, InitBuild, InitFail, InitFailEnd, InitEnd,
         EnsureRandReady, GetLock, GetRandLock, Generate, DeinitLock, DeinitChain,
         DeinitEnd, HealthLock, HealthCtx, HealthRead, chainVars, InitMutexPlaces
    <2> QED BY <1>6, <2>2 DEF Left, StepsLeft
  <1>8. CASE pc[u] # "build"
    BY <1>6, <1>8 DEF Left, StepsLeft
  <1> QED BY <1>7, <1>8

\* Whatever other threads do between its steps, a call of RandInit, GetRand,
\* GetSecurePwd and the others takes a bounded number of them.
THEOREM CallsAreBounded == Spec => CallsGetShorter
  <1> DEFINE Shortens ==
        \A t \in Threads : pc[t] # "idle" =>
          IF Step(t) THEN Shorter(Left(t)', Left(t)) ELSE Left(t)' = Left(t)
  <1>1. ASSUME Inv, [Next]_vars PROVE [Shortens]_vars
    <2> SUFFICES ASSUME Next, NEW t \in Threads, pc[t] # "idle"
                 PROVE  IF Step(t) THEN Shorter(Left(t)', Left(t)) ELSE Left(t)' = Left(t)
      BY <1>1
    <2>1. PICK u \in Threads : Call(u) \/ Step(u)
      BY DEF Next
    <2>2. CASE Step(t)
      BY <1>1, <2>2, StepIsShorter
    <2>3. CASE ~Step(t)
      <3>1. ~Call(t)
        BY DEF Call, RandInit, GetRand, GetSecurePwd, RandDeinit,
               GetRandHealthStatus, Begin
      <3>2. u # t
        BY <2>1, <2>3, <3>1
      <3> QED BY <1>1, <2>1, <2>3, <3>2, OthersKept
    <2> QED BY <2>2, <2>3
  <1>2. Spec => [][Shortens]_vars
    BY <1>1, InvHolds, PTL DEF Spec
  <1> QED BY <1>2 DEF CallsGetShorter
=============================================================================
