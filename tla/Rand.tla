-------------------------------- MODULE Rand --------------------------------
(***************************************************************************)
(* The random number module (src/cdf/modules/rand): one private chain of   *)
(* OpenSSL objects, a DRBG fed by a parent, that the threads of a process  *)
(* share.  RandInit makes the chain, GetRand draws from it and makes it    *)
(* first if need be, RandDeinit frees it, GetRandHealthStatus looks at it. *)
(*                                                                         *)
(* Two mutexes guard it: g_initMutex, and within it g_randMutex.           *)
(* g_providerMutex is only taken under g_initMutex and is left out; the    *)
(* counters of errors and of health checks are only reported, and are left *)
(* out too.  Calls that return at once and change nothing have no action.  *)
(***************************************************************************)
EXTENDS Integers

CONSTANTS
  Threads, NoThread,
  Configs,      \* the configurations threads call RandInit with
  MaxAttempts,  \* MAX_GET_RAND_ATTEMPTS
  MaxRetries    \* GetSecurePwd's retryTimes

\* RandConfig: does ValidateConfig accept it?  Does it ask for the FIPS
\* provider, for a custom provider, for periodic health checks?
Config == [valid : BOOLEAN, fips : BOOLEAN, custom : BOOLEAN, checks : BOOLEAN]

Default ==
  [valid |-> TRUE, fips |-> FALSE, custom |-> FALSE, checks |-> FALSE]

ASSUME RandAssumption ==
  /\ Configs \subseteq Config /\ NoThread \notin Threads
  /\ MaxAttempts \in Nat \ {0} /\ MaxRetries \in Nat \ {0}

VARIABLES
  initialized,  \* g_initialized
  chain,        \* how far the chain is built, 0..Ready
  broken,       \* is the DRBG in its error state?
  active,       \* g_activeConfig and g_healthCheckInterval
  providers,    \* the providers the module holds
  initMutex,    \* g_initMutex: its holder or NoThread
  randMutex,    \* g_randMutex
  call,         \* the API call each thread makes
  pc,           \* and where it is
  arg,          \* the configuration it initialises with
  attempt,      \* GetRand's attempts so far
  retry,        \* GetSecurePwd's
  pwd           \* GetSecurePwd's buffer: the character types in it

chainVars  == <<initialized, chain, broken, active, providers>>
mutexVars  == <<initMutex, randMutex>>
localVars  == <<call, pc, arg, attempt, retry, pwd>>
vars == <<initialized, chain, broken, active, providers, initMutex, randMutex,
          call, pc, arg, attempt, retry, pwd>>

-----------------------------------------------------------------------------
(* Data.                                                                   *)

\* BuildRandChain makes, in this order, g_pParent, g_pParentCtx (and
\* instantiates it), g_pDrbg, g_pRandCtx, and instantiates that.
RandCtx == 5
Ready   == 6
HasCtx  == chain >= RandCtx

\* The providers that PrepareProviders loads.
Needed(c) ==
  (IF c.fips THEN {"default", "fips"} ELSE {}) \cup
  (IF c.custom THEN {"custom"} ELSE {"default"})

Init ==
  /\ initialized = FALSE /\ chain = 0 /\ broken = FALSE
  /\ active = Default /\ providers = {}
  /\ initMutex = NoThread /\ randMutex = NoThread
  /\ call = [t \in Threads |-> "none"] /\ pc = [t \in Threads |-> "idle"]
  /\ arg = [t \in Threads |-> Default]
  /\ attempt = [t \in Threads |-> 0] /\ retry = [t \in Threads |-> 0]
  /\ pwd = [t \in Threads |-> "none"]

Goto(t, place) == pc' = [pc EXCEPT ![t] = place]

\* Thread t, which has no call under way, begins one.
Begin(t, name, place) ==
  /\ pc[t] = "idle"
  /\ call' = [call EXCEPT ![t] = name]
  /\ Goto(t, place)

-----------------------------------------------------------------------------
(* How calls end.                                                          *)

\* HasMultipleCharTypes.
AnyTypes(p) == p # "none"   \* mutant of ManyTypes
ManyTypes(p) == p = "many types"

BufferKept(t) == pwd[t]   \* mutant of BufferAfterFailure
BufferAfterFailure(t) == "none"

\* The call of t returns; a password's caller is left with p.
Return(t, p) ==
  /\ call' = [call EXCEPT ![t] = "none"]
  /\ Goto(t, "idle")
  /\ attempt' = [attempt EXCEPT ![t] = 0]
  /\ retry' = [retry EXCEPT ![t] = 0]
  /\ pwd' = [pwd EXCEPT ![t] = p]

\* GetSecurePwd: another round, or the buffer is erased.
NextRetry(t, p) ==
  \/ /\ retry[t] + 1 < MaxRetries
     /\ retry' = [retry EXCEPT ![t] = @ + 1]
     /\ attempt' = [attempt EXCEPT ![t] = 0]
     /\ pwd' = [pwd EXCEPT ![t] = p]
     /\ Goto(t, "ensure")
     /\ UNCHANGED call
  \/ /\ retry[t] + 1 >= MaxRetries
     /\ Return(t, BufferAfterFailure(t))

\* GetRand returns, to the application or to GetSecurePwd.
GetReturns(t, ok) ==
  /\ UNCHANGED arg
  /\ \/ call[t] = "GetRand" /\ Return(t, pwd[t])
     \/ call[t] = "GetSecurePwd" /\ ~ok /\ NextRetry(t, pwd[t])
     \/ /\ call[t] = "GetSecurePwd" /\ ok
        /\ \E p \in {"one type", "many types"} :
             \/ ManyTypes(p) /\ Return(t, p)
             \/ ~ManyTypes(p) /\ NextRetry(t, p)

AttemptLeft(t) == attempt[t] + 1 < MaxAttempts

\* GetRand's loop goes on, or gives up.
NextAttempt(t) ==
  \/ /\ AttemptLeft(t)
     /\ attempt' = [attempt EXCEPT ![t] = @ + 1]
     /\ Goto(t, "ensure")
     /\ UNCHANGED <<call, arg, retry, pwd>>
  \/ ~AttemptLeft(t) /\ GetReturns(t, FALSE)

\* RandInit returns, to the application or to GetRand.
InitReturns(t, ok) ==
  \/ call[t] = "RandInit" /\ Return(t, pwd[t]) /\ UNCHANGED arg
  \/ /\ call[t] # "RandInit" /\ ok
     /\ Goto(t, "get")
     /\ UNCHANGED <<call, arg, attempt, retry, pwd>>
  \/ call[t] # "RandInit" /\ ~ok /\ NextAttempt(t)

-----------------------------------------------------------------------------
(* RandInit.                                                               *)

RandInit(t, c) ==
  /\ ~initialized
  /\ Begin(t, "RandInit", "init")
  /\ arg' = [arg EXCEPT ![t] = c]
  /\ UNCHANGED <<chainVars, mutexVars, attempt, retry, pwd>>

\* With the mutex, initialised is asked again.
InitializedMeanwhile == initialized

InitLock(t) ==
  /\ pc[t] = "init" /\ initMutex = NoThread
  /\ \/ /\ InitializedMeanwhile /\ InitReturns(t, TRUE)
        /\ UNCHANGED <<initMutex, providers>>
     \/ /\ ~InitializedMeanwhile /\ ~arg[t].valid /\ InitReturns(t, FALSE)
        /\ UNCHANGED <<initMutex, providers>>
     \/ \* PrepareProviders or ValidateParentRandAvailable fails
        /\ ~InitializedMeanwhile /\ arg[t].valid /\ InitReturns(t, FALSE)
        /\ providers' = {}
        /\ UNCHANGED initMutex
     \/ /\ ~InitializedMeanwhile /\ arg[t].valid
        /\ providers' = providers \cup Needed(arg[t])
        /\ initMutex' = t
        /\ Goto(t, "build")
        /\ UNCHANGED <<call, arg, attempt, retry, pwd>>
  /\ UNCHANGED <<initialized, chain, broken, active, randMutex>>

\* BuildRandChain succeeds in one step more.
InitBuild(t) ==
  /\ pc[t] = "build" /\ chain < Ready
  /\ chain' = chain + 1
  /\ UNCHANGED <<initialized, broken, active, providers, mutexVars, localVars>>

\* What was built is freed, without g_randMutex, before the providers go.
\* (RandInit frees the chain after them too, when nothing is left of it.)
ChainKept == chain   \* mutant of ChainAfterFailure
ChainAfterFailure == 0

InitFail(t) ==
  /\ pc[t] = "build" /\ chain < Ready
  /\ chain' = ChainAfterFailure
  /\ Goto(t, "failed")
  /\ UNCHANGED <<initialized, broken, active, providers, mutexVars,
                 call, arg, attempt, retry, pwd>>

InitFailEnd(t) ==
  /\ pc[t] = "failed"
  /\ providers' = {}
  /\ initMutex' = NoThread
  /\ InitReturns(t, FALSE)
  /\ UNCHANGED <<initialized, chain, broken, active, randMutex>>

InitEnd(t) ==
  /\ pc[t] = "build" /\ chain = Ready
  /\ broken' = FALSE
  /\ active' = arg[t]
  /\ initialized' = TRUE
  /\ initMutex' = NoThread
  /\ InitReturns(t, TRUE)
  /\ UNCHANGED <<chain, providers, randMutex>>

-----------------------------------------------------------------------------
(* GetRand and GetSecurePwd.                                               *)

GetRand(t) ==
  /\ Begin(t, "GetRand", "ensure")
  /\ UNCHANGED <<chainVars, mutexVars, arg, attempt, retry, pwd>>

GetSecurePwd(t) ==
  /\ Begin(t, "GetSecurePwd", "ensure")
  /\ pwd' = [pwd EXCEPT ![t] = "none"]
  /\ UNCHANGED <<chainVars, mutexVars, arg, attempt, retry>>

\* EnsureRandReady, without a mutex.
EnsureRandReady(t) ==
  /\ pc[t] = "ensure"
  /\ \/ initialized /\ Goto(t, "get") /\ UNCHANGED arg
     \/ ~initialized /\ Goto(t, "init") /\ arg' = [arg EXCEPT ![t] = Default]
  /\ UNCHANGED <<chainVars, mutexVars, call, attempt, retry, pwd>>

GetLock(t) ==
  /\ pc[t] = "get" /\ initMutex = NoThread
  /\ initMutex' = t
  /\ Goto(t, "get rand")
  /\ UNCHANGED <<chainVars, randMutex, call, arg, attempt, retry, pwd>>

\* The chain may be gone by now; then GetRand lets go and starts over.
NotAskedAgain == TRUE   \* mutant of Drawable
Drawable == initialized /\ HasCtx

MutexHeld(t) == t   \* mutant of MutexAfterMiss
MutexAfterMiss(t) == NoThread

GetRandLock(t) ==
  /\ pc[t] = "get rand" /\ randMutex = NoThread
  /\ \/ /\ Drawable
        /\ randMutex' = t
        /\ Goto(t, "generate")
        /\ UNCHANGED <<initMutex, call, arg, attempt, retry, pwd>>
     \/ /\ ~Drawable
        /\ initMutex' = MutexAfterMiss(t)
        /\ NextAttempt(t)
        /\ UNCHANGED randMutex
  /\ UNCHANGED chainVars

\* A health check that is due refuses a broken DRBG.  Otherwise OpenSSL tries
\* to restart it, and generates or fails.
Generate(t) ==
  /\ pc[t] = "generate"
  /\ initMutex' = NoThread /\ randMutex' = NoThread
  /\ \/ /\ broken' = FALSE
        /\ GetReturns(t, TRUE)
     \/ /\ broken' \in BOOLEAN
        /\ GetReturns(t, FALSE)
     \/ /\ active.checks /\ broken
        /\ GetReturns(t, FALSE)
        /\ UNCHANGED broken
  /\ UNCHANGED <<initialized, chain, active, providers>>

-----------------------------------------------------------------------------
(* RandDeinit.                                                             *)

RandDeinit(t) ==
  /\ Begin(t, "RandDeinit", "deinit")
  /\ UNCHANGED <<chainVars, mutexVars, arg, attempt, retry, pwd>>

DeinitLock(t) ==
  /\ pc[t] = "deinit" /\ initMutex = NoThread
  /\ initMutex' = t
  /\ Goto(t, "deinit rand")
  /\ UNCHANGED <<chainVars, randMutex, call, arg, attempt, retry, pwd>>

RandMutexIgnored == TRUE   \* mutant of RandMutexFree
RandMutexFree == randMutex = NoThread

DeinitChain(t) ==
  /\ pc[t] = "deinit rand" /\ RandMutexFree
  /\ chain' = 0
  /\ Goto(t, "deinit end")
  /\ UNCHANGED <<initialized, broken, active, providers, mutexVars,
                 call, arg, attempt, retry, pwd>>

DeinitEnd(t) ==
  /\ pc[t] = "deinit end"
  /\ providers' = {}
  /\ initialized' = FALSE
  /\ active' = Default
  /\ initMutex' = NoThread
  /\ Return(t, pwd[t])
  /\ UNCHANGED <<chain, broken, randMutex, arg>>

-----------------------------------------------------------------------------
(* GetRandHealthStatus, which does not take g_initMutex.                   *)

GetRandHealthStatus(t) ==
  /\ initialized
  /\ Begin(t, "GetRandHealthStatus", "health")
  /\ UNCHANGED <<chainVars, mutexVars, arg, attempt, retry, pwd>>

HealthLock(t) ==
  /\ pc[t] = "health" /\ randMutex = NoThread
  /\ \/ /\ initialized
        /\ randMutex' = t
        /\ Goto(t, "health ctx")
        /\ UNCHANGED <<call, arg, attempt, retry, pwd>>
     \/ ~initialized /\ Return(t, pwd[t]) /\ UNCHANGED <<randMutex, arg>>
  /\ UNCHANGED <<chainVars, initMutex>>

\* Is there a context?  It is read after initialized is.
HealthCtx(t) ==
  /\ pc[t] = "health ctx"
  /\ \/ HasCtx /\ Goto(t, "health read")
               /\ UNCHANGED <<randMutex, call, arg, attempt, retry, pwd>>
     \/ ~HasCtx /\ randMutex' = NoThread /\ Return(t, pwd[t]) /\ UNCHANGED arg
  /\ UNCHANGED <<chainVars, initMutex>>

HealthRead(t) ==
  /\ pc[t] = "health read"
  /\ randMutex' = NoThread
  /\ Return(t, pwd[t])
  /\ UNCHANGED <<chainVars, initMutex, arg>>

-----------------------------------------------------------------------------
Call(t) ==
  \/ \E c \in Configs : RandInit(t, c)
  \/ GetRand(t) \/ GetSecurePwd(t) \/ RandDeinit(t) \/ GetRandHealthStatus(t)

Step(t) ==
  \/ InitLock(t) \/ InitBuild(t) \/ InitFail(t) \/ InitFailEnd(t) \/ InitEnd(t)
  \/ EnsureRandReady(t) \/ GetLock(t) \/ GetRandLock(t) \/ Generate(t)
  \/ DeinitLock(t) \/ DeinitChain(t) \/ DeinitEnd(t)
  \/ HealthLock(t) \/ HealthCtx(t) \/ HealthRead(t)

Next == \E t \in Threads : Call(t) \/ Step(t)

Spec == Init /\ [][Next]_vars

\* A thread that can go on with its call does, sooner or later.
FairSpec == Spec /\ \A t \in Threads : WF_vars(Step(t))
-----------------------------------------------------------------------------
(* Properties.                                                             *)

Calls == {"none", "RandInit", "GetRand", "GetSecurePwd", "RandDeinit",
          "GetRandHealthStatus"}
Places == {"idle", "init", "build", "failed", "ensure", "get", "get rand", "generate",
           "deinit", "deinit rand", "deinit end",
           "health", "health ctx", "health read"}

\* The types; GetRand never makes more attempts than it may.
TypeOK ==
  /\ initialized \in BOOLEAN /\ chain \in 0..Ready /\ broken \in BOOLEAN
  /\ active \in Config /\ providers \subseteq {"default", "fips", "custom"}
  /\ initMutex \in Threads \cup {NoThread}
  /\ randMutex \in Threads \cup {NoThread}
  /\ call \in [Threads -> Calls] /\ pc \in [Threads -> Places]
  /\ arg \in [Threads -> Config]
  /\ attempt \in [Threads -> 0..MaxAttempts - 1]
  /\ retry \in [Threads -> 0..MaxRetries - 1]
  /\ pwd \in [Threads -> {"none", "one type", "many types"}]

\* GetRand draws from a chain that is instantiated, whatever other threads
\* do: it never draws from one that is being built or freed.
DrawsFromReadyChain ==
  \A t \in Threads : pc[t] = "generate" => initialized /\ chain = Ready

\* No part of the chain outlives the providers it was fetched from; those of
\* a finished chain are the ones its configuration asks for.
ProvidersOutliveChain ==
  /\ chain > 0 => providers # {}
  /\ initialized /\ chain > 0 => Needed(active) \subseteq providers

\* Only RandInit, when it fails, frees a context under a thread that reads it.
\* (That it does is a race: see README.md.)
OnlyFailuresFreeUnderReader ==
  [][(\E t \in Threads : pc[t] \in {"health read", "generate"}) /\ chain' < chain
       => \E u \in Threads : pc[u] = "build"]_vars

\* A configuration in force is not replaced until RandDeinit, however many
\* threads initialise at once.
ConfigIsKept == [][initialized /\ initialized' => active' = active]_vars

\* A caller of GetSecurePwd gets a password of several character types, or
\* an erased buffer.
PwdIsStrongOrErased ==
  \A t \in Threads : pc[t] = "idle" => pwd[t] \in {"none", "many types"}

\* What a thread waits for: a mutex that another has, or has itself.
Waits(t) ==
  \/ pc[t] \in {"init", "get", "deinit"} /\ initMutex # NoThread
  \/ pc[t] \in {"get rand", "deinit rand", "health"} /\ randMutex # NoThread

\* Where threads wait for mutexes, one of them has what it needs: no two wait
\* for each other, and none for itself.
SomebodyGoesOn ==
  (\E t \in Threads : Waits(t)) =>
    \E t \in Threads : pc[t] # "idle" /\ ~Waits(t)

\* What is left of a call: rounds of GetSecurePwd, attempts of GetRand, and
\* steps of the attempt.
StepsLeft(t) ==
  IF pc[t] = "ensure" THEN 20
  ELSE IF pc[t] = "init" THEN 19
  ELSE IF pc[t] = "build" THEN 12 + (Ready - chain)
  ELSE IF pc[t] = "failed" THEN 12
  ELSE IF pc[t] = "get" THEN 11
  ELSE IF pc[t] = "get rand" THEN 10
  ELSE IF pc[t] = "generate" THEN 9
  ELSE IF pc[t] \in {"deinit", "health"} THEN 3
  ELSE IF pc[t] \in {"deinit rand", "health ctx"} THEN 2
  ELSE 1

Left(t) ==
  IF pc[t] = "idle" THEN <<0, 0, 0>>
  ELSE <<MaxRetries - retry[t], MaxAttempts - attempt[t], StepsLeft(t)>>

Shorter(a, b) ==
  \/ a[1] < b[1]
  \/ a[1] = b[1] /\ a[2] < b[2]
  \/ a[1] = b[1] /\ a[2] = b[2] /\ a[3] < b[3]

\* A step of a call leaves less of it to do, and nobody else's adds to it: no
\* call starts over for ever, whatever other threads do between its steps.
CallsGetShorter ==
  [][\A t \in Threads : pc[t] # "idle" =>
       IF Step(t) THEN Shorter(Left(t)', Left(t)) ELSE Left(t)' = Left(t)]_vars

\* If the threads stop making calls, every call returns: none waits for a
\* mutex for ever or starts over for ever.
CallsReturn ==
  <>[][\A t \in Threads : ~Call(t)]_vars
    => <>[](\A t \in Threads : pc[t] = "idle")
=============================================================================
