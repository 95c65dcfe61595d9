------------------------------ MODULE OpenbaoExec ------------------------------
(***************************************************************************)
(* ExecOpenbaoCmd (openbao_utils.cpp): one thread at a time makes three    *)
(* pipes, forks a client that logs in with the token it reads, and one     *)
(* that runs the command, and reads what they print.  The rest of the      *)
(* process opens and closes files and forks children of its own meanwhile. *)
(* What a command answers is in OpenbaoKeyManager; this is about the       *)
(* descriptors, who holds an end of a pipe, and who waits for whom.        *)
(***************************************************************************)
EXTENDS Integers, FiniteSets

CONSTANTS
  Threads, NoThread,
  Files, Stdin,   \* the descriptors of the rest of the process
  Fds,            \* the numbers a descriptor may have; 1 and 2 stay as they are
  Capacity,       \* what a pipe holds
  MaxPrinted      \* what a client prints at most

ASSUME ExecAssumption ==
  /\ NoThread \notin Threads
  /\ Stdin \in Files
  /\ Fds \subseteq Nat /\ 0 \in Fds
  /\ Capacity \in Nat /\ MaxPrinted \in Nat

Pipes == {"in", "out", "cmd"}   \* loginPipefdIn, loginPipefdOut, cmdPipefd
Clients == {"login", "cmd"}
Outputs == {"out", "cmd"}
End(p, s) == [pipe |-> p, side |-> s]
Ends == [pipe : Pipes, side : {"r", "w"}]
Free == [free |-> TRUE]
Own(f) == [file |-> f]
NoFd == -1

VARIABLES
  pc,       \* where each thread is
  mtx,      \* who holds g_mtx
  pipe,     \* the three PipeTy of the call
  failed,   \* has pipe() ever failed?
  client,   \* [state, ends, left]: what each client holds and is yet to print
  data,     \* what is in the pipes to be read
  table,    \* the process's descriptors
  held,     \* the number under which the rest of the process keeps each file
  calm,     \* the files it opened while no call was under way
  helper    \* the ends that another child of the process has inherited

callVars == <<pipe, failed, client, data>>
restVars == <<held, calm, helper>>
vars == <<pc, mtx, callVars, table, restVars>>

NoClient == [state |-> "none", ends |-> {}, left |-> 0]

-----------------------------------------------------------------------------
(* Descriptors.                                                            *)

\* What a PipeTy of a call holds before pipe() fills it.
OldPipes == pipe   \* mutant of FreshPipes
FreshPipes == [p \in Pipes |-> [r |-> 0, w |-> 0]]

\* open and pipe take the lowest numbers that are free.
IsLowest(n, used) ==
  /\ n \in Fds /\ table[n] = Free /\ n \notin used
  /\ \A k \in Fds : k < n => table[k] # Free \/ k \in used

Numbers(ps) == {pipe[p].r : p \in ps} \cup {pipe[p].w : p \in ps}

\* close acts on a number, whoever has it by now.
Closed(nums) == [n \in Fds |-> IF n \in nums THEN Free ELSE table[n]]

\* A child of the process begins with what the process has; it closes some.
Inherited(closed) == {e \in Ends : \E n \in Fds \ closed : table[n] = e}

HeldBySomeone(e) ==
  \/ \E n \in Fds : table[n] = e
  \/ \E c \in Clients : e \in client[c].ends
  \/ e \in helper

\* The pipes closed on every way out of ExecOpenbaoCmd.
LoginPipes == {"in", "out"}   \* mutant of ClosedAtEnd
ClosedAtEnd == Pipes

\* The end that is closed before the other one is read.
NoneClosed(p) == {}   \* mutant of ClosedBeforeRead
ClosedBeforeRead(p) == {pipe[p].w}

-----------------------------------------------------------------------------
(* A call.                                                                 *)

Goto(t, where) == pc' = [pc EXCEPT ![t] = where]

\* ClosePipes of all three, and return, which releases g_mtx.  A client that
\* was not waited for is left to itself.
Leave(t) ==
  /\ Goto(t, "idle") /\ mtx' = NoThread
  /\ table' = Closed(Numbers(ClosedAtEnd))
  /\ client' = [c \in Clients |-> NoClient]
  /\ data' = [p \in Outputs |-> 0]
  /\ pipe' = FreshPipes /\ helper' = {}
  /\ UNCHANGED <<failed, held, calm>>

\* lock_guard
Lock(t) ==
  /\ pc[t] = "idle" /\ mtx = NoThread
  /\ mtx' = t /\ Goto(t, "pipeIn")
  /\ UNCHANGED <<callVars, table, restVars>>

\* CreatePipes, one pipe() at a time; it fails at the limit of the process or
\* of the system, and ClosePipes is handed pairs that are still {0, 0}.
Pipe(t, here, p, next) ==
  /\ pc[t] = here /\ Goto(t, next)
  /\ \E r, w \in Fds :
       /\ IsLowest(r, {}) /\ IsLowest(w, {r})
       /\ pipe' = [pipe EXCEPT ![p] = [r |-> r, w |-> w]]
       /\ table' = [table EXCEPT ![r] = End(p, "r"), ![w] = End(p, "w")]
  /\ UNCHANGED <<mtx, failed, client, data, restVars>>

PipeFails(t) ==
  /\ pc[t] \in {"pipeIn", "pipeOut", "pipeCmd"}
  /\ Goto(t, "idle") /\ mtx' = NoThread
  /\ failed' = TRUE
  /\ table' = Closed(Numbers(Pipes))
  /\ pipe' = FreshPipes /\ helper' = {}
  /\ UNCHANGED <<client, data, held, calm>>

CreatePipes(t) ==
  \/ Pipe(t, "pipeIn", "in", "pipeOut")
  \/ Pipe(t, "pipeOut", "out", "pipeCmd")
  \/ Pipe(t, "pipeCmd", "cmd", "forkLogin")
  \/ Cardinality({n \in Fds : table[n] = Free}) < 2 /\ PipeFails(t)

\* The client closes the ends it has no use for; the others become its
\* standard input and output.
Forked(c, closed) ==
  \E n \in 0..MaxPrinted :
    client' = [client EXCEPT ![c] =
                 [state |-> "runs", ends |-> Inherited(closed), left |-> n]]

ForkAndRunLogin(t) ==
  /\ pc[t] = "forkLogin" /\ Goto(t, "write")
  /\ Forked("login", {pipe["out"].r, pipe["in"].w})
  /\ UNCHANGED <<mtx, pipe, failed, data, table, restVars>>

\* The number may be nobody's by now.
WriteToken(t) ==
  /\ pc[t] = "write"
  /\ Goto(t, IF table[pipe["in"].w] = Free THEN "leave" ELSE "closeIn")
  /\ UNCHANGED <<mtx, callVars, table, restVars>>

CloseIn(t) ==
  /\ pc[t] = "closeIn" /\ Goto(t, "closeOut")
  /\ table' = Closed(Numbers({"in"}))
  /\ UNCHANGED <<mtx, callVars, restVars>>

CloseWrite(t, here, p, next) ==
  /\ pc[t] = here /\ Goto(t, next)
  /\ table' = Closed(ClosedBeforeRead(p))
  /\ UNCHANGED <<mtx, callVars, restVars>>

\* After an error ReadFromPipe closes the number itself.
ReadError(t, p) ==
  /\ Goto(t, "leave")
  /\ table' = Closed({pipe[p].r})
  /\ UNCHANGED data

\* ReadFromPipe reads until nobody holds the other end.  The number may be
\* nobody's by now, or another file's, which ends somewhere.
ReadFromPipe(t, here, p, next) ==
  /\ pc[t] = here
  /\ LET from == table[pipe[p].r] IN
     \/ /\ from = End(p, "r") /\ data[p] > 0
        /\ data' = [data EXCEPT ![p] = @ - 1]
        /\ UNCHANGED <<pc, table>>
     \/ /\ from # Free
        /\ from = End(p, "r") => data[p] = 0 /\ ~HeldBySomeone(End(p, "w"))
        /\ Goto(t, next)
        /\ UNCHANGED <<data, table>>
     \/ from = Free /\ ReadError(t, p)
  /\ UNCHANGED <<mtx, pipe, failed, client, restVars>>

WaitForLogin(t) ==
  /\ pc[t] = "waitLogin" /\ client["login"].state \in {"ok", "bad"}
  /\ Goto(t, IF client["login"].state = "ok" THEN "forkCmd" ELSE "leave")
  /\ UNCHANGED <<mtx, callVars, table, restVars>>

ForkAndRunCommand(t) ==
  /\ pc[t] = "forkCmd" /\ Goto(t, "closeCmd")
  /\ Forked("cmd", {pipe["cmd"].r})
  /\ UNCHANGED <<mtx, pipe, failed, data, table, restVars>>

WaitForCommand(t) ==
  /\ pc[t] = "waitCmd" /\ client["cmd"].state \in {"ok", "bad"}
  /\ Goto(t, "leave")
  /\ UNCHANGED <<mtx, callVars, table, restVars>>

\* What a thread does as long as no system call fails that need not.
Step(t) ==
  \/ CreatePipes(t)
  \/ ForkAndRunLogin(t)
  \/ WriteToken(t)
  \/ CloseIn(t)
  \/ CloseWrite(t, "closeOut", "out", "readLogin")
  \/ ReadFromPipe(t, "readLogin", "out", "waitLogin")
  \/ WaitForLogin(t)
  \/ ForkAndRunCommand(t)
  \/ CloseWrite(t, "closeCmd", "cmd", "readCmd")
  \/ ReadFromPipe(t, "readCmd", "cmd", "waitCmd")
  \/ WaitForCommand(t)
  \/ pc[t] = "leave" /\ Leave(t)

\* A fork, write, read or waitpid that fails.  A login that cannot be forked
\* has ClosePipes called in ForkAndRunLogin and again in ExecOpenbaoCmd.
Fails(t) ==
  \/ PipeFails(t)
  \/ /\ pc[t] = "forkLogin" /\ Goto(t, "leave")
     /\ table' = Closed(Numbers({"in", "out"}))
     /\ UNCHANGED <<mtx, callVars, restVars>>
  \/ /\ pc[t] \in {"write", "waitLogin", "forkCmd", "waitCmd"} /\ Goto(t, "leave")
     /\ UNCHANGED <<mtx, callVars, table, restVars>>
  \/ /\ \/ pc[t] = "readLogin" /\ ReadError(t, "out")
        \/ pc[t] = "readCmd" /\ ReadError(t, "cmd")
     /\ UNCHANGED <<mtx, pipe, failed, client, restVars>>

-----------------------------------------------------------------------------
(* The clients.                                                            *)

Output(c) == IF c = "login" THEN "out" ELSE "cmd"

Ended(c, how) ==
  /\ client[c].state = "runs"
  /\ client' = [client EXCEPT ![c] = [state |-> how, ends |-> {}, left |-> 0]]
  /\ UNCHANGED <<pc, mtx, pipe, failed, data, table, restVars>>

\* A full pipe makes its writer wait.
Writes(c) ==
  LET p == Output(c) IN
  /\ client[c].state = "runs" /\ client[c].left > 0
  /\ data[p] < Capacity /\ HeldBySomeone(End(p, "r"))
  /\ client' = [client EXCEPT ![c].left = @ - 1]
  /\ data' = [data EXCEPT ![p] = @ + 1]
  /\ UNCHANGED <<pc, mtx, pipe, failed, table, restVars>>

\* The login's client reads the token to the end of its input first.  One that
\* nobody listens to is ended by SIGPIPE, one whose output is not there does
\* not get past dup2.
ClientStep(c) ==
  \/ (c = "login" => ~HeldBySomeone(End("in", "w"))) /\ Writes(c)
  \/ /\ client[c].left = 0
     /\ c = "login" => ~HeldBySomeone(End("in", "w"))
     /\ \E how \in {"ok", "bad"} : Ended(c, how)
  \/ /\ \/ ~HeldBySomeone(End(Output(c), "r"))
        \/ End(Output(c), "w") \notin client[c].ends
     /\ Ended(c, "bad")

ClientDies(c) == Ended(c, "bad")

-----------------------------------------------------------------------------
(* The rest of the process.                                                *)

Open(f) ==
  /\ held[f] = NoFd
  /\ \E n \in Fds :
       /\ IsLowest(n, {})
       /\ table' = [table EXCEPT ![n] = Own(f)]
       /\ held' = [held EXCEPT ![f] = n]
  /\ calm' = IF mtx = NoThread THEN calm \cup {f} ELSE calm \ {f}
  /\ UNCHANGED <<pc, mtx, callVars, helper>>

\* The number may have become another's; standard input is not closed.
Close(f) ==
  /\ held[f] # NoFd /\ f # Stdin
  /\ table' = Closed({held[f]})
  /\ held' = [held EXCEPT ![f] = NoFd]
  /\ UNCHANGED <<pc, mtx, callVars, calm, helper>>

\* No pipe is close-on-exec: any other child has its ends until it ends.
ForkHelper ==
  /\ mtx # NoThread /\ helper = {}
  /\ helper' = Inherited({})
  /\ UNCHANGED <<pc, mtx, callVars, table, held, calm>>

HelperEnds ==
  /\ helper # {} /\ helper' = {}
  /\ UNCHANGED <<pc, mtx, callVars, table, held, calm>>

-----------------------------------------------------------------------------
Init ==
  /\ pc = [t \in Threads |-> "idle"] /\ mtx = NoThread
  /\ pipe = [p \in Pipes |-> [r |-> 0, w |-> 0]] /\ failed = FALSE
  /\ client = [c \in Clients |-> NoClient]
  /\ data = [p \in Outputs |-> 0]
  /\ table = [n \in Fds |-> IF n = 0 THEN Own(Stdin) ELSE Free]
  /\ held = [f \in Files |-> IF f = Stdin THEN 0 ELSE NoFd]
  /\ calm = {Stdin} /\ helper = {}

Next ==
  \/ \E t \in Threads : Lock(t) \/ Step(t) \/ Fails(t)
  \/ \E c \in Clients : ClientStep(c) \/ ClientDies(c)
  \/ \E f \in Files : Open(f) \/ Close(f)
  \/ ForkHelper
  \/ HelperEnds

Spec == Init /\ [][Next]_vars

\* Threads are scheduled, and the clients and other children end.
FairSpec ==
  /\ Spec
  /\ \A t \in Threads : WF_vars(Step(t))
  /\ \A c \in Clients : WF_vars(ClientStep(c))
  /\ WF_vars(HelperEnds)

-----------------------------------------------------------------------------
(* Properties.                                                             *)

Pcs == {"idle", "pipeIn", "pipeOut", "pipeCmd", "forkLogin", "write",
        "closeIn", "closeOut", "readLogin", "waitLogin", "forkCmd", "closeCmd",
        "readCmd", "waitCmd", "leave"}

\* The types, and g_mtx is held by the one thread that is in a call.
TypeOK ==
  /\ pc \in [Threads -> Pcs] /\ mtx \in Threads \cup {NoThread}
  /\ \A t \in Threads : mtx = t <=> pc[t] # "idle"
  /\ pipe \in [Pipes -> [r : Fds, w : Fds]] /\ failed \in BOOLEAN
  /\ client \in [Clients -> [state : {"none", "runs", "ok", "bad"},
                             ends : SUBSET Ends, left : 0..MaxPrinted]]
  /\ data \in [Outputs -> 0..Capacity]
  /\ table \in [Fds -> {Free} \cup {Own(f) : f \in Files} \cup Ends]
  /\ held \in [Files -> Fds \cup {NoFd}]
  /\ calm \subseteq Files /\ helper \subseteq Ends

\* Whatever fails and whatever number was taken from under the call, no end
\* of a pipe is left behind when ExecOpenbaoCmd has returned.
NoEndIsLeft ==
  mtx = NoThread => \A n \in Fds : table[n] \notin Ends

\* Closing twice what it closed before, a call takes nothing from the rest of
\* the process but what it opened during a call, and descriptor 0 after pipe()
\* failed.
OnlyFilesOpenedMeanwhileAreClosed ==
  [][\A f \in Files, n \in Fds :
       /\ table[n] = Own(f) /\ table'[n] # Own(f)
       /\ UNCHANGED held
       => f \notin calm \/ (n = 0 /\ failed')]_vars

\* What a call waits for: more of what a client prints, or the client's end.
WaitsForOutput(p) ==
  /\ table[pipe[p].r] = End(p, "r") /\ data[p] = 0
  /\ HeldBySomeone(End(p, "w"))
WaitsForEnd(c) == client[c].state \notin {"ok", "bad"}

Waits(t) ==
  \/ pc[t] = "readLogin" /\ WaitsForOutput("out")
  \/ pc[t] = "waitLogin" /\ WaitsForEnd("login")
  \/ pc[t] = "readCmd" /\ WaitsForOutput("cmd")
  \/ pc[t] = "waitCmd" /\ WaitsForEnd("cmd")

\* And what a client that runs waits for, when its output may be read by
\* somebody: the end of the token, or room in the pipe.  Otherwise ClientStep
\* has a step for it.
ClientWaits(c) ==
  /\ HeldBySomeone(End(Output(c), "r"))
  /\ End(Output(c), "w") \in client[c].ends
  /\ \/ c = "login" /\ HeldBySomeone(End("in", "w"))
     \/ client[c].left > 0 /\ data[Output(c)] >= Capacity

\* A call and its clients never wait for each other, and the call never for
\* an end of a pipe that the process itself has: when it waits, a client that
\* runs can go on, or another child, which does not wait for the call, has
\* inherited the pipes.
NoCircularWait ==
  \A t \in Threads : Waits(t) =>
    helper # {} \/ \E c \in Clients : client[c].state = "runs" /\ ~ClientWaits(c)

\* What is left of a call: the steps of the thread to its return, and, at each
\* of them, what clients may still print, what is still to be read of it, and
\* the clients that have not ended.
StepsLeft(q) ==
  IF q = "pipeIn" THEN 14 ELSE IF q = "pipeOut" THEN 13
  ELSE IF q = "pipeCmd" THEN 12 ELSE IF q = "forkLogin" THEN 11
  ELSE IF q = "write" THEN 10 ELSE IF q = "closeIn" THEN 9
  ELSE IF q = "closeOut" THEN 8 ELSE IF q = "readLogin" THEN 7
  ELSE IF q = "waitLogin" THEN 6 ELSE IF q = "forkCmd" THEN 5
  ELSE IF q = "closeCmd" THEN 4 ELSE IF q = "readCmd" THEN 3
  ELSE IF q = "waitCmd" THEN 2 ELSE IF q = "leave" THEN 1 ELSE 0

Running(c) == IF client[c].state = "runs" THEN 1 ELSE 0
OutputLeft(c) == 2 * client[c].left + data[Output(c)] + Running(c)

Left(t) == <<StepsLeft(pc[t]), OutputLeft("login") + OutputLeft("cmd")>>
Shorter(a, b) == a[1] < b[1] \/ (a[1] = b[1] /\ a[2] < b[2])

\* Every step of a call and of its clients leaves less of the call to do, and
\* nothing else in the process adds to it.
CallsGetShorter ==
  [][\A t \in Threads : mtx = t =>
       IF \/ Step(t) \/ Fails(t)
          \/ \E c \in Clients : ClientStep(c) \/ ClientDies(c)
       THEN Shorter(Left(t)', Left(t)) ELSE Left(t)' = Left(t)]_vars

\* Once the clients and the other children of the process end, a call gives
\* g_mtx back, however much is printed and whoever else inherited the pipes.
LockIsReleased == \A t \in Threads : mtx = t ~> mtx # t
=============================================================================
