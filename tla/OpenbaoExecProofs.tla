--------------------------- MODULE OpenbaoExecProofs ---------------------------
(***************************************************************************)
(* Theorems about OpenbaoExec, for any threads, files and numbers of       *)
(* descriptors: the types, what a call leaves behind, what it may close of *)
(* the rest of the process's, and that calls end as far as that is a       *)
(* matter of safety.                                                       *)
(***************************************************************************)
EXTENDS OpenbaoExec, TLAPS

\* The pipes that pipe() has filled.
Filled(t) ==
  CASE pc[t] \in {"idle", "pipeIn"} -> {}
    [] pc[t] = "pipeOut" -> {"in"}
    [] pc[t] = "pipeCmd" -> {"in", "out"}
    [] OTHER -> Pipes

Number(p, s) == IF s = "r" THEN pipe[p].r ELSE pipe[p].w

\* The ends in the table are where the call put them, and there are none when
\* no call is under way.
EndsInv ==
  /\ \A n \in Fds, p \in Pipes, s \in {"r", "w"} :
       table[n] = End(p, s) =>
         \E t \in Threads : mtx = t /\ p \in Filled(t) /\ n = Number(p, s)

\* A number that pipe() gave out belongs to no file opened before.
CalmInv ==
  \A t \in Threads :
    mtx = t =>
      /\ \A p \in Filled(t), s \in {"r", "w"}, f \in calm :
           table[Number(p, s)] # Own(f)
      /\ \A p \in Pipes \ Filled(t) : pipe[p] = [r |-> 0, w |-> 0]

\* The pairs of a call that has not begun.
IdleInv == mtx = NoThread => pipe = FreshPipes

Inv == TypeOK /\ EndsInv /\ CalmInv /\ IdleInv

-----------------------------------------------------------------------------
(* What may be in the table.                                               *)

LEMMA Kinds ==
  /\ \A p \in Pipes, s \in {"r", "w"} : End(p, s) \in Ends /\ End(p, s) # Free
  /\ \A p, q \in Pipes, s, u \in {"r", "w"} : End(p, s) = End(q, u) => p = q /\ s = u
  /\ \A f \in Files : Own(f) # Free
  /\ \A f \in Files, p \in Pipes, s \in {"r", "w"} : Own(f) # End(p, s)
  /\ \A e \in Ends : \E p \in Pipes, s \in {"r", "w"} : e = End(p, s)
  <1>1. \A p \in Pipes, s \in {"r", "w"} : End(p, s) \in Ends
    BY DEF End, Ends
  <1>2. \A p \in Pipes, s \in {"r", "w"} : End(p, s) # Free
    BY DEF End, Free
  <1>3. \A p, q \in Pipes, s, u \in {"r", "w"} : End(p, s) = End(q, u) => p = q /\ s = u
    BY DEF End
  <1>4. \A f \in Files : Own(f) # Free
    BY DEF Own, Free
  <1>5. \A f \in Files, p \in Pipes, s \in {"r", "w"} : Own(f) # End(p, s)
    BY DEF Own, End
  <1>6. \A e \in Ends : \E p \in Pipes, s \in {"r", "w"} : e = End(p, s)
    BY DEF End, Ends
  <1> QED BY <1>1, <1>2, <1>3, <1>4, <1>5, <1>6
-----------------------------------------------------------------------------
(* The types.                                                              *)

LEMMA ZeroIsFd == 0 \in Fds /\ NoFd \notin Fds /\ NoThread \notin Threads
  BY ExecAssumption DEF ExecAssumption, NoFd

LEMMA ClosedType ==
  ASSUME TypeOK, NEW nums
  PROVE  Closed(nums) \in [Fds -> {Free} \cup {Own(f) : f \in Files} \cup Ends]
  BY DEF TypeOK, Closed

LEMMA PcMoves ==
  ASSUME TypeOK, NEW t \in Threads, pc[t] # "idle", NEW where \in Pcs \ {"idle"},
         Goto(t, where), mtx' = mtx
  PROVE  /\ pc' \in [Threads -> Pcs] /\ mtx' \in Threads \cup {NoThread}
         /\ \A u \in Threads : mtx' = u <=> pc'[u] # "idle"
  BY DEF TypeOK, Goto, Pcs

LEMMA PcReturns ==
  ASSUME TypeOK, NEW t \in Threads, pc[t] # "idle", Goto(t, "idle"), mtx' = NoThread
  PROVE  /\ pc' \in [Threads -> Pcs] /\ mtx' \in Threads \cup {NoThread}
         /\ \A u \in Threads : mtx' = u <=> pc'[u] # "idle"
  BY ZeroIsFd DEF TypeOK, Goto, Pcs

LEMMA FreshType == FreshPipes \in [Pipes -> [r : Fds, w : Fds]]
  BY ZeroIsFd DEF FreshPipes, Pipes

LEMMA NoClientType ==
  ASSUME MaxPrinted \in Nat
  PROVE  NoClient \in [state : {"none", "runs", "ok", "bad"},
                       ends : SUBSET Ends, left : 0..MaxPrinted]
  BY DEF NoClient

LEMMA TypeInit == Init => TypeOK
  <1> SUFFICES ASSUME Init PROVE TypeOK
    OBVIOUS
  <1>1. MaxPrinted \in Nat /\ Capacity \in Nat /\ Stdin \in Files
    BY ExecAssumption DEF ExecAssumption
  <1>2. pc \in [Threads -> Pcs] /\ mtx \in Threads \cup {NoThread}
    BY DEF Init, Pcs
  <1>3. \A t \in Threads : mtx = t <=> pc[t] # "idle"
    BY ZeroIsFd DEF Init
  <1>4. pipe \in [Pipes -> [r : Fds, w : Fds]] /\ failed \in BOOLEAN
    BY ZeroIsFd DEF Init
  <1>5. client \in [Clients -> [state : {"none", "runs", "ok", "bad"},
                             ends : SUBSET Ends, left : 0..MaxPrinted]]
    BY <1>1, NoClientType DEF Init
  <1>6. data \in [Outputs -> 0..Capacity]
    BY <1>1 DEF Init
  <1>7. table \in [Fds -> {Free} \cup {Own(f) : f \in Files} \cup Ends]
    BY <1>1 DEF Init
  <1>8. held \in [Files -> Fds \cup {NoFd}]
    BY ZeroIsFd DEF Init
  <1>9. calm \subseteq Files /\ helper \subseteq Ends
    BY <1>1 DEF Init
  <1> QED BY <1>2, <1>3, <1>4, <1>5, <1>6, <1>7, <1>8, <1>9 DEF TypeOK

LEMMA LeaveType ==
  ASSUME TypeOK, NEW t \in Threads, pc[t] # "idle", Leave(t)
  PROVE  TypeOK'
  <1>1. MaxPrinted \in Nat /\ Capacity \in Nat
    BY ExecAssumption DEF ExecAssumption
  <1>2. /\ pc' \in [Threads -> Pcs] /\ mtx' \in Threads \cup {NoThread}
        /\ \A u \in Threads : mtx' = u <=> pc'[u] # "idle"
    BY PcReturns DEF Leave
  <1>3. client' \in [Clients -> [state : {"none", "runs", "ok", "bad"},
                             ends : SUBSET Ends, left : 0..MaxPrinted]]
    BY <1>1, NoClientType DEF Leave
  <1>4. data' \in [Outputs -> 0..Capacity]
    BY <1>1 DEF Leave
  <1> QED BY <1>2, <1>3, <1>4, ClosedType, FreshType DEF Leave, TypeOK

LEMMA ForkedType ==
  ASSUME TypeOK, NEW c \in Clients, NEW closed, Forked(c, closed)
  PROVE  client' \in [Clients -> [state : {"none", "runs", "ok", "bad"},
                                ends : SUBSET Ends, left : 0..MaxPrinted]]
  <1>1. Inherited(closed) \in SUBSET Ends
    BY DEF Inherited
  <1> QED BY <1>1 DEF Forked, TypeOK

LEMMA PipeType ==
  ASSUME TypeOK, NEW t \in Threads, NEW here \in Pcs \ {"idle"},
         NEW p \in Pipes, NEW next \in Pcs \ {"idle"}, Pipe(t, here, p, next)
  PROVE  TypeOK'
  <1>1. PICK r \in Fds, w \in Fds :
          /\ pipe' = [pipe EXCEPT ![p] = [r |-> r, w |-> w]]
          /\ table' = [table EXCEPT ![r] = End(p, "r"), ![w] = End(p, "w")]
    BY DEF Pipe
  <1>2. pipe' \in [Pipes -> [r : Fds, w : Fds]]
    BY <1>1 DEF TypeOK
  <1>3. table' \in [Fds -> {Free} \cup {Own(f) : f \in Files} \cup Ends]
    <2>1. End(p, "r") \in Ends /\ End(p, "w") \in Ends
      BY Kinds
    <2> QED BY <1>1, <2>1 DEF TypeOK
  <1>4. /\ pc' \in [Threads -> Pcs] /\ mtx' \in Threads \cup {NoThread}
        /\ \A u \in Threads : mtx' = u <=> pc'[u] # "idle"
    BY PcMoves DEF Pipe
  <1> QED BY <1>2, <1>3, <1>4 DEF Pipe, TypeOK, restVars

LEMMA PipeFailsType ==
  ASSUME TypeOK, NEW t \in Threads, PipeFails(t)
  PROVE  TypeOK'
  <1>1. /\ pc' \in [Threads -> Pcs] /\ mtx' \in Threads \cup {NoThread}
        /\ \A u \in Threads : mtx' = u <=> pc'[u] # "idle"
    BY PcReturns DEF PipeFails
  <1> QED BY <1>1, ClosedType, FreshType DEF PipeFails, TypeOK

LEMMA ReadType ==
  ASSUME TypeOK, NEW t \in Threads, NEW here \in Pcs \ {"idle"},
         NEW p \in Outputs, NEW next \in Pcs \ {"idle"},
         ReadFromPipe(t, here, p, next)
  PROVE  TypeOK'
  <1>1. CASE /\ data[p] > 0 /\ data' = [data EXCEPT ![p] = @ - 1]
             /\ UNCHANGED <<pc, table>>
    <2>1. data' \in [Outputs -> 0..Capacity]
      <3>1. data[p] \in 0..Capacity
        BY DEF TypeOK
      <3>2. data[p] - 1 \in 0..Capacity
        BY <1>1, <3>1, ExecAssumption DEF ExecAssumption
      <3> QED BY <1>1, <3>2 DEF TypeOK
    <2> QED BY <1>1, <2>1 DEF ReadFromPipe, TypeOK, restVars
  <1>2. CASE Goto(t, next) /\ UNCHANGED <<data, table>>
    <2>1. /\ pc' \in [Threads -> Pcs] /\ mtx' \in Threads \cup {NoThread}
          /\ \A u \in Threads : mtx' = u <=> pc'[u] # "idle"
      BY <1>2, PcMoves DEF ReadFromPipe
    <2> QED BY <1>2, <2>1 DEF ReadFromPipe, TypeOK, restVars
  <1>3. CASE ReadError(t, p)
    <2>1. /\ pc' \in [Threads -> Pcs] /\ mtx' \in Threads \cup {NoThread}
          /\ \A u \in Threads : mtx' = u <=> pc'[u] # "idle"
      BY <1>3, PcMoves DEF ReadFromPipe, ReadError, Pcs
    <2> QED BY <1>3, <2>1, ClosedType DEF ReadFromPipe, ReadError, TypeOK, restVars
  <1> QED BY <1>1, <1>2, <1>3 DEF ReadFromPipe

\* Steps that move on, and may close descriptors.
LEMMA MoveType ==
  ASSUME TypeOK, NEW t \in Threads, pc[t] # "idle", NEW where \in Pcs \ {"idle"},
         Goto(t, where), NEW nums, table' = table \/ table' = Closed(nums),
         UNCHANGED <<mtx, callVars, restVars>>
  PROVE  TypeOK'
  <1>1. /\ pc' \in [Threads -> Pcs] /\ mtx' \in Threads \cup {NoThread}
        /\ \A u \in Threads : mtx' = u <=> pc'[u] # "idle"
    BY PcMoves
  <1> QED BY <1>1, ClosedType DEF TypeOK, callVars, restVars

LEMMA StepType ==
  ASSUME TypeOK, NEW t \in Threads, Lock(t) \/ Step(t) \/ Fails(t)
  PROVE  TypeOK'
  <1>1. CASE Lock(t)
    <2>1. pc' \in [Threads -> Pcs] /\ mtx' \in Threads \cup {NoThread}
      BY <1>1 DEF Lock, Goto, TypeOK, Pcs
    <2>2. \A u \in Threads : mtx' = u <=> pc'[u] # "idle"
      BY <1>1, ZeroIsFd DEF Lock, Goto, TypeOK, Pcs
    <2> QED BY <1>1, <2>1, <2>2 DEF Lock, TypeOK, callVars, restVars
  <1>2. CASE CreatePipes(t)
    BY <1>2, PipeType, PipeFailsType DEF CreatePipes, Pcs, Pipes
  <1>3. CASE ForkAndRunLogin(t)
    <2>1. /\ pc' \in [Threads -> Pcs] /\ mtx' \in Threads \cup {NoThread}
          /\ \A u \in Threads : mtx' = u <=> pc'[u] # "idle"
      BY <1>3, PcMoves DEF ForkAndRunLogin, Pcs
    <2> QED BY <1>3, <2>1, ForkedType DEF ForkAndRunLogin, TypeOK, restVars, Clients
  <1>4. CASE WriteToken(t)
    <2>1. CASE Goto(t, "leave")
      BY <1>4, <2>1, MoveType DEF WriteToken, Pcs
    <2>2. CASE Goto(t, "closeIn")
      BY <1>4, <2>2, MoveType DEF WriteToken, Pcs
    <2> QED BY <1>4, <2>1, <2>2 DEF WriteToken
  <1>5. CASE CloseIn(t)
    BY <1>5, MoveType DEF CloseIn, Pcs
  <1>6. CASE CloseWrite(t, "closeOut", "out", "readLogin")
    BY <1>6, MoveType DEF CloseWrite, Pcs
  <1>7. CASE ReadFromPipe(t, "readLogin", "out", "waitLogin")
    BY <1>7, ReadType DEF Pcs, Outputs
  <1>8. CASE WaitForLogin(t)
    <2>1. CASE Goto(t, "leave")
      BY <1>8, <2>1, MoveType DEF WaitForLogin, Pcs
    <2>2. CASE Goto(t, "forkCmd")
      BY <1>8, <2>2, MoveType DEF WaitForLogin, Pcs
    <2> QED BY <1>8, <2>1, <2>2 DEF WaitForLogin
  <1>9. CASE ForkAndRunCommand(t)
    <2>1. /\ pc' \in [Threads -> Pcs] /\ mtx' \in Threads \cup {NoThread}
          /\ \A u \in Threads : mtx' = u <=> pc'[u] # "idle"
      BY <1>9, PcMoves DEF ForkAndRunCommand, Pcs
    <2> QED BY <1>9, <2>1, ForkedType DEF ForkAndRunCommand, TypeOK, restVars, Clients
  <1>10. CASE CloseWrite(t, "closeCmd", "cmd", "readCmd")
    BY <1>10, MoveType DEF CloseWrite, Pcs
  <1>11. CASE ReadFromPipe(t, "readCmd", "cmd", "waitCmd")
    BY <1>11, ReadType DEF Pcs, Outputs
  <1>12. CASE WaitForCommand(t)
    BY <1>12, MoveType DEF WaitForCommand, Pcs
  <1>13. CASE pc[t] = "leave" /\ Leave(t)
    BY <1>13, LeaveType
  <1>14. CASE Fails(t)
    <2>1. CASE PipeFails(t)
      BY <2>1, PipeFailsType
    <2>2. CASE /\ pc[t] = "forkLogin" /\ Goto(t, "leave")
               /\ table' = Closed(Numbers({"in", "out"}))
               /\ UNCHANGED <<mtx, callVars, restVars>>
      BY <2>2, MoveType DEF Pcs
    <2>3. CASE /\ pc[t] \in {"write", "waitLogin", "forkCmd", "waitCmd"}
               /\ Goto(t, "leave")
               /\ UNCHANGED <<mtx, callVars, table, restVars>>
      BY <2>3, MoveType DEF Pcs
    <2>4. ASSUME NEW p \in Outputs, pc[t] \in {"readLogin", "readCmd"}, ReadError(t, p),
                 UNCHANGED <<mtx, pipe, failed, client, restVars>>
          PROVE  TypeOK'
      BY <2>4, MoveType DEF ReadError, Pcs, callVars
    <2> QED BY <1>14, <2>1, <2>2, <2>3, <2>4 DEF Fails, Outputs
  <1> QED BY <1>1, <1>2, <1>3, <1>4, <1>5, <1>6, <1>7, <1>8, <1>9, <1>10, <1>11,
             <1>12, <1>13, <1>14 DEF Step

LEMMA ClientType ==
  ASSUME TypeOK, NEW c \in Clients, ClientStep(c) \/ ClientDies(c)
  PROVE  TypeOK'
  <1>1. MaxPrinted \in Nat /\ Capacity \in Nat
    BY ExecAssumption DEF ExecAssumption
  <1>2. ASSUME NEW how \in {"ok", "bad"}, Ended(c, how)
        PROVE  TypeOK'
    <2>1. client' \in [Clients -> [state : {"none", "runs", "ok", "bad"},
                             ends : SUBSET Ends, left : 0..MaxPrinted]]
      BY <1>1, <1>2 DEF Ended, TypeOK
    <2> QED BY <1>2, <2>1 DEF Ended, TypeOK, restVars
  <1>3. CASE Writes(c)
    <2> DEFINE p == Output(c)
    <2>1. p \in Outputs
      BY DEF Output, Outputs
    <2>2. client[c].left - 1 \in 0..MaxPrinted
      BY <1>1, <1>3 DEF Writes, TypeOK
    <2>3. data[p] + 1 \in 0..Capacity
      BY <1>1, <1>3, <2>1 DEF Writes, TypeOK
    <2>4. client' \in [Clients -> [state : {"none", "runs", "ok", "bad"},
                             ends : SUBSET Ends, left : 0..MaxPrinted]]
      BY <1>3, <2>2 DEF Writes, TypeOK
    <2>5. data' \in [Outputs -> 0..Capacity]
      BY <1>3, <2>3 DEF Writes, TypeOK
    <2> QED BY <1>3, <2>4, <2>5 DEF Writes, TypeOK, restVars
  <1> QED BY <1>2, <1>3 DEF ClientStep, ClientDies

LEMMA RestType ==
  ASSUME TypeOK,
         \/ \E f \in Files : Open(f) \/ Close(f)
         \/ ForkHelper
         \/ HelperEnds
  PROVE  TypeOK'
  <1>1. ASSUME NEW f \in Files, Open(f) PROVE TypeOK'
    <2>1. PICK n \in Fds : /\ table' = [table EXCEPT ![n] = Own(f)]
                           /\ held' = [held EXCEPT ![f] = n]
      BY <1>1 DEF Open
    <2>2. calm' \subseteq Files
      BY <1>1 DEF Open, TypeOK
    <2> QED BY <1>1, <2>1, <2>2 DEF Open, TypeOK, callVars
  <1>2. ASSUME NEW f \in Files, Close(f) PROVE TypeOK'
    <2>1. held' \in [Files -> Fds \cup {NoFd}]
      BY <1>2 DEF Close, TypeOK
    <2> QED BY <1>2, <2>1, ClosedType DEF Close, TypeOK, callVars
  <1>3. CASE ForkHelper
    <2>1. helper' \subseteq Ends
      BY <1>3 DEF ForkHelper, Inherited
    <2> QED BY <1>3, <2>1 DEF ForkHelper, TypeOK, callVars
  <1>4. CASE HelperEnds
    BY <1>4 DEF HelperEnds, TypeOK, callVars
  <1> QED BY <1>1, <1>2, <1>3, <1>4

-----------------------------------------------------------------------------
(* The descriptors.                                                        *)

\* What a step closes, it takes from nobody else.
LEMMA NumberIsFd ==
  ASSUME TypeOK, NEW p \in Pipes, NEW s \in {"r", "w"}
  PROVE  Number(p, s) \in Fds
  BY DEF TypeOK, Number

LEMMA CalmFiles == ASSUME TypeOK PROVE \A f \in calm : f \in Files
  BY DEF TypeOK

\* Within a call, descriptors may go, and new files are not calm.
LEMMA FewerKeepInv ==
  ASSUME TypeOK, EndsInv, CalmInv,
         UNCHANGED <<mtx, pipe>>,
         \A n \in Fds : \/ table'[n] \in {table[n], Free}
                        \/ \E f \in Files : table'[n] = Own(f) /\ f \notin calm',
         calm' \subseteq calm,
         \A t \in Threads : mtx = t => Filled(t)' = Filled(t)
  PROVE  EndsInv' /\ CalmInv'
  <1>1. EndsInv'
    <2> SUFFICES ASSUME NEW n \in Fds, NEW p \in Pipes, NEW s \in {"r", "w"},
                        table'[n] = End(p, s)
                 PROVE  \E t \in Threads : mtx' = t /\ p \in Filled(t)' /\ n = Number(p, s)'
      BY DEF EndsInv, End
    <2>1. table[n] = End(p, s)
      BY Kinds
    <2>2. PICK t \in Threads : mtx = t /\ p \in Filled(t) /\ n = Number(p, s)
      BY <2>1 DEF EndsInv
    <2>3. Number(p, s)' = Number(p, s)
      BY DEF Number
    <2> QED BY <2>2, <2>3
  <1>2. CalmInv'
    <2> SUFFICES ASSUME NEW t \in Threads, mtx = t
                 PROVE  /\ \A p \in Filled(t)', s \in {"r", "w"}, f \in calm' :
                             table'[Number(p, s)'] # Own(f)
                        /\ \A p \in Pipes \ Filled(t)' : pipe'[p] = [r |-> 0, w |-> 0]
      BY DEF CalmInv, Own
    <2>1. Filled(t)' = Filled(t) /\ Filled(t) \subseteq Pipes
      BY DEF Filled, Pipes
    <2>2. ASSUME NEW p \in Filled(t), NEW s \in {"r", "w"}, NEW f \in calm',
                 table'[Number(p, s)'] = Own(f)
          PROVE  FALSE
      <3>1. Number(p, s)' = Number(p, s) /\ Number(p, s) \in Fds
        BY <2>1, NumberIsFd DEF Number
      <3>2. f \in calm /\ f \in Files
        BY <2>2, CalmFiles
      <3>3. table[Number(p, s)] # Own(f)
        BY <3>2 DEF CalmInv
      <3>4. \A g \in Files : g \notin calm' => Own(g) # Own(f)
        BY DEF Own
      <3> QED BY <2>2, <3>1, <3>2, <3>3, <3>4, Kinds
    <2> QED BY <2>1, <2>2 DEF CalmInv
  <1> QED BY <1>1, <1>2

\* Where a call may go once its pipes are filled.
Later == Pcs \ {"idle", "pipeIn", "pipeOut", "pipeCmd"}

LEMMA FilledLater ==
  \A t \in Threads : pc[t] \in Later => Filled(t) = Pipes
  BY DEF Later, Filled, Pcs

LEMMA WithinCall ==
  ASSUME Inv, NEW t \in Threads, mtx = t, pc[t] \in Later, pc'[t] \in Later,
         NEW nums, table' = table \/ table' = Closed(nums),
         UNCHANGED <<mtx, pipe, calm>>
  PROVE  EndsInv' /\ CalmInv'
  <1>1. \A u \in Threads : mtx = u => Filled(u)' = Filled(u)
    BY DEF Filled, Later, Pcs
  <1>2. \A n \in Fds : table'[n] \in {table[n], Free}
    BY DEF Closed
  <1> QED BY <1>1, <1>2, FewerKeepInv DEF Inv

LEMMA NumbersOfAll ==
  \A p \in Pipes, s \in {"r", "w"} : Number(p, s) \in Numbers(Pipes)
  BY DEF Number, Numbers

\* A return closes whatever end there is.
LEMMA ReturnStep ==
  ASSUME Inv, TypeOK', NEW t \in Threads, mtx' = NoThread,
         table' = Closed(Numbers(Pipes))
  PROVE  EndsInv' /\ CalmInv'
  <1>1. ASSUME NEW n \in Fds, NEW p \in Pipes, NEW s \in {"r", "w"}, table'[n] = End(p, s)
        PROVE  FALSE
    <2>1. n \notin Numbers(Pipes) /\ table[n] = End(p, s)
      BY <1>1, Kinds DEF Closed
    <2>2. n = Number(p, s)
      BY <2>1 DEF Inv, EndsInv
    <2> QED BY <2>1, <2>2, NumbersOfAll
  <1>2. EndsInv'
    BY <1>1 DEF EndsInv, End
  <1>3. CalmInv'
    BY ZeroIsFd DEF CalmInv
  <1> QED BY <1>2, <1>3

LEMMA PipeStep ==
  ASSUME Inv, NEW t \in Threads, mtx = t, NEW here, NEW p \in Pipes, NEW next,
         Pipe(t, here, p, next),
         p \notin Filled(t), Filled(t)' = Filled(t) \cup {p}
  PROVE  EndsInv' /\ CalmInv'
  <1>1. PICK r \in Fds, w \in Fds :
          /\ table[r] = Free /\ table[w] = Free /\ r # w
          /\ pipe' = [pipe EXCEPT ![p] = [r |-> r, w |-> w]]
          /\ table' = [table EXCEPT ![r] = End(p, "r"), ![w] = End(p, "w")]
    BY DEF Pipe, IsLowest
  <1>2. mtx' = t /\ calm' = calm /\ TypeOK
    BY DEF Pipe, restVars, Inv
  <1>3. /\ Number(p, "r")' = r /\ Number(p, "w")' = w
        /\ table'[r] = End(p, "r") /\ table'[w] = End(p, "w")
    BY <1>1, <1>2 DEF Number, TypeOK
  <1>4. \A q \in Pipes \ {p}, s \in {"r", "w"} :
          Number(q, s)' = Number(q, s) /\ pipe'[q] = pipe[q]
    BY <1>1, <1>2 DEF Number, TypeOK
  <1>5. \A n \in Fds \ {r, w} : table'[n] = table[n]
    BY <1>1, <1>2 DEF TypeOK
  <1>6. \A n \in Fds, q \in Pipes, s \in {"r", "w"} :
          table[n] = End(q, s) => q \in Filled(t) /\ n = Number(q, s)
    BY DEF Inv, EndsInv
  <1>7. EndsInv'
    <2> SUFFICES ASSUME NEW n \in Fds, NEW q \in Pipes, NEW s \in {"r", "w"},
                        table'[n] = End(q, s)
                 PROVE  q \in Filled(t)' /\ n = Number(q, s)'
      BY <1>2 DEF EndsInv, End
    <2>1. CASE n = r
      BY <1>3, <2>1, Kinds
    <2>2. CASE n = w
      BY <1>3, <2>2, Kinds
    <2>3. CASE n \notin {r, w}
      BY <1>4, <1>5, <1>6, <2>3
    <2> QED BY <2>1, <2>2, <2>3
  <1>8. CalmInv'
    <2> SUFFICES /\ \A q \in Filled(t)', s \in {"r", "w"}, f \in calm :
                      table'[Number(q, s)'] # Own(f)
                 /\ \A q \in Pipes \ Filled(t)' : pipe'[q] = [r |-> 0, w |-> 0]
      BY <1>2 DEF CalmInv, Own
    <2>1. ASSUME NEW q \in Filled(t)', NEW s \in {"r", "w"}, NEW f \in calm
          PROVE  table'[Number(q, s)'] # Own(f)
      <3>1. f \in Files
        BY <1>2, CalmFiles
      <3>2. CASE q = p
        BY <1>3, <3>1, <3>2, Kinds
      <3>3. CASE q # p
        <4>1. q \in Filled(t) /\ q \in Pipes
          BY <3>3 DEF Filled, Pipes
        <4>2. Number(q, s) \in Fds /\ table[Number(q, s)] # Own(f)
          BY <1>2, <4>1, NumberIsFd DEF Inv, CalmInv
        <4>3. Number(q, s)' = Number(q, s)
          BY <1>4, <3>3, <4>1
        <4>4. CASE Number(q, s) \in {r, w}
          BY <1>3, <3>1, <4>3, <4>4, Kinds
        <4>5. CASE Number(q, s) \notin {r, w}
          BY <1>5, <4>2, <4>3, <4>5
        <4> QED BY <4>4, <4>5
      <3> QED BY <3>2, <3>3
    <2>2. \A q \in Pipes \ Filled(t)' : pipe'[q] = [r |-> 0, w |-> 0]
      BY <1>4 DEF Inv, CalmInv
    <2> QED BY <2>1, <2>2
  <1> QED BY <1>7, <1>8

LEMMA CallStep ==
  ASSUME Inv, TypeOK', NEW t \in Threads, Step(t) \/ Fails(t)
  PROVE  EndsInv' /\ CalmInv'
  <1>1. \A where \in Pcs \ {"idle"} : pc[t] = where => mtx = t
    BY DEF Inv, TypeOK
  <1>2. \A where \in Pcs : Goto(t, where) => pc'[t] = where
    BY DEF Inv, TypeOK, Goto
  <1>3. CASE CreatePipes(t)
    <2>1. CASE Pipe(t, "pipeIn", "in", "pipeOut")
      <3>1. mtx = t /\ Filled(t) = {} /\ Filled(t)' = {"in"}
        BY <1>1, <1>2, <2>1 DEF Pipe, Filled, Pcs
      <3> QED BY <2>1, <3>1, PipeStep DEF Pipes
    <2>2. CASE Pipe(t, "pipeOut", "out", "pipeCmd")
      <3>1. mtx = t /\ Filled(t) = {"in"} /\ Filled(t)' = {"in", "out"}
        BY <1>1, <1>2, <2>2 DEF Pipe, Filled, Pcs
      <3> QED BY <2>2, <3>1, PipeStep DEF Pipes
    <2>3. CASE Pipe(t, "pipeCmd", "cmd", "forkLogin")
      <3>1. mtx = t /\ Filled(t) = {"in", "out"} /\ Filled(t)' = {"in", "out", "cmd"}
        BY <1>1, <1>2, <2>3 DEF Pipe, Filled, Pcs, Pipes
      <3> QED BY <2>3, <3>1, PipeStep DEF Pipes
    <2>4. CASE PipeFails(t)
      BY <2>4, ReturnStep DEF PipeFails
    <2> QED BY <1>3, <2>1, <2>2, <2>3, <2>4 DEF CreatePipes
  <1>4. CASE PipeFails(t)
    BY <1>4, ReturnStep DEF PipeFails
  <1>5. CASE pc[t] = "leave" /\ Leave(t)
    BY <1>5, ReturnStep DEF Leave, ClosedAtEnd
  <1>6. ASSUME NEW nums, pc[t] \in Later, pc'[t] \in Later,
               table' = table \/ table' = Closed(nums),
               UNCHANGED <<mtx, pipe, calm>>
        PROVE  EndsInv' /\ CalmInv'
    BY <1>1, <1>6, WithinCall DEF Later
  <1>7. CASE ForkAndRunLogin(t) \/ ForkAndRunCommand(t)
    BY <1>2, <1>6, <1>7 DEF ForkAndRunLogin, ForkAndRunCommand, Later, Pcs, restVars
  <1>8. CASE WriteToken(t)
    <2>1. pc'[t] \in {"leave", "closeIn"}
      BY <1>2, <1>8 DEF WriteToken, Pcs
    <2> QED BY <1>6, <1>8, <2>1 DEF WriteToken, Later, Pcs, callVars, restVars
  <1>9. CASE CloseIn(t)
    BY <1>2, <1>6, <1>9 DEF CloseIn, Later, Pcs, callVars, restVars
  <1>10. CASE \/ CloseWrite(t, "closeOut", "out", "readLogin")
              \/ CloseWrite(t, "closeCmd", "cmd", "readCmd")
    BY <1>2, <1>6, <1>10 DEF CloseWrite, Later, Pcs, callVars, restVars
  <1>11. ASSUME NEW p \in Pipes, pc[t] \in Later, ReadError(t, p), UNCHANGED <<mtx, pipe, restVars>>
         PROVE  EndsInv' /\ CalmInv'
    BY <1>2, <1>6, <1>11 DEF ReadError, Later, Pcs, restVars
  <1>12. ASSUME NEW here \in Later, NEW p \in Pipes, NEW next \in Later,
                ReadFromPipe(t, here, p, next)
         PROVE  EndsInv' /\ CalmInv'
    <2>1. CASE ReadError(t, p)
      BY <1>11, <1>12, <2>1 DEF ReadFromPipe
    <2>2. CASE UNCHANGED table /\ (Goto(t, next) \/ UNCHANGED pc)
      BY <1>2, <1>6, <1>12, <2>2 DEF ReadFromPipe, Later, restVars
    <2> QED BY <1>12, <2>1, <2>2 DEF ReadFromPipe
  <1>13. CASE \/ ReadFromPipe(t, "readLogin", "out", "waitLogin")
              \/ ReadFromPipe(t, "readCmd", "cmd", "waitCmd")
    BY <1>12, <1>13 DEF Later, Pcs, Pipes
  <1>14. CASE WaitForLogin(t) \/ WaitForCommand(t)
    <2>1. pc[t] \in {"waitLogin", "waitCmd"} /\ pc'[t] \in {"leave", "forkCmd"}
      BY <1>2, <1>14 DEF WaitForLogin, WaitForCommand, Pcs
    <2> QED BY <1>6, <1>14, <2>1 DEF WaitForLogin, WaitForCommand, Later, Pcs, callVars, restVars
  <1>15. CASE Fails(t)
    <2>1. CASE pc[t] = "readLogin" /\ ReadError(t, "out") /\ UNCHANGED <<mtx, pipe, restVars>>
      BY <1>11, <2>1 DEF Later, Pcs, Pipes
    <2>2. CASE pc[t] = "readCmd" /\ ReadError(t, "cmd") /\ UNCHANGED <<mtx, pipe, restVars>>
      BY <1>11, <2>2 DEF Later, Pcs, Pipes
    <2>3. CASE /\ pc[t] = "forkLogin" /\ Goto(t, "leave")
               /\ table' = Closed(Numbers({"in", "out"}))
               /\ UNCHANGED <<mtx, callVars, restVars>>
      BY <1>2, <1>6, <2>3 DEF Later, Pcs, callVars, restVars
    <2>4. CASE /\ pc[t] \in {"write", "waitLogin", "forkCmd", "waitCmd"}
               /\ Goto(t, "leave")
               /\ UNCHANGED <<mtx, callVars, table, restVars>>
      BY <1>2, <1>6, <2>4 DEF Later, Pcs, callVars, restVars
    <2> QED BY <1>4, <1>15, <2>1, <2>2, <2>3, <2>4 DEF Fails
  <1> QED BY <1>3, <1>4, <1>5, <1>7, <1>8, <1>9, <1>10, <1>13, <1>14, <1>15 DEF Step

LEMMA LockStep ==
  ASSUME Inv, NEW t \in Threads, Lock(t)
  PROVE  EndsInv' /\ CalmInv'
  <1>1. mtx = NoThread /\ mtx' = t /\ UNCHANGED <<pipe, table, calm>>
    BY DEF Lock, callVars, restVars
  <1>2. \A n \in Fds, p \in Pipes, s \in {"r", "w"} : table[n] # End(p, s)
    BY <1>1, ZeroIsFd DEF Inv, EndsInv
  <1>3. EndsInv'
    BY <1>1, <1>2 DEF EndsInv, End
  <1>4. Filled(t)' = {}
    BY DEF Lock, Goto, Filled, Inv, TypeOK
  <1>5. \A p \in Pipes : pipe'[p] = [r |-> 0, w |-> 0]
    BY <1>1 DEF Inv, IdleInv, FreshPipes
  <1>6. CalmInv'
    BY <1>1, <1>4, <1>5 DEF CalmInv
  <1> QED BY <1>3, <1>6

LEMMA OpenStep ==
  ASSUME Inv, NEW f \in Files, Open(f)
  PROVE  EndsInv' /\ CalmInv'
  <1>1. PICK n \in Fds : table' = [table EXCEPT ![n] = Own(f)]
    BY DEF Open
  <1>2. UNCHANGED <<mtx, pipe, pc>> /\ TypeOK
    BY DEF Open, Inv, callVars
  <1>3. CASE mtx = NoThread
    <2>1. CalmInv'
      BY <1>2, <1>3, ZeroIsFd DEF CalmInv
    <2>2. EndsInv'
      <3> SUFFICES ASSUME NEW k \in Fds, NEW p \in Pipes, NEW s \in {"r", "w"},
                          table'[k] = End(p, s)
                   PROVE  FALSE
        BY DEF EndsInv, End
      <3>1. table[k] = End(p, s)
        BY <1>1, <1>2, Kinds DEF TypeOK
      <3> QED BY <1>3, <3>1, ZeroIsFd DEF Inv, EndsInv
    <2> QED BY <2>1, <2>2
  <1>4. CASE mtx # NoThread
    <2>1. calm' = calm \ {f}
      BY <1>4 DEF Open
    <2>2. \A k \in Fds : \/ table'[k] \in {table[k], Free}
                         \/ \E g \in Files : table'[k] = Own(g) /\ g \notin calm'
      BY <1>1, <1>2, <2>1 DEF TypeOK
    <2>3. \A t \in Threads : Filled(t)' = Filled(t)
      BY <1>2 DEF Filled
    <2> QED BY <1>2, <2>1, <2>2, <2>3, FewerKeepInv DEF Inv
  <1> QED BY <1>3, <1>4

LEMMA QuietStep ==
  ASSUME Inv, TypeOK', UNCHANGED <<pc, mtx, pipe, table, calm>>
  PROVE  Inv'
  <1>1. \A t \in Threads : Filled(t)' = Filled(t)
    BY DEF Filled
  <1>2. EndsInv' /\ CalmInv'
    BY <1>1, FewerKeepInv DEF Inv
  <1> QED BY <1>2 DEF Inv, IdleInv, FreshPipes

\* What takes a file from the table, held being as it was, is a call, and it
\* closes numbers of its own.
LEMMA ClosingStep ==
  ASSUME Inv, Next, NEW f \in Files, NEW n \in Fds,
         table[n] = Own(f), table'[n] # Own(f), held' = held
  PROVE  \E t \in Threads, nums \in SUBSET Numbers(Pipes) :
           /\ mtx = t /\ table' = Closed(nums)
           /\ pc[t] \in Later \/ failed'
  <1>1. ASSUME NEW g \in Files, Open(g) \/ Close(g) PROVE FALSE
    <2>1. held' # held
      BY <1>1, ZeroIsFd DEF Open, Close, Inv, TypeOK
    <2> QED BY <2>1
  <1>2. table' # table
    OBVIOUS
  <1>3. PICK t \in Threads : Step(t) \/ Fails(t)
    BY <1>1, <1>2 DEF Next, Lock, ClientStep, ClientDies, Ended, Writes, ForkHelper, HelperEnds
  <1>4. \A where \in Pcs \ {"idle"} : pc[t] = where => mtx = t
    BY DEF Inv, TypeOK
  <1>5. \A p \in Pipes : {pipe[p].r} \in SUBSET Numbers(Pipes) /\ {pipe[p].w} \in SUBSET Numbers(Pipes)
    BY DEF Numbers
  <1>6. \A ps \in SUBSET Pipes : Numbers(ps) \in SUBSET Numbers(Pipes)
    BY DEF Numbers
  <1>7. \A here, p, next : ~Pipe(t, here, p, next)
    <2> SUFFICES ASSUME NEW here, NEW p, NEW next, Pipe(t, here, p, next) PROVE FALSE
      OBVIOUS
    <2>1. PICK r \in Fds, w \in Fds :
            /\ table[r] = Free /\ table[w] = Free
            /\ table' = [table EXCEPT ![r] = End(p, "r"), ![w] = End(p, "w")]
      BY DEF Pipe, IsLowest
    <2>2. n # r /\ n # w
      BY <2>1, Kinds
    <2> QED BY <2>1, <2>2 DEF Inv, TypeOK
  <1>8. CASE PipeFails(t)
    BY <1>4, <1>6, <1>8 DEF PipeFails, Pcs
  <1>9. CASE pc[t] = "leave" /\ Leave(t)
    BY <1>4, <1>6, <1>9 DEF Leave, ClosedAtEnd, Later, Pcs
  <1>10. CASE CloseIn(t)
    BY <1>4, <1>6, <1>10 DEF CloseIn, Later, Pcs, Pipes
  <1>11. CASE \/ CloseWrite(t, "closeOut", "out", "readLogin")
              \/ CloseWrite(t, "closeCmd", "cmd", "readCmd")
    BY <1>4, <1>5, <1>11 DEF CloseWrite, ClosedBeforeRead, Later, Pcs, Pipes
  <1>12. ASSUME NEW p \in Pipes, pc[t] \in Later, table' = Closed({pipe[p].r})
         PROVE  \E nums \in SUBSET Numbers(Pipes) :
                  mtx = t /\ table' = Closed(nums) /\ pc[t] \in Later
    BY <1>4, <1>5, <1>12 DEF Later
  <1>13. CASE \/ ReadFromPipe(t, "readLogin", "out", "waitLogin")
              \/ ReadFromPipe(t, "readCmd", "cmd", "waitCmd")
    <2>1. pc[t] \in Later
      BY <1>13 DEF ReadFromPipe, Later, Pcs
    <2>2. \E p \in Pipes : table' = Closed({pipe[p].r})
      BY <1>2, <1>13 DEF ReadFromPipe, ReadError, Pipes
    <2> QED BY <1>12, <2>1, <2>2
  <1>14. CASE Fails(t) /\ ~PipeFails(t)
    <2>1. CASE pc[t] = "forkLogin" /\ table' = Closed(Numbers({"in", "out"}))
      BY <1>4, <1>6, <2>1 DEF Later, Pcs, Pipes
    <2>2. CASE \/ pc[t] = "readLogin" /\ ReadError(t, "out")
               \/ pc[t] = "readCmd" /\ ReadError(t, "cmd")
      BY <1>12, <2>2 DEF ReadError, Later, Pcs, Pipes
    <2> QED BY <1>2, <1>14, <2>1, <2>2 DEF Fails
  <1> QED BY <1>2, <1>3, <1>7, <1>8, <1>9, <1>10, <1>11, <1>13, <1>14
          DEF Step, CreatePipes, ForkAndRunLogin, WriteToken, WaitForLogin,
              ForkAndRunCommand, WaitForCommand

LEMMA InvInit == Init => Inv
  <1> SUFFICES ASSUME Init PROVE Inv
    OBVIOUS
  <1>1. TypeOK
    BY TypeInit
  <1>2. EndsInv
    <2> SUFFICES ASSUME NEW n \in Fds, NEW p \in Pipes, NEW s \in {"r", "w"},
                        table[n] = End(p, s)
                 PROVE  FALSE
      BY DEF EndsInv
    <2>1. table[n] \in {Own(Stdin), Free}
      BY DEF Init
    <2> QED BY <2>1, Kinds, ExecAssumption DEF ExecAssumption
  <1>3. CalmInv /\ IdleInv
    BY ZeroIsFd DEF Init, CalmInv, IdleInv, FreshPipes
  <1> QED BY <1>1, <1>2, <1>3 DEF Inv

LEMMA InvStep == Inv /\ [Next]_vars => Inv'
  <1> SUFFICES ASSUME Inv, [Next]_vars PROVE Inv'
    OBVIOUS
  <1>1. ASSUME NEW t \in Threads, Lock(t) PROVE Inv'
    <2>1. IdleInv'
      BY <1>1, ZeroIsFd DEF Lock, IdleInv
    <2> QED BY <1>1, <2>1, StepType, LockStep DEF Inv
  <1>2. ASSUME NEW t \in Threads, Step(t) \/ Fails(t) PROVE Inv'
    <2>1. TypeOK'
      BY <1>2, StepType DEF Inv
    <2>2. IdleInv'
      <3>1. CASE pipe' = FreshPipes
        BY <3>1 DEF IdleInv, FreshPipes
      <3>2. CASE mtx' = mtx /\ pc[t] # "idle"
        <4>1. mtx = t
          BY <3>2 DEF Inv, TypeOK
        <4> QED BY <3>2, <4>1, ZeroIsFd DEF IdleInv
      <3>3. PipeFails(t) \/ Leave(t) => pipe' = FreshPipes
        BY DEF PipeFails, Leave
      <3>4. \A here, p, next : Pipe(t, here, p, next) => mtx' = mtx /\ pc[t] = here
        BY DEF Pipe
      <3>5. \A here, p, next : ReadFromPipe(t, here, p, next) \/ CloseWrite(t, here, p, next)
                                 => mtx' = mtx /\ pc[t] = here
        BY DEF ReadFromPipe, CloseWrite
      <3>6. Fails(t) => \/ PipeFails(t)
                        \/ mtx' = mtx /\ pc[t] # "idle"
        BY DEF Fails
      <3>7. Step(t) => \/ PipeFails(t) \/ Leave(t)
                       \/ mtx' = mtx /\ pc[t] # "idle"
        BY <3>4, <3>5 DEF Step, CreatePipes, ForkAndRunLogin, WriteToken, CloseIn,
                          WaitForLogin, ForkAndRunCommand, WaitForCommand
      <3> QED BY <1>2, <3>1, <3>2, <3>3, <3>6, <3>7
    <2> QED BY <1>2, <2>1, <2>2, CallStep DEF Inv
  <1>3. ASSUME NEW c \in Clients, ClientStep(c) \/ ClientDies(c) PROVE Inv'
    <2>1. TypeOK'
      BY <1>3, ClientType DEF Inv
    <2>2. UNCHANGED <<pc, mtx, pipe, table, calm>>
      BY <1>3 DEF ClientStep, ClientDies, Ended, Writes, restVars
    <2> QED BY <2>1, <2>2, QuietStep
  <1>4. ASSUME NEW f \in Files, Open(f) PROVE Inv'
    <2>1. IdleInv'
      BY <1>4 DEF Open, Inv, IdleInv, callVars, FreshPipes
    <2> QED BY <1>4, <2>1, RestType, OpenStep DEF Inv
  <1>5. ASSUME NEW f \in Files, Close(f) PROVE Inv'
    <2>1. TypeOK'
      BY <1>5, RestType DEF Inv
    <2>2. UNCHANGED <<pc, mtx, pipe, calm>> /\ table' = Closed({held[f]})
      BY <1>5 DEF Close, callVars
    <2>3. EndsInv' /\ CalmInv'
      <3>1. \A n \in Fds : table'[n] \in {table[n], Free}
        BY <2>2 DEF Closed
      <3>2. \A t \in Threads : Filled(t)' = Filled(t)
        BY <2>2 DEF Filled
      <3> QED BY <2>2, <3>1, <3>2, FewerKeepInv DEF Inv
    <2> QED BY <2>1, <2>2, <2>3 DEF Inv, IdleInv, FreshPipes
  <1>6. CASE ForkHelper \/ HelperEnds
    <2>1. TypeOK'
      BY <1>6, RestType DEF Inv
    <2>2. UNCHANGED <<pc, mtx, pipe, table, calm>>
      BY <1>6 DEF ForkHelper, HelperEnds, callVars
    <2> QED BY <2>1, <2>2, QuietStep
  <1>7. CASE UNCHANGED vars
    <2>1. TypeOK'
      BY <1>7 DEF vars, callVars, restVars, Inv, TypeOK
    <2> QED BY <1>7, <2>1, QuietStep DEF vars, callVars, restVars
  <1> QED BY <1>1, <1>2, <1>3, <1>4, <1>5, <1>6, <1>7 DEF Next

-----------------------------------------------------------------------------
(* The theorems.                                                           *)

\* The invariant is inductive: types, where ends are, whose numbers are whose.
THEOREM InvHolds == Spec => []Inv
  BY InvInit, InvStep, PTL DEF Spec

\* TypeOK: the types, and g_mtx belongs to the thread that is in a call.
THEOREM TypeCorrect == Spec => []TypeOK
  <1>1. Inv => TypeOK
    BY DEF Inv
  <1> QED BY <1>1, InvHolds, PTL

\* NoEndIsLeft: every return of ExecOpenbaoCmd closes every end, even after
\* numbers were closed twice or taken from under the call.
THEOREM NothingIsLeft == Spec => []NoEndIsLeft
  <1>1. Inv => NoEndIsLeft
    <2> SUFFICES ASSUME Inv, mtx = NoThread, NEW n \in Fds, table[n] \in Ends
                 PROVE  FALSE
      BY DEF NoEndIsLeft
    <2>1. PICK p \in Pipes, s \in {"r", "w"} : table[n] = End(p, s)
      BY Kinds
    <2> QED BY <2>1, ZeroIsFd DEF Inv, EndsInv
  <1> QED BY <1>1, InvHolds, PTL

\* OnlyFilesOpenedMeanwhileAreClosed: the numbers a call closes were free when
\* pipe() gave them out, or are 0.
THEOREM OthersAreSpared == Spec => OnlyFilesOpenedMeanwhileAreClosed
  <1> DEFINE Spared == \A f \in Files, n \in Fds :
        /\ table[n] = Own(f) /\ table'[n] # Own(f)
        /\ UNCHANGED held
        => f \notin calm \/ (n = 0 /\ failed')
  <1>1. Inv /\ [Next]_vars => [Spared]_vars
    <2> SUFFICES ASSUME Inv, Next, NEW f \in Files, NEW n \in Fds,
                        table[n] = Own(f), table'[n] # Own(f), held' = held,
                        f \in calm
                 PROVE  n = 0 /\ failed'
      OBVIOUS
    <2>1. PICK t \in Threads, nums \in SUBSET Numbers(Pipes) :
            /\ mtx = t /\ table' = Closed(nums)
            /\ pc[t] \in Later \/ failed'
      BY ClosingStep
    <2>2. n \in Numbers(Pipes)
      BY <2>1 DEF Closed
    <2>3. PICK p \in Pipes, s \in {"r", "w"} : n = Number(p, s)
      BY <2>2 DEF Number, Numbers
    <2>4. p \notin Filled(t)
      BY <2>1, <2>3 DEF Inv, CalmInv
    <2>5. n = 0
      BY <2>1, <2>3, <2>4 DEF Inv, CalmInv, Number
    <2>6. pc[t] \notin Later
      BY <2>4, FilledLater
    <2> QED BY <2>1, <2>5, <2>6
  <1>2. Spec => [][Spared]_vars
    BY <1>1, InvHolds, PTL DEF Spec
  <1> QED BY <1>2 DEF OnlyFilesOpenedMeanwhileAreClosed

-----------------------------------------------------------------------------
(* Who waits for whom.                                                     *)

\* The process has no descriptor of e.
Gone(e) == \A n \in Fds : table[n] # e

\* Where a call is before, with and after each of its clients.
BeforeLogin == {"pipeIn", "pipeOut", "pipeCmd", "forkLogin"}
WithLogin   == {"write", "closeIn", "closeOut", "readLogin", "waitLogin"}
BeforeCmd   == BeforeLogin \cup WithLogin \cup {"forkCmd"}
WithCmd     == {"closeCmd", "readCmd", "waitCmd"}

\* A client that has ended has nothing open, and one that runs has not the
\* ends that would make it wait for itself.
ClientInv ==
  /\ \A c \in Clients : client[c].state # "runs" => client[c].ends = {}
  /\ mtx = NoThread => \A c \in Clients : client[c].state = "none"
  /\ End("in", "w") \notin client["login"].ends
  /\ End("out", "r") \notin client["login"].ends
  /\ End("cmd", "r") \notin client["cmd"].ends

\* What a call that has come to q has started and closed.  It stops reading
\* when nobody writes any more, or when its end was taken from under it.
Stage(q) ==
  /\ q \in BeforeLogin => client["login"].state = "none"
  /\ q \in WithLogin => client["login"].state # "none"
  /\ q \in WithCmd \cup {"forkCmd"} => client["login"].state = "ok"
  /\ q \in BeforeCmd => client["cmd"].state = "none"
  /\ q \in WithCmd => client["cmd"].state # "none"
  /\ q \in {"closeOut", "readLogin", "waitLogin"} => Gone(End("in", "w"))
  /\ q \in {"readLogin", "waitLogin"} => Gone(End("out", "w"))
  /\ q \in {"readCmd", "waitCmd"} => Gone(End("cmd", "w"))
  /\ q = "waitLogin" =>
       Gone(End("out", "r")) \/ End("out", "w") \notin client["login"].ends
  /\ q = "waitCmd" =>
       Gone(End("cmd", "r")) \/ End("cmd", "w") \notin client["cmd"].ends

WaitInv == ClientInv /\ \A t \in Threads : mtx = t => Stage(pc[t])

\* Descriptors may go, and files take their numbers: the ends that are gone
\* stay gone.
LEMMA GoneStays ==
  ASSUME \A n \in Fds : \/ table'[n] \in {table[n], Free}
                        \/ \E f \in Files : table'[n] = Own(f)
  PROVE  \A p \in Pipes, s \in {"r", "w"} : Gone(End(p, s)) => Gone(End(p, s))'
  <1> SUFFICES ASSUME NEW p \in Pipes, NEW s \in {"r", "w"}, Gone(End(p, s)),
                      NEW n \in Fds, table'[n] = End(p, s)
               PROVE  FALSE
    BY DEF Gone, End
  <1>1. table[n] # End(p, s)
    BY DEF Gone
  <1> QED BY <1>1, Kinds

LEMMA OnlyOneHas ==
  ASSUME Inv, NEW p \in Pipes, NEW s \in {"r", "w"}, NEW n \in Fds,
         table[n] = End(p, s)
  PROVE  n = Number(p, s)
  BY DEF Inv, EndsInv

LEMMA ClosedIsGone ==
  ASSUME Inv, NEW p \in Pipes, NEW s \in {"r", "w"}, NEW nums,
         Number(p, s) \in nums, table' = Closed(nums)
  PROVE  Gone(End(p, s))'
  <1> SUFFICES ASSUME NEW n \in Fds, table'[n] = End(p, s)
               PROVE  FALSE
    BY DEF Gone, End
  <1>1. n \notin nums /\ table[n] = End(p, s)
    BY Kinds DEF Closed
  <1> QED BY <1>1, OnlyOneHas

LEMMA NotInherited ==
  ASSUME Inv, NEW p \in Pipes, NEW s \in {"r", "w"}, NEW nums,
         Number(p, s) \in nums
  PROVE  End(p, s) \notin Inherited(nums)
  BY OnlyOneHas DEF Inherited

\* A step of the thread in a call, by what it does to the stage.
LEMMA NextStage ==
  ASSUME Inv, NEW t \in Threads, mtx = t, mtx' = t, ClientInv', Stage(pc[t])'
  PROVE  WaitInv'
  BY DEF WaitInv

\* Steps that leave the clients alone.
LEMMA SameClients ==
  ASSUME ClientInv, client' = client, NEW t \in Threads, mtx = t, mtx' = t
  PROVE  ClientInv'
  BY ZeroIsFd DEF ClientInv, End

LEMMA CallWaits ==
  ASSUME Inv, WaitInv, NEW t \in Threads, Step(t) \/ Fails(t)
  PROVE  WaitInv'
  <1>1. /\ mtx \in Threads \cup {NoThread} /\ pc \in [Threads -> Pcs]
        /\ \A u \in Threads : mtx = u <=> pc[u] # "idle"
    BY DEF Inv, TypeOK
  <1>2. pc[t] # "idle"
    BY DEF Step, Fails, CreatePipes, Pipe, PipeFails, ForkAndRunLogin, WriteToken,
           CloseIn, CloseWrite, ReadFromPipe, WaitForLogin, ForkAndRunCommand, WaitForCommand
  <1>3. mtx = t /\ Stage(pc[t]) /\ ClientInv
    BY <1>1, <1>2 DEF WaitInv
  <1>4. ASSUME NEW nums, table' = Closed(nums) \/ table' = table
        PROVE  \A p \in Pipes, s \in {"r", "w"} : Gone(End(p, s)) => Gone(End(p, s))'
    <2>1. \A n \in Fds : table'[n] \in {table[n], Free}
      BY <1>4 DEF Closed
    <2> QED BY <2>1, GoneStays
  <1>5. Pipes = {"in", "out", "cmd"} /\ Clients = {"login", "cmd"}
    BY DEF Pipes, Clients
  <1>6. ASSUME mtx' = NoThread, \A c \in Clients : client'[c] = NoClient
        PROVE  WaitInv'
    BY <1>5, <1>6, ZeroIsFd DEF WaitInv, ClientInv, NoClient
  <1>7. CASE pc[t] = "leave" /\ Leave(t)
    BY <1>6, <1>7 DEF Leave
  <1>8. CASE PipeFails(t)
    <2>1. \A c \in Clients : client'[c].state = "none"
      BY <1>3, <1>5, <1>8 DEF PipeFails, Stage, BeforeLogin, BeforeCmd
    <2>2. client' = client /\ mtx' = NoThread
      BY <1>8 DEF PipeFails
    <2> QED BY <1>3, <1>5, <2>1, <2>2, ZeroIsFd DEF WaitInv, ClientInv, End
  <1>9. ASSUME Goto(t, "leave"), mtx' = mtx, client' = client PROVE WaitInv'
    <2>1. pc'[t] = "leave"
      BY <1>1, <1>9 DEF Goto
    <2>2. Stage(pc[t])'
      BY <2>1 DEF Stage, BeforeLogin, WithLogin, BeforeCmd, WithCmd
    <2> QED BY <1>3, <1>9, <2>2, SameClients, NextStage
  <1>10. ASSUME NEW here, NEW p, NEW next, Pipe(t, here, p, next), here \in BeforeLogin,
                next \in BeforeLogin
         PROVE  WaitInv'
    <2>1. pc[t] = here /\ pc'[t] = next /\ mtx' = mtx /\ client' = client
      BY <1>1, <1>10 DEF Pipe, Goto
    <2>2. client["login"].state = "none" /\ client["cmd"].state = "none"
      BY <1>3, <1>10, <2>1 DEF Stage, BeforeCmd
    <2>3. Stage(pc[t])'
      BY <1>10, <2>1, <2>2 DEF Stage, BeforeLogin, WithLogin, BeforeCmd, WithCmd
    <2> QED BY <1>3, <2>1, <2>3, SameClients, NextStage
  <1>11. CASE CreatePipes(t)
    BY <1>8, <1>10, <1>11 DEF CreatePipes, BeforeLogin
  <1>12. CASE ForkAndRunLogin(t)
    <2>1. /\ pc[t] = "forkLogin" /\ pc'[t] = "write" /\ mtx' = mtx
          /\ Forked("login", {pipe["out"].r, pipe["in"].w})
      BY <1>1, <1>12 DEF ForkAndRunLogin, Goto
    <2>2. PICK n \in 0..MaxPrinted :
            client' = [client EXCEPT !["login"] =
                         [state |-> "runs", left |-> n,
                          ends |-> Inherited({pipe["out"].r, pipe["in"].w})]]
      BY <2>1 DEF Forked
    <2>3. DOMAIN client = Clients
      BY DEF Inv, TypeOK
    <2>4. /\ client'["cmd"] = client["cmd"] /\ client'["login"].state = "runs"
          /\ client'["login"].ends = Inherited({pipe["out"].r, pipe["in"].w})
      BY <1>5, <2>2, <2>3 DEF Inv, TypeOK
    <2>5. client["cmd"].state = "none"
      BY <1>3, <2>1 DEF Stage, BeforeCmd, BeforeLogin
    <2>6. /\ End("in", "w") \notin client'["login"].ends
          /\ End("out", "r") \notin client'["login"].ends
      BY <1>5, <2>4, NotInherited DEF Number
    <2>7. ClientInv'
      BY <1>3, <1>5, <2>1, <2>4, <2>6, ZeroIsFd DEF ClientInv, End
    <2>8. Stage(pc[t])'
      BY <2>1, <2>4, <2>5 DEF Stage, BeforeLogin, WithLogin, BeforeCmd, WithCmd
    <2> QED BY <1>3, <2>1, <2>7, <2>8, NextStage
  <1>13. CASE WriteToken(t)
    <2>1. CASE Goto(t, "leave")
      BY <1>9, <1>13, <2>1 DEF WriteToken, callVars
    <2>2. CASE Goto(t, "closeIn")
      <3>1. /\ pc[t] = "write" /\ pc'[t] = "closeIn" /\ mtx' = mtx /\ client' = client
        BY <1>1, <1>13, <2>2 DEF WriteToken, Goto, callVars
      <3>2. Stage(pc[t])'
        BY <1>3, <3>1 DEF Stage, BeforeLogin, WithLogin, BeforeCmd, WithCmd
      <3> QED BY <1>3, <3>1, <3>2, SameClients, NextStage
    <2> QED BY <1>13, <2>1, <2>2 DEF WriteToken
  <1>14. CASE CloseIn(t)
    <2>1. /\ pc[t] = "closeIn" /\ pc'[t] = "closeOut" /\ mtx' = mtx /\ client' = client
          /\ table' = Closed(Numbers({"in"}))
      BY <1>1, <1>14 DEF CloseIn, Goto, callVars
    <2>2. Gone(End("in", "w"))'
      BY <1>5, <2>1, ClosedIsGone DEF Number, Numbers
    <2>3. Stage(pc[t])'
      BY <1>3, <2>1, <2>2 DEF Stage, BeforeLogin, WithLogin, BeforeCmd, WithCmd, End
    <2> QED BY <1>3, <2>1, <2>3, SameClients, NextStage
  <1>15. CASE CloseWrite(t, "closeOut", "out", "readLogin")
    <2>1. /\ pc[t] = "closeOut" /\ pc'[t] = "readLogin" /\ mtx' = mtx /\ client' = client
          /\ table' = Closed({pipe["out"].w})
      BY <1>1, <1>15 DEF CloseWrite, ClosedBeforeRead, Goto, callVars
    <2>2. Gone(End("out", "w"))'
      BY <1>5, <2>1, ClosedIsGone DEF Number
    <2>3. Gone(End("in", "w"))'
      BY <1>3, <1>4, <1>5, <2>1 DEF Stage
    <2>4. Stage(pc[t])'
      BY <1>3, <2>1, <2>2, <2>3 DEF Stage, BeforeLogin, WithLogin, BeforeCmd, WithCmd, End
    <2> QED BY <1>3, <2>1, <2>4, SameClients, NextStage
  <1>16. CASE ReadFromPipe(t, "readLogin", "out", "waitLogin")
    <2>1. pc[t] = "readLogin" /\ mtx' = mtx /\ client' = client /\ pipe' = pipe
      BY <1>16 DEF ReadFromPipe
    <2>2. CASE ReadError(t, "out")
      BY <1>9, <2>1, <2>2 DEF ReadError
    <2>3. CASE UNCHANGED <<pc, table>>
      <3>1. Stage(pc[t])'
        BY <1>3, <2>1, <2>3 DEF Stage, Gone, End
      <3> QED BY <1>3, <2>1, <3>1, SameClients, NextStage
    <2>4. CASE /\ Goto(t, "waitLogin") /\ UNCHANGED table
               /\ table[pipe["out"].r] = End("out", "r")
                    => ~HeldBySomeone(End("out", "w"))
      <3>1. pc'[t] = "waitLogin"
        BY <1>1, <2>4 DEF Goto
      <3>2. Gone(End("out", "r")) \/ End("out", "w") \notin client["login"].ends
        <4>1. CASE table[pipe["out"].r] = End("out", "r")
          BY <1>5, <2>4, <4>1 DEF HeldBySomeone
        <4>2. CASE table[pipe["out"].r] # End("out", "r")
          BY <1>5, <4>2, OnlyOneHas DEF Gone, Number
        <4> QED BY <4>1, <4>2
      <3>3. Stage(pc[t])'
        BY <1>3, <2>1, <2>4, <3>1, <3>2
           DEF Stage, BeforeLogin, WithLogin, BeforeCmd, WithCmd, Gone, End
      <3> QED BY <1>3, <2>1, <3>3, SameClients, NextStage
    <2> QED BY <1>16, <2>2, <2>3, <2>4 DEF ReadFromPipe
  <1>17. CASE WaitForLogin(t)
    <2>1. CASE Goto(t, "leave")
      BY <1>9, <1>17, <2>1 DEF WaitForLogin, callVars
    <2>2. CASE Goto(t, "forkCmd") /\ client["login"].state = "ok"
      <3>1. /\ pc[t] = "waitLogin" /\ pc'[t] = "forkCmd" /\ mtx' = mtx /\ client' = client
        BY <1>1, <1>17, <2>2 DEF WaitForLogin, Goto, callVars
      <3>2. client["cmd"].state = "none"
        BY <1>3, <3>1 DEF Stage, BeforeCmd, WithLogin
      <3>3. Stage(pc[t])'
        BY <2>2, <3>1, <3>2 DEF Stage, BeforeLogin, WithLogin, BeforeCmd, WithCmd
      <3> QED BY <1>3, <3>1, <3>3, SameClients, NextStage
    <2> QED BY <1>17, <2>1, <2>2 DEF WaitForLogin
  <1>18. CASE ForkAndRunCommand(t)
    <2>1. /\ pc[t] = "forkCmd" /\ pc'[t] = "closeCmd" /\ mtx' = mtx
          /\ Forked("cmd", {pipe["cmd"].r})
      BY <1>1, <1>18 DEF ForkAndRunCommand, Goto
    <2>2. PICK n \in 0..MaxPrinted :
            client' = [client EXCEPT !["cmd"] =
                         [state |-> "runs", left |-> n,
                          ends |-> Inherited({pipe["cmd"].r})]]
      BY <2>1 DEF Forked
    <2>3. DOMAIN client = Clients
      BY DEF Inv, TypeOK
    <2>4. /\ client'["login"] = client["login"] /\ client'["cmd"].state = "runs"
          /\ client'["cmd"].ends = Inherited({pipe["cmd"].r})
      BY <1>5, <2>2, <2>3 DEF Inv, TypeOK
    <2>5. client["login"].state = "ok"
      BY <1>3, <2>1 DEF Stage
    <2>6. End("cmd", "r") \notin client'["cmd"].ends
      BY <1>5, <2>4, NotInherited DEF Number
    <2>7. ClientInv'
      BY <1>3, <1>5, <2>1, <2>4, <2>6, ZeroIsFd DEF ClientInv, End
    <2>8. Stage(pc[t])'
      BY <2>1, <2>4, <2>5 DEF Stage, BeforeLogin, WithLogin, BeforeCmd, WithCmd
    <2> QED BY <1>3, <2>1, <2>7, <2>8, NextStage
  <1>19. CASE CloseWrite(t, "closeCmd", "cmd", "readCmd")
    <2>1. /\ pc[t] = "closeCmd" /\ pc'[t] = "readCmd" /\ mtx' = mtx /\ client' = client
          /\ table' = Closed({pipe["cmd"].w})
      BY <1>1, <1>19 DEF CloseWrite, ClosedBeforeRead, Goto, callVars
    <2>2. Gone(End("cmd", "w"))'
      BY <1>5, <2>1, ClosedIsGone DEF Number
    <2>3. Stage(pc[t])'
      BY <1>3, <2>1, <2>2 DEF Stage, BeforeLogin, WithLogin, BeforeCmd, WithCmd, End
    <2> QED BY <1>3, <2>1, <2>3, SameClients, NextStage
  <1>20. CASE ReadFromPipe(t, "readCmd", "cmd", "waitCmd")
    <2>1. pc[t] = "readCmd" /\ mtx' = mtx /\ client' = client /\ pipe' = pipe
      BY <1>20 DEF ReadFromPipe
    <2>2. CASE ReadError(t, "cmd")
      BY <1>9, <2>1, <2>2 DEF ReadError
    <2>3. CASE UNCHANGED <<pc, table>>
      <3>1. Stage(pc[t])'
        BY <1>3, <2>1, <2>3 DEF Stage, Gone, End
      <3> QED BY <1>3, <2>1, <3>1, SameClients, NextStage
    <2>4. CASE /\ Goto(t, "waitCmd") /\ UNCHANGED table
               /\ table[pipe["cmd"].r] = End("cmd", "r")
                    => ~HeldBySomeone(End("cmd", "w"))
      <3>1. pc'[t] = "waitCmd"
        BY <1>1, <2>4 DEF Goto
      <3>2. Gone(End("cmd", "r")) \/ End("cmd", "w") \notin client["cmd"].ends
        <4>1. CASE table[pipe["cmd"].r] = End("cmd", "r")
          BY <1>5, <2>4, <4>1 DEF HeldBySomeone
        <4>2. CASE table[pipe["cmd"].r] # End("cmd", "r")
          BY <1>5, <4>2, OnlyOneHas DEF Gone, Number
        <4> QED BY <4>1, <4>2
      <3>3. Stage(pc[t])'
        BY <1>3, <2>1, <2>4, <3>1, <3>2
           DEF Stage, BeforeLogin, WithLogin, BeforeCmd, WithCmd, Gone, End
      <3> QED BY <1>3, <2>1, <3>3, SameClients, NextStage
    <2> QED BY <1>20, <2>2, <2>3, <2>4 DEF ReadFromPipe
  <1>21. CASE WaitForCommand(t)
    BY <1>9, <1>21 DEF WaitForCommand, callVars
  <1>22. CASE Fails(t)
    BY <1>8, <1>9, <1>22 DEF Fails, ReadError, callVars
  <1> QED BY <1>7, <1>11, <1>12, <1>13, <1>14, <1>15, <1>16, <1>17, <1>18, <1>19,
             <1>20, <1>21, <1>22 DEF Step

LEMMA ClientWaitsOn ==
  ASSUME Inv, WaitInv, NEW c \in Clients, ClientStep(c) \/ ClientDies(c)
  PROVE  WaitInv'
  <1>1. /\ client[c].state = "runs"
        /\ client'[c].state \in {"runs", "ok", "bad"}
        /\ client'[c].ends \subseteq client[c].ends
        /\ client'[c].state # "runs" => client'[c].ends = {}
        /\ \A d \in Clients : d # c => client'[d] = client[d]
        /\ UNCHANGED <<pc, mtx, table>>
    <2>1. client \in [Clients -> [state : {"none", "runs", "ok", "bad"},
                                  ends : SUBSET Ends, left : 0..MaxPrinted]]
      BY DEF Inv, TypeOK
    <2>2. ASSUME NEW how \in {"ok", "bad"}, Ended(c, how)
          PROVE  /\ client[c].state = "runs"
                 /\ client'[c].state = how /\ client'[c].ends = {}
                 /\ \A d \in Clients : d # c => client'[d] = client[d]
                 /\ UNCHANGED <<pc, mtx, table>>
      BY <2>1, <2>2 DEF Ended
    <2>3. CASE Writes(c)
      BY <2>1, <2>3 DEF Writes
    <2>4. Writes(c) \/ \E how \in {"ok", "bad"} : Ended(c, how)
      BY DEF ClientStep, ClientDies
    <2> QED BY <2>2, <2>3, <2>4
  <1>2. "login" \in Clients /\ "cmd" \in Clients
    BY DEF Clients
  <1>3. ClientInv'
    BY <1>1, <1>2 DEF WaitInv, ClientInv, End
  <1>4. \A t \in Threads : Stage(pc[t]) => Stage(pc[t])'
    <2> SUFFICES ASSUME NEW t \in Threads, Stage(pc[t]) PROVE Stage(pc[t])'
      OBVIOUS
    <2>1. \A p \in Pipes, s \in {"r", "w"} : Gone(End(p, s)) => Gone(End(p, s))'
      BY <1>1 DEF Gone, End
    <2>2. \A d \in Clients : /\ client'[d].state = "none" <=> client[d].state = "none"
                             /\ client[d].state = "ok" => client'[d].state = "ok"
                             /\ client'[d].ends \subseteq client[d].ends
      BY <1>1
    <2>3. pc'[t] = pc[t]
      BY <1>1
    <2> QED BY <1>2, <2>1, <2>2, <2>3 DEF Stage, Pipes, End
  <1> QED BY <1>1, <1>3, <1>4 DEF WaitInv

LEMMA RestWaits ==
  ASSUME Inv, WaitInv, UNCHANGED <<pc, mtx, client>>,
         \A n \in Fds : \/ table'[n] \in {table[n], Free}
                        \/ \E f \in Files : table'[n] = Own(f)
  PROVE  WaitInv'
  <1>1. \A p \in Pipes, s \in {"r", "w"} : Gone(End(p, s)) => Gone(End(p, s))'
    BY GoneStays
  <1>2. ClientInv'
    BY DEF WaitInv, ClientInv, End
  <1>3. \A t \in Threads : Stage(pc[t]) => Stage(pc[t])'
    BY <1>1 DEF Stage, Pipes, End
  <1> QED BY <1>2, <1>3 DEF WaitInv

LEMMA WaitStep == Inv /\ WaitInv /\ [Next]_vars => WaitInv'
  <1> SUFFICES ASSUME Inv, WaitInv, [Next]_vars PROVE WaitInv'
    OBVIOUS
  <1>1. ASSUME NEW t \in Threads, Lock(t) PROVE WaitInv'
    <2>1. mtx = NoThread /\ mtx' = t /\ client' = client /\ pc'[t] = "pipeIn"
      BY <1>1 DEF Lock, Goto, Inv, TypeOK, callVars
    <2>2. client["login"].state = "none" /\ client["cmd"].state = "none"
      BY <2>1 DEF WaitInv, ClientInv, Clients
    <2>3. Stage(pc[t])'
      BY <2>1, <2>2 DEF Stage, BeforeLogin, WithLogin, BeforeCmd, WithCmd
    <2>4. ClientInv'
      BY <2>1, ZeroIsFd DEF WaitInv, ClientInv, End
    <2> QED BY <2>1, <2>3, <2>4 DEF WaitInv
  <1>2. ASSUME NEW f \in Files, Open(f) PROVE WaitInv'
    <2>1. PICK n \in Fds : table' = [table EXCEPT ![n] = Own(f)]
      BY <1>2 DEF Open
    <2>2. \A k \in Fds : \/ table'[k] \in {table[k], Free}
                         \/ \E g \in Files : table'[k] = Own(g)
      BY <2>1 DEF Inv, TypeOK
    <2> QED BY <1>2, <2>2, RestWaits DEF Open, callVars
  <1>3. ASSUME NEW f \in Files, Close(f) PROVE WaitInv'
    BY <1>3, RestWaits DEF Close, Closed, callVars
  <1>4. CASE ForkHelper \/ HelperEnds \/ UNCHANGED vars
    BY <1>4, RestWaits DEF ForkHelper, HelperEnds, vars, callVars
  <1> QED BY <1>1, <1>2, <1>3, <1>4, CallWaits, ClientWaitsOn DEF Next

\* A call is never waited for by those it waits for: when it reads, the
\* process has closed the end that would keep it reading; the login's input
\* ends before the call reads; the pipe that is read is empty, so that its
\* writer has room; and a pipe that nobody reads any more ends its writer.
THEOREM NobodyWaitsInCircles == ASSUME Capacity > 0
                                PROVE  Spec => []NoCircularWait
  <1>1. Init => WaitInv
    BY ZeroIsFd DEF Init, WaitInv, ClientInv, NoClient, Clients
  <1>2. Inv /\ WaitInv => NoCircularWait
    <2> SUFFICES ASSUME Inv, WaitInv, NEW t \in Threads, Waits(t), helper = {}
                 PROVE  \E c \in Clients : client[c].state = "runs" /\ ~ClientWaits(c)
      BY DEF NoCircularWait
    <2>1. "login" \in Clients /\ "cmd" \in Clients
      BY DEF Clients
    <2>2. mtx = t /\ Stage(pc[t])
      BY DEF Waits, WaitInv, Inv, TypeOK
    <2>3. ClientInv /\ Capacity \in Nat
      BY ExecAssumption DEF WaitInv, ExecAssumption
    <2>4. \A c \in Clients : client[c].state \in {"none", "runs", "ok", "bad"}
      BY DEF Inv, TypeOK
    <2>5. ASSUME client["cmd"].state # "runs", Gone(End("in", "w"))
          PROVE  ~HeldBySomeone(End("in", "w"))
      BY <2>3, <2>5 DEF HeldBySomeone, Gone, ClientInv, Clients
    <2>6. CASE pc[t] = "readLogin"
      <3>1. /\ Gone(End("in", "w")) /\ Gone(End("out", "w"))
            /\ client["cmd"].state = "none"
        BY <2>2, <2>6 DEF Stage, BeforeCmd, WithLogin
      <3>2. data["out"] = 0 /\ HeldBySomeone(End("out", "w"))
        BY <2>6 DEF Waits, WaitsForOutput
      <3>3. client["login"].state = "runs"
        BY <2>3, <3>1, <3>2 DEF HeldBySomeone, Gone, ClientInv, Clients
      <3>4. ~HeldBySomeone(End("in", "w"))
        BY <2>5, <3>1
      <3>5. ~ClientWaits("login")
        BY <2>3, <3>2, <3>4 DEF ClientWaits, Output
      <3> QED BY <2>1, <3>3, <3>5
    <2>7. CASE pc[t] = "waitLogin"
      <3>1. /\ Gone(End("in", "w")) /\ Gone(End("out", "w"))
            /\ client["cmd"].state = "none" /\ client["login"].state # "none"
            /\ Gone(End("out", "r")) \/ End("out", "w") \notin client["login"].ends
        BY <2>2, <2>7 DEF Stage, BeforeCmd, WithLogin
      <3>2. client["login"].state = "runs"
        BY <2>1, <2>4, <2>7, <3>1 DEF Waits, WaitsForEnd
      <3>3. ~HeldBySomeone(End("out", "r")) \/ End("out", "w") \notin client["login"].ends
        BY <2>3, <3>1 DEF HeldBySomeone, Gone, ClientInv, Clients
      <3>4. ~ClientWaits("login")
        BY <3>3 DEF ClientWaits, Output
      <3> QED BY <2>1, <3>2, <3>4
    <2>8. CASE pc[t] = "readCmd"
      <3>1. Gone(End("cmd", "w")) /\ client["login"].state = "ok"
        BY <2>2, <2>8 DEF Stage, WithCmd
      <3>2. data["cmd"] = 0 /\ HeldBySomeone(End("cmd", "w"))
        BY <2>8 DEF Waits, WaitsForOutput
      <3>3. client["cmd"].state = "runs"
        BY <2>3, <3>1, <3>2 DEF HeldBySomeone, Gone, ClientInv, Clients
      <3>4. ~ClientWaits("cmd")
        BY <2>3, <3>2 DEF ClientWaits, Output
      <3> QED BY <2>1, <3>3, <3>4
    <2>9. CASE pc[t] = "waitCmd"
      <3>1. /\ client["login"].state = "ok" /\ client["cmd"].state # "none"
            /\ Gone(End("cmd", "r")) \/ End("cmd", "w") \notin client["cmd"].ends
        BY <2>2, <2>9 DEF Stage, WithCmd
      <3>2. client["cmd"].state = "runs"
        BY <2>1, <2>4, <2>9, <3>1 DEF Waits, WaitsForEnd
      <3>3. ~HeldBySomeone(End("cmd", "r")) \/ End("cmd", "w") \notin client["cmd"].ends
        BY <2>3, <3>1 DEF HeldBySomeone, Gone, ClientInv, Clients
      <3>4. ~ClientWaits("cmd")
        BY <3>3 DEF ClientWaits, Output
      <3> QED BY <2>1, <3>2, <3>4
    <2> QED BY <2>6, <2>7, <2>8, <2>9 DEF Waits
  <1> QED BY <1>1, <1>2, WaitStep, InvHolds, PTL DEF Spec

-----------------------------------------------------------------------------
(* Calls end.                                                              *)

\* When the thread goes on.
LEMMA NearerIsShorter ==
  ASSUME NEW t \in Threads, StepsLeft(pc'[t]) < StepsLeft(pc[t])
  PROVE  Shorter(Left(t)', Left(t))
  BY DEF Shorter, Left

LEMMA GotoIsShorter ==
  ASSUME TypeOK, NEW t \in Threads, NEW q, Goto(t, q),
         StepsLeft(q) < StepsLeft(pc[t])
  PROVE  Shorter(Left(t)', Left(t))
  BY NearerIsShorter DEF TypeOK, Goto

LEMMA LeaveIsNear ==
  \A q \in Pcs \ {"idle", "leave"} :
    StepsLeft("leave") < StepsLeft(q) /\ StepsLeft("idle") < StepsLeft(q)
  <1> SUFFICES ASSUME NEW q \in Pcs \ {"idle", "leave"}
               PROVE  StepsLeft("leave") < StepsLeft(q) /\ StepsLeft("idle") < StepsLeft(q)
    OBVIOUS
  <1>1. StepsLeft("leave") = 1 /\ StepsLeft("idle") = 0
    BY DEF StepsLeft
  <1>2. StepsLeft(q) \in 2..14
    BY DEF StepsLeft, Pcs
  <1> QED BY <1>1, <1>2

LEMMA ReadIsShorter ==
  ASSUME TypeOK, NEW t \in Threads, NEW here, NEW p \in Outputs, NEW next,
         StepsLeft(next) < StepsLeft(here),
         StepsLeft("leave") < StepsLeft(here),
         ReadFromPipe(t, here, p, next)
  PROVE  Shorter(Left(t)', Left(t))
  <1>1. CASE Goto(t, next) \/ ReadError(t, p)
    BY <1>1, GotoIsShorter DEF ReadFromPipe, ReadError
  <1>2. CASE /\ data' = [data EXCEPT ![p] = @ - 1]
             /\ UNCHANGED <<pc, table>>
    <2>1. /\ \A q \in Outputs : data[q] \in Int
          /\ \A c \in Clients : client[c].left \in Int
      BY ExecAssumption DEF ExecAssumption, TypeOK
    <2>2. \A c \in Clients : Running(c) \in Int /\ Running(c)' = Running(c)
      BY <1>2 DEF Running, ReadFromPipe
    <2>3. \A q \in Outputs : data'[q] = IF q = p THEN data[q] - 1 ELSE data[q]
      BY <1>2 DEF TypeOK
    <2>4. OutputLeft("login")' + OutputLeft("cmd")' < OutputLeft("login") + OutputLeft("cmd")
      <3>1. client' = client
        BY <1>2 DEF ReadFromPipe
      <3>2. CASE p = "out"
        <4>1. data'["out"] = data["out"] - 1 /\ data'["cmd"] = data["cmd"]
          BY <2>3, <3>2 DEF Outputs
        <4> QED BY <2>1, <2>2, <3>1, <4>1 DEF OutputLeft, Output, Outputs, Clients
      <3>3. CASE p = "cmd"
        <4>1. data'["out"] = data["out"] /\ data'["cmd"] = data["cmd"] - 1
          BY <2>3, <3>3 DEF Outputs
        <4> QED BY <2>1, <2>2, <3>1, <4>1 DEF OutputLeft, Output, Outputs, Clients
      <3> QED BY <3>2, <3>3 DEF Outputs
    <2> QED BY <1>2, <2>4 DEF Shorter, Left
  <1> QED BY <1>1, <1>2 DEF ReadFromPipe

LEMMA CallIsShorter ==
  ASSUME TypeOK, NEW t \in Threads, Step(t) \/ Fails(t)
  PROVE  Shorter(Left(t)', Left(t))
  <1>1. ASSUME pc[t] \in Pcs \ {"idle", "leave"}, Goto(t, "leave") \/ Goto(t, "idle")
        PROVE  Shorter(Left(t)', Left(t))
    BY <1>1, LeaveIsNear, GotoIsShorter
  <1>2. CASE PipeFails(t)
    BY <1>1, <1>2 DEF PipeFails, Pcs
  <1>3. CASE Fails(t) /\ ~PipeFails(t)
    BY <1>1, <1>3 DEF Fails, ReadError, Pcs
  <1>4. ASSUME NEW p, Pipe(t, "pipeIn", p, "pipeOut")
        PROVE  Shorter(Left(t)', Left(t))
    <2>1. StepsLeft("pipeOut") < StepsLeft("pipeIn")
      BY DEF StepsLeft
    <2> QED BY <1>4, <2>1, GotoIsShorter DEF Pipe
  <1>5. ASSUME NEW p, Pipe(t, "pipeOut", p, "pipeCmd")
        PROVE  Shorter(Left(t)', Left(t))
    <2>1. StepsLeft("pipeCmd") < StepsLeft("pipeOut")
      BY DEF StepsLeft
    <2> QED BY <1>5, <2>1, GotoIsShorter DEF Pipe
  <1>6. ASSUME NEW p, Pipe(t, "pipeCmd", p, "forkLogin")
        PROVE  Shorter(Left(t)', Left(t))
    <2>1. StepsLeft("forkLogin") < StepsLeft("pipeCmd")
      BY DEF StepsLeft
    <2> QED BY <1>6, <2>1, GotoIsShorter DEF Pipe
  <1>7. CASE CreatePipes(t)
    BY <1>2, <1>4, <1>5, <1>6, <1>7 DEF CreatePipes
  <1>8. CASE ForkAndRunLogin(t)
    <2>1. StepsLeft("write") < StepsLeft("forkLogin")
      BY DEF StepsLeft
    <2> QED BY <1>8, <2>1, GotoIsShorter DEF ForkAndRunLogin
  <1>9. CASE WriteToken(t)
    <2>1. CASE Goto(t, "leave")
      BY <1>1, <1>9, <2>1 DEF WriteToken, Pcs
    <2>2. CASE Goto(t, "closeIn")
      <3>1. StepsLeft("closeIn") < StepsLeft("write")
        BY DEF StepsLeft
      <3> QED BY <1>9, <2>2, <3>1, GotoIsShorter DEF WriteToken
    <2> QED BY <1>9, <2>1, <2>2 DEF WriteToken
  <1>10. CASE CloseIn(t)
    <2>1. StepsLeft("closeOut") < StepsLeft("closeIn")
      BY DEF StepsLeft
    <2> QED BY <1>10, <2>1, GotoIsShorter DEF CloseIn
  <1>11. CASE CloseWrite(t, "closeOut", "out", "readLogin")
    <2>1. StepsLeft("readLogin") < StepsLeft("closeOut")
      BY DEF StepsLeft
    <2> QED BY <1>11, <2>1, GotoIsShorter DEF CloseWrite
  <1>12. CASE ReadFromPipe(t, "readLogin", "out", "waitLogin")
    <2>1. StepsLeft("waitLogin") < StepsLeft("readLogin")
      BY DEF StepsLeft
    <2>2. StepsLeft("leave") < StepsLeft("readLogin")
      BY DEF StepsLeft
    <2> QED BY <1>12, <2>1, <2>2, ReadIsShorter DEF Outputs
  <1>13. CASE WaitForLogin(t)
    <2>1. CASE Goto(t, "leave")
      BY <1>1, <1>13, <2>1 DEF WaitForLogin, Pcs
    <2>2. CASE Goto(t, "forkCmd")
      <3>1. StepsLeft("forkCmd") < StepsLeft("waitLogin")
        BY DEF StepsLeft
      <3> QED BY <1>13, <2>2, <3>1, GotoIsShorter DEF WaitForLogin
    <2> QED BY <1>13, <2>1, <2>2 DEF WaitForLogin
  <1>14. CASE ForkAndRunCommand(t)
    <2>1. StepsLeft("closeCmd") < StepsLeft("forkCmd")
      BY DEF StepsLeft
    <2> QED BY <1>14, <2>1, GotoIsShorter DEF ForkAndRunCommand
  <1>15. CASE CloseWrite(t, "closeCmd", "cmd", "readCmd")
    <2>1. StepsLeft("readCmd") < StepsLeft("closeCmd")
      BY DEF StepsLeft
    <2> QED BY <1>15, <2>1, GotoIsShorter DEF CloseWrite
  <1>16. CASE ReadFromPipe(t, "readCmd", "cmd", "waitCmd")
    <2>1. StepsLeft("waitCmd") < StepsLeft("readCmd")
      BY DEF StepsLeft
    <2>2. StepsLeft("leave") < StepsLeft("readCmd")
      BY DEF StepsLeft
    <2> QED BY <1>16, <2>1, <2>2, ReadIsShorter DEF Outputs
  <1>17. CASE WaitForCommand(t)
    BY <1>1, <1>17 DEF WaitForCommand, Pcs
  <1>18. CASE pc[t] = "leave" /\ Leave(t)
    <2>1. StepsLeft("idle") < StepsLeft("leave")
      BY DEF StepsLeft
    <2> QED BY <1>18, <2>1, GotoIsShorter DEF Leave
  <1> QED BY <1>2, <1>3, <1>7, <1>8, <1>9, <1>10, <1>11, <1>12, <1>13, <1>14, <1>15,
             <1>16, <1>17, <1>18 DEF Step

LEMMA ClientIsShorter ==
  ASSUME TypeOK, NEW t \in Threads, NEW c \in Clients, ClientStep(c) \/ ClientDies(c)
  PROVE  Shorter(Left(t)', Left(t))
  <1>1. client \in [Clients -> [state : {"none", "runs", "ok", "bad"},
                                ends : SUBSET Ends, left : 0..MaxPrinted]]
    BY DEF TypeOK
  <1>2. /\ \A q \in Outputs : data[q] \in Int
        /\ \A d \in Clients : client[d].left \in Nat
    BY <1>1, ExecAssumption DEF ExecAssumption, TypeOK
  <1>3. pc' = pc
    BY DEF ClientStep, ClientDies, Ended, Writes
  <1>4. \A d \in Clients : OutputLeft(d) \in Int /\ OutputLeft(d)' \in Int /\
          IF d = c THEN OutputLeft(d)' < OutputLeft(d) ELSE OutputLeft(d)' = OutputLeft(d)
    <2> SUFFICES ASSUME NEW d \in Clients
                 PROVE  /\ OutputLeft(d) \in Int /\ OutputLeft(d)' \in Int
                        /\ IF d = c THEN OutputLeft(d)' < OutputLeft(d)
                           ELSE OutputLeft(d)' = OutputLeft(d)
      OBVIOUS
    <2>1. Output(d) \in Outputs /\ (Output(d) = Output(c) <=> d = c)
      BY DEF Output, Outputs, Clients
    <2>2. Running(d) \in {0, 1} /\ Running(d)' \in {0, 1}
      BY DEF Running
    <2>3. data[Output(d)] \in Int /\ client[d].left \in Nat
      BY <1>2, <2>1
    <2>4. ASSUME NEW how \in {"ok", "bad"}, Ended(c, how)
          PROVE  /\ OutputLeft(d) \in Int /\ OutputLeft(d)' \in Int
                 /\ IF d = c THEN OutputLeft(d)' < OutputLeft(d)
                    ELSE OutputLeft(d)' = OutputLeft(d)
      <3>1. data' = data /\ client[c].state = "runs"
        BY <2>4 DEF Ended
      <3>2. CASE d = c
        <4>1. client'[d].left = 0 /\ client'[d].state # "runs"
          BY <1>1, <2>4, <3>2 DEF Ended
        <4>2. Running(d) = 1 /\ Running(d)' = 0
          BY <3>1, <3>2, <4>1 DEF Running
        <4>3. OutputLeft(d) = 2 * client[d].left + data[Output(d)] + 1
          BY <4>2 DEF OutputLeft
        <4>4. OutputLeft(d)' = 2 * 0 + data[Output(d)] + 0
          BY <3>1, <4>1, <4>2 DEF OutputLeft, Output
        <4> QED BY <2>3, <3>2, <4>3, <4>4
      <3>3. CASE d # c
        <4>1. client'[d] = client[d]
          BY <1>1, <2>4, <3>3 DEF Ended
        <4>2. Running(d)' = Running(d)
          BY <4>1 DEF Running
        <4>3. OutputLeft(d)' = OutputLeft(d)
          BY <3>1, <4>1, <4>2 DEF OutputLeft, Output
        <4>4. OutputLeft(d) \in Int
          BY <2>2, <2>3 DEF OutputLeft
        <4> QED BY <3>3, <4>3, <4>4
      <3> QED BY <3>2, <3>3
    <2>5. CASE Writes(c)
      <3>1. /\ client' = [client EXCEPT ![c].left = @ - 1]
            /\ data' = [data EXCEPT ![Output(c)] = @ + 1]
        BY <2>5 DEF Writes
      <3>2. DOMAIN data = Outputs
        BY DEF TypeOK
      <3>3. CASE d = c
        <4>1. client'[d].left = client[d].left - 1 /\ client'[d].state = client[d].state
          BY <1>1, <3>1, <3>3
        <4>2. data'[Output(d)] = data[Output(d)] + 1
          BY <2>1, <3>1, <3>2, <3>3 DEF TypeOK
        <4>3. Running(d)' = Running(d)
          BY <4>1 DEF Running
        <4>4. OutputLeft(d)' = 2 * (client[d].left - 1) + (data[Output(d)] + 1) + Running(d)
          BY <4>1, <4>2, <4>3 DEF OutputLeft, Output
        <4>5. OutputLeft(d) = 2 * client[d].left + data[Output(d)] + Running(d)
          BY DEF OutputLeft
        <4> QED BY <2>2, <2>3, <3>3, <4>4, <4>5
      <3>4. CASE d # c
        <4>1. client'[d] = client[d]
          BY <1>1, <3>1, <3>4
        <4>2. data'[Output(d)] = data[Output(d)]
          BY <2>1, <3>1, <3>2, <3>4 DEF TypeOK
        <4>3. Running(d)' = Running(d)
          BY <4>1 DEF Running
        <4>4. OutputLeft(d)' = OutputLeft(d)
          BY <4>1, <4>2, <4>3 DEF OutputLeft, Output
        <4>5. OutputLeft(d) \in Int
          BY <2>2, <2>3 DEF OutputLeft
        <4> QED BY <3>4, <4>4, <4>5
      <3> QED BY <3>3, <3>4
    <2> QED BY <2>4, <2>5 DEF ClientStep, ClientDies
  <1>5. OutputLeft("login")' + OutputLeft("cmd")' < OutputLeft("login") + OutputLeft("cmd")
    BY <1>4 DEF Clients
  <1> QED BY <1>3, <1>5 DEF Shorter, Left

\* A call of ExecOpenbaoCmd has a bounded number of steps, and so have its
\* clients: not one of them starts over or reads what is never printed.
THEOREM CallsAreBounded == Spec => CallsGetShorter
  <1> DEFINE Acts(t) == \/ Step(t) \/ Fails(t)
                        \/ \E c \in Clients : ClientStep(c) \/ ClientDies(c)
             Shortens == \A t \in Threads : mtx = t =>
               IF Acts(t) THEN Shorter(Left(t)', Left(t)) ELSE Left(t)' = Left(t)
  <1>1. ASSUME Inv, [Next]_vars PROVE [Shortens]_vars
    <2> SUFFICES ASSUME Next, NEW t \in Threads, mtx = t
                 PROVE  IF Acts(t) THEN Shorter(Left(t)', Left(t)) ELSE Left(t)' = Left(t)
      BY <1>1
    <2>1. CASE Acts(t)
      BY <1>1, <2>1, CallIsShorter, ClientIsShorter DEF Inv
    <2>2. CASE ~Acts(t)
      <3>1. ASSUME NEW u \in Threads, Lock(u) \/ Step(u) \/ Fails(u) PROVE FALSE
        <4>1. ~Lock(u) /\ u # t
          BY <2>2, <3>1, ZeroIsFd DEF Lock
        <4>2. pc[u] = "idle"
          BY <1>1, <4>1 DEF Inv, TypeOK
        <4> QED BY <3>1, <4>1, <4>2 DEF Step, Fails, CreatePipes, Pipe, PipeFails,
              ForkAndRunLogin, WriteToken, CloseIn, CloseWrite, ReadFromPipe,
              WaitForLogin, ForkAndRunCommand, WaitForCommand
      <3>2. UNCHANGED <<pc, client, data>>
        BY <2>2, <3>1 DEF Next, Open, Close, ForkHelper, HelperEnds, callVars
      <3> QED BY <2>2, <3>2 DEF Left, OutputLeft, Running, Output
    <2> QED BY <2>1, <2>2
  <1>2. Spec => [][Shortens]_vars
    BY <1>1, InvHolds, PTL DEF Spec
  <1> QED BY <1>2 DEF CallsGetShorter
=============================================================================
