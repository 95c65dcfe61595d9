---------------------------- MODULE CryptoToolProofs ---------------------------
(***************************************************************************)
(* Theorems about CryptoTool, for any terminals, key ids, algorithms and   *)
(* faults: the types, the echo, the text a reEncrypt prints, and what      *)
(* makes a run hang.                                                       *)
(***************************************************************************)
EXTENDS CryptoTool, TLAPS

\* A run that is on has its record, and the id its command is about.
RunsKnown ==
  \A p \in Terminals :
    /\ pc[p] # "off" => run[p] \in Run
    /\ pc[p] \in {"write", "config", "readBack"} =>
         IsNextId(map[p], run[p].id)
    /\ pc[p] = "delete" => run[p].id \in map[p]

\* What the run will restore is the echo it found.
EchoInv ==
  \A p \in Terminals :
    p \in cut \/ IF pc[p] \in Reading THEN saved[p] ELSE echo[p]

\* A printed ciphertext is opened by the key it names until that is removed.
CipherInv ==
  /\ \A c \in printed :
       c.mat # 0 /\ (vault[c.id].mat = c.mat \/ c.mat \in removed)
  /\ \A p \in Terminals :
       pc[p] # "off" /\ run[p].cmd = "reEncrypt" => run[p].cipher \in printed

\* A run that has looked for the newest key can still have it.
NewestReady(p) == \E k \in map[p] : IsNewest(map[p], k) /\ CanExport(k)
CheckedInv(p) ==
  /\ pc[p] = "config" => Present(run[p].id)
  /\ pc[p] = "readBack" => CanExport(run[p].id)
  /\ pc[p] \in {"pick", "decrypt"} => NewestReady(p)
  /\ pc[p] # "hung"
Safe(p) == p \in spoiled \/ IsFull(map[p]) \/ CheckedInv(p)
HangInv == \A p \in Terminals : Safe(p)

Types == TypeOK /\ RunsKnown

\* The part of them that is about the runs, and the rest.
LocalTypes ==
  /\ pc \in [Terminals -> PcValues] /\ run \in [Terminals -> Run \cup {NoRun}]
  /\ map \in [Terminals -> SUBSET KeyIds] /\ spoiled \subseteq Terminals
  /\ RunsKnown
SharedTypes ==
  /\ echo \in [Terminals -> BOOLEAN] /\ saved \in [Terminals -> BOOLEAN]
  /\ vault \in [KeyIds -> VaultKey] /\ gen \in Nat \ {0}
  /\ printed \subseteq Ciphertext /\ removed \subseteq Nat /\ cut \subseteq Terminals

-----------------------------------------------------------------------------
(* The types.                                                              *)

\* The fields of a run that steps change.
LEMMA RunFields ==
  ASSUME NEW r \in Run
  PROVE  /\ \A S \in SUBSET KeyIds : [r EXCEPT !.todo = S] \in Run
         /\ \A k \in KeyIds : [r EXCEPT !.id = k] \in Run
         /\ \A t \in Texts : [r EXCEPT !.text = t] \in Run
         /\ r # NoRun
         /\ r.todo \subseteq KeyIds
  BY DEF Run, NoRun

LEMMA RunStarts ==
  ASSUME NEW c \in Commands, NEW alg \in Algs \cup {NoAlg}, NEW k \in KeyIds \cup {0},
         NEW cipher \in Ciphertext \cup {NoCipher}
  PROVE  Start(c, alg, k, cipher) \in Run
  BY DEF Start, Run, Texts

\* A vault key's material and readiness.
LEMMA VaultKeys ==
  ASSUME TypeOK
  PROVE  \A k \in KeyIds : /\ vault[k] \in VaultKey
                           /\ vault[k].mat \in Nat /\ vault[k].ready \in BOOLEAN
  BY DEF TypeOK, VaultKey

LEMMA EndsTypes ==
  ASSUME Types, NEW p \in Terminals, Ends(p)
  PROVE  LocalTypes'
  BY DEF LocalTypes, Ends, Types, TypeOK, RunsKnown, PcValues

LEMMA GoesOnTypes ==
  ASSUME Types, NEW p \in Terminals, pc[p] # "off",
         NEW label \in PcValues \ {"config", "readBack", "write", "delete"},
         GoesOn(p, label)
  PROVE  LocalTypes'
  BY DEF LocalTypes, GoesOn, Goto, Types, TypeOK, RunsKnown, PcValues

LEMMA CreateTypes ==
  ASSUME Types, NEW p \in Terminals, pc[p] # "off", NEW k \in KeyIds,
         IsNextId(map[p], k), Goto(p, "write"),
         run' = [run EXCEPT ![p].id = k], UNCHANGED <<map, spoiled>>
  PROVE  LocalTypes'
  <1>1. run[p] \in Run /\ run \in [Terminals -> Run \cup {NoRun}]
    BY DEF Types, TypeOK, RunsKnown
  <1>2. [run[p] EXCEPT !.id = k] \in Run /\ [run[p] EXCEPT !.id = k].id = k
    BY <1>1, RunFields DEF Run
  <1>3. run' = [run EXCEPT ![p] = [run[p] EXCEPT !.id = k]]
    OBVIOUS
  <1>4. run' \in [Terminals -> Run \cup {NoRun}] /\ run'[p] \in Run /\ run'[p].id = k
        /\ \A q \in Terminals \ {p} : run'[q] = run[q]
    BY <1>1, <1>2, <1>3
  <1>5. pc' \in [Terminals -> PcValues] /\ pc'[p] = "write"
        /\ \A q \in Terminals \ {p} : pc'[q] = pc[q]
    BY DEF Goto, Types, TypeOK, PcValues, Checked
  <1>6. RunsKnown'
    BY <1>4, <1>5 DEF Types, RunsKnown, IsNextId, IsNewest
  <1> QED BY <1>4, <1>5, <1>6 DEF LocalTypes, Types, TypeOK

\* A record written for a run that is on, nothing else about it changed.
LEMMA RecordTypes ==
  ASSUME Types, NEW p \in Terminals, pc[p] # "off", NEW r \in Run,
         NEW label \in PcValues \ {"config", "readBack", "write", "delete"},
         Goto(p, label), run' = [run EXCEPT ![p] = r],
         NEW ids \in SUBSET KeyIds, map' = [map EXCEPT ![p] = ids],
         UNCHANGED spoiled
  PROVE  LocalTypes'
  BY DEF LocalTypes, Goto, Types, TypeOK, RunsKnown, PcValues

LEMMA TypesTogether == LocalTypes' /\ SharedTypes' => Types'
  BY DEF Types, TypeOK, LocalTypes, SharedTypes

LEMMA BeginTypes ==
  ASSUME Types, NEW p \in Terminals, BeginAny(p)
  PROVE  Types'
  <1>1. PICK c \in Commands, alg \in Algs \cup {NoAlg}, k \in KeyIds \cup {0},
             cipher \in Ciphertext \cup {NoCipher} : Begin(p, c, alg, k, cipher)
    BY DEF BeginAny, Commands, ConfigAlgs, Types, TypeOK
  <1>2. Start(c, alg, k, cipher) \in Run
    BY RunStarts
  <1>3. LocalTypes'
    BY <1>1, <1>2 DEF Begin, Goto, LocalTypes, Types, TypeOK, RunsKnown, PcValues, Reading
  <1>4. SharedTypes'
    BY <1>1 DEF Begin, EchoOff, vaultVars, historyVars, SharedTypes, Types, TypeOK
  <1> QED BY <1>3, <1>4, TypesTogether

LEMMA TypingTypes ==
  ASSUME Types, NEW p \in Terminals, Type(p)
  PROVE  Types'
  <1>1. LocalTypes'
    <2>1. CASE Refused(p)
      BY <2>1, EndsTypes DEF Refused
    <2>2. CASE TypeFirst(p)
      BY <2>2, GoesOnTypes DEF TypeFirst, PcValues, Reading
    <2>3. CASE TypeAgain(p)
      BY <2>3, GoesOnTypes DEF TypeAgain, PcValues, Reading
    <2>4. CASE TypeToken(p)
      BY <2>4, GoesOnTypes DEF TypeToken, PcValues, Reading
    <2> QED BY <2>1, <2>2, <2>3, <2>4 DEF Type
  <1>2. SharedTypes'
    BY DEF Type, Refused, TypeFirst, TypeAgain, TypeToken, EchoBack, ttyVars, vaultVars,
           historyVars, SharedTypes, Types, TypeOK
  <1> QED BY <1>1, <1>2, TypesTogether

LEMMA InitTypes ==
  ASSUME Types, NEW p \in Terminals, List(p) \/ ReadTimes(p) \/ Inited(p)
  PROVE  Types'
  <1>1. SharedTypes'
    BY DEF List, ReadTimes, Inited, ttyVars, vaultVars, historyVars, SharedTypes, Types,
           TypeOK
  <1> SUFFICES LocalTypes'
    BY <1>1, TypesTogether
  <1>2. ASSUME pc[p] # "off"
        PROVE  run[p] \in Run /\ run \in [Terminals -> Run \cup {NoRun}]
               /\ map[p] \in SUBSET KeyIds /\ map \in [Terminals -> SUBSET KeyIds]
    BY <1>2 DEF Types, TypeOK, RunsKnown
  <1>3. CASE List(p)
    <2>1. CASE Ends(p)
      BY <2>1, EndsTypes
    <2>2. CASE ~Ends(p)
      <3> DEFINE S == {k \in KeyIds : Present(k)}
      <3>1. Goto(p, "times") /\ run' = [run EXCEPT ![p] = [run[p] EXCEPT !.todo = S]]
            /\ UNCHANGED <<map, spoiled>> /\ pc[p] # "off"
        BY <1>3, <2>2 DEF List
      <3>2. [run[p] EXCEPT !.todo = S] \in Run
        BY <1>2, <3>1, RunFields
      <3>3. map' = [map EXCEPT ![p] = map[p]]
        BY <3>1, <1>2
      <3> QED BY <1>2, <3>1, <3>2, <3>3, RecordTypes DEF PcValues
    <2> QED BY <2>1, <2>2
  <1>4. CASE ReadTimes(p)
    <2>1. CASE Ends(p)
      BY <2>1, EndsTypes
    <2>2. CASE ~Ends(p)
      <3>1. PICK k \in run[p].todo :
              /\ map' = [map EXCEPT ![p] = @ \cup {k}]
              /\ run' = [run EXCEPT ![p] = [run[p] EXCEPT !.todo = @ \ {k}]]
              /\ UNCHANGED <<pc, spoiled>> /\ pc[p] = "times"
        BY <1>4, <2>2 DEF ReadTimes
      <3>2. run[p].todo \subseteq KeyIds /\ [run[p] EXCEPT !.todo = @ \ {k}] \in Run
        BY <1>2, <3>1, RunFields
      <3>3. Goto(p, "times")
        BY <3>1 DEF Goto, Types, TypeOK
      <3>4. map' = [map EXCEPT ![p] = map[p] \cup {k}] /\ map[p] \cup {k} \in SUBSET KeyIds
        BY <1>2, <3>1, <3>2
      <3> QED BY <3>1, <3>2, <3>3, <3>4, RecordTypes DEF PcValues
    <2> QED BY <2>1, <2>2
  <1>5. CASE Inited(p)
    <2>1. CASE Ends(p)
      BY <2>1, EndsTypes
    <2>2. CASE GoesOn(p, "check")
      BY <2>2, <1>5, GoesOnTypes DEF Inited, PcValues
    <2>3. CASE run[p].id \in map[p] /\ GoesOn(p, "delete")
      BY <2>3, <1>5 DEF Inited, GoesOn, Goto, LocalTypes, Types, TypeOK, RunsKnown, PcValues
    <2>4. CASE ~Ends(p) /\ Create(p, Ends(p))
      BY <2>4, <1>5, CreateTypes DEF Inited, Create
    <2> QED BY <1>5, <2>1, <2>2, <2>3, <2>4 DEF Inited
  <1> QED BY <1>3, <1>4, <1>5

LEMMA CheckTypes ==
  ASSUME Types, NEW p \in Terminals, Check(p)
  PROVE  Types'
  <1>1. SharedTypes'
    BY DEF Check, ttyVars, vaultVars, historyVars, SharedTypes, Types, TypeOK
  <1> SUFFICES LocalTypes'
    BY <1>1, TypesTogether
  <1>2. pc[p] = "check"
    BY DEF Check
  <1>3. CASE Ends(p)
    BY <1>3, EndsTypes
  <1>4. CASE GoesOn(p, "pick") \/ GoesOn(p, "decrypt")
    BY <1>2, <1>4, GoesOnTypes DEF PcValues, Checked
  <1>5. CASE \E k \in KeyIds :
               /\ IsNextId(map[p], k) /\ Goto(p, "write")
               /\ run' = [run EXCEPT ![p].id = k] /\ UNCHANGED <<map, spoiled>>
    BY <1>2, <1>5, CreateTypes
  <1> QED BY <1>3, <1>4, <1>5 DEF Check, Create

LEMMA CreateFailedTypes ==
  ASSUME Types, NEW p \in Terminals, pc[p] # "off", NEW outcome, CreateFailed(p, outcome)
  PROVE  LocalTypes'
  <1>1. CASE Ends(p)
    BY <1>1, EndsTypes
  <1>2. CASE GoesOnFailed(p, outcome, "pick")
    BY <1>2 DEF GoesOnFailed, Goto, LocalTypes, Types, TypeOK, RunsKnown, PcValues, Checked
  <1> QED BY <1>1, <1>2 DEF CreateFailed

\* What CreateKey does to the vault: it makes a key, or makes one ready.
LEMMA VaultGrows ==
  ASSUME Types, NEW p \in Terminals, Write(p) \/ Config(p) \/ ReadBack(p)
  PROVE  /\ run[p].id \in KeyIds
         /\ vault' \in [KeyIds -> VaultKey] /\ gen' \in Nat \ {0}
         /\ \A k \in KeyIds : /\ Present(k) => vault'[k].mat = vault[k].mat
                              /\ CanExport(k) => vault'[k].ready
  <1>1. run[p].id \in KeyIds
    BY DEF Write, Config, ReadBack, Types, RunsKnown, IsNextId
  <1>2. vault \in [KeyIds -> VaultKey] /\ vault[run[p].id] \in VaultKey /\ gen \in Nat \ {0}
    BY <1>1, VaultKeys DEF Types, TypeOK
  <1>3. CASE UNCHANGED vaultVars
    BY <1>1, <1>2, <1>3 DEF vaultVars, Present, CanExport
  <1>4. CASE Write(p) /\ ~UNCHANGED vaultVars
    <2> DEFINE r == [mat |-> gen, ready |-> FALSE]
    <2>1. vault' = [vault EXCEPT ![run[p].id] = r] /\ gen' = gen + 1
          /\ ~Present(run[p].id)
      BY <1>4 DEF Write
    <2>2. r \in VaultKey
      BY <1>2 DEF VaultKey
    <2> HIDE DEF r
    <2> QED BY <1>1, <1>2, <2>1, <2>2 DEF Present, CanExport
  <1>5. CASE Config(p) /\ ~UNCHANGED vaultVars
    <2> DEFINE r == [vault[run[p].id] EXCEPT !.ready = TRUE]
    <2>1. vault' = [vault EXCEPT ![run[p].id] = r] /\ gen' = gen
      BY <1>5 DEF Config, vaultVars
    <2>2. r \in VaultKey /\ r.mat = vault[run[p].id].mat /\ r.ready
      BY <1>2 DEF VaultKey
    <2> HIDE DEF r
    <2> QED BY <1>1, <1>2, <2>1, <2>2 DEF Present, CanExport
  <1> QED BY <1>3, <1>4, <1>5 DEF ReadBack

LEMMA CreateStepTypes ==
  ASSUME Types, NEW p \in Terminals, Write(p) \/ Config(p) \/ ReadBack(p)
  PROVE  Types'
  <1>1. run[p].id \in KeyIds /\ vault' \in [KeyIds -> VaultKey] /\ gen' \in Nat \ {0}
    BY VaultGrows
  <1>4. SharedTypes'
    BY <1>1 DEF Write, Config, ReadBack, ttyVars, historyVars, SharedTypes, Types, TypeOK
  <1> SUFFICES LocalTypes'
    BY <1>4, TypesTogether
  <1>5. CASE Write(p)
    <2>1. CASE GoesOn(p, "config")
      BY <1>5, <2>1 DEF Write, GoesOn, Goto, LocalTypes, Types, TypeOK, RunsKnown, PcValues,
                        Checked
    <2>2. CASE \E outcome : CreateFailed(p, outcome)
      BY <1>5, <2>2, CreateFailedTypes DEF Write
    <2> QED BY <1>5, <2>1, <2>2 DEF Write
  <1>6. CASE Config(p)
    <2>1. CASE GoesOn(p, "readBack")
      BY <1>6, <2>1 DEF Config, GoesOn, Goto, LocalTypes, Types, TypeOK, RunsKnown, PcValues,
                        Checked
    <2>2. CASE \E outcome : CreateFailed(p, outcome)
      BY <1>6, <2>2, CreateFailedTypes DEF Config
    <2> QED BY <1>6, <2>1, <2>2 DEF Config
  <1>7. CASE ReadBack(p)
    <2>1. CASE Ends(p)
      BY <2>1, EndsTypes
    <2>2. CASE \E outcome : CreateFailed(p, outcome)
      BY <1>7, <2>2, CreateFailedTypes DEF ReadBack
    <2>3. CASE /\ map' = [map EXCEPT ![p] = @ \cup {run[p].id}]
               /\ Goto(p, "pick") /\ UNCHANGED <<run, spoiled>>
      BY <1>1, <1>7, <2>3 DEF ReadBack, Goto, LocalTypes, Types, TypeOK, RunsKnown, PcValues,
                              Checked
    <2> QED BY <1>7, <2>1, <2>2, <2>3 DEF ReadBack
  <1> QED BY <1>5, <1>6, <1>7

LEMMA PickTypes ==
  ASSUME Types, NEW p \in Terminals, Pick(p)
  PROVE  Types'
  <1>1. run[p] \in Run /\ map[p] \subseteq KeyIds
    BY DEF Pick, Types, TypeOK, RunsKnown
  <1>2. \A k \in map[p] : run[p].alg \in Algs => Encrypted(p, k) \in Ciphertext
    BY <1>1, VaultKeys DEF Encrypted, Ciphertext, Run, Types
  <1>3. printed' \subseteq Ciphertext
    BY <1>2 DEF Pick, Types, TypeOK
  <1>4. SharedTypes'
    BY <1>3 DEF Pick, ttyVars, vaultVars, SharedTypes, Types, TypeOK
  <1> SUFFICES LocalTypes'
    BY <1>4, TypesTogether
  <1>5. CASE Ends(p)
    BY <1>5, EndsTypes
  <1>6. CASE \E outcome : GoesOnFailed(p, outcome, "hung")
    BY <1>6 DEF GoesOnFailed, Goto, LocalTypes, Types, TypeOK, RunsKnown, PcValues, Pick
  <1> QED BY <1>5, <1>6 DEF Pick

LEMMA DecryptTypes ==
  ASSUME Types, NEW p \in Terminals, Decrypt(p)
  PROVE  Types'
  <1>1. SharedTypes'
    BY DEF Decrypt, ttyVars, vaultVars, historyVars, SharedTypes, Types, TypeOK
  <1> SUFFICES LocalTypes'
    BY <1>1, TypesTogether
  <1>2. CASE Ends(p)
    BY <1>2, EndsTypes
  <1>3. CASE ~Ends(p)
    <2> DEFINE mat == vault[KeyFor(p)].mat
               r == [run[p] EXCEPT !.text = Decrypted(run[p].cipher, mat)]
    <2>1. Goto(p, "pick") /\ run' = [run EXCEPT ![p] = r] /\ UNCHANGED <<map, spoiled>>
          /\ pc[p] = "decrypt"
      BY <1>3 DEF Decrypt
    <2>2. run[p] \in Run /\ map[p] \in SUBSET KeyIds /\ map' = [map EXCEPT ![p] = map[p]]
      BY <2>1 DEF Types, TypeOK, RunsKnown
    <2>3. Decrypted(run[p].cipher, mat) \in Texts
      BY <2>2 DEF Decrypted, Run, Ciphertext, NoCipher, Texts
    <2>4. r \in Run
      BY <2>2, <2>3, RunFields
    <2> HIDE DEF r
    <2> QED BY <2>1, <2>2, <2>4, RecordTypes DEF PcValues, Checked
  <1> QED BY <1>2, <1>3

LEMMA DeleteTypes ==
  ASSUME Types, NEW p \in Terminals, Delete(p)
  PROVE  Types'
  <1>1. run[p].id \in KeyIds
    BY DEF Delete, Types, TypeOK, RunsKnown
  <1>2. vault[run[p].id].mat \in Nat /\ NoKey \in VaultKey
    BY <1>1, VaultKeys DEF NoKey, VaultKey, Types
  <1>3. SharedTypes'
    BY <1>1, <1>2 DEF Delete, ttyVars, SharedTypes, Types, TypeOK
  <1>4. LocalTypes'
    BY DEF Delete, LocalTypes, Types, TypeOK, RunsKnown, PcValues
  <1> QED BY <1>3, <1>4, TypesTogether

LEMMA KillTypes ==
  ASSUME Types, NEW p \in Terminals, Kill(p)
  PROVE  Types'
  <1>1. LocalTypes'
    BY EndsTypes DEF Kill
  <1>2. SharedTypes'
    BY DEF Kill, ttyVars, vaultVars, SharedTypes, Types, TypeOK
  <1> QED BY <1>1, <1>2, TypesTogether

LEMMA TypesInit == Init => Types
  BY ToolAssumption DEF ToolAssumption, Init, Types, TypeOK, RunsKnown, PcValues, NoKey,
     VaultKey, Reading, Checked

LEMMA TypesNext == Types /\ [Next]_vars => Types'
  <1>1. ASSUME Types, UNCHANGED vars PROVE Types'
    BY <1>1 DEF vars, ttyVars, vaultVars, historyVars, Types, TypeOK, RunsKnown, IsNextId,
                IsNewest
  <1>2. ASSUME Types, NEW p \in Terminals, BeginAny(p) \/ Type(p) \/ Step(p) \/ Kill(p)
        PROVE  Types'
    BY <1>2, BeginTypes, TypingTypes, InitTypes, CheckTypes, CreateStepTypes, PickTypes,
       DecryptTypes, DeleteTypes, KillTypes DEF Step
  <1> QED BY <1>1, <1>2 DEF Next

\* Every variable has its type, in whatever order the runs and their ends come.
THEOREM TypeCorrect == Spec => []TypeOK
  <1>1. Types => TypeOK
    BY DEF Types
  <1> QED BY TypesInit, TypesNext, <1>1, PTL DEF Spec
-----------------------------------------------------------------------------
(* The echo.                                                               *)

\* A step that leaves the terminals alone keeps the run where it was: at
\* its reading, or past it.
LEMMA EchoKept ==
  ASSUME Types, EchoInv, NEW p \in Terminals, UNCHANGED <<ttyVars, cut>>,
         NEW label \in PcValues, Goto(p, label),
         pc[p] \in Reading <=> label \in Reading
  PROVE  EchoInv'
  BY DEF Types, TypeOK, EchoInv, Goto, ttyVars

LEMMA EchoNext == Types /\ EchoInv /\ [Next]_vars => EchoInv'
  <1>1. ASSUME Types, EchoInv, UNCHANGED vars PROVE EchoInv'
    BY <1>1 DEF EchoInv, vars, ttyVars, historyVars
  <1>2. ASSUME Types, EchoInv, NEW p \in Terminals, BeginAny(p)
        PROVE  EchoInv'
    <2>1. PICK c, alg, k, cipher : Begin(p, c, alg, k, cipher)
      BY <1>2 DEF BeginAny
    <2> QED BY <1>2, <2>1 DEF Begin, EchoOff, Goto, EchoInv, historyVars, Types, TypeOK, Reading
  <1>3. ASSUME Types, EchoInv, NEW p \in Terminals, Refused(p)
        PROVE  EchoInv'
    BY <1>3 DEF Refused, Ends, EchoBack, EchoInv, historyVars, Types, TypeOK, Reading
  <1>4. ASSUME Types, EchoInv, NEW p \in Terminals, TypeFirst(p) \/ TypeAgain(p)
        PROVE  EchoInv'
    BY <1>4 DEF TypeFirst, TypeAgain, GoesOn, Goto, EchoInv, ttyVars, historyVars, Types,
                TypeOK, Reading
  <1>5. ASSUME Types, EchoInv, NEW p \in Terminals, TypeToken(p)
        PROVE  EchoInv'
    BY <1>5 DEF TypeToken, GoesOn, Goto, EchoBack, EchoInv, historyVars, Types, TypeOK, Reading
  <1>6. ASSUME Types, EchoInv, NEW p \in Terminals, Step(p)
        PROVE  EchoInv'
    <2>1. UNCHANGED <<ttyVars, cut>> /\ pc[p] \notin Reading
      BY <1>6 DEF Step, List, ReadTimes, Inited, Check, Write, Config, ReadBack, Pick, Decrypt,
                  Delete, historyVars, Reading
    <2>2. \E label \in PcValues \ Reading : Goto(p, label)
      <3>1. ASSUME Ends(p) PROVE Goto(p, "off")
        BY <3>1 DEF Ends, Goto
      <3>2. ASSUME NEW label, GoesOn(p, label) PROVE Goto(p, label)
        BY <3>2 DEF GoesOn
      <3>3. ASSUME NEW label, NEW outcome, GoesOnFailed(p, outcome, label) PROVE Goto(p, label)
        BY <3>3 DEF GoesOnFailed
      <3>4. ASSUME NEW outcome, CreateFailed(p, outcome)
            PROVE  Goto(p, "off") \/ Goto(p, "pick")
        BY <3>1, <3>3, <3>4 DEF CreateFailed
      <3>5. {"off", "times", "check", "delete", "write", "config", "readBack", "pick", "decrypt",
             "hung"} \subseteq PcValues \ Reading
        BY DEF PcValues, Checked, Reading
      <3>6. CASE List(p)
        BY <3>1, <3>5, <3>6 DEF List
      <3>7. CASE ReadTimes(p)
        BY <1>6, <3>1, <3>5, <3>7 DEF ReadTimes, Goto, Types, TypeOK
      <3>8. CASE Inited(p)
        BY <3>1, <3>2, <3>5, <3>8 DEF Inited, Create
      <3>9. CASE Check(p)
        BY <3>1, <3>2, <3>5, <3>9 DEF Check, Create
      <3>10. CASE Write(p)
        BY <3>2, <3>4, <3>5, <3>10 DEF Write
      <3>11. CASE Config(p)
        BY <3>2, <3>4, <3>5, <3>11 DEF Config
      <3>12. CASE ReadBack(p)
        BY <3>1, <3>4, <3>5, <3>12 DEF ReadBack
      <3>13. CASE Pick(p)
        BY <3>1, <3>3, <3>5, <3>13 DEF Pick
      <3>14. CASE Decrypt(p)
        BY <3>1, <3>5, <3>14 DEF Decrypt
      <3>15. CASE Delete(p)
        BY <3>5, <3>15 DEF Delete, Goto
      <3> QED BY <1>6, <3>6, <3>7, <3>8, <3>9, <3>10, <3>11, <3>12, <3>13, <3>14, <3>15 DEF Step
    <2> QED BY <1>6, <2>1, <2>2, EchoKept
  <1>7. ASSUME Types, EchoInv, NEW p \in Terminals, Kill(p)
        PROVE  EchoInv'
    BY <1>7 DEF Kill, Ends, EchoInv, ttyVars, Types, TypeOK, Reading
  <1> QED BY <1>1, <1>2, <1>3, <1>4, <1>5, <1>6, <1>7 DEF Next, Type

\* The echo of a terminal is off only while the tool reads there, or after a
\* run was killed while it read.
THEOREM EchoHolds == Spec => []EchoIsRestored
  <1>1. Init => EchoInv
    BY DEF Init, EchoInv, Reading
  <1>2. EchoInv => EchoIsRestored
    BY DEF EchoInv, EchoIsRestored
  <1> QED BY TypesInit, TypesNext, EchoNext, <1>1, <1>2, PTL DEF Spec

-----------------------------------------------------------------------------
(* The text of a reEncrypt.                                                *)

TextInv == CipherInv /\ ReEncryptKeepsText

\* A step that only lets the vault grow and keeps the run's record, or ends
\* the run, or moves it to where nothing is about to be printed.
LEMMA TextKept ==
  ASSUME Types, TextInv, NEW p \in Terminals,
         \A k \in KeyIds : Present(k) => vault'[k].mat = vault[k].mat,
         UNCHANGED <<printed, removed>>,
         \A q \in Terminals \ {p} : pc'[q] = pc[q] /\ run'[q] = run[q],
         \/ pc'[p] = "off"
         \/ /\ run'[p].cmd = run[p].cmd /\ run'[p].cipher = run[p].cipher
            /\ pc[p] # "off"
            /\ pc'[p] # "pick" \/ run[p].cmd # "reEncrypt"
  PROVE  TextInv'
  <1>1. \A c \in printed : c.mat # 0 /\ (vault'[c.id].mat = c.mat \/ c.mat \in removed)
    BY DEF TextInv, CipherInv, Present, Types, TypeOK, Ciphertext
  <1>2. CipherInv'
    BY <1>1 DEF TextInv, CipherInv
  <1>3. ReEncryptKeepsText'
    BY DEF TextInv, ReEncryptKeepsText
  <1> QED BY <1>2, <1>3 DEF TextInv

\* How the steps move a run.
LEMMA Moves ==
  ASSUME Types, NEW p \in Terminals
  PROVE  /\ Ends(p) => pc'[p] = "off"
         /\ Ends(p) => \A q \in Terminals \ {p} :
              /\ pc'[q] = pc[q] /\ run'[q] = run[q] /\ map'[q] = map[q]
              /\ q \in spoiled => q \in spoiled'
         /\ \A label : GoesOn(p, label) =>
              /\ pc'[p] = label /\ run' = run /\ map' = map /\ spoiled' = spoiled
              /\ \A q \in Terminals \ {p} : pc'[q] = pc[q]
         /\ \A label, outcome : GoesOnFailed(p, outcome, label) =>
              /\ pc'[p] = label /\ run' = run /\ map' = map /\ spoiled \subseteq spoiled'
              /\ outcome \in Faults => p \in spoiled'
              /\ \A q \in Terminals \ {p} : pc'[q] = pc[q]
  <1>1. ASSUME Ends(p)
        PROVE  /\ pc'[p] = "off"
               /\ \A q \in Terminals \ {p} :
                    /\ pc'[q] = pc[q] /\ run'[q] = run[q] /\ map'[q] = map[q]
                    /\ q \in spoiled => q \in spoiled'
    BY <1>1 DEF Ends, Types, TypeOK
  <1>2. ASSUME NEW label, GoesOn(p, label)
        PROVE  /\ pc'[p] = label /\ run' = run /\ map' = map /\ spoiled' = spoiled
               /\ \A q \in Terminals \ {p} : pc'[q] = pc[q]
    BY <1>2 DEF GoesOn, Goto, Types, TypeOK
  <1>3. ASSUME NEW label, NEW outcome, GoesOnFailed(p, outcome, label)
        PROVE  /\ pc'[p] = label /\ run' = run /\ map' = map /\ spoiled \subseteq spoiled'
               /\ outcome \in Faults => p \in spoiled'
               /\ \A q \in Terminals \ {p} : pc'[q] = pc[q]
    BY <1>3 DEF GoesOnFailed, Goto, Types, TypeOK
  <1> QED BY <1>1, <1>2, <1>3


\* A map has one newest id, and the id CreateKey takes is newer than it.
LEMMA NewestIsOne ==
  ASSUME NEW ids \in SUBSET KeyIds, NEW j, NEW k,
         IsNewest(ids, j), IsNewest(ids, k)
  PROVE  j = k
  <1>1. j \in Nat /\ k \in Nat /\ j <= k /\ k <= j
    BY ToolAssumption DEF ToolAssumption, IsNewest
  <1> QED BY <1>1

LEMMA NextIsNewest ==
  ASSUME NEW ids \in SUBSET KeyIds, NEW k, IsNextId(ids, k)
  PROVE  IsNewest(ids \cup {k}, k)
  <1>1. k \in Nat /\ ids \subseteq Nat
    BY ToolAssumption DEF ToolAssumption, IsNextId
  <1>2. ASSUME NEW j \in ids PROVE j <= k
    <2>1. j <= k - 1
      BY <1>2 DEF IsNextId, IsNewest
    <2> QED BY <1>1, <1>2, <2>1
  <1> QED BY <1>1, <1>2 DEF IsNewest

\* Where a field of one run's record is written, cmd and cipher stay.
LEMMA FieldWritten ==
  ASSUME Types, NEW p \in Terminals, pc[p] # "off", NEW x,
         \/ run' = [run EXCEPT ![p].todo = x]
         \/ run' = [run EXCEPT ![p].id = x]
         \/ run' = [run EXCEPT ![p].text = x]
  PROVE  /\ run'[p].cmd = run[p].cmd /\ run'[p].cipher = run[p].cipher
         /\ \A q \in Terminals \ {p} : run'[q] = run[q]
  <1>1. run[p] \in Run /\ run \in [Terminals -> Run \cup {NoRun}]
    BY DEF Types, TypeOK, RunsKnown
  <1> QED BY <1>1 DEF Run

CreatesKey(p) ==
  Goto(p, "write") /\ \E k \in KeyIds : run' = [run EXCEPT ![p].id = k]

LEMMA CreatesKeyMoves ==
  ASSUME Types, NEW p \in Terminals, pc[p] # "off", CreatesKey(p)
  PROVE  /\ pc'[p] = "write"
         /\ run'[p].cmd = run[p].cmd /\ run'[p].cipher = run[p].cipher
         /\ \A q \in Terminals \ {p} : pc'[q] = pc[q] /\ run'[q] = run[q]
  BY FieldWritten DEF CreatesKey, Goto, Types, TypeOK

LEMMA TextQuietly ==
  ASSUME Types, TextInv, NEW p \in Terminals,
         Type(p) \/ List(p) \/ ReadTimes(p) \/ Inited(p) \/ Check(p) \/ Kill(p)
  PROVE  TextInv'
  <1>1. UNCHANGED <<vault, printed, removed>> /\ pc[p] # "off"
    BY DEF Type, Refused, TypeFirst, TypeAgain, TypeToken, List, ReadTimes, Inited, Check,
           Kill, vaultVars, historyVars, Reading
  <1>2. /\ \A q \in Terminals \ {p} : pc'[q] = pc[q] /\ run'[q] = run[q]
        /\ \/ pc'[p] = "off"
           \/ /\ run'[p].cmd = run[p].cmd /\ run'[p].cipher = run[p].cipher
              /\ pc'[p] # "pick" \/ run[p].cmd # "reEncrypt"
    <2>1. CASE Type(p)
      BY <2>1, Moves DEF Type, Refused, TypeFirst, TypeAgain, TypeToken
    <2>2. CASE List(p)
      BY <1>1, <2>2, Moves, FieldWritten DEF List, Goto, Types, TypeOK
    <2>3. CASE ReadTimes(p)
      <3>1. CASE Ends(p)
        BY <3>1, Moves
      <3>2. CASE ~Ends(p)
        <4>1. PICK k : run' = [run EXCEPT ![p].todo = @ \ {k}]
          BY <2>3, <3>2 DEF ReadTimes
        <4> DEFINE x == run[p].todo \ {k}
        <4>2. run' = [run EXCEPT ![p].todo = x]
          BY <4>1
        <4> HIDE DEF x
        <4> QED BY <1>1, <2>3, <3>2, <4>2, FieldWritten DEF ReadTimes
      <3> QED BY <3>1, <3>2
    <2>4. CASE Inited(p)
      <3>1. Create(p, Ends(p)) => Ends(p) \/ CreatesKey(p)
        BY DEF Create, CreatesKey
      <3>2. Ends(p) \/ GoesOn(p, "check") \/ GoesOn(p, "delete") \/ CreatesKey(p)
        BY <2>4, <3>1 DEF Inited
      <3> QED BY <1>1, <3>2, Moves, CreatesKeyMoves
    <2>5. CASE Check(p)
      <3>1. Create(p, GoesOn(p, "pick")) => GoesOn(p, "pick") \/ CreatesKey(p)
        BY DEF Create, CreatesKey
      <3>2. \/ Ends(p) \/ GoesOn(p, "decrypt") \/ CreatesKey(p)
            \/ GoesOn(p, "pick") /\ run[p].cmd = "encrypt"
        BY <2>5, <3>1 DEF Check
      <3> QED BY <1>1, <3>2, Moves, CreatesKeyMoves
    <2>6. CASE Kill(p)
      BY <2>6, Moves DEF Kill
    <2> QED BY <2>1, <2>2, <2>3, <2>4, <2>5, <2>6
  <1> QED BY <1>1, <1>2, TextKept

LEMMA TextBegin ==
  ASSUME Types, TextInv, NEW p \in Terminals, BeginAny(p)
  PROVE  TextInv'
  <1>1. PICK c, alg, k, cipher : Begin(p, c, alg, k, cipher) /\ (c = "reEncrypt" => cipher \in printed)
    BY DEF BeginAny
  <1>2. /\ run' = [run EXCEPT ![p] = Start(c, alg, k, cipher)]
        /\ pc'[p] # "pick" /\ UNCHANGED <<vault, printed, removed>>
        /\ \A q \in Terminals \ {p} : pc'[q] = pc[q]
    BY <1>1 DEF Begin, Goto, vaultVars, historyVars, Types, TypeOK
  <1>3. /\ run'[p].cmd = c /\ run'[p].cipher = cipher
        /\ \A q \in Terminals \ {p} : run'[q] = run[q]
    BY <1>2 DEF Start, Types, TypeOK
  <1>4. CipherInv'
    BY <1>1, <1>2, <1>3 DEF TextInv, CipherInv
  <1>5. ReEncryptKeepsText'
    BY <1>2, <1>3 DEF TextInv, ReEncryptKeepsText
  <1> QED BY <1>4, <1>5 DEF TextInv

LEMMA TextCreate ==
  ASSUME Types, TextInv, NEW p \in Terminals, Write(p) \/ Config(p) \/ ReadBack(p)
  PROVE  TextInv'
  <1>1. \A k \in KeyIds : Present(k) => vault'[k].mat = vault[k].mat
    BY VaultGrows
  <1>2. UNCHANGED <<printed, removed>> /\ pc[p] # "off"
    BY DEF Write, Config, ReadBack, historyVars
  <1>3. ASSUME NEW outcome, CreateFailed(p, outcome)
        PROVE  /\ \A q \in Terminals \ {p} : pc'[q] = pc[q] /\ run'[q] = run[q]
               /\ \/ pc'[p] = "off"
                  \/ run' = run /\ run[p].cmd = "encrypt"
    BY <1>3, Moves DEF CreateFailed
  <1>4. /\ \A q \in Terminals \ {p} : pc'[q] = pc[q] /\ run'[q] = run[q]
        /\ \/ pc'[p] = "off"
           \/ run' = run /\ (pc'[p] # "pick" \/ run[p].cmd = "encrypt")
    <2>1. CASE GoesOn(p, "config") \/ GoesOn(p, "readBack") \/ Ends(p)
      BY <2>1, Moves
    <2>2. CASE \E outcome : CreateFailed(p, outcome)
      BY <1>3, <2>2
    <2>3. CASE run[p].cmd = "encrypt" /\ Goto(p, "pick") /\ UNCHANGED run
      BY <2>3 DEF Goto, Types, TypeOK
    <2> QED BY <2>1, <2>2, <2>3 DEF Write, Config, ReadBack
  <1> QED BY <1>1, <1>2, <1>4, TextKept

LEMMA TextPick ==
  ASSUME Types, TextInv, NEW p \in Terminals, Pick(p)
  PROVE  TextInv'
  <1>1. UNCHANGED <<vault, removed>> /\ pc[p] = "pick" /\ run[p] \in Run /\ map[p] \subseteq KeyIds
    BY DEF Pick, vaultVars, Types, TypeOK, RunsKnown
  <1>2. CASE UNCHANGED printed
    BY <1>1, <1>2, Moves, TextKept DEF Pick
  <1>3. CASE ~UNCHANGED printed
    <2>1. Ends(p) /\ LatestExported(p, "done")
      BY <1>3 DEF Pick
    <2>2. PICK k \in map[p] : IsNewest(map[p], k) /\ printed' = printed \cup {Encrypted(p, k)}
      BY <1>3 DEF Pick
    <2>3. PICK j \in map[p] : IsNewest(map[p], j) /\ "done" \in Outcomes(CanExport(j))
      BY <2>1 DEF LatestExported
    <2>4. k = j
      BY <1>1, <2>2, <2>3, NewestIsOne
    <2>5. vault[k].mat # 0
      BY <2>3, <2>4 DEF Outcomes, CanExport, Present
    <2>6. \A c \in printed' : c.mat # 0 /\ (vault[c.id].mat = c.mat \/ c.mat \in removed)
      BY <2>2, <2>5 DEF Encrypted, TextInv, CipherInv
    <2>7. pc'[p] = "off" /\ \A q \in Terminals \ {p} : pc'[q] = pc[q] /\ run'[q] = run[q]
      BY <2>1, Moves
    <2>8. CipherInv'
      BY <1>1, <2>2, <2>6, <2>7 DEF TextInv, CipherInv
    <2>9. ReEncryptKeepsText'
      BY <1>1, <2>7 DEF TextInv, ReEncryptKeepsText
    <2> QED BY <2>8, <2>9 DEF TextInv
  <1> QED BY <1>2, <1>3

LEMMA TextDecrypt ==
  ASSUME Types, TextInv, NEW p \in Terminals, Decrypt(p)
  PROVE  TextInv'
  <1>1. UNCHANGED <<vault, printed, removed>> /\ pc[p] = "decrypt" /\ run[p] \in Run
    BY DEF Decrypt, vaultVars, historyVars, Types, RunsKnown
  <1>2. CASE Ends(p)
    BY <1>1, <1>2, Moves, TextKept
  <1>3. CASE ~Ends(p)
    <2> DEFINE cipher == run[p].cipher
               mat == vault[cipher.id].mat
               x == Decrypted(cipher, mat)
    <2>1. Goto(p, "pick") /\ run' = [run EXCEPT ![p].text = x]
      BY <1>3 DEF Decrypt, KeyFor
    <2>2. run' = [run EXCEPT ![p] = [run[p] EXCEPT !.text = x]]
          /\ run \in [Terminals -> Run \cup {NoRun}]
      BY <2>1 DEF Types, TypeOK
    <2>3. /\ run'[p].cmd = run[p].cmd /\ run'[p].cipher = cipher /\ run'[p].text = x
          /\ \A q \in Terminals \ {p} : run'[q] = run[q]
      <3> HIDE DEF x
      <3> QED BY <1>1, <2>2 DEF Run
    <2>4. \A q \in Terminals \ {p} : pc'[q] = pc[q]
      BY <2>1 DEF Goto, Types, TypeOK
    <2>5. CipherInv'
      BY <1>1, <2>3, <2>4 DEF TextInv, CipherInv
    <2>6. ASSUME run[p].cmd = "reEncrypt" PROVE x = cipher.text \/ cipher.mat \in removed
      BY <1>1, <2>6 DEF TextInv, CipherInv, Decrypted
    <2>7. ReEncryptKeepsText'
      <3> HIDE DEF x
      <3> QED BY <1>1, <2>3, <2>4, <2>6 DEF TextInv, ReEncryptKeepsText
    <2> QED BY <2>5, <2>7 DEF TextInv
  <1> QED BY <1>2, <1>3

LEMMA TextDelete ==
  ASSUME Types, TextInv, NEW p \in Terminals, Delete(p)
  PROVE  TextInv'
  <1>1. UNCHANGED printed /\ run[p].id \in KeyIds
    BY DEF Delete, Types, TypeOK, RunsKnown
  <1>2. /\ pc'[p] = "off" /\ removed \subseteq removed'
        /\ \A q \in Terminals \ {p} : pc'[q] = pc[q] /\ run'[q] = run[q]
    BY DEF Delete, Types, TypeOK
  <1>3. \A k \in KeyIds : vault'[k].mat = vault[k].mat \/ vault[k].mat \in removed'
    BY <1>1 DEF Delete, Types, TypeOK
  <1>4. \A c \in printed : c.mat # 0 /\ (vault'[c.id].mat = c.mat \/ c.mat \in removed')
    BY <1>2, <1>3 DEF TextInv, CipherInv, Types, TypeOK, Ciphertext
  <1>5. CipherInv'
    BY <1>1, <1>2, <1>4 DEF TextInv, CipherInv
  <1>6. ReEncryptKeepsText'
    BY <1>2 DEF TextInv, ReEncryptKeepsText
  <1> QED BY <1>5, <1>6 DEF TextInv

LEMMA TextNext == Types /\ TextInv /\ [Next]_vars => TextInv'
  <1>1. ASSUME Types, TextInv, UNCHANGED vars PROVE TextInv'
    BY <1>1 DEF vars, vaultVars, historyVars, TextInv, CipherInv, ReEncryptKeepsText
  <1>2. ASSUME Types, TextInv, NEW p \in Terminals,
               BeginAny(p) \/ Type(p) \/ Step(p) \/ Kill(p)
        PROVE  TextInv'
    BY <1>2, TextQuietly, TextBegin, TextCreate, TextPick, TextDecrypt, TextDelete DEF Step
  <1> QED BY <1>1, <1>2 DEF Next

\* Whatever a reEncrypt is about to print is what it was given, unless the key
\* of what it was given was removed.
THEOREM TextHolds == Spec => []ReEncryptKeepsText
  <1>1. Init => TextInv
    BY DEF Init, TextInv, CipherInv, ReEncryptKeepsText
  <1>2. TextInv => ReEncryptKeepsText
    BY DEF TextInv
  <1> QED BY TypesInit, TypesNext, TextNext, <1>1, <1>2, PTL DEF Spec

-----------------------------------------------------------------------------
(* What makes a run hang.                                                  *)

\* The other runs, as long as the vault only grows, or they are marked.
LEMMA OthersSafe ==
  ASSUME Types, HangInv, NEW p \in Terminals,
         \A k \in KeyIds : /\ Present(k) => vault'[k].mat = vault[k].mat
                           /\ CanExport(k) => vault'[k].ready,
         \A q \in Terminals \ {p} :
           /\ pc'[q] = pc[q] /\ run'[q] = run[q] /\ map'[q] = map[q]
           /\ q \in spoiled => q \in spoiled',
         Safe(p)'
  PROVE  HangInv'
  <1>1. ASSUME NEW q \in Terminals \ {p} PROVE Safe(q)'
    <2>1. CASE q \in spoiled \/ IsFull(map[q])
      BY <2>1 DEF Safe, IsFull, IsNextId, IsNewest
    <2>2. CASE CheckedInv(q)
      <3>1. \A k \in KeyIds : (Present(k) => Present(k)') /\ (CanExport(k) => CanExport(k)')
        BY DEF Present, CanExport
      <3>2. pc[q] \in {"config", "readBack"} => run[q].id \in KeyIds
        BY DEF Types, RunsKnown, IsNextId
      <3>3. map[q] \subseteq KeyIds
        BY DEF Types, TypeOK
      <3>4. NewestReady(q) => NewestReady(q)'
        BY <3>1, <3>3 DEF NewestReady, IsNewest
      <3>5. pc'[q] = pc[q] /\ run'[q] = run[q]
        OBVIOUS
      <3>6. /\ pc[q] = "config" /\ Present(run[q].id) => Present(run[q].id)'
            /\ pc[q] = "readBack" /\ CanExport(run[q].id) => CanExport(run[q].id)'
        BY <3>2, <3>5 DEF Present, CanExport
      <3>7. CheckedInv(q)'
        BY <2>2, <3>4, <3>5, <3>6 DEF CheckedInv
      <3> QED BY <3>7 DEF Safe
    <2> QED BY <2>1, <2>2 DEF HangInv, Safe
  <1> QED BY <1>1 DEF HangInv

\* A vault that is left alone only grows.
LEMMA VaultSame ==
  ASSUME UNCHANGED vault
  PROVE  \A k \in KeyIds : /\ Present(k) => vault'[k].mat = vault[k].mat
                           /\ CanExport(k) => vault'[k].ready
  BY DEF Present, CanExport

\* Where no run is in danger.
Quiet == {"off", "first", "again", "token", "list", "times", "check", "write", "delete"}
LEMMA QuietSafe ==
  ASSUME NEW p \in Terminals, pc'[p] \in Quiet
  PROVE  Safe(p)'
  BY DEF Quiet, Safe, CheckedInv

LEMMA HangQuietly ==
  ASSUME Types, HangInv, NEW p \in Terminals,
         BeginAny(p) \/ Type(p) \/ List(p) \/ ReadTimes(p) \/ Inited(p) \/ Kill(p)
  PROVE  HangInv'
  <1>1. UNCHANGED vault
    BY DEF BeginAny, Begin, Type, Refused, TypeFirst, TypeAgain, TypeToken, List, ReadTimes,
           Inited, Kill, vaultVars
  <1>2. /\ pc'[p] \in Quiet
        /\ \A q \in Terminals \ {p} :
             /\ pc'[q] = pc[q] /\ run'[q] = run[q] /\ map'[q] = map[q]
             /\ q \in spoiled => q \in spoiled'
    <2>1. CASE BeginAny(p)
      <3>1. PICK c, alg, k, cipher : Begin(p, c, alg, k, cipher)
        BY <2>1 DEF BeginAny
      <3> QED BY <3>1 DEF Begin, Goto, Quiet, Types, TypeOK
    <2>2. CASE Type(p)
      BY <2>2, Moves DEF Type, Refused, TypeFirst, TypeAgain, TypeToken, Quiet
    <2>3. CASE List(p)
      BY <2>3, Moves DEF List, Goto, Quiet, Types, TypeOK
    <2>4. CASE ReadTimes(p)
      <3>1. CASE Ends(p)
        BY <3>1, Moves DEF Quiet
      <3>2. CASE ~Ends(p)
        BY <2>4, <3>2 DEF ReadTimes, Quiet, Types, TypeOK
      <3> QED BY <3>1, <3>2
    <2>5. CASE Inited(p)
      BY <2>5, Moves DEF Inited, Create, Goto, Quiet, Types, TypeOK
    <2>6. CASE Kill(p)
      BY <2>6, Moves DEF Kill, Quiet
    <2> QED BY <2>1, <2>2, <2>3, <2>4, <2>5, <2>6
  <1> QED BY <1>1, <1>2, VaultSame, QuietSafe, OthersSafe

LEMMA HangCheck ==
  ASSUME Types, HangInv, NEW p \in Terminals, Check(p)
  PROVE  HangInv'
  <1>1. UNCHANGED vault
    BY DEF Check, vaultVars
  <1>2. /\ \A q \in Terminals \ {p} :
             /\ pc'[q] = pc[q] /\ run'[q] = run[q] /\ map'[q] = map[q]
             /\ q \in spoiled => q \in spoiled'
    BY Moves DEF Check, Create, Goto, Types, TypeOK
  <1>3. Safe(p)'
    <2>1. CASE Ends(p)
      BY <2>1, Moves, QuietSafe DEF Quiet
    <2>2. CASE Goto(p, "write")
      BY <2>2, QuietSafe DEF Goto, Quiet, Types, TypeOK
    <2>3. CASE IsFull(map[p]) /\ GoesOn(p, "pick")
      BY <2>3, Moves DEF Safe, IsFull, IsNextId, IsNewest
    <2>4. CASE KeyFound(p, "done") /\ (GoesOn(p, "pick") \/ GoesOn(p, "decrypt"))
      <3>1. NewestReady(p)
        BY <2>4 DEF KeyFound, LatestExported, Outcomes, NewestReady
      <3>2. NewestReady(p)'
        BY <3>1, <2>4, <1>1, Moves DEF NewestReady, IsNewest, CanExport, Present
      <3> QED BY <2>4, <3>2, Moves DEF Safe, CheckedInv
    <2> QED BY <2>1, <2>2, <2>3, <2>4 DEF Check, Create
  <1> QED BY <1>1, <1>2, <1>3, VaultSame, OthersSafe

\* An encrypt goes on after a failed command: a fault, or its key is gone.
LEMMA FailedSafe ==
  ASSUME Types, HangInv, NEW p \in Terminals, NEW outcome, CreateFailed(p, outcome),
         run[p].cmd = "encrypt" => outcome \in Faults \/ p \in spoiled
  PROVE  /\ Safe(p)'
         /\ \A q \in Terminals \ {p} :
              /\ pc'[q] = pc[q] /\ run'[q] = run[q] /\ map'[q] = map[q]
              /\ q \in spoiled => q \in spoiled'
  <1>1. CASE Ends(p)
    BY <1>1, Moves, QuietSafe DEF Quiet
  <1>2. CASE run[p].cmd = "encrypt" /\ GoesOnFailed(p, outcome, "pick")
    BY <1>2, Moves DEF Safe
  <1> QED BY <1>1, <1>2 DEF CreateFailed

LEMMA HangCreate ==
  ASSUME Types, HangInv, NEW p \in Terminals, Write(p) \/ Config(p) \/ ReadBack(p)
  PROVE  HangInv'
  <1> DEFINE Rest == \A q \in Terminals \ {p} :
                       /\ pc'[q] = pc[q] /\ run'[q] = run[q] /\ map'[q] = map[q]
                       /\ q \in spoiled => q \in spoiled'
             id == run[p].id
  <1>1. id \in KeyIds /\ IsNextId(map[p], id) /\ ~IsFull(map[p])
    BY DEF Write, Config, ReadBack, Types, RunsKnown, IsFull, IsNextId
  <1>2. p \in spoiled \/ CheckedInv(p)
    BY <1>1 DEF HangInv, Safe
  <1>3. ASSUME Write(p) PROVE Safe(p)' /\ Rest
    <2>1. CASE GoesOn(p, "config")
      <3>1. Present(id)'
        BY <1>1, <1>3, <2>1, Moves DEF Write, Applied, Present, GoesOn, CreateFailed,
           GoesOnFailed, Ends, Goto, Types, TypeOK, vaultVars, Outcomes
      <3>2. CheckedInv(p)'
        BY <2>1, <3>1, Moves DEF CheckedInv
      <3> QED BY <2>1, <3>2, Moves DEF Safe
    <2>2. CASE \E outcome \in Outcomes(TRUE) \ {"done"} : CreateFailed(p, outcome)
      BY <2>2, FailedSafe DEF Outcomes
    <2> QED BY <1>3, <2>1, <2>2 DEF Write
  <1>4. ASSUME Config(p) PROVE Safe(p)' /\ Rest
    <2>1. PICK outcome \in Outcomes(Present(id)) :
            /\ vault' = IF Applied(outcome)
                        THEN [vault EXCEPT ![id].ready = TRUE] ELSE vault
            /\ \/ outcome = "done" /\ GoesOn(p, "readBack")
               \/ outcome # "done" /\ CreateFailed(p, outcome)
      BY <1>4 DEF Config
    <2>2. CASE outcome = "done" /\ GoesOn(p, "readBack")
      <3>1. Present(id) /\ vault' = [vault EXCEPT ![id].ready = TRUE]
        BY <2>1, <2>2 DEF Outcomes, Applied
      <3>2. vault[id] \in VaultKey /\ vault \in [KeyIds -> VaultKey]
        BY <1>1 DEF Types, TypeOK
      <3>3. CanExport(id)'
        BY <1>1, <2>2, <3>1, <3>2, Moves DEF CanExport, Present, VaultKey
      <3>4. CheckedInv(p)'
        BY <2>2, <3>3, Moves DEF CheckedInv
      <3> QED BY <2>2, <3>4, Moves DEF Safe
    <2>3. CASE CreateFailed(p, outcome) /\ outcome # "done"
      <3>1. outcome \in Faults \/ p \in spoiled
        BY <1>2, <1>4, <2>1, <2>3 DEF Outcomes, CheckedInv, Config
      <3> QED BY <2>3, <3>1, FailedSafe
    <2> QED BY <2>1, <2>2, <2>3
  <1>5. ASSUME ReadBack(p) PROVE Safe(p)' /\ Rest
    <2>1. CASE Ends(p)
      BY <2>1, Moves, QuietSafe DEF Quiet
    <2>2. CASE \E outcome \in Outcomes(Present(id)) \ {"done"} : CreateFailed(p, outcome)
      <3>1. PICK outcome \in Outcomes(Present(id)) \ {"done"} : CreateFailed(p, outcome)
        BY <2>2
      <3>2. outcome \in Faults \/ p \in spoiled
        BY <1>2, <1>5, <3>1 DEF Outcomes, CheckedInv, ReadBack, CanExport
      <3> QED BY <3>1, <3>2, FailedSafe
    <2>3. CASE /\ map' = [map EXCEPT ![p] = @ \cup {id}]
               /\ Goto(p, "pick") /\ UNCHANGED <<run, spoiled, vault>>
      <3>1. /\ pc'[p] = "pick" /\ map'[p] = map[p] \cup {id} /\ map[p] \subseteq KeyIds
            /\ Rest
        BY <2>3 DEF Goto, Types, TypeOK
      <3>2. IsNewest(map[p] \cup {id}, id)
        BY <1>1, <3>1, NextIsNewest
      <3>3. CASE p \in spoiled
        BY <2>3, <3>1, <3>3 DEF Safe
      <3>4. CASE CanExport(id)
        <4>1. CanExport(id)'
          BY <2>3, <3>4 DEF CanExport, Present
        <4>2. NewestReady(p)'
          BY <2>3, <3>1, <3>2, <4>1 DEF NewestReady, IsNewest, CanExport, Present
        <4> QED BY <3>1, <4>2 DEF Safe, CheckedInv
      <3> QED BY <1>2, <1>5, <3>3, <3>4, <3>1 DEF CheckedInv, ReadBack
    <2> QED BY <1>5, <2>1, <2>2, <2>3 DEF ReadBack, vaultVars
  <1> QED BY <1>3, <1>4, <1>5, VaultGrows, OthersSafe

LEMMA HangPick ==
  ASSUME Types, HangInv, NEW p \in Terminals, Pick(p)
  PROVE  HangInv'
  <1>1. UNCHANGED vault /\ pc[p] = "pick"
    BY DEF Pick, vaultVars
  <1>2. \A q \in Terminals \ {p} :
          /\ pc'[q] = pc[q] /\ run'[q] = run[q] /\ map'[q] = map[q]
          /\ q \in spoiled => q \in spoiled'
    BY Moves DEF Pick
  <1>3. Safe(p)'
    <2>1. CASE Ends(p)
      BY <2>1, Moves, QuietSafe DEF Quiet
    <2>2. CASE ~Ends(p)
      <3>1. PICK outcome \in OutcomeNames \ {"done"} :
              LatestExported(p, outcome) /\ GoesOnFailed(p, outcome, "hung")
        BY <2>2 DEF Pick
      <3>2. CASE p \in spoiled \/ IsFull(map[p])
        BY <3>1, <3>2, Moves DEF Safe, IsFull, IsNextId, IsNewest
      <3>3. CASE NewestReady(p)
        <4>1. PICK k \in map[p] : IsNewest(map[p], k) /\ CanExport(k)
          BY <3>3 DEF NewestReady
        <4>2. PICK j \in map[p] : IsNewest(map[p], j) /\ outcome \in Outcomes(CanExport(j))
          BY <3>1, <4>1 DEF LatestExported
        <4>3. map[p] \subseteq KeyIds
          BY DEF Types, TypeOK
        <4>4. j = k
          BY <4>1, <4>2, <4>3, NewestIsOne
        <4>5. outcome \in Faults
          BY <3>1, <4>1, <4>2, <4>4 DEF Outcomes
        <4> QED BY <3>1, <4>5, Moves DEF Safe
      <3> QED BY <1>1, <3>2, <3>3 DEF HangInv, Safe, CheckedInv
    <2> QED BY <2>1, <2>2
  <1> QED BY <1>1, <1>2, <1>3, VaultSame, OthersSafe

LEMMA HangDecrypt ==
  ASSUME Types, HangInv, NEW p \in Terminals, Decrypt(p)
  PROVE  HangInv'
  <1>1. UNCHANGED vault /\ pc[p] = "decrypt"
    BY DEF Decrypt, vaultVars
  <1>2. CASE Ends(p)
    BY <1>1, <1>2, Moves, VaultSame, QuietSafe, OthersSafe DEF Quiet
  <1>3. CASE ~Ends(p)
    <2> DEFINE x == Decrypted(run[p].cipher, vault[KeyFor(p)].mat)
    <2>1. Goto(p, "pick") /\ run' = [run EXCEPT ![p].text = x] /\ UNCHANGED <<map, spoiled>>
      BY <1>3 DEF Decrypt
    <2> HIDE DEF x
    <2>2. \A q \in Terminals \ {p} :
            /\ pc'[q] = pc[q] /\ run'[q] = run[q] /\ map'[q] = map[q]
            /\ q \in spoiled => q \in spoiled'
      BY <2>1 DEF Goto, Types, TypeOK
    <2>3. pc'[p] = "pick"
      BY <2>1 DEF Goto, Types, TypeOK
    <2>4. Safe(p)'
      <3>1. CASE p \in spoiled \/ IsFull(map[p])
        BY <2>1, <3>1 DEF Safe, IsFull, IsNextId, IsNewest
      <3>2. CASE NewestReady(p)
        <4>1. NewestReady(p)'
          BY <1>1, <2>1, <3>2 DEF NewestReady, IsNewest, CanExport, Present
        <4> QED BY <2>3, <4>1 DEF Safe, CheckedInv
      <3> QED BY <1>1, <3>1, <3>2 DEF HangInv, Safe, CheckedInv
    <2> QED BY <1>1, <2>2, <2>4, VaultSame, OthersSafe
  <1> QED BY <1>2, <1>3

\* A removal marks every run that has looked for the newest key.
LEMMA HangDelete ==
  ASSUME Types, HangInv, NEW p \in Terminals, Delete(p)
  PROVE  HangInv'
  <1>1. pc'[p] = "off" /\ \A q \in Terminals \ {p} :
          /\ pc'[q] = pc[q] /\ run'[q] = run[q] /\ map'[q] = map[q]
          /\ q \in spoiled => q \in spoiled'
    BY DEF Delete, Types, TypeOK
  <1>2. CASE UNCHANGED vault
    BY <1>1, <1>2, VaultSame, QuietSafe, OthersSafe DEF Quiet
  <1>3. CASE spoiled' = spoiled \cup {q \in Terminals : pc[q] \in Checked}
    <2>1. ASSUME NEW q \in Terminals \ {p} PROVE Safe(q)'
      <3>1. CASE pc[q] \in Checked
        BY <1>3, <3>1 DEF Safe
      <3>2. CASE pc[q] \in Quiet
        BY <1>1, <3>2, QuietSafe
      <3>3. CASE pc[q] = "hung"
        BY <1>1, <3>3 DEF HangInv, Safe, CheckedInv, IsFull, IsNextId, IsNewest
      <3>4. pc[q] \in PcValues
        BY DEF Types, TypeOK
      <3> QED BY <3>1, <3>2, <3>3, <3>4 DEF PcValues, Reading, Quiet
    <2>2. Safe(p)'
      BY <1>1, QuietSafe DEF Quiet
    <2> QED BY <2>1, <2>2 DEF HangInv
  <1> QED BY <1>2, <1>3 DEF Delete

LEMMA HangNext == Types /\ HangInv /\ [Next]_vars => HangInv'
  <1>1. ASSUME Types, HangInv, UNCHANGED vars PROVE HangInv'
    BY <1>1 DEF vars, vaultVars, HangInv, Safe, CheckedInv, NewestReady, IsFull, IsNextId,
                IsNewest, Present, CanExport
  <1>2. ASSUME Types, HangInv, NEW p \in Terminals,
               BeginAny(p) \/ Type(p) \/ Step(p) \/ Kill(p)
        PROVE  HangInv'
    BY <1>2, HangQuietly, HangCheck, HangCreate, HangPick, HangDecrypt, HangDelete DEF Step
  <1> QED BY <1>1, <1>2 DEF Next

\* A run gets stuck in Encrypt only when another run removed a key since it
\* looked for the newest one, a command of its own went wrong, or the domain
\* has no id left to create a key with.
THEOREM HangHolds == Spec => []OnlyRemovalHangs
  <1>1. Init => HangInv
    BY DEF Init, HangInv, Safe, CheckedInv
  <1>2. HangInv => OnlyRemovalHangs
    BY DEF HangInv, Safe, CheckedInv, OnlyRemovalHangs
  <1> QED BY TypesInit, TypesNext, HangNext, <1>1, <1>2, PTL DEF Spec
=============================================================================
