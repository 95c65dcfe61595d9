------------------------------ MODULE CryptoTool -------------------------------
(***************************************************************************)
(* The command line tool (cli/cryption_tool.cpp, cmd.cpp, kmc_cmd.cpp) and *)
(* the KmCryptor it encrypts with.  Every run is a process of its own: it  *)
(* reads what the operator types, loads the map of a domain's keys from    *)
(* the vault when its key manager is inited, and then works with that map. *)
(* Several operators run it at their own terminals against one vault, so   *)
(* each map may be stale.  One step is what a run does from the end of one *)
(* vault command, or of one entry that is typed, to the end of the next.   *)
(* Inside one process the key manager is OpenbaoKeyManager's; here is what *)
(* the processes do to each other.                                         *)
(***************************************************************************)
EXTENDS Integers, FiniteSets

CONSTANTS
  Terminals,    \* where the tool is run, one run at a time at each
  KeyIds,       \* the key ids of the domain, 0 .. UINT16_MAX
  MaxKeyCount,  \* MAX_KEY_COUNT
  Algs,         \* what the configuration may name as algorithm
  Sealed,       \* those that authenticate: a wrong key is noticed
  Faults,       \* how a vault command may go wrong: "failed", "lost"
  MaxGen,       \* bound: no run that makes keys starts after this many
  MaxPrinted    \* bound: no run that encrypts starts after this many

ASSUME ToolAssumption ==
  /\ KeyIds \subseteq Nat
  /\ MaxKeyCount \in Nat /\ MaxGen \in Nat /\ MaxPrinted \in Nat
  /\ Sealed \subseteq Algs
  /\ Faults \subseteq {"failed", "lost"}

VARIABLES
  pc,       \* where the run at each terminal is
  run,      \* its command, arguments and locals
  map,      \* domainKeyMap_ of its process: the ids it knows
  echo,     \* does the terminal echo?
  saved,    \* ttySave: did it echo before the run turned that off?
  vault,    \* the key behind each id
  gen,      \* the key material the vault makes up next
  printed,  \* history: the ciphertexts runs have printed
  removed,  \* history: the key material that was deleted
  spoiled,  \* history: the runs that a removal by another run, or a fault, has
            \* met since they looked for the newest key
  cut       \* history: the terminals where a run was killed while it read

ttyVars     == <<echo, saved>>
vaultVars   == <<vault, gen>>
historyVars == <<printed, removed, cut>>
vars == <<pc, run, map, spoiled, ttyVars, vaultVars, historyVars>>

-----------------------------------------------------------------------------
(* Data.                                                                   *)

Commands == {"encrypt", "reEncrypt", "createkey", "displaykey", "removekey"}
Creating == {"encrypt", "createkey"}
Encrypting == {"encrypt", "reEncrypt"}
Texts    == {"text", "garbage"}   \* what was typed; what a wrong key makes of it

\* The header's key id and algorithm, the material it was made with, the text.
Ciphertext == [id : KeyIds, alg : Algs, mat : Nat, text : Texts]

VaultKey == [mat : Nat, ready : BOOLEAN]   \* ready: exportable and deletable
NoKey    == [mat |-> 0, ready |-> FALSE]

\* id is removekey's argument, and then the key a command is about.
Start(c, alg, id, cipher) ==
  [cmd |-> c, alg |-> alg, id |-> id, cipher |-> cipher,
   todo |-> {}, text |-> "text"]
NoAlg == "none"
NoCipher == [id |-> 0, alg |-> NoAlg, mat |-> 0, text |-> "text"]
Run == [cmd : Commands, alg : Algs \cup {NoAlg}, id : KeyIds \cup {0},
        cipher : Ciphertext \cup {NoCipher}, todo : SUBSET KeyIds, text : Texts]
NoRun == [cmd |-> "none"]

Reading == {"first", "again", "token"}
Checked == {"write", "config", "readBack", "decrypt", "pick"}
PcValues == {"off", "list", "times", "check", "delete", "hung"}
              \cup Reading \cup Checked

-----------------------------------------------------------------------------
(* The vault (external): transit/keys of the domain.                       *)

Present(k)   == vault[k].mat # 0
CanExport(k) == Present(k) /\ vault[k].ready
CanDelete(k) == Present(k) /\ vault[k].ready

Outcomes(permitted) == IF permitted THEN {"done"} \cup Faults ELSE {"refused"}
Applied(outcome)    == outcome \in {"done", "lost"}

-----------------------------------------------------------------------------
(* The map.                                                                *)

IsNewest(ids, k) == k \in ids /\ \A j \in ids : j <= k

\* GenerateKeyId
IsNextId(ids, k) ==
  /\ k \in KeyIds
  /\ Cardinality(ids) < MaxKeyCount
  /\ IF ids = {} THEN k = 0 ELSE IsNewest(ids, k - 1)
IsFull(ids) == \A k \in KeyIds : ~IsNextId(ids, k)

-----------------------------------------------------------------------------
(* The run.                                                                *)

Init ==
  /\ pc = [p \in Terminals |-> "off"]
  /\ run = [p \in Terminals |-> NoRun]
  /\ map = [p \in Terminals |-> {}]
  /\ echo = [p \in Terminals |-> TRUE]
  /\ saved = [p \in Terminals |-> TRUE]
  /\ vault = [k \in KeyIds |-> NoKey]
  /\ gen = 1
  /\ printed = {} /\ removed = {} /\ spoiled = {} /\ cut = {}

Goto(p, label) == pc' = [pc EXCEPT ![p] = label]
GoesOn(p, label) == Goto(p, label) /\ UNCHANGED <<run, map, spoiled>>

\* It goes on although a vault command did not work.
GoesOnFailed(p, outcome, label) ==
  /\ Goto(p, label)
  /\ spoiled' = IF outcome \in Faults THEN spoiled \cup {p} ELSE spoiled
  /\ UNCHANGED <<run, map>>

\* The process ends and its memory with it.
Ends(p) ==
  /\ pc' = [pc EXCEPT ![p] = "off"]
  /\ run' = [run EXCEPT ![p] = NoRun]
  /\ map' = [map EXCEPT ![p] = {}]
  /\ spoiled' = spoiled \ {p}

EchoOff(p) ==
  /\ saved' = [saved EXCEPT ![p] = echo[p]]
  /\ echo' = [echo EXCEPT ![p] = FALSE]
EchoBack(p) ==
  /\ echo' = [echo EXCEPT ![p] = saved[p]]
  /\ UNCHANGED saved

\* main up to the first thing the operator types.  With arguments or a
\* configuration it cannot use, the tool ends here and has changed nothing.
Begin(p, c, alg, k, cipher) ==
  /\ pc[p] = "off"
  /\ c \in Creating => gen <= MaxGen
  /\ c \in Encrypting => Cardinality(printed) < MaxPrinted
  /\ Goto(p, IF c \in Encrypting THEN "first" ELSE "token")
  /\ run' = [run EXCEPT ![p] = Start(c, alg, k, cipher)]
  /\ EchoOff(p)
  /\ UNCHANGED <<map, spoiled, vaultVars, historyVars>>

\* An algorithm the tool does not know is noticed only by the key manager.
ConfigAlgs == Algs \cup {NoAlg}

BeginAny(p) ==
  \/ \E c \in {"createkey", "displaykey"} : Begin(p, c, NoAlg, 0, NoCipher)
  \/ \E k \in KeyIds : Begin(p, "removekey", NoAlg, k, NoCipher)
  \/ \E alg \in ConfigAlgs : Begin(p, "encrypt", alg, 0, NoCipher)
  \/ \E alg \in ConfigAlgs : \E cipher \in printed :
       Begin(p, "reEncrypt", alg, 0, cipher)

\* Empty, too long, or not twice the same: the run ends.
RefusedSilently(p) ==   \* mutant of Refused: an early return forgets the echo
  /\ pc[p] \in Reading
  /\ Ends(p)
  /\ IF pc[p] = "again" THEN UNCHANGED ttyVars ELSE EchoBack(p)
  /\ UNCHANGED <<vaultVars, historyVars>>
Refused(p) ==
  /\ pc[p] \in Reading
  /\ Ends(p)
  /\ EchoBack(p)
  /\ UNCHANGED <<vaultVars, historyVars>>

TypeFirst(p) ==
  /\ pc[p] = "first" /\ GoesOn(p, "again")
  /\ UNCHANGED <<ttyVars, vaultVars, historyVars>>

\* ReadEncryptContent restores the echo, GetAccessTokenFromInput saves it anew.
TypeAgain(p) ==
  /\ pc[p] = "again" /\ GoesOn(p, "token")
  /\ UNCHANGED <<ttyVars, vaultVars, historyVars>>

TypeToken(p) ==
  /\ pc[p] = "token" /\ GoesOn(p, "list")
  /\ EchoBack(p)
  /\ UNCHANGED <<vaultVars, historyVars>>

-----------------------------------------------------------------------------
(* The key manager's Init: the ids are listed and then read one by one.    *)

List(p) ==
  /\ pc[p] = "list"
  /\ \/ /\ Goto(p, "times")
        /\ run' = [run EXCEPT ![p].todo = {k \in KeyIds : Present(k)}]
        /\ UNCHANGED <<map, spoiled>>
     \/ Faults # {} /\ Ends(p)
  /\ UNCHANGED <<ttyVars, vaultVars, historyVars>>

\* A key removed since it was listed ends the run.
ReadTimes(p) ==
  /\ pc[p] = "times"
  /\ \E k \in run[p].todo : \E outcome \in Outcomes(Present(k)) :
       \/ /\ outcome = "done"
          /\ map' = [map EXCEPT ![p] = @ \cup {k}]
          /\ run' = [run EXCEPT ![p].todo = @ \ {k}]
          /\ UNCHANGED <<pc, spoiled>>
       \/ outcome # "done" /\ Ends(p)
  /\ UNCHANGED <<ttyVars, vaultVars, historyVars>>

\* CreateKey up to its first vault command, or to where it refuses.
Create(p, otherwise) ==
  \/ \E k \in KeyIds :
       /\ IsNextId(map[p], k)
       /\ Goto(p, "write")
       /\ run' = [run EXCEPT ![p].id = k]
       /\ UNCHANGED <<map, spoiled>>
  \/ IsFull(map[p]) /\ otherwise

Inited(p) ==
  /\ pc[p] = "times" /\ run[p].todo = {}
  /\ \/ run[p].cmd \in Encrypting /\ GoesOn(p, "check")
     \/ run[p].cmd = "createkey" /\ Create(p, Ends(p))
     \/ run[p].cmd = "displaykey" /\ Ends(p)
     \/ /\ run[p].cmd = "removekey"
        /\ IF run[p].id \in map[p] THEN GoesOn(p, "delete") ELSE Ends(p)
  /\ UNCHANGED <<ttyVars, vaultVars, historyVars>>

-----------------------------------------------------------------------------
(* The commands.                                                           *)

\* GetLatestKey: exports the newest key of the map, if that can be had.
LatestExported(p, outcome) ==
  \/ map[p] = {} /\ outcome = "refused"
  \/ \E k \in map[p] : IsNewest(map[p], k) /\ outcome \in Outcomes(CanExport(k))

\* How PrepareKmDomainKey and CheckDomainKey find that the domain has a key.
MapHasKey(p, outcome) ==   \* mutant of KeyFound: the map is believed
  outcome = IF map[p] = {} THEN "refused" ELSE "done"
KeyFound(p, outcome) == LatestExported(p, outcome)

OutcomeNames == {"done", "refused", "failed", "lost"}

\* PrepareKmDomainKey, and CheckDomainKey of a reEncrypt.  Whether CreateKey
\* succeeds, PrepareKmDomainKey does not ask.
Check(p) ==
  /\ pc[p] = "check"
  /\ \/ /\ KeyFound(p, "done")
        /\ GoesOn(p, IF run[p].cmd = "encrypt" THEN "pick" ELSE "decrypt")
     \/ /\ \E outcome \in OutcomeNames \ {"done"} : KeyFound(p, outcome)
        /\ \/ run[p].cmd = "encrypt" /\ Create(p, GoesOn(p, "pick"))
           \/ run[p].cmd = "reEncrypt" /\ Ends(p)
  /\ UNCHANGED <<ttyVars, vaultVars, historyVars>>

\* What follows a command of CreateKey that did not work.
CreateFailed(p, outcome) ==
  \/ run[p].cmd = "encrypt" /\ GoesOnFailed(p, outcome, "pick")
  \/ run[p].cmd = "createkey" /\ Ends(p)

\* write -f: on a key that exists it changes nothing.
Write(p) ==
  /\ pc[p] = "write"
  /\ \E outcome \in Outcomes(TRUE) :
       /\ IF Applied(outcome) /\ ~Present(run[p].id)
          THEN /\ vault' = [vault EXCEPT ![run[p].id] =
                              [mat |-> gen, ready |-> FALSE]]
               /\ gen' = gen + 1
          ELSE UNCHANGED vaultVars
       /\ \/ outcome = "done" /\ GoesOn(p, "config")
          \/ outcome # "done" /\ CreateFailed(p, outcome)
  /\ UNCHANGED <<ttyVars, historyVars>>

Config(p) ==
  /\ pc[p] = "config"
  /\ \E outcome \in Outcomes(Present(run[p].id)) :
       /\ vault' = IF Applied(outcome)
                   THEN [vault EXCEPT ![run[p].id].ready = TRUE] ELSE vault
       /\ \/ outcome = "done" /\ GoesOn(p, "readBack")
          \/ outcome # "done" /\ CreateFailed(p, outcome)
  /\ UNCHANGED <<gen, ttyVars, historyVars>>

ReadBack(p) ==
  /\ pc[p] = "readBack"
  /\ \E outcome \in Outcomes(Present(run[p].id)) :
       \/ outcome = "done" /\ run[p].cmd = "createkey" /\ Ends(p)
       \/ /\ outcome = "done" /\ run[p].cmd = "encrypt"
          /\ map' = [map EXCEPT ![p] = @ \cup {run[p].id}]
          /\ Goto(p, "pick") /\ UNCHANGED <<run, spoiled>>
       \/ outcome # "done" /\ CreateFailed(p, outcome)
  /\ UNCHANGED <<ttyVars, vaultVars, historyVars>>

\* KmCryptor::Encrypt.  It asks for the newest key again; without one it calls
\* CreateKey, which waits for the lock that Encrypt holds.  The domain is known
\* to the map by now: CreateKey enters it even when it makes no key.
Encrypted(p, k) ==
  [id |-> k, alg |-> run[p].alg, mat |-> vault[k].mat, text |-> run[p].text]

Pick(p) ==
  /\ pc[p] = "pick"
  /\ \/ run[p].alg \notin Algs /\ Ends(p) /\ UNCHANGED printed
     \/ /\ run[p].alg \in Algs /\ LatestExported(p, "done")
        /\ \E k \in map[p] : /\ IsNewest(map[p], k)
                             /\ printed' = printed \cup {Encrypted(p, k)}
        /\ Ends(p)
     \/ /\ run[p].alg \in Algs /\ UNCHANGED printed
        /\ \E outcome \in OutcomeNames \ {"done"} :
             LatestExported(p, outcome) /\ GoesOnFailed(p, outcome, "hung")
  /\ UNCHANGED <<ttyVars, vaultVars, removed, cut>>

\* KmCryptor::Decrypt: the header's algorithm and id, then the key it names.
NewestOf(p) == CHOOSE k \in map[p] : IsNewest(map[p], k)   \* mutant of KeyFor
KeyFor(p) == run[p].cipher.id

Decrypted(cipher, mat) == IF mat = cipher.mat THEN cipher.text ELSE "garbage"
Opens(cipher, mat) == mat = cipher.mat \/ cipher.alg \notin Sealed

Usable(p) ==
  run[p].cipher.alg = run[p].alg /\ run[p].cipher.id \in map[p]

Decrypt(p) ==
  /\ pc[p] = "decrypt"
  /\ \/ ~Usable(p) /\ Ends(p)
     \/ /\ Usable(p)
        /\ \E outcome \in Outcomes(CanExport(KeyFor(p))) :
             LET mat == vault[KeyFor(p)].mat
             IN  IF outcome = "done" /\ Opens(run[p].cipher, mat)
                 THEN /\ Goto(p, "pick")
                      /\ run' = [run EXCEPT ![p].text =
                                   Decrypted(run[p].cipher, mat)]
                      /\ UNCHANGED <<map, spoiled>>
                 ELSE Ends(p)
  /\ UNCHANGED <<ttyVars, vaultVars, historyVars>>

\* RemoveKey: whatever the vault has under the id by now.
Delete(p) ==
  /\ pc[p] = "delete"
  /\ \E outcome \in Outcomes(CanDelete(run[p].id)) :
       IF Applied(outcome)
       THEN /\ vault' = [vault EXCEPT ![run[p].id] = NoKey]
            /\ removed' = removed \cup {vault[run[p].id].mat}
            /\ spoiled' = spoiled \cup {q \in Terminals : pc[q] \in Checked}
       ELSE UNCHANGED <<vault, removed, spoiled>>
  /\ pc' = [pc EXCEPT ![p] = "off"]
  /\ run' = [run EXCEPT ![p] = NoRun]
  /\ map' = [map EXCEPT ![p] = {}]
  /\ UNCHANGED <<ttyVars, gen, printed, cut>>

-----------------------------------------------------------------------------
(* The operator's Ctrl-C, at any point: also the way out of a run that     *)
(* hangs.                                                                  *)
Kill(p) ==
  /\ pc[p] # "off"
  /\ Ends(p)
  /\ cut' = IF pc[p] \in Reading THEN cut \cup {p} ELSE cut
  /\ UNCHANGED <<ttyVars, vaultVars, printed, removed>>

Type(p) == TypeFirst(p) \/ TypeAgain(p) \/ TypeToken(p) \/ Refused(p)
Step(p) == \/ List(p) \/ ReadTimes(p) \/ Inited(p) \/ Check(p)
           \/ Write(p) \/ Config(p) \/ ReadBack(p)
           \/ Pick(p) \/ Decrypt(p) \/ Delete(p)

Next == \E p \in Terminals : BeginAny(p) \/ Type(p) \/ Step(p) \/ Kill(p)

Spec == Init /\ [][Next]_vars

-----------------------------------------------------------------------------
(* Properties.                                                             *)

\* Every variable has its type.
TypeOK ==
  /\ pc \in [Terminals -> PcValues]
  /\ run \in [Terminals -> Run \cup {NoRun}]
  /\ map \in [Terminals -> SUBSET KeyIds]
  /\ echo \in [Terminals -> BOOLEAN] /\ saved \in [Terminals -> BOOLEAN]
  /\ vault \in [KeyIds -> VaultKey] /\ gen \in Nat \ {0}
  /\ printed \subseteq Ciphertext /\ removed \subseteq Nat
  /\ spoiled \subseteq Terminals /\ cut \subseteq Terminals

\* kmc_cmd.cpp:274-281: between PrepareKmDomainKey and Encrypt's own look at
\* the newest key nothing holds the vault still.  A run gets stuck in Encrypt
\* only if another run removed a key of the domain meanwhile, a vault command
\* of its own went wrong, or the domain's ids are used up.
OnlyRemovalHangs ==
  \A p \in Terminals :
    pc[p] = "hung" => p \in spoiled \/ IsFull(map[p])

\* kmc_cmd.cpp:331-345: what a reEncrypt is about to print carries the text it
\* was given, whichever maps were stale and whichever ids were used again,
\* unless the key of what it was given has been removed: an algorithm that
\* does not authenticate then takes whatever key has the id now.
ReEncryptKeepsText ==
  \A p \in Terminals :
    pc[p] = "pick" /\ run[p].cmd = "reEncrypt" =>
      run[p].text = run[p].cipher.text \/ run[p].cipher.mat \in removed

\* kmc_cmd.cpp:61-92, 393-427: a terminal that does not echo is being read
\* from, or a run there was killed while it read; later runs take the state
\* they find for the one to restore.
EchoIsRestored ==
  \A p \in Terminals : ~echo[p] => pc[p] \in Reading \/ p \in cut
=============================================================================
