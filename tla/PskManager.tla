----------------------------- MODULE PskManager -----------------------------
(***************************************************************************)
(* The PskManager singleton (src/cdf/modules/psk_management): pre-shared   *)
(* keys in two maps, a storage the application keeps for it through three  *)
(* callbacks, and the key manager singleton it encrypts with and shares    *)
(* with the rest of the process.                                           *)
(*                                                                         *)
(* Every operation holds rwMutex_ exclusively from its first check to its  *)
(* return, so it is one action, but for two: LoadAllPsk checks that the    *)
(* manager is inited before it takes the lock, and                         *)
(* CheckPskValidAndAutoUpdate gives the lock up between finding a PSK      *)
(* expired and rotating it.  Refused calls change nothing and have no      *)
(* disjunct; neither have GetPsk, GetPskMetaData and CheckPskValid.        *)
(***************************************************************************)
EXTENDS Integers, FiniteSets

CONSTANTS
  Threads,      \* the threads that load and that check validity
  MaxCounts,    \* the pskMaxCount the application may call Init with
  Doms,         \* and what else it may pass that decryption depends on
  DefaultMax,   \* pskMaxCount of a default PsKManagerInitOptions
  MaxId,        \* UINT32_MAX
  ValidTimes,   \* validDays, in ticks
  BeginTimes,   \* the beginTime a caller may ask for
  Callbacks,    \* which of CREATE, UPDATE, DELETE are registered
  Faults,       \* how a callback may go wrong, see Outcomes
  OthersSetKm,  \* what other users of the key manager leave it: inited?
  Duplicates,   \* may the application import content seen before?
  Careful,      \* does it load first, and change nothing while it loads?
  MaxInits,     \* bound: nested calls of Init
  MaxTime,      \* bound: the clock stops here
  MaxContents   \* bound: PSK contents ever made

\* dom stands for what a ciphertext's decryption depends on: algorithm, key
\* manager type and domain.  The default is 0.
Options        == [max : Nat, dom : Nat]
DefaultOptions == [max |-> DefaultMax, dom |-> 0]

ASSUME PskManagerAssumption ==
  /\ MaxCounts \subseteq 1..MaxId /\ Doms \subseteq Nat
  /\ DefaultMax \in Nat /\ MaxId \in Nat \ {0}
  /\ ValidTimes \subseteq Nat /\ BeginTimes \subseteq Nat
  /\ Callbacks \subseteq {"CREATE", "UPDATE", "DELETE"}
  /\ Faults \subseteq {"failed", "lost"}
  /\ OthersSetKm \subseteq BOOLEAN
  /\ Duplicates \in BOOLEAN /\ Careful \in BOOLEAN
  /\ MaxInits \in Nat /\ MaxTime \in Nat /\ MaxContents \in Nat

VARIABLES
  options,      \* options_
  initCount,    \* initCount_
  contentMap,   \* pskContentMap_: the id of a content, or NoId
  idMap,        \* pskIdMap_: the PSK of an id, or NoPsk
  curPskMaxId,  \* curPskMaxId_: the next id
  km,           \* is the key manager singleton inited?
  storage,      \* the application's storage, which the callbacks keep
  now,          \* the time of day
  nextContent,  \* the next fresh PSK content
  pc,           \* idle, in LoadAllPsk or in CheckPskValidAndAutoUpdate
  found,        \* the id CheckPskValidAndAutoUpdate found expired, or 0
  list,         \* the ciphertexts LoadAllPsk was given
  loaded,       \* does the application believe that memory has the storage?
  dead          \* history: the contents UpdatePsk reported as replaced

mapVars     == <<contentMap, idMap, curPskMaxId>>
threadVars  == <<pc, found, list>>
vars == <<options, initCount, contentMap, idMap, curPskMaxId, km, storage,
          now, nextContent, pc, found, list, loaded, dead>>

-----------------------------------------------------------------------------
(* Data.                                                                   *)

Ids      == 0..MaxId
NoId     == -1
Contents == 1..MaxContents

Psk   == [content : Nat, valid : Nat, end : Nat]
NoPsk == [content |-> 0, valid |-> 0, end |-> 0]

\* BuildAndEncryptPskToken: the PSK and its metadata, encrypted for a domain.
Token(id, psk) == [psk |-> psk, id |-> id, dom |-> options.dom]
TokenType      == [psk : Psk, id : Ids, dom : Nat]
NoToken        == [psk |-> NoPsk, id |-> 0, dom |-> 0]
Tokens         == [Ids -> TokenType]

CheckInited == initCount > 0
Live(id)    == idMap[id] # NoPsk
Stored(id)  == storage[id] # NoToken
StoredIds   == {id \in Ids : Stored(id)}
NoList      == [id \in Ids |-> NoToken]

NextIdStuck == curPskMaxId   \* mutant of NextId: no fetch_add
NextId      == (curPskMaxId + 1) % (MaxId + 1)

\* What the callback of this type comes back with; without one registered
\* the trigger is skipped and counts as done.
Outcomes(type) ==
  IF type \in Callbacks THEN {"done"} \cup Faults ELSE {"skipped"}
Kept(outcome)       == outcome \in {"done", "lost"}
AnyAnswer(outcome)  == TRUE   \* mutant of Accepted
Accepted(outcome)   == outcome \in {"done", "skipped"}

\* The application's part, when it is careful.
MayChange == Careful => loaded /\ \A t \in Threads : pc[t] # "loading"

-----------------------------------------------------------------------------
(* The process starts, and is lost; the storage outlives it.               *)

ClearedMaps ==
  /\ contentMap' = [c \in Contents |-> NoId]
  /\ idMap' = [id \in Ids |-> NoPsk]
  /\ curPskMaxId' = 1

Init ==
  /\ options = DefaultOptions /\ initCount = 0 /\ km = FALSE
  /\ contentMap = [c \in Contents |-> NoId]
  /\ idMap = [id \in Ids |-> NoPsk] /\ curPskMaxId = 1
  /\ storage = [id \in Ids |-> NoToken]
  /\ now = 0 /\ nextContent = 1
  /\ pc = [t \in Threads |-> "idle"]
  /\ found = [t \in Threads |-> 0] /\ list = [t \in Threads |-> NoList]
  /\ loaded = TRUE /\ dead = {}

Crash ==
  /\ options' = DefaultOptions /\ initCount' = 0 /\ km' = FALSE
  /\ ClearedMaps
  /\ pc' = [t \in Threads |-> "idle"]
  /\ found' = [t \in Threads |-> 0] /\ list' = [t \in Threads |-> NoList]
  /\ loaded' = (StoredIds = {})
  /\ UNCHANGED <<storage, now, nextContent, dead>>

Tick ==
  /\ now < MaxTime
  /\ now' = now + 1
  /\ UNCHANGED <<options, initCount, mapVars, km, storage, nextContent,
                 threadVars, loaded, dead>>

\* JwtAuthServer, the command line tool or the application itself.
KmByOthers ==
  /\ km' \in OthersSetKm
  /\ UNCHANGED <<options, initCount, mapVars, storage, now, nextContent,
                 threadVars, loaded, dead>>

-----------------------------------------------------------------------------
(* Init and UnInit.                                                        *)

\* PskManager::Init.  options_ is set before the key manager is tried.
PskInit(opt) ==
  /\ \/ /\ CheckInited /\ initCount < MaxInits
        /\ initCount' = initCount + 1
        /\ UNCHANGED <<options, km>>
     \/ /\ ~CheckInited
        /\ options' = opt
        /\ \/ km' = TRUE /\ initCount' = 1
           \/ ~km /\ UNCHANGED <<km, initCount>>
  /\ UNCHANGED <<mapVars, storage, now, nextContent, threadVars, loaded, dead>>

CountAfterUnInit == IF initCount = 0 THEN 0 ELSE initCount - 1

UnInit ==
  /\ initCount' = CountAfterUnInit
  /\ IF initCount = 1
     THEN /\ km' = FALSE /\ ClearedMaps /\ options' = DefaultOptions
          /\ loaded' = (StoredIds = {})
     ELSE UNCHANGED <<options, mapVars, km, loaded>>
  /\ UNCHANGED <<storage, now, nextContent, threadVars, dead>>

-----------------------------------------------------------------------------
(* GeneratePsk, ImportPsk and DeletePsk.                                   *)

\* ValidatePskParams, the token, the CREATE callback, and emplace into both
\* maps, which keeps what is already there.  Nothing holds the caller's begin
\* time against the clock.
AddPsk(content, valid, begin) ==
  LET psk == [content |-> content, valid |-> valid, end |-> begin + valid]
      id  == curPskMaxId
  IN  /\ CheckInited /\ id <= options.max /\ km
      /\ MayChange
      /\ \E outcome \in Outcomes("CREATE") :
           /\ storage' = IF Kept(outcome)
                         THEN [storage EXCEPT ![id] = Token(id, psk)]
                         ELSE storage
           /\ IF Accepted(outcome)
              THEN /\ contentMap' = [contentMap EXCEPT ![content] =
                                       IF @ = NoId THEN id ELSE @]
                   /\ idMap' = [idMap EXCEPT ![id] = IF Live(id) THEN @ ELSE psk]
                   /\ curPskMaxId' = NextId
              ELSE UNCHANGED mapVars
      /\ UNCHANGED <<options, initCount, km, now, threadVars, loaded,
                     dead>>

GeneratePsk(valid, begin) ==
  /\ nextContent \in Contents
  /\ nextContent' = nextContent + 1
  /\ AddPsk(nextContent, valid, begin)

\* Content the caller brings along, new or, in an application that does not
\* look, seen before.
ImportPsk(content, valid, begin) ==
  /\ \/ content = nextContent /\ nextContent' = nextContent + 1
     \/ Duplicates /\ content < nextContent /\ UNCHANGED nextContent
  /\ AddPsk(content, valid, begin)

DeletePsk(id) ==
  /\ CheckInited /\ Live(id)
  /\ MayChange
  /\ \E outcome \in Outcomes("DELETE") :
       /\ storage' = IF Kept(outcome) THEN [storage EXCEPT ![id] = NoToken]
                     ELSE storage
       /\ IF Accepted(outcome)
          THEN /\ contentMap' = [contentMap EXCEPT ![idMap[id].content] = NoId]
               /\ idMap' = [idMap EXCEPT ![id] = NoPsk]
          ELSE UNCHANGED <<contentMap, idMap>>
  /\ UNCHANGED <<options, initCount, curPskMaxId, km, now, nextContent,
                 threadVars, loaded, dead>>

-----------------------------------------------------------------------------
(* UpdatePsk.                                                              *)

\* Which PSK the caller means by an id and a content, either possibly
\* unknown; 0 stands for an unknown content.
KnownContent(c) == c \in Contents /\ contentMap[c] # NoId
Target(id, c) ==
  IF Live(id)
  THEN IF KnownContent(c) /\ contentMap[c] # id THEN NoId ELSE id
  ELSE IF KnownContent(c) /\ Live(contentMap[c]) THEN contentMap[c] ELSE NoId

ContentsKept(id, old, new) == [contentMap EXCEPT ![new] = id]   \* mutant
ContentsAfterUpdate(id, old, new) ==
  [contentMap EXCEPT ![old] = NoId, ![new] = id]

StorageKept(id, psk) == storage   \* mutant of StorageAfterUpdate
StorageAfterUpdate(id, psk) == [storage EXCEPT ![id] = Token(id, psk)]

UpdatePsk(id, c) ==
  /\ CheckInited /\ Target(id, c) # NoId /\ km
  /\ MayChange
  /\ nextContent \in Contents
  /\ nextContent' = nextContent + 1
  /\ LET target == Target(id, c)
         old    == idMap[target]
         psk    == [old EXCEPT !.content = nextContent, !.end = now + old.valid]
     IN  \E outcome \in Outcomes("UPDATE") :
           /\ storage' = IF Kept(outcome) THEN StorageAfterUpdate(target, psk)
                         ELSE storage
           /\ IF Accepted(outcome)
              THEN /\ idMap' = [idMap EXCEPT ![target] = psk]
                   /\ contentMap' = ContentsAfterUpdate(target, old.content,
                                                        nextContent)
                   /\ dead' = dead \cup {old.content}
              ELSE UNCHANGED <<idMap, contentMap, dead>>
  /\ UNCHANGED <<options, initCount, curPskMaxId, km, now, loaded>>

Update(id, c) == UpdatePsk(id, c) /\ UNCHANGED threadVars

\* CheckPskValidAndAutoUpdate: find the PSK expired and let the lock go ...
AutoCheck(t, id) ==
  /\ pc[t] = "idle"
  /\ CheckInited /\ Live(id)
  /\ now > idMap[id].end
  /\ pc' = [pc EXCEPT ![t] = "expired"]
  /\ found' = [found EXCEPT ![t] = id]
  /\ UNCHANGED <<options, initCount, mapVars, km, storage, now, nextContent,
                 list, loaded, dead>>

\* ... and take it again in UpdatePsk, which may refuse: the PSK is gone, the
\* manager or its key manager is uninited, or the vault fails.
AutoUpdate(t) ==
  /\ pc[t] = "expired"
  /\ pc' = [pc EXCEPT ![t] = "idle"] /\ found' = [found EXCEPT ![t] = 0]
  /\ UNCHANGED list
  /\ \/ UpdatePsk(found[t], 0)
     \/ UNCHANGED <<options, initCount, mapVars, km, storage, now, nextContent,
                    loaded, dead>>

-----------------------------------------------------------------------------
(* LoadAllPsk.                                                             *)

\* The application reads its storage and passes the ciphertexts in the order
\* of their ids.  CheckInited comes before the lock.
LoadCheck(t) ==
  /\ pc[t] = "idle"
  /\ CheckInited /\ StoredIds # {}
  /\ pc' = [pc EXCEPT ![t] = "loading"]
  /\ list' = [list EXCEPT ![t] = storage]
  /\ UNCHANGED <<options, initCount, mapVars, km, storage, now, nextContent,
                 found, loaded, dead>>

Listed(ts)   == {id \in Ids : ts[id] # NoToken}
Rank(ts, id) == Cardinality({j \in Listed(ts) : j <= id})
IsRank(ts, id, r) == id \in Listed(ts) /\ Rank(ts, id) = r

\* DecryptAndParsePskToken and ValidatePskMetaData, under the options that
\* ClearAllData has just set back to the default.
Usable(token) ==
  km /\ token.dom = DefaultOptions.dom /\ token.id <= DefaultOptions.max

\* The tokens as the application keys its storage from then on: 1, 2, ...
Renumbered(ts) ==
  [r \in Ids |->
     IF \E id \in Ids : IsRank(ts, id, r)
     THEN ts[CHOOSE id \in Ids : IsRank(ts, id, r)] ELSE NoToken]

\* insert() keeps the first of several equal contents.
IsFirst(ts, r, c) ==
  /\ ts[r].psk.content = c
  /\ \A s \in 1..r : ts[s].psk.content = c => s = r

\* The loop stops, and leaves what it has loaded, at the first ciphertext it
\* cannot use; the vault may make that any of them.
LoadAllPsk(t) ==
  /\ pc[t] = "loading"
  /\ LET tokens == Renumbered(list[t])
         count  == Cardinality(Listed(list[t]))
     IN  \E n \in 0..count :
           /\ \A r \in 1..n : Usable(tokens[r])
           /\ options' = DefaultOptions
           /\ idMap' = [r \in Ids |-> IF r \in 1..n THEN tokens[r].psk ELSE NoPsk]
           /\ contentMap' =
                [c \in Contents |->
                   IF \E r \in 1..n : IsFirst(tokens, r, c)
                   THEN CHOOSE r \in 1..n : IsFirst(tokens, r, c) ELSE NoId]
           /\ curPskMaxId' = (1 + n) % (MaxId + 1)
           /\ loaded' = (n = count)
           /\ storage' = IF n = count THEN tokens ELSE storage
  /\ pc' = [pc EXCEPT ![t] = "idle"] /\ list' = [list EXCEPT ![t] = NoList]
  /\ UNCHANGED <<initCount, km, now, nextContent, found, dead>>

-----------------------------------------------------------------------------
Next ==
  \/ Crash \/ Tick \/ KmByOthers
  \/ \E max \in MaxCounts, dom \in Doms : PskInit([max |-> max, dom |-> dom])
  \/ UnInit
  \/ \E valid \in ValidTimes, begin \in BeginTimes :
       \/ GeneratePsk(valid, begin)
       \/ \E content \in Contents : ImportPsk(content, valid, begin)
  \/ \E id \in Ids :
       \/ DeletePsk(id)
       \/ \E c \in Contents \cup {0} : Update(id, c)
  \/ \E t \in Threads :
       \/ \E id \in Ids : AutoCheck(t, id)
       \/ AutoUpdate(t) \/ LoadCheck(t) \/ LoadAllPsk(t)

Spec == Init /\ [][Next]_vars
-----------------------------------------------------------------------------
(* Properties.                                                             *)

MapsOK ==
  /\ contentMap \in [Contents -> Ids \cup {NoId}]
  /\ idMap \in [Ids -> Psk] /\ curPskMaxId \in Ids
ThreadsOK ==
  /\ pc \in [Threads -> {"idle", "loading", "expired"}]
  /\ found \in [Threads -> Ids]
  /\ list \in [Threads -> Tokens]

\* The types; initCount_ never goes negative however often UnInit is called.
TypeOK ==
  /\ options \in Options /\ initCount \in Nat /\ km \in BOOLEAN
  /\ MapsOK /\ ThreadsOK
  /\ storage \in Tokens
  /\ now \in Nat /\ nextContent \in Nat /\ loaded \in BOOLEAN
  /\ dead \subseteq Nat

\* pskContentMap_ is the inverse of pskIdMap_, through every update, deletion
\* and load.
MapsAgree ==
  /\ \A id \in Ids : Live(id) => contentMap[idMap[id].content] = id
  /\ \A c \in Contents :
       contentMap[c] # NoId => idMap[contentMap[c]].content = c

\* With callbacks that tell the truth, the storage of an application that has
\* loaded it holds exactly the PSKs in memory, under the ids they have there.
StorageMatchesMemory ==
  loaded /\ CheckInited => \A id \in Ids : idMap[id] = storage[id].psk

\* Content that UpdatePsk reported as replaced is never live again, in memory
\* or in storage, whatever crashed or was loaded since.
RotatedContentIsDead ==
  \A c \in dead :
    /\ \A id \in Ids : idMap[id].content # c
    /\ \A id \in Ids : storage[id].psk.content # c
    /\ contentMap[c] = NoId

\* Whatever PSK is in memory, the application finds in its storage: also after
\* a LoadAllPsk that stopped half-way, or that went on after UnInit.
MemoryIsStored ==
  \A id \in Ids : Live(id) => \E j \in StoredIds : storage[j].psk = idMap[id]

\* UnInit "clears the PSK data in memory": an uninited manager holds none.
\* Claimed in the API documentation; a LoadAllPsk breaks it, as psk_uninit shows.
UninitedIsEmpty == ~CheckInited => \A id \in Ids : ~Live(id)

\* CheckPskValidAndAutoUpdate rotates a PSK "if it is expired": the one that it
\* replaces, when it has the lock again, is past its end.  Claimed in the API
\* documentation; two checks of one PSK break it, as psk_twice shows.
OnlyExpiredAreRenewed ==
  [][\A t \in Threads :
       pc[t] = "expired" /\ pc'[t] = "idle"
         /\ idMap'[found[t]] \notin {idMap[found[t]], NoPsk}
         => now > idMap[found[t]].end]_vars

\* Seen from outside, ids, renumbering loads, failing callbacks and restarts
\* disappear: storage and memory together are the simple store of PskStore,
\* of which no restart loses, doubles or brings back a PSK.
Store == INSTANCE PskStore WITH
  Psks    <- [content : Contents, valid : ValidTimes,
              end : {time + v : time \in BeginTimes \cup 0..MaxTime,
                                v \in ValidTimes}],
  store   <- {storage[id].psk : id \in StoredIds},
  offered <- IF loaded /\ CheckInited
             THEN {idMap[id] : id \in {i \in Ids : Live(i)}} ELSE {},
  used    <- 1..(nextContent - 1),
  limit   <- options.max
ImplementsPskStore == Store!Spec
=============================================================================
