--------------------------- MODULE PskManagerProofs ---------------------------
(***************************************************************************)
(* Theorems about PskManager, for every value of its constants:            *)
(*   - the types hold and the two maps are each other's inverse, in an     *)
(*     application that imports no content twice and whose limits are      *)
(*     below UINT32_MAX (InvHolds, TypeCorrect, MapsAreInverse);           *)
(*   - with callbacks that tell the truth and an application that loads    *)
(*     before it changes anything, storage and memory agree, a load that   *)
(*     stops half-way or overlaps UnInit included, rotated content is      *)
(*     dead, and the whole implements PskStore (StorageIsMemory,           *)
(*     MemoryStaysStored, RotatedStaysDead, PskStoreIsImplemented).        *)
(***************************************************************************)
EXTENDS PskManager, FiniteSetTheorems, TLAPS

-----------------------------------------------------------------------------
(* Type correctness.                                                       *)

LEMMA WrapOK ==
  ASSUME PskManagerAssumption, NEW n \in Nat
  PROVE  n % (MaxId + 1) \in Ids
  BY DEF PskManagerAssumption, Ids

LEMMA ZeroOK ==
  ASSUME PskManagerAssumption
  PROVE  /\ 0 \in Ids /\ 1 \in Ids /\ Ids \subseteq Nat
         /\ NoPsk \in Psk /\ NoId \notin Ids
         /\ DefaultOptions \in Options
  BY DEF PskManagerAssumption, Ids, NoPsk, Psk, NoId, DefaultOptions, Options

LEMMA ClearedOK ==
  ASSUME PskManagerAssumption, ClearedMaps
  PROVE  MapsOK'
  BY ZeroOK DEF ClearedMaps, MapsOK

LEMMA NoListOK ==
  ASSUME PskManagerAssumption
  PROVE  NoToken \in TokenType /\ NoList \in Tokens
  BY ZeroOK DEF NoToken, TokenType, NoList, Tokens

LEMMA InitTypeOK == PskManagerAssumption /\ Init => TypeOK
  <1> SUFFICES ASSUME PskManagerAssumption, Init PROVE TypeOK
    OBVIOUS
  <1>1. MapsOK
    BY ZeroOK DEF Init, MapsOK
  <1>2. ThreadsOK
    BY ZeroOK, NoListOK DEF Init, ThreadsOK
  <1> QED BY <1>1, <1>2, ZeroOK, NoListOK DEF Init, TypeOK, NoList

LEMMA IdleOK ==
  ASSUME PskManagerAssumption, ThreadsOK, NEW t \in Threads,
         pc' = [pc EXCEPT ![t] = "idle"],
         \/ list' = list \/ list' = [list EXCEPT ![t] = NoList],
         \/ found' = found \/ found' = [found EXCEPT ![t] = 0]
  PROVE  ThreadsOK'
  BY NoListOK, ZeroOK DEF ThreadsOK

LEMMA TokenOK ==
  ASSUME TypeOK, NEW id \in Ids, NEW psk \in Psk
  PROVE  Token(id, psk) \in TokenType
  BY DEF TypeOK, Options, Token, TokenType

LEMMA AddPskTypeOK ==
  ASSUME TypeOK, PskManagerAssumption, NEW content \in Contents,
         NEW valid \in ValidTimes, NEW begin \in BeginTimes,
         AddPsk(content, valid, begin), nextContent' \in Nat
  PROVE  TypeOK'
  <1> DEFINE psk == [content |-> content, valid |-> valid, end |-> begin + valid]
  <1>1. psk \in Psk
    <2>1. content \in Nat /\ valid \in Nat /\ begin \in Nat
      BY DEF Contents, PskManagerAssumption
    <2> QED BY <2>1 DEF Psk
  <1>0. curPskMaxId \in Ids /\ NextId \in Ids
    <2>1. curPskMaxId \in Ids /\ curPskMaxId + 1 \in Nat
      BY DEF TypeOK, MapsOK, Ids
    <2> QED BY <2>1, WrapOK DEF NextId
  <1>2. Token(curPskMaxId, psk) \in TokenType
    BY <1>0, <1>1, TokenOK
  <1>3. storage' \in Tokens
    BY <1>2 DEF AddPsk, TypeOK, Tokens
  <1>4. MapsOK'
    <2>1. CASE UNCHANGED mapVars
      BY <2>1 DEF mapVars, MapsOK, TypeOK
    <2>2. CASE /\ contentMap' = [contentMap EXCEPT ![content] =
                                   IF @ = NoId THEN curPskMaxId ELSE @]
               /\ idMap' = [idMap EXCEPT ![curPskMaxId] =
                              IF Live(curPskMaxId) THEN @ ELSE psk]
               /\ curPskMaxId' = NextId
      BY <1>0, <1>1, <2>2 DEF MapsOK, TypeOK
    <2> QED BY <2>1, <2>2 DEF AddPsk
  <1> QED BY <1>3, <1>4
          DEF TypeOK, AddPsk, ThreadsOK, threadVars

LEMMA TargetOK ==
  ASSUME TypeOK, NEW id \in Ids, NEW c, Target(id, c) # NoId
  PROVE  /\ Target(id, c) \in Ids
         /\ Live(Target(id, c))
  <1>1. CASE Live(id)
    BY <1>1 DEF Target
  <1>2. CASE ~Live(id)
    <2>1. KnownContent(c) /\ Target(id, c) = contentMap[c]
      BY <1>2 DEF Target
    <2> QED BY <1>2, <2>1 DEF Target, KnownContent, TypeOK, MapsOK
  <1> QED BY <1>1, <1>2

LEMMA RenewedOK ==
  ASSUME NEW psk \in Psk, NEW content \in Nat, NEW end \in Nat
  PROVE  [psk EXCEPT !.content = content, !.end = end] \in Psk
  BY DEF Psk

LEMMA UpdatePskTypeOK ==
  ASSUME TypeOK, PskManagerAssumption, NEW id \in Ids, NEW c,
         UpdatePsk(id, c), ThreadsOK'
  PROVE  TypeOK'
  <1> DEFINE target == Target(id, c)
             psk == [idMap[target] EXCEPT !.content = nextContent,
                                          !.end = now + idMap[target].valid]
  <1>1. target \in Ids
    BY TargetOK DEF UpdatePsk
  <1>2. psk \in Psk
    <2>1. idMap[target] \in Psk /\ nextContent \in Nat /\ now \in Nat
      BY <1>1 DEF TypeOK, MapsOK
    <2>2. now + idMap[target].valid \in Nat
      BY <2>1 DEF Psk
    <2> HIDE DEF target
    <2> QED BY <2>1, <2>2, RenewedOK
  <1>3. Token(target, psk) \in TokenType
    BY <1>1, <1>2, TokenOK
  <1>4. storage' \in Tokens
    BY <1>1, <1>3 DEF UpdatePsk, TypeOK, StorageAfterUpdate, Tokens
  <1>5. MapsOK' /\ dead' \subseteq Nat
    <2>1. CASE UNCHANGED <<idMap, contentMap, dead>>
      BY <2>1 DEF UpdatePsk, TypeOK, MapsOK
    <2>2. CASE /\ idMap' = [idMap EXCEPT ![target] = psk]
               /\ contentMap' = ContentsAfterUpdate(target,
                                  idMap[target].content, nextContent)
               /\ dead' = dead \cup {idMap[target].content}
      <3>1. idMap[target].content \in Nat
        BY <1>1 DEF TypeOK, MapsOK, Psk
      <3>2. contentMap' \in [Contents -> Ids \cup {NoId}]
        BY <1>1, <2>2 DEF ContentsAfterUpdate, TypeOK, MapsOK
      <3> QED BY <1>1, <1>2, <2>2, <3>1, <3>2 DEF UpdatePsk, TypeOK, MapsOK
    <2> QED BY <2>1, <2>2 DEF UpdatePsk
  <1>6. nextContent' \in Nat
    BY DEF UpdatePsk, TypeOK
  <1> QED BY <1>4, <1>5, <1>6 DEF UpdatePsk, TypeOK

LEMMA RenumberedOK ==
  ASSUME PskManagerAssumption,
         NEW ts \in Tokens
  PROVE  Renumbered(ts) \in Tokens
  BY NoListOK DEF Renumbered, Tokens

-----------------------------------------------------------------------------
(* What the maps, the storage and a list under way have in common: contents *)
(* are used once, and ids below the next one.                               *)

\* No limit is UINT32_MAX itself, so that curPskMaxId_ never wraps.
SafeLimits == DefaultMax < MaxId /\ \A max \in MaxCounts : max < MaxId

\* A list of tokens keyed by ids 1 .. MaxId - 1, with contents made before
\* the bound and all different.
Listing(ts, bound) ==
  /\ \A id \in Listed(ts) :
       /\ id \in 1..(MaxId - 1)
       /\ ts[id].psk.content \in Contents /\ ts[id].psk.content < bound
  /\ \A i, j \in Listed(ts) :
       ts[i].psk.content = ts[j].psk.content => i = j

NextInv == options.max < MaxId /\ curPskMaxId >= 1 /\ nextContent >= 1
LiveInv ==
  \A id \in Ids : Live(id) =>
    /\ 1 <= id /\ id < curPskMaxId
    /\ idMap[id].content \in Contents /\ idMap[id].content < nextContent
ListInv ==
  /\ Listing(storage, nextContent)
  /\ \A t \in Threads : Listing(list[t], nextContent)

Inv == TypeOK /\ NextInv /\ LiveInv /\ ListInv /\ MapsAgree

\* How many tokens a list can have.
LEMMA ListedBound ==
  ASSUME PskManagerAssumption, SafeLimits, NEW ts, NEW bound,
         Listing(ts, bound)
  PROVE  /\ IsFiniteSet(Listed(ts))
         /\ Cardinality(Listed(ts)) \in Nat
         /\ Cardinality(Listed(ts)) <= MaxId - 1
  <1>1. MaxId - 1 \in Nat
    BY DEF PskManagerAssumption
  <1>2. IsFiniteSet(1..(MaxId - 1)) /\ Cardinality(1..(MaxId - 1)) = MaxId - 1
    BY <1>1, FS_Interval
  <1>3. Listed(ts) \subseteq 1..(MaxId - 1)
    BY DEF Listing
  <1> QED BY <1>2, <1>3, FS_Subset, FS_CardinalityType

LEMMA RankBound ==
  ASSUME PskManagerAssumption, SafeLimits, NEW ts, NEW bound,
         Listing(ts, bound), NEW id \in Listed(ts)
  PROVE  Rank(ts, id) \in 1..(MaxId - 1)
  <1> DEFINE below == {j \in Listed(ts) : j <= id}
  <1>1. below \subseteq Listed(ts) /\ id \in below
    BY DEF Listing
  <1>2. IsFiniteSet(below) /\ Cardinality(below) <= Cardinality(Listed(ts))
    BY <1>1, ListedBound, FS_Subset
  <1>3. Cardinality(below) # 0
    BY <1>1, <1>2, FS_EmptySet
  <1>4. Cardinality(below) \in Nat
    BY <1>2, FS_CardinalityType
  <1> QED BY <1>2, <1>3, <1>4, ListedBound DEF Rank, PskManagerAssumption

\* Renumbering keeps a listing a listing.
LEMMA RenumberedListing ==
  ASSUME PskManagerAssumption, SafeLimits, NEW bound,
         NEW ts \in Tokens, Listing(ts, bound)
  PROVE  Listing(Renumbered(ts), bound)
  <1> DEFINE new == Renumbered(ts)
             from(r) == CHOOSE id \in Ids : IsRank(ts, id, r)
  <1>1. ASSUME NEW r \in Listed(new)
        PROVE  /\ from(r) \in Listed(ts) /\ Rank(ts, from(r)) = r
               /\ new[r] = ts[from(r)]
    <2>1. r \in Ids /\ new[r] # NoToken
      BY DEF Listed
    <2>2. \E id \in Ids : IsRank(ts, id, r)
      BY <2>1 DEF Renumbered
    <2>3. from(r) \in Ids /\ IsRank(ts, from(r), r)
      BY <2>2
    <2> QED BY <2>1, <2>2, <2>3 DEF Renumbered, IsRank
  <1>2. ASSUME NEW r \in Listed(new)
        PROVE  /\ r \in 1..(MaxId - 1)
               /\ new[r].psk.content \in Contents /\ new[r].psk.content < bound
    <2> HIDE DEF from, new
    <2>1. from(r) \in Listed(ts) /\ Rank(ts, from(r)) = r
      BY <1>1
    <2>2. r \in 1..(MaxId - 1)
      BY <2>1, RankBound
    <2>3. new[r] = ts[from(r)]
      BY <1>1
    <2> QED BY <2>1, <2>2, <2>3 DEF Listing
  <1>3. ASSUME NEW i \in Listed(new), NEW j \in Listed(new),
               new[i].psk.content = new[j].psk.content
        PROVE  i = j
    <2> HIDE DEF from, new
    <2>1. from(i) = from(j)
      BY <1>1, <1>3 DEF Listing
    <2> QED BY <1>1, <2>1
  <1> QED BY <1>2, <1>3 DEF Listing

LEMMA EmptyListing ==
  ASSUME NEW bound PROVE Listing(NoList, bound)
  BY DEF Listing, Listed, NoList

\* A listing stays one as the bound grows.
LEMMA ListingGrows ==
  ASSUME NEW ts, NEW bound \in Nat, NEW more \in Nat, bound <= more,
         Listing(ts, bound)
  PROVE  Listing(ts, more)
  BY DEF Listing, Contents

\* Storing a token with fresh content, or none, keeps a listing one.
LEMMA ListingPut ==
  ASSUME PskManagerAssumption,
         NEW ts \in Tokens, NEW bound \in Contents,
         Listing(ts, bound), NEW id \in 1..(MaxId - 1), NEW token \in TokenType,
         token.psk.content = bound
  PROVE  Listing([ts EXCEPT ![id] = token], bound + 1)
  BY DEF Listing, Listed, Contents, Ids, PskManagerAssumption

LEMMA ListingDrop ==
  ASSUME NEW ts \in Tokens, NEW bound,
         Listing(ts, bound), NEW id \in Ids
  PROVE  Listing([ts EXCEPT ![id] = NoToken], bound)
  BY DEF Listing, Listed

-----------------------------------------------------------------------------
(* The remaining steps keep the types.                                     *)

LEMMA LoadTypeOK ==
  ASSUME PskManagerAssumption, SafeLimits, TypeOK, ListInv,
         NEW t \in Threads, LoadAllPsk(t)
  PROVE  TypeOK'
  <1> DEFINE tokens == Renumbered(list[t])
             count  == Cardinality(Listed(list[t]))
  <1>1. tokens \in Tokens
    BY RenumberedOK DEF TypeOK, ThreadsOK
  <1>2. count \in Nat /\ count <= MaxId - 1
    BY ListedBound DEF ListInv
  <1>3. PICK n \in 0..count :
          /\ options' = DefaultOptions
          /\ idMap' = [r \in Ids |-> IF r \in 1..n THEN tokens[r].psk ELSE NoPsk]
          /\ contentMap' =
               [c \in Contents |->
                  IF \E r \in 1..n : IsFirst(tokens, r, c)
                  THEN CHOOSE r \in 1..n : IsFirst(tokens, r, c) ELSE NoId]
          /\ curPskMaxId' = (1 + n) % (MaxId + 1)
          /\ loaded' = (n = count)
          /\ storage' = IF n = count THEN tokens ELSE storage
    BY DEF LoadAllPsk
  <1> HIDE DEF tokens, count
  <1>4. n \in Nat /\ 1..n \subseteq Ids
    BY <1>2 DEF Ids, PskManagerAssumption
  <1>5. idMap' \in [Ids -> Psk]
    BY <1>1, <1>3, ZeroOK DEF Tokens, TokenType
  <1>6. contentMap' \in [Contents -> Ids \cup {NoId}]
    BY <1>3, <1>4
  <1>7. curPskMaxId' \in Ids
    <2>1. 1 + n \in Nat
      BY <1>4
    <2> QED BY <1>3, <2>1, WrapOK
  <1>8. storage' \in Tokens /\ loaded' \in BOOLEAN /\ options' \in Options
    BY <1>1, <1>3, ZeroOK DEF TypeOK
  <1>9. ThreadsOK'
    BY IdleOK DEF LoadAllPsk, TypeOK
  <1> QED BY <1>5, <1>6, <1>7, <1>8, <1>9
          DEF TypeOK, MapsOK, LoadAllPsk

LEMMA StepTypeOK ==
  ASSUME PskManagerAssumption, SafeLimits, TypeOK, ListInv, [Next]_vars
  PROVE  TypeOK'
  <1>1. CASE Crash
    BY <1>1, ClearedOK, ZeroOK, NoListOK
    DEF Crash, TypeOK, ThreadsOK
  <1>2. CASE Tick
    BY <1>2 DEF Tick, TypeOK, MapsOK, ThreadsOK, mapVars, threadVars
  <1>3. CASE KmByOthers
    BY <1>3 DEF KmByOthers, TypeOK, MapsOK, ThreadsOK, mapVars, threadVars,
                PskManagerAssumption
  <1>4. ASSUME NEW max \in MaxCounts, NEW dom \in Doms,
               PskInit([max |-> max, dom |-> dom])
        PROVE  TypeOK'
    <2>1. [max |-> max, dom |-> dom] \in Options
      BY DEF PskManagerAssumption, Options
    <2>2. options' \in Options 
      BY <1>4, <2>1 DEF PskInit, TypeOK
    <2>3. initCount' \in Nat /\ km' \in BOOLEAN
      <3>1. \/ initCount' = initCount + 1 /\ UNCHANGED km
            \/ km' = TRUE /\ initCount' = 1
            \/ UNCHANGED <<km, initCount>>
        BY <1>4, Zenon DEF PskInit
      <3>2. CASE initCount' = initCount + 1 /\ UNCHANGED km
        BY <3>2 DEF TypeOK
      <3>3. CASE km' = TRUE /\ initCount' = 1
        BY <3>3
      <3>4. CASE UNCHANGED <<km, initCount>>
        BY <3>4 DEF TypeOK
      <3> QED BY <3>1, <3>2, <3>3, <3>4
    <2>4. MapsOK' /\ ThreadsOK'
      BY <1>4 DEF PskInit, TypeOK, MapsOK, ThreadsOK, mapVars, threadVars
    <2> QED BY <1>4, <2>2, <2>3, <2>4 DEF PskInit, TypeOK
  <1>5. CASE UnInit
    <2>1. initCount' \in Nat
      BY <1>5 DEF UnInit, CountAfterUnInit, TypeOK
    <2>2. CASE initCount = 1
      BY <1>5, <2>1, <2>2, ClearedOK, ZeroOK
      DEF UnInit, TypeOK, ThreadsOK, threadVars
    <2>3. CASE initCount # 1
      BY <1>5, <2>1, <2>3
      DEF UnInit, TypeOK, MapsOK, ThreadsOK, mapVars, threadVars
    <2> QED BY <2>2, <2>3
  <1>6. ASSUME NEW valid \in ValidTimes, NEW begin \in BeginTimes,
               GeneratePsk(valid, begin)
        PROVE  TypeOK'
    BY <1>6, AddPskTypeOK DEF GeneratePsk, TypeOK
  <1>7. ASSUME NEW valid \in ValidTimes, NEW begin \in BeginTimes,
               NEW content \in Contents, ImportPsk(content, valid, begin)
        PROVE  TypeOK'
    BY <1>7, AddPskTypeOK DEF ImportPsk, TypeOK
  <1>8. ASSUME NEW id \in Ids, DeletePsk(id)
        PROVE  TypeOK'
    <2>1. storage' \in Tokens
      BY <1>8, NoListOK DEF DeletePsk, TypeOK, Tokens
    <2>2. MapsOK'
      BY <1>8, ZeroOK DEF DeletePsk, TypeOK, MapsOK
    <2> QED BY <1>8, <2>1, <2>2
            DEF DeletePsk, TypeOK, ThreadsOK, threadVars
  <1>9. ASSUME NEW id \in Ids, NEW c, Update(id, c)
        PROVE  TypeOK'
    BY <1>9, UpdatePskTypeOK DEF Update, TypeOK, ThreadsOK, threadVars
  <1>10. ASSUME NEW t \in Threads, NEW id \in Ids, AutoCheck(t, id)
         PROVE  TypeOK'
    BY <1>10 DEF AutoCheck, TypeOK, MapsOK, ThreadsOK, mapVars
  <1>11. ASSUME NEW t \in Threads, AutoUpdate(t)
         PROVE  TypeOK'
    <2>1. ThreadsOK'
      BY <1>11, IdleOK DEF AutoUpdate, TypeOK
    <2>2. CASE UpdatePsk(found[t], 0)
      BY <2>1, <2>2, UpdatePskTypeOK DEF TypeOK, ThreadsOK
    <2>3. CASE UNCHANGED <<options, initCount, mapVars, km, storage, now,
                           nextContent, loaded, dead>>
      BY <2>1, <2>3 DEF TypeOK, MapsOK, mapVars
    <2> QED BY <1>11, <2>2, <2>3 DEF AutoUpdate
  <1>12. ASSUME NEW t \in Threads, LoadCheck(t)
         PROVE  TypeOK'
    BY <1>12 DEF LoadCheck, TypeOK, MapsOK, ThreadsOK, mapVars
  <1>13. ASSUME NEW t \in Threads, LoadAllPsk(t)
         PROVE  TypeOK'
    BY <1>13, LoadTypeOK
  <1>14. CASE UNCHANGED vars
    BY <1>14 DEF vars, TypeOK, MapsOK, ThreadsOK
  <1> QED BY <1>1, <1>2, <1>3, <1>4, <1>5, <1>6, <1>7, <1>8, <1>9, <1>10,
             <1>11, <1>12, <1>13, <1>14 DEF Next

-----------------------------------------------------------------------------
(* Every step keeps the rest of the invariant, in an application that never *)
(* imports content twice.                                                   *)

LEMMA InitInv == PskManagerAssumption /\ SafeLimits /\ Init => Inv
  <1> SUFFICES ASSUME PskManagerAssumption, SafeLimits, Init PROVE Inv
    OBVIOUS
  <1>1. TypeOK
    BY InitTypeOK
  <1>2. NextInv
    BY DEF Init, NextInv, SafeLimits, DefaultOptions
  <1>3. \A id \in Ids : ~Live(id)
    BY DEF Init, Live
  <1>4. LiveInv /\ MapsAgree
    BY <1>3 DEF LiveInv, MapsAgree, Init
  <1>5. ListInv
    BY EmptyListing DEF Init, ListInv, NoList
  <1> QED BY <1>1, <1>2, <1>4, <1>5 DEF Inv

\* Maps cleared, nothing can be wrong with them.
LEMMA ClearedInv ==
  ASSUME PskManagerAssumption, ClearedMaps
  PROVE  LiveInv' /\ MapsAgree' /\ curPskMaxId' = 1
  <1>1. \A id \in Ids : idMap'[id] = NoPsk
    BY DEF ClearedMaps
  <1>2. \A c \in Contents : contentMap'[c] = NoId
    BY DEF ClearedMaps
  <1>3. LiveInv' /\ MapsAgree'
    BY <1>1, <1>2 DEF LiveInv, MapsAgree, Live
  <1> QED BY <1>3 DEF ClearedMaps

\* The listings of threads that did not get one just now.
LEMMA ListsGrow ==
  ASSUME TypeOK, NextInv, ListInv, nextContent' \in Nat,
         nextContent <= nextContent', UNCHANGED list
  PROVE  \A t \in Threads : Listing(list'[t], nextContent')
  BY ListingGrows DEF TypeOK, ListInv

\* A content not used yet is not in pskContentMap_, and neither is an id.
LEMMA Fresh ==
  ASSUME PskManagerAssumption, Inv
  PROVE  /\ \A c \in Contents : c >= nextContent => contentMap[c] = NoId
         /\ \A id \in Ids : id >= curPskMaxId => ~Live(id)
  <1>1. ASSUME NEW c \in Contents, c >= nextContent, contentMap[c] # NoId
        PROVE  FALSE
    <2> DEFINE id == contentMap[c]
    <2>1. id \in Ids /\ idMap[id].content = c
      BY <1>1 DEF Inv, TypeOK, MapsOK, MapsAgree
    <2>2. Live(id)
      BY <2>1 DEF Live, NoPsk, Contents
    <2>3. c < nextContent
      BY <2>1, <2>2 DEF Inv, LiveInv
    <2> QED BY <1>1, <2>3 DEF Inv, TypeOK, Contents
  <1>2. ASSUME NEW id \in Ids, id >= curPskMaxId, Live(id)
        PROVE  FALSE
    BY <1>2 DEF Inv, LiveInv, TypeOK, MapsOK, Ids
  <1> QED BY <1>1, <1>2

LEMMA AddPskInv ==
  ASSUME PskManagerAssumption, SafeLimits, Inv, nextContent \in Contents,
         NEW valid \in ValidTimes, NEW begin \in BeginTimes,
         AddPsk(nextContent, valid, begin), nextContent' = nextContent + 1
  PROVE  NextInv' /\ LiveInv' /\ ListInv' /\ MapsAgree'
  <1> DEFINE id  == curPskMaxId
             psk == [content |-> nextContent, valid |-> valid,
                     end |-> begin + valid]
  <1>1. id \in 1..(MaxId - 1) /\ id \in Ids /\ NextId = id + 1
    <2>1. /\ id <= options.max /\ options.max < MaxId /\ options.max \in Nat
          /\ id >= 1 /\ id \in Nat /\ id \in Ids /\ MaxId \in Nat
      BY DEF AddPsk, Inv, NextInv, TypeOK, MapsOK, Options, Ids,
             PskManagerAssumption
    <2>2. (id + 1) % (MaxId + 1) = id + 1
      BY <2>1
    <2> QED BY <2>1, <2>2 DEF NextId
  <1>2. psk \in Psk /\ psk.content = nextContent
    <2>1. nextContent \in Nat /\ valid \in Nat /\ begin \in Nat
      BY DEF Inv, TypeOK, PskManagerAssumption
    <2> QED BY <2>1 DEF Psk
  <1>3. ListInv'
    <2>1. Token(id, psk) \in TokenType /\ Token(id, psk).psk.content = nextContent
      BY <1>1, <1>2, TokenOK DEF Inv, Token
    <2>2. Listing(storage, nextContent) /\ storage \in Tokens
      BY DEF Inv, ListInv, TypeOK
    <2>3. Listing([storage EXCEPT ![id] = Token(id, psk)], nextContent')
      BY <1>1, <2>1, <2>2, ListingPut
    <2>4. Listing(storage, nextContent')
      BY <2>2, ListingGrows DEF Inv, TypeOK
    <2>5. Listing(storage', nextContent')
      BY <2>3, <2>4 DEF AddPsk
    <2>6. \A t \in Threads : Listing(list'[t], nextContent')
      BY ListsGrow DEF Inv, AddPsk, threadVars, TypeOK
    <2> QED BY <2>5, <2>6 DEF ListInv
  <1>4. CASE UNCHANGED mapVars
    <2>1. NextInv' /\ LiveInv'
      BY <1>4 DEF mapVars, Inv, NextInv, LiveInv, Live, AddPsk, TypeOK, MapsOK,
                  Contents
    <2>2. MapsAgree'
      BY <1>4 DEF mapVars, Inv, MapsAgree, Live
    <2> QED BY <1>3, <2>1, <2>2
  <1>5. CASE /\ contentMap' = [contentMap EXCEPT ![nextContent] =
                                 IF @ = NoId THEN id ELSE @]
             /\ idMap' = [idMap EXCEPT ![id] = IF Live(id) THEN @ ELSE psk]
             /\ curPskMaxId' = NextId
    <2>1. contentMap[nextContent] = NoId /\ ~Live(id)
      BY <1>1, Fresh DEF Inv, TypeOK, Contents, Ids
    <2>2. /\ contentMap' = [contentMap EXCEPT ![nextContent] = id]
          /\ idMap' = [idMap EXCEPT ![id] = psk]
      BY <1>5, <2>1
    <2>3. NextInv'
      BY <1>1, <1>5 DEF Inv, NextInv, AddPsk, TypeOK
    <2>4. LiveInv'
      <3> SUFFICES ASSUME NEW i \in Ids, Live(i)'
                   PROVE  /\ 1 <= i /\ i < curPskMaxId'
                          /\ idMap'[i].content \in Contents
                          /\ idMap'[i].content < nextContent'
        BY DEF LiveInv
      <3>1. CASE i = id
        BY <1>1, <1>2, <1>5, <2>2, <3>1
        DEF Inv, TypeOK, MapsOK, Ids, Contents
      <3>2. CASE i # id
        BY <1>1, <1>5, <2>2, <3>2
        DEF Live, Inv, LiveInv, TypeOK, MapsOK, Ids, Contents
      <3> QED BY <3>1, <3>2
    <2>5. MapsAgree'
      <3> HIDE DEF psk
      <3>1. ASSUME NEW i \in Ids, Live(i)'
            PROVE  contentMap'[idMap'[i].content] = i
        <4>1. CASE i = id
          BY <1>1, <1>2, <2>2, <4>1 DEF Inv, TypeOK, MapsOK
        <4>2. CASE i # id
          <5>1. Live(i) /\ idMap'[i] = idMap[i]
            BY <2>2, <3>1, <4>2 DEF Live, Inv, TypeOK, MapsOK
          <5>2. contentMap[idMap[i].content] = i /\ idMap[i].content \in Contents
            BY <5>1 DEF Inv, MapsAgree, LiveInv
          <5>3. idMap[i].content # nextContent
            BY <2>1, <5>2, ZeroOK
          <5> QED BY <2>2, <5>1, <5>2, <5>3 DEF Inv, TypeOK, MapsOK
        <4> QED BY <4>1, <4>2
      <3>2. ASSUME NEW c \in Contents, contentMap'[c] # NoId
            PROVE  idMap'[contentMap'[c]].content = c
        <4>1. CASE c = nextContent
          BY <1>1, <1>2, <2>2, <4>1 DEF Inv, TypeOK, MapsOK
        <4>2. CASE c # nextContent
          <5>1. contentMap'[c] = contentMap[c] /\ contentMap[c] \in Ids
            BY <2>2, <3>2, <4>2 DEF Inv, TypeOK, MapsOK
          <5>2. idMap[contentMap[c]].content = c
            BY <3>2, <5>1 DEF Inv, MapsAgree
          <5>3. contentMap[c] # id
            BY <2>1, <5>2 DEF Live, NoPsk, Contents
          <5> QED BY <2>2, <5>1, <5>2, <5>3 DEF Inv, TypeOK, MapsOK
        <4> QED BY <4>1, <4>2
      <3> QED BY <3>1, <3>2 DEF MapsAgree
    <2> QED BY <1>3, <2>3, <2>4, <2>5
  <1> QED BY <1>4, <1>5 DEF AddPsk

LEMMA DeletePskInv ==
  ASSUME PskManagerAssumption, Inv, NEW id \in Ids, DeletePsk(id)
  PROVE  NextInv' /\ LiveInv' /\ ListInv' /\ MapsAgree'
  <1>1. NextInv'
    BY DEF DeletePsk, Inv, NextInv
  <1>2. ListInv'
    <2>1. Listing([storage EXCEPT ![id] = NoToken], nextContent)
      BY ListingDrop DEF Inv, ListInv, TypeOK
    <2>2. Listing(storage', nextContent')
      BY <2>1 DEF DeletePsk, Inv, ListInv
    <2> QED BY <2>2 DEF DeletePsk, Inv, ListInv, threadVars
  <1>3. CASE UNCHANGED <<contentMap, idMap>>
    BY <1>1, <1>2, <1>3 DEF DeletePsk, Inv, LiveInv, MapsAgree, Live
  <1>4. CASE /\ contentMap' = [contentMap EXCEPT ![idMap[id].content] = NoId]
             /\ idMap' = [idMap EXCEPT ![id] = NoPsk]
    <2>1. ASSUME NEW i \in Ids, Live(i)'
          PROVE  i # id /\ Live(i) /\ idMap'[i] = idMap[i]
      BY <1>4, <2>1 DEF Live, Inv, TypeOK, MapsOK
    <2>2. LiveInv'
      BY <2>1 DEF LiveInv, DeletePsk, Inv
    <2>3. ASSUME NEW i \in Ids, Live(i)'
          PROVE  contentMap'[idMap'[i].content] = i
      <3>1. /\ contentMap[idMap[i].content] = i /\ idMap[i].content \in Contents
            /\ contentMap[idMap[id].content] = id
        BY <2>1, <2>3 DEF Inv, MapsAgree, LiveInv, DeletePsk
      <3> QED BY <1>4, <2>1, <2>3, <3>1 DEF Inv, TypeOK, MapsOK
    <2>4. ASSUME NEW c \in Contents, contentMap'[c] # NoId
          PROVE  idMap'[contentMap'[c]].content = c
      <3>1. /\ contentMap'[c] = contentMap[c] /\ contentMap[c] \in Ids
            /\ c # idMap[id].content
        BY <1>4, <2>4 DEF Inv, TypeOK, MapsOK
      <3>2. idMap[contentMap[c]].content = c /\ contentMap[c] # id
        BY <3>1, <2>4 DEF Inv, MapsAgree
      <3> QED BY <1>4, <3>1, <3>2 DEF Inv, TypeOK, MapsOK
    <2> QED BY <1>1, <1>2, <2>2, <2>3, <2>4 DEF MapsAgree
  <1> QED BY <1>3, <1>4 DEF DeletePsk

LEMMA UpdatePskInv ==
  ASSUME PskManagerAssumption, SafeLimits, Inv, NEW i \in Ids, NEW d,
         UpdatePsk(i, d)
  PROVE  /\ NextInv' /\ LiveInv' /\ MapsAgree'
         /\ Listing(storage', nextContent')
  <1> DEFINE id  == Target(i, d)
             old == idMap[id]
             psk == [old EXCEPT !.content = nextContent, !.end = now + old.valid]
  <1>1. /\ id \in Ids /\ Live(id) /\ old \in Psk
        /\ nextContent \in Contents /\ nextContent' = nextContent + 1
    BY TargetOK DEF UpdatePsk, Inv, TypeOK, MapsOK
  <1>2. id \in 1..(MaxId - 1) /\ id < curPskMaxId
    <2>1. 1 <= id /\ id < curPskMaxId
      BY <1>1 DEF Inv, LiveInv
    <2>2. id \in Nat /\ curPskMaxId \in Nat /\ curPskMaxId <= MaxId /\ MaxId \in Nat
      BY <1>1 DEF Inv, TypeOK, MapsOK, Ids, PskManagerAssumption
    <2> HIDE DEF id
    <2> QED BY <2>1, <2>2
  <1>3. psk \in Psk /\ psk.content = nextContent
    <2>1. now + old.valid \in Nat /\ nextContent \in Nat
      BY <1>1 DEF Psk, Inv, TypeOK
    <2>2. psk \in Psk
      BY <1>1, <2>1, RenewedOK
    <2> QED BY <1>1, <2>2 DEF Psk
  <1> HIDE DEF id, psk
  <1>4. Listing(storage', nextContent')
    <2>1. Token(id, psk) \in TokenType /\ Token(id, psk).psk.content = nextContent
      BY <1>1, <1>3, TokenOK DEF Inv, Token
    <2>2. Listing(storage, nextContent) /\ storage \in Tokens
      BY DEF Inv, ListInv, TypeOK
    <2>3. Listing([storage EXCEPT ![id] = Token(id, psk)], nextContent')
      BY <1>1, <1>2, <2>1, <2>2, ListingPut
    <2>4. Listing(storage, nextContent')
      BY <1>1, <2>2, ListingGrows DEF Inv, TypeOK
    <2> QED BY <2>3, <2>4 DEF UpdatePsk, StorageAfterUpdate, id, psk
  <1>5. NextInv'
    BY <1>1 DEF UpdatePsk, Inv, NextInv, TypeOK
  <1>6. CASE UNCHANGED <<idMap, contentMap, dead>>
    <2>1. LiveInv'
      BY <1>1, <1>6 DEF Inv, LiveInv, Live, UpdatePsk, TypeOK, Contents
    <2>2. MapsAgree'
      BY <1>6 DEF Inv, MapsAgree, Live
    <2> QED BY <1>4, <1>5, <2>1, <2>2
  <1>7. CASE /\ idMap' = [idMap EXCEPT ![id] = psk]
             /\ contentMap' = ContentsAfterUpdate(id, old.content, nextContent)
    <2>1. contentMap[nextContent] = NoId
      BY <1>1, Fresh DEF Inv, TypeOK
    <2>2. /\ old.content \in Contents /\ old.content # nextContent
          /\ contentMap[old.content] = id
      BY <1>1 DEF Inv, LiveInv, MapsAgree, TypeOK, Contents, id
    <2>3. contentMap' = [contentMap EXCEPT ![old.content] = NoId,
                                           ![nextContent] = id]
      BY <1>7 DEF ContentsAfterUpdate
    <2>4. ASSUME NEW j \in Ids, j # id
          PROVE  idMap'[j] = idMap[j] /\ (Live(j)' <=> Live(j))
      BY <1>7, <2>4 DEF Live, Inv, TypeOK, MapsOK
    <2>5. idMap'[id] = psk
      BY <1>1, <1>7 DEF Inv, TypeOK, MapsOK
    <2>6. LiveInv'
      <3>1. ASSUME NEW j \in Ids, Live(j)', j # id
            PROVE  /\ 1 <= j /\ j < curPskMaxId'
                   /\ idMap'[j].content \in Contents
                   /\ idMap'[j].content < nextContent'
        BY <1>1, <2>4, <3>1 DEF Inv, LiveInv, UpdatePsk, TypeOK, Contents
      <3>2. /\ 1 <= id /\ id < curPskMaxId' /\ idMap'[id].content \in Contents
            /\ idMap'[id].content < nextContent'
        BY <1>1, <1>2, <1>3, <2>5 DEF UpdatePsk, Inv, TypeOK, Contents
      <3> QED BY <3>1, <3>2 DEF LiveInv
    <2>7. ASSUME NEW j \in Ids, Live(j)'
          PROVE  contentMap'[idMap'[j].content] = j
      <3>1. CASE j = id
        BY <1>1, <1>3, <2>3, <2>5, <3>1 DEF Inv, TypeOK, MapsOK
      <3>2. CASE j # id
        <4>1. /\ contentMap[idMap[j].content] = j
              /\ idMap[j].content \in Contents
          BY <2>4, <2>7, <3>2 DEF Inv, MapsAgree, LiveInv
        <4>2. idMap[j].content # nextContent /\ idMap[j].content # old.content
          BY <2>1, <2>2, <3>2, <4>1, ZeroOK
        <4> QED BY <2>3, <2>4, <3>2, <4>1, <4>2 DEF Inv, TypeOK, MapsOK
      <3> QED BY <3>1, <3>2
    <2>8. ASSUME NEW c \in Contents, contentMap'[c] # NoId
          PROVE  idMap'[contentMap'[c]].content = c
      <3>1. CASE c = nextContent
        BY <1>1, <1>3, <2>3, <2>5, <3>1 DEF Inv, TypeOK, MapsOK
      <3>2. CASE c # nextContent
        <4>1. /\ contentMap'[c] = contentMap[c] /\ contentMap[c] \in Ids
              /\ c # old.content
          BY <2>3, <2>8, <3>2 DEF Inv, TypeOK, MapsOK
        <4>2. idMap[contentMap[c]].content = c
          BY <2>8, <4>1 DEF Inv, MapsAgree
        <4>3. contentMap[c] # id
          BY <4>1, <4>2
        <4> QED BY <2>4, <4>1, <4>2, <4>3
      <3> QED BY <3>1, <3>2
    <2> QED BY <1>4, <1>5, <2>6, <2>7, <2>8 DEF MapsAgree
  <1> QED BY <1>6, <1>7 DEF UpdatePsk, id, psk

LEMMA LoadInv ==
  ASSUME PskManagerAssumption, SafeLimits, Inv,
         NEW t \in Threads, LoadAllPsk(t)
  PROVE  NextInv' /\ LiveInv' /\ ListInv' /\ MapsAgree'
  <1> DEFINE tokens == Renumbered(list[t])
             count  == Cardinality(Listed(list[t]))
  <1>1. tokens \in Tokens /\ Listing(tokens, nextContent)
    BY RenumberedOK, RenumberedListing DEF Inv, TypeOK, ThreadsOK, ListInv
  <1>2. count \in Nat /\ count <= MaxId - 1
    BY ListedBound DEF Inv, ListInv
  <1>3. PICK n \in 0..count :
          /\ options' = DefaultOptions
          /\ idMap' = [r \in Ids |-> IF r \in 1..n THEN tokens[r].psk ELSE NoPsk]
          /\ contentMap' =
               [c \in Contents |->
                  IF \E r \in 1..n : IsFirst(tokens, r, c)
                  THEN CHOOSE r \in 1..n : IsFirst(tokens, r, c) ELSE NoId]
          /\ curPskMaxId' = (1 + n) % (MaxId + 1)
          /\ loaded' = (n = count)
          /\ storage' = IF n = count THEN tokens ELSE storage
    BY DEF LoadAllPsk
  <1> HIDE DEF tokens, count
  <1>4. n \in Nat /\ n < MaxId /\ MaxId \in Nat
    BY <1>2 DEF PskManagerAssumption
  <1>5. 1..n \subseteq Ids
    BY <1>4 DEF Ids
  <1>6. curPskMaxId' = n + 1
    <2>1. (1 + n) % (MaxId + 1) = 1 + n
      BY <1>4
    <2> QED BY <1>3, <1>4, <2>1
  <1>7. nextContent' = nextContent /\ nextContent \in Nat
    BY DEF LoadAllPsk, Inv, TypeOK
  <1>8. NextInv'
    BY <1>3, <1>4, <1>6, <1>7 DEF NextInv, Inv, SafeLimits, DefaultOptions
  <1>9. ListInv'
    <2>1. Listing(storage', nextContent')
      BY <1>1, <1>3, <1>7 DEF Inv, ListInv
    <2>2. ASSUME NEW u \in Threads
          PROVE  Listing(list'[u], nextContent')
      <3>1. list' = [list EXCEPT ![t] = NoList]
        BY DEF LoadAllPsk
      <3>2. CASE u = t
        BY <1>7, <3>1, <3>2, EmptyListing DEF Inv, TypeOK, ThreadsOK
      <3>3. CASE u # t
        BY <1>7, <3>1, <3>3 DEF Inv, TypeOK, ThreadsOK, ListInv
      <3> QED BY <3>2, <3>3
    <2> QED BY <2>1, <2>2 DEF ListInv
  \* What is loaded comes from the list.
  <1>10. ASSUME NEW r \in Ids, tokens[r].psk.content \in Contents
         PROVE  r \in Listed(tokens)
    BY <1>10 DEF Listed, NoToken, NoPsk, Contents
  <1>11. ASSUME NEW r \in Ids, Live(r)'
         PROVE  /\ r \in 1..n /\ idMap'[r] = tokens[r].psk
                /\ tokens[r].psk.content \in Contents
                /\ tokens[r].psk.content < nextContent
    <2>1. r \in 1..n /\ idMap'[r] = tokens[r].psk /\ tokens[r].psk # NoPsk
      BY <1>3, <1>11 DEF Live
    <2>2. r \in Listed(tokens)
      BY <2>1 DEF Listed, NoToken
    <2> QED BY <1>1, <2>1, <2>2 DEF Listing
  <1>12. LiveInv'
    BY <1>4, <1>6, <1>7, <1>11 DEF LiveInv
  <1>13. ASSUME NEW r \in 1..n, NEW c \in Contents, tokens[r].psk.content = c
         PROVE  \A s \in 1..n : tokens[s].psk.content = c => s = r
    BY <1>1, <1>5, <1>10, <1>13 DEF Listing
  <1>14. ASSUME NEW r \in 1..n, NEW c \in Contents, tokens[r].psk.content = c
         PROVE  contentMap'[c] = r
    <2>1. \A s \in 1..r : s \in 1..n
      BY <1>4
    <2>2. IsFirst(tokens, r, c)
      BY <1>13, <1>14, <2>1 DEF IsFirst
    <2>3. \A s \in 1..n : IsFirst(tokens, s, c) => s = r
      BY <1>13, <1>14 DEF IsFirst
    <2>4. (CHOOSE s \in 1..n : IsFirst(tokens, s, c)) = r
      BY <2>2, <2>3
    <2> QED BY <1>3, <2>2, <2>4
  <1>15. ASSUME NEW c \in Contents, contentMap'[c] # NoId
         PROVE  idMap'[contentMap'[c]].content = c
    <2>1. \E r \in 1..n : IsFirst(tokens, r, c)
      BY <1>3, <1>15
    <2>2. /\ contentMap'[c] \in 1..n
          /\ IsFirst(tokens, contentMap'[c], c)
      BY <1>3, <2>1
    <2> QED BY <1>3, <1>5, <2>2 DEF IsFirst
  <1>16. MapsAgree'
    BY <1>11, <1>14, <1>15 DEF MapsAgree
  <1> QED BY <1>8, <1>9, <1>12, <1>16

\* Steps that leave the maps and contents alone.
LEMMA OtherInv ==
  ASSUME Inv, UNCHANGED <<mapVars, storage, nextContent>>, options'.max < MaxId,
         \A t \in Threads : list'[t] = list[t] \/ list'[t] = storage
  PROVE  NextInv' /\ LiveInv' /\ ListInv' /\ MapsAgree'
  <1>1. NextInv' /\ LiveInv' /\ MapsAgree'
    BY DEF Inv, NextInv, LiveInv, MapsAgree, Live, mapVars
  <1>2. ListInv'
    BY DEF Inv, ListInv
  <1> QED BY <1>1, <1>2

LEMMA StepInv ==
  ASSUME PskManagerAssumption, SafeLimits, Duplicates = FALSE, Inv, [Next]_vars
  PROVE  Inv'
  <1>0. TypeOK'
    BY StepTypeOK DEF Inv
  <1> SUFFICES NextInv' /\ LiveInv' /\ ListInv' /\ MapsAgree'
    BY <1>0 DEF Inv
  <1>1. CASE Crash
    <2>1. \A t \in Threads : Listing(list'[t], nextContent')
      BY <1>1, EmptyListing DEF Crash
    <2> QED BY <1>1, <2>1, ClearedInv
            DEF Crash, Inv, ListInv, NextInv, SafeLimits, DefaultOptions
  <1>2. CASE Tick
    BY <1>2, OtherInv DEF Tick, threadVars, Inv, NextInv
  <1>3. CASE KmByOthers
    BY <1>3, OtherInv DEF KmByOthers, threadVars, Inv, NextInv
  <1>4. ASSUME NEW max \in MaxCounts, NEW dom \in Doms,
               PskInit([max |-> max, dom |-> dom])
        PROVE  NextInv' /\ LiveInv' /\ ListInv' /\ MapsAgree'
    <2>1. options'.max < MaxId
      BY <1>4 DEF PskInit, SafeLimits, Inv, NextInv
    <2> QED BY <1>4, <2>1, OtherInv DEF PskInit, threadVars
  <1>5. CASE UnInit
    <2>1. CASE initCount = 1
      BY <1>5, <2>1, ClearedInv
      DEF UnInit, Inv, ListInv, NextInv, SafeLimits, DefaultOptions, threadVars
    <2>2. CASE initCount # 1
      BY <1>5, <2>2, OtherInv DEF UnInit, threadVars, Inv, NextInv
    <2> QED BY <2>1, <2>2
  <1>6. ASSUME NEW valid \in ValidTimes, NEW begin \in BeginTimes,
               GeneratePsk(valid, begin)
        PROVE  NextInv' /\ LiveInv' /\ ListInv' /\ MapsAgree'
    BY <1>6, AddPskInv DEF GeneratePsk
  <1>7. ASSUME NEW valid \in ValidTimes, NEW begin \in BeginTimes,
               NEW content \in Contents, ImportPsk(content, valid, begin)
        PROVE  NextInv' /\ LiveInv' /\ ListInv' /\ MapsAgree'
    BY <1>7, AddPskInv DEF ImportPsk
  <1>8. ASSUME NEW id \in Ids, DeletePsk(id)
        PROVE  NextInv' /\ LiveInv' /\ ListInv' /\ MapsAgree'
    BY <1>8, DeletePskInv
  <1>9. ASSUME NEW id \in Ids, NEW c, Update(id, c)
        PROVE  NextInv' /\ LiveInv' /\ ListInv' /\ MapsAgree'
    <2>1. \A t \in Threads : Listing(list'[t], nextContent')
      BY <1>0, <1>9, ListsGrow DEF Update, UpdatePsk, threadVars, Inv, TypeOK
    <2> QED BY <1>9, <2>1, UpdatePskInv DEF Update, ListInv
  <1>10. ASSUME NEW t \in Threads, NEW id \in Ids, AutoCheck(t, id)
         PROVE  NextInv' /\ LiveInv' /\ ListInv' /\ MapsAgree'
    BY <1>10, OtherInv DEF AutoCheck, Inv, NextInv
  <1>11. ASSUME NEW t \in Threads, AutoUpdate(t)
         PROVE  NextInv' /\ LiveInv' /\ ListInv' /\ MapsAgree'
    <2>1. CASE UpdatePsk(found[t], 0)
      <3>1. found[t] \in Ids
        BY DEF Inv, TypeOK, ThreadsOK
      <3>2. \A u \in Threads : Listing(list'[u], nextContent')
        BY <1>0, <1>11, <2>1, ListsGrow DEF AutoUpdate, UpdatePsk, Inv, TypeOK
      <3> QED BY <2>1, <3>1, <3>2, UpdatePskInv DEF ListInv
    <2>2. CASE UNCHANGED <<options, initCount, mapVars, km, storage, now,
                           nextContent, loaded, dead>>
      BY <1>11, <2>2, OtherInv DEF AutoUpdate, Inv, NextInv
    <2> QED BY <1>11, <2>1, <2>2 DEF AutoUpdate
  <1>12. ASSUME NEW t \in Threads, LoadCheck(t)
         PROVE  NextInv' /\ LiveInv' /\ ListInv' /\ MapsAgree'
    <2>1. \A u \in Threads : list'[u] = list[u] \/ list'[u] = storage
      BY <1>12 DEF LoadCheck, Inv, TypeOK, ThreadsOK
    <2> QED BY <1>12, <2>1, OtherInv DEF LoadCheck, Inv, NextInv
  <1>13. ASSUME NEW t \in Threads, LoadAllPsk(t)
         PROVE  NextInv' /\ LiveInv' /\ ListInv' /\ MapsAgree'
    BY <1>13, LoadInv
  <1>14. CASE UNCHANGED vars
    BY <1>14, OtherInv DEF vars, mapVars, Inv, NextInv
  <1> QED BY <1>1, <1>2, <1>3, <1>4, <1>5, <1>6, <1>7, <1>8, <1>9, <1>10,
             <1>11, <1>12, <1>13, <1>14 DEF Next

\* The invariant of an application that never imports content twice, with a
\* pskMaxCount below UINT32_MAX.
THEOREM InvHolds ==
  ASSUME SafeLimits, Duplicates = FALSE
  PROVE  Spec => []Inv
  <1>1. Init => Inv
    BY InitInv, PskManagerAssumption
  <1>2. Inv /\ [Next]_vars => Inv'
    BY StepInv, PskManagerAssumption
  <1> QED BY <1>1, <1>2, PTL DEF Spec

\* Its types: initCount_ stays a natural number and curPskMaxId_ and every id
\* in pskContentMap_ stay in 0 .. UINT32_MAX, whatever is called.
THEOREM TypeCorrect ==
  ASSUME SafeLimits, Duplicates = FALSE
  PROVE  Spec => []TypeOK
  BY InvHolds, PTL DEF Inv

\* pskContentMap_ is the inverse of pskIdMap_ for any number of threads, PSKs
\* and crashes, whatever the callbacks do: even one that stores and then
\* reports that it failed does not part the two maps.
THEOREM MapsAreInverse ==
  ASSUME SafeLimits, Duplicates = FALSE
  PROVE  Spec => []MapsAgree
  BY InvHolds, PTL DEF Inv

-----------------------------------------------------------------------------
(* A careful application whose callbacks tell the truth: its storage, the   *)
(* memory and the lists of loads under way have the same PSKs.              *)

HonestApplication ==
  /\ SafeLimits /\ ~Duplicates /\ Careful
  /\ Callbacks = {"CREATE", "UPDATE", "DELETE"} /\ Faults \subseteq {"failed"}

PsksOf(ts) == {ts[id].psk : id \in Listed(ts)}
Ends == {time + v : time \in BeginTimes \cup 0..MaxTime, v \in ValidTimes}
MadePsks == [content : Contents, valid : ValidTimes, end : Ends]

LoadedInv == loaded => \A id \in Ids : idMap[id] = storage[id].psk
MemoryInv == \A id \in Ids : Live(id) => idMap[id] \in PsksOf(storage)
UnderWayInv ==
  \A t \in Threads : pc[t] = "loading" => PsksOf(list[t]) = PsksOf(storage)
MadeInv == PsksOf(storage) \subseteq MadePsks /\ now \in 0..MaxTime
DeadInv ==
  /\ dead \subseteq Contents /\ dead \subseteq 1..(nextContent - 1)
  /\ \A c \in dead : \A psk \in PsksOf(storage) : psk.content # c

CareInv == LoadedInv /\ MemoryInv /\ UnderWayInv /\ MadeInv /\ DeadInv

\* A step of PskStore, but for what it says of the service.
StoreMoves ==
  \/ Store!Refuse \/ Store!Restart
  \/ \E psk \in MadePsks :
       \/ Store!Add(psk) \/ Store!Remove(psk)
       \/ \E old \in PsksOf(storage) : Store!Replace(old, psk)

\* Renumbering changes no PSK, and numbers them from 1.
LEMMA RanksDiffer ==
  ASSUME PskManagerAssumption, SafeLimits, NEW ts, NEW bound, Listing(ts, bound),
         NEW i \in Listed(ts), NEW j \in Listed(ts), Rank(ts, i) = Rank(ts, j)
  PROVE  i = j
  <1> DEFINE Below(k) == {h \in Listed(ts) : h <= k}
  <1>1. Listed(ts) \subseteq 1..(MaxId - 1) /\ IsFiniteSet(Listed(ts))
    BY ListedBound DEF Listing
  <1>2. ASSUME NEW a \in Listed(ts), NEW b \in Listed(ts), a < b,
               Rank(ts, a) = Rank(ts, b)
        PROVE  FALSE
    <2>1. Below(a) \subseteq Below(b) /\ b \in Below(b) /\ b \notin Below(a)
      BY <1>1, <1>2
    <2>2. IsFiniteSet(Below(b))
      BY <1>1, FS_Subset
    <2>3. Cardinality(Below(a)) = Cardinality(Below(b))
      BY <1>2 DEF Rank
    <2> HIDE DEF Below
    <2>4. Below(b) = Below(a)
      BY <2>1, <2>2, <2>3, FS_Subset
    <2> QED BY <2>1, <2>4
  <1> QED BY <1>1, <1>2

LEMMA RenumberedPsks ==
  ASSUME PskManagerAssumption, SafeLimits, NEW bound,
         NEW ts \in Tokens, Listing(ts, bound)
  PROVE  /\ PsksOf(Renumbered(ts)) = PsksOf(ts)
         /\ Listed(Renumbered(ts)) \subseteq 1..Cardinality(Listed(ts))
  <1> DEFINE new == Renumbered(ts)
             from(r) == CHOOSE id \in Ids : IsRank(ts, id, r)
  <1>1. ASSUME NEW r \in Listed(new)
        PROVE  /\ from(r) \in Listed(ts) /\ Rank(ts, from(r)) = r
               /\ new[r] = ts[from(r)]
    <2>1. r \in Ids /\ new[r] # NoToken
      BY DEF Listed
    <2>2. \E id \in Ids : IsRank(ts, id, r)
      BY <2>1 DEF Renumbered
    <2>3. from(r) \in Ids /\ IsRank(ts, from(r), r)
      BY <2>2
    <2> QED BY <2>1, <2>2, <2>3 DEF Renumbered, IsRank
  <1>2. ASSUME NEW id \in Listed(ts)
        PROVE  Rank(ts, id) \in Listed(new) /\ new[Rank(ts, id)] = ts[id]
    <2> DEFINE r == Rank(ts, id)
    <2>1. r \in 1..(MaxId - 1)
      BY RankBound
    <2>2. r \in Ids /\ id \in Ids /\ ts[id] # NoToken
      BY <2>1 DEF Ids, PskManagerAssumption, Listed
    <2>3. IsRank(ts, id, r)
      BY DEF IsRank
    <2>4. from(r) \in Ids /\ IsRank(ts, from(r), r)
      BY <2>2, <2>3
    <2>5. from(r) = id
      <3> HIDE DEF from
      <3> QED BY <2>4, RanksDiffer DEF IsRank
    <2>6. new[r] = ts[from(r)]
      BY <2>2, <2>3 DEF Renumbered
    <2> HIDE DEF r, from, new
    <2> QED BY <2>2, <2>5, <2>6 DEF Listed, r
  <1>3. ASSUME NEW r \in Listed(new) PROVE r \in 1..Cardinality(Listed(ts))
    <2> HIDE DEF from, new
    <2>1. from(r) \in Listed(ts) /\ Rank(ts, from(r)) = r
      BY <1>1
    <2>2. r \in 1..(MaxId - 1)
      BY <2>1, RankBound
    <2>3. {j \in Listed(ts) : j <= from(r)} \subseteq Listed(ts)
      OBVIOUS
    <2>4. r <= Cardinality(Listed(ts))
      BY <2>1, <2>3, ListedBound, FS_Subset DEF Rank
    <2> QED BY <2>2, <2>4, ListedBound
  <1> HIDE DEF from, new
  <1>4. PsksOf(new) = PsksOf(ts)
    BY <1>1, <1>2 DEF PsksOf
  <1> QED BY <1>3, <1>4 DEF new

\* What a change of one token does to the PSKs.
LEMMA OtherPsks ==
  ASSUME NEW ts, NEW id \in Listed(ts), NEW bound, Listing(ts, bound)
  PROVE  PsksOf(ts) \ {ts[id].psk} = {ts[j].psk : j \in Listed(ts) \ {id}}
  <1>1. \A j \in Listed(ts) : ts[j].psk = ts[id].psk => j = id
    BY DEF Listing
  <1>2. ASSUME NEW psk \in PsksOf(ts) \ {ts[id].psk}
        PROVE  psk \in {ts[j].psk : j \in Listed(ts) \ {id}}
    <2>1. PICK j \in Listed(ts) : psk = ts[j].psk
      BY DEF PsksOf
    <2>2. j # id
      BY <1>2, <2>1
    <2> QED BY <2>1, <2>2
  <1>3. ASSUME NEW j \in Listed(ts) \ {id}
        PROVE  ts[j].psk \in PsksOf(ts) \ {ts[id].psk}
    BY <1>1 DEF PsksOf
  <1> QED BY <1>2, <1>3

LEMMA PutPsks ==
  ASSUME NEW ts \in Tokens, NEW id \in Ids, NEW token \in TokenType,
         token # NoToken, NEW bound, Listing(ts, bound)
  PROVE  /\ id \notin Listed(ts) =>
              PsksOf([ts EXCEPT ![id] = token]) = PsksOf(ts) \cup {token.psk}
         /\ id \in Listed(ts) =>
              PsksOf([ts EXCEPT ![id] = token]) =
                (PsksOf(ts) \ {ts[id].psk}) \cup {token.psk}
  <1> DEFINE new == [ts EXCEPT ![id] = token]
  <1>1. /\ new[id] = token /\ \A j \in Ids \ {id} : new[j] = ts[j]
    BY DEF Tokens
  <1> HIDE DEF new
  <1>2. Listed(new) = Listed(ts) \cup {id}
    BY <1>1 DEF Listed
  <1>3. Listed(ts) \subseteq Ids
    BY DEF Listed
  <1>4. CASE id \notin Listed(ts)
    BY <1>1, <1>2, <1>3, <1>4 DEF PsksOf, new
  <1>5. CASE id \in Listed(ts)
    <2>1. PsksOf(ts) \ {ts[id].psk} = {ts[j].psk : j \in Listed(ts) \ {id}}
      BY <1>5, OtherPsks
    <2>2. PsksOf(new) = {ts[j].psk : j \in Listed(ts) \ {id}} \cup {token.psk}
      BY <1>1, <1>2, <1>3, <1>5 DEF PsksOf
    <2> QED BY <1>5, <2>1, <2>2 DEF new
  <1> QED BY <1>4, <1>5

LEMMA DropPsks ==
  ASSUME NEW ts \in Tokens, NEW id \in Listed(ts), NEW bound, Listing(ts, bound)
  PROVE  PsksOf([ts EXCEPT ![id] = NoToken]) = PsksOf(ts) \ {ts[id].psk}
  <1> DEFINE new == [ts EXCEPT ![id] = NoToken]
  <1>1. /\ id \in Ids
        /\ new[id] = NoToken /\ \A j \in Ids \ {id} : new[j] = ts[j]
    BY DEF Tokens, Listed
  <1> HIDE DEF new
  <1>2. Listed(new) = Listed(ts) \ {id} /\ Listed(ts) \subseteq Ids
    BY <1>1 DEF Listed
  <1>3. PsksOf(new) = {ts[j].psk : j \in Listed(ts) \ {id}}
    BY <1>1, <1>2 DEF PsksOf
  <1> QED BY <1>3, OtherPsks DEF new

\* No more PSKs than ids.
LEMMA FewPsks ==
  ASSUME NEW ts, NEW n \in Nat, Listed(ts) \subseteq 1..n
  PROVE  Cardinality(PsksOf(ts)) <= n /\ Cardinality(PsksOf(ts)) \in Nat
  <1> DEFINE S == Listed(ts)
             T == PsksOf(ts)
             f == [id \in S |-> ts[id].psk]
  <1>1. IsFiniteSet(1..n) /\ Cardinality(1..n) = n
    BY FS_Interval
  <1>2. IsFiniteSet(S) /\ Cardinality(S) <= n /\ Cardinality(S) \in Nat
    BY <1>1, FS_Subset, FS_CardinalityType
  <1>3. f \in Surjection(S, T)
    BY DEF Surjection, PsksOf
  <1> HIDE DEF S, T, f
  <1>4. IsFiniteSet(T) /\ Cardinality(T) <= Cardinality(S)
    BY <1>2, <1>3, FS_Surjection
  <1>5. Cardinality(T) \in Nat
    BY <1>4, FS_CardinalityType
  <1> QED BY <1>2, <1>4, <1>5 DEF T

\* When a step is one of PskStore.
LEMMA MoreUsed ==
  ASSUME NEW a \in Nat, NEW b \in Nat, a <= b
  PROVE  1..(a - 1) \subseteq 1..(b - 1)
  <1> SUFFICES ASSUME NEW c \in 1..(a - 1) PROVE c \in 1..(b - 1)
    OBVIOUS
  <1> QED OBVIOUS

LEMMA RefuseMoves ==
  ASSUME PsksOf(storage') = PsksOf(storage), options'.max = options.max,
         nextContent \in Nat, nextContent' \in Nat, nextContent <= nextContent'
  PROVE  Store!Refuse
  <1>1. 1..(nextContent - 1) \subseteq 1..(nextContent' - 1)
    BY MoreUsed
  <1> QED BY <1>1 DEF Store!Refuse, PsksOf, Listed, StoredIds, Stored

LEMMA RestartMoves ==
  ASSUME PsksOf(storage') = PsksOf(storage), options'.max \in Nat,
         nextContent' = nextContent
  PROVE  Store!Restart
  BY DEF Store!Restart, PsksOf, Listed, StoredIds, Stored

LEMMA NewMoves ==
  ASSUME NEW psk, psk.content = nextContent, nextContent \in Nat \ {0},
         nextContent' = nextContent + 1
  PROVE  Store!New(psk)
  BY DEF Store!New

LEMMA AddMoves ==
  ASSUME NEW psk, psk.content = nextContent, nextContent \in Nat \ {0},
         nextContent' = nextContent + 1, options' = options,
         Cardinality(PsksOf(storage)) < options.max,
         PsksOf(storage') = PsksOf(storage) \cup {psk}
  PROVE  Store!Add(psk)
  <1>1. Store!New(psk)
    BY NewMoves
  <1>2. {storage[id].psk : id \in StoredIds} = PsksOf(storage)
    BY DEF PsksOf, Listed, StoredIds, Stored
  <1>3. {storage[id].psk : id \in StoredIds}' = PsksOf(storage')
    BY DEF PsksOf, Listed, StoredIds, Stored
  <1>4. Store!Cardinality(PsksOf(storage)) = Cardinality(PsksOf(storage))
    BY DEF Store!Cardinality, Cardinality
  <1> QED BY <1>1, <1>2, <1>3, <1>4 DEF Store!Add

LEMMA ReplaceMoves ==
  ASSUME NEW psk, NEW old, psk.content = nextContent, nextContent \in Nat \ {0},
         nextContent' = nextContent + 1, options' = options,
         old \in PsksOf(storage), psk.valid = old.valid,
         PsksOf(storage') = (PsksOf(storage) \ {old}) \cup {psk}
  PROVE  Store!Replace(old, psk)
  <1>1. Store!New(psk)
    BY NewMoves
  <1> QED BY <1>1 DEF Store!Replace, PsksOf, Listed, StoredIds, Stored

LEMMA RemoveMoves ==
  ASSUME NEW psk, nextContent' = nextContent, options' = options,
         psk \in PsksOf(storage), PsksOf(storage') = PsksOf(storage) \ {psk}
  PROVE  Store!Remove(psk)
  BY DEF Store!Remove, PsksOf, Listed, StoredIds, Stored

\* Stored tokens have a PSK; what is live is stored, once loaded.
LEMMA StoredFacts ==
  ASSUME Inv, LoadedInv
  PROVE  /\ \A id \in Listed(storage) : id \in Ids /\ storage[id].psk # NoPsk
         /\ loaded => \A id \in Ids : /\ Live(id) <=> id \in Listed(storage)
                                      /\ idMap[id] = storage[id].psk
  <1>1. ASSUME NEW id \in Listed(storage)
        PROVE  id \in Ids /\ storage[id].psk # NoPsk
    BY DEF Inv, ListInv, Listing, Listed, NoPsk, Contents
  <1>2. ASSUME NEW id \in Ids, id \notin Listed(storage)
        PROVE  storage[id].psk = NoPsk
    BY <1>2 DEF Listed, NoToken
  <1> QED BY <1>1, <1>2 DEF LoadedInv, Live

\* What the service offers is all of the storage, or nothing.
LEMMA ServeHolds ==
  ASSUME Inv', LoadedInv'
  PROVE  Store!Serve
  <1>1. \A id \in Listed(storage') : id \in Ids /\ storage'[id].psk # NoPsk
    BY DEF Inv, ListInv, Listing, Listed, NoPsk, Contents
  <1>2. \A id \in Ids : id \notin Listed(storage') => storage'[id].psk = NoPsk
    BY DEF Listed, NoToken
  <1>3. CASE loaded' /\ CheckInited'
    <2>1. \A id \in Ids : /\ Live(id)' <=> id \in Listed(storage')
                          /\ idMap'[id] = storage'[id].psk
      BY <1>1, <1>2, <1>3 DEF LoadedInv, Live
    <2>2. {idMap'[id] : id \in {i \in Ids : Live(i)'}}
            = {storage'[id].psk : id \in {i \in Ids : Stored(i)'}}
      BY <2>1 DEF Listed, Stored
    <2> QED BY <1>3, <2>2 DEF Store!Serve, StoredIds
  <1>4. CASE ~(loaded' /\ CheckInited')
    BY <1>4 DEF Store!Serve
  <1> QED BY <1>3, <1>4

\* Steps that change neither memory nor storage.
LEMMA QuietCare ==
  ASSUME Inv, CareInv, UNCHANGED <<idMap, storage, nextContent, loaded, dead>>,
         now' \in 0..MaxTime,
         \A t \in Threads : pc'[t] = "loading" =>
           list'[t] = storage \/ (pc[t] = "loading" /\ list'[t] = list[t])
  PROVE  CareInv' /\ PsksOf(storage') = PsksOf(storage)
  <1>1. LoadedInv' /\ MemoryInv' /\ MadeInv' /\ DeadInv'
    BY DEF CareInv, LoadedInv, MemoryInv, MadeInv, DeadInv, Live
  <1>2. UnderWayInv'
    BY DEF CareInv, UnderWayInv
  <1> QED BY <1>1, <1>2 DEF CareInv

\* The maps are cleared: by UnInit, and by a crash.
LEMMA ClearedCare ==
  ASSUME Inv, CareInv, ClearedMaps, UNCHANGED <<storage, now, nextContent, dead>>,
         loaded' = (StoredIds = {}),
         \A t \in Threads : pc'[t] = "loading" =>
           pc[t] = "loading" /\ list'[t] = list[t]
  PROVE  CareInv' /\ PsksOf(storage') = PsksOf(storage)
  <1>1. \A id \in Ids : idMap'[id] = NoPsk
    BY DEF ClearedMaps
  <1>2. LoadedInv'
    <2>1. loaded' => \A id \in Ids : storage[id] = NoToken
      BY DEF StoredIds, Stored
    <2> QED BY <1>1, <2>1 DEF LoadedInv, NoToken
  <1>3. MemoryInv' /\ MadeInv' /\ DeadInv'
    BY <1>1 DEF CareInv, MemoryInv, MadeInv, DeadInv, Live
  <1>4. UnderWayInv'
    BY DEF CareInv, UnderWayInv
  <1> QED BY <1>2, <1>3, <1>4 DEF CareInv

\* Who may change something has loaded, and no load is under way.
LEMMA ChangerFacts ==
  ASSUME HonestApplication, Inv, CareInv, MayChange,
         \A t \in Threads : pc'[t] = "loading" => pc[t] = "loading"
  PROVE  /\ loaded /\ UnderWayInv'
         /\ \A id \in Ids : /\ Live(id) <=> id \in Listed(storage)
                            /\ idMap[id] = storage[id].psk
  <1>1. loaded /\ UnderWayInv'
    BY DEF HonestApplication, MayChange, UnderWayInv
  <1> QED BY <1>1, StoredFacts DEF CareInv

LEMMA EndsFacts ==
  ASSUME PskManagerAssumption
  PROVE  /\ Ends \subseteq Nat
         /\ \A time \in BeginTimes \cup 0..MaxTime, v \in ValidTimes :
              time + v \in Ends
  BY DEF Ends, PskManagerAssumption

LEMMA MadeFacts ==
  ASSUME PskManagerAssumption, NEW psk \in MadePsks
  PROVE  psk \in Psk /\ psk # NoPsk
  <1>1. psk = [content |-> psk.content, valid |-> psk.valid, end |-> psk.end]
    BY DEF MadePsks
  <1>2. psk.content \in Nat \ {0} /\ psk.valid \in Nat
    <2>1. psk.content \in Contents /\ psk.valid \in ValidTimes
      BY DEF MadePsks
    <2>2. Contents \subseteq Nat \ {0} /\ ValidTimes \subseteq Nat
      BY DEF Contents, PskManagerAssumption
    <2> QED BY <2>1, <2>2
  <1>4. psk.end \in Nat
    <2>1. psk.end \in Ends
      BY DEF MadePsks
    <2> QED BY <2>1, EndsFacts
  <1>3. NoPsk.content = 0
    BY DEF NoPsk
  <1> QED BY <1>1, <1>2, <1>3, <1>4 DEF Psk

LEMMA DeadStays ==
  ASSUME Inv, DeadInv, nextContent \in Contents, nextContent' = nextContent + 1,
         NEW psk, psk.content = nextContent,
         PsksOf(storage') \subseteq PsksOf(storage) \cup {psk},
         \/ dead' = dead
         \/ \E old : /\ dead' = dead \cup {old} /\ old \in 1..(nextContent - 1)
                     /\ \A p \in PsksOf(storage') : p.content # old
  PROVE  DeadInv'
  <1>0. nextContent \in Nat \ {0} /\ 1..(nextContent - 1) \subseteq Contents
    BY PskManagerAssumption DEF Contents, PskManagerAssumption
  <1>1. dead' \subseteq 1..(nextContent - 1) /\ dead' \subseteq Contents
    BY <1>0 DEF DeadInv
  <1>2. 1..(nextContent - 1) \subseteq 1..(nextContent' - 1)
    BY <1>0, MoreUsed
  <1>3. ASSUME NEW c \in dead', NEW p \in PsksOf(storage') PROVE p.content # c
    <2>1. CASE c \in dead
      <3>1. c # nextContent
        BY <2>1 DEF DeadInv
      <3> QED BY <2>1, <3>1 DEF DeadInv
    <2> QED BY <1>3, <2>1
  <1> QED BY <1>1, <1>2, <1>3 DEF DeadInv

\* Memory and storage get the same PSK under the same id.
LEMMA PutCare ==
  ASSUME PskManagerAssumption, HonestApplication, Inv, CareInv, MayChange,
         NEW id \in Ids, NEW psk \in MadePsks, NEW dom,
         \A t \in Threads : pc'[t] = "loading" => pc[t] = "loading",
         idMap' = [idMap EXCEPT ![id] = psk],
         storage' = [storage EXCEPT ![id] = [psk |-> psk, id |-> id, dom |-> dom]],
         UNCHANGED <<now, loaded>>
  PROVE  /\ LoadedInv' /\ MemoryInv' /\ UnderWayInv'
         /\ psk \in PsksOf(storage')
  <1>1. /\ idMap \in [Ids -> Psk] /\ storage \in Tokens
    BY DEF Inv, TypeOK, MapsOK
  <1>2. /\ loaded
        /\ \A j \in Ids : /\ Live(j) <=> j \in Listed(storage)
                          /\ idMap[j] = storage[j].psk
    BY ChangerFacts
  <1>0. psk # NoPsk
    BY MadeFacts
  <1>3. \A j \in Ids : idMap'[j] = storage'[j].psk
    BY <1>1, <1>2 DEF Tokens
  <1>4. \A j \in Ids : Live(j)' => j \in Listed(storage')
    <2>1. storage'[id] # NoToken
      BY <1>0, <1>1 DEF Tokens, NoToken
    <2>2. \A j \in Ids \ {id} : storage'[j] = storage[j] /\ idMap'[j] = idMap[j]
      BY <1>1 DEF Tokens
    <2> QED BY <1>2, <2>1, <2>2 DEF Live, Listed
  <1>5. id \in Listed(storage') /\ storage'[id].psk = psk
    BY <1>0, <1>1 DEF Listed, NoToken, Tokens
  <1> QED BY <1>3, <1>4, <1>5, ChangerFacts DEF LoadedInv, MemoryInv, PsksOf

LEMMA AddCare ==
  ASSUME PskManagerAssumption, HonestApplication, Inv, CareInv, Inv',
         nextContent \in Contents, nextContent' = nextContent + 1,
         NEW valid \in ValidTimes, NEW begin \in BeginTimes,
         AddPsk(nextContent, valid, begin)
  PROVE  CareInv' /\ StoreMoves
  <1> DEFINE id == curPskMaxId
  <1>0. PICK psk \in MadePsks :
          psk = [content |-> nextContent, valid |-> valid, end |-> begin + valid]
    BY EndsFacts DEF MadePsks, CareInv, MadeInv
  <1>1. /\ psk.content = nextContent
        /\ nextContent \in Nat \ {0} /\ nextContent' \in Nat
    BY <1>0 DEF Contents
  <1>2. id \in Ids /\ id \in Nat /\ id >= 1 /\ id <= options.max /\ options.max \in Nat
    BY DEF AddPsk, Inv, TypeOK, MapsOK, Ids, NextInv, Options
  <1>3. /\ loaded /\ UnderWayInv'
        /\ \A j \in Ids : /\ Live(j) <=> j \in Listed(storage)
                          /\ idMap[j] = storage[j].psk
    BY ChangerFacts DEF AddPsk, threadVars
  <1>4. ~Live(id) /\ id \notin Listed(storage)
    BY <1>2, <1>3, Fresh
  <1>5. UNCHANGED <<options, now, loaded, dead, pc, list>>
    BY DEF AddPsk, threadVars
  <1>6. DeadInv
    BY DEF CareInv
  <1>7. PICK outcome \in {"done", "failed"} :
          /\ storage' = IF outcome = "done"
                        THEN [storage EXCEPT ![id] = Token(id, psk)] ELSE storage
          /\ IF outcome = "done"
             THEN idMap' = [idMap EXCEPT ![id] = psk]
             ELSE UNCHANGED mapVars
    <2>1. PICK outcome \in Outcomes("CREATE") :
           /\ storage' = IF Kept(outcome)
                         THEN [storage EXCEPT ![id] = Token(id, psk)]
                         ELSE storage
           /\ IF Accepted(outcome)
              THEN idMap' = [idMap EXCEPT ![id] = IF Live(id) THEN @ ELSE psk]
              ELSE UNCHANGED mapVars
      BY <1>0 DEF AddPsk
    <2>2. outcome \in {"done", "failed"}
      BY DEF Outcomes, HonestApplication
    <2> HIDE DEF id
    <2> QED BY <1>4, <2>1, <2>2 DEF Kept, Accepted
  <1>8. storage \in Tokens /\ Listing(storage, nextContent)
    BY DEF Inv, TypeOK, ListInv
  <1>9. CASE outcome = "done"
    <2>1. LoadedInv' /\ MemoryInv' /\ UnderWayInv'
      <3>1. storage' = [storage EXCEPT ![id] =
                          [psk |-> psk, id |-> id, dom |-> options.dom]]
        BY <1>7, <1>9 DEF Token
      <3>2. idMap' = [idMap EXCEPT ![id] = psk] /\ MayChange
        BY <1>7, <1>9 DEF AddPsk
      <3> HIDE DEF id
      <3> QED BY <1>1, <1>2, <1>5, <3>1, <3>2, PutCare
    <2>2. Token(id, psk) \in TokenType /\ Token(id, psk) # NoToken
          /\ Token(id, psk).psk = psk
      <3>1. psk \in Psk /\ psk # NoPsk
        BY <1>1, MadeFacts
      <3>2. Token(id, psk) \in TokenType
        BY <1>2, <3>1, TokenOK DEF Inv
      <3> QED BY <3>1, <3>2 DEF Token, NoToken
    <2>3. PsksOf(storage') = PsksOf(storage) \cup {psk}
      <3>1. PICK token \in TokenType : token = Token(id, psk)
        BY <2>2
      <3>2. storage' = [storage EXCEPT ![id] = token]
        BY <1>7, <1>9, <3>1
      <3>3. token # NoToken /\ token.psk = psk
        BY <2>2, <3>1
      <3> HIDE DEF id
      <3> QED BY <1>2, <1>4, <1>8, <3>2, <3>3, PutPsks
    <2>4. MadeInv'
      BY <1>1, <1>5, <2>3 DEF CareInv, MadeInv
    <2>5. DeadInv'
      BY <1>1, <1>5, <1>6, <2>3, DeadStays
    <2>6. Cardinality(PsksOf(storage)) < options.max
      <3>1. Listed(storage) \subseteq 1..(id - 1)
        BY <1>2, <1>3 DEF Inv, LiveInv, Listed, Ids, PskManagerAssumption
      <3> QED BY <1>2, <3>1, FewPsks
    <2>7. Store!Add(psk)
      BY <1>1, <1>5, <2>3, <2>6, AddMoves
    <2>8. StoreMoves
      BY <2>7 DEF StoreMoves
    <2> QED BY <2>1, <2>4, <2>5, <2>8 DEF CareInv
  <1>10. CASE outcome = "failed"
    <2>1. UNCHANGED <<idMap, storage>>
      BY <1>7, <1>10 DEF mapVars
    <2>2. LoadedInv' /\ MemoryInv' /\ MadeInv'
      BY <1>5, <2>1 DEF CareInv, LoadedInv, MemoryInv, MadeInv, Live
    <2>3. DeadInv'
      BY <1>1, <1>5, <1>6, <2>1 DEF DeadInv
    <2>4. Store!Refuse
      BY <1>1, <1>5, <2>1, RefuseMoves
    <2> QED BY <1>3, <2>2, <2>3, <2>4 DEF CareInv, StoreMoves
  <1> QED BY <1>9, <1>10

LEMMA DeleteCare ==
  ASSUME PskManagerAssumption, HonestApplication, Inv, CareInv, Inv',
         NEW id \in Ids, DeletePsk(id)
  PROVE  CareInv' /\ StoreMoves
  <1>1. /\ loaded /\ UnderWayInv'
        /\ \A j \in Ids : /\ Live(j) <=> j \in Listed(storage)
                          /\ idMap[j] = storage[j].psk
    BY ChangerFacts DEF DeletePsk, threadVars
  <1>2. id \in Listed(storage)
    BY <1>1 DEF DeletePsk
  <1>3. UNCHANGED <<options, now, nextContent, loaded, dead, pc, list>>
    BY DEF DeletePsk, threadVars
  <1>4. PICK outcome \in {"done", "failed"} :
          IF outcome = "done"
          THEN /\ storage' = [storage EXCEPT ![id] = NoToken]
               /\ idMap' = [idMap EXCEPT ![id] = NoPsk]
          ELSE UNCHANGED <<storage, idMap>>
    <2>1. PICK outcome \in Outcomes("DELETE") :
           /\ storage' = IF Kept(outcome) THEN [storage EXCEPT ![id] = NoToken]
                         ELSE storage
           /\ IF Accepted(outcome)
              THEN idMap' = [idMap EXCEPT ![id] = NoPsk]
              ELSE UNCHANGED <<contentMap, idMap>>
      BY DEF DeletePsk
    <2>2. outcome \in {"done", "failed"}
      BY DEF Outcomes, HonestApplication
    <2> QED BY <2>1, <2>2 DEF Kept, Accepted
  <1>5. /\ storage \in Tokens /\ Listing(storage, nextContent)
        /\ idMap \in [Ids -> Psk]
    BY DEF Inv, TypeOK, ListInv, MapsOK
  <1>6. CASE outcome = "done"
    <2>1. /\ storage' = [storage EXCEPT ![id] = NoToken]
          /\ idMap' = [idMap EXCEPT ![id] = NoPsk]
      BY <1>4, <1>6
    <2>2. PsksOf(storage') = PsksOf(storage) \ {storage[id].psk}
      BY <1>2, <1>5, <2>1, DropPsks
    <2>3. LoadedInv'
      BY <1>1, <1>5, <2>1 DEF LoadedInv, Tokens, NoToken
    <2>4. MemoryInv'
      <3>1. ASSUME NEW j \in Ids, Live(j)'
            PROVE  j \in Listed(storage') /\ idMap'[j] = storage'[j].psk
        <4>1. j # id /\ idMap'[j] = idMap[j] /\ storage'[j] = storage[j]
          BY <1>5, <2>1, <3>1 DEF Live, Tokens
        <4> QED BY <1>1, <3>1, <4>1 DEF Live, Listed
      <3> QED BY <3>1 DEF MemoryInv, PsksOf
    <2>5. MadeInv' /\ DeadInv'
      BY <1>3, <2>2 DEF CareInv, MadeInv, DeadInv
    <2>6. PICK psk \in MadePsks : psk = storage[id].psk /\ psk \in PsksOf(storage)
      BY <1>2 DEF CareInv, MadeInv, PsksOf
    <2>7. Store!Remove(psk)
      BY <1>3, <2>2, <2>6, RemoveMoves
    <2>8. StoreMoves
      BY <2>7 DEF StoreMoves
    <2> QED BY <1>1, <2>3, <2>4, <2>5, <2>8 DEF CareInv
  <1>7. CASE outcome = "failed"
    <2>1. UNCHANGED <<idMap, storage>>
      BY <1>4, <1>7
    <2>2. LoadedInv' /\ MemoryInv' /\ MadeInv' /\ DeadInv'
      BY <1>3, <2>1 DEF CareInv, LoadedInv, MemoryInv, MadeInv, DeadInv, Live
    <2>3. Store!Refuse
      BY <1>3, <2>1, RefuseMoves DEF Inv, TypeOK
    <2> QED BY <1>1, <2>2, <2>3 DEF CareInv, StoreMoves
  <1> QED BY <1>6, <1>7

LEMMA UpdateCare ==
  ASSUME PskManagerAssumption, HonestApplication, Inv, CareInv, Inv',
         NEW i \in Ids, NEW d, UpdatePsk(i, d),
         \A t \in Threads : pc'[t] = "loading" => pc[t] = "loading"
  PROVE  CareInv' /\ StoreMoves
  <1> DEFINE id == Target(i, d)
  <1>1. /\ id \in Ids /\ Live(id) /\ idMap[id] \in Psk
        /\ nextContent \in Contents /\ nextContent' = nextContent + 1
        /\ idMap \in [Ids -> Psk]
    BY TargetOK DEF UpdatePsk, Inv, TypeOK, MapsOK
  <1>2. /\ loaded /\ UnderWayInv'
        /\ \A j \in Ids : /\ Live(j) <=> j \in Listed(storage)
                          /\ idMap[j] = storage[j].psk
    BY ChangerFacts DEF UpdatePsk
  <1>3. UNCHANGED <<options, now, loaded>> /\ MayChange
    BY DEF UpdatePsk
  <1>4. PICK old \in MadePsks : old = idMap[id] /\ old \in PsksOf(storage)
    <2>1. idMap[id] \in PsksOf(storage)
      BY <1>1, <1>2 DEF PsksOf
    <2> QED BY <2>1 DEF CareInv, MadeInv
  <1>5. PICK psk \in MadePsks :
          psk = [old EXCEPT !.content = nextContent, !.end = now + old.valid]
    <2>1. old.valid \in ValidTimes /\ now \in 0..MaxTime
      BY DEF MadePsks, CareInv, MadeInv
    <2>2. now + old.valid \in Ends
      BY <2>1, EndsFacts
    <2> QED BY <1>1, <2>1, <2>2 DEF MadePsks
  <1>6. /\ psk.content = nextContent /\ psk.valid = old.valid
        /\ nextContent \in Nat \ {0} /\ nextContent' \in Nat
        /\ old.content \in 1..(nextContent - 1)
    <2>1. psk.content = nextContent /\ psk.valid = old.valid
      BY <1>5 DEF MadePsks
    <2>2. old.content \in Contents /\ old.content < nextContent
      BY <1>1, <1>4 DEF Inv, LiveInv
    <2> QED BY <1>1, <2>1, <2>2 DEF Contents
  <1>7. PICK outcome \in {"done", "failed"} :
          IF outcome = "done"
          THEN /\ storage' = [storage EXCEPT ![id] = Token(id, psk)]
               /\ idMap' = [idMap EXCEPT ![id] = psk]
               /\ dead' = dead \cup {old.content}
          ELSE UNCHANGED <<storage, idMap, dead>>
    <2>1. PICK outcome \in Outcomes("UPDATE") :
           /\ storage' = IF Kept(outcome)
                         THEN [storage EXCEPT ![id] = Token(id, psk)] ELSE storage
           /\ IF Accepted(outcome)
              THEN /\ idMap' = [idMap EXCEPT ![id] = psk]
                   /\ dead' = dead \cup {old.content}
              ELSE UNCHANGED <<idMap, contentMap, dead>>
      BY <1>4, <1>5 DEF UpdatePsk, StorageAfterUpdate
    <2>2. outcome \in {"done", "failed"}
      BY DEF Outcomes, HonestApplication
    <2> HIDE DEF id
    <2> QED BY <2>1, <2>2 DEF Kept, Accepted
  <1>8. storage \in Tokens /\ Listing(storage, nextContent)
    BY DEF Inv, TypeOK, ListInv
  <1> HIDE DEF id
  <1>9. CASE outcome = "done"
    <2>1. LoadedInv' /\ MemoryInv'
      <3>1. storage' = [storage EXCEPT ![id] =
                          [psk |-> psk, id |-> id, dom |-> options.dom]]
        BY <1>7, <1>9 DEF Token
      <3>2. idMap' = [idMap EXCEPT ![id] = psk]
        BY <1>7, <1>9
      <3> QED BY <1>1, <1>3, <3>1, <3>2, PutCare
    <2>2. PsksOf(storage') = (PsksOf(storage) \ {old}) \cup {psk}
      <3>1. PICK token \in TokenType : token = Token(id, psk)
        BY <1>1, MadeFacts, TokenOK DEF Inv
      <3>2. token # NoToken /\ token.psk = psk
        BY <3>1, MadeFacts DEF Token, NoToken
      <3>3. storage' = [storage EXCEPT ![id] = token]
        BY <1>7, <1>9, <3>1
      <3>4. id \in Listed(storage) /\ storage[id].psk = old
        BY <1>1, <1>2, <1>4
      <3>5. PICK j \in Ids : j = id
        BY <1>1
      <3>6. PsksOf([storage EXCEPT ![j] = token]) =
              (PsksOf(storage) \ {storage[j].psk}) \cup {token.psk}
        BY <1>8, <3>2, <3>4, <3>5, PutPsks
      <3> QED BY <3>2, <3>3, <3>4, <3>5, <3>6
    <2>3. MadeInv'
      BY <1>3, <2>2 DEF CareInv, MadeInv
    <2>4. \A p \in PsksOf(storage') : p.content # old.content
      <3>1. \A p \in PsksOf(storage) : p.content = old.content => p = old
        BY <1>4, <1>8 DEF PsksOf, Listing
      <3> QED BY <1>6, <2>2, <3>1
    <2>5. DeadInv'
      BY <1>1, <1>6, <1>7, <1>9, <2>2, <2>4, DeadStays DEF CareInv
    <2>6. Store!Replace(old, psk)
      BY <1>1, <1>3, <1>4, <1>6, <2>2, ReplaceMoves
    <2>7. StoreMoves
      BY <1>4, <2>6 DEF StoreMoves
    <2> QED BY <1>2, <2>1, <2>3, <2>5, <2>7 DEF CareInv
  <1>10. CASE outcome = "failed"
    <2>1. UNCHANGED <<idMap, storage, dead>>
      BY <1>7, <1>10
    <2>2. LoadedInv' /\ MemoryInv' /\ MadeInv'
      BY <1>3, <2>1 DEF CareInv, LoadedInv, MemoryInv, MadeInv, Live
    <2>3. DeadInv'
      BY <1>1, <1>6, <2>1, DeadStays DEF CareInv
    <2>4. Store!Refuse
      BY <1>1, <1>3, <1>6, <2>1, RefuseMoves
    <2> QED BY <1>2, <2>2, <2>3, <2>4 DEF CareInv, StoreMoves
  <1> QED BY <1>9, <1>10

LEMMA LoadCare ==
  ASSUME PskManagerAssumption, HonestApplication, Inv, CareInv, Inv',
         NEW t \in Threads, LoadAllPsk(t)
  PROVE  CareInv' /\ StoreMoves
  <1> DEFINE tokens == Renumbered(list[t])
             count  == Cardinality(Listed(list[t]))
  <1>1. PICK n \in 0..count :
          /\ idMap' = [r \in Ids |-> IF r \in 1..n THEN tokens[r].psk ELSE NoPsk]
          /\ loaded' = (n = count)
          /\ storage' = IF n = count THEN tokens ELSE storage
    BY DEF LoadAllPsk
  <1>2. /\ PsksOf(tokens) = PsksOf(list[t]) /\ Listed(tokens) \subseteq 1..count
    BY RenumberedPsks DEF Inv, TypeOK, ThreadsOK, ListInv, HonestApplication
  <1>3. PsksOf(list[t]) = PsksOf(storage)
    BY DEF LoadAllPsk, CareInv, UnderWayInv
  <1> HIDE DEF tokens, count
  <1>4. PsksOf(storage') = PsksOf(storage)
    BY <1>1, <1>2, <1>3
  <1>5. LoadedInv'
    <2>1. \A r \in Ids : r \notin 1..count => tokens[r].psk = NoPsk
      BY <1>2 DEF Listed, NoToken
    <2> QED BY <1>1, <2>1 DEF LoadedInv
  <1>6. MemoryInv'
    <2>1. ASSUME NEW r \in Ids, Live(r)' PROVE idMap'[r] \in PsksOf(tokens)
      <3>1. idMap'[r] = tokens[r].psk /\ tokens[r].psk # NoPsk
        BY <1>1, <2>1 DEF Live
      <3>2. r \in Listed(tokens)
        BY <3>1 DEF Listed, NoToken
      <3> QED BY <3>1, <3>2 DEF PsksOf
    <2> QED BY <1>2, <1>3, <1>4, <2>1 DEF MemoryInv
  <1>7. UnderWayInv'
    <2>1. \A u \in Threads : pc'[u] = "loading" =>
            pc[u] = "loading" /\ list'[u] = list[u]
      BY DEF LoadAllPsk, Inv, TypeOK, ThreadsOK
    <2> QED BY <1>4, <2>1 DEF CareInv, UnderWayInv
  <1>8. MadeInv' /\ DeadInv'
    BY <1>4 DEF LoadAllPsk, CareInv, MadeInv, DeadInv
  <1>9. Store!Restart
    <2>1. options'.max \in Nat
      BY DEF Inv, TypeOK, Options
    <2> QED BY <1>4, <2>1, RestartMoves DEF LoadAllPsk
  <1> QED BY <1>5, <1>6, <1>7, <1>8, <1>9 DEF CareInv, StoreMoves

LEMMA InitCare == PskManagerAssumption /\ Init => CareInv
  <1> SUFFICES ASSUME PskManagerAssumption, Init PROVE CareInv
    OBVIOUS
  <1>1. \A id \in Ids : storage[id] = NoToken /\ idMap[id] = NoPsk
    BY DEF Init
  <1>2. PsksOf(storage) = {} /\ LoadedInv /\ MemoryInv
    BY <1>1 DEF PsksOf, Listed, LoadedInv, MemoryInv, Live, NoToken
  <1>3. UnderWayInv
    BY DEF Init, UnderWayInv
  <1>4. MadeInv /\ DeadInv
    BY <1>2 DEF Init, MadeInv, DeadInv, PskManagerAssumption
  <1> QED BY <1>2, <1>3, <1>4 DEF CareInv

\* A step that leaves both the PSKs and the options is a step of PskStore.
LEMMA QuietMoves ==
  ASSUME HonestApplication, Inv, CareInv,
         UNCHANGED <<options, idMap, storage, nextContent, loaded, dead>>,
         now' \in 0..MaxTime,
         \A t \in Threads : pc'[t] = "loading" =>
           list'[t] = storage \/ (pc[t] = "loading" /\ list'[t] = list[t])
  PROVE  CareInv' /\ StoreMoves
  <1>1. CareInv' /\ PsksOf(storage') = PsksOf(storage)
    BY QuietCare
  <1>2. Store!Refuse
    BY <1>1, RefuseMoves DEF Inv, TypeOK
  <1> QED BY <1>1, <1>2 DEF StoreMoves

LEMMA CareStep ==
  ASSUME PskManagerAssumption, HonestApplication, Inv, CareInv, Inv', [Next]_vars
  PROVE  CareInv' /\ StoreMoves
  <1> DEFINE Goal == CareInv' /\ StoreMoves
  <1>0. /\ options'.max \in Nat /\ options.max \in Nat
        /\ now \in 0..MaxTime /\ nextContent \in Nat
    BY DEF Inv, TypeOK, Options, CareInv, MadeInv
  <1>1. CASE Crash
    <2>1. CareInv' /\ PsksOf(storage') = PsksOf(storage)
      BY <1>1, ClearedCare DEF Crash
    <2>2. Store!Restart
      BY <1>0, <1>1, <2>1, RestartMoves DEF Crash
    <2> QED BY <2>1, <2>2 DEF StoreMoves
  <1>2. CASE Tick
    <2>1. now' \in 0..MaxTime
      BY <1>0, <1>2 DEF Tick, PskManagerAssumption
    <2> QED BY <1>2, <2>1, QuietMoves DEF Tick, mapVars, threadVars
  <1>3. CASE KmByOthers
    BY <1>0, <1>3, QuietMoves DEF KmByOthers, mapVars, threadVars
  <1>4. ASSUME NEW opt, PskInit(opt)
        PROVE  Goal
    <2>1. CareInv' /\ PsksOf(storage') = PsksOf(storage)
      BY <1>0, <1>4, QuietCare DEF PskInit, mapVars, threadVars
    <2>2. Store!Restart
      BY <1>0, <1>4, <2>1, RestartMoves DEF PskInit
    <2> QED BY <2>1, <2>2 DEF StoreMoves
  <1>5. CASE UnInit
    <2>1. CASE initCount = 1
      <3>1. CareInv' /\ PsksOf(storage') = PsksOf(storage)
        BY <1>5, <2>1, ClearedCare DEF UnInit, threadVars
      <3>2. Store!Restart
        BY <1>0, <1>5, <3>1, RestartMoves DEF UnInit
      <3> QED BY <3>1, <3>2 DEF StoreMoves
    <2>2. CASE initCount # 1
      BY <1>0, <1>5, <2>2, QuietMoves DEF UnInit, mapVars, threadVars
    <2> QED BY <2>1, <2>2
  <1>6. ASSUME NEW valid \in ValidTimes, NEW begin \in BeginTimes,
               GeneratePsk(valid, begin)
        PROVE  Goal
    BY <1>6, AddCare DEF GeneratePsk
  <1>7. ASSUME NEW valid \in ValidTimes, NEW begin \in BeginTimes,
               NEW content \in Contents, ImportPsk(content, valid, begin)
        PROVE  Goal
    <2>1. /\ nextContent \in Contents /\ nextContent' = nextContent + 1
          /\ AddPsk(nextContent, valid, begin)
      BY <1>7 DEF ImportPsk, HonestApplication
    <2> QED BY <2>1, AddCare
  <1>8. ASSUME NEW id \in Ids, DeletePsk(id)
        PROVE  Goal
    BY <1>8, DeleteCare
  <1>9. ASSUME NEW id \in Ids, NEW c, Update(id, c)
        PROVE  Goal
    BY <1>9, UpdateCare DEF Update, threadVars
  <1>10. ASSUME NEW t \in Threads, NEW id \in Ids, AutoCheck(t, id)
         PROVE  Goal
    <2>1. \A u \in Threads : pc'[u] = "loading" => pc[u] = "loading"
      BY <1>10 DEF AutoCheck, Inv, TypeOK, ThreadsOK
    <2> QED BY <1>0, <1>10, <2>1, QuietMoves DEF AutoCheck, mapVars
  <1>11. ASSUME NEW t \in Threads, AutoUpdate(t)
         PROVE  Goal
    <2>1. /\ \A u \in Threads : pc'[u] = "loading" => pc[u] = "loading"
          /\ found[t] \in Ids /\ list' = list
      BY <1>11 DEF AutoUpdate, Inv, TypeOK, ThreadsOK
    <2>2. CASE UpdatePsk(found[t], 0)
      <3>1. PICK id \in Ids : id = found[t]
        BY <2>1
      <3>2. UpdatePsk(id, 0)
        BY <2>2, <3>1
      <3> QED BY <2>1, <3>2, UpdateCare
    <2>3. CASE UNCHANGED <<options, initCount, mapVars, km, storage, now,
                           nextContent, loaded, dead>>
      BY <1>0, <2>1, <2>3, QuietMoves DEF mapVars
    <2> QED BY <1>11, <2>2, <2>3 DEF AutoUpdate
  <1>12. ASSUME NEW t \in Threads, LoadCheck(t)
         PROVE  Goal
    <2>1. \A u \in Threads : pc'[u] = "loading" =>
            list'[u] = storage \/ (pc[u] = "loading" /\ list'[u] = list[u])
      BY <1>12 DEF LoadCheck, Inv, TypeOK, ThreadsOK
    <2> QED BY <1>0, <1>12, <2>1, QuietMoves DEF LoadCheck, mapVars
  <1>13. ASSUME NEW t \in Threads, LoadAllPsk(t)
         PROVE  Goal
    BY <1>13, LoadCare
  <1>14. CASE UNCHANGED vars
    BY <1>0, <1>14, QuietMoves DEF vars, mapVars
  <1> QED BY <1>1, <1>2, <1>3, <1>4, <1>5, <1>6, <1>7, <1>8, <1>9, <1>10,
             <1>11, <1>12, <1>13, <1>14 DEF Next

\* What both PskManager and the application's storage keep, together.
THEOREM CareHolds ==
  ASSUME HonestApplication
  PROVE  Spec => [](Inv /\ CareInv)
  <1>1. Spec => []Inv
    BY InvHolds, PskManagerAssumption DEF HonestApplication, PskManagerAssumption
  <1>2. Init => CareInv
    BY InitCare, PskManagerAssumption
  <1>3. Inv /\ CareInv /\ Inv' /\ [Next]_vars => CareInv'
    BY CareStep, PskManagerAssumption
  <1> QED BY <1>1, <1>2, <1>3, PTL DEF Spec

\* An application that is told the truth by its callbacks, loads its storage
\* before it changes anything and changes nothing while it loads finds in it
\* exactly the PSKs in memory, under their ids, through any failed callback,
\* crash, rotation and renumbering load.
THEOREM StorageIsMemory ==
  ASSUME HonestApplication
  PROVE  Spec => []StorageMatchesMemory
  <1>1. CareInv => StorageMatchesMemory
    BY DEF CareInv, LoadedInv, StorageMatchesMemory
  <1> QED BY <1>1, CareHolds, PTL

\* For the same application whatever PSK is in memory is in storage: a load
\* that failed half-way, or went on after UnInit, leaves nothing else.
THEOREM MemoryStaysStored ==
  ASSUME HonestApplication
  PROVE  Spec => []MemoryIsStored
  <1>1. MemoryInv => MemoryIsStored
    BY DEF MemoryInv, PsksOf, Listed, MemoryIsStored, StoredIds, Stored
  <1> QED BY <1>1, CareHolds, PTL DEF CareInv

\* Content that UpdatePsk replaced never comes back, not with a load of what
\* the application read earlier and not after a crash.
THEOREM RotatedStaysDead ==
  ASSUME HonestApplication
  PROVE  Spec => []RotatedContentIsDead
  <1>1. Inv /\ CareInv => RotatedContentIsDead
    <2> SUFFICES ASSUME Inv, CareInv, NEW c \in dead
                 PROVE  /\ \A id \in Ids : idMap[id].content # c
                        /\ \A id \in Ids : storage[id].psk.content # c
                        /\ contentMap[c] = NoId
      BY DEF RotatedContentIsDead
    <2>1. c # 0 /\ \A psk \in PsksOf(storage) : psk.content # c
      BY DEF CareInv, DeadInv, Inv, TypeOK
    <2>2. ASSUME NEW id \in Ids PROVE idMap[id].content # c
      <3>1. CASE Live(id)
        BY <2>1, <3>1 DEF CareInv, MemoryInv
      <3>2. CASE ~Live(id)
        BY <2>1, <3>2 DEF Live, NoPsk
      <3> QED BY <3>1, <3>2
    <2>3. ASSUME NEW id \in Ids PROVE storage[id].psk.content # c
      <3>1. CASE id \in Listed(storage)
        BY <2>1, <3>1 DEF PsksOf
      <3>2. CASE id \notin Listed(storage)
        BY <2>1, <3>2 DEF Listed, NoToken, NoPsk
      <3> QED BY <3>1, <3>2
    <2>4. contentMap[c] = NoId
      <3>1. c \in Contents
        BY DEF CareInv, DeadInv
      <3> QED BY <2>2, <3>1 DEF Inv, MapsAgree, TypeOK, MapsOK
    <2> QED BY <2>2, <2>3, <2>4
  <1> QED BY <1>1, CareHolds, PTL

LEMMA StoreStep ==
  ASSUME StoreMoves, Store!Serve
  PROVE  Store!Next
  <1>1. PsksOf(storage) = {storage[id].psk : id \in StoredIds}
    BY DEF PsksOf, Listed, StoredIds, Stored
  <1>2. CASE Store!Refuse \/ Store!Restart
    BY <1>2 DEF Store!Next
  <1>3. ASSUME NEW psk \in MadePsks,
               \/ Store!Add(psk) \/ Store!Remove(psk)
               \/ \E old \in PsksOf(storage) : Store!Replace(old, psk)
        PROVE  Store!Next
    BY <1>1, <1>3 DEF Store!Next, MadePsks, Ends
  <1> QED BY <1>2, <1>3 DEF StoreMoves

\* Seen through the refinement mapping every step of PskManager, with its
\* ids, renumbering loads, failed callbacks and restarts, is a step of the
\* abstract store or leaves it as it was: no restart loses, doubles or brings
\* back a PSK, and the service never offers a part of the set.
THEOREM PskStoreIsImplemented ==
  ASSUME HonestApplication
  PROVE  Spec => ImplementsPskStore
  <1>1. Init => Store!Init
    <2> SUFFICES ASSUME Init PROVE Store!Init
      OBVIOUS
    <2>1. {storage[id].psk : id \in StoredIds} = {} /\ ~CheckInited
      BY DEF Init, StoredIds, Stored, CheckInited
    <2>2. options.max \in Nat
      BY PskManagerAssumption DEF Init, DefaultOptions, PskManagerAssumption
    <2>3. 1..(nextContent - 1) = {}
      BY DEF Init
    <2> QED BY <2>1, <2>2, <2>3 DEF Store!Init
  <1>2. Inv /\ CareInv /\ Inv' /\ CareInv' /\ [Next]_vars => Store!Next
    <2> SUFFICES ASSUME Inv, CareInv, Inv', CareInv', [Next]_vars
                 PROVE  Store!Next
      OBVIOUS
    <2>1. StoreMoves
      BY CareStep, PskManagerAssumption
    <2>2. Store!Serve
      BY ServeHolds DEF CareInv
    <2> QED BY <2>1, <2>2, StoreStep
  <1> QED BY <1>1, <1>2, CareHolds, PTL DEF Spec, ImplementsPskStore, Store!Spec

=============================================================================
