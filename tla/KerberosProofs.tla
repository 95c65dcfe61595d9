--------------------------- MODULE KerberosProofs ---------------------------
(***************************************************************************)
(* Proofs about Kerberos for any number of objects and calls: nothing      *)
(* leaks, the shared keytab keeps what it should, and the key taken from a *)
(* file is the newest one, for as many changes of keys as one byte of a    *)
(* version can tell apart.                                                 *)
(***************************************************************************)
EXTENDS Kerberos, FiniteSetTheorems, TLAPS

-----------------------------------------------------------------------------
(* The inductive invariant.                                                *)

FieldsTyped ==
  /\ held \in [Objects -> SUBSET Fields]
  /\ DOMAIN entry = Objects /\ DOMAIN made = Clients
  /\ leaky \subseteq Objects /\ reused \subseteq Objects

\* A server deletes its security context before ServerAuth returns.
NoContextKept == \A s \in Servers : "gssctx" \notin held[s]

EntriesOwned ==
  /\ \A o \in Objects : entry[o].owner = o
  /\ \A e \in memKeytab : e.owner \in Objects

LiveKeysThere == \A o \in Objects : "entry" \in held[o] => entry[o] \in memKeytab

OthersGone ==
  \A e \in memKeytab : e.owner \notin reused =>
    "entry" \in held[e.owner] /\ e = entry[e.owner]

Inv ==
  /\ FieldsTyped /\ NoContextKept /\ EntriesOwned /\ OnlyReuseLeaks
  /\ EntryHasKeytab /\ LiveKeysThere /\ OthersGone
  /\ SuccessMeansAccepted /\ CredsLastUntilAuth

-----------------------------------------------------------------------------
(* What the Init calls overwrite.                                          *)

Names == {"clientName", "serviceName"}

\* The first fields are the krb5 ones, keytabEntry_ the fourth of them; the
\* name of the service comes last.
LEMMA ClientFirst ==
  ASSUME NEW k \in 0..Len(ClientOrder)
  PROVE  /\ First(ClientOrder, k) \subseteq KrbCtxFields \cup Names
         /\ k < Found => "entry" \notin First(ClientOrder, k)
         /\ k < Len(ClientOrder) => "serviceName" \notin First(ClientOrder, k)
         /\ k = Len(ClientOrder) => "serviceName" \in First(ClientOrder, k)
         /\ k > Found => {"context", "keytab", "entry"} \subseteq First(ClientOrder, k)
<1>1. Len(ClientOrder) = 8
  BY DEF ClientOrder
<1>2. \A i \in 1..k : ClientOrder[i] \in KrbCtxFields \cup Names
  BY <1>1 DEF ClientOrder, KrbCtxFields, Names
<1>3. k < Found => \A i \in 1..k : ClientOrder[i] # "entry"
  BY <1>1 DEF ClientOrder, Found
<1>4. k < 8 => \A i \in 1..k : ClientOrder[i] # "serviceName"
  BY <1>1 DEF ClientOrder
<1>5. k = 8 => ClientOrder[8] = "serviceName" /\ 8 \in 1..k
  BY <1>1 DEF ClientOrder
<1>6. k > Found => /\ 1 \in 1..k /\ 3 \in 1..k /\ 4 \in 1..k
                   /\ ClientOrder[1] = "context" /\ ClientOrder[3] = "keytab"
                   /\ ClientOrder[4] = "entry"
  BY <1>1 DEF ClientOrder, Found
<1>7. QED
  BY <1>1, <1>2, <1>3, <1>4, <1>5, <1>6 DEF First

LEMMA ServerFirst ==
  ASSUME NEW k \in 0..Len(ServerOrder)
  PROVE  /\ First(ServerOrder, k) \subseteq KrbCtxFields \cup Names
         /\ k < Found => "entry" \notin First(ServerOrder, k)
         /\ k >= Found => {"context", "keytab", "entry"} \subseteq First(ServerOrder, k)
<1>1. Len(ServerOrder) = 5
  BY DEF ServerOrder
<1>2. \A i \in 1..k : ServerOrder[i] \in KrbCtxFields \cup Names
  BY <1>1 DEF ServerOrder, KrbCtxFields, Names
<1>3. k < Found => \A i \in 1..k : ServerOrder[i] # "entry"
  BY <1>1 DEF ServerOrder, Found
<1>4. k >= Found => /\ 1 \in 1..k /\ 3 \in 1..k /\ 4 \in 1..k
                    /\ ServerOrder[1] = "context" /\ ServerOrder[3] = "keytab"
                    /\ ServerOrder[4] = "entry"
  BY <1>1 DEF ServerOrder, Found
<1>5. QED
  BY <1>1, <1>2, <1>3, <1>4 DEF First

\* A failed Init call leaves nothing that was not there; of what was, it
\* leaves no name that it overwrote.
LEMMA FailureLeavesLess ==
  ASSUME NEW fields, NEW order, NEW k \in Nat \ {0},
         First(order, k) \subseteq KrbCtxFields \cup Names,
         First(order, k - 1) \subseteq First(order, k),
         k <= Found => "entry" \notin First(order, k - 1)
  PROVE  /\ AfterFailure(fields, order, k) \subseteq fields
         /\ "entry" \in AfterFailure(fields, order, k) => k <= Found
         /\ AfterFailure(fields, order, k) \cap First(order, k) = {}
<1>1. DEFINE now == (fields \ First(order, k)) \cup First(order, k - 1)
<1>2. AfterFailure(fields, order, k) \subseteq
        now \ ((KrbCtxFields \ {"entry"}) \cup (First(order, k) \cap GssFields))
  BY DEF AfterFailure, KerberosUninit, KerberosDestroyKeytab
<1>3. "entry" \in AfterFailure(fields, order, k) => k <= Found
  BY DEF AfterFailure, KerberosUninit, KerberosDestroyKeytab, Found
<1>4. Names \subseteq GssFields
  BY DEF Names, GssFields
<1>5. ASSUME NEW f \in AfterFailure(fields, order, k), f \in First(order, k)
      PROVE  FALSE
  <2>1. f \in KrbCtxFields
    BY <1>2, <1>4, <1>5
  <2>2. f = "entry"
    BY <1>2, <1>5, <2>1
  <2>3. f \in First(order, k - 1)
    BY <1>2, <1>5
  <2>4. QED
    BY <1>3, <1>5, <2>2, <2>3
<1>6. AfterFailure(fields, order, k) \cap First(order, k) = {}
  BY <1>5
<1>7. AfterFailure(fields, order, k) \subseteq fields
  BY <1>2, <1>6
<1>8. QED
  BY <1>3, <1>6, <1>7
-----------------------------------------------------------------------------
(* The effect of Init calls on the invariant.                              *)

KeyVars == <<entry, memKeytab>>

\* An object that was not reused held nothing when its Init call began.
LEMMA CountFacts ==
  ASSUME Inv, NEW o \in Objects, NEW lost, Count(o, lost), "out" \notin lost
  PROVE  /\ OnlyReuseLeaks' /\ leaky' \subseteq Objects /\ reused' \subseteq Objects
         /\ reused \subseteq reused'
         /\ o \notin reused' => held[o] \subseteq {"out"}
  BY DEF Inv, Count, OnlyReuseLeaks, FieldsTyped

\* A call that only frees disturbs nothing.
LEMMA FailedInit ==
  ASSUME Inv, NEW o \in Objects, NEW left \in SUBSET held[o],
         held' = [held EXCEPT ![o] = left], UNCHANGED KeyVars,
         reused \subseteq reused', o \notin reused' => held[o] \subseteq {"out"}
  PROVE  /\ held' \in [Objects -> SUBSET Fields] /\ DOMAIN entry' = Objects
         /\ NoContextKept' /\ EntriesOwned' /\ EntryHasKeytab'
         /\ LiveKeysThere' /\ OthersGone'
<1>1. /\ held \in [Objects -> SUBSET Fields] /\ DOMAIN entry = Objects
      /\ entry' = entry /\ memKeytab' = memKeytab
  BY DEF Inv, FieldsTyped, KeyVars
<1>2. \A x \in Objects : held'[x] = IF x = o THEN left ELSE held[x]
  BY <1>1
<1>3. \A x \in Objects : held'[x] \subseteq held[x]
  BY <1>2
<1>4. held' \in [Objects -> SUBSET Fields] /\ DOMAIN entry' = Objects
  BY <1>1
<1>5. NoContextKept'
  BY <1>3 DEF Inv, NoContextKept, Objects
<1>6. EntriesOwned'
  BY <1>1 DEF Inv, EntriesOwned
<1>7. EntryHasKeytab'
  BY <1>2, <1>3 DEF Inv, EntryHasKeytab
<1>8. LiveKeysThere'
  BY <1>1, <1>3 DEF Inv, LiveKeysThere
<1>9. OthersGone'
  <2> SUFFICES ASSUME NEW e \in memKeytab, e.owner \notin reused'
               PROVE  "entry" \in held'[e.owner] /\ e = entry[e.owner]
    BY <1>1 DEF OthersGone
  <2>1. e.owner \in Objects /\ "entry" \in held[e.owner] /\ e = entry[e.owner]
    BY DEF Inv, OthersGone, EntriesOwned
  <2>2. e.owner # o
    BY <2>1
  <2>3. QED
    BY <1>2, <2>1, <2>2
<1>10. QED
  BY <1>4, <1>5, <1>6, <1>7, <1>8, <1>9

\* A call that adds an entry holds the keytab it added it to.
LEMMA EndedInit ==
  ASSUME Inv, NEW o \in Objects, NEW now \in SUBSET Fields,
         {"context", "keytab", "entry"} \subseteq now, "gssctx" \notin now,
         held' = [held EXCEPT ![o] = now], AddEntry(o),
         reused \subseteq reused', o \notin reused' => held[o] \subseteq {"out"}
  PROVE  /\ held' \in [Objects -> SUBSET Fields] /\ DOMAIN entry' = Objects
         /\ NoContextKept' /\ EntriesOwned' /\ EntryHasKeytab'
         /\ LiveKeysThere' /\ OthersGone'
<1>1. /\ held \in [Objects -> SUBSET Fields] /\ DOMAIN entry = Objects
      /\ entry' = [entry EXCEPT ![o] = NewEntry(o)]
      /\ memKeytab' = memKeytab \cup {NewEntry(o)}
      /\ NewEntry(o).owner = o
  BY DEF Inv, FieldsTyped, AddEntry, NewEntry
<1>2. \A x \in Objects : held'[x] = IF x = o THEN now ELSE held[x]
  BY <1>1
<1>3. \A x \in Objects : entry'[x] = IF x = o THEN NewEntry(o) ELSE entry[x]
  BY <1>1
<1>4. held' \in [Objects -> SUBSET Fields] /\ DOMAIN entry' = Objects
  BY <1>1
<1>5. NoContextKept'
  BY <1>2 DEF Inv, NoContextKept, Objects
<1>6. EntriesOwned'
  BY <1>1, <1>3 DEF Inv, EntriesOwned
<1>7. EntryHasKeytab'
  BY <1>2 DEF Inv, EntryHasKeytab
<1>8. LiveKeysThere'
  BY <1>1, <1>2, <1>3 DEF Inv, LiveKeysThere
<1>9. OthersGone'
  <2> SUFFICES ASSUME NEW e \in memKeytab', e.owner \notin reused'
               PROVE  "entry" \in held'[e.owner] /\ e = entry'[e.owner]
    BY DEF OthersGone
  <2>1. CASE e = NewEntry(o)
    BY <1>1, <1>2, <1>3, <2>1
  <2>2. CASE e \in memKeytab
    <3>1. e.owner \in Objects /\ "entry" \in held[e.owner] /\ e = entry[e.owner]
      BY <2>2 DEF Inv, OthersGone, EntriesOwned
    <3>2. e.owner # o
      BY <3>1
    <3>3. QED
      BY <1>2, <1>3, <3>1, <3>2
  <2>3. QED
    BY <1>1, <2>1, <2>2
<1>10. QED
  BY <1>4, <1>5, <1>6, <1>7, <1>8, <1>9

-----------------------------------------------------------------------------
(* Each action keeps the invariant.                                        *)

LEMMA FieldNames ==
  /\ KrbCtxFields \cup Names \subseteq Fields
  /\ {"cred", "gssctx", "out"} \subseteq Fields
  /\ "out" \notin KrbCtxFields \cup Names
  /\ "gssctx" \notin KrbCtxFields \cup Names
  BY DEF Fields, KrbCtxFields, GssFields, Names

LEMMA ClientFailureFacts ==
  ASSUME NEW fields, NEW k \in 1..Len(ClientOrder)
  PROVE  AfterFailure(fields, ClientOrder, k) \subseteq fields
<1>1. k \in Nat \ {0} /\ k \in 0..Len(ClientOrder) /\ k - 1 \in 0..Len(ClientOrder)
  BY DEF ClientOrder
<1>2. First(ClientOrder, k - 1) \subseteq First(ClientOrder, k)
  BY <1>1 DEF First
<1>3. First(ClientOrder, k) \subseteq KrbCtxFields \cup Names
  BY <1>1, ClientFirst
<1>4. k <= Found => "entry" \notin First(ClientOrder, k - 1)
  BY <1>1, ClientFirst DEF Found
<1>5. QED
  BY <1>1, <1>2, <1>3, <1>4, FailureLeavesLess

LEMMA ServerFailureFacts ==
  ASSUME NEW fields, NEW k \in 1..Len(ServerOrder)
  PROVE  AfterFailure(fields, ServerOrder, k) \subseteq fields
<1>1. k \in Nat \ {0} /\ k \in 0..Len(ServerOrder) /\ k - 1 \in 0..Len(ServerOrder)
  BY DEF ServerOrder
<1>2. First(ServerOrder, k - 1) \subseteq First(ServerOrder, k)
  BY <1>1 DEF First
<1>3. First(ServerOrder, k) \subseteq KrbCtxFields \cup Names
  BY <1>1, ServerFirst
<1>4. k <= Found => "entry" \notin First(ServerOrder, k - 1)
  BY <1>1, ServerFirst DEF Found
<1>5. QED
  BY <1>1, <1>2, <1>3, <1>4, FailureLeavesLess

\* What an Init call leaves alone, and the properties that follow at once.
LEMMA HandshakeKept ==
  ASSUME Inv, UNCHANGED handshakeVars
  PROVE  SuccessMeansAccepted' /\ DOMAIN made' = Clients
  BY DEF Inv, FieldsTyped, SuccessMeansAccepted, handshakeVars

LEMMA ClientInitInv ==
  ASSUME Inv, NEW c \in Clients, ClientInit(c)
  PROVE  Inv'
<1>1. c \in Objects /\ SuccessMeansAccepted' /\ DOMAIN made' = Clients
      /\ spent' = spent \ {c} /\ held \in [Objects -> SUBSET Fields]
  BY HandshakeKept DEF ClientInit, Objects, Inv, FieldsTyped
<1>2. ASSUME NEW k \in 1..Len(ClientOrder)
      PROVE  "out" \notin ClientReset \cup First(ClientOrder, k)
  <2>1. k \in 0..Len(ClientOrder)
    BY DEF ClientOrder
  <2>2. First(ClientOrder, k) \subseteq KrbCtxFields \cup Names
    BY <2>1, ClientFirst
  <2>3. QED
    BY <2>2, FieldNames DEF ClientReset
<1>3. CASE ClientInitFails(c)
  <2>1. PICK k \in 1..Len(ClientOrder) :
          /\ held' = [held EXCEPT ![c] =
                        AfterFailure(held[c] \ ClientReset, ClientOrder, k)]
          /\ NoEntryAdded(c, k)
          /\ Count(c, ClientReset \cup First(ClientOrder, k))
    BY <1>3 DEF ClientInitFails
  <2> DEFINE left == AfterFailure(held[c] \ ClientReset, ClientOrder, k)
  <2>2. left \in SUBSET held[c]
    <3>1. left \subseteq held[c] \ ClientReset
      BY ClientFailureFacts
    <3>2. QED
      BY <3>1
  <2>3. /\ OnlyReuseLeaks' /\ leaky' \subseteq Objects /\ reused' \subseteq Objects
        /\ reused \subseteq reused'
        /\ c \notin reused' => held[c] \subseteq {"out"}
    BY <1>1, <1>2, <2>1, CountFacts
  <2>4. UNCHANGED KeyVars /\ held' = [held EXCEPT ![c] = left]
    BY <2>1 DEF NoEntryAdded, KeyVars
  <2>5. /\ held' \in [Objects -> SUBSET Fields] /\ DOMAIN entry' = Objects
        /\ NoContextKept' /\ EntriesOwned' /\ EntryHasKeytab'
        /\ LiveKeysThere' /\ OthersGone'
    <3> HIDE DEF left
    <3>1. QED
      BY <1>1, <2>2, <2>3, <2>4, FailedInit
  <2>6. CredsLastUntilAuth'
    <3> SUFFICES ASSUME NEW x \in Clients \ spent', "serviceName" \in held'[x],
                        x \notin reused'
                 PROVE  "cred" \in held'[x]
      BY DEF CredsLastUntilAuth
    <3>1. x \in Objects /\ held'[x] = IF x = c THEN left ELSE held[x]
      BY <1>1, <2>4 DEF Objects
    <3>2. x # c
      BY <2>2, <2>3, <3>1
    <3>3. QED
      BY <1>1, <2>3, <3>1, <3>2 DEF Inv, CredsLastUntilAuth
  <2>7. QED
    BY <1>1, <2>3, <2>5, <2>6 DEF Inv, FieldsTyped
<1>4. CASE ClientInitEnds(c)
  <2>1. PICK k \in {Len(ClientOrder) - 1, Len(ClientOrder)} :
          /\ held' = [held EXCEPT ![c] =
                        DeleteContext(held[c]) \cup First(ClientOrder, k) \cup {"cred"}]
          /\ AddEntry(c)
          /\ Count(c, ClientReset \cup First(ClientOrder, k))
    BY <1>4 DEF ClientInitEnds
  <2> DEFINE now == DeleteContext(held[c]) \cup First(ClientOrder, k) \cup {"cred"}
  <2>2. k \in 1..Len(ClientOrder) /\ k \in 0..Len(ClientOrder) /\ k > Found
    BY DEF ClientOrder, Found
  <2>3. now \in SUBSET Fields /\ {"context", "keytab", "entry"} \subseteq now
        /\ "gssctx" \notin now /\ "cred" \in now
    BY <1>1, <2>2, ClientFirst, FieldNames DEF DeleteContext
  <2>4. /\ OnlyReuseLeaks' /\ leaky' \subseteq Objects /\ reused' \subseteq Objects
        /\ reused \subseteq reused'
        /\ c \notin reused' => held[c] \subseteq {"out"}
    BY <1>1, <1>2, <2>1, <2>2, CountFacts
  <2>5. held' = [held EXCEPT ![c] = now]
    BY <2>1
  <2>6. /\ held' \in [Objects -> SUBSET Fields] /\ DOMAIN entry' = Objects
        /\ NoContextKept' /\ EntriesOwned' /\ EntryHasKeytab'
        /\ LiveKeysThere' /\ OthersGone'
    <3> HIDE DEF now
    <3>1. QED
      BY <1>1, <2>1, <2>3, <2>4, <2>5, EndedInit
  <2>7. CredsLastUntilAuth'
    <3> SUFFICES ASSUME NEW x \in Clients \ spent', "serviceName" \in held'[x],
                        x \notin reused'
                 PROVE  "cred" \in held'[x]
      BY DEF CredsLastUntilAuth
    <3>1. x \in Objects /\ held'[x] = IF x = c THEN now ELSE held[x]
      BY <1>1, <2>5 DEF Objects
    <3>2. QED
      BY <1>1, <2>3, <2>4, <3>1 DEF Inv, CredsLastUntilAuth
  <2>8. QED
    BY <1>1, <2>4, <2>6, <2>7 DEF Inv, FieldsTyped
<1>5. QED
  BY <1>3, <1>4 DEF ClientInit

\* The credentials of clients do not depend on what servers hold.
LEMMA ServerKeepsCreds ==
  ASSUME Inv, NEW s \in Servers, NEW now, held' = [held EXCEPT ![s] = now],
         UNCHANGED spent, reused \subseteq reused'
  PROVE  CredsLastUntilAuth'
<1>1. \A c \in Clients : c \in Objects /\ c # s
  BY KerberosAssumption DEF KerberosAssumption, Objects
<1>2. \A c \in Clients : held'[c] = held[c]
  BY <1>1 DEF Inv, FieldsTyped
<1>3. QED
  BY <1>2 DEF Inv, CredsLastUntilAuth

LEMMA ServerInitInv ==
  ASSUME Inv, NEW s \in Servers, ServerInit(s)
  PROVE  Inv'
<1>1. s \in Objects /\ SuccessMeansAccepted' /\ DOMAIN made' = Clients
      /\ spent' = spent /\ held \in [Objects -> SUBSET Fields]
      /\ "gssctx" \notin held[s]
  BY HandshakeKept DEF ServerInit, Objects, Inv, FieldsTyped, NoContextKept
<1>2. ASSUME NEW k \in 1..Len(ServerOrder), NEW i \in Nat
      PROVE  /\ First(ServerOrder, k) \subseteq Fields
             /\ "gssctx" \notin First(ServerOrder, k)
             /\ "out" \notin ServerReset(i) \cup First(ServerOrder, k)
             /\ k >= Found => {"context", "keytab", "entry"} \subseteq First(ServerOrder, k)
  <2>1. k \in 0..Len(ServerOrder)
    BY DEF ServerOrder
  <2>2. First(ServerOrder, k) \subseteq KrbCtxFields \cup Names
    BY <2>1, ServerFirst
  <2>3. k >= Found => {"context", "keytab", "entry"} \subseteq First(ServerOrder, k)
    BY <2>1, ServerFirst
  <2>4. "out" \notin ServerReset(i)
    BY DEF ServerReset
  <2>5. QED
    BY <2>2, <2>3, <2>4, FieldNames
<1>3. Found \in 1..Len(ServerOrder) /\ Len(ServerOrder) \in 1..Len(ServerOrder)
      /\ Found >= Found /\ Len(ServerOrder) >= Found /\ Found + 1 \in Nat
  BY DEF Found, ServerOrder
<1>4. CASE ServerInitFails(s)
  <2>1. PICK k \in 1..Len(ServerOrder) :
          /\ held' = [held EXCEPT ![s] =
                        AfterFailure(held[s] \ ServerReset(k), ServerOrder, k)]
          /\ NoEntryAdded(s, k)
          /\ Count(s, ServerReset(k) \cup First(ServerOrder, k))
    BY <1>4 DEF ServerInitFails
  <2> DEFINE left == AfterFailure(held[s] \ ServerReset(k), ServerOrder, k)
  <2>2. left \in SUBSET held[s]
    <3>1. left \subseteq held[s] \ ServerReset(k)
      BY ServerFailureFacts
    <3>2. QED
      BY <3>1
  <2>3. /\ OnlyReuseLeaks' /\ leaky' \subseteq Objects /\ reused' \subseteq Objects
        /\ reused \subseteq reused'
        /\ s \notin reused' => held[s] \subseteq {"out"}
    <3>1. k \in Nat
      BY DEF ServerOrder
    <3>2. QED
      BY <1>1, <1>2, <2>1, <3>1, CountFacts
  <2>4. UNCHANGED KeyVars /\ held' = [held EXCEPT ![s] = left]
    BY <2>1 DEF NoEntryAdded, KeyVars
  <2> HIDE DEF left
  <2>5. /\ held' \in [Objects -> SUBSET Fields] /\ DOMAIN entry' = Objects
        /\ NoContextKept' /\ EntriesOwned' /\ EntryHasKeytab'
        /\ LiveKeysThere' /\ OthersGone'
    BY <1>1, <2>2, <2>3, <2>4, FailedInit
  <2>6. CredsLastUntilAuth'
    BY <1>1, <2>3, <2>4, ServerKeepsCreds
  <2>7. QED
    BY <1>1, <2>3, <2>5, <2>6 DEF Inv, FieldsTyped
<1>5. ASSUME NEW now \in SUBSET Fields, NEW lost,
             {"context", "keytab", "entry"} \subseteq now, "gssctx" \notin now,
             held' = [held EXCEPT ![s] = now], AddEntry(s), Count(s, lost),
             "out" \notin lost
      PROVE  Inv'
  <2>1. /\ OnlyReuseLeaks' /\ leaky' \subseteq Objects /\ reused' \subseteq Objects
        /\ reused \subseteq reused'
        /\ s \notin reused' => held[s] \subseteq {"out"}
    BY <1>1, <1>5, CountFacts
  <2>2. /\ held' \in [Objects -> SUBSET Fields] /\ DOMAIN entry' = Objects
        /\ NoContextKept' /\ EntriesOwned' /\ EntryHasKeytab'
        /\ LiveKeysThere' /\ OthersGone'
    BY <1>1, <1>5, <2>1, EndedInit
  <2>3. CredsLastUntilAuth'
    BY <1>1, <1>5, <2>1, ServerKeepsCreds
  <2>4. QED
    BY <1>1, <2>1, <2>2, <2>3 DEF Inv, FieldsTyped
<1>6. CASE ServerInitStops(s)
  <2> DEFINE now == (held[s] \ ServerReset(Found + 1)) \cup First(ServerOrder, Found)
  <2>1. now \in SUBSET Fields /\ {"context", "keytab", "entry"} \subseteq now
        /\ "gssctx" \notin now
    BY <1>1, <1>2, <1>3
  <2>2. held' = [held EXCEPT ![s] = now]
    BY <1>6 DEF ServerInitStops
  <2>3. /\ AddEntry(s) /\ Count(s, ServerReset(Found + 1) \cup First(ServerOrder, Found))
        /\ "out" \notin ServerReset(Found + 1) \cup First(ServerOrder, Found)
    BY <1>2, <1>3, <1>6 DEF ServerInitStops
  <2> HIDE DEF now
  <2>4. QED
    BY <1>5, <2>1, <2>2, <2>3
<1>7. CASE ServerInitSucceeds(s)
  <2> DEFINE all == First(ServerOrder, Len(ServerOrder))
             now == DeleteContext(held[s]) \cup all \cup {"cred"}
  <2>1. now \in SUBSET Fields /\ {"context", "keytab", "entry"} \subseteq now
        /\ "gssctx" \notin now
    BY <1>1, <1>2, <1>3, FieldNames DEF DeleteContext
  <2>2. held' = [held EXCEPT ![s] = now]
    BY <1>7 DEF ServerInitSucceeds
  <2>3. /\ AddEntry(s) /\ Count(s, ServerReset(Found + 1) \cup all)
        /\ "out" \notin ServerReset(Found + 1) \cup all
    BY <1>2, <1>3, <1>7 DEF ServerInitSucceeds
  <2> HIDE DEF now, all
  <2>4. QED
    BY <1>5, <2>1, <2>2, <2>3
<1>8. QED
  BY <1>4, <1>6, <1>7 DEF ServerInit

\* The destructor takes away its own entry and no other.
LEMMA DestroyInv ==
  ASSUME Inv, NEW o \in Objects, Destroy(o)
  PROVE  Inv'
<1>1. /\ held \in [Objects -> SUBSET Fields] /\ held' = [held EXCEPT ![o] = {}]
      /\ memKeytab' = EntriesLeft(o) /\ entry' = entry /\ made' = made
      /\ reused' = reused /\ leaky' = leaky /\ spent' = spent
  BY DEF Inv, FieldsTyped, Destroy, handshakeVars
<1>2. \A x \in Objects : held'[x] = IF x = o THEN {} ELSE held[x]
  BY <1>1
<1>3. FieldsTyped'
  BY <1>1 DEF Inv, FieldsTyped
<1>4. NoContextKept' /\ OnlyReuseLeaks' /\ EntryHasKeytab' /\ CredsLastUntilAuth'
  BY <1>1, <1>2 DEF Inv, NoContextKept, OnlyReuseLeaks, EntryHasKeytab,
                    CredsLastUntilAuth, Objects
<1>5. EntriesOwned'
  BY <1>1 DEF Inv, EntriesOwned, EntriesLeft
<1>6. LiveKeysThere'
  <2> SUFFICES ASSUME NEW x \in Objects, "entry" \in held'[x]
               PROVE  entry[x] \in memKeytab'
    BY <1>1 DEF LiveKeysThere
  <2>1. x # o /\ entry[x] \in memKeytab
    BY <1>2 DEF Inv, LiveKeysThere
  <2>2. entry[x] # entry[o]
    BY <2>1 DEF Inv, EntriesOwned
  <2>3. QED
    BY <1>1, <2>1, <2>2 DEF EntriesLeft
<1>7. OthersGone'
  <2> SUFFICES ASSUME NEW e \in memKeytab', e.owner \notin reused
               PROVE  "entry" \in held'[e.owner] /\ e = entry[e.owner]
    BY <1>1 DEF OthersGone
  <2>1. e \in memKeytab /\ (e = entry[o] => ~({"entry", "keytab"} \subseteq held[o]))
    BY <1>1 DEF EntriesLeft
  <2>2. e.owner \in Objects /\ "entry" \in held[e.owner] /\ e = entry[e.owner]
    BY <2>1 DEF Inv, OthersGone, EntriesOwned
  <2>3. {"entry", "keytab"} \subseteq held[e.owner]
    BY <2>2 DEF Inv, EntryHasKeytab
  <2>4. e.owner # o
    BY <2>1, <2>2, <2>3
  <2>5. QED
    BY <1>2, <2>2, <2>4
<1>8. SuccessMeansAccepted'
  BY DEF Destroy, handshakeVars, Inv, SuccessMeansAccepted
<1>9. QED
  BY <1>3, <1>4, <1>5, <1>6, <1>7, <1>8 DEF Inv

\* The handshake changes the fields of one object, but none of its keytab's.
LEMMA GssStep ==
  ASSUME Inv, NEW o \in Objects, NEW now \in SUBSET Fields,
         held' = [held EXCEPT ![o] = now], UNCHANGED <<KeyVars, reused>>,
         \A f \in {"context", "keytab", "entry"} : f \in now <=> f \in held[o],
         o \in Servers => "gssctx" \notin now
  PROVE  /\ held' \in [Objects -> SUBSET Fields] /\ DOMAIN entry' = Objects
         /\ NoContextKept' /\ EntriesOwned' /\ EntryHasKeytab'
         /\ LiveKeysThere' /\ OthersGone'
<1>1. /\ held \in [Objects -> SUBSET Fields] /\ DOMAIN entry = Objects
      /\ entry' = entry /\ memKeytab' = memKeytab /\ reused' = reused
  BY DEF Inv, FieldsTyped, KeyVars
<1>2. \A x \in Objects : held'[x] = IF x = o THEN now ELSE held[x]
  BY <1>1
<1>3. \A x \in Objects, f \in {"context", "keytab", "entry"} :
        f \in held'[x] <=> f \in held[x]
  BY <1>2
<1>4. held' \in [Objects -> SUBSET Fields] /\ DOMAIN entry' = Objects
  BY <1>1
<1>5. NoContextKept'
  BY <1>2 DEF Inv, NoContextKept, Objects
<1>6. EntriesOwned'
  BY <1>1 DEF Inv, EntriesOwned
<1>7. EntryHasKeytab'
  BY <1>1, <1>3 DEF Inv, EntryHasKeytab
<1>8. LiveKeysThere'
  BY <1>1, <1>3 DEF Inv, LiveKeysThere
<1>9. OthersGone'
  BY <1>1, <1>3 DEF Inv, OthersGone, EntriesOwned
<1>10. QED
  BY <1>4, <1>5, <1>6, <1>7, <1>8, <1>9

LEMMA ClientGetCredInv ==
  ASSUME Inv, NEW c \in Clients, ClientGetCred(c)
  PROVE  Inv'
<1>1. /\ c \in Objects /\ c \notin Servers /\ held \in [Objects -> SUBSET Fields]
      /\ DOMAIN made' = Clients /\ UNCHANGED <<KeyVars, reused, leaky, spent>>
      /\ held' = [held EXCEPT ![c] = held[c] \cup {"gssctx"}]
  BY KerberosAssumption DEF KerberosAssumption, Objects, Inv, FieldsTyped,
                            ClientGetCred, TokenMade, KeyVars
<1>2. \A x \in Objects : held'[x] = IF x = c THEN held[c] \cup {"gssctx"} ELSE held[x]
  BY <1>1
<1>3. held[c] \cup {"gssctx"} \in SUBSET Fields
  BY <1>1, FieldNames
<1>4. /\ held' \in [Objects -> SUBSET Fields] /\ DOMAIN entry' = Objects
      /\ NoContextKept' /\ EntriesOwned' /\ EntryHasKeytab'
      /\ LiveKeysThere' /\ OthersGone'
  BY <1>1, <1>3, GssStep
<1>5. CredsLastUntilAuth'
  BY <1>1, <1>2 DEF Inv, CredsLastUntilAuth, Objects
<1>6. SuccessMeansAccepted'
  BY DEF ClientGetCred, Inv, SuccessMeansAccepted
<1>7. QED
  BY <1>1, <1>4, <1>5, <1>6 DEF Inv, FieldsTyped, OnlyReuseLeaks

\* A client only succeeds with the answer to its token: Junk is not one.
LEMMA ClientAuthServerInv ==
  ASSUME Inv, NEW c \in Clients, NEW answer \in replies \cup {Junk},
         ClientAuthServer(c, answer)
  PROVE  Inv'
<1>1. PICK major \in InitSecContext(c, answer) :
        /\ held' = [held EXCEPT ![c] =
                      IF ContextKept(major) THEN held[c] \ {"cred"}
                      ELSE DeleteContext(held[c] \ {"cred"})]
        /\ done' = done \cup {t \in {Token(c)} : AuthSucceeds(major)}
        /\ spent' = spent \cup {c}
        /\ UNCHANGED <<file, entry, memKeytab, initial, made, replies, served,
                       inits, reused, leaky>>
  BY DEF ClientAuthServer
<1>2. /\ c \in Objects /\ c \notin Servers /\ held \in [Objects -> SUBSET Fields]
      /\ DOMAIN made' = Clients /\ UNCHANGED <<KeyVars, reused, leaky>>
  BY <1>1, KerberosAssumption DEF KerberosAssumption, Objects, Inv, FieldsTyped,
                                  KeyVars
<1> DEFINE now == IF ContextKept(major) THEN held[c] \ {"cred"}
                  ELSE DeleteContext(held[c] \ {"cred"})
<1>3. /\ now \in SUBSET Fields
      /\ \A f \in {"context", "keytab", "entry"} : f \in now <=> f \in held[c]
  BY <1>2 DEF DeleteContext
<1>4. held' = [held EXCEPT ![c] = now]
  BY <1>1
<1> HIDE DEF now
<1>5. \A x \in Objects : held'[x] = IF x = c THEN now ELSE held[x]
  BY <1>2, <1>4
<1>6. /\ held' \in [Objects -> SUBSET Fields] /\ DOMAIN entry' = Objects
      /\ NoContextKept' /\ EntriesOwned' /\ EntryHasKeytab'
      /\ LiveKeysThere' /\ OthersGone'
  BY <1>2, <1>3, <1>4, GssStep
<1>7. CredsLastUntilAuth'
  BY <1>1, <1>2, <1>5 DEF Inv, CredsLastUntilAuth, Objects
<1>8. SuccessMeansAccepted'
  <2>1. AuthSucceeds(major) => answer = Token(c)
    BY DEF InitSecContext, AuthSucceeds
  <2>2. Token(c) # Junk
    BY KerberosAssumption DEF KerberosAssumption, Token, Junk
  <2>3. QED
    BY <1>1, <2>1, <2>2 DEF Inv, SuccessMeansAccepted
<1>9. QED
  BY <1>2, <1>6, <1>7, <1>8 DEF Inv, FieldsTyped, OnlyReuseLeaks

LEMMA ServerAuthInv ==
  ASSUME Inv, NEW s \in Servers, NEW token, ServerAuth(s, token)
  PROVE  Inv'
<1>1. PICK major \in {"complete", "continue", "error"}, output \in BOOLEAN,
           told \in BOOLEAN :
        /\ held' = [held EXCEPT ![s] = DeleteContext(Accepted(held[s], major, output))]
        /\ leaky' = leaky \cup {x \in {s} : "gssctx" \in held[s]}
        /\ replies' = replies \cup {t \in {token} : major = "complete" /\ output}
        /\ served' = served \cup
                       {t \in {token} : output /\ CheckReturn(major) /\ told}
  BY DEF ServerAuth
<1>2. /\ s \in Objects /\ held \in [Objects -> SUBSET Fields] /\ leaky' = leaky
      /\ DOMAIN made' = Clients /\ UNCHANGED <<KeyVars, reused, spent, done>>
  BY <1>1 DEF Objects, Inv, FieldsTyped, NoContextKept, ServerAuth, KeyVars
<1> DEFINE now == DeleteContext(Accepted(held[s], major, output))
<1>3. /\ now \in SUBSET Fields /\ "gssctx" \notin now
      /\ \A f \in {"context", "keytab", "entry"} : f \in now <=> f \in held[s]
  BY <1>2, FieldNames DEF DeleteContext, Accepted
<1>4. held' = [held EXCEPT ![s] = now]
  BY <1>1
<1> HIDE DEF now
<1>5. /\ held' \in [Objects -> SUBSET Fields] /\ DOMAIN entry' = Objects
      /\ NoContextKept' /\ EntriesOwned' /\ EntryHasKeytab'
      /\ LiveKeysThere' /\ OthersGone'
  BY <1>2, <1>3, <1>4, GssStep
<1>6. CredsLastUntilAuth'
  BY <1>2, <1>4, ServerKeepsCreds
<1>7. SuccessMeansAccepted'
  BY <1>1, <1>2 DEF Inv, SuccessMeansAccepted, CheckReturn
<1>8. QED
  BY <1>2, <1>5, <1>6, <1>7 DEF Inv, FieldsTyped, OnlyReuseLeaks

\* A change of the file's keys, or a stuttering step, touches no object.
LEMMA IdleInv ==
  ASSUME Inv, ChangeKey \/ UNCHANGED vars
  PROVE  Inv'
<1>1. UNCHANGED <<held, entry, memKeytab, made, replies, served, done, reused,
                  spent, leaky>>
  BY DEF ChangeKey, vars, handshakeVars
<1>2. FieldsTyped' /\ NoContextKept' /\ EntriesOwned' /\ OnlyReuseLeaks'
  BY <1>1 DEF Inv, FieldsTyped, NoContextKept, EntriesOwned, OnlyReuseLeaks
<1>3. EntryHasKeytab' /\ LiveKeysThere' /\ OthersGone'
  BY <1>1 DEF Inv, EntryHasKeytab, LiveKeysThere, OthersGone
<1>4. SuccessMeansAccepted' /\ CredsLastUntilAuth'
  BY <1>1 DEF Inv, SuccessMeansAccepted, CredsLastUntilAuth
<1>5. QED
  BY <1>2, <1>3, <1>4 DEF Inv

-----------------------------------------------------------------------------
(* The theorems.                                                           *)

LEMMA InitInv == Init => Inv
<1> SUFFICES ASSUME Init PROVE Inv
  OBVIOUS
<1>1. FieldsTyped
  BY DEF Init, FieldsTyped
<1>2. NoContextKept /\ EntriesOwned /\ OnlyReuseLeaks /\ EntryHasKeytab
  BY DEF Init, NoContextKept, EntriesOwned, OnlyReuseLeaks, EntryHasKeytab, Objects
<1>3. LiveKeysThere /\ OthersGone /\ SuccessMeansAccepted /\ CredsLastUntilAuth
  BY DEF Init, LiveKeysThere, OthersGone, SuccessMeansAccepted, CredsLastUntilAuth,
         Objects
<1>4. QED
  BY <1>1, <1>2, <1>3 DEF Inv

\* The inductive invariant holds throughout: every library call may fail at any
\* point, and calls on different objects mix in any order.
THEOREM InvHolds == Spec => []Inv
<1>1. Inv /\ [Next]_vars => Inv'
  <2> SUFFICES ASSUME Inv, [Next]_vars PROVE Inv'
    OBVIOUS
  <2>1. CASE ChangeKey \/ UNCHANGED vars
    BY <2>1, IdleInv
  <2>2. CASE \E o \in Objects : Destroy(o)
    BY <2>2, DestroyInv
  <2>3. CASE \E c \in Clients : ClientInit(c)
    BY <2>3, ClientInitInv
  <2>4. CASE \E c \in Clients : ClientGetCred(c)
    BY <2>4, ClientGetCredInv
  <2>5. CASE \E c \in Clients : \E answer \in replies \cup {Junk} :
               ClientAuthServer(c, answer)
    BY <2>5, ClientAuthServerInv
  <2>6. CASE \E s \in Servers : ServerInit(s)
    BY <2>6, ServerInitInv
  <2>7. CASE \E s \in Servers : \E token \in Sent : ServerAuth(s, token)
    BY <2>7, ServerAuthInv
  <2>8. QED
    BY <2>1, <2>2, <2>3, <2>4, <2>5, <2>6, <2>7 DEF Next
<1>2. QED
  BY <1>1, InitInv, PTL DEF Spec

\* ClientInit, ServerInit, ServerAuth and the destructors lose no object of the
\* krb5 and GSS libraries, as long as nothing that holds some is initialised.
THEOREM NothingLeaks == Spec => []OnlyReuseLeaks
<1>1. Inv => OnlyReuseLeaks
  BY DEF Inv
<1>2. QED
  BY <1>1, InvHolds, PTL

\* Nor does KerberosDestroyKeytab, for such objects, call krb5_kt_remove_entry
\* with a null keytab.
THEOREM EntriesHaveKeytabs == Spec => []EntryHasKeytab
<1>1. Inv => EntryHasKeytab
  BY DEF Inv
<1>2. QED
  BY <1>1, InvHolds, PTL

\* However many objects share MEMORY:OCKSecurityKTName, the destructor of one
\* removes no other's key, and each takes its own away.
THEOREM KeytabKeepsLiveKeys == Spec => []KeytabHoldsLiveKeys
<1>1. Inv => KeytabHoldsLiveKeys
  <2> SUFFICES ASSUME Inv PROVE KeytabHoldsLiveKeys
    OBVIOUS
  <2> DEFINE live == {entry[o] : o \in {x \in Objects : "entry" \in held[x]}}
  <2>1. live \subseteq memKeytab
    BY DEF Inv, LiveKeysThere
  <2>2. ASSUME NEW e \in memKeytab \ live PROVE e.owner \in reused
    BY <2>2 DEF Inv, OthersGone, EntriesOwned
  <2>3. QED
    BY <2>1, <2>2 DEF KeytabHoldsLiveKeys
<1>2. QED
  BY <1>1, InvHolds, PTL

\* Whatever is lost, repeated or reordered, ClientAuthServer and ServerAuth
\* return CDF_OK only for a token that a server accepted and answered.
THEOREM SuccessIsShared == Spec => []SuccessMeansAccepted
<1>1. Inv => SuccessMeansAccepted
  BY DEF Inv
<1>2. QED
  BY <1>1, InvHolds, PTL

\* ClientGetCred may fail and be called again: until ClientAuthServer, it is the
\* credentials of ClientInit that it uses.
THEOREM CredsLast == Spec => []CredsLastUntilAuth
<1>1. Inv => CredsLastUntilAuth
  BY DEF Inv
<1>2. QED
  BY <1>1, InvHolds, PTL

-----------------------------------------------------------------------------
(* Induction over the positions of a file, for KerberosGetEntry's loop: of  *)
(* the sets of positions for which a statement fails, some is smallest.     *)

\* No other member of T is inside x.
IsSmallest(x, T) == x \in T /\ \A y \in T : y \subseteq x => y = x

\* The induction the other lemmas use: of a set of finite sets, some member has
\* no other inside it.
LEMMA SmallestSet ==
  ASSUME NEW U, IsFiniteSet(U), NEW T, T \subseteq SUBSET U, T # {}
  PROVE  \E x : IsSmallest(x, T)
<1>1. T \subseteq FiniteSubsetsOf(U)
  BY FS_FiniteSubsetsOfFinite
<1>2. IsWellFoundedOn(StrictSubsetOrdering(U), FiniteSubsetsOf(U))
  BY FS_StrictSubsetOrderingWellFounded
<1>3. PICK x \in T : \A y \in T : ~ (<<y, x>> \in StrictSubsetOrdering(U))
  BY <1>1, <1>2, WFMin
<1>4. QED
  BY <1>3 DEF StrictSubsetOrdering, IsSmallest

\* Of a set of sets of positions, too.
LEMMA SmallestPositions ==
  ASSUME NEW n \in Nat, NEW T, T \subseteq SUBSET (1..n), T # {}
  PROVE  \E x : IsSmallest(x, T)
<1> DEFINE U == 1..n
<1>1. IsFiniteSet(U)
  BY FS_Interval
<1>2. T \subseteq SUBSET U
  OBVIOUS
<1> HIDE DEF U
<1>3. QED
  BY <1>1, <1>2, SmallestSet

\* The greatest of some positions is one of them.
LEMMA MaxIsGreatest ==
  ASSUME NEW n \in Nat, NEW s \in SUBSET (1..n), s # {}
  PROVE  Max(s) \in s /\ \A i \in s : i <= Max(s)
<1> DEFINE Above(i) == {j \in 1..n : i <= j}
           T == {Above(i) : i \in s}
<1>1. T \subseteq SUBSET (1..n) /\ T # {}
  OBVIOUS
<1>2. PICK x : IsSmallest(x, T)
  <2> HIDE DEF T
  <2>1. QED
    BY <1>1, SmallestPositions
<1>3. x \in T /\ \A y \in T : y \subseteq x => y = x
  BY <1>2 DEF IsSmallest
<1>4. PICK m \in s : x = Above(m)
  BY <1>3
<1>5. ASSUME NEW i \in s, ~ (i <= m) PROVE FALSE
  <2>1. Above(i) \in T /\ Above(i) \subseteq Above(m) /\ m \in Above(m) /\ m \notin Above(i)
    BY <1>5
  <2>2. QED
    BY <1>3, <1>4, <2>1
<1>6. \E k \in s : \A i \in s : k >= i
  BY <1>5
<1>7. QED
  BY <1>6 DEF Max

\* KerberosGetEntry's loop over the positions s of a file, of which f says what
\* it had found before.
Scanned(f, s, entries) ==
  IF s = {} THEN Head(entries)
  ELSE KerberosCompareEntry(f[s \ {Max(s)}], Tail(entries)[Max(s)])

Scans(f, S, entries) == f = [s \in SUBSET S |-> Scanned(f, s, entries)]

\* There is one such f for each set of positions.
LEMMA ScansAgree ==
  ASSUME NEW n \in Nat, NEW U \in SUBSET (1..n), NEW V \in SUBSET (1..n), NEW entries,
         NEW f, Scans(f, U, entries), NEW g, Scans(g, V, entries),
         NEW s \in SUBSET U, s \in SUBSET V
  PROVE  f[s] = g[s]
<1> DEFINE T == {u \in SUBSET s : f[u] # g[u]}
<1> SUFFICES ASSUME T # {} PROVE FALSE
  OBVIOUS
<1>1. PICK u : IsSmallest(u, T)
  <2>1. T \subseteq SUBSET (1..n)
    OBVIOUS
  <2> HIDE DEF T
  <2>2. QED
    BY <2>1, SmallestPositions
<1>2. u \in T /\ \A y \in T : y \subseteq u => y = u
  BY <1>1 DEF IsSmallest
<1>3. u \in SUBSET s /\ u \in SUBSET (1..n) /\ f[u] # g[u]
  BY <1>2
<1>4. u \in SUBSET U /\ u \in SUBSET V
  BY <1>3
<1>5. f[u] = Scanned(f, u, entries) /\ g[u] = Scanned(g, u, entries)
  BY <1>4 DEF Scans
<1>6. u # {}
  BY <1>3, <1>5 DEF Scanned
<1>7. Max(u) \in u
  BY <1>3, <1>6, MaxIsGreatest
<1>8. f[u \ {Max(u)}] = g[u \ {Max(u)}]
  BY <1>2, <1>3, <1>7
<1>9. QED
  BY <1>3, <1>6, <1>8, <1>5 DEF Scanned

\* Loops over the parts of u make one over u.
LEMMA ScansJoin ==
  ASSUME NEW n \in Nat, NEW entries, NEW u \in SUBSET (1..n), NEW F,
         \A s \in SUBSET u : s # u => Scans(F[s], s, entries)
  PROVE  \E f : Scans(f, u, entries)
<1> DEFINE before == [s \in SUBSET u |-> F[s][s]]
           g == [s \in SUBSET u |-> IF s = u THEN Scanned(before, u, entries)
                                    ELSE before[s]]
<1>1. ASSUME NEW s \in SUBSET u, s # {}
      PROVE  /\ Max(s) \in s /\ s \ {Max(s)} \in SUBSET u
             /\ s \ {Max(s)} \in SUBSET s /\ s \ {Max(s)} # u
  <2>1. Max(s) \in s
    BY <1>1, MaxIsGreatest
  <2>2. QED
    BY <2>1
<1>2. \A s \in SUBSET u : s # u => g[s] = F[s][s]
  OBVIOUS
<1>3. g[u] = Scanned(before, u, entries)
  OBVIOUS
<1>4. \A s \in SUBSET u : s # u => before[s] = g[s]
  OBVIOUS
<1>5. g = [s \in SUBSET u |-> g[s]]
  OBVIOUS
<1> HIDE DEF g, before
<1>6. ASSUME NEW s \in SUBSET u
      PROVE  g[s] = Scanned(g, s, entries)
  <2>1. CASE s = u
    BY <1>1, <1>3, <1>4, <2>1 DEF Scanned
  <2>2. CASE s # u /\ s = {}
    <3>1. F[s][s] = Scanned(F[s], s, entries)
      BY <2>2 DEF Scans
    <3>2. QED
      BY <1>2, <2>2, <3>1 DEF Scanned
  <2>3. CASE s # u /\ s # {}
    <3>1. PICK r : r = s \ {Max(s)}
      OBVIOUS
    <3>2. r \in SUBSET u /\ r # u /\ r \in SUBSET s /\ r \in SUBSET r
          /\ s \in SUBSET (1..n) /\ r \in SUBSET (1..n)
      BY <1>1, <2>3, <3>1
    <3>3. Scans(F[s], s, entries) /\ Scans(F[r], r, entries)
      BY <2>3, <3>2
    <3>4. F[s][r] = F[r][r]
      BY <3>2, <3>3, ScansAgree
    <3>5. F[s][s] = Scanned(F[s], s, entries)
      BY <3>3 DEF Scans
    <3>6. g[s] = F[s][s] /\ g[r] = F[r][r]
      BY <1>2, <2>3, <3>2
    <3>7. QED
      BY <2>3, <3>1, <3>4, <3>5, <3>6 DEF Scanned
  <2>4. QED
    BY <2>1, <2>2, <2>3
<1>7. Scans(g, u, entries)
  BY <1>5, <1>6 DEF Scans
<1>8. QED
  BY <1>7

LEMMA ScanExists ==
  ASSUME NEW n \in Nat, NEW entries, NEW U \in SUBSET (1..n)
  PROVE  \E f : Scans(f, U, entries)
<1> DEFINE T == {s \in SUBSET (1..n) : ~ \E f : Scans(f, s, entries)}
<1> SUFFICES ASSUME T # {} PROVE FALSE
  OBVIOUS
<1>1. PICK u : IsSmallest(u, T)
  <2>1. T \subseteq SUBSET (1..n)
    OBVIOUS
  <2> HIDE DEF T
  <2>2. QED
    BY <2>1, SmallestPositions
<1>2. u \in T /\ \A y \in T : y \subseteq u => y = u
  BY <1>1 DEF IsSmallest
<1> DEFINE F == [s \in SUBSET u |-> CHOOSE f : Scans(f, s, entries)]
<1>3. ASSUME NEW s \in SUBSET u, s # u
      PROVE  Scans(F[s], s, entries)
  <2>1. \E f : Scans(f, s, entries)
    BY <1>2, <1>3
  <2>2. QED
    BY <2>1
<1> HIDE DEF F
<1>4. \E f : Scans(f, u, entries)
  <2>1. u \in SUBSET (1..n)
    BY <1>2
  <2>2. QED
    BY <1>3, <2>1, ScansJoin
<1>5. QED
  BY <1>2, <1>4

\* What KerberosGetEntry returns is what the last f found.
LEMMA GetEntryScans ==
  ASSUME NEW E, NEW entries \in Seq(E), entries # <<>>
  PROVE  /\ Tail(entries) \in Seq(E)
         /\ Range(entries) = {Head(entries)} \cup {Tail(entries)[i] : i \in 1..Len(Tail(entries))}
         /\ \E f : /\ Scans(f, 1..Len(Tail(entries)), entries)
                   /\ KerberosGetEntry(entries) = f[1..Len(Tail(entries))]
<1> DEFINE S == 1..Len(Tail(entries))
           f == CHOOSE g : Scans(g, S, entries)
<1>1. Tail(entries) \in Seq(E) /\ Len(Tail(entries)) \in Nat /\ DOMAIN Tail(entries) = S
  OBVIOUS
<1>2. Range(entries) = {Head(entries)} \cup {Tail(entries)[i] : i \in S}
  <2>1. Len(Tail(entries)) = Len(entries) - 1
        /\ \A i \in S : Tail(entries)[i] = entries[i + 1]
    OBVIOUS
  <2>2. Head(entries) = entries[1] /\ Len(entries) \in Nat /\ Len(entries) >= 1
        /\ DOMAIN entries = 1..Len(entries)
    OBVIOUS
  <2>3. ASSUME NEW i \in 1..Len(entries), i # 1
        PROVE  i - 1 \in S /\ entries[i] = Tail(entries)[i - 1]
    BY <2>1, <2>2, <2>3
  <2>4. \A i \in S : i + 1 \in 1..Len(entries)
    BY <2>1, <2>2
  <2>5. \A x \in Range(entries) : x \in {Head(entries)} \cup {Tail(entries)[i] : i \in S}
    <3> SUFFICES ASSUME NEW i \in 1..Len(entries)
                 PROVE  entries[i] = Head(entries) \/ \E j \in S : entries[i] = Tail(entries)[j]
      BY <2>2 DEF Range
    <3>1. QED
      BY <2>2, <2>3
  <2>6. Head(entries) \in Range(entries) /\ \A i \in S : Tail(entries)[i] \in Range(entries)
    <3>1. 1 \in 1..Len(entries)
      BY <2>2
    <3>2. \A i \in 1..Len(entries) : entries[i] \in Range(entries)
      BY <2>2 DEF Range
    <3>3. QED
      BY <2>1, <2>2, <2>4, <3>1, <3>2
  <2>7. QED
    BY <2>5, <2>6
<1>3. Scans(f, S, entries)
  BY <1>1, ScanExists
<1>4. KerberosGetEntry(entries) = f[S]
  BY <1>1 DEF KerberosGetEntry, FoldLeft, MapThenFoldSet, Scans, Scanned
<1>5. QED
  BY <1>1, <1>2, <1>3, <1>4

-----------------------------------------------------------------------------
(* The entry KerberosGetEntry returns, by the same induction.              *)

\* Of two entries, the one that was stored later is the more recent.
InOrder(es) ==
  \A e, f \in es : f.time < e.time =>
    KerberosMoreRecent(e, f) /\ ~KerberosMoreRecent(f, e)

\* What the loop has found after the positions s.
Seen(s, entries) == {Head(entries)} \cup {Tail(entries)[i] : i \in s}

LEMMA ScanFinds ==
  ASSUME NEW n \in Nat, NEW entries, NEW f, Scans(f, 1..n, entries),
         NEW s \in SUBSET (1..n)
  PROVE  f[s] \in Seen(s, entries)
<1> DEFINE T == {u \in SUBSET (1..n) : f[u] \notin Seen(u, entries)}
<1> SUFFICES ASSUME T # {} PROVE FALSE
  OBVIOUS
<1>1. PICK u : IsSmallest(u, T)
  <2>1. T \subseteq SUBSET (1..n)
    OBVIOUS
  <2> HIDE DEF T
  <2>2. QED
    BY <2>1, SmallestPositions
<1>2. u \in T /\ \A y \in T : y \subseteq u => y = u
  BY <1>1 DEF IsSmallest
<1>3. u \in SUBSET (1..n) /\ f[u] \notin Seen(u, entries)
  BY <1>2
<1>4. f[u] = Scanned(f, u, entries)
  BY <1>3 DEF Scans
<1>5. u # {}
  BY <1>3, <1>4 DEF Scanned, Seen
<1>6. PICK m \in u : m = Max(u)
  BY <1>3, <1>5, MaxIsGreatest
<1>7. f[u \ {m}] \in Seen(u \ {m}, entries)
  BY <1>2, <1>3, <1>6
<1>8. Seen(u \ {m}, entries) \subseteq Seen(u, entries) /\ Tail(entries)[m] \in Seen(u, entries)
  BY DEF Seen
<1>9. f[u] \in {f[u \ {m}], Tail(entries)[m]}
  BY <1>4, <1>5, <1>6 DEF Scanned, KerberosCompareEntry
<1>10. QED
  BY <1>3, <1>7, <1>8, <1>9

LEMMA ScanKeepsLatest ==
  ASSUME NEW n \in Nat, NEW entries, NEW f, Scans(f, 1..n, entries),
         InOrder(Seen(1..n, entries)), \A e \in Seen(1..n, entries) : e.time \in Nat,
         NEW s \in SUBSET (1..n)
  PROVE  \A e \in Seen(s, entries) : e.time <= f[s].time
<1> DEFINE T == {u \in SUBSET (1..n) : \E e \in Seen(u, entries) : ~ (e.time <= f[u].time)}
<1> SUFFICES ASSUME T # {} PROVE FALSE
  OBVIOUS
<1>1. PICK u : IsSmallest(u, T)
  <2>1. T \subseteq SUBSET (1..n)
    OBVIOUS
  <2> HIDE DEF T
  <2>2. QED
    BY <2>1, SmallestPositions
<1>2. u \in T /\ \A y \in T : y \subseteq u => y = u
  BY <1>1 DEF IsSmallest
<1>3. u \in SUBSET (1..n) /\ \E e \in Seen(u, entries) : ~ (e.time <= f[u].time)
  BY <1>2
<1>4. f[u] = Scanned(f, u, entries)
  BY <1>3 DEF Scans
<1>5. \A v \in SUBSET (1..n) : Seen(v, entries) \subseteq Seen(1..n, entries)
                               /\ f[v] \in Seen(1..n, entries)
  <2>1. \A v \in SUBSET (1..n) : Seen(v, entries) \subseteq Seen(1..n, entries)
    BY DEF Seen
  <2>2. \A v \in SUBSET (1..n) : f[v] \in Seen(v, entries)
    BY ScanFinds
  <2>3. QED
    BY <2>1, <2>2
<1>6. u # {}
  <2> SUFFICES ASSUME u = {} PROVE FALSE
    OBVIOUS
  <2>1. f[u] = Head(entries) /\ Seen(u, entries) = {Head(entries)}
    BY <1>4 DEF Scanned, Seen
  <2>2. f[u].time \in Nat
    BY <1>3, <1>5
  <2>3. QED
    BY <1>3, <2>1, <2>2
<1>7. PICK m \in u : m = Max(u)
  BY <1>3, <1>6, MaxIsGreatest
<1> DEFINE old == f[u \ {m}]
           new == Tail(entries)[m]
<1>8. u \ {m} \in SUBSET (1..n) /\ u \ {m} # u /\ u \ {m} \subseteq u
  BY <1>3
<1>9. \A e \in Seen(u \ {m}, entries) : e.time <= old.time
  <2>1. u \ {m} \notin T
    BY <1>2, <1>8
  <2>2. QED
    BY <1>8, <2>1
<1>10. old \in Seen(1..n, entries) /\ new \in Seen(1..n, entries)
  BY <1>3, <1>5, <1>8 DEF Seen
<1>11. old.time \in Nat /\ new.time \in Nat
  BY <1>10
<1>12. f[u] = KerberosCompareEntry(old, new)
  BY <1>4, <1>6, <1>7 DEF Scanned
<1> HIDE DEF old, new
<1>13. old.time <= f[u].time /\ new.time <= f[u].time
  <2>1. new.time < old.time => ~KerberosMoreRecent(new, old)
    BY <1>10 DEF InOrder
  <2>2. old.time < new.time => KerberosMoreRecent(new, old)
    BY <1>10 DEF InOrder
  <2>3. QED
    BY <1>11, <1>12, <2>1, <2>2 DEF KerberosCompareEntry
<1>14. \A e \in Seen(u, entries) : e \in Seen(u \ {m}, entries) \/ e = new
  BY DEF Seen, new
<1>15. \A e \in Seen(u, entries) : e.time \in Nat
  BY <1>3, <1>5
<1>16. f[u].time \in Nat
  BY <1>3, <1>5
<1>17. ASSUME NEW e \in Seen(u, entries)
       PROVE  e.time <= f[u].time
  <2>1. e.time \in Nat
    BY <1>15
  <2>2. CASE e = new
    BY <1>13, <2>2
  <2>3. CASE e \in Seen(u \ {m}, entries)
    BY <1>9, <1>11, <1>13, <1>16, <2>1, <2>3
  <2>4. QED
    BY <1>14, <2>2, <2>3
<1>18. QED
  BY <1>3, <1>17

\* KerberosGetEntry returns an entry of the file.
LEMMA EntryFound ==
  ASSUME NEW E, NEW entries \in Seq(E), entries # <<>>
  PROVE  KerberosGetEntry(entries) \in Range(entries)
<1> DEFINE n == Len(Tail(entries))
<1>1. Tail(entries) \in Seq(E) /\ Range(entries) = Seen(1..n, entries)
  BY GetEntryScans DEF Seen
<1>2. PICK f : Scans(f, 1..n, entries) /\ KerberosGetEntry(entries) = f[1..n]
  BY GetEntryScans
<1>3. n \in Nat /\ 1..n \in SUBSET (1..n)
  BY <1>1
<1> HIDE DEF n
<1>4. f[1..n] \in Seen(1..n, entries)
  BY <1>2, <1>3, ScanFinds
<1>5. QED
  BY <1>1, <1>2, <1>4

\* Of entries whose order the versions tell, it is the one that was stored last.
LEMMA LatestFound ==
  ASSUME NEW E, NEW entries \in Seq(E), entries # <<>>, InOrder(Range(entries)),
         \A e \in Range(entries) : e.time \in Nat
  PROVE  \A e \in Range(entries) : e.time <= KerberosGetEntry(entries).time
<1> DEFINE n == Len(Tail(entries))
<1>1. Tail(entries) \in Seq(E) /\ Range(entries) = Seen(1..n, entries)
  BY GetEntryScans DEF Seen
<1>2. PICK f : Scans(f, 1..n, entries) /\ KerberosGetEntry(entries) = f[1..n]
  BY GetEntryScans
<1>3. n \in Nat /\ 1..n \in SUBSET (1..n)
  BY <1>1
<1> HIDE DEF n
<1>4. InOrder(Seen(1..n, entries)) /\ \A e \in Seen(1..n, entries) : e.time \in Nat
  BY <1>1
<1>5. \A e \in Seen(1..n, entries) : e.time <= f[1..n].time
  BY <1>2, <1>3, <1>4, ScanKeepsLatest
<1>6. QED
  BY <1>1, <1>2, <1>5

LEMMA Concatenation ==
  ASSUME NEW E, NEW a \in Seq(E), NEW b \in Seq(E)
  PROVE  /\ a \o b \in Seq(E) /\ Len(a \o b) = Len(a) + Len(b)
         /\ \A i \in 1..Len(a) : (a \o b)[i] = a[i]
         /\ \A i \in Len(a) + 1..Len(a) + Len(b) : (a \o b)[i] = b[i - Len(a)]
  OBVIOUS

\* InsertAt adds one entry and keeps the others.
LEMMA InsertAtAdds ==
  ASSUME NEW E, NEW s \in Seq(E), NEW i \in 1..Len(s) + 1, NEW x \in E
  PROVE  /\ InsertAt(s, i, x) \in Seq(E) /\ Len(InsertAt(s, i, x)) = Len(s) + 1
         /\ Range(InsertAt(s, i, x)) = Range(s) \cup {x}
<1> DEFINE before == SubSeq(s, 1, i - 1)
           after == SubSeq(s, i, Len(s))
<1>1. Len(s) \in Nat /\ i \in Nat /\ DOMAIN s = 1..Len(s)
  OBVIOUS
<1>2. /\ before \in Seq(E) /\ Len(before) = i - 1
      /\ \A j \in 1..i - 1 : before[j] = s[j]
  OBVIOUS
<1>3. /\ after \in Seq(E) /\ Len(after) = Len(s) - i + 1
      /\ \A j \in 1..Len(s) - i + 1 : after[j] = s[j + i - 1]
  OBVIOUS
<1> HIDE DEF before, after
<1> DEFINE some == before \o <<x>>
<1>4. /\ some \in Seq(E) /\ Len(some) = i
      /\ \A j \in 1..i - 1 : some[j] = s[j]
      /\ some[i] = x
  BY <1>1, <1>2
<1> HIDE DEF some
<1> DEFINE t == some \o after
<1>5. /\ t \in Seq(E) /\ Len(t) = Len(some) + Len(after)
      /\ \A j \in 1..Len(some) : t[j] = some[j]
      /\ \A j \in Len(some) + 1..Len(some) + Len(after) :
           t[j] = after[j - Len(some)]
  BY <1>3, <1>4, Concatenation
<1> HIDE DEF t
<1>6. Len(t) = Len(s) + 1 /\ DOMAIN t = 1..Len(s) + 1
  BY <1>1, <1>3, <1>4, <1>5
<1>7. \A j \in 1..i - 1 : t[j] = s[j]
  BY <1>1, <1>4, <1>5
<1>8. t[i] = x
  BY <1>1, <1>4, <1>5
<1>9. \A j \in i + 1..Len(s) + 1 : t[j] = s[j - 1]
  <2> SUFFICES ASSUME NEW j \in i + 1..Len(s) + 1 PROVE t[j] = s[j - 1]
    OBVIOUS
  <2>1. /\ j - i \in 1..Len(s) - i + 1 /\ (j - i) + i - 1 = j - 1
        /\ j \in Len(some) + 1..Len(some) + Len(after) /\ j - Len(some) = j - i
    BY <1>1, <1>3, <1>4
  <2>2. t[j] = after[j - i]
    BY <1>5, <2>1
  <2>3. QED
    BY <1>3, <2>1, <2>2
<1>10. Range(t) \subseteq Range(s) \cup {x}
  <2> SUFFICES ASSUME NEW j \in 1..Len(s) + 1 PROVE t[j] \in Range(s) \cup {x}
    BY <1>6 DEF Range
  <2>1. \A k \in 1..Len(s) : s[k] \in Range(s)
    BY <1>1 DEF Range
  <2>2. CASE j < i
    BY <1>1, <1>7, <2>1, <2>2
  <2>3. CASE j = i
    BY <1>8, <2>3
  <2>4. CASE j > i
    BY <1>1, <1>9, <2>1, <2>4
  <2>5. QED
    BY <1>1, <2>2, <2>3, <2>4
<1>11. Range(s) \cup {x} \subseteq Range(t)
  <2>1. \A k \in 1..Len(s) + 1 : t[k] \in Range(t)
    BY <1>6 DEF Range
  <2>2. ASSUME NEW j \in 1..Len(s) PROVE s[j] \in Range(t)
    <3>1. CASE j < i
      BY <1>1, <1>7, <2>1, <3>1
    <3>2. CASE j >= i
      <4>1. j + 1 \in i + 1..Len(s) + 1 /\ j + 1 \in 1..Len(s) + 1 /\ (j + 1) - 1 = j
        BY <1>1, <3>2
      <4>2. QED
        BY <1>9, <2>1, <4>1
    <3>3. QED
      BY <1>1, <3>1, <3>2
  <2>3. x \in Range(t)
    BY <1>1, <1>8, <2>1
  <2>4. QED
    BY <1>1, <2>2, <2>3 DEF Range
<1>12. t = InsertAt(s, i, x)
  BY DEF t, some, before, after, InsertAt
<1>13. QED
  BY <1>5, <1>6, <1>10, <1>11, <1>12

-----------------------------------------------------------------------------
(* The keytab file, and the type invariant.                                *)

\* A key is stored for each change since the first, and no version exceeds the
\* first by more than the changes.
FileInv ==
  /\ file \in Seq(Entries)
  /\ \A e \in Range(file) : e.time < Len(file) /\ e.vno <= 255 + e.time

LEMMA LatestExists ==
  ASSUME FileInv, file # <<>>
  PROVE  /\ Latest(file) \in Range(file)
         /\ \A e \in Range(file) : e.time <= Latest(file).time
<1> DEFINE s == {e.time + 1 : e \in Range(file)}
           n == MaxRotations + 1
<1>1. /\ Range(file) \subseteq Entries /\ Range(file) # {}
      /\ \A e \in Entries : e.time \in 0..MaxRotations
  <2>1. file \in Seq(Entries) /\ 1 \in DOMAIN file
    BY DEF FileInv
  <2>2. Range(file) \subseteq Entries
    BY <2>1 DEF Range
  <2>3. file[1] \in Range(file)
    BY <2>1 DEF Range
  <2>4. QED
    BY <2>2, <2>3 DEF Entries
<1>2. n \in Nat /\ s \in SUBSET (1..n) /\ s # {}
  BY <1>1, KerberosAssumption DEF KerberosAssumption
<1>3. Max(s) \in s /\ \A i \in s : i <= Max(s)
  <2> HIDE DEF s, n
  <2>1. QED
    BY <1>2, MaxIsGreatest
<1>4. PICK e \in Range(file) : e.time + 1 = Max(s)
  BY <1>3
<1>5. \A f \in Range(file) : f.time <= e.time
  <2> SUFFICES ASSUME NEW f \in Range(file) PROVE f.time <= e.time
    OBVIOUS
  <2>1. f.time + 1 <= e.time + 1
    BY <1>3, <1>4
  <2>2. QED
    BY <1>1, <2>1
<1>6. QED
  BY <1>5 DEF Latest

\* A change of keys, wherever it is stored, adds one version.
LEMMA ChangeKeyFacts ==
  ASSUME FileInv, ChangeKey
  PROVE  \E v, i :
           LET new == [vno |-> v, time |-> Latest(file).time + 1]
           IN  /\ v \in {Latest(file).vno + 1, (Latest(file).vno + 1) % 256}
               /\ Latest(file) \in Entries /\ new \in Entries
               /\ Range(file') = Range(file) \cup {new} /\ FileInv'
<1> DEFINE last == Latest(file)
<1>1. PICK v \in {last.vno + 1, (last.vno + 1) % 256}, i \in 1..Len(file) + 1 :
        file' = InsertAt(file, i, [vno |-> v, time |-> last.time + 1])
  BY DEF ChangeKey
<1>2. file # <<>> /\ Len(file) <= MaxRotations /\ Len(file) \in Nat /\ file \in Seq(Entries)
      /\ MaxRotations \in Nat
  BY KerberosAssumption DEF KerberosAssumption, ChangeKey, FileInv
<1>3. last \in Range(file) /\ last \in Entries
  BY <1>2, LatestExists DEF Range
<1>4. last.time < Len(file) /\ last.vno <= 255 + last.time
  BY <1>3 DEF FileInv
<1>5. last.vno \in Nat /\ last.time \in Nat
  BY <1>2, <1>3 DEF Entries, Kvnos
<1> HIDE DEF last
<1>6. v \in Nat /\ v <= 255 + (last.time + 1) /\ last.time + 1 <= Len(file)
  <2>1. CASE v = last.vno + 1
    BY <1>2, <1>4, <1>5, <2>1
  <2>2. CASE v = (last.vno + 1) % 256
    BY <1>2, <1>4, <1>5, <2>2
  <2>3. QED
    BY <1>1, <2>1, <2>2
<1> DEFINE new == [vno |-> v, time |-> last.time + 1]
<1>7. new \in Entries
  <2>1. v \in 0..255 + MaxRotations /\ last.time + 1 \in 0..MaxRotations
    BY <1>2, <1>5, <1>6
  <2>2. QED
    BY <2>1 DEF Entries, Kvnos
<1>8. file' \in Seq(Entries) /\ Len(file') = Len(file) + 1
      /\ Range(file') = Range(file) \cup {new}
  <2> HIDE DEF new
  <2>1. file' = InsertAt(file, i, new)
    BY <1>1 DEF new
  <2>2. QED
    BY <1>2, <1>7, <2>1, InsertAtAdds
<1>9. FileInv'
  <2> SUFFICES ASSUME NEW e \in Range(file') PROVE e.time < Len(file') /\ e.vno <= 255 + e.time
    BY <1>8 DEF FileInv
  <2>1. CASE e = new
    BY <1>2, <1>5, <1>6, <1>8, <2>1
  <2>2. CASE e \in Range(file)
    <3>1. e \in Entries /\ e.time < Len(file) /\ e.vno <= 255 + e.time
      BY <1>2, <2>2 DEF FileInv, Range
    <3>2. e.time \in Nat
      BY <3>1 DEF Entries
    <3>3. QED
      BY <1>2, <1>8, <3>1, <3>2
  <2>3. QED
    BY <1>8, <2>1, <2>2
<1>10. QED
  BY <1>1, <1>3, <1>7, <1>8, <1>9 DEF last

LEMMA EntriesTyped ==
  ASSUME FileInv, NEW e \in Range(file)
  PROVE  e \in Entries /\ e.vno \in Nat /\ e.time \in Nat
<1>1. e \in Entries
  BY DEF FileInv, Range
<1>2. QED
  BY <1>1, KerberosAssumption DEF KerberosAssumption, Entries, Kvnos

\* What TypeOK says besides.
RestTyped ==
  /\ entry \in [Objects -> KeytabEntries] /\ memKeytab \subseteq KeytabEntries
  /\ initial \in BOOLEAN /\ made \in [Clients -> 0..MaxTokens]
  /\ replies \subseteq Sent /\ served \subseteq Sent /\ done \subseteq Sent
  /\ inits \in 0..MaxInits /\ spent \subseteq Clients

TypeInv == Inv /\ FileInv /\ RestTyped

LEMMA TypeInvType == TypeInv => TypeOK
  BY DEF TypeInv, Inv, FieldsTyped, FileInv, RestTyped, TypeOK

LEMMA NewEntryTyped ==
  ASSUME TypeInv, NEW o \in Objects, file # <<>>, NEW lost, Count(o, lost)
  PROVE  NewEntry(o) \in KeytabEntries
<1>1. file \in Seq(Entries) /\ inits \in 0..MaxInits /\ MaxInits \in Nat
  BY KerberosAssumption DEF KerberosAssumption, TypeInv, FileInv, RestTyped
<1>2. KerberosGetEntry(file) \in Range(file)
  BY <1>1, EntryFound
<1>3. Range(file) \subseteq Entries
  BY <1>1 DEF Range
<1>4. KerberosGetEntry(file).vno \in Kvnos
  BY <1>2, <1>3 DEF Entries
<1>5. inits + 1 \in 0..MaxInits
  BY <1>1 DEF Count
<1>6. QED
  BY <1>4, <1>5 DEF NewEntry, KeytabEntries

\* What ClientInit and ServerInit have in common.
LEMMA InitCallTyped ==
  ASSUME TypeInv, NEW o \in Objects, NEW lost, Count(o, lost),
         AddEntry(o) \/ UNCHANGED KeyVars, initial' \in BOOLEAN,
         UNCHANGED <<file, handshakeVars>>, spent' \subseteq Clients
  PROVE  FileInv' /\ RestTyped'
<1>1. inits' \in 0..MaxInits
  BY KerberosAssumption DEF KerberosAssumption, TypeInv, RestTyped, Count
<1>2. entry' \in [Objects -> KeytabEntries] /\ memKeytab' \subseteq KeytabEntries
  <2>1. CASE AddEntry(o)
    <3>1. NewEntry(o) \in KeytabEntries
      BY <2>1, NewEntryTyped DEF AddEntry
    <3>2. QED
      BY <2>1, <3>1 DEF AddEntry, TypeInv, RestTyped
  <2>2. CASE UNCHANGED KeyVars
    BY <2>2 DEF KeyVars, TypeInv, RestTyped
  <2>3. QED
    BY <2>1, <2>2
<1>3. FileInv'
  BY DEF TypeInv, FileInv
<1>4. /\ made' \in [Clients -> 0..MaxTokens]
      /\ replies' \subseteq Sent' /\ served' \subseteq Sent' /\ done' \subseteq Sent'
  BY DEF TypeInv, RestTyped, handshakeVars, Sent
<1>5. QED
  BY <1>1, <1>2, <1>3, <1>4 DEF RestTyped

LEMMA ClientInitTyped ==
  ASSUME TypeInv, NEW c \in Clients, ClientInit(c)
  PROVE  FileInv' /\ RestTyped'
<1>1. c \in Objects /\ UNCHANGED <<file, handshakeVars>> /\ spent' \subseteq Clients
      /\ initial' \in BOOLEAN
  BY DEF Objects, ClientInit, TypeInv, RestTyped
<1>2. \E lost : Count(c, lost) /\ (AddEntry(c) \/ UNCHANGED KeyVars)
  BY DEF ClientInit, ClientInitFails, ClientInitEnds, NoEntryAdded, KeyVars
<1>3. QED
  BY <1>1, <1>2, InitCallTyped

LEMMA ServerInitTyped ==
  ASSUME TypeInv, NEW s \in Servers, ServerInit(s)
  PROVE  FileInv' /\ RestTyped'
<1>1. s \in Objects /\ UNCHANGED <<file, handshakeVars>> /\ spent' \subseteq Clients
  BY DEF Objects, ServerInit, TypeInv, RestTyped
<1>2. initial' \in BOOLEAN
  BY DEF ServerInit, ServerInitFails, ServerInitStops, ServerInitSucceeds, TypeInv,
         RestTyped
<1>3. \E lost : Count(s, lost) /\ (AddEntry(s) \/ UNCHANGED KeyVars)
  BY DEF ServerInit, ServerInitFails, ServerInitStops, ServerInitSucceeds,
         NoEntryAdded, KeyVars
<1>4. QED
  BY <1>1, <1>2, <1>3, InitCallTyped

\* A token that was sent stays so.
LEMMA SentGrows ==
  ASSUME RestTyped, NEW c \in Clients, made[c] < MaxTokens,
         made' = [made EXCEPT ![c] = made[c] + 1]
  PROVE  made' \in [Clients -> 0..MaxTokens] /\ Sent \subseteq Sent'
<1>1. made \in [Clients -> 0..MaxTokens] /\ MaxTokens \in Nat
  BY KerberosAssumption DEF KerberosAssumption, RestTyped
<1>2. made' \in [Clients -> 0..MaxTokens]
  BY <1>1
<1>3. ASSUME NEW t \in Sent PROVE t \in Sent'
  <2>1. t \in Tokens /\ t.nth <= made[t.from] /\ t.from \in Clients /\ t.nth \in Nat
    BY <1>1 DEF Sent, Tokens
  <2>2. made[t.from] \in Nat /\ made'[t.from] \in Nat /\ made[t.from] <= made'[t.from]
    BY <1>1, <1>2, <2>1
  <2>3. QED
    BY <2>1, <2>2 DEF Sent, Tokens
<1>4. QED
  BY <1>2, <1>3

LEMMA HandshakeTyped ==
  ASSUME TypeInv, Inv',
         \/ \E c \in Clients :
              \/ ClientGetCred(c)
              \/ \E answer \in replies \cup {Junk} : ClientAuthServer(c, answer)
         \/ \E s \in Servers, token \in Sent : ServerAuth(s, token)
  PROVE  FileInv' /\ RestTyped'
<1>1. CASE \E c \in Clients : ClientGetCred(c)
  <2>1. PICK c \in Clients : ClientGetCred(c)
    BY <1>1
  <2>2. made' \in [Clients -> 0..MaxTokens] /\ Sent \subseteq Sent'
    BY <2>1, SentGrows DEF ClientGetCred, TypeInv
  <2>3. QED
    BY <2>1, <2>2 DEF ClientGetCred, TypeInv, RestTyped, FileInv
<1>2. CASE \E c \in Clients : \E answer \in replies \cup {Junk} : ClientAuthServer(c, answer)
  <2>1. PICK c \in Clients, answer \in replies \cup {Junk} : ClientAuthServer(c, answer)
    BY <1>2
  <2>2. /\ UNCHANGED <<file, entry, memKeytab, initial, made, replies, served, inits>>
        /\ spent' = spent \cup {c}
    BY <2>1 DEF ClientAuthServer
  <2>3. done' \subseteq replies'
    BY DEF Inv, SuccessMeansAccepted
  <2>4. QED
    BY <2>2, <2>3 DEF TypeInv, RestTyped, FileInv, Sent
<1>3. CASE \E s \in Servers, token \in Sent : ServerAuth(s, token)
  <2>1. PICK s \in Servers, token \in Sent : ServerAuth(s, token)
    BY <1>3
  <2>2. UNCHANGED <<file, entry, memKeytab, initial, made, done, inits, spent>>
    BY <2>1 DEF ServerAuth
  <2>3. replies' \subseteq replies \cup {token}
    BY <2>1 DEF ServerAuth
  <2>4. served' \subseteq replies'
    BY DEF Inv, SuccessMeansAccepted
  <2>5. QED
    BY <2>2, <2>3, <2>4 DEF TypeInv, RestTyped, FileInv, Sent
<1>4. QED
  BY <1>1, <1>2, <1>3

LEMMA OtherTyped ==
  ASSUME TypeInv, ChangeKey \/ UNCHANGED vars \/ \E o \in Objects : Destroy(o)
  PROVE  FileInv' /\ RestTyped'
<1>1. FileInv'
  BY ChangeKeyFacts DEF TypeInv, FileInv, vars, Destroy
<1>2. /\ UNCHANGED <<entry, initial, made, replies, served, done, inits, spent>>
      /\ memKeytab' \subseteq memKeytab
  BY DEF ChangeKey, vars, Destroy, handshakeVars, EntriesLeft
<1>3. RestTyped'
  BY <1>2 DEF TypeInv, RestTyped, Sent
<1>4. QED
  BY <1>1, <1>3

LEMMA TypeInvHolds == Spec => []TypeInv
<1>1. Init => FileInv /\ RestTyped
  <2> SUFFICES ASSUME Init PROVE FileInv /\ RestTyped
    OBVIOUS
  <2>1. FileInv
    <3>1. CASE file = <<>>
      BY <3>1 DEF FileInv, Range
    <3>2. CASE \E v \in FirstVnos : file = <<[vno |-> v, time |-> 0]>>
      <4>1. PICK v \in FirstVnos : file = <<[vno |-> v, time |-> 0]>>
        BY <3>2
      <4>2. v \in 0..255 /\ MaxRotations \in Nat
        BY KerberosAssumption DEF KerberosAssumption
      <4>3. [vno |-> v, time |-> 0] \in Entries
        BY <4>2 DEF Entries, Kvnos
      <4>4. file \in Seq(Entries) /\ Len(file) = 1 /\ Range(file) = {[vno |-> v, time |-> 0]}
        BY <4>1, <4>3 DEF Range
      <4>5. QED
        BY <4>2, <4>4 DEF FileInv
    <3>3. QED
      BY <3>1, <3>2 DEF Init
  <2>2. RestTyped
    <3>1. /\ 0 \in 0..MaxInits /\ 0 \in 0..MaxTokens /\ 0 \in Kvnos
      BY KerberosAssumption DEF KerberosAssumption, Kvnos
    <3>2. entry \in [Objects -> KeytabEntries] /\ made \in [Clients -> 0..MaxTokens]
      BY <3>1 DEF Init, KeytabEntries
    <3>3. QED
      BY <3>1, <3>2 DEF Init, RestTyped
  <2>3. QED
    BY <2>1, <2>2
<1>2. Inv /\ Inv' /\ TypeInv /\ [Next]_vars => TypeInv'
  <2> SUFFICES ASSUME Inv', TypeInv, [Next]_vars PROVE TypeInv'
    OBVIOUS
  <2>1. CASE ChangeKey \/ UNCHANGED vars \/ \E o \in Objects : Destroy(o)
    BY <2>1, OtherTyped DEF TypeInv
  <2>2. CASE \E c \in Clients : ClientInit(c)
    BY <2>2, ClientInitTyped DEF TypeInv
  <2>3. CASE \E s \in Servers : ServerInit(s)
    BY <2>3, ServerInitTyped DEF TypeInv
  <2>4. CASE \/ \E c \in Clients :
                  \/ ClientGetCred(c)
                  \/ \E answer \in replies \cup {Junk} : ClientAuthServer(c, answer)
             \/ \E s \in Servers, token \in Sent : ServerAuth(s, token)
    BY <2>4, HandshakeTyped DEF TypeInv
  <2>5. QED
    BY <2>1, <2>2, <2>3, <2>4 DEF Next
<1>3. Init /\ Inv => TypeInv
  BY <1>1 DEF TypeInv
<1>4. QED
  BY <1>2, <1>3, InvHolds, PTL DEF Spec

\* The version that ClientInit and ServerInit add to the shared keytab is one of
\* the file's, and no token is answered that was not sent.
THEOREM TypesHold == Spec => []TypeOK
  BY TypeInvHolds, TypeInvType, PTL

-----------------------------------------------------------------------------
(* The newest key.                                                         *)

\* The versions follow the changes, but for one cut of their upper bits.
VersionsFollow ==
  \A e, f \in Range(file) :
    /\ e.time = f.time => e = f
    /\ e.time < f.time =>
         f.vno \in {e.vno + (f.time - e.time), e.vno + (f.time - e.time) - 256}

\* KerberosMoreRecent tells the order of versions that are less than 128 apart.
LEMMA VersionsTellOrder ==
  ASSUME FileInv, VersionsFollow, MaxRotations <= 127
  PROVE  InOrder(Range(file))
<1> SUFFICES ASSUME NEW e \in Range(file), NEW f \in Range(file), f.time < e.time
             PROVE  KerberosMoreRecent(e, f) /\ ~KerberosMoreRecent(f, e)
  BY DEF InOrder
<1>1. e \in Entries /\ f \in Entries /\ f.vno <= 255 + f.time
  BY DEF FileInv, Range
<1>2. /\ e.vno \in Nat /\ f.vno \in Nat /\ e.time \in Nat /\ f.time \in Nat
      /\ e.time <= 127
  BY <1>1, KerberosAssumption DEF KerberosAssumption, Entries, Kvnos
<1>3. e.vno = f.vno + (e.time - f.time) \/ e.vno = f.vno + (e.time - f.time) - 256
  BY DEF VersionsFollow
<1>4. QED
  BY <1>1, <1>2, <1>3 DEF KerberosMoreRecent, After

LEMMA VersionsKeepFollowing ==
  ASSUME TypeInv, VersionsFollow, MaxRotations <= 127, [Next]_vars
  PROVE  VersionsFollow'
<1>1. CASE ChangeKey
  <2> DEFINE last == Latest(file)
  <2>1. PICK v : LET new == [vno |-> v, time |-> last.time + 1]
                 IN  /\ v \in {last.vno + 1, (last.vno + 1) % 256}
                     /\ last \in Entries /\ new \in Entries
                     /\ Range(file') = Range(file) \cup {new}
    BY <1>1, ChangeKeyFacts DEF TypeInv
  <2> DEFINE new == [vno |-> v, time |-> last.time + 1]
  <2>2. /\ file \in Seq(Entries) /\ last \in Range(file)
        /\ \A e \in Range(file) : e.time <= last.time
    BY <1>1, LatestExists DEF TypeInv, FileInv, ChangeKey
  <2>3. last.vno <= 255 + last.time /\ last.time \in Nat /\ last.vno \in Nat
        /\ last.time + 1 <= 127
    BY <2>1, <2>2, KerberosAssumption
       DEF KerberosAssumption, TypeInv, FileInv, Entries, Kvnos
  <2>4. v = last.vno + 1 \/ (v = last.vno - 255 /\ last.vno >= 255)
    <3>1. CASE v = last.vno + 1
      BY <3>1
    <3>2. CASE v = (last.vno + 1) % 256
      BY <2>3, <3>2
    <3>3. QED
      BY <2>1, <3>1, <3>2
  <2>5. ASSUME NEW e \in Range(file)
        PROVE  /\ e.time < new.time
               /\ new.vno \in {e.vno + (new.time - e.time), e.vno + (new.time - e.time) - 256}
    <3>1. e \in Entries /\ e.time <= last.time /\ e.vno <= 255 + e.time
      BY <2>2 DEF TypeInv, FileInv, Range
    <3>2. e.time \in Nat /\ e.vno \in Nat
      BY <3>1, KerberosAssumption DEF KerberosAssumption, Entries, Kvnos
    <3>3. \/ e = last
          \/ last.vno = e.vno + (last.time - e.time)
          \/ last.vno = e.vno + (last.time - e.time) - 256
      BY <2>2, <2>3, <3>1, <3>2 DEF VersionsFollow
    <3> HIDE DEF last
    <3>4. new.time = last.time + 1 /\ new.vno = v
      OBVIOUS
    <3>5. QED
      BY <2>3, <2>4, <3>1, <3>2, <3>3, <3>4
  <2>6. \A e \in Range(file') : e = new \/ e \in Range(file)
    BY <2>1
  <2>7. new.time \in Nat /\ \A e \in Range(file) : e.time \in Nat
    BY <2>3, EntriesTyped DEF TypeInv
  <2> HIDE DEF new
  <2>8. QED
    BY <2>5, <2>6, <2>7 DEF VersionsFollow
<1>2. CASE file' = file
  BY <1>2 DEF VersionsFollow
<1>3. QED
  BY <1>1, <1>2 DEF Next, vars, Destroy, ClientInit, ClientGetCred, ClientAuthServer,
     ServerInit, ServerAuth

LEMMA NewestChosen ==
  ASSUME TypeInv, VersionsFollow, MaxRotations <= 127, file # <<>>
  PROVE  KerberosGetEntry(file) = Latest(file)
<1>1. file \in Seq(Entries) /\ \A e \in Range(file) : e.time \in Nat
  BY EntriesTyped DEF TypeInv, FileInv
<1>2. InOrder(Range(file))
  BY VersionsTellOrder DEF TypeInv
<1>3. KerberosGetEntry(file) \in Range(file)
  BY <1>1, EntryFound
<1>4. \A e \in Range(file) : e.time <= KerberosGetEntry(file).time
  BY <1>1, <1>2, LatestFound
<1>5. Latest(file) \in Range(file) /\ \A e \in Range(file) : e.time <= Latest(file).time
  BY LatestExists DEF TypeInv
<1>6. KerberosGetEntry(file).time = Latest(file).time
  BY <1>1, <1>3, <1>4, <1>5
<1>7. QED
  BY <1>3, <1>5, <1>6 DEF VersionsFollow

\* Wherever the entries are in the file, and whether or not their versions were
\* cut to 8 bits, KerberosGetEntry takes the newest, for up to 127 changes.
THEOREM NewestKeysAreTaken ==
  ASSUME MaxRotations <= 127
  PROVE  Spec => NewestKeyIsTaken
<1> DEFINE Taken == \A o \in Objects : entry'[o] # entry[o] =>
                      entry'[o].vno = Latest(file).vno
<1>1. Init => VersionsFollow
  <2> SUFFICES ASSUME Init PROVE VersionsFollow
    OBVIOUS
  <2>1. \A e, f \in Range(file) : e = f /\ e.time = 0
    BY DEF Init, Range
  <2>2. QED
    BY <2>1 DEF VersionsFollow
<1>2. TypeInv /\ VersionsFollow /\ [Next]_vars => VersionsFollow'
  BY VersionsKeepFollowing
<1>3. TypeInv /\ VersionsFollow /\ [Next]_vars => Taken
  <2> SUFFICES ASSUME TypeInv, VersionsFollow, [Next]_vars, NEW o \in Objects,
                      entry'[o] # entry[o]
               PROVE  entry'[o].vno = Latest(file).vno
    OBVIOUS
  <2>1. \E x \in Objects : AddEntry(x)
    BY DEF Next, vars, ChangeKey, Destroy, ClientInit, ClientInitFails, ClientInitEnds,
           NoEntryAdded, ClientGetCred, ClientAuthServer, ServerInit, ServerInitFails,
           ServerInitStops, ServerInitSucceeds, ServerAuth, Objects
  <2>2. PICK x \in Objects : AddEntry(x)
    BY <2>1
  <2>3. x = o /\ entry'[o] = NewEntry(o)
    BY <2>2 DEF AddEntry, TypeInv, RestTyped
  <2>4. KerberosGetEntry(file) = Latest(file)
    BY <2>2, NewestChosen DEF AddEntry
  <2>5. QED
    BY <2>3, <2>4 DEF NewEntry
<1>4. QED
  <2>1. VersionsFollow /\ [][Next]_vars /\ []TypeInv => []VersionsFollow
    BY <1>2, PTL
  <2>2. TypeInv /\ VersionsFollow /\ [Next]_vars => [Taken]_vars
    BY <1>3
  <2>3. Spec => [][Taken]_vars
    BY <1>1, <2>1, <2>2, TypeInvHolds, PTL DEF Spec
  <2>4. QED
    BY <2>3 DEF NewestKeyIsTaken

\* One change more and a version cut to 8 bits seems older than the oldest.
LEMMA BoundIsSharp ==
  ~KerberosMoreRecent([vno |-> (128 + 128) % 256, time |-> 128],
                      [vno |-> 128, time |-> 0])
  BY DEF KerberosMoreRecent, After

=============================================================================
