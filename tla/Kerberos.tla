------------------------------ MODULE Kerberos ------------------------------
(***************************************************************************)
(* Kerberos authentication (src/cdf/modules/authentication/kerberos): the  *)
(* clients and the servers of a process, the objects of the krb5 and GSS   *)
(* libraries they hold, the MEMORY keytab all of them share, and the       *)
(* handshake.  Messages may be lost, repeated and reordered.               *)
(*                                                                         *)
(* A library call may fail at any time.  The API is documented as not      *)
(* thread-safe, so a call is one step; calls of different objects mix      *)
(* freely.  Calls that are refused before they change anything have no     *)
(* action.  The replies' buffer is "out"; what its bytes are, beyond the   *)
(* token they answer, is left out.                                         *)
(***************************************************************************)
EXTENDS Integers, Sequences, SequencesExt

CONSTANTS
  Clients, Servers,  \* KrbClient and KrbServer objects
  FirstVnos,         \* the key versions a keytab file may begin with
  MaxRotations,      \* bound on changes of keys
  MaxInits,          \* bound on the calls of ClientInit and ServerInit
  MaxTokens          \* bound on ClientGetCred, per client

Objects == Clients \cup Servers

ASSUME KerberosAssumption ==
  /\ Clients \cap Servers = {} /\ "nobody" \notin Clients
  /\ FirstVnos \subseteq 0..255
  /\ MaxRotations \in Nat /\ MaxInits \in Nat /\ MaxTokens \in Nat

VARIABLES
  file,       \* the keytab file's entries for the objects' principal
  held,       \* the fields of an object that are not null
  entry,      \* keytabEntry_, as of the last KerberosGetEntry
  memKeytab,  \* the entries in MEMORY:OCKSecurityKTName
  initial,    \* g_initial
  made,       \* the security contexts a client has begun
  replies,    \* the tokens that a server accepted and answered
  served,     \* the tokens for which ServerAuth returned CDF_OK
  done,       \* the tokens for which ClientAuthServer returned CDF_OK
  inits,      \* history: the number of calls of ClientInit and ServerInit,
  reused,     \* the objects initialised while they held something,
  spent,      \* the clients that called ClientAuthServer since,
  leaky       \* the objects that overwrote a field that was not null

handshakeVars == <<made, replies, served, done>>
vars == <<file, held, entry, memKeytab, initial, made, replies, served, done,
          inits, reused, spent, leaky>>

-----------------------------------------------------------------------------
(* Fields.  "opts" are krb5_get_init_creds_opt, "cred" are                 *)
(* clientCredentials_ and serverCredentials_, "gssctx" the GSS context.    *)

KrbCtxFields == {"context", "principal", "keytab", "entry", "ccache", "opts"}
GssFields == {"clientName", "serviceName", "cred", "gssctx", "out"}

\* The fields the Init calls overwrite, in this order.
ClientOrder == <<"context", "principal", "keytab", "entry", "ccache", "opts",
                 "clientName", "serviceName">>
ServerOrder == <<"context", "principal", "keytab", "entry", "serviceName">>
Found == 4  \* the position of "entry"

First(order, k) == {order[i] : i \in 1..k}

\* KerberosUninit leaves keytabEntry_ alone; KerberosDestroyKeytab does not.
KerberosUninit(fields) == fields \ (KrbCtxFields \ {"entry"})
KerberosDestroyKeytab(fields) == KerberosUninit(fields \ {"entry"})

ContextForgotten(fields) == fields  \* mutant of DeleteContext
DeleteContext(fields) == fields \ {"gssctx"}

\* What is left when an Init call fails: the first k fields are overwritten,
\* with new objects except the last.  Those are freed, with what is left of the
\* old ones; keytabEntry_ only if it was set.
AfterFailureKeepingEntry(fields, order, k) ==
  KerberosUninit((fields \ First(order, k)) \cup First(order, k - 1))
    \ (First(order, k) \cap GssFields)  \* mutant of AfterFailure

AfterFailure(fields, order, k) ==
  LET now == (fields \ First(order, k)) \cup First(order, k - 1)
  IN  (IF k > Found THEN KerberosDestroyKeytab(now) ELSE KerberosUninit(now))
        \ (First(order, k) \cap GssFields)

-----------------------------------------------------------------------------
(* The keytab file: a sequence of [vno, time].  Entries of principals other *)
(* than the objects' are skipped; what cannot be parsed ends the file.     *)

After(a, b) == a > b  \* KerberosTSAfter

HigherVno(k1, k2) == k1.vno > k2.vno  \* mutant of KerberosMoreRecent
KerberosMoreRecent(k1, k2) ==
  IF ~After(k2.time, k1.time) /\ k1.vno < 128 /\ k2.vno > 128 THEN TRUE
  ELSE IF ~After(k1.time, k2.time) /\ k1.vno > 128 /\ k2.vno < 128 THEN FALSE
  ELSE k1.vno > k2.vno

KerberosCompareEntry(cur, new) ==
  IF KerberosMoreRecent(new, cur) THEN new ELSE cur

\* kvno and enctype are 0 in all calls: any version, any type.
KerberosGetEntry(entries) ==
  FoldLeft(KerberosCompareEntry, Head(entries), Tail(entries))

Latest(entries) == CHOOSE e \in Range(entries) :
                     \A f \in Range(entries) : f.time <= e.time

\* The administrator changes the key, whose version a file's one byte may cut
\* off, and stores it in the file's first hole or at its end.
ChangeKey ==
  /\ Len(file) \in 1..MaxRotations
  /\ LET last == Latest(file)
     IN  \E v \in {last.vno + 1, (last.vno + 1) % 256}, i \in 1..Len(file) + 1 :
           file' = InsertAt(file, i, [vno |-> v, time |-> last.time + 1])
  /\ UNCHANGED <<held, entry, memKeytab, initial, handshakeVars, inits, reused,
                 spent, leaky>>

-----------------------------------------------------------------------------
(* Init calls.                                                             *)

NewEntry(o) == [owner |-> o, nth |-> inits + 1, vno |-> KerberosGetEntry(file).vno]

\* The history an Init call leaves; lost are the fields it overwrites.
Count(o, lost) ==
  /\ inits < MaxInits
  /\ inits' = inits + 1
  /\ reused' = reused \cup {x \in {o} : held[o] \ {"out"} # {}}
  /\ leaky' = leaky \cup {x \in {o} : held[o] \cap lost # {}}

\* The entry is read from the file and added to the shared keytab.
AddEntry(o) ==
  /\ file # <<>>
  /\ entry' = [entry EXCEPT ![o] = NewEntry(o)]
  /\ memKeytab' = memKeytab \cup {NewEntry(o)}

\* The call does not get that far, or removes the entry again.
NoEntryAdded(o, k) ==
  /\ k > Found => file # <<>>
  /\ UNCHANGED <<entry, memKeytab>>

\* ClientInit sets gssClientContext_ and clientCredentials_ to null first.
ClientReset == {"cred", "gssctx"}

ClientInitFails(c) ==
  \E k \in 1..Len(ClientOrder) :
    /\ held' = [held EXCEPT ![c] =
                  AfterFailure(@ \ ClientReset, ClientOrder, k)]
    /\ NoEntryAdded(c, k)
    /\ Count(c, ClientReset \cup First(ClientOrder, k))

\* The service's name is malformed and nothing is freed (7), or all went well.
ClientInitEnds(c) ==
  \E k \in {Len(ClientOrder) - 1, Len(ClientOrder)} :
    /\ held' = [held EXCEPT ![c] =
                  DeleteContext(@) \cup First(ClientOrder, k) \cup {"cred"}]
    /\ AddEntry(c)
    /\ Count(c, ClientReset \cup First(ClientOrder, k))

ClientInit(c) ==
  /\ ClientInitFails(c) \/ ClientInitEnds(c)
  /\ spent' = spent \ {c}
  /\ UNCHANGED <<file, initial, handshakeVars>>

\* ServerInit does so once the keytab is there.
ServerReset(k) == IF k > Found THEN {"cred", "gssctx"} ELSE {}

ServerInitFails(s) ==
  \E k \in 1..Len(ServerOrder) :
    /\ held' = [held EXCEPT ![s] =
                  AfterFailure(@ \ ServerReset(k), ServerOrder, k)]
    /\ NoEntryAdded(s, k)
    /\ Count(s, ServerReset(k) \cup First(ServerOrder, k))
    /\ UNCHANGED initial

\* MakeGssOIDDescStruct or MakeGssBufferDesc fails: nothing is freed.
ServerInitStops(s) ==
  /\ held' = [held EXCEPT ![s] = (@ \ ServerReset(Found + 1))
                                   \cup First(ServerOrder, Found)]
  /\ AddEntry(s)
  /\ Count(s, ServerReset(Found + 1) \cup First(ServerOrder, Found))
  /\ UNCHANGED initial

ServerInitSucceeds(s) ==
  /\ held' = [held EXCEPT ![s] = DeleteContext(@)
                \cup First(ServerOrder, Len(ServerOrder)) \cup {"cred"}]
  /\ AddEntry(s)
  /\ Count(s, ServerReset(Found + 1) \cup First(ServerOrder, Len(ServerOrder)))
  /\ initial' = TRUE

ServerInit(s) ==
  /\ ServerInitFails(s) \/ ServerInitStops(s) \/ ServerInitSucceeds(s)
  /\ UNCHANGED <<file, handshakeVars, spent>>

\* krb5_kt_remove_entry, unless there is no keytab (see EntryHasKeytab).
EntriesKept(o) == memKeytab  \* mutant of EntriesLeft
EntriesLeft(o) == memKeytab \ {e \in {entry[o]} : {"entry", "keytab"} \subseteq held[o]}

\* The destructors; the name may stand for a new object then.
Destroy(o) ==
  /\ held[o] # {}
  /\ held' = [held EXCEPT ![o] = {}]
  /\ memKeytab' = EntriesLeft(o)
  /\ UNCHANGED <<file, entry, initial, handshakeVars, inits, reused, spent, leaky>>

-----------------------------------------------------------------------------
(* The handshake.  A token is [from, nth]: the client and the number of    *)
(* its security context.                                                   *)

Token(c) == [from |-> c, nth |-> made[c]]
Tokens == {[from |-> c, nth |-> n] : c \in Clients, n \in 1..MaxTokens}
Sent == {t \in Tokens : t.nth <= made[t.from]}

CredUsedUp(fields) == (fields \ {"cred"}) \cup {"gssctx"}  \* mutant of TokenMade
TokenMade(fields) == fields \cup {"gssctx"}

\* gss_init_sec_context yields a token, or ClientGetCred deletes the context.
ClientGetCred(c) ==
  /\ "gssctx" \notin held[c] /\ "serviceName" \in held[c]
  /\ made[c] < MaxTokens
  /\ made' = [made EXCEPT ![c] = @ + 1]
  /\ held' = [held EXCEPT ![c] = TokenMade(@)]
  /\ UNCHANGED <<file, entry, memKeytab, initial, replies, served, done, inits,
                 reused, spent, leaky>>

\* The majors gss_init_sec_context may return for an answer, or for bytes that
\* are none (Junk): it only completes with the answer to this context's token.
Junk == [from |-> "nobody", nth |-> 0]

InitSecContext(c, answer) ==
  {"error"} \cup {m \in {"continue"} : "gssctx" \in held[c]}
    \cup {m \in {"complete"} : "gssctx" \in held[c] /\ answer = Token(c)}

\* The majors for which ClientAuthServer keeps the context, and returns CDF_OK.
ContextKept(major) == major \in {"complete", "continue"}
AuthSucceeds(major) == major = "complete"

ClientAuthServer(c, answer) ==
  \E major \in InitSecContext(c, answer) :
    /\ held' = [held EXCEPT ![c] =
                  IF ContextKept(major) THEN @ \ {"cred"}
                  ELSE DeleteContext(@ \ {"cred"})]
    /\ done' = done \cup {t \in {Token(c)} : AuthSucceeds(major)}
    /\ spent' = spent \cup {c}
    /\ UNCHANGED <<file, entry, memKeytab, initial, made, replies, served, inits,
                   reused, leaky>>

\* The fields once gss_accept_sec_context has returned and its output, if it
\* has one, is copied to serverCredOut_.
Accepted(fields, major, output) ==
  (fields \ {"out", "gssctx"})
    \cup {f \in {"gssctx"} : major # "error"} \cup {f \in {"out"} : output}

CheckReturnLoosely(major) == major # "error"  \* mutant of CheckReturn
CheckReturn(major) == major = "complete"

\* Whether an output is there, whatever the major is, and whether the client's
\* principal can be told.
ServerAuth(s, token) ==
  /\ initial
  /\ \E major \in {"complete", "continue", "error"}, output, told \in BOOLEAN :
       /\ held' = [held EXCEPT ![s] = DeleteContext(Accepted(@, major, output))]
       /\ leaky' = leaky \cup {x \in {s} : "gssctx" \in held[s]}
       /\ replies' = replies \cup {t \in {token} : major = "complete" /\ output}
       /\ served' = served \cup
                      {t \in {token} : output /\ CheckReturn(major) /\ told}
  /\ UNCHANGED <<file, entry, memKeytab, initial, made, done, inits, reused, spent>>

-----------------------------------------------------------------------------
Init ==
  /\ file \in {<<>>} \cup {<<[vno |-> v, time |-> 0]>> : v \in FirstVnos}
  /\ held = [o \in Objects |-> {}]
  /\ entry = [o \in Objects |-> [owner |-> o, nth |-> 0, vno |-> 0]]
  /\ memKeytab = {} /\ initial = FALSE
  /\ made = [c \in Clients |-> 0]
  /\ replies = {} /\ served = {} /\ done = {}
  /\ inits = 0 /\ reused = {} /\ spent = {} /\ leaky = {}

Next ==
  \/ ChangeKey
  \/ \E o \in Objects : Destroy(o)
  \/ \E c \in Clients :
       \/ ClientInit(c)
       \/ ClientGetCred(c)
       \/ \E answer \in replies \cup {Junk} : ClientAuthServer(c, answer)
  \/ \E s \in Servers :
       \/ ServerInit(s)
       \/ \E token \in Sent : ServerAuth(s, token)

Spec == Init /\ [][Next]_vars
-----------------------------------------------------------------------------
(* Properties.                                                             *)

Fields == KrbCtxFields \cup GssFields
Kvnos == 0..255 + MaxRotations
Entries == [vno : Kvnos, time : 0..MaxRotations]
KeytabEntries == [owner : Objects, nth : 0..MaxInits, vno : Kvnos]

TypeOK ==
  /\ file \in Seq(Entries) /\ held \in [Objects -> SUBSET Fields]
  /\ entry \in [Objects -> KeytabEntries] /\ memKeytab \subseteq KeytabEntries
  /\ initial \in BOOLEAN /\ made \in [Clients -> 0..MaxTokens]
  /\ replies \subseteq Sent /\ served \subseteq Sent /\ done \subseteq Sent
  /\ inits \in 0..MaxInits /\ reused \subseteq Objects
  /\ spent \subseteq Clients /\ leaky \subseteq Objects

\* However the calls fail, an object that is initialised once, or again only
\* after a failure that left nothing, loses no library object.
OnlyReuseLeaks == leaky \subseteq reused

\* The same objects never call krb5_kt_remove_entry without a keytab, as the
\* destructor does when a second Init fails early.
EntryHasKeytab ==
  \A o \in Objects \ reused :
    "entry" \in held[o] => {"context", "keytab"} \subseteq held[o]

\* The shared keytab holds the keys of the live objects, whatever others do,
\* and no more than those, unless an object was reused.
KeytabHoldsLiveKeys ==
  LET live == {entry[o] : o \in {x \in Objects : "entry" \in held[x]}}
  IN  live \subseteq memKeytab
      /\ \A e \in memKeytab \ live : e.owner \in reused

\* Wherever a file keeps a new key, and though a version's upper bits may be
\* cut off, an object takes the key that was stored last.
NewestKeyIsTaken ==
  [][\A o \in Objects : entry'[o] # entry[o] =>
       entry'[o].vno = Latest(file).vno]_vars

\* Neither side reports success for a token the other did not accept.
SuccessMeansAccepted == done \cup served \subseteq replies

\* A client keeps the credentials ClientInit acquired for its first attempt,
\* however many of its calls fail: else it would use the default ones.
CredsLastUntilAuth ==
  \A c \in Clients \ spent : "serviceName" \in held[c] /\ c \notin reused
                             => "cred" \in held[c]
=============================================================================
