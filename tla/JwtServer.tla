------------------------------ MODULE JwtServer ------------------------------
(***************************************************************************)
(* JwtAuthServer (src/cdf/modules/authentication/jwt): servers that sign   *)
(* and check tokens with a present and an old HMAC key, both encrypted by  *)
(* the key manager singleton that all of them share.                       *)
(*                                                                         *)
(* Only Start and Stop lock.  The other calls do not, and a key is freed   *)
(* and made anew while it is replaced, so the model has an application     *)
(* that makes one call of a server at a time.  A call that goes to the key *)
(* manager takes two steps or three, with time, the calls of other servers *)
(* and the key manager's other users in between.  Calls that are refused,  *)
(* and those of external servers, whose callers bring the key, change      *)
(* nothing and have no disjunct.                                           *)
(***************************************************************************)
EXTENDS Integers

CONSTANTS
  Servers, Keys,   \* servers, and plain keys callers may bring
  TokenLives,      \* tokenExpireMinutes, in ticks; -1: for ever
  KeyLives,        \* serverKeyExpiredHours, in ticks, or -1
  DefaultKeyLife,  \* JwtKeyPass::DEFAULT_SERVER_EXPIRE_HOURS
  OthersSetKm,     \* what other users of the key manager leave it: inited?
  NoKey,           \* a null key_ or oldKey_
  MaxTime          \* bound: the clock stops here

Modes == {"internal", "external"}

ASSUME JwtServerAssumption ==
  /\ TokenLives \subseteq Nat \cup {-1} /\ KeyLives \subseteq Nat \cup {-1}
  /\ DefaultKeyLife \in Nat /\ MaxTime \in Nat
  /\ OthersSetKm \subseteq BOOLEAN /\ NoKey \notin Keys

VARIABLES
  now,      \* CLOCK_REALTIME, which nobody sets back
  km,       \* inited_ of the key manager singleton; a failed Start may
            \* leave its token set, but without inited_ nobody uses it
  started,  \* started_
  mode,     \* options_.keyTransferMode
  header,   \* tokenHeader_: lifetime and creation time of every token
  keyLife,  \* keyPass_.serverKeyExpiredHours_
  key,      \* keyPass_.key_ and newKeyCreateTimeSec_
  oldKey,   \* keyPass_.oldKey_ and oldKeyCreateTimeSec_
  pc,       \* which call of the server is under way, if any
  began,    \* when it began
  arg,      \* the key it was given, or has read
  signer,   \* the key that signed the token to be validated
  lastSet   \* history: when a key was set in this run of a server, or -1

ringVars   == <<keyLife, key, oldKey, lastSet>>
serverVars == <<started, mode, header, ringVars>>
callVars   == <<pc, began, arg, signer>>
vars == <<now, km, started, mode, header, keyLife, key, oldKey, pc, began,
          arg, signer, lastSet>>

-----------------------------------------------------------------------------
(* Data: what tells tokens, and keys, apart.                               *)

Lives  == Nat \cup {-1}
Header == [life : Lives, created : Nat]

\* A key the server holds, and since when.
Held  == [key : Keys \cup {NoKey}, time : Nat]
Empty == [key |-> NoKey, time |-> 0]

\* A token carries its server's header and a signature.
Sign(s, k) ==
  [key |-> k, life |-> header[s].life, created |-> header[s].created]

\* CheckTokenExpiredTime: of the times the token itself carries.
TokenExpired(t) ==
  t.life # -1 /\ now >= t.created /\ now - t.created > t.life

\* JwtKeyPass makes an unsigned number of what may be -1, and takes what is
\* too large for the default.
KeyLife(hours) == IF hours = -1 THEN DefaultKeyLife ELSE hours

Expired(s, held) == held.time + keyLife[s] < now
Usable(s, held)  == held.key # NoKey /\ ~Expired(s, held)

-----------------------------------------------------------------------------
Init ==
  /\ now = 0 /\ km = FALSE
  /\ started = [s \in Servers |-> FALSE]
  /\ mode = [s \in Servers |-> "internal"]
  /\ header = [s \in Servers |-> [life |-> 0, created |-> 0]]
  /\ keyLife = [s \in Servers |-> DefaultKeyLife]
  /\ key = [s \in Servers |-> Empty] /\ oldKey = [s \in Servers |-> Empty]
  /\ pc = [s \in Servers |-> "idle"]
  /\ began = [s \in Servers |-> 0]
  /\ arg = [s \in Servers |-> NoKey] /\ signer = [s \in Servers |-> NoKey]
  /\ lastSet = [s \in Servers |-> [k \in Keys |-> -1]]

Tick ==
  /\ now < MaxTime
  /\ now' = now + 1
  /\ UNCHANGED <<km, serverVars, callVars>>

\* The PSK manager, the command line tool or the application itself.
KmByOthers ==
  /\ km' \in OthersSetKm
  /\ UNCHANGED <<now, serverVars, callVars>>

\* A call of s begins, with the key it works on and a token's signer.
Call(s, name, k, signed) ==
  /\ pc' = [pc EXCEPT ![s] = name]
  /\ began' = [began EXCEPT ![s] = now]
  /\ arg' = [arg EXCEPT ![s] = k]
  /\ signer' = [signer EXCEPT ![s] = signed]

\* The call of s returns.
Return(s) ==
  /\ pc' = [pc EXCEPT ![s] = "idle"]
  /\ began' = [began EXCEPT ![s] = 0]
  /\ arg' = [arg EXCEPT ![s] = NoKey]
  /\ signer' = [signer EXCEPT ![s] = NoKey]

Idle(s) == pc[s] = "idle" /\ started[s] /\ mode[s] = "internal"

-----------------------------------------------------------------------------
(* Start and Stop, which hold the mutex all servers share.                 *)

\* Assigning a new JwtKeyPass drops both keys.
NewKeyPass(s, hours) ==
  /\ keyLife' = [keyLife EXCEPT ![s] = KeyLife(hours)]
  /\ key' = [key EXCEPT ![s] = Empty]
  /\ oldKey' = [oldKey EXCEPT ![s] = Empty]
  /\ lastSet' = [lastSet EXCEPT ![s] = [k \in Keys |-> -1]]

\* The options and the header are kept even if the key manager then fails.
Start(s, m, life, hours) ==
  /\ pc[s] = "idle" /\ ~started[s]
  /\ mode' = [mode EXCEPT ![s] = m]
  /\ header' = [header EXCEPT ![s] = [life |-> life, created |-> now]]
  /\ \/ /\ m = "external"
        /\ started' = [started EXCEPT ![s] = TRUE]
        /\ UNCHANGED <<km, ringVars>>
     \/ /\ m = "internal"
        /\ km' = TRUE
        /\ NewKeyPass(s, hours)
        /\ started' = [started EXCEPT ![s] = TRUE]
     \/ /\ m = "internal" /\ ~km
        /\ UNCHANGED <<km, ringVars, started>>
  /\ UNCHANGED <<now, callVars>>

\* Stop uninits the key manager, whoever else still uses it.
Stop(s) ==
  /\ pc[s] = "idle" /\ started[s]
  /\ started' = [started EXCEPT ![s] = FALSE]
  /\ km' = IF mode[s] = "internal" THEN FALSE ELSE km
  /\ UNCHANGED <<now, mode, header, ringVars, callVars>>

-----------------------------------------------------------------------------
(* SetEncryptionKey and RefreshEncryptionKey.                              *)

Set(s, k) ==
  /\ Idle(s)
  /\ Call(s, "set", k, NoKey)
  /\ UNCHANGED <<now, km, serverVars>>

\* RefreshKey makes the present key the old one before it knows whether
\* SetKey will succeed; with no present key there is nothing to copy.
OldKeyKept(s) == oldKey[s]   \* mutant of OldAfterRefresh
OldAfterRefresh(s) == key[s]

Refresh(s, k) ==
  /\ Idle(s) /\ key[s].key # NoKey
  /\ oldKey' = [oldKey EXCEPT ![s] = OldAfterRefresh(s)]
  /\ Call(s, "refresh", k, NoKey)
  /\ UNCHANGED <<now, km, started, mode, header, keyLife, key, lastSet>>

\* JwtKeyPass::SetKey, after the key manager has encrypted the key or not.
\* The key is as old as the call.
SetEnd(s) ==
  /\ pc[s] \in {"set", "refresh"}
  /\ Return(s)
  /\ \/ /\ km
        /\ key' = [key EXCEPT ![s] = [key |-> arg[s], time |-> began[s]]]
        /\ lastSet' = [lastSet EXCEPT ![s][arg[s]] = began[s]]
     \/ UNCHANGED <<key, lastSet>>
  /\ UNCHANGED <<now, km, started, mode, header, keyLife, oldKey>>

-----------------------------------------------------------------------------
(* CreateToken.                                                            *)

Create(s) ==
  /\ Idle(s) /\ Usable(s, key[s])
  /\ Call(s, "create", key[s].key, NoKey)
  /\ UNCHANGED <<now, km, serverVars>>

\* CreateToken is about to return a token; the vault may still fail it.
Issues(s) == pc[s] = "create" /\ km

CreateEnd(s) ==
  /\ pc[s] = "create"
  /\ Return(s)
  /\ UNCHANGED <<now, km, serverVars>>

-----------------------------------------------------------------------------
(* ValidateToken of an internal server.                                    *)

\* One of the keys must be usable, but it is the present one that is read.
Validate(s, t) ==
  /\ Idle(s) /\ ~TokenExpired(t)
  /\ Usable(s, key[s]) \/ Usable(s, oldKey[s])
  /\ key[s].key # NoKey
  /\ Call(s, "validate", key[s].key, t.key)
  /\ UNCHANGED <<now, km, serverVars>>

\* The key that was read is decrypted, and the token's signature is its own.
Accepts(s) == pc[s] \in {"validate", "validate old"} /\ km /\ arg[s] = signer[s]

AnyOld(s) == oldKey[s].key # NoKey   \* mutant of OldIsTried
OldIsTried(s) == Usable(s, oldKey[s])

\* If it is not, and the old key is usable, that is read next.
ValidateOld(s) ==
  /\ pc[s] = "validate" /\ km /\ arg[s] # signer[s]
  /\ OldIsTried(s)
  /\ pc' = [pc EXCEPT ![s] = "validate old"]
  /\ arg' = [arg EXCEPT ![s] = oldKey[s].key]
  /\ UNCHANGED <<now, km, serverVars, began, signer>>

\* ValidateToken returns: OK if it accepts and the vault did not fail it.
ValidateEnd(s) ==
  /\ pc[s] \in {"validate", "validate old"}
  /\ Return(s)
  /\ UNCHANGED <<now, km, serverVars>>

-----------------------------------------------------------------------------
\* Tokens come from anywhere, signed and dated by whoever had a key.
Tokens == [key : Keys, life : TokenLives, created : 0..now]

Next ==
  \/ Tick \/ KmByOthers
  \/ \E s \in Servers :
       \/ \E m \in Modes, life \in TokenLives, hours \in KeyLives :
            Start(s, m, life, hours)
       \/ Stop(s) \/ SetEnd(s) \/ Create(s) \/ CreateEnd(s)
       \/ ValidateOld(s) \/ ValidateEnd(s)
       \/ \E k \in Keys : Set(s, k) \/ Refresh(s, k)
       \/ \E t \in Tokens : Validate(s, t)

Spec == Init /\ [][Next]_vars
-----------------------------------------------------------------------------
(* Properties.                                                             *)

Calls == {"idle", "set", "refresh", "create", "validate", "validate old"}

\* The types of what the servers and their calls keep.
TypeOK ==
  /\ now \in Nat /\ km \in BOOLEAN
  /\ started \in [Servers -> BOOLEAN] /\ mode \in [Servers -> Modes]
  /\ header \in [Servers -> Header] /\ keyLife \in [Servers -> Nat]
  /\ key \in [Servers -> Held] /\ oldKey \in [Servers -> Held]
  /\ pc \in [Servers -> Calls] /\ began \in [Servers -> Nat]
  /\ arg \in [Servers -> Keys \cup {NoKey}]
  /\ signer \in [Servers -> Keys \cup {NoKey}]
  /\ lastSet \in [Servers -> [Keys -> Lives]]

\* A token that an internal server accepts was signed with a key set since
\* that server's last start, and set no longer than the key's lifetime before
\* the call, whatever was refreshed, refused or restarted in between.
AcceptedKeyIsFresh ==
  \A s \in Servers : Accepts(s) =>
    /\ lastSet[s][signer[s]] # -1
    /\ began[s] - lastSet[s][signer[s]] <= keyLife[s]

\* No refresh, whether it succeeds or fails, takes the key that was present
\* before it out of the server: tokens signed with that key stay valid.
PresentKeyIsKept ==
  [][\A s \in Servers :
       key[s].key \in {key'[s].key, oldKey'[s].key}
         \/ pc[s] = "set" \/ ~started[s]]_vars

\* A server that is started with keys of its own has a key manager to encrypt
\* them, the one its Start borrowed or inited, until it is stopped itself.
\* Another server's Stop breaks it, as jwt_stop shows.
StartedServerHasKm ==
  \A s \in Servers : started[s] /\ mode[s] = "internal" => km

\* Where every server asks for keys without expiration, none expires.
\* Claimed in option.h, and broken, as jwt_never shows.
UnlimitedKeyStays ==
  KeyLives = {-1} =>
    \A s \in Servers : key[s].key # NoKey => ~Expired(s, key[s])

\* A token is valid when CreateToken makes it: broken, as jwt_age shows.
IssuedTokenIsValid ==
  \A s \in Servers : Issues(s) => ~TokenExpired(Sign(s, arg[s]))
=============================================================================
