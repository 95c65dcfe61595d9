# Specifications of cdf-crypto

TLA+ models of the stateful parts of cdf-crypto (`src/cdf`), TLC configurations
that check them on small instances, and TLAPS proofs that hold for every value
of the constants. Paths below are relative to `src/cdf` unless they begin with
`docs/` or `test/`.

1. [The system](#1-the-system)
2. [Modules, and how they follow the code](#2-modules-and-how-they-follow-the-code)
3. [Runs, bounds and fairness](#3-runs-bounds-and-fairness)
4. [Proofs](#4-proofs)
5. [Where code and documentation disagree](#5-where-code-and-documentation-disagree)
6. [What is not modelled](#6-what-is-not-modelled)
7. [What could come next](#7-what-could-come-next)

Running: `tlc -config km_vault.cfg MCOpenbaoKeyManager.tla`, and in the same way
for the others; `tlapm PskManagerProofs.tla` for a module of proofs. For every
property of a passing run `PROJECT.json` names a *mutant*, a plausible error in a
definition (the comment "mutant of" marks its body), with which the run finds
the property violated.

## 1. The system

| Component | Files | State | Operations | Uses |
|---|---|---|---|---|
| Key manager | `modules/key_management/openbao` | singleton: `inited_`, `domainCount_`, `accessToken_`, `domainKeyMap_` (domain → key id → creation time), guarded by `mutex_`; and the vault's transit engine | Init, UnInit, CreateKey, RemoveKey, DeleteAllKey, CheckDomainKeysExpired(AndAutoUpdate), Encrypt, Decrypt, GetLatestKey | the command runner |
| Command runner | `openbao_utils.cpp` | `g_mtx`, two pipes and a child process per command | ExecOpenbaoCmd, login | the vault's client program |
| Factory, vault key manager | `modules/key_management` | the type of the active key manager | forwarding | key manager |
| `KmCryptor` | `modules/key_management/km_cryptor.cpp` | none | Encrypt, Decrypt | key manager, cryption |
| Cryption | `modules/cryption` | process wide: the `CryptoEngine`'s cipher suite, under `NativeCryptor`'s static `gMutex`; per object: the digest context of `Hash`, the buffers of a call | NativeCryptor Encrypt, Decrypt, KeyEncrypt, KeyDecrypt; Hash Update, Finalize, Reset; HashStream; Pbkdf2Hmac, GetPbkdf2Config | OpenSSL, Rand |
| Command line tool | `cli` | the terminal's echo; per process, the key manager's map | encrypt, reEncrypt, createkey, displaykey, removekey | `KmCryptor`, key manager |
| PSK manager | `modules/psk_management` | singleton: `pskContentMap_`, `pskIdMap_`, `curPskMaxId_`, `options_`, `initCount_`, guarded by `rwMutex_`; the application's storage behind callbacks | Init, UnInit, GeneratePsk, ImportPsk, UpdatePsk, DeletePsk, LoadAllPsk, CheckPskValid(AndAutoUpdate), getters | key manager, Rand, callbacks |
| JWT server | `modules/authentication/jwt` | per server: `started_`, `options_`, `tokenHeader_`, present and old key with times | Start, Stop, SetKey, RefreshKey, CreateToken, ValidateToken | key manager |
| Random numbers | `modules/rand` | process wide: the DRBG chain, `g_initialized`, active configuration, providers; `g_initMutex`, `g_randMutex`, `g_providerMutex` | RandInit, GetRand, GetSecurePwd, RandDeinit, GetRandHealthStatus | OpenSSL |
| Kerberos | `modules/authentication/kerberos` | per client and server: `KrbCtx`, GSS names, credentials, context; process wide: `g_initial`, `MEMORY:OCKSecurityKTName` | ClientInit, ClientGetCred, ClientAuthServer, ServerInit, ServerAuth, destructors, KerberosGetEntry | krb5, GSS |
| Whitelist | `modules/authorization` | a table | add, remove, check | |
| Utilities, logging | `utils`, `base` | none that survives a call, but for a log level | | |

**How they interact.** The key manager is one object for the whole process: the
JWT servers, the PSK manager, the CLI and the application each Init and UnInit it
without counting each other, and each only asks whether it is inited. The PSK
manager calls the application back while it holds its lock. The key manager runs
a program for each vault command while it holds its own; that program inherits
the process's descriptors. Every run of the command line tool is a process with a
key manager of its own, so runs meet only in the vault. NativeCryptor's objects
share one engine and its suite. Kerberos objects share nothing but a keytab in
memory and one flag.

**What is hard here.** Locks that are given up between a check and its use
(AutoUpdate of a PSK, LoadAllPsk); a lock taken again by its holder (Encrypt and
CreateKey); vault commands that fail, or succeed and lose their answer, between
two assignments; process crashes between a vault command and the map's update;
key ids that are reused; an external user who uninits what another needs;
callbacks that fail or lie; ids, times and versions at the end of their type;
partly built chains of library objects; messages lost, repeated and mixed up;
descriptors closed twice, whose number another thread may have got in between;
plaintext that is written before its tag is compared; processes with stale maps
of one vault; a terminal left without echo.

**What makes each part correct.** *Key manager:* the map says what the vault has,
a call works on the key it picked, nothing else is deleted, removed keys stay
removed, updated keys can be used, the lock comes back. *PSK manager:* two maps
and a storage that agree, nothing in memory that is not stored, replaced content
is dead, only expired PSKs are renewed, ids are not used twice, the limit holds.
*JWT:* only fresh keys validate, refreshing loses no present key, a token is
valid when issued, a started server has its key manager. *Rand:* nothing is drawn
from an unfinished or freed chain, a failure frees everything in order, calls
end. *Kerberos:* nothing leaks on any failing path, the shared keytab has the
live keys, both sides agree on success. *Cryption:* what was encrypted opens,
nothing else does, no text is left behind, a digest is of all the input, packed
parameters come back. *Command runner:* no descriptor is left or taken from
others, every call returns. *Tool:* a run ends, a text survives re-encryption,
the terminal echoes again.

## 2. Modules, and how they follow the code

Each component has its module, an `MC` module for TLC and a `Proofs` module. A
call that the code refuses before it changes anything is a stuttering step and
has no action. `PROJECT.json` maps each definition to its lines.

### OpenbaoKeyManager
The calls are programs of threads, with a program counter `pc` and locals `arg`.
A step is the code from the end of one vault command to the end of the next:
commands are serialised by `g_mtx` and everything between them happens under
`mutex_` (UnInit alone takes no lock: `UnInitAnywhere` says whether it may
overlap others, and the runs use both). `vault` is the transit engine as the
commands use it (external). `Outcomes` are what a command comes back with: done,
*failed* (nothing happened), *lost* (it happened, and the answer did not arrive)
and *silent* (nothing happened, and `ExecOpenbaoCmd` takes it for success,
because it does not look at the exit status of the child). Keys carry a
*generation*, so that key material made under a reused id differs from what was
there. `ciphers`, `removed` and `unheard` are history: what Encrypt returned, and
the keys whose removal RemoveKey reported, on an answer of the client and on a
silent one. `Crash` loses the process and keeps the vault.

`KeyStore` is what all of that promises: keys that are made, removed and used one
at a time, with material that is never made twice, of which the manager offers
some. It knows no threads, locks, commands, answers or times. The refinement
mapping in `OpenbaoKeyManager` takes the generation in the vault for a slot's
material, `MapKeys` for what is known, and the generations below `nextGen` for
`used`. The steps of it are the commands that take effect: `write -f` maps to
`Make`, a delete to `Delete` (with its report, when it is RemoveKey's and its
answer arrived), a removal that RemoveKey only believes in to `Hide`, the entry
of a read time to `Learn`, an export for Encrypt to `Encrypt`, UnInit, a crash
and a failed PrepareMap to `Forget`; everything else is a stutter. So between the
checks of a call and the command that acts on them nothing may have changed that
`KeyStore` guards with: that is what the refinement is about. `Offered` has the
one exception, a call whose map UnInit cleared.

### PskManager
Every operation holds `rwMutex_` from its first check to its return and is one
action, but for the two that give it up: LoadAllPsk between `CheckInited` and the
lock, CheckPskValidAndAutoUpdate between finding a PSK expired and calling
UpdatePsk. `storage` is what the application's callbacks keep; `Outcomes` says
how a callback comes back. `KmByOthers` sets the shared key manager to whatever
its other users leave it as. With `Careful` the application loads first after a
start and changes nothing while it loads, as the documentation asks. `BeginTimes`
are the begin times callers give; a PSK's end time counts from them.

`PskStore` is what all of that promises: a durable set of PSKs that changes by
one at a time (Add, Replace, Remove) and a service that offers the whole set or
nothing. It knows no ids, locks, callbacks, loads or restarts. The refinement
mapping in `PskManager` takes the PSKs in storage for the set, those in memory for
what is offered once the application has loaded, the contents made so far for
`used`, and `options_.pskMaxCount` for the limit. A crash, UnInit, Init and a load
map to `Restart`, a refused or failed call to `Refuse`, a rotation to `Replace`.

### JwtServer
A call that goes to the key manager takes two or three steps, with time and the
calls of other servers in between. Only Start and Stop lock; a concurrent refresh
frees what another call reads, so the model's application makes one call of a
server at a time. `km` is the key manager's `inited_`, which is all that a server
asks of it; the vault token it holds is in `OpenbaoKeyManager`. `KmByOthers` sets
`km` to whatever its other users leave. `Sign` and `Accepts` treat an HMAC as the
pair of key and header. `lastSet` is history.

### Rand
A step is what a thread does between two lock operations; building the chain
takes six steps, any of which may fail; a build that fails frees the chain in one
step and unloads the providers in the next. `g_providerMutex` is only ever taken under
`g_initMutex` and is left out.

### Kerberos
`held[o]` is the set of an object's fields that are not null. Init calls
overwrite the fields of `ClientOrder` and `ServerOrder` in turn; `AfterFailure`
is what the clean-up leaves after the k-th failed, and it differs before and
after the keytab entry is there (`KerberosUninit`, `KerberosDestroyKeytab`). A
field that is overwritten while it holds something is lost for good: `leaky`.
`memKeytab` is the shared keytab, each entry tagged with its maker (equal
entries are interchangeable for `krb5_kt_remove_entry`). `Sent` and `replies` are
messages that may be lost, repeated and delivered to anyone. The API is
documented as not thread-safe (`docs/api_documentation.md:1259`), so a call is
one step.

### NativeCryptor, Hash, Pbkdf2
Three parts of `modules/cryption` that share no state; `MCCryption` runs them side
by side. In `NativeCryptor` the engine's suite is one variable that each step of a
call reads again, as the code does, and `gMutex` is what keeps other threads from
changing it. A ciphertext is a record of its five regions; the IV of SM4 overlaps
the AAD, and `Filled` writes it in the code's order. What OpenSSL makes of a text is
the tuple of everything it depends on. `scratch` is Decrypt's plaintext on the
stack, which the engine fills before it compares the tag (CCM excepted). `Hash` has
an OpenSSL context or a BLAKE3 hasher and a digest is the sequence of chunks it is
of; `HashStream` may meet a read error. `Pbkdf2` packs and unpacks the header
bytes, with lengths for key and salt; reading may also throw, when the wrapped
length of a salt is more than a vector can have. `InitCrypto` takes no part in
`gMutex`, in the code and here: it may come at any point of a call.

### OpenbaoExec
ExecOpenbaoCmd (`openbao_utils.cpp`), one system call at a time. `table` is the
process's descriptor table, in which open and pipe take the lowest free numbers;
`pipe` is what the call believes its numbers are. A close acts on the number,
whoever has it by now. Clients hold the ends they inherited until they end, and a
helper child of another thread does, too, because no pipe is close-on-exec.
`OpenbaoKeyManager` takes ExecOpenbaoCmd as atomic under `g_mtx` and models what
comes back; this module justifies the lock and looks at the rest.

### CryptoTool
The five commands of the tool as runs of processes, one per terminal, against one
vault (external). A step is what a run does between two vault commands or two
things that are typed. It has the `KmCryptor` dispatch and the part of the key
manager a single process exercises; `map` is that process's `domainKeyMap_`, read
once and possibly stale. A key's *material* tells keys apart that used the same
id. Ctrl-C is `Kill`.

## 3. Runs, bounds and fairness

| Run | Result | What it shows | Instance, and why it is enough |
|---|---|---|---|
| `km_threads` | passes | OpenbaoKeyManager implements `KeyStore`, locks and check-then-use hold, only mapped keys are deleted, and no key passes for younger than it is, with failed, lost and silent commands, UnInit anywhere, crashes | 2 threads, 2 domains, 2 ids, 2 generations: enough for an id to be reused while another call holds it |
| `km_vault` | passes | map and vault agree | no faults; 3 generations and 2 ticks: keys expire and are rotated, ids are reused |
| `km_live` | passes | the lock is returned | without rotation, faults, crashes and GetLatestKey, any of which may leave Encrypt without a key it can use, and so waiting for itself (`km_upgrade`); no symmetry, because it is a liveness check |
| `km_upgrade` | violated | Encrypt without a key waits for itself | the only operations are those that lead there |
| `psk` | passes | maps, storage, ids, replaced contents; PskManager implements `PskStore` | 2 threads, ids up to 5, limit 2 or 4, 4 contents, 2 domains (only the default one can be loaded), a key manager that others init and uninit: two rotations, a deletion, a crash and a renumbering load fit, and a load that UnInit or a failed decryption cuts short |
| `jwt` | passes | fresh keys only, present key kept | 2 servers, 2 keys, a key life of 1 (the default, from -1) and 2 ticks: keys expire, both servers and others fight for the key manager |
| `jwt_age` | violated | tokens are born expired | 1 server, 3 ticks |
| `rand` | passes | chain, providers, passwords, configuration, calls end | 2 threads, 2 attempts and 2 retries, a refused and a full configuration: every lock is contended |
| `crypt` | passes | encryption, digests, packed parameters | 2 threads, 4 suites of 2 key lengths, 2 encryptions; 2 chunks; configurations on either side of each limit: enough for two calls to want different suites and for every region of a ciphertext to be spoilt |
| `exec` | passes | descriptors, waiting | 2 threads, one file of another thread, 7 numbers (three pipes and one more), a pipe that holds 1 of up to 2: pipe() meets its limit, freed numbers are taken at once, clients block on a full pipe |
| `tool` | passes | hanging runs, stale maps, echo | 2 terminals, 2 ids, 2 keys, 2 ciphertexts, an algorithm that authenticates and one that does not, failed and lost commands: an id is used again while another run's map has it |
| `krb` | passes | leaks, shared keytab, choice of key, success, credentials | 2 clients, 1 server, 2 Init calls, 2 changes of keys from version 127 or 255: a reuse, the sign bit and the wrap of a byte |

Bounds are constants and appear in guards only: `MaxTime` stops the clock,
`MaxGen`, `MaxContents`, `MaxInits`, `MaxTokens`, `MaxRotations` stop new things
from being made; so do `MaxPrinted` and `MaxFills`, and `MaxChunks`. Time is
counted in ticks; a lifetime is one or two of them. Deadlock is checked except in
`km_upgrade` (which is about one) and `krb` (whose bounds may leave nothing to
do).

**Fairness.** `km_live` and `km_upgrade` use weak fairness of each thread's next
step in a call it has begun: the scheduler runs it and the vault's client
program ends. `ExecOpenbaoCmd` has no time-out, so the second half is an
assumption on that program. No fairness makes anybody call anything. `rand` uses
the same; `CallsReturn` says that when threads stop calling, each call returns
(under a steady stream of RandDeinit from others, GetRand may use up its attempts
but not more). Weak fairness suffices there because after the last call a mutex
that is free stays free until a waiter takes it. `exec` uses weak fairness of a
call's own steps, of the clients' and of the end of other children; taking `g_mtx`
and failing are not fair. `LockIsReleased` there is then the absence of the
deadlocks pipes invite: an end kept open that a reader waits for, a client that
waits for room while the parent waits for it. The other runs state safety only.

**Symmetry** is used for threads, servers, clients and keys, in runs without
liveness properties.

## 4. Proofs

Each theorem is `Spec => []P` or `Spec => [][A]_vars` by an inductive invariant
(`Inv`, `LockInv`) for any number of threads, keys, objects and steps. The
assumptions are the named ASSUME of the module (ranges of constants) and those
listed here.

| Module | Theorems | Argument |
|---|---|---|
| `OpenbaoKeyManagerProofs` | `ManagerImplementsKeyStore`, `NoKeySeemsYounger`, `MappedKeysAreStored`, `CallsAreBounded`, `TypeCorrect`, `MutexIsExclusive`, `PickedKeyStays`, `NewestKeyStays`, `RemovedStaysRemoved`, `MapIsTheVaults`, `DeletesOnlyMapped` | `LockInv`: an exclusive thread excludes every other; hence no step of another thread changes `vault` or the map while a key is held. UnInit takes no lock but touches no vault key and only empties the map, which keeps "newest" true. For removal: generations never come back, a removed one is below `nextGen` and not in the vault. A removal reported on a silent answer goes to `unheard`, which is why `RemovedStaysRemoved` needs no assumption on the faults. `MapIsTheVaults` alone assumes `Calm`: no command fails, UnInit overlaps no call (what `km_vault` assumes too) and creation times fit a JSON int. `Sync` says for every program counter which keys of the map are the vault's: all of them but the key in hand, or, while Init reads, the keys it has read. A crash only empties the map, so `MapIsTheVaults` covers crashes. When commands may fail, less holds: `MappedKeysAreStored` (no lost answers, no AutoUpdate) keeps the half of `MapMatchesVault` that says what is mapped is stored, at every step, and `NoKeySeemsYounger` keeps the order of times under every fault: `TimesInv` adds that no time in the map or the vault is later than now, so what is written over a key is stamped no earlier than the time the map has for it. For the refinement and for `DeletesOnlyMapped`, `MappedInv` says that the key a call works on stays mapped until the call is done, unless UnInit emptied the map: the one exception those deletions have, besides DeleteAllKey's failure branch. `CallsAreBounded` measures a call by the set of vault commands it may still run, each with its key (`CommandsLeft`); `LoopInv` says that the key AutoUpdate has in hand is off its list |
| `PskManagerProofs` | `TypeCorrect`, `MapsAreInverse`, `MemoryStaysStored`, `StorageIsMemory`, `RotatedStaysDead`, `PskStoreIsImplemented` | every id is below the next one, no content is live or listed twice, so emplace never meets an entry. Assumes limits below UINT32_MAX (`SafeLimits`: the counter would wrap onto used ids) and no content imported twice (`Duplicates = FALSE`: a second import of the same content leaves the index at the first). The last four assume `HonestApplication`: all three callbacks are registered and tell the truth about failing, and the application loads first and changes nothing while it loads. `CareInv` says that storage, memory and every list being loaded have the same PSKs; it needs that ranks tell ids apart, so that renumbering loses none. Each action then maps to a step of `PskStore` or leaves it as it was (`CareStep`, `ServeHolds`) |
| `JwtServerProofs` | `TypeCorrect`, `AcceptsFreshKeys`, `KeepsPresentKey` | the old key is never younger than the present one, so asking only the old key for its age, as the code does, suffices; and a validation works with a key that was fresh when it began. During a refresh the old key is a copy of the present one (`CopyInv`), so the key a token was signed with is always one of the two. |
| `RandProofs` | `TypeCorrect`, `DrawsSafely`, `ProvidersLast`, `PwdsAreStrongOrErased`, `ConfigsAreKept`, `ReadersAreSafe`, `NoDeadlock`, `CallsAreBounded` | who is where holds which mutex (`MutexInv`); the chain is finished whenever `g_initialized` is set and nobody deinitialises (`ChainInv`). `NoDeadlock`: nobody waits for a mutex while it has `g_randMutex`, so its holder can go on, and when nobody has that, the holder of `g_initMutex` can. `CallsAreBounded`: rounds, attempts and steps left, in lexicographic order, get less with each step of the call |
| `KerberosProofs` | `TypesHold`, `NewestKeysAreTaken`, `NothingLeaks`, `EntriesHaveKeytabs`, `KeytabKeepsLiveKeys`, `SuccessIsShared`, `CredsLast` | an object's live entry is in the keytab (`LiveKeysThere`), an entry in the keytab is live unless its owner was reused (`OthersGone`), entries name their owner (`EntriesOwned`), a server keeps no context between calls (`NoContextKept`). An object that was not reused held nothing when its Init began, so what a failure leaves is at most its reply buffer; the lemmas on `First` and `AfterFailure` say so for each k. What a fold over a file yields is shown by induction over the positions of that one file, in which the entries may be in any order; `VersionsFollow` relates their versions to their ages. `NewestKeysAreTaken` assumes `MaxRotations` at most 127, and `BoundIsSharp` shows two keys 128 versions apart of which the newer is passed over |
| `CryptionProofs` | `CryptorTypes`, `IssuedCiphertextsOpen`, `NothingElseOpens`, `StackIsClean`, `DigestsAreOfAllInput`, `StringsReadBack` | the thread in a call holds `gMutex`, so the suite it reads again is still its own; a buffer's tag is made from the regions as they are when it is returned. `StringsReadBack` is arithmetic on the header's bytes |
| `OpenbaoExecProofs` | `TypeCorrect`, `NothingIsLeft`, `OthersAreSpared`, `NobodyWaitsInCircles`, `CallsAreBounded` | an end of a pipe sits under the number the call has for it, and a file opened while no call was under way is under none of the call's numbers but 0, which is there only before pipe() fills it. `WaitInv` says for each point of a call which ends the process and its clients still have: by the time the call reads, its own copies of the ends that would keep the read waiting are closed. `NobodyWaitsInCircles` assumes that a pipe holds something (`Capacity > 0`) |
| `CryptoToolProofs` | `TypeCorrect`, `EchoHolds`, `TextHolds`, `HangHolds` | key material is below `gen` and never comes back, so an unremoved key is still under its id; a key that was found stays exportable unless somebody removes it; the state saved last is the one before the echo went off |

**Only model-checked.** Three liveness properties, which TLC checks under the
fairness of section 3: both `LockIsReleased` and `CallsReturn`. Their safety half is
proved: in Rand and OpenbaoExec threads never wait for each other in a circle
(`NoDeadlock`, `NobodyWaitsInCircles`), and there and in the key manager a call has
finitely many steps, whoever interleaves (`CallsAreBounded`); that a thread which can
go on does go on is the fairness, and stays with TLC. (Encrypt without a key, which
`km_upgrade` shows to wait for itself, has no command left and never goes on.)

**Proved, and in no run.** `MutexExclusive` and `MapNamesStoredKeys` (key
manager), `ConfigIsKept` and `SomebodyGoesOn` (Rand), `NoCircularWait`
(OpenbaoExec), the three `CallsGetShorter`, and the type invariants. TLC found no
violation of them on the instances of section 3 either (`MapNamesStoredKeys` on
that of `km_threads` without lost answers and AutoUpdate).

## 5. Where code and documentation disagree

Shown by a run of section 3 (`findings` in `PROJECT.json`):
- `km_upgrade`: Encrypt calls CreateKey while it holds `mutex_` shared, and waits
  for ever (`openbao_key_manager.cpp:743`).
- `jwt_age`: a token's time counts from the server's start
  (`jwt_auth_server.cpp:101`).

Shown by a configuration that is kept beside the runs, with which TLC finds one
property violated:

| Configuration | Module | Property | Instance |
|---|---|---|---|
| `km_silent.cfg` | `MCOpenbaoKeyManager` | `ReportedIsGone` | commands may be silent, nothing else goes wrong |
| `km_rotate.cfg` | `MCOpenbaoKeyManager` | `UpdatedKeysAreUsable` | no faults, one tick: a key expires and is rotated |
| `km_token.cfg` | `MCOpenbaoKeyManager` | `InitedHasToken` | UnInit between two commands of Init |
| `psk_uninit.cfg` | `MCPskManager` | `UninitedIsEmpty` | as `psk`, one domain |
| `psk_twice.cfg` | `MCPskManager` | `OnlyExpiredAreRenewed` | as `psk`, one domain |
| `jwt_never.cfg` | `MCJwtServer` | `UnlimitedKeyStays` | 1 server, 2 ticks |
| `jwt_stop.cfg` | `MCJwtServer` | `StartedServerHasKm` | 2 servers, no time |

- `km_silent`: a command that fails with nothing on its output counts as done
  (`openbao_utils.cpp:281-290`), so RemoveKey reports success for a key the vault
  still has.
- `km_rotate`: a rotated key is not exportable (`openbao_key_manager.cpp:530`), so
  Encrypt and Decrypt with it fail.
- `km_token`: CheckInited is to say whether the access token is still valid
  (`key_manager.h:58`); it reads a flag, which an UnInit during Init leaves set
  without a token (`openbao_key_manager.cpp:64-70`).
- `psk_uninit`: UnInit clears the PSKs in memory (`docs/api_documentation.md:2551`),
  and a LoadAllPsk that has passed its check fills them again
  (`psk_manager.cpp:725`).
- `psk_twice`: two validity checks rotate one expired PSK twice, the second time a
  fresh one (`psk_manager.cpp:973`).
- `jwt_never`: `serverKeyExpiredHours` -1 is documented as no expiration
  (`option.h:43`, `docs/api_documentation.md:658`) and becomes the default of 24
  hours (`jwt_token.h:58`).
- `jwt_stop`: Stop uninits the key manager for all of the process
  (`jwt_auth_server.cpp:136`), where Start may have borrowed it.

Met while modelling, without a configuration of its own:
- *Key manager.* UnInit's comment says it removes our keys (`key_manager.h:66`); it
  removes none. `docs/api_documentation.md` (2.4.1.3) speaks of 1022 keys; the
  code allows 1023. DeleteAllKey's branch for a failed command
  (`openbao_key_manager.cpp:393`) goes on with an id it has just erased. A failed
  Init leaves `accessToken_` set (`:160-172`), also when a server's failed Start
  called it; the Stop of a server that is not started does nothing about it.
  `docs/api_documentation.md:1725` says that the vault does not support
  concurrency; the code locks, and the model has it.
- *PSK manager.* LoadAllPsk resets the options given to Init
  (`psk_manager.cpp:546`), among them pskMaxCount (`docs/api_documentation.md:967`).
  It follows that PSKs encrypted for another domain or algorithm than the default
  cannot be loaded, since they are decrypted after that: `Usable` has it. A
  duplicate import returns an id whose PSK the content index does not have. A
  callback that calls the manager again waits for itself
  (`PskCallbackMgr::mutex_`). (That ids change with each load is documented,
  `docs/api_documentation.md:2771`.)
- *JWT.* A failed RefreshKey keeps the present key but drops the old one.
- *Rand.* GetRandHealthStatus reads `g_initialized` and then the context without
  `g_initMutex` (`rand.cpp:576`): a RandInit that fails at that moment frees what
  it reads. `OnlyFailuresFreeUnderReader` shows that this is the only way.
- *Kerberos.* A second Init of an object that holds something leaks it, and if it
  fails early the destructor calls `krb5_kt_remove_entry` with null. After a
  failed ClientAuthServer the credentials are gone, and the next attempt uses the
  default ones. `g_initial` belongs to the process and is never reset, so a server
  that was not inited passes the check once another was. `ReadCipherFromFile`
  checks `CheckUserAccess` twice with opposite senses and so refuses what it can
  read (`krb_server.cpp:427-432`): the encrypted keytabs of
  `docs/api_documentation.md:1474` cannot be used. Two keys stored in the same second on either side of version
  128 may be taken in the wrong order. `krb5_cc_destroy` is called with null
  when `krb5_cc_default` fails (`krb_ctx.cpp:98-99`).
- *Cryption.* A refused call has already changed the engine's suite (`Refused`): a
  later call sets its own, so nothing follows but for callers of the engine itself.
- *Command runner.* ClosePipes acts on numbers that were closed before
  (`openbao_utils.cpp:292`): a file that another thread opened during the call may
  be closed, which `OnlyFilesOpenedMeanwhileAreClosed` bounds, and its owner's own
  close may then hit a pipe of the next call. After a failed pipe() the pairs that
  are still {0, 0} close standard input (`:143`). Early returns leave the child
  unreaped. The pipes are not close-on-exec, so any other child of the process
  makes a call wait until it ends.
- *Tool.* A run waits for ever in Encrypt when another run removes the domain's
  newest key after it looked (`kmc_cmd.cpp:274`), when a vault command fails
  there, or when the ids are used up: `OnlyRemovalHangs` says that nothing else
  does it. removekey deletes whatever key has the id by then. With SM4_CTR, a
  reEncrypt after the key was removed and its id used again prints garbage and
  reports success. Ctrl-C while something is typed leaves the terminal without
  echo, and a later run takes that for the state to restore. The vault token is not
  wiped on every way out. An unknown algorithm is noticed only after a key may have
  been made for it. No command calls CheckConfig.

## 6. What is not modelled

- *Vault key manager and factory*: they forward; their calls are modelled where
  they end.
- *hmac, utilities, krb5 wrapper*: one library call each, or conversions of buffers
  that keep nothing; a model would restate OpenSSL, krb5 or the standard library.
- *Reading keytab files* (GetKerberosKeytab, `krb_server.cpp:336-500`): static
  helpers that an application calls before ServerInit; they share no state with the
  objects and have no order to get wrong. What they get wrong is in section 5.
- *Whitelist authorization*: a table of one object, filled once and looked up. A
  failed Initialize keeps the entries it had read, UnInitialize clears them, nothing
  locks; a unit test reaches all of it.
- *Logging, fuzzing, build*: not part of the behaviour of the library.
- *In modelled parts*: running out of memory where the code only returns; 32-bit
  sums of times near their end, except the key manager's (`IntMax`, `TimeWrap`);
  daylight saving in ParseTime; a clock that is set back; calls of *external* JWT
  servers; wording and layout of keys, tokens and log lines; the counters Rand
  only reports; what the tool displays; *silent* answers of vault commands in
  CryptoTool (they are in OpenbaoKeyManager); another object's use of the shared
  MEMORY credential cache, and the keytab's reference count, which are the
  library's.

Hazards this code has and no property covers, because no statement of the code or
its documents says what should happen:
- `openbao_key_manager.cpp:232`: a crash between `write -f` and `config` leaves a key
  that can be neither exported nor deleted, and the next Init takes it into the map
  (`MapMatchesVault` allows it: the vault has it, too).
- `openbao_key_manager.cpp:393`: DeleteAllKey goes on with the old inner iterator
  after a failed delete.
- `psk_manager.cpp:734`: the list LoadAllPsk gets was read before the call; what
  was created or rotated since is undone. `Careful` excludes it.
- `psk_manager.cpp:876`: a callback stores and then reports failure, and storage is
  ahead of memory (`"lost"` in `Faults`; `MapsAreInverse` is proved with it).
- `psk_manager.cpp:450`: a content imported twice (`Duplicates`).
- `psk_manager.cpp:546`: the options reset by a load.
- `jwt_token.cpp:131`: SetKey frees and remakes `key_` without a lock.
- `krb_server.cpp:260`: `g_initial` is the process's and is never reset.
- `native_cryptor_engine.cpp:462`: SM4's IV and AAD overlap; `IssuedOpens` holds
  nevertheless.

## 7. What could come next

- An abstract specification like `PskStore` and `KeyStore` for the keys of a JWT
  server (at most two, each with its age).
- One key manager under both PskManager and JwtServer, in place of their
  `KmByOthers`.
