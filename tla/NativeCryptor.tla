---------------------------- MODULE NativeCryptor ----------------------------
(***************************************************************************)
(* Symmetric encryption (src/cdf/modules/cryption): NativeCryptor, which   *)
(* threads call, over the process's one CryptoEngine.  The engine takes    *)
(* its cipher suite from a shared configuration that it reads again and    *)
(* again during a call; NativeCryptor's static gMutex keeps other calls    *)
(* out until the call returns.                                             *)
(*                                                                         *)
(* A ciphertext has five regions: iv (bytes 0 to 11), mid (12 to 15), aad  *)
(* (16 to 27), tag (28 to 43) and body.  The AAD is mid and aad; SM4's IV  *)
(* is iv and mid.  A region holds the number of the random fill that wrote *)
(* it, or what OpenSSL put there.  The last free bound is MaxFills, on the *)
(* random fills of a behaviour.                                            *)
(***************************************************************************)
EXTENDS Integers

CONSTANTS
  Threads, NoThread,
  Keys, KeyBits,  \* the keys, and how long each is
  Texts, NoText,  \* plaintexts; what is none of them: zeroes, garbage
  Algs,           \* the algorithms that are called for
  MaxFills

Suites == {"AES_GCM_128", "AES_GCM_256", "AES_CCM_128", "CHACHA20_POLY1305",
           "SM4_CTR"}
Unspecified == "UNSPECIFIED"

ASSUME CryptorAssumption ==
  /\ NoThread \notin Threads /\ NoText \notin Texts
  /\ KeyBits \in [Keys -> Nat]
  /\ Algs \subseteq Suites \cup {Unspecified} /\ MaxFills \in Nat

VARIABLES
  suite,    \* cryptoConfig.mCipherSuite
  gMutex,   \* its holder or NoThread
  pc, arg,  \* where each thread is in its call, and the call
  ctx,      \* its OpenSSL context: suite, key and nonce
  buf,      \* Encrypt's ciphertext on the stack
  scratch,  \* Decrypt's plaintext on the stack, kept after the call
  rc,       \* what the call is about to return
  fills,    \* the random fills made
  issued    \* the calls of Encrypt that succeeded, with their ciphertexts

vars == <<suite, gMutex, pc, arg, ctx, buf, scratch, rc, fills, issued>>

-----------------------------------------------------------------------------
(* OpenSSL.                                                                *)

\* A region nobody wrote, or that was tampered with.
Unwritten == <<>>
Blank == [iv |-> 0, mid |-> 0, aad |-> 0, tag |-> Unwritten,
          body |-> Unwritten]

Authenticated(s) == s # "SM4_CTR"

AlgLen(s) == CASE s \in {"AES_GCM_128", "AES_CCM_128", "SM4_CTR"} -> 128
               [] s \in {"AES_GCM_256", "CHACHA20_POLY1305"}     -> 256
               [] OTHER                                          -> 0

\* What the cipher makes of a text, and of a body: without the suite, key and
\* nonce it was made with that is garbage.
Sealed(c, text) == <<c.suite, c.key, c.nonce, text>>
Opened(c, body) ==
  IF \E x \in Texts : body = Sealed(c, x)
    THEN CHOOSE x \in Texts : body = Sealed(c, x) ELSE NoText

\* The tag that a body and an AAD call for.
Tag(c, mid, aad, body) == <<c.suite, c.key, c.nonce, mid, aad, body>>

-----------------------------------------------------------------------------
(* The buffer.                                                             *)

\* The IV in a ciphertext: GetIVLength makes it longer for SM4.
Nonce(s, b) == <<b.iv, IF s = "SM4_CTR" THEN b.mid ELSE 0>>

\* GetRand writes the IV, then the AAD, over part of SM4's IV.
Filled(n) == [Blank EXCEPT !.iv = n, !.mid = n + 1, !.aad = n + 1]

NoCall == [op |-> "none", alg |-> Unspecified, key |-> "none",
           text |-> NoText, ct |-> Blank]
NoCtx == [suite |-> Unspecified, key |-> "none", nonce |-> <<0, 0>>]

Init ==
  /\ suite = Unspecified /\ gMutex = NoThread
  /\ pc = [t \in Threads |-> "idle"] /\ arg = [t \in Threads |-> NoCall]
  /\ ctx = [t \in Threads |-> NoCtx] /\ buf = [t \in Threads |-> Blank]
  /\ scratch = [t \in Threads |-> NoText] /\ rc = [t \in Threads |-> "OK"]
  /\ fills = 0 /\ issued = {}

Goto(t, place) == pc' = [pc EXCEPT ![t] = place]

-----------------------------------------------------------------------------
(* Entering and leaving a call.                                            *)

AnyoneEnters == TRUE   \* mutant of MayEnter
MayEnter == gMutex = NoThread

\* Encrypt and Decrypt up to KeyEncrypt and KeyDecrypt.  The suite is set
\* before a text or key of a bad size is refused, and stays set.
Refused(t, alg) ==
  /\ pc[t] = "idle" /\ MayEnter
  /\ suite' = IF alg = Unspecified THEN suite ELSE alg
  /\ UNCHANGED <<gMutex, pc, arg, ctx, buf, scratch, rc, fills, issued>>

Enter(t, call) ==
  /\ pc[t] = "idle" /\ MayEnter /\ call.alg # Unspecified
  /\ suite' = call.alg /\ gMutex' = t
  /\ arg' = [arg EXCEPT ![t] = call]
  /\ rc' = [rc EXCEPT ![t] = "OK"]
  /\ Goto(t, "check")
  /\ UNCHANGED <<ctx, buf, scratch, fills, issued>>

Encrypt(t, alg, key, text) ==
  Enter(t, [op |-> "Encrypt", alg |-> alg, key |-> key, text |-> text,
            ct |-> Blank])
Decrypt(t, alg, key, ct) ==
  Enter(t, [op |-> "Decrypt", alg |-> alg, key |-> key, text |-> NoText,
            ct |-> ct])

PlaintextKept(t) == scratch[t]   \* mutant of ScratchAfterFailure
ScratchAfterFailure(t) == NoText

\* The engine's call fails; Decrypt erases its plaintext.
Fail(t) ==
  /\ rc' = [rc EXCEPT ![t] = "ERROR"]
  /\ scratch' = [scratch EXCEPT ![t] = ScratchAfterFailure(t)]
  /\ Goto(t, "leave")

\* The call returns and lets gMutex go; Decrypt's text was copied and erased.
Leave(t) ==
  /\ pc[t] = "leave" /\ Goto(t, "idle")
  /\ gMutex' = NoThread
  /\ issued' = IF arg[t].op = "Encrypt" /\ rc[t] = "OK"
                 THEN issued \cup {[arg[t] EXCEPT !.ct = buf[t]]} ELSE issued
  /\ scratch' = [scratch EXCEPT ![t] = IF rc[t] = "OK" THEN NoText ELSE @]
  /\ arg' = [arg EXCEPT ![t] = NoCall] /\ ctx' = [ctx EXCEPT ![t] = NoCtx]
  /\ buf' = [buf EXCEPT ![t] = Blank]
  /\ rc' = [rc EXCEPT ![t] = "OK"]
  /\ UNCHANGED <<suite, fills>>

-----------------------------------------------------------------------------
(* The engine.                                                             *)

\* A key must be as long as the engine's suite wants it.
CheckKey(t) ==
  /\ pc[t] = "check"
  /\ \/ /\ KeyBits[arg[t].key] = AlgLen(suite)
        /\ Goto(t, IF arg[t].op = "Encrypt" THEN "fill" ELSE "start")
        /\ UNCHANGED <<scratch, rc>>
     \/ KeyBits[arg[t].key] # AlgLen(suite) /\ Fail(t)
  /\ UNCHANGED <<suite, gMutex, arg, ctx, buf, fills, issued>>

Fill(t) ==
  /\ pc[t] = "fill" /\ fills + 2 <= MaxFills
  /\ fills' = fills + 2
  /\ buf' = [buf EXCEPT ![t] = Filled(fills + 1)]
  /\ Goto(t, "start")
  /\ UNCHANGED <<suite, gMutex, arg, ctx, scratch, rc, issued>>

\* EVP_EncryptInit_ex and EVP_DecryptInit_ex: the suite is read again.
Start(t) ==
  /\ pc[t] = "start"
  /\ LET b == IF arg[t].op = "Encrypt" THEN buf[t] ELSE arg[t].ct
     IN  ctx' = [ctx EXCEPT ![t] = [suite |-> suite, key |-> arg[t].key,
                                    nonce |-> Nonce(suite, b)]]
  /\ Goto(t, IF arg[t].op = "Encrypt" THEN "seal" ELSE "open")
  /\ UNCHANGED <<suite, gMutex, arg, buf, scratch, rc, fills, issued>>

\* The rest of OpensslEncrypt: AAD, body and tag.  SM4 writes no tag.
Seal(t) ==
  /\ pc[t] = "seal"
  /\ LET b == buf[t]
         body == Sealed(ctx[t], arg[t].text)
         tag == IF Authenticated(ctx[t].suite)
                  THEN Tag(ctx[t], b.mid, b.aad, body) ELSE Unwritten
     IN  buf' = [buf EXCEPT ![t].body = body, ![t].tag = tag]
  /\ Goto(t, "leave")
  /\ UNCHANGED <<suite, gMutex, arg, ctx, scratch, rc, fills, issued>>

TagIgnored(s, c, ct) == TRUE   \* mutant of TagFits
TagFits(s, c, ct) ==
  Authenticated(s) => ct.tag = Tag(c, ct.mid, ct.aad, ct.body)

\* EVP_DecryptUpdate: CCM compares the tag before it gives the text out, the
\* other suites in EVP_DecryptFinal_ex, when the text is there already.
Open(t) ==
  /\ pc[t] = "open"
  /\ \/ /\ ctx[t].suite = "AES_CCM_128" => TagFits(ctx[t].suite, ctx[t], arg[t].ct)
        /\ scratch' = [scratch EXCEPT ![t] = Opened(ctx[t], arg[t].ct.body)]
        /\ Goto(t, "verify")
        /\ UNCHANGED rc
     \/ /\ ctx[t].suite = "AES_CCM_128" /\ ~TagFits(ctx[t].suite, ctx[t], arg[t].ct)
        /\ Fail(t)
  /\ UNCHANGED <<suite, gMutex, arg, ctx, buf, fills, issued>>

Verify(t) ==
  /\ pc[t] = "verify"
  /\ \/ /\ TagFits(ctx[t].suite, ctx[t], arg[t].ct)
        /\ Goto(t, "leave")
        /\ UNCHANGED <<scratch, rc>>
     \/ ~TagFits(ctx[t].suite, ctx[t], arg[t].ct) /\ Fail(t)
  /\ UNCHANGED <<suite, gMutex, arg, ctx, buf, fills, issued>>

\* The random generator or OpenSSL fails, or a ciphertext of at most 44 bytes
\* is refused.
EngineFails(t) ==
  /\ pc[t] \in {"check", "fill", "start", "seal", "open"}
  /\ Fail(t)
  /\ UNCHANGED <<suite, gMutex, arg, ctx, buf, fills, issued>>

-----------------------------------------------------------------------------
(* The callers.                                                            *)

\* Ciphertexts that Encrypt gave out, and those with one region spoilt or
\* taken from another.
Ciphertexts == {i.ct : i \in issued}
Inputs ==
  LET Spoilt(c, r) == {[c EXCEPT ![r] = d[r]] : d \in Ciphertexts \cup {Blank}}
  IN  UNION {Spoilt(c, r) : c \in Ciphertexts, r \in DOMAIN Blank}

\* InitCrypto, of the engine's own header, takes cryptoEngineMutex and not
\* gMutex: it may come at any time, and leaves a suite that is set alone.  Its
\* check and its assignment are one step: between them only a call could set
\* the suite, and nothing in the repository inits the engine beside calls.
InitCrypto(s) ==
  /\ suite = Unspecified /\ suite' = s
  /\ UNCHANGED <<gMutex, pc, arg, ctx, buf, scratch, rc, fills, issued>>

Call(t) ==
  \/ \E alg \in Algs : Refused(t, alg)
  \/ \E alg \in Algs, key \in Keys, text \in Texts : Encrypt(t, alg, key, text)
  \/ \E alg \in Algs, key \in Keys, ct \in Inputs : Decrypt(t, alg, key, ct)

Engine(t) == CheckKey(t) \/ Fill(t) \/ Start(t) \/ Seal(t) \/ Open(t)
               \/ Verify(t) \/ EngineFails(t)

Next ==
  \/ \E s \in Algs \ {Unspecified} : InitCrypto(s)
  \/ \E t \in Threads : Call(t) \/ Engine(t) \/ Leave(t)

Spec == Init /\ [][Next]_vars

-----------------------------------------------------------------------------
(* Properties.                                                             *)

Places == {"idle", "check", "fill", "start", "seal", "open", "verify", "leave"}
Bodies == {Unwritten}
            \cup ((Algs \cup {Unspecified}) \X (Keys \cup {"none"})
                    \X (Nat \X Nat) \X (Texts \cup {NoText}))
Tags == {Unwritten}
          \cup ((Algs \cup {Unspecified}) \X (Keys \cup {"none"})
                  \X (Nat \X Nat) \X Nat \X Nat \X Bodies)
Ciphertext == [iv : Nat, mid : Nat, aad : Nat, tag : Tags, body : Bodies]
CallRecord ==
  [op : {"none", "Encrypt", "Decrypt"}, alg : Algs \cup {Unspecified},
   key : Keys \cup {"none"}, text : Texts \cup {NoText}, ct : Ciphertext]

\* The types of the shared configuration, of the calls and of their buffers.
TypeOK ==
  /\ suite \in Algs \cup {Unspecified} /\ gMutex \in Threads \cup {NoThread}
  /\ pc \in [Threads -> Places] /\ arg \in [Threads -> CallRecord]
  /\ ctx \in [Threads -> [suite : Algs \cup {Unspecified},
                          key : Keys \cup {"none"}, nonce : Nat \X Nat]]
  /\ buf \in [Threads -> Ciphertext]
  /\ scratch \in [Threads -> Texts \cup {NoText}]
  /\ rc \in [Threads -> {"OK", "ERROR"}] /\ fills \in Nat
  /\ issued \subseteq CallRecord

\* A ciphertext Encrypt gave out opens with the algorithm and the key it was
\* given, whatever other threads ask of the engine meanwhile and although the
\* AAD is written over SM4's IV.
OpensAs(i) ==
  LET c == [suite |-> i.alg, key |-> i.key, nonce |-> Nonce(i.alg, i.ct)]
  IN  TagFits(i.alg, c, i.ct) /\ Opened(c, i.ct.body) = i.text
IssuedOpens == \A i \in issued : OpensAs(i)

\* Decrypt succeeds, with an algorithm that authenticates, only for a
\* ciphertext that Encrypt gave out, as it was, and for its algorithm and
\* key; the text is the one that was encrypted.
OnlyIssuedOpens ==
  \A t \in Threads :
    /\ pc[t] = "leave" /\ arg[t].op = "Decrypt" /\ rc[t] = "OK"
    /\ Authenticated(arg[t].alg)
    => [arg[t] EXCEPT !.op = "Encrypt", !.text = scratch[t]] \in issued

\* No plaintext stays on the stack of a call that returned, although the
\* engine writes it there before it compares the tag.
NoTextLeft == \A t \in Threads : pc[t] = "idle" => scratch[t] = NoText
=============================================================================
