--------------------------- MODULE CryptionProofs ---------------------------
(***************************************************************************)
(* Proofs about NativeCryptor, Hash and Pbkdf2, for any threads, keys,     *)
(* texts, random fills and chunks, and for every configuration.            *)
(*                                                                         *)
(* NativeCryptor: one thread at most is in a call, so that the suite the   *)
(* engine reads is that call's own; its OpenSSL context is then the one    *)
(* its ciphertext was, or will be, made with.                              *)
(***************************************************************************)
EXTENDS NativeCryptor, Hash, Pbkdf2, TLAPS

\* The context that a call's ciphertext goes with.
Own(a) == [suite |-> a.alg, key |-> a.key, nonce |-> Nonce(a.alg, a.ct)]

\* A call of Encrypt and what it made.
WellMade(i) ==
  /\ i.op = "Encrypt" /\ i.alg \in Algs /\ i.key \in Keys /\ i.text \in Texts
  /\ i.ct.body = Sealed(Own(i), i.text)
  /\ i.ct.tag = IF Authenticated(i.alg)
                  THEN Tag(Own(i), i.ct.mid, i.ct.aad, i.ct.body)
                  ELSE Unwritten

Filling(t) == [arg[t] EXCEPT !.ct = buf[t]]

EncryptInv(t) ==
  /\ arg[t].text \in Texts /\ scratch[t] = NoText
  /\ pc[t] \in {"check", "fill", "start", "seal", "leave"}
  /\ pc[t] = "seal" => ctx[t] = Own(Filling(t))
  /\ pc[t] = "leave" /\ rc[t] = "OK" => WellMade(Filling(t))

DecryptInv(t) ==
  /\ pc[t] \in {"check", "start", "open", "verify", "leave"}
  /\ arg[t].ct.tag \in {Unwritten} \cup {i.ct.tag : i \in issued}
  /\ pc[t] \in {"open", "verify"} => ctx[t] = Own(arg[t])
  /\ pc[t] = "verify" => scratch[t] = Opened(Own(arg[t]), arg[t].ct.body)
  /\ pc[t] = "leave" /\ rc[t] = "OK" =>
       /\ TagFits(arg[t].alg, Own(arg[t]), arg[t].ct)
       /\ scratch[t] = Opened(Own(arg[t]), arg[t].ct.body)
  /\ pc[t] # "verify" /\ (pc[t] = "leave" => rc[t] = "ERROR")
       => scratch[t] = NoText

ThreadInv(t) ==
  /\ pc[t] = "idle" => scratch[t] = NoText
  /\ pc[t] # "idle" =>
       /\ gMutex = t /\ suite = arg[t].alg
       /\ arg[t].alg \in Algs \ {Unspecified} /\ arg[t].key \in Keys
       /\ pc[t] # "leave" => rc[t] = "OK"
       /\ \/ arg[t].op = "Encrypt" /\ EncryptInv(t)
          \/ arg[t].op = "Decrypt" /\ DecryptInv(t)

Inv ==
  /\ TypeOK
  /\ \A t \in Threads : ThreadInv(t)
  /\ \A i \in issued : WellMade(i)

-----------------------------------------------------------------------------

\* The random fills and the cipher make values of the types above.
LEMMA BlankType == Blank \in Ciphertext
  BY DEF Blank, Ciphertext, Unwritten, Tags, Bodies

LEMMA FilledType == ASSUME NEW n \in Nat PROVE Filled(n) \in Ciphertext
<1>1. \A b \in Ciphertext, m \in Nat :
        [b EXCEPT !.iv = n, !.mid = m, !.aad = m] \in Ciphertext
  BY DEF Ciphertext
<1>2. n + 1 \in Nat
  OBVIOUS
<1>3. [Blank EXCEPT !.iv = n, !.mid = n + 1, !.aad = n + 1] \in Ciphertext
  BY <1>1, <1>2, BlankType
<1> QED
  BY <1>3 DEF Filled

LEMMA NonceType ==
  ASSUME NEW s, NEW b \in Ciphertext PROVE Nonce(s, b) \in Nat \X Nat
  BY DEF Nonce, Ciphertext

LEMMA SealType ==
  ASSUME NEW c \in [suite : Algs \cup {Unspecified}, key : Keys \cup {"none"},
                    nonce : Nat \X Nat],
         NEW x \in Texts \cup {NoText}, NEW mid \in Nat, NEW aad \in Nat
  PROVE  /\ Sealed(c, x) \in Bodies
         /\ \A body \in Bodies : Tag(c, mid, aad, body) \in Tags
  BY DEF Sealed, Tag, Bodies, Tags

LEMMA OpenedType ==
  ASSUME NEW c, NEW body PROVE Opened(c, body) \in Texts \cup {NoText}
  BY DEF Opened

LEMMA InputType ==
  ASSUME TypeOK, NEW ct \in Inputs
  PROVE  /\ ct \in Ciphertext
         /\ ct.tag \in {Unwritten} \cup {i.ct.tag : i \in issued}
<1>1. \A c \in Ciphertexts : c \in Ciphertext /\ \E i \in issued : c = i.ct
  BY DEF Ciphertexts, TypeOK, CallRecord
<1>2. DOMAIN Blank = {"iv", "mid", "aad", "tag", "body"} /\ Blank.tag = Unwritten
  BY DEF Blank
<1>3. PICK c \in Ciphertexts, d \in Ciphertexts \cup {Blank},
           r \in {"iv", "mid", "aad", "tag", "body"} : ct = [c EXCEPT ![r] = d[r]]
  BY <1>2 DEF Inputs
<1>4. c \in Ciphertext /\ d \in Ciphertext
  BY <1>1, <1>3, BlankType
<1>5. ct \in Ciphertext
  BY <1>3, <1>4 DEF Ciphertext
<1>6. ct.tag = c.tag \/ ct.tag = d.tag
  BY <1>3, <1>4 DEF Ciphertext
<1>7. d.tag \in {Unwritten} \cup {i.ct.tag : i \in issued}
  BY <1>1, <1>2, <1>3
<1>8. c.tag \in {i.ct.tag : i \in issued}
  BY <1>1, <1>3
<1> QED
  BY <1>5, <1>6, <1>7, <1>8

-----------------------------------------------------------------------------

LEMMA InitInv == Init => Inv
<1> SUFFICES ASSUME Init PROVE Inv
  OBVIOUS
<1>1. NoCall \in CallRecord
  BY BlankType DEF NoCall, CallRecord
<1>2. NoCtx \in [suite : Algs \cup {Unspecified}, key : Keys \cup {"none"},
                 nonce : Nat \X Nat]
  BY DEF NoCtx
<1>3. TypeOK
  BY <1>1, <1>2, BlankType DEF Init, TypeOK, Places
<1> QED
  BY <1>3 DEF Init, Inv, ThreadInv

\* Entering: nobody is in a call.
LEMMA RefusedInv ==
  ASSUME Inv, NEW t \in Threads, NEW alg \in Algs, Refused(t, alg) PROVE Inv'
<1>1. \A u \in Threads : pc[u] = "idle"
  BY CryptorAssumption DEF Inv, ThreadInv, Refused, MayEnter, CryptorAssumption
<1>2. TypeOK'
  BY DEF Inv, TypeOK, Refused
<1> QED
  BY <1>1, <1>2 DEF Inv, ThreadInv, WellMade, Refused

LEMMA InitCryptoInv ==
  ASSUME Inv, NEW s \in Algs, InitCrypto(s) PROVE Inv'
<1>1. TypeOK'
  BY DEF Inv, TypeOK, InitCrypto
<1>2. \A u \in Threads : pc[u] = "idle"
  BY DEF Inv, ThreadInv, InitCrypto
<1> QED
  BY <1>1, <1>2 DEF Inv, ThreadInv, WellMade, InitCrypto

LEMMA EnterInv ==
  ASSUME Inv, NEW t \in Threads, NEW call \in CallRecord, Enter(t, call),
         call.alg \in Algs, call.key \in Keys,
         \/ call.op = "Encrypt" /\ call.text \in Texts
         \/ /\ call.op = "Decrypt"
            /\ call.ct.tag \in {Unwritten} \cup {i.ct.tag : i \in issued}
  PROVE  Inv'
<1>1. \A u \in Threads : pc[u] = "idle" /\ scratch[u] = NoText
  BY CryptorAssumption DEF Inv, ThreadInv, Enter, MayEnter, CryptorAssumption
<1>2. TypeOK'
  BY DEF Inv, TypeOK, Enter, Goto, Places
<1>3. /\ pc[t]' = "check" /\ arg[t]' = call /\ rc[t]' = "OK" /\ gMutex' = t
      /\ suite' = call.alg /\ scratch' = scratch /\ issued' = issued
      /\ call.alg \in Algs \ {Unspecified}
  BY DEF Enter, Goto, Inv, TypeOK
<1>4. ThreadInv(t)'
  BY <1>1, <1>3 DEF ThreadInv, EncryptInv, DecryptInv
<1>5. ASSUME NEW u \in Threads, u # t PROVE ThreadInv(u)'
  BY <1>1, <1>3, <1>5 DEF ThreadInv, Enter, Goto, Inv, TypeOK
<1> QED
  BY <1>2, <1>3, <1>4, <1>5 DEF Inv, WellMade

\* A step of a call: the others are idle.
LEMMA OthersIdle ==
  ASSUME Inv, NEW t \in Threads, pc[t] # "idle", NEW u \in Threads, u # t
  PROVE  pc[u] = "idle" /\ scratch[u] = NoText
  BY DEF Inv, ThreadInv

LEMMA StepInv ==
  ASSUME Inv, NEW t \in Threads, pc[t] # "idle", TypeOK', ThreadInv(t)',
         issued' = issued,
         \A u \in Threads \ {t} : pc'[u] = pc[u] /\ scratch'[u] = scratch[u]
  PROVE  Inv'
<1>1. ASSUME NEW u \in Threads, u # t PROVE ThreadInv(u)'
  BY <1>1, OthersIdle DEF ThreadInv
<1> QED
  BY <1>1 DEF Inv, WellMade

LEMMA FailInv ==
  ASSUME Inv, NEW t \in Threads, pc[t] # "idle", Fail(t),
         UNCHANGED <<suite, gMutex, arg, ctx, buf, fills, issued>>
  PROVE  Inv'
<1>1. TypeOK'
  BY DEF Inv, TypeOK, Fail, Goto, ScratchAfterFailure, Places
<1>2. /\ pc[t]' = "leave" /\ rc[t]' = "ERROR" /\ scratch[t]' = NoText
      /\ \A u \in Threads \ {t} : pc'[u] = pc[u] /\ scratch'[u] = scratch[u]
  BY DEF Inv, TypeOK, Fail, Goto, ScratchAfterFailure
<1>3. ThreadInv(t)'
  BY <1>2 DEF Inv, ThreadInv, EncryptInv, DecryptInv
<1> QED
  BY <1>1, <1>2, <1>3, StepInv

LEMMA CheckKeyInv ==
  ASSUME Inv, NEW t \in Threads, CheckKey(t) PROVE Inv'
<1>1. CASE Fail(t)
  BY <1>1, FailInv DEF CheckKey
<1>2. CASE ~Fail(t)
  <2>1. /\ pc[t] = "check" /\ UNCHANGED <<suite, gMutex, arg, ctx, buf, scratch, rc, fills, issued>>
        /\ pc' = [pc EXCEPT ![t] = IF arg[t].op = "Encrypt" THEN "fill" ELSE "start"]
    BY <1>2 DEF CheckKey, Goto
  <2>2. TypeOK'
    BY <2>1 DEF Inv, TypeOK, Places
  <2>3. ThreadInv(t)'
    BY <2>1 DEF Inv, TypeOK, ThreadInv, EncryptInv, DecryptInv
  <2>4. \A u \in Threads \ {t} : pc'[u] = pc[u] /\ scratch'[u] = scratch[u]
    BY <2>1 DEF Inv, TypeOK
  <2> QED
    BY <2>1, <2>2, <2>3, <2>4, StepInv
<1> QED
  BY <1>1, <1>2

LEMMA FillInv ==
  ASSUME Inv, NEW t \in Threads, Fill(t) PROVE Inv'
<1>1. Filled(fills + 1) \in Ciphertext /\ fills + 2 \in Nat
  BY FilledType DEF Inv, TypeOK
<1>2. TypeOK'
  BY <1>1 DEF Inv, TypeOK, Fill, Goto, Places
<1>3. pc[t] = "fill" /\ pc[t]' = "start" /\ UNCHANGED <<suite, gMutex, arg, ctx, scratch, rc, issued>>
  BY DEF Inv, TypeOK, Fill, Goto
<1>4. ThreadInv(t)'
  BY <1>3 DEF Inv, ThreadInv, EncryptInv, DecryptInv
<1>5. \A u \in Threads \ {t} : pc'[u] = pc[u] /\ scratch'[u] = scratch[u]
  BY DEF Inv, TypeOK, Fill, Goto
<1> QED
  BY <1>2, <1>3, <1>4, <1>5, StepInv

LEMMA StartInv ==
  ASSUME Inv, NEW t \in Threads, Start(t) PROVE Inv'
<1> DEFINE b == IF arg[t].op = "Encrypt" THEN buf[t] ELSE arg[t].ct
           c == [suite |-> suite, key |-> arg[t].key, nonce |-> Nonce(suite, b)]
<1>1. b \in Ciphertext
  BY DEF Inv, TypeOK, CallRecord
<1>2. c \in [suite : Algs \cup {Unspecified}, key : Keys \cup {"none"},
             nonce : Nat \X Nat]
  BY <1>1, NonceType DEF Inv, TypeOK, CallRecord
<1>3. ctx' = [ctx EXCEPT ![t] = c]
  BY DEF Start
<1> HIDE DEF c
<1>4. TypeOK'
  BY <1>2, <1>3 DEF Inv, TypeOK, Start, Goto, Places
<1>5. /\ pc[t] = "start" /\ UNCHANGED <<suite, gMutex, arg, buf, scratch, rc, issued>>
      /\ pc[t]' = (IF arg[t].op = "Encrypt" THEN "seal" ELSE "open")
      /\ ctx[t]' = c
      /\ \A u \in Threads \ {t} : pc'[u] = pc[u] /\ scratch'[u] = scratch[u]
  BY <1>3 DEF Inv, TypeOK, Start, Goto
<1>6. /\ arg[t].op = "Encrypt" => c = Own(Filling(t))
      /\ arg[t].op = "Decrypt" => c = Own(arg[t])
  BY <1>5 DEF c, Own, Filling, Inv, TypeOK, ThreadInv, CallRecord
<1>7. ThreadInv(t)'
  BY <1>5, <1>6 DEF Inv, ThreadInv, EncryptInv, DecryptInv, Own, Filling
<1> QED
  BY <1>4, <1>5, <1>7, StepInv

LEMMA SealInv ==
  ASSUME Inv, NEW t \in Threads, Seal(t) PROVE Inv'
<1> DEFINE b == buf[t]
           body == Sealed(ctx[t], arg[t].text)
           tag == IF Authenticated(ctx[t].suite)
                    THEN Tag(ctx[t], b.mid, b.aad, body) ELSE Unwritten
           made == [b EXCEPT !.body = body, !.tag = tag]
<1>1. b \in Ciphertext /\ arg[t] \in CallRecord
  BY DEF Inv, TypeOK
<1>2. body \in Bodies /\ tag \in Tags
  BY <1>1, SealType DEF Inv, TypeOK, CallRecord, Ciphertext, Tags
<1>3. buf' = [buf EXCEPT ![t] = made]
  BY DEF Seal, Inv, TypeOK
<1>4. made \in Ciphertext
  BY <1>1, <1>2 DEF Ciphertext
<1>5. TypeOK'
  BY <1>3, <1>4 DEF Inv, TypeOK, Seal, Goto, Places
<1>6. /\ pc[t] = "seal" /\ pc[t]' = "leave"
      /\ UNCHANGED <<suite, gMutex, arg, ctx, scratch, rc, issued>>
      /\ buf[t]' = made
      /\ \A u \in Threads \ {t} : pc'[u] = pc[u] /\ scratch'[u] = scratch[u]
  BY <1>3 DEF Inv, TypeOK, Seal, Goto
<1>7. /\ arg[t].op = "Encrypt" /\ arg[t].alg \in Algs /\ arg[t].key \in Keys
      /\ arg[t].text \in Texts /\ ctx[t] = Own(Filling(t))
  BY <1>6 DEF Inv, ThreadInv, EncryptInv, DecryptInv
<1>8. /\ made.body = body /\ made.tag = tag /\ made.iv = b.iv /\ made.mid = b.mid
      /\ made.aad = b.aad
  BY <1>1 DEF Ciphertext
<1>9. [arg[t] EXCEPT !.ct = made].ct = made /\ [arg[t] EXCEPT !.ct = b].ct = b
  BY <1>1 DEF CallRecord
<1>10. Own([arg[t] EXCEPT !.ct = made]) = ctx[t]
  BY <1>1, <1>7, <1>8, <1>9 DEF Own, Filling, Nonce, CallRecord
<1>11. ctx[t].suite = arg[t].alg
  BY <1>1, <1>7 DEF Own, Filling, CallRecord
<1>12. WellMade([arg[t] EXCEPT !.ct = made])
  BY <1>1, <1>7, <1>8, <1>9, <1>10, <1>11 DEF WellMade, CallRecord
<1>13. Filling(t)' = [arg[t] EXCEPT !.ct = made]
  BY <1>6 DEF Filling
<1>14. WellMade(Filling(t))'
  BY <1>6, <1>12, <1>13 DEF WellMade, Own, Nonce, Sealed, Tag, Filling
<1>15. ThreadInv(t)'
  BY <1>6, <1>7, <1>14 DEF Inv, ThreadInv, EncryptInv
<1> QED
  BY <1>5, <1>6, <1>15, StepInv

LEMMA OpenInv ==
  ASSUME Inv, NEW t \in Threads, Open(t) PROVE Inv'
<1>1. CASE Fail(t)
  BY <1>1, FailInv DEF Open
<1>2. CASE ~Fail(t)
  <2>1. /\ pc[t] = "open" /\ UNCHANGED <<suite, gMutex, arg, ctx, buf, rc, fills, issued>>
        /\ scratch' = [scratch EXCEPT ![t] = Opened(ctx[t], arg[t].ct.body)]
        /\ pc' = [pc EXCEPT ![t] = "verify"]
    BY <1>2 DEF Open, Goto
  <2>2. TypeOK'
    BY <2>1, OpenedType DEF Inv, TypeOK, Places
  <2>3. ThreadInv(t)'
    <3>1. pc[t]' = "verify" /\ scratch[t]' = Opened(ctx[t], arg[t].ct.body)
      BY <2>1 DEF Inv, TypeOK
    <3>2. arg[t].op = "Decrypt" /\ DecryptInv(t) /\ ctx[t] = Own(arg[t])
      BY <2>1 DEF Inv, ThreadInv, EncryptInv, DecryptInv
    <3>3. DecryptInv(t)'
      BY <2>1, <3>1, <3>2 DEF DecryptInv
    <3> QED
      BY <2>1, <3>1, <3>2, <3>3 DEF Inv, ThreadInv
  <2>4. \A u \in Threads \ {t} : pc'[u] = pc[u] /\ scratch'[u] = scratch[u]
    BY <2>1 DEF Inv, TypeOK
  <2> QED
    BY <2>1, <2>2, <2>3, <2>4, StepInv
<1> QED
  BY <1>1, <1>2

LEMMA VerifyInv ==
  ASSUME Inv, NEW t \in Threads, Verify(t) PROVE Inv'
<1>1. CASE Fail(t)
  BY <1>1, FailInv DEF Verify
<1>2. CASE ~Fail(t)
  <2>1. /\ pc[t] = "verify" /\ UNCHANGED <<suite, gMutex, arg, ctx, buf, scratch, rc, fills, issued>>
        /\ TagFits(ctx[t].suite, ctx[t], arg[t].ct)
        /\ pc' = [pc EXCEPT ![t] = "leave"]
    BY <1>2 DEF Verify, Goto
  <2>2. TypeOK'
    BY <2>1 DEF Inv, TypeOK, Places
  <2>3. ctx[t] = Own(arg[t]) /\ Own(arg[t]).suite = arg[t].alg
    <3>1. ctx[t] = Own(arg[t])
      BY <2>1 DEF Inv, ThreadInv, EncryptInv, DecryptInv
    <3> QED
      BY <3>1 DEF Own
  <2>4. TagFits(arg[t].alg, Own(arg[t]), arg[t].ct)
    BY <2>1, <2>3
  <2>5. ThreadInv(t)'
    <3>1. pc[t]' = "leave"
      BY <2>1 DEF Inv, TypeOK
    <3>2. arg[t].op = "Decrypt" /\ DecryptInv(t)
      BY <2>1 DEF Inv, ThreadInv, EncryptInv
    <3>3. rc[t] = "OK"
      BY <2>1 DEF Inv, ThreadInv
    <3>4. DecryptInv(t)'
      BY <2>1, <2>4, <3>1, <3>2, <3>3 DEF DecryptInv
    <3> QED
      BY <2>1, <3>1, <3>2, <3>4 DEF Inv, ThreadInv
  <2>6. \A u \in Threads \ {t} : pc'[u] = pc[u] /\ scratch'[u] = scratch[u]
    BY <2>1 DEF Inv, TypeOK
  <2> QED
    BY <2>1, <2>2, <2>5, <2>6, StepInv
<1> QED
  BY <1>1, <1>2

LEMMA LeaveInv ==
  ASSUME Inv, NEW t \in Threads, Leave(t) PROVE Inv'
<1>1. NoCall \in CallRecord /\ Blank \in Ciphertext
  BY BlankType DEF NoCall, CallRecord
<1>2. NoCtx \in [suite : Algs \cup {Unspecified}, key : Keys \cup {"none"},
                 nonce : Nat \X Nat]
  BY DEF NoCtx
<1>3. Filling(t) \in CallRecord
  <2>1. arg[t] \in CallRecord /\ buf[t] \in Ciphertext
    BY DEF Inv, TypeOK
  <2> QED
    BY <2>1 DEF Filling, CallRecord
<1>4. issued' = IF arg[t].op = "Encrypt" /\ rc[t] = "OK"
                  THEN issued \cup {Filling(t)} ELSE issued
  BY DEF Leave, Filling
<1>5. TypeOK'
  BY <1>1, <1>2, <1>3, <1>4 DEF Inv, TypeOK, Leave, Goto, Places
<1>6. /\ pc[t] = "leave" /\ pc[t]' = "idle"
      /\ scratch[t]' = (IF rc[t] = "OK" THEN NoText ELSE scratch[t])
      /\ \A u \in Threads \ {t} : pc'[u] = pc[u] /\ scratch'[u] = scratch[u]
  BY DEF Inv, TypeOK, Leave, Goto
<1>7. rc[t] # "OK" => scratch[t] = NoText
  BY <1>6 DEF Inv, TypeOK, ThreadInv, EncryptInv, DecryptInv
<1>8. \A u \in Threads : pc'[u] = "idle" /\ scratch'[u] = NoText
  BY <1>6, <1>7, OthersIdle
<1>9. \A i \in issued' : WellMade(i)
  BY <1>4, <1>6 DEF Inv, ThreadInv, EncryptInv, DecryptInv
<1> QED
  BY <1>5, <1>8, <1>9 DEF Inv, ThreadInv, WellMade

LEMMA CallInv ==
  ASSUME Inv, NEW t \in Threads, Call(t) PROVE Inv'
<1>1. CASE \E alg \in Algs : Refused(t, alg)
  BY <1>1, RefusedInv
<1>2. ASSUME NEW alg \in Algs, NEW key \in Keys, NEW text \in Texts,
             Encrypt(t, alg, key, text)
      PROVE  Inv'
  <2> DEFINE call == [op |-> "Encrypt", alg |-> alg, key |-> key,
                      text |-> text, ct |-> Blank]
  <2>1. call \in CallRecord
    BY BlankType DEF CallRecord
  <2>2. Enter(t, call)
    BY <1>2 DEF Encrypt
  <2> QED
    BY <2>1, <2>2, EnterInv
<1>3. ASSUME NEW alg \in Algs, NEW key \in Keys, NEW ct \in Inputs,
             Decrypt(t, alg, key, ct)
      PROVE  Inv'
  <2> DEFINE call == [op |-> "Decrypt", alg |-> alg, key |-> key,
                      text |-> NoText, ct |-> ct]
  <2>1. call \in CallRecord /\ call.ct.tag \in {Unwritten} \cup {i.ct.tag : i \in issued}
    BY InputType DEF CallRecord, Inv
  <2>2. Enter(t, call)
    BY <1>3 DEF Decrypt
  <2> QED
    BY <2>1, <2>2, EnterInv
<1> QED
  BY <1>1, <1>2, <1>3 DEF Call

LEMMA EngineInv ==
  ASSUME Inv, NEW t \in Threads, Engine(t) PROVE Inv'
<1>1. CASE EngineFails(t)
  BY <1>1, FailInv DEF EngineFails
<1> QED
  BY <1>1, CheckKeyInv, FillInv, StartInv, SealInv, OpenInv, VerifyInv DEF Engine

LEMMA NextInv == Inv /\ [Next]_vars => Inv'
<1> SUFFICES ASSUME Inv, [Next]_vars PROVE Inv'
  OBVIOUS
<1>1. CASE UNCHANGED vars
  <2>1. TypeOK'
    BY <1>1 DEF vars, Inv, TypeOK
  <2> QED
    BY <1>1, <2>1 DEF vars, Inv, ThreadInv, EncryptInv, DecryptInv, Filling, WellMade
<1>2. CASE Next
  BY <1>2, InitCryptoInv, CallInv, EngineInv, LeaveInv DEF Next
<1> QED
  BY <1>1, <1>2

LEMMA SpecInv == Spec => []Inv
  BY InitInv, NextInv, PTL DEF Spec

-----------------------------------------------------------------------------

\* The types of the engine's configuration and of every call.
THEOREM CryptorTypes == Spec => []TypeOK
  BY SpecInv, PTL DEF Inv

\* A ciphertext that Encrypt gave out opens with its algorithm and key, with
\* any number of threads asking the engine for other suites.
THEOREM IssuedCiphertextsOpen == Spec => []IssuedOpens
<1>1. ASSUME Inv PROVE IssuedOpens
  <2> SUFFICES ASSUME NEW i \in issued PROVE OpensAs(i)
    BY DEF IssuedOpens
  <2>1. WellMade(i) /\ i \in CallRecord
    BY <1>1 DEF Inv, TypeOK
  <2>2. TagFits(i.alg, Own(i), i.ct)
    BY <2>1 DEF WellMade, TagFits
  <2>3. \A x \in Texts : i.ct.body = Sealed(Own(i), x) <=> x = i.text
    BY <2>1 DEF WellMade, Sealed
  <2>4. Opened(Own(i), i.ct.body) = i.text
    BY <2>1, <2>3 DEF Opened, WellMade
  <2> QED
    BY <2>2, <2>4 DEF OpensAs, Own
<1> QED
  BY <1>1, SpecInv, PTL

\* Decrypt, with an algorithm that authenticates, gives out only texts that
\* were encrypted, each for the very ciphertext, algorithm and key.
THEOREM NothingElseOpens == Spec => []OnlyIssuedOpens
<1>1. ASSUME Inv PROVE OnlyIssuedOpens
  <2> SUFFICES ASSUME NEW t \in Threads, pc[t] = "leave", arg[t].op = "Decrypt",
                      rc[t] = "OK", Authenticated(arg[t].alg)
               PROVE  [arg[t] EXCEPT !.op = "Encrypt", !.text = scratch[t]] \in issued
    BY DEF OnlyIssuedOpens
  <2> DEFINE a == arg[t]
             ct == arg[t].ct
             c == Own(arg[t])
  <2>1. a \in CallRecord /\ ct \in Ciphertext
    BY <1>1 DEF Inv, TypeOK, CallRecord
  <2>2. DecryptInv(t)
    BY <1>1 DEF Inv, ThreadInv
  <2>3. TagFits(a.alg, c, ct) /\ scratch[t] = Opened(c, ct.body)
    BY <2>2 DEF DecryptInv
  <2>4. ct.tag = Tag(c, ct.mid, ct.aad, ct.body)
    BY <2>3 DEF TagFits
  <2>5. ct.tag # Unwritten
    BY <2>4 DEF Tag, Unwritten
  <2>6. PICK i \in issued : ct.tag = i.ct.tag
    BY <2>2, <2>5 DEF DecryptInv
  <2>7. WellMade(i) /\ i \in CallRecord /\ i.ct \in Ciphertext
    BY <1>1 DEF Inv, TypeOK, CallRecord
  <2>8. i.ct.tag = Tag(Own(i), i.ct.mid, i.ct.aad, i.ct.body)
    BY <2>5, <2>6, <2>7 DEF WellMade
  <2>9. /\ c.suite = Own(i).suite /\ c.key = Own(i).key /\ c.nonce = Own(i).nonce
        /\ ct.mid = i.ct.mid /\ ct.aad = i.ct.aad /\ ct.body = i.ct.body
    BY <2>4, <2>6, <2>8 DEF Tag
  <2>10. a.alg = i.alg /\ a.key = i.key /\ ct.iv = i.ct.iv
    BY <2>9 DEF Own, Nonce
  <2>11. ct = i.ct
    BY <2>1, <2>6, <2>7, <2>9, <2>10 DEF Ciphertext
  <2>12. c = Own(i)
    BY <2>10, <2>11 DEF Own
  <2>13. \A x \in Texts : ct.body = Sealed(c, x) <=> x = i.text
    BY <2>7, <2>11, <2>12 DEF WellMade, Sealed
  <2>14. scratch[t] = i.text
    BY <2>3, <2>7, <2>13 DEF Opened, WellMade
  <2>15. [a EXCEPT !.op = "Encrypt", !.text = scratch[t]] = i
    BY <2>1, <2>7, <2>10, <2>11, <2>14 DEF CallRecord, WellMade
  <2> QED
    BY <2>15
<1> QED
  BY <1>1, SpecInv, PTL

\* No call leaves plaintext on the stack, however it ends.
THEOREM StackIsClean == Spec => []NoTextLeft
<1>1. Inv => NoTextLeft
  BY DEF Inv, ThreadInv, NoTextLeft
<1> QED
  BY <1>1, SpecInv, PTL

-----------------------------------------------------------------------------
(* Hash.                                                                   *)

HashInv ==
  /\ DigestOfAllInput
  /\ absorbed = accepted
  /\ content \in Seq(Chunks) /\ read \in 0..Len(content)
  /\ stream = "eof" => read = Len(content)

LEMMA ChunkSeqsAreSeqs == ASSUME NEW s \in ChunkSeqs(MaxChunks) PROVE s \in Seq(Chunks)
<1>1. PICK m \in 0..MaxChunks : s \in [1..m -> Chunks]
  BY DEF ChunkSeqs
<1> QED
  BY <1>1, HashAssumption DEF HashAssumption

\* A digest is of all the input its object took since the last Reset, or of
\* all of a stream.
THEOREM DigestsAreOfAllInput == HashSpec => []DigestOfAllInput
<1>1. HashInit => HashInv
  BY DEF HashInit, HashInv, DigestOfAllInput
<1>2. HashInv /\ [HashNext]_hashVars => HashInv'
  <2> SUFFICES ASSUME HashInv, [HashNext]_hashVars PROVE HashInv'
    OBVIOUS
  <2>1. CASE UNCHANGED hashVars
    BY <2>1 DEF hashVars, HashInv, DigestOfAllInput
  <2>2. CASE New \/ Reset
    BY <2>2 DEF New, Reset, AfterReset, HashInv, DigestOfAllInput
  <2>3. ASSUME NEW c \in Chunks, Update(c) PROVE HashInv'
    BY <2>3 DEF Update, HashInv, DigestOfAllInput
  <2>4. CASE Finalize
    BY <2>4 DEF Finalize, Appended, HashInv, DigestOfAllInput
  <2>5. CASE OpenStream
    <3>1. content' \in Seq(Chunks)
      BY <2>5, ChunkSeqsAreSeqs DEF OpenStream
    <3>2. read' \in 0..Len(content') /\ stream' = "reading"
      BY <2>5, <3>1 DEF OpenStream
    <3> QED
      BY <2>5, <3>1, <3>2 DEF OpenStream, objectVars, HashInv, DigestOfAllInput
  <2>6. CASE ReadStream
    <3>1. Len(content) \in Nat
      BY DEF HashInv
    <3>2. read' \in 0..Len(content) /\ (stream' = "eof" => read' = Len(content))
      BY <2>6, <3>1 DEF ReadStream, HashInv
    <3> QED
      BY <2>6, <3>2 DEF ReadStream, objectVars, HashInv, DigestOfAllInput
  <2>7. CASE FinishStream
    <3>1. StreamIsGood => SubSeq(content, 1, read) = content
      BY DEF StreamIsGood, HashInv
    <3>2. <<>> \in Seq(Chunks) /\ 0 \in 0..Len(<<>>)
      OBVIOUS
    <3> QED
      BY <2>7, <3>1, <3>2
      DEF FinishStream, Appended, objectVars, HashInv, DigestOfAllInput
  <2> QED
    BY <2>1, <2>2, <2>3, <2>4, <2>5, <2>6, <2>7 DEF HashNext
<1>3. HashInv => DigestOfAllInput
  BY DEF HashInv
<1> QED
  BY <1>1, <1>2, <1>3, PTL DEF HashSpec

-----------------------------------------------------------------------------
(* Pbkdf2.                                                                 *)

\* The bytes of an iteration count, and of a length, give it back.
LEMMA FourBytes ==
  ASSUME NEW n \in Nat, n <= MaxIterations
  PROVE  Byte(n, Shift24) * Shift24 + Byte(n, Shift16) * Shift16
           + Byte(n, 256) * 256 + Byte(n, 1) = n
<1> DEFINE q == n \div 256
           r == q \div 256
           s == r \div 256
<1>1. q \in Nat /\ n = q * 256 + (n % 256) /\ n % 256 \in 0..255 /\ q < 100000
  BY SMT DEF MaxIterations
<1>2. n \div Shift16 = r /\ n \div Shift24 = s
  BY SMT DEF MaxIterations, Shift16, Shift24
<1>3. r \in Nat /\ q = r * 256 + (q % 256) /\ r < 400
  BY <1>1
<1>4. s \in Nat /\ r = s * 256 + (r % 256) /\ s < 2
  BY <1>3
<1>5. Byte(n, Shift24) = s /\ Byte(n, Shift16) = r % 256 /\ Byte(n, 256) = q % 256
      /\ Byte(n, 1) = n % 256
  BY <1>2, <1>4 DEF Byte
<1> HIDE DEF q, r, s
<1> QED
  BY SMT, <1>1, <1>3, <1>4, <1>5 DEF Shift16, Shift24

LEMMA TwoBytes ==
  ASSUME NEW n \in 0..128 PROVE Byte(n, 256) = 0 /\ Byte(n, 1) = n
  BY DEF Byte

LEMMA ByteType ==
  ASSUME NEW n \in Nat
  PROVE  /\ Byte(n, 1) \in Nat /\ Byte(n, 256) \in Nat
         /\ Byte(n, Shift16) \in Nat /\ Byte(n, Shift24) \in Nat
  BY SMT DEF Byte, Shift16, Shift24

Packed(c) ==
  [bytes |-> Header(c), chars |-> Encoded(Offset + c.out + c.salt),
   length |-> Offset + c.out + c.salt]

KdfInv ==
  /\ packed # None => packed.length \in Nat /\ packed.bytes \in [1..Offset -> Nat]
  /\ whole => config \in Configs /\ Valid(config) /\ packed = Packed(config)
  /\ UnpacksWhatWasPacked

\* A string of Pbkdf2Hmac is long enough for GetPbkdf2Config, and its header
\* reads as the configuration.
LEMMA WholeReads ==
  ASSUME NEW c \in Configs, Valid(c)
  PROVE  /\ Packed(c).bytes[1] = c.alg
         /\ Packed(c).bytes[6] * 256 + Packed(c).bytes[7] = c.out
         /\ Packed(c).bytes[2] * Shift24 + Packed(c).bytes[3] * Shift16
              + Packed(c).bytes[4] * 256 + Packed(c).bytes[5] = c.iterations
         /\ Packed(c).length - c.out - Offset = c.salt
         /\ Packed(c).chars >= Encoded(Offset + MinOut + MinSalt) /\ Copied(c.salt)
<1>1. c.out \in 32..128 /\ c.salt \in 16..64 /\ c.iterations \in Nat
      /\ c.iterations <= MaxIterations
  BY Pbkdf2Assumption DEF Valid, MinOut, MinSalt, Configs, Pbkdf2Assumption
<1>2. /\ Header(c)[1] = c.alg
      /\ Header(c)[2] = Byte(c.iterations, Shift24)
      /\ Header(c)[3] = Byte(c.iterations, Shift16)
      /\ Header(c)[4] = Byte(c.iterations, 256) /\ Header(c)[5] = Byte(c.iterations, 1)
      /\ Header(c)[6] = Byte(c.out, 256) /\ Header(c)[7] = Byte(c.out, 1)
  BY DEF Header
<1>3. Byte(c.out, 256) * 256 + Byte(c.out, 1) = c.out
  BY <1>1, TwoBytes
<1>4. Byte(c.iterations, Shift24) * Shift24 + Byte(c.iterations, Shift16) * Shift16
        + Byte(c.iterations, 256) * 256 + Byte(c.iterations, 1) = c.iterations
  BY <1>1, FourBytes
<1>5. \A m, n \in Nat : m >= n => (m + 2) \div 3 >= (n + 2) \div 3
  OBVIOUS
<1>6. Encoded(Offset + c.out + c.salt) >= Encoded(Offset + MinOut + MinSalt)
  BY <1>1, <1>5 DEF Encoded, Offset, MinOut, MinSalt
<1>7. Offset + c.out + c.salt - c.out - Offset = c.salt /\ Copied(c.salt)
  BY <1>1 DEF Offset, Copied
<1> DEFINE b == Packed(c).bytes
<1>8. /\ b = Header(c) /\ Packed(c).length = Offset + c.out + c.salt
      /\ Packed(c).chars = Encoded(Offset + c.out + c.salt)
  BY DEF Packed
<1>9. b[6] * 256 + b[7] = c.out
  BY <1>2, <1>3, <1>8
<1>10. b[2] * Shift24 + b[3] * Shift16 + b[4] * 256 + b[5] = c.iterations
  BY <1>2, <1>4, <1>8
<1>11. Packed(c).length - c.out - Offset = c.salt
  BY <1>1, <1>8 DEF Offset
<1>12. Packed(c).chars >= Encoded(Offset + MinOut + MinSalt)
  BY <1>6, <1>8
<1>13. b[1] = c.alg
  BY <1>2, <1>8
<1> QED
  BY <1>7, <1>9, <1>10, <1>11, <1>12, <1>13

LEMMA PackedType ==
  ASSUME NEW c \in Configs
  PROVE  /\ Packed(c).length \in Nat /\ Packed(c) # None
         /\ Packed(c).bytes \in [1..Offset -> Nat]
         /\ Packed(c) = [bytes |-> Packed(c).bytes, chars |-> Packed(c).chars,
                         length |-> Packed(c).length]
<1>1. c.alg \in Nat /\ c.out \in Nat /\ c.salt \in Nat /\ c.iterations \in Nat
  BY Pbkdf2Assumption DEF Configs, Pbkdf2Assumption
<1>2. Header(c) \in [1..7 -> Nat]
  BY <1>1, ByteType DEF Header
<1>3. Offset + c.out + c.salt \in Nat
  BY <1>1 DEF Offset
<1>4. Packed(c).bytes = Header(c) /\ Packed(c).length = Offset + c.out + c.salt
  BY DEF Packed
<1>5. Packed(c) # None
  BY DEF Packed, None
<1> QED
  BY <1>2, <1>3, <1>4, <1>5 DEF Packed, Offset

LEMMA DamageKeeps ==
  ASSUME KdfInv, Damage PROVE KdfInv'
<1>1. /\ packed.length \in Nat /\ packed.bytes \in [1..Offset -> Nat]
      /\ packed = [bytes |-> packed.bytes, chars |-> packed.chars,
                   length |-> packed.length]
  BY PackedType DEF Damage, KdfInv
<1>2. parsed' = None /\ ~whole'
  BY DEF Damage
<1>3. packed'.length \in Nat /\ packed'.bytes \in [1..Offset -> Nat]
  <2>1. ASSUME NEW n \in Cuts, NEW chars,
               packed' = [packed EXCEPT !.length = IF n < packed.length
                                                     THEN packed.length - n ELSE 0,
                                        !.chars = chars]
        PROVE  packed'.length \in Nat /\ packed'.bytes \in [1..Offset -> Nat]
    <3>1. (IF n < packed.length THEN packed.length - n ELSE 0) \in Nat
      BY <1>1, Pbkdf2Assumption DEF Pbkdf2Assumption
    <3> QED
      BY <1>1, <2>1, <3>1
  <2>2. ASSUME NEW i \in 1..Offset, NEW b \in Bytes,
               packed' = [packed EXCEPT !.bytes[i] = b]
        PROVE  packed'.length \in Nat /\ packed'.bytes \in [1..Offset -> Nat]
    <3>1. b \in Nat
      BY Pbkdf2Assumption DEF Pbkdf2Assumption
    <3>2. packed'.bytes = [packed.bytes EXCEPT ![i] = b]
          /\ packed'.length = packed.length
      BY <1>1, <2>2
    <3> QED
      BY <1>1, <3>1, <3>2
  <2> QED
    BY <2>1, <2>2 DEF Damage
<1> QED
  BY <1>2, <1>3 DEF KdfInv, UnpacksWhatWasPacked

LEMMA ReadKeeps ==
  ASSUME KdfInv, GetPbkdf2Config PROVE KdfInv'
<1> DEFINE b == packed.bytes
           out == b[6] * 256 + b[7]
           salt == packed.length - out - Offset
           fits == LongEnough /\ Copied(salt)
           result == [rc |-> "OK", alg |-> b[1], out |-> out, salt |-> salt,
                      iterations |-> b[2] * Shift24 + b[3] * Shift16 + b[4] * 256 + b[5]]
<1>1. packed # None /\ UNCHANGED <<config, packed, whole>>
  BY DEF GetPbkdf2Config
<1>2. whole => fits /\ result = [rc |-> "OK", alg |-> config.alg, out |-> config.out,
                          salt |-> config.salt, iterations |-> config.iterations]
  BY WholeReads DEF KdfInv, LongEnough
<1>3. out \in Nat /\ salt \in Int /\ packed.length \in Nat
  BY <1>1 DEF KdfInv, Offset
<1>4. fits => salt > 0 /\ Offset + out + salt <= packed.length
  BY <1>3 DEF Copied, Offset
<1>5. \/ fits /\ parsed' = result
      \/ ~fits /\ parsed'.rc # "OK"
  BY <1>3 DEF GetPbkdf2Config, Copied
<1> HIDE DEF fits, salt, out
<1>6. UnpacksWhatWasPacked'
  BY <1>1, <1>2, <1>4, <1>5 DEF UnpacksWhatWasPacked
<1> QED
  BY <1>1, <1>6 DEF KdfInv

\* GetPbkdf2Config reads every string of Pbkdf2Hmac back, and stays within
\* every other.
THEOREM StringsReadBack == KdfSpec => []UnpacksWhatWasPacked
<1>1. KdfInit => KdfInv
  BY DEF KdfInit, KdfInv, UnpacksWhatWasPacked
<1>2. KdfInv /\ [KdfNext]_kdfVars => KdfInv'
  <2> SUFFICES ASSUME KdfInv, [KdfNext]_kdfVars PROVE KdfInv'
    OBVIOUS
  <2>1. CASE UNCHANGED kdfVars
    BY <2>1 DEF kdfVars, KdfInv, UnpacksWhatWasPacked
  <2>2. ASSUME NEW c \in Configs, Pbkdf2Hmac(c) PROVE KdfInv'
    <3>1. /\ Valid(c) /\ config' = c /\ parsed' = None
          /\ packed' = Packed(c)
      BY <2>2 DEF Pbkdf2Hmac, Packed
    <3> QED
      BY <3>1, PackedType DEF KdfInv, UnpacksWhatWasPacked
  <2> QED
    BY <2>1, <2>2, DamageKeeps, ReadKeeps DEF KdfNext
<1>3. KdfInv => UnpacksWhatWasPacked
  BY DEF KdfInv
<1> QED
  BY <1>1, <1>2, <1>3, PTL DEF KdfSpec
=============================================================================
