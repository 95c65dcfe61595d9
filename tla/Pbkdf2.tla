-------------------------------- MODULE Pbkdf2 --------------------------------
(***************************************************************************)
(* Derived keys (native_cryptor_engine.cpp): Pbkdf2Hmac packs algorithm,   *)
(* iteration count, key length, key and salt into a Base64 string, and     *)
(* GetPbkdf2Config unpacks it again, or one that was cut or changed.  Key  *)
(* and salt count by their lengths only.                                   *)
(***************************************************************************)
EXTENDS Integers, Sequences

CONSTANTS
  AlgIds, IterationTimes, OutLens, SaltLens,  \* what configurations have
  Cuts,                                       \* the bytes a cut removes
  Bytes                                       \* the bytes a change writes

ASSUME Pbkdf2Assumption ==
  /\ AlgIds \cup IterationTimes \cup OutLens \cup SaltLens \cup Cuts \subseteq Nat
  /\ Bytes \subseteq 0..255

VARIABLES
  config,  \* the configuration of the last Pbkdf2Hmac
  packed,  \* the string: its header, its characters, what it decodes to
  whole,   \* is it as Pbkdf2Hmac made it?
  parsed   \* what GetPbkdf2Config returned, or that it threw

kdfVars == <<config, packed, whole, parsed>>

Offset == 7   \* PBKDF2_OUT_OFFSET
MinOut == 32
MinSalt == 16
MaxIterations == 20000000
Shift16 == 65536
Shift24 == 16777216

Configs ==
  [alg : AlgIds, iterations : IterationTimes, out : OutLens, salt : SaltLens]

\* ValidatePbkdf2Config; the algorithms are numbered.
Valid(c) ==
  /\ c.alg \in 0..3
  /\ 1000 <= c.iterations /\ c.iterations <= MaxIterations
  /\ c.out \in MinOut..128 /\ c.salt \in MinSalt..64

Byte(n, place) == (n \div place) % 256

\* The header's bytes, big endian.
Header(c) ==
  <<c.alg, Byte(c.iterations, Shift24), Byte(c.iterations, Shift16),
    Byte(c.iterations, 256), Byte(c.iterations, 1),
    Byte(c.out, 256), Byte(c.out, 1)>>

\* How many characters n bytes need in Base64.
Encoded(n) == ((n + 2) \div 3) * 4

None == [rc |-> "none"]

KdfInit == config = None /\ packed = None /\ whole = FALSE /\ parsed = None

Pbkdf2Hmac(c) ==
  LET n == Offset + c.out + c.salt IN
  /\ Valid(c)
  /\ config' = c /\ whole' = TRUE /\ parsed' = None
  /\ packed' = [bytes |-> Header(c), chars |-> Encoded(n), length |-> n]

\* The end of the string is cut off or does not decode, or a header byte
\* changes.
Damage ==
  /\ whole /\ whole' = FALSE /\ parsed' = None
  /\ \/ \E n \in Cuts :
          LET left == IF n < packed.length THEN packed.length - n ELSE 0 IN
          \E chars \in {packed.chars, Encoded(left)} :
            packed' = [packed EXCEPT !.length = left, !.chars = chars]
     \/ \E i \in 1..Offset, b \in Bytes : packed' = [packed EXCEPT !.bytes[i] = b]
  /\ UNCHANGED config

\* The salt's length is a uint32_t: a header that names more than there is
\* makes it huge, and memcpy_s refuses it, as it does 0.
NotEmpty(salt) == salt # 0   \* mutant of Copied
Copied(salt) == salt > 0

LongEnough == packed.chars >= Encoded(Offset + MinOut + MinSalt)

\* GetPbkdf2Config.  What decodes to less than a header leaves the rest of it
\* uninitialised; the salt's length is below 0 whatever that is.
GetPbkdf2Config ==
  LET b == packed.bytes
      out == b[6] * 256 + b[7]
      salt == packed.length - out - Offset
  IN
  /\ packed # None
  /\ \/ /\ LongEnough /\ Copied(salt)
        /\ parsed' =
             [rc |-> "OK", alg |-> b[1], out |-> out, salt |-> salt,
              iterations |-> b[2] * Shift24 + b[3] * Shift16 + b[4] * 256 + b[5]]
     \/ ~(LongEnough /\ Copied(salt)) /\ parsed' = [rc |-> "ERROR"]
     \/ \* resizing the salt to the huge length is out of memory
        LongEnough /\ salt < 0 /\ parsed' = [rc |-> "THROWN"]
  /\ UNCHANGED <<config, packed, whole>>

KdfNext == (\E c \in Configs : Pbkdf2Hmac(c)) \/ Damage \/ GetPbkdf2Config

KdfSpec == KdfInit /\ [][KdfNext]_kdfVars

-----------------------------------------------------------------------------
(* Properties.                                                             *)

\* GetPbkdf2Config gives back the configuration of an untouched string, at
\* every boundary of what Pbkdf2Hmac takes, and never points past the end of
\* a damaged one.
UnpacksWhatWasPacked ==
  parsed # None =>
    /\ whole => parsed = [rc |-> "OK", alg |-> config.alg, out |-> config.out,
                          salt |-> config.salt, iterations |-> config.iterations]
    /\ parsed.rc = "OK" => /\ parsed.salt > 0
                           /\ Offset + parsed.out + parsed.salt <= packed.length
=============================================================================
