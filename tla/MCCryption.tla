----------------------------- MODULE MCCryption -----------------------------
(* Small instances of NativeCryptor, Hash and Pbkdf2 for TLC.  The three   *)
(* share nothing, so that a behaviour has steps of one of them only.       *)
EXTENDS NativeCryptor, Hash, Pbkdf2, TLC

VARIABLE part

Bits == ("k128" :> 128) @@ ("k256" :> 256)

AllInit ==
  /\ part \in {"cryptor", "hash", "kdf"}
  /\ Init /\ HashInit /\ KdfInit

AllNext ==
  /\ UNCHANGED part
  /\ \/ part = "cryptor" /\ Next /\ UNCHANGED <<hashVars, kdfVars>>
     \/ part = "hash" /\ HashNext /\ UNCHANGED <<vars, kdfVars>>
     \/ part = "kdf" /\ KdfNext /\ UNCHANGED <<vars, hashVars>>

AllSpec == AllInit /\ [][AllNext]_<<part, vars, hashVars, kdfVars>>
=============================================================================
