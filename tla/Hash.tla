--------------------------------- MODULE Hash ---------------------------------
(***************************************************************************)
(* Digests (src/cdf/modules/cryption/hash.cpp): a Hash object, over an     *)
(* OpenSSL context or, where OpenSSL lacks the algorithm, a BLAKE3 hasher, *)
(* and HashStream, which reads a stream into a Hash of its own.  Input is  *)
(* a sequence of chunks; a digest is the sequence it is of.  MaxChunks     *)
(* bounds what an object or a stream takes.                                *)
(***************************************************************************)
EXTENDS Integers, Sequences

CONSTANTS Chunks, MaxChunks

ASSUME HashAssumption == MaxChunks \in Nat

VARIABLES
  impl,      \* what the object has: "none", "openssl" or "blake3"
  state,     \* the OpenSSL context: "ready", "final" or, without one, "unset"
  absorbed,  \* what the context holds
  accepted,  \* what Update took since the object was made or reset
  stream,    \* HashStream: "idle", "reading", "eof", "fail"
  content,   \* what its stream has to give; the bytes before an error
  read,      \* how many chunks it has read
  digest     \* the digest appended to an output last: what it is of, and should be

hashVars == <<impl, state, absorbed, accepted, stream, content, read, digest>>
objectVars == <<impl, state, absorbed, accepted>>
streamVars == <<stream, content, read>>

ChunkSeqs(n) == UNION {[1..m -> Chunks] : m \in 0..n}

HashInit ==
  /\ impl = "none" /\ state = "unset" /\ absorbed = <<>> /\ accepted = <<>>
  /\ stream = "idle" /\ content = <<>> /\ read = 0
  /\ digest = [of |-> <<>>, should |-> <<>>]

Appended(of, should) == digest' = [of |-> of, should |-> should]

-----------------------------------------------------------------------------
(* A Hash object.                                                          *)

\* Impl::Impl: an unknown algorithm, or one OpenSSL lacks, leaves it without
\* a context; when only Reset fails it counts as inited all the same.
New ==
  /\ \/ impl' \in {"none", "openssl"} /\ state' = "unset"
     \/ impl' \in {"openssl", "blake3"} /\ state' = "ready"
  /\ absorbed' = <<>> /\ accepted' = <<>>
  /\ UNCHANGED <<stream, content, read, digest>>

NothingReset == absorbed   \* mutant of AfterReset
AfterReset == <<>>

Reset ==
  /\ impl # "none"
  /\ absorbed' = AfterReset /\ accepted' = <<>>
  /\ \/ state' = "ready"
     \/ impl = "openssl" /\ state' = "unset"   \* EVP_DigestInit_ex fails
  /\ UNCHANGED <<impl, stream, content, read, digest>>

\* An OpenSSL context that gave its digest takes no more before a Reset.
Update(c) ==
  /\ state = "ready" /\ Len(accepted) < MaxChunks
  /\ absorbed' = Append(absorbed, c) /\ accepted' = Append(accepted, c)
  /\ UNCHANGED <<impl, state, stream, content, read, digest>>

\* A BLAKE3 hasher can go on, and give its digest again.
Finalize ==
  /\ state = "ready"
  /\ Appended(absorbed, accepted)
  /\ state' = IF impl = "openssl" THEN "final" ELSE "ready"
  /\ UNCHANGED <<impl, absorbed, accepted, stream, content, read>>

-----------------------------------------------------------------------------
(* HashStream.                                                             *)

OpenStream ==
  /\ stream = "idle" /\ stream' = "reading"
  /\ content' \in ChunkSeqs(MaxChunks) /\ read' = 0
  /\ UNCHANGED <<objectVars, digest>>

\* A read gives the next chunk, with the end of the stream after the last
\* one or not yet; or it fails, after giving something or nothing.
ReadStream ==
  /\ stream = "reading"
  /\ \/ /\ read < Len(content) /\ read' = read + 1
        /\ stream' \in {"reading", "fail"}
           \cup (IF read + 1 = Len(content) THEN {"eof"} ELSE {})
     \/ /\ read' = read
        /\ stream' \in {"fail"}
           \cup (IF read = Len(content) THEN {"eof"} ELSE {})
  /\ UNCHANGED <<objectVars, content, digest>>

EofOrFail == stream \in {"eof", "fail"}   \* mutant of StreamIsGood
StreamIsGood == stream = "eof"

\* The digest is appended only when the stream ended well and gave something.
FinishStream ==
  /\ stream \in {"eof", "fail"}
  /\ \/ /\ StreamIsGood /\ read > 0
        /\ Appended(SubSeq(content, 1, read), content)
     \/ UNCHANGED digest
  /\ stream' = "idle" /\ content' = <<>> /\ read' = 0
  /\ UNCHANGED objectVars

HashNext ==
  \/ New \/ Reset \/ Finalize
  \/ \E c \in Chunks : Update(c)
  \/ OpenStream \/ ReadStream \/ FinishStream

HashSpec == HashInit /\ [][HashNext]_hashVars

-----------------------------------------------------------------------------
(* Properties.                                                             *)

HashTypeOK ==
  /\ impl \in {"none", "openssl", "blake3"}
  /\ state \in {"unset", "ready", "final"} /\ read \in 0..MaxChunks
  /\ stream \in {"idle", "reading", "eof", "fail"}

\* A digest is of all the input: of every chunk Update took since the last
\* Reset and of no other, whatever was finalised or failed before, and of a
\* whole stream, never of what came before a read error.
DigestOfAllInput == digest.of = digest.should
=============================================================================
