------------------------------ MODULE AgentAddr ------------------------------
(* The record of an agent as bytes (internal/agentaddr/agentaddr.go): Sign    *)
(* lays a payload out big-endian and signs it, the index stores the bytes,    *)
(* Decode and Verify take them back.  In the code a byte has 256 values and a *)
(* hash 16 bytes.  A signature is represented by what it proves, the key and  *)
(* the payload bytes it was made for, or Forged.                              *)
EXTENDS Integers, Sequences, FiniteSets

CONSTANTS
  Base,      \* the number of values of a byte
  HashSize,  \* the bytes of a hash
  Keys,      \* key pairs
  Nothing,   \* no record, or no payload, yet
  Forged     \* a signature no key made

Version1 == 1
Bytes == 0..(Base - 1)

ASSUME SizesAssumption == Base \in Nat \ {0, 1} /\ HashSize \in Nat \ {0}
ASSUME ForgedAssumption == Forged \notin [key : Keys, of : Seq(Bytes)]

flagsOffset == 1
ttlOffset == 2
sequenceOffset == 4
agentIDHashOffset == 8
factsPtrHashOffset == agentIDHashOffset + HashSize
credentialSet128Offset == factsPtrHashOffset + HashSize
PayloadSize == credentialSet128Offset + HashSize

Hashes == [1..HashSize -> Bytes]

\* The values of a Go Payload, those that no record can carry included.
Payloads == [Version : Bytes, Flags : Bytes, TTLSeconds : 0..(Base * Base - 1),
             Sequence : 0..(Base * Base * Base * Base - 1), AgentIDHash : Hashes,
             FactsPtrHash128 : Hashes, CredentialSet128 : Hashes]

VARIABLES
  payload,  \* the payload to be signed
  key,      \* the key it is signed with
  reader,   \* the key pair the reader expects it from
  signing,  \* what Sign answered: "none" yet, "refused" or "ok"
  record,   \* the record: its payload bytes and its signature
  stored,   \* how the record reached the reader: not yet, "kept" or "altered"
  reading,  \* what Decode and Verify answered: "none" yet, an error or "ok"
  decoded   \* the reader's payload

vars == <<payload, key, reader, signing, record, stored, reading, decoded>>

-----------------------------------------------------------------------------
(* Layout: byte i of the code's arrays is element i + 1 of a sequence. *)

\* Mutation: little-endian.
PutUint16Little(n) == <<n % Base, (n \div Base) % Base>>

\* binary.BigEndian.PutUint16 and PutUint32
PutUint16(n) == <<(n \div Base) % Base, n % Base>>
PutUint32(n) == PutUint16(n \div (Base * Base)) \o PutUint16(n)

\* binary.BigEndian.Uint16 and Uint32
Uint16(bytes) == bytes[1] * Base + bytes[2]
Uint32(bytes) == (Uint16(bytes) * Base + bytes[3]) * Base + bytes[4]

\* payload[from:to]
Slice(bytes, from, to) == SubSeq(bytes, from + 1, to)

ValidPayloadBytes(bytes) ==
  /\ bytes[1] = Version1
  /\ Uint16(Slice(bytes, ttlOffset, sequenceOffset)) # 0

EncodePayload(p) ==
  <<p.Version, p.Flags>> \o PutUint16(p.TTLSeconds) \o PutUint32(p.Sequence)
    \o p.AgentIDHash \o p.FactsPtrHash128 \o p.CredentialSet128

DecodePayload(bytes) ==
  [Version |-> bytes[1],
   Flags |-> bytes[flagsOffset + 1],
   TTLSeconds |-> Uint16(Slice(bytes, ttlOffset, sequenceOffset)),
   Sequence |-> Uint32(Slice(bytes, sequenceOffset, agentIDHashOffset)),
   AgentIDHash |-> Slice(bytes, agentIDHashOffset, factsPtrHashOffset),
   FactsPtrHash128 |-> Slice(bytes, factsPtrHashOffset, credentialSet128Offset),
   CredentialSet128 |-> Slice(bytes, credentialSet128Offset, PayloadSize)]

\* Mutation: the record is verified without its flags byte.
VerifyButFlags(r, k) ==
  /\ r.signature # Forged
  /\ r.signature.key = k
  /\ \A i \in 1..PayloadSize \ {flagsOffset + 1} : r.signature.of[i] = r.bytes[i]

Verify(r, k) == r.signature = [key |-> k, of |-> r.bytes]

-----------------------------------------------------------------------------
Init ==
  /\ payload \in Payloads
  /\ key \in Keys
  /\ reader \in Keys
  /\ signing = "none"
  /\ record = Nothing
  /\ stored = "none"
  /\ reading = "none"
  /\ decoded = Nothing

Sign ==
  LET bytes == EncodePayload(payload) IN
  /\ signing = "none"
  /\ IF ValidPayloadBytes(bytes)
       THEN /\ signing' = "ok"
            /\ record' = [bytes |-> bytes, signature |-> [key |-> key, of |-> bytes]]
       ELSE signing' = "refused" /\ UNCHANGED record
  /\ UNCHANGED <<payload, key, reader, stored, reading, decoded>>

\* The bytes reach the reader as they are.
Keep ==
  /\ signing = "ok"
  /\ stored = "none"
  /\ stored' = "kept"
  /\ UNCHANGED <<payload, key, reader, signing, record, reading, decoded>>

\* They reach it with a byte of the payload changed, with another signature, or
\* cut short.
Alter ==
  /\ signing = "ok"
  /\ stored = "none"
  /\ stored' = "altered"
  /\ \/ \E i \in 1..PayloadSize : \E b \in Bytes \ {record.bytes[i]} :
          record' = [record EXCEPT !.bytes[i] = b]
     \/ record' = [record EXCEPT !.signature = Forged]
     \/ record' = [record EXCEPT !.bytes = SubSeq(@, 1, PayloadSize - 1)]
  /\ UNCHANGED <<payload, key, reader, signing, reading, decoded>>

Refuse(reason) == reading' = reason /\ UNCHANGED decoded

\* Decode, then Verify with the public key.
Read ==
  /\ stored # "none"
  /\ reading = "none"
  /\ IF Len(record.bytes) # PayloadSize THEN Refuse("length")
     ELSE IF ~ValidPayloadBytes(record.bytes) THEN Refuse("invalid")
     ELSE IF ~Verify(record, reader) THEN Refuse("signature")
     ELSE reading' = "ok" /\ decoded' = DecodePayload(record.bytes)
  /\ UNCHANGED <<payload, key, reader, signing, record, stored>>

Next == Sign \/ Keep \/ Alter \/ Read

Spec == Init /\ [][Next]_vars

-----------------------------------------------------------------------------
(* Properties *)

\* A record that was signed and kept is refused only under another key, and every
\* field of its payload comes back to the last bit; one that differs from the one
\* signed in any byte is refused.
RoundTrip == reading # "none" =>
  IF stored = "altered" THEN reading # "ok"
  ELSE IF reader = key THEN reading = "ok" /\ decoded = payload
  ELSE reading = "signature"
==============================================================================
