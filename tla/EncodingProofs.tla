--------------------------- MODULE EncodingProofs ----------------------------
(* Two encodings say all that was encoded.  AgentAddr, for bytes of any       *)
(* number of values and hashes of any length, the 256 and 16 of the code      *)
(* among them: a payload comes back to the last bit, and nothing but the      *)
(* record that was signed verifies.  CredentialSet, for documents of any      *)
(* length: the hash in a record is that of the credentials, in whatever order *)
(* they and their capabilities are listed, and of no others.                  *)
EXTENDS AgentAddr, CredentialSet, FiniteSetTheorems, FunctionTheorems,
        WellFoundedInduction, TLAPS

-----------------------------------------------------------------------------
(* Bytes.                                                                     *)

LEMMA Concatenation ==
  ASSUME NEW S, NEW s \in Seq(S), NEW t \in Seq(S)
  PROVE  /\ s \o t \in Seq(S) /\ Len(s \o t) = Len(s) + Len(t)
         /\ \A i \in 1..Len(s) : (s \o t)[i] = s[i]
         /\ \A i \in 1..Len(t) : (s \o t)[Len(s) + i] = t[i]
OBVIOUS

LEMMA DivMod ==
  ASSUME NEW n \in Nat, NEW T \in Nat \ {0}
  PROVE  /\ n \div T \in Nat /\ n % T \in 0..(T - 1)
         /\ n = (n \div T) * T + (n % T)
OBVIOUS

\* A number below n * T is less than n times T.
LEMMA DivBelow ==
  ASSUME NEW m \in Nat, NEW n \in Nat, NEW T \in Nat \ {0}, m < n * T
  PROVE  m \div T < n
<1> DEFINE q == m \div T
<1>1. q \in Nat /\ m >= q * T
  BY DivMod
<1> HIDE DEF q
<1>2. ASSUME q >= n PROVE FALSE
  <2>1. q * T >= n * T
    BY <1>1, <1>2
  <2> QED BY <1>1, <2>1
<1> QED BY <1>1, <1>2 DEF q

LEMMA ModOfSmall ==
  ASSUME NEW T \in Nat \ {0}, NEW n \in 0..(T - 1)
  PROVE  n % T = n
OBVIOUS

\* To cut off two digits is to cut off one and then another.
LEMMA DivTwice ==
  ASSUME NEW n \in Nat, NEW T \in Nat \ {0}
  PROVE  T * T \in Nat \ {0} /\ n \div (T * T) = (n \div T) \div T
<1> DEFINE a == n \div T
           b == a \div T
           q == n \div (T * T)
<1>1. T * T \in Nat \ {0}
  OBVIOUS
<1>2. a \in Nat /\ n % T \in 0..(T - 1) /\ n = a * T + (n % T)
  BY DivMod
<1>3. b \in Nat /\ a % T \in 0..(T - 1) /\ a = b * T + (a % T)
  BY <1>2, DivMod
<1>4. q \in Nat /\ n % (T * T) \in 0..(T * T - 1) /\ n = q * (T * T) + (n % (T * T))
  BY <1>1, DivMod
<1> DEFINE x == n % T
           y == a % T
           z == n % (T * T)
           r == y * T + x
<1> HIDE DEF a, b, q, x, y, z
<1>5. r \in 0..(T * T - 1) /\ n = b * (T * T) + r
  <2>1. y * T <= (T - 1) * T /\ y * T \in Nat
    BY <1>3 DEF y
  <2>2. (T - 1) * T = T * T - T
    OBVIOUS
  <2>3. r \in 0..(T * T - 1)
    BY <1>2, <2>1, <2>2 DEF x
  <2>4. n = (b * T + y) * T + x
    BY <1>2, <1>3 DEF x, y
  <2> QED BY <1>2, <1>3, <2>3, <2>4 DEF x, y
<1>6. b = q
  <2> DEFINE U == T * T
  <2>1. U \in Nat \ {0} /\ b \in Nat /\ q \in Nat /\ r \in 0..(U - 1) /\ z \in 0..(U - 1)
        /\ b * U + r = q * U + z
    BY <1>1, <1>3, <1>4, <1>5 DEF z
  <2> HIDE DEF U, r
  <2>2. ASSUME b < q PROVE FALSE
    <3>1. (b + 1) * U <= q * U /\ (b + 1) * U = b * U + U
      BY <2>1, <2>2
    <3> QED BY <2>1, <3>1
  <2>3. ASSUME q < b PROVE FALSE
    <3>1. (q + 1) * U <= b * U /\ (q + 1) * U = q * U + U
      BY <2>1, <2>3
    <3> QED BY <2>1, <3>1
  <2> QED BY <2>1, <2>2, <2>3
<1> QED BY <1>1, <1>6 DEF a, b, q

LEMMA TwoAndTwo ==
  ASSUME NEW S, NEW s \in Seq(S), NEW t \in Seq(S)
  PROVE  Len(s) = 2 /\ Len(t) = 2 =>
           /\ s \o t \in Seq(S) /\ Len(s \o t) = 4
           /\ (s \o t)[1] = s[1] /\ (s \o t)[2] = s[2]
           /\ (s \o t)[3] = t[1] /\ (s \o t)[4] = t[2]
<1> DEFINE u == s \o t
<1>1. /\ u \in Seq(S) /\ Len(u) = Len(s) + Len(t)
      /\ \A i \in 1..Len(s) : u[i] = s[i]
      /\ \A i \in 1..Len(t) : u[Len(s) + i] = t[i]
  BY Concatenation
<1> HIDE DEF u
<1>2. ASSUME Len(s) = 2, Len(t) = 2
      PROVE  u[1] = s[1] /\ u[2] = s[2] /\ u[2 + 1] = t[1] /\ u[2 + 2] = t[2]
  BY <1>1, <1>2
<1> QED BY <1>1, <1>2 DEF u

\* What is put as two bytes is read back from them.
LEMMA TwoBytes ==
  ASSUME NEW n \in Nat
  PROVE  /\ PutUint16(n) \in Seq(Bytes) /\ Len(PutUint16(n)) = 2
         /\ PutUint16(n)[1] = (n \div Base) % Base /\ PutUint16(n)[2] = n % Base
<1>1. n \div Base \in Nat /\ n % Base \in Bytes
  BY SizesAssumption, DivMod DEF Bytes
<1>2. (n \div Base) % Base \in Bytes
  BY <1>1, SizesAssumption, DivMod DEF Bytes
<1> QED BY <1>1, <1>2 DEF PutUint16

LEMMA Uint16Read ==
  ASSUME NEW n \in 0..(Base * Base - 1)
  PROVE  ((n \div Base) % Base) * Base + (n % Base) = n
<1>1. n \in Nat /\ n < Base * Base
  BY SizesAssumption
<1>2. n \div Base \in Nat /\ n \div Base < Base
  BY <1>1, SizesAssumption, DivMod, DivBelow
<1>3. (n \div Base) % Base = n \div Base
  BY <1>2, SizesAssumption, ModOfSmall
<1> QED BY <1>1, <1>3, SizesAssumption, DivMod

LEMMA FourBytes ==
  ASSUME NEW n \in Nat
  PROVE  /\ PutUint32(n) \in Seq(Bytes) /\ Len(PutUint32(n)) = 4
         /\ PutUint32(n)[1] = ((n \div (Base * Base)) \div Base) % Base
         /\ PutUint32(n)[2] = (n \div (Base * Base)) % Base
         /\ PutUint32(n)[3] = (n \div Base) % Base
         /\ PutUint32(n)[4] = n % Base
<1> DEFINE m == n \div (Base * Base)
<1>1. m \in Nat
  BY SizesAssumption, DivTwice, DivMod
<1> HIDE DEF m
<1>2. PutUint32(n) = PutUint16(m) \o PutUint16(n)
  BY DEF PutUint32, m
<1> DEFINE high == PutUint16(m)
           low == PutUint16(n)
<1>3. /\ high \in Seq(Bytes) /\ Len(high) = 2 /\ high[1] = (m \div Base) % Base /\ high[2] = m % Base
      /\ low \in Seq(Bytes) /\ Len(low) = 2 /\ low[1] = (n \div Base) % Base /\ low[2] = n % Base
  BY <1>1, TwoBytes
<1> HIDE DEF high, low
<1>4. /\ high \o low \in Seq(Bytes) /\ Len(high \o low) = 4
      /\ (high \o low)[1] = high[1] /\ (high \o low)[2] = high[2]
      /\ (high \o low)[3] = low[1] /\ (high \o low)[4] = low[2]
  BY <1>3, TwoAndTwo
<1>5. m \div Base = (n \div (Base * Base)) \div Base
  BY DEF m
<1> QED BY <1>2, <1>3, <1>4, <1>5 DEF high, low, m

LEMMA Uint32Read ==
  ASSUME NEW n \in 0..(Base * Base * Base * Base - 1)
  PROVE  ((((((n \div (Base * Base)) \div Base) % Base) * Base + ((n \div (Base * Base)) % Base)) * Base
            + ((n \div Base) % Base)) * Base) + (n % Base) = n
<1> DEFINE m == n \div (Base * Base)
           k == n \div Base
<1>1. n \in Nat /\ Base * Base \in Nat \ {0} /\ n < (Base * Base) * (Base * Base)
  BY SizesAssumption, DivTwice
<1>2. m \in Nat /\ m < Base * Base /\ m = k \div Base /\ k \in Nat
  BY <1>1, SizesAssumption, DivMod, DivBelow, DivTwice
<1>3. m \in 0..(Base * Base - 1)
  BY <1>1, <1>2
<1> HIDE DEF m, k
<1>4. ((m \div Base) % Base) * Base + (m % Base) = m
  BY <1>3, Uint16Read, Zenon
<1>5. m * Base + (k % Base) = k
  <2>1. k \in Nat /\ Base \in Nat \ {0}
    BY <1>2, SizesAssumption
  <2>2. k = (k \div Base) * Base + (k % Base)
    BY <2>1, DivMod, Zenon
  <2> QED BY <1>2, <2>2, Zenon
<1>6. k * Base + (n % Base) = n
  <2>1. n \in Nat /\ Base \in Nat \ {0}
    BY <1>1, SizesAssumption
  <2>2. n = (n \div Base) * Base + (n % Base)
    BY <2>1, DivMod, Zenon
  <2> QED BY <2>2, Zenon DEF k
<1>7. ((((m \div Base) % Base) * Base + (m % Base)) * Base + (k % Base)) * Base + (n % Base) = n
  BY <1>4, <1>5, <1>6, Zenon
<1> QED BY <1>7, Zenon DEF m, k

-----------------------------------------------------------------------------
(* The layout.                                                                *)

\* Cut where it was put together, a sequence falls into its parts.
LEMMA LastPart ==
  ASSUME NEW S, NEW s \in Seq(S), NEW t \in Seq(S)
  PROVE  Slice(s \o t, Len(s), Len(s) + Len(t)) = t
<1> DEFINE u == s \o t
           n == Len(s)
           m == Len(t)
<1>1. /\ n \in Nat /\ m \in Nat /\ u \in Seq(S) /\ Len(u) = n + m
      /\ \A i \in 1..m : u[n + i] = t[i]
  BY Concatenation
<1>2. t = [i \in 1..m |-> t[i]]
  OBVIOUS
<1> HIDE DEF u, n, m
<1>3. Slice(u, n, n + m) = [i \in 1..(n + m - n) |-> u[n + i]]
  <2>1. u \in Seq(S) /\ n \in Nat /\ m \in Nat /\ n <= n + m /\ n + m <= Len(u)
    BY <1>1
  <2> QED BY <2>1 DEF Slice
<1>4. n + m - n = m
  BY <1>1
<1>5. [i \in 1..m |-> u[n + i]] = [i \in 1..m |-> t[i]]
  BY <1>1
<1>6. Slice(u, n, n + m) = t
  BY <1>2, <1>3, <1>4, <1>5
<1> QED BY <1>6 DEF u, n, m

LEMMA EarlierPart ==
  ASSUME NEW S, NEW s \in Seq(S), NEW t \in Seq(S),
         NEW from \in Nat, NEW to \in Nat, from <= to, to <= Len(s)
  PROVE  Slice(s \o t, from, to) = Slice(s, from, to)
<1> DEFINE u == s \o t
<1>1. /\ Len(s) \in Nat /\ Len(t) \in Nat /\ u \in Seq(S) /\ Len(u) = Len(s) + Len(t)
      /\ \A i \in 1..Len(s) : u[i] = s[i]
  BY Concatenation
<1> HIDE DEF u
<1>2. Slice(u, from, to) = [i \in 1..(to - from) |-> u[from + i]]
  <2>1. u \in Seq(S) /\ to <= Len(u)
    BY <1>1
  <2> QED BY <2>1 DEF Slice
<1>3. Slice(s, from, to) = [i \in 1..(to - from) |-> s[from + i]]
  BY DEF Slice
<1>4. \A i \in 1..(to - from) : u[from + i] = s[from + i]
  BY <1>1
<1> QED BY <1>2, <1>3, <1>4 DEF u

\* What joining a part to the end gives.
LEMMA Joined ==
  ASSUME NEW S, NEW s \in Seq(S), NEW t \in Seq(S)
  PROVE  /\ s \o t \in Seq(S) /\ Len(s \o t) = Len(s) + Len(t)
         /\ \A i \in 1..Len(s) : (s \o t)[i] = s[i]
         /\ Slice(s \o t, Len(s), Len(s) + Len(t)) = t
         /\ \A from, to \in Nat :
              from <= to /\ to <= Len(s) => Slice(s \o t, from, to) = Slice(s, from, to)
BY Concatenation, LastPart, EarlierPart

\* Where the fields of a payload are.
LEMMA Layout ==
  ASSUME NEW p \in Payloads
  PROVE  LET e == EncodePayload(p) IN
         /\ e \in Seq(Bytes) /\ Len(e) = PayloadSize
         /\ e[1] = p.Version /\ e[flagsOffset + 1] = p.Flags
         /\ Slice(e, ttlOffset, sequenceOffset) = PutUint16(p.TTLSeconds)
         /\ Slice(e, sequenceOffset, agentIDHashOffset) = PutUint32(p.Sequence)
         /\ Slice(e, agentIDHashOffset, factsPtrHashOffset) = p.AgentIDHash
         /\ Slice(e, factsPtrHashOffset, credentialSet128Offset) = p.FactsPtrHash128
         /\ Slice(e, credentialSet128Offset, PayloadSize) = p.CredentialSet128
<1> DEFINE h == HashSize
           s0 == <<p.Version, p.Flags>>
           ttl == PutUint16(p.TTLSeconds)
           seq == PutUint32(p.Sequence)
           id == p.AgentIDHash
           facts == p.FactsPtrHash128
           set == p.CredentialSet128
           s1 == s0 \o ttl
           s2 == s1 \o seq
           s3 == s2 \o id
           s4 == s3 \o facts
           s5 == s4 \o set
<1>0. h \in Nat
  BY SizesAssumption
<1>1. EncodePayload(p) = s5
  BY DEF EncodePayload
<1>2. s0 \in Seq(Bytes) /\ Len(s0) = 2 /\ s0[1] = p.Version /\ s0[2] = p.Flags
  BY DEF Payloads
<1>3. ttl \in Seq(Bytes) /\ Len(ttl) = 2
  <2>1. p.TTLSeconds \in Nat
    BY SizesAssumption DEF Payloads
  <2> QED BY <2>1, TwoBytes
<1>4. seq \in Seq(Bytes) /\ Len(seq) = 4
  <2>1. p.Sequence \in Nat
    BY SizesAssumption DEF Payloads
  <2> QED BY <2>1, FourBytes
<1>5. /\ id \in Seq(Bytes) /\ Len(id) = h /\ facts \in Seq(Bytes) /\ Len(facts) = h
      /\ set \in Seq(Bytes) /\ Len(set) = h
  <2>1. id \in Hashes /\ facts \in Hashes /\ set \in Hashes
    BY DEF Payloads
  <2>2. ASSUME NEW x \in Hashes PROVE x \in Seq(Bytes) /\ Len(x) = h
    BY <1>0 DEF Hashes
  <2> QED BY <2>1, <2>2
<1> HIDE DEF s0, ttl, seq, id, facts, set, h
<1>6. /\ s1 \in Seq(Bytes) /\ Len(s1) = 4 /\ s1[1] = p.Version /\ s1[2] = p.Flags
      /\ Slice(s1, 2, 4) = ttl
  <2>1. s0 \in Seq(Bytes) /\ ttl \in Seq(Bytes)
    BY <1>2, <1>3
  <2>2. /\ s1 \in Seq(Bytes) /\ Len(s1) = Len(s0) + Len(ttl)
        /\ \A i \in 1..Len(s0) : s1[i] = s0[i]
        /\ Slice(s1, Len(s0), Len(s0) + Len(ttl)) = ttl
        /\ \A from, to \in Nat :
             from <= to /\ to <= Len(s0) => Slice(s1, from, to) = Slice(s0, from, to)
    BY <2>1, Joined
  <2> HIDE DEF s1
  <2> QED BY <1>0, <1>2, <1>3, <2>2
<1> HIDE DEF s1
<1>7. /\ s2 \in Seq(Bytes) /\ Len(s2) = 8 /\ s2[1] = p.Version /\ s2[2] = p.Flags
      /\ Slice(s2, 2, 4) = ttl /\ Slice(s2, 4, 8) = seq
  <2>1. s1 \in Seq(Bytes) /\ seq \in Seq(Bytes)
    BY <1>4, <1>6
  <2>2. /\ s2 \in Seq(Bytes) /\ Len(s2) = Len(s1) + Len(seq)
        /\ \A i \in 1..Len(s1) : s2[i] = s1[i]
        /\ Slice(s2, Len(s1), Len(s1) + Len(seq)) = seq
        /\ \A from, to \in Nat :
             from <= to /\ to <= Len(s1) => Slice(s2, from, to) = Slice(s1, from, to)
    BY <2>1, Joined
  <2> HIDE DEF s2
  <2> QED BY <1>0, <1>4, <1>6, <2>2
<1> HIDE DEF s2
<1>8. /\ s3 \in Seq(Bytes) /\ Len(s3) = 8 + h /\ s3[1] = p.Version /\ s3[2] = p.Flags
      /\ Slice(s3, 2, 4) = ttl /\ Slice(s3, 4, 8) = seq /\ Slice(s3, 8, 8 + h) = id
  <2>1. s2 \in Seq(Bytes) /\ id \in Seq(Bytes)
    BY <1>5, <1>7
  <2>2. /\ s3 \in Seq(Bytes) /\ Len(s3) = Len(s2) + Len(id)
        /\ \A i \in 1..Len(s2) : s3[i] = s2[i]
        /\ Slice(s3, Len(s2), Len(s2) + Len(id)) = id
        /\ \A from, to \in Nat :
             from <= to /\ to <= Len(s2) => Slice(s3, from, to) = Slice(s2, from, to)
    BY <2>1, Joined
  <2> HIDE DEF s3
  <2> QED BY <1>0, <1>5, <1>7, <2>2
<1> HIDE DEF s3
<1>9. /\ s4 \in Seq(Bytes) /\ Len(s4) = 8 + h + h /\ s4[1] = p.Version /\ s4[2] = p.Flags
      /\ Slice(s4, 2, 4) = ttl /\ Slice(s4, 4, 8) = seq /\ Slice(s4, 8, 8 + h) = id
      /\ Slice(s4, 8 + h, 8 + h + h) = facts
  <2>1. s3 \in Seq(Bytes) /\ facts \in Seq(Bytes)
    BY <1>5, <1>8
  <2>2. /\ s4 \in Seq(Bytes) /\ Len(s4) = Len(s3) + Len(facts)
        /\ \A i \in 1..Len(s3) : s4[i] = s3[i]
        /\ Slice(s4, Len(s3), Len(s3) + Len(facts)) = facts
        /\ \A from, to \in Nat :
             from <= to /\ to <= Len(s3) => Slice(s4, from, to) = Slice(s3, from, to)
    BY <2>1, Joined
  <2> HIDE DEF s4
  <2> QED BY <1>0, <1>5, <1>8, <2>2
<1> HIDE DEF s4
<1>10. /\ s5 \in Seq(Bytes) /\ Len(s5) = 8 + h + h + h /\ s5[1] = p.Version /\ s5[2] = p.Flags
       /\ Slice(s5, 2, 4) = ttl /\ Slice(s5, 4, 8) = seq /\ Slice(s5, 8, 8 + h) = id
       /\ Slice(s5, 8 + h, 8 + h + h) = facts /\ Slice(s5, 8 + h + h, 8 + h + h + h) = set
  <2>1. s4 \in Seq(Bytes) /\ set \in Seq(Bytes)
    BY <1>5, <1>9
  <2>2. /\ s5 \in Seq(Bytes) /\ Len(s5) = Len(s4) + Len(set)
        /\ \A i \in 1..Len(s4) : s5[i] = s4[i]
        /\ Slice(s5, Len(s4), Len(s4) + Len(set)) = set
        /\ \A from, to \in Nat :
             from <= to /\ to <= Len(s4) => Slice(s5, from, to) = Slice(s4, from, to)
    BY <2>1, Joined
  <2> HIDE DEF s5
  <2> QED BY <1>0, <1>5, <1>9, <2>2
<1> HIDE DEF s5
<1> QED BY <1>0, <1>1, <1>10 DEF ttl, seq, id, facts, set, h, flagsOffset, ttlOffset, sequenceOffset,
     agentIDHashOffset, factsPtrHashOffset, credentialSet128Offset, PayloadSize

LEMMA Uint16OfPut ==
  ASSUME NEW n \in 0..(Base * Base - 1)
  PROVE  Uint16(PutUint16(n)) = n
<1>1. n \in Nat
  BY SizesAssumption
<1>2. PutUint16(n)[1] = (n \div Base) % Base /\ PutUint16(n)[2] = n % Base
  BY <1>1, TwoBytes
<1>3. ((n \div Base) % Base) * Base + (n % Base) = n
  BY Uint16Read
<1> QED BY <1>2, <1>3, Zenon DEF Uint16

LEMMA Uint32OfPut ==
  ASSUME NEW n \in 0..(Base * Base * Base * Base - 1)
  PROVE  Uint32(PutUint32(n)) = n
<1>1. n \in Nat
  BY SizesAssumption
<1>2. /\ PutUint32(n)[1] = ((n \div (Base * Base)) \div Base) % Base
      /\ PutUint32(n)[2] = (n \div (Base * Base)) % Base
      /\ PutUint32(n)[3] = (n \div Base) % Base
      /\ PutUint32(n)[4] = n % Base
  BY <1>1, FourBytes
<1>3. ((((((n \div (Base * Base)) \div Base) % Base) * Base + ((n \div (Base * Base)) % Base)) * Base
            + ((n \div Base) % Base)) * Base) + (n % Base) = n
  BY Uint32Read
<1> QED BY <1>2, <1>3, Zenon DEF Uint32, Uint16

\* A payload that was laid out is read back as it was, for any sizes of bytes and
\* hashes (encodePayload, decodePayload).
THEOREM DecodedAsEncoded == \A p \in Payloads : DecodePayload(EncodePayload(p)) = p
<1> SUFFICES ASSUME NEW p \in Payloads
             PROVE  DecodePayload(EncodePayload(p)) = p
  OBVIOUS
<1> DEFINE e == EncodePayload(p)
<1>1. /\ e[1] = p.Version /\ e[flagsOffset + 1] = p.Flags
      /\ Slice(e, ttlOffset, sequenceOffset) = PutUint16(p.TTLSeconds)
      /\ Slice(e, sequenceOffset, agentIDHashOffset) = PutUint32(p.Sequence)
      /\ Slice(e, agentIDHashOffset, factsPtrHashOffset) = p.AgentIDHash
      /\ Slice(e, factsPtrHashOffset, credentialSet128Offset) = p.FactsPtrHash128
      /\ Slice(e, credentialSet128Offset, PayloadSize) = p.CredentialSet128
  BY Layout
<1>2. Uint16(PutUint16(p.TTLSeconds)) = p.TTLSeconds
  <2>1. p.TTLSeconds \in 0..(Base * Base - 1)
    BY DEF Payloads
  <2> QED BY <2>1, Uint16OfPut
<1>3. Uint32(PutUint32(p.Sequence)) = p.Sequence
  <2>1. p.Sequence \in 0..(Base * Base * Base * Base - 1)
    BY DEF Payloads
  <2> QED BY <2>1, Uint32OfPut
<1> HIDE DEF e
<1>4. DecodePayload(e) =
        [Version |-> p.Version, Flags |-> p.Flags, TTLSeconds |-> p.TTLSeconds,
         Sequence |-> p.Sequence, AgentIDHash |-> p.AgentIDHash,
         FactsPtrHash128 |-> p.FactsPtrHash128, CredentialSet128 |-> p.CredentialSet128]
  BY <1>1, <1>2, <1>3, Zenon DEF DecodePayload
<1>5. p = [Version |-> p.Version, Flags |-> p.Flags, TTLSeconds |-> p.TTLSeconds,
           Sequence |-> p.Sequence, AgentIDHash |-> p.AgentIDHash,
           FactsPtrHash128 |-> p.FactsPtrHash128, CredentialSet128 |-> p.CredentialSet128]
  BY DEF Payloads
<1> QED BY <1>4, <1>5, Zenon DEF e

-----------------------------------------------------------------------------
(* The record on its way.                                                     *)

Signed == LET bytes == EncodePayload(payload)
          IN [bytes |-> bytes, signature |-> [key |-> key, of |-> bytes]]

\* A record that was signed is one the reader accepts, or no longer the one signed.
IInv ==
  /\ payload \in Payloads
  /\ key \in Keys /\ reader \in Keys
  /\ stored \in {"none", "kept", "altered"}
  /\ stored # "none" => signing = "ok"
  /\ reading # "none" => stored # "none"
  /\ signing = "ok" => ValidPayloadBytes(EncodePayload(payload))
  /\ signing = "ok" /\ stored # "altered" => record = Signed
  /\ stored = "altered" =>
       Len(record.bytes) # PayloadSize \/ record.signature # [key |-> reader, of |-> record.bytes]
  /\ RoundTrip

\* A byte changed, a signature replaced, a byte lost: none is what the key signed.
LEMMA AlterStep ==
  ASSUME IInv, Alter
  PROVE  Len(record'.bytes) # PayloadSize
           \/ record'.signature # [key |-> reader, of |-> record'.bytes]
<1> DEFINE bytes == EncodePayload(payload)
<1>1. bytes \in Seq(Bytes) /\ Len(bytes) = PayloadSize
  BY Layout DEF IInv
<1>2. PayloadSize \in Nat \ {0}
  BY SizesAssumption DEF PayloadSize, credentialSet128Offset, factsPtrHashOffset, agentIDHashOffset
<1> HIDE DEF bytes
<1>3. record = [bytes |-> bytes, signature |-> [key |-> key, of |-> bytes]]
  BY DEF IInv, Alter, Signed, bytes
<1>4. ASSUME NEW i \in 1..PayloadSize, NEW b \in Bytes \ {record.bytes[i]},
             record' = [record EXCEPT !.bytes[i] = b]
      PROVE  record'.signature # [key |-> reader, of |-> record'.bytes]
  <2>1. record'.bytes = [bytes EXCEPT ![i] = b] /\ record'.signature = [key |-> key, of |-> bytes]
    BY <1>3, <1>4
  <2>2. i \in DOMAIN bytes /\ b # bytes[i]
    BY <1>1, <1>3, <1>4
  <2>3. record'.bytes # bytes
    BY <2>1, <2>2
  <2> QED BY <2>1, <2>3
<1>5. ASSUME record' = [record EXCEPT !.signature = Forged]
      PROVE  Len(record'.bytes) # PayloadSize
               \/ record'.signature # [key |-> reader, of |-> record'.bytes]
  <2>1. record'.bytes = bytes /\ record'.signature = Forged
    BY <1>3, <1>5
  <2>2. [key |-> reader, of |-> bytes] \in [key : Keys, of : Seq(Bytes)]
    BY <1>1 DEF IInv
  <2> QED BY <2>1, <2>2, ForgedAssumption
<1>6. ASSUME record' = [record EXCEPT !.bytes = SubSeq(@, 1, PayloadSize - 1)]
      PROVE  Len(record'.bytes) # PayloadSize
  <2>1. record'.bytes = SubSeq(bytes, 1, PayloadSize - 1)
    BY <1>3, <1>6
  <2>2. Len(SubSeq(bytes, 1, PayloadSize - 1)) = PayloadSize - 1
    BY <1>1, <1>2
  <2> QED BY <1>2, <2>1, <2>2
<1> QED BY <1>4, <1>5, <1>6 DEF Alter

\* What the reader makes of the record.
LEMMA ReadStep ==
  ASSUME IInv, Read
  PROVE  RoundTrip'
<1>1. CASE stored = "altered"
  <2>1. ~ (reading' = "ok")
    BY <1>1 DEF IInv, Read, Refuse, Verify
  <2> QED BY <1>1, <2>1 DEF RoundTrip, Read
<1>2. CASE stored = "kept"
  <2> DEFINE bytes == EncodePayload(payload)
  <2>1. /\ record.bytes = bytes /\ record.signature = [key |-> key, of |-> bytes]
        /\ ValidPayloadBytes(record.bytes)
    BY <1>2 DEF IInv, Signed
  <2>2. Len(record.bytes) = PayloadSize
    BY <2>1, Layout DEF IInv
  <2>3. DecodePayload(record.bytes) = payload
    BY <2>1, DecodedAsEncoded DEF IInv
  <2>4. Verify(record, reader) <=> reader = key
    BY <2>1 DEF Verify
  <2> QED BY <1>2, <2>1, <2>2, <2>3, <2>4 DEF Read, Refuse, RoundTrip
<1> QED BY <1>1, <1>2 DEF IInv, Read

\* Every step preserves the invariant.
LEMMA NextIInv == IInv /\ [Next]_vars => IInv'
<1> SUFFICES ASSUME IInv, [Next]_vars PROVE IInv'
  OBVIOUS
<1>1. CASE Sign
  BY <1>1 DEF Sign, IInv, Signed, RoundTrip
<1>2. CASE Keep
  BY <1>2 DEF Keep, IInv, Signed, RoundTrip
<1>3. CASE Alter
  <2>1. reading = "none"
    BY <1>3 DEF Alter, IInv
  <2> QED BY <1>3, <2>1, AlterStep DEF Alter, IInv, RoundTrip
<1>4. CASE Read
  BY <1>4, ReadStep DEF Read, IInv, Signed
<1>5. CASE UNCHANGED vars
  BY <1>5 DEF vars, IInv, Signed, RoundTrip
<1> QED BY <1>1, <1>2, <1>3, <1>4, <1>5 DEF Next

\* A kept record comes back to the last bit under its key and under no other; one
\* that was altered anywhere is refused (Sign, Decode, Verify).
THEOREM RoundTripAlways == Spec => []RoundTrip
<1>1. Init => IInv
  BY DEF Init, IInv, RoundTrip
<1>2. IInv => RoundTrip
  BY DEF IInv
<1> QED BY <1>1, <1>2, NextIInv, PTL DEF Spec

-----------------------------------------------------------------------------
(* Rearrangements.                                                            *)

\* What a bijection is.
LEMMA BijectionFacts ==
  ASSUME NEW S, NEW T, NEW p \in Bijection(S, T)
  PROVE /\ p \in [S -> T]
        /\ \A a, b \in S : p[a] = p[b] => a = b
        /\ \A b \in T : \E a \in S : p[a] = b
  BY DEF Bijection, Injection, Surjection, IsInjective

\* Being a rearrangement is an equivalence.
LEMMA RearrangedRefl ==
  ASSUME NEW s
  PROVE Rearranged(s, s)
<1> DEFINE p == [i \in DOMAIN s |-> i]
<1>1. p \in Bijection(DOMAIN s, DOMAIN s)
  BY Fun_IsBij
<1> QED BY <1>1 DEF Rearranged

LEMMA RearrangedSym ==
  ASSUME NEW s, NEW t, Rearranged(s, t)
  PROVE Rearranged(t, s)
<1>1. PICK p \in Bijection(DOMAIN s, DOMAIN t) : \A i \in DOMAIN s : s[i] = t[p[i]]
  BY DEF Rearranged
<1> DEFINE q == Inverse(p, DOMAIN s, DOMAIN t)
<1>2. q \in Bijection(DOMAIN t, DOMAIN s)
  BY Fun_BijInverse
<1>3. \A i \in DOMAIN s : q[p[i]] = i
  BY Fun_BijInverse
<1>4. \A j \in DOMAIN t : \E i \in DOMAIN s : p[i] = j
  BY Fun_BijectionProperties
<1> HIDE DEF q
<1>5. \A j \in DOMAIN t : t[j] = s[q[j]]
  BY <1>1, <1>3, <1>4
<1> QED BY <1>2, <1>5 DEF Rearranged

LEMMA RearrangedTrans ==
  ASSUME NEW s, NEW t, NEW u, Rearranged(s, t), Rearranged(t, u)
  PROVE Rearranged(s, u)
<1>1. PICK p \in Bijection(DOMAIN s, DOMAIN t) : \A i \in DOMAIN s : s[i] = t[p[i]]
  BY DEF Rearranged
<1>2. PICK q \in Bijection(DOMAIN t, DOMAIN u) : \A i \in DOMAIN t : t[i] = u[q[i]]
  BY DEF Rearranged
<1> DEFINE r == [i \in DOMAIN s |-> q[p[i]]]
<1>3. r \in Bijection(DOMAIN s, DOMAIN u)
  BY Fun_BijTransitive
<1>4. p \in [DOMAIN s -> DOMAIN t]
  BY Fun_BijectionProperties
<1>5. \A i \in DOMAIN s : s[i] = u[r[i]]
  BY <1>1, <1>2, <1>4
<1> HIDE DEF r
<1> QED BY <1>3, <1>5 DEF Rearranged

-----------------------------------------------------------------------------
(* Sorting.                                                                   *)

\* A strict order of all elements of a set.
Total(order, S) ==
  /\ \A x \in S : <<x, x>> \notin order
  /\ \A x, y, z \in S : <<x, y>> \in order /\ <<y, z>> \in order => <<x, z>> \in order
  /\ \A x, y \in S : x = y \/ <<x, y>> \in order \/ <<y, x>> \in order

\* The places of s that the place i comes after.
Ahead(s, order, i) ==
  {j \in DOMAIN s : <<s[j], s[i]>> \in order \/ (s[j] = s[i] /\ j < i)}

Rank(s, order) == [i \in DOMAIN s |-> Cardinality(Ahead(s, order, i)) + 1]

\* Every place has a rank of its own.
LEMMA RankIsPlace ==
  ASSUME NEW S, NEW order, Total(order, S), NEW n \in Nat, NEW s \in [1..n -> S]
  PROVE /\ Rank(s, order) \in Bijection(1..n, 1..n)
        /\ \A i, j \in 1..n : Rank(s, order)[i] < Rank(s, order)[j]
                                => j \notin Ahead(s, order, i)
<1> DEFINE A(i) == Ahead(s, order, i)
           r == Rank(s, order)
<1>0. DOMAIN s = 1..n /\ IsFiniteSet(1..n) /\ Cardinality(1..n) = n
  BY FS_Interval
<1>1. ASSUME NEW i \in 1..n
      PROVE IsFiniteSet(A(i)) /\ A(i) \in SUBSET (1..n) /\ Cardinality(A(i)) \in Nat
  <2>1. A(i) \in SUBSET (1..n)
    BY <1>0 DEF Ahead
  <2> HIDE DEF A
  <2> QED BY <2>1, <1>0, FS_Subset, FS_CardinalityType
<1>2. ASSUME NEW i \in 1..n, NEW j \in 1..n, i \in A(j)
      PROVE Cardinality(A(i)) < Cardinality(A(j))
  <2>1. A(i) \cup {i} \subseteq A(j) /\ i \notin A(i)
    <3>1. s[i] \in S /\ s[j] \in S /\ \A m \in 1..n : s[m] \in S
      OBVIOUS
    <3>2. <<s[i], s[j]>> \in order \/ (s[i] = s[j] /\ i < j)
      BY <1>2 DEF Ahead
    <3>3. ASSUME NEW m \in A(i) PROVE m \in A(j)
      <4>1. m \in 1..n /\ (<<s[m], s[i]>> \in order \/ (s[m] = s[i] /\ m < i))
        BY <1>0, <3>3 DEF Ahead
      <4>2. <<s[m], s[j]>> \in order \/ (s[m] = s[j] /\ m < j)
        <5>1. s[m] \in S
          BY <3>1, <4>1
        <5>2. CASE <<s[m], s[i]>> \in order /\ <<s[i], s[j]>> \in order
          BY <3>1, <5>1, <5>2 DEF Total
        <5>3. CASE s[m] = s[i] /\ m < i /\ s[i] = s[j] /\ i < j
          BY <4>1, <5>3
        <5> QED BY <3>2, <4>1, <5>2, <5>3
      <4> QED BY <1>0, <4>1, <4>2 DEF Ahead
    <3>4. i \notin A(i)
      BY <3>1 DEF Ahead, Total
    <3> QED BY <1>2, <3>3, <3>4
  <2> HIDE DEF A
  <2>2. Cardinality(A(i) \cup {i}) = Cardinality(A(i)) + 1
    BY <1>1, <2>1, FS_AddElement
  <2>3. Cardinality(A(i) \cup {i}) <= Cardinality(A(j))
    BY <1>1, <2>1, FS_Subset
  <2> QED BY <1>1, <2>2, <2>3
<1>3. ASSUME NEW i \in 1..n, NEW j \in 1..n, i # j PROVE i \in A(j) \/ j \in A(i)
  BY <1>0, <1>3 DEF Ahead, Total
<1>4. ASSUME NEW i \in 1..n PROVE r[i] = Cardinality(A(i)) + 1 /\ r[i] \in 1..n
  <2>1. r[i] = Cardinality(A(i)) + 1
    BY <1>0 DEF Rank
  <2>2. i \notin A(i)
    BY <1>0 DEF Ahead, Total
  <2> HIDE DEF A, r
  <2>3. Cardinality(A(i) \cup {i}) = Cardinality(A(i)) + 1
    BY <1>1, <2>2, FS_AddElement
  <2>4. Cardinality(A(i) \cup {i}) <= n
    BY <1>0, <1>1, FS_Subset
  <2> QED BY <1>1, <2>1, <2>3, <2>4
<1>5. r \in [1..n -> 1..n]
  <2>1. r = [i \in 1..n |-> r[i]]
    BY <1>0 DEF Rank
  <2> HIDE DEF r
  <2> QED BY <1>4, <2>1
<1>6. \A i, j \in 1..n : i \in A(j) => r[i] < r[j]
  <2> HIDE DEF A, r
  <2> QED BY <1>1, <1>2, <1>4
<1>7. \A i, j \in 1..n : r[i] = r[j] => i = j
  <2> HIDE DEF A, r
  <2> SUFFICES ASSUME NEW i \in 1..n, NEW j \in 1..n, i # j PROVE r[i] # r[j]
    OBVIOUS
  <2>1. r[i] < r[j] \/ r[j] < r[i]
    BY <1>3, <1>6
  <2>2. r[i] \in Int /\ r[j] \in Int
    BY <1>4
  <2> QED BY <2>1, <2>2
<1>8. r \in Injection(1..n, 1..n)
  <2> HIDE DEF r
  <2> QED BY <1>5, <1>7, Fun_IsInj
<1>9. r \in Surjection(1..n, 1..n)
  <2> HIDE DEF r
  <2> QED BY <1>0, <1>8, FS_Injection
<1>10. r \in Bijection(1..n, 1..n)
  <2> HIDE DEF r
  <2> QED BY <1>8, <1>9, Fun_IsBij
<1>11. \A i, j \in 1..n : r[i] < r[j] => j \notin A(i)
  <2> HIDE DEF A, r
  <2> QED BY <1>5, <1>6
<1> QED BY <1>10, <1>11

\* Hence a list can be sorted.
LEMMA SortExists ==
  ASSUME NEW S, NEW order, Total(order, S), NEW n \in Nat, NEW s \in [1..n -> S]
  PROVE \E t \in [DOMAIN s -> Range(s)] : Rearranged(s, t) /\ InOrder(t, order)
<1> DEFINE r == Rank(s, order)
           q == Inverse(r, 1..n, 1..n)
           t == [k \in 1..n |-> s[q[k]]]
<1>0. DOMAIN s = 1..n
  OBVIOUS
<1>1. r \in Bijection(1..n, 1..n)
  BY RankIsPlace
<1>2. \A i, j \in 1..n : r[i] < r[j] => j \notin Ahead(s, order, i)
  BY RankIsPlace
<1> HIDE DEF r
<1>3. q \in Bijection(1..n, 1..n) /\ \A i \in 1..n : q[r[i]] = i
  BY <1>1, Fun_BijInverse
<1>4. q \in [1..n -> 1..n] /\ r \in [1..n -> 1..n] /\ \A k \in 1..n : \E i \in 1..n : r[i] = k
  <2> DEFINE D == 1..n
  <2>1. q \in Bijection(D, D) /\ r \in Bijection(D, D)
    BY <1>1, <1>3
  <2> HIDE DEF D, q
  <2>2. q \in [D -> D] /\ r \in [D -> D] /\ \A k \in D : \E i \in D : r[i] = k
    BY <2>1, BijectionFacts
  <2> QED BY <2>2 DEF D
<1> HIDE DEF q
<1>5. \A k \in 1..n : r[q[k]] = k
  BY <1>3, <1>4
<1>6. t \in [DOMAIN s -> Range(s)]
  BY <1>0, <1>4 DEF Range
<1>7. Rearranged(s, t)
  <2>1. \A i \in 1..n : s[i] = t[r[i]]
    BY <1>3, <1>4
  <2>2. DOMAIN t = 1..n
    OBVIOUS
  <2> HIDE DEF t
  <2> QED BY <1>0, <1>1, <2>1, <2>2 DEF Rearranged
<1>8. InOrder(t, order)
  <2> SUFFICES ASSUME NEW k \in 1..n, NEW l \in 1..n, k < l
               PROVE <<t[l], t[k]>> \notin order
    BY DEF InOrder
  <2>1. q[k] \in 1..n /\ q[l] \in 1..n /\ r[q[k]] < r[q[l]]
    BY <1>4, <1>5
  <2>2. q[l] \notin Ahead(s, order, q[k])
    BY <1>2, <2>1
  <2> QED BY <1>0, <2>1, <2>2 DEF Ahead
<1> QED BY <1>6, <1>7, <1>8

\* And in one way only.
LEMMA NotLess ==
  ASSUME NEW S, NEW order, Total(order, S), NEW n \in Nat,
         NEW t \in [1..n -> S], NEW u \in [1..n -> S],
         Rearranged(t, u), InOrder(t, order), InOrder(u, order),
         NEW k \in 1..n
  PROVE <<t[k], u[k]>> \notin order
<1> SUFFICES ASSUME <<t[k], u[k]>> \in order PROVE FALSE
  OBVIOUS
<1> DEFINE T == {m \in 1..n : <<t[m], u[k]>> \in order}
           U == {m \in 1..n : <<u[m], u[k]>> \in order}
<1>1. PICK p \in Bijection(1..n, 1..n) : \A i \in 1..n : t[i] = u[p[i]]
  BY DEF Rearranged
<1>2. /\ p \in [1..n -> 1..n]
      /\ \A a, b \in 1..n : p[a] = p[b] => a = b
  <2> DEFINE D == 1..n
  <2>1. p \in Bijection(D, D)
    BY <1>1
  <2> HIDE DEF D
  <2>2. p \in [D -> D] /\ \A a, b \in D : p[a] = p[b] => a = b
    BY <2>1, BijectionFacts
  <2> QED BY <2>2 DEF D
<1> DEFINE f == [m \in T |-> p[m]]
<1>3. f \in Injection(T, U)
  <2>1. f \in [T -> U] /\ \A a, b \in T : f[a] = f[b] => a = b
    BY <1>1, <1>2
  <2> HIDE DEF f, T, U
  <2> QED BY <2>1, Fun_IsInj
<1>4. 1..k \subseteq T
  <2> SUFFICES ASSUME NEW m \in 1..k PROVE m \in T
    OBVIOUS
  <2>1. m \in 1..n
    OBVIOUS
  <2>2. m = k \/ <<t[k], t[m]>> \notin order
    BY <2>1 DEF InOrder
  <2> QED BY <2>1, <2>2 DEF Total
<1>5. U \subseteq 1..(k - 1)
  <2> SUFFICES ASSUME NEW m \in 1..n, m \notin 1..(k - 1) PROVE <<u[m], u[k]>> \notin order
    OBVIOUS
  <2>1. m = k \/ k < m
    OBVIOUS
  <2> QED BY <2>1 DEF InOrder, Total
<1>6. \A m \in Nat : IsFiniteSet(1..m) /\ Cardinality(1..m) = m
  <2> SUFFICES ASSUME NEW m \in Nat PROVE IsFiniteSet(1..m) /\ Cardinality(1..m) = m
    OBVIOUS
  <2>1. IsFiniteSet(1..m) /\ Cardinality(1..m) = IF 1 > m THEN 0 ELSE m - 1 + 1
    BY FS_Interval, 1 \in Int, m \in Int
  <2> QED BY <2>1
<1>7. T \subseteq 1..n
  OBVIOUS
<1> HIDE DEF T, U, f
<1>8. IsFiniteSet(T) /\ k <= Cardinality(T) /\ Cardinality(T) \in Nat
  <2>1. IsFiniteSet(1..n) /\ Cardinality(1..k) = k
    BY <1>6
  <2>2. IsFiniteSet(T)
    BY <1>7, <2>1, FS_Subset
  <2>3. Cardinality(1..k) <= Cardinality(T)
    BY <1>4, <2>2, FS_Subset
  <2> QED BY <2>1, <2>2, <2>3, FS_CardinalityType
<1>9. IsFiniteSet(U) /\ Cardinality(U) <= k - 1 /\ Cardinality(U) \in Nat
  <2>1. IsFiniteSet(1..(k - 1)) /\ Cardinality(1..(k - 1)) = k - 1
    BY <1>6
  <2>2. IsFiniteSet(U) /\ Cardinality(U) <= Cardinality(1..(k - 1))
    BY <1>5, <2>1, FS_Subset
  <2> QED BY <2>1, <2>2, FS_CardinalityType
<1>10. Cardinality(T) <= Cardinality(U)
  BY <1>3, <1>9, FS_Injection
<1> QED BY <1>8, <1>9, <1>10

\* What a sort promises, it keeps.
LEMMA SortedIs ==
  ASSUME NEW S, NEW order, Total(order, S), NEW n \in Nat, NEW s \in [1..n -> S]
  PROVE /\ Sorted(s, order) \in [1..n -> S]
        /\ Rearranged(s, Sorted(s, order))
        /\ InOrder(Sorted(s, order), order)
<1>1. /\ Sorted(s, order) \in [DOMAIN s -> Range(s)]
      /\ Rearranged(s, Sorted(s, order)) /\ InOrder(Sorted(s, order), order)
  BY SortExists, Zenon DEF Sorted
<1>2. DOMAIN s = 1..n /\ Range(s) \subseteq S
  BY DEF Range
<1> QED BY <1>1, <1>2

\* A rearrangement is as long.
LEMMA RearrangedLength ==
  ASSUME NEW n \in Nat, NEW m \in Nat, NEW s, NEW t, DOMAIN s = 1..n, DOMAIN t = 1..m,
         Rearranged(s, t)
  PROVE n = m
<1>1. ExistsBijection(1..n, 1..m)
  BY DEF Rearranged, ExistsBijection
<1>2. ExistsBijection(1..m, 1..m)
  <2>1. Rearranged(t, t)
    BY RearrangedRefl
  <2> QED BY <2>1 DEF Rearranged, ExistsBijection
<1> QED BY <1>1, <1>2, Fun_NatBijSame

\* Hence sorting two lists gives the same list if, and only if, they have the same
\* elements, each as often.
LEMMA SortedIff ==
  ASSUME NEW S, NEW order, Total(order, S), NEW n \in Nat, NEW m \in Nat,
         NEW s \in [1..n -> S], NEW t \in [1..m -> S]
  PROVE Rearranged(s, t) <=> Sorted(s, order) = Sorted(t, order)
<1> DEFINE u == Sorted(s, order)
           v == Sorted(t, order)
<1>1. u \in [1..n -> S] /\ Rearranged(s, u) /\ InOrder(u, order)
  BY SortedIs
<1>2. v \in [1..m -> S] /\ Rearranged(t, v) /\ InOrder(v, order)
  BY SortedIs
<1> HIDE DEF u, v
<1>3. ASSUME u = v PROVE Rearranged(s, t)
  <2>1. Rearranged(v, t)
    BY <1>2, RearrangedSym
  <2> QED BY <1>1, <1>3, <2>1, RearrangedTrans
<1>4. ASSUME Rearranged(s, t) PROVE u = v
  <2>1. Rearranged(u, s)
    BY <1>1, RearrangedSym
  <2>2. Rearranged(u, t)
    BY <1>4, <2>1, RearrangedTrans
  <2>3. Rearranged(u, v)
    BY <1>2, <2>2, RearrangedTrans
  <2>4. Rearranged(v, u)
    BY <2>3, RearrangedSym
  <2>5. n = m
    BY <1>1, <1>2, <2>3, RearrangedLength
  <2>6. \A k \in 1..n : <<u[k], v[k]>> \notin order /\ <<v[k], u[k]>> \notin order
    BY <1>1, <1>2, <2>3, <2>4, <2>5, NotLess
  <2>7. \A k \in 1..n : u[k] = v[k]
    BY <1>1, <1>2, <2>5, <2>6 DEF Total
  <2> QED BY <1>1, <1>2, <2>5, <2>7
<1> QED BY <1>3, <1>4 DEF u, v

-----------------------------------------------------------------------------
(* The orders of the code are total.                                          *)

\* sort.Strings
LEMMA CapabilityOrderIsTotal == Total(CapabilityOrder, Capabilities)
  BY NumbersAssumption DEF Total, CapabilityOrder

LEMMA ListIsSequence ==
  ASSUME NEW S, NEW n \in Nat, NEW s \in [1..n -> S]
  PROVE s \in Seq(S) /\ Len(s) = n
  OBVIOUS

\* Two sequences of numbers agree up to a first difference.
LEMMA FirstDifference ==
  ASSUME NEW e \in Seq(Nat), NEW f \in Seq(Nat)
  PROVE \E n \in Nat :
          /\ n <= Len(e) /\ n <= Len(f) /\ \A i \in 1..n : e[i] = f[i]
          /\ n = Len(e) \/ n = Len(f) \/ e[n + 1] # f[n + 1]
<1> DEFINE D == {n \in Nat : n = Len(e) \/ n = Len(f) \/ e[n + 1] # f[n + 1]}
<1>1. PICK R : R = OpToRel(<, Nat)
  OBVIOUS
<1>2. IsWellFoundedOn(R, Nat)
  BY <1>1, NatLessThanWellFounded
<1>3. D \subseteq Nat /\ D # {} /\ Len(e) \in D /\ Len(f) \in D
  OBVIOUS
<1>4. PICK n \in D : \A m \in D : <<m, n>> \notin R
  <2> HIDE DEF D
  <2> QED BY <1>2, <1>3, WFMin
<1>5. n \in Nat /\ \A m \in D : ~ (m < n)
  <2> HIDE DEF D
  <2>1. \A m, k \in Nat : m < k => <<m, k>> \in R
    BY <1>1 DEF OpToRel
  <2> QED BY <1>3, <1>4, <2>1
<1>6. n <= Len(e) /\ n <= Len(f)
  <2> HIDE DEF D
  <2>1. Len(e) \in Nat /\ Len(f) \in Nat
    OBVIOUS
  <2> QED BY <1>3, <1>5, <2>1
<1>7. \A i \in 1..n : e[i] = f[i]
  <2> SUFFICES ASSUME NEW i \in 1..n PROVE e[i] = f[i]
    OBVIOUS
  <2>1. i - 1 \in Nat /\ i - 1 < n /\ (i - 1) + 1 = i
    BY <1>5
  <2>2. i - 1 \notin D
    BY <1>5, <2>1
  <2> QED BY <2>1, <2>2
<1> QED BY <1>4, <1>5, <1>6, <1>7

\* bytes.Compare orders any two sequences
LEMMA BeforeIsTotal ==
  ASSUME NEW e \in Seq(Nat), NEW f \in Seq(Nat)
  PROVE e = f \/ Before(e, f) \/ Before(f, e)
<1>1. PICK n \in Nat : /\ n <= Len(e) /\ n <= Len(f) /\ \A i \in 1..n : e[i] = f[i]
                       /\ n = Len(e) \/ n = Len(f) \/ e[n + 1] # f[n + 1]
  BY FirstDifference
<1>2. Len(e) \in Nat /\ Len(f) \in Nat
  OBVIOUS
<1>3. CASE n = Len(e) /\ n = Len(f)
  <2>1. e \in [1..Len(e) -> Nat] /\ f \in [1..Len(f) -> Nat]
    OBVIOUS
  <2>2. Len(e) = Len(f) /\ \A i \in 1..Len(e) : e[i] = f[i]
    BY <1>1, <1>3
  <2>3. e = f
    BY <2>1, <2>2
  <2> QED BY <2>3
<1>4. CASE n = Len(e) /\ n < Len(f)
  BY <1>1, <1>4 DEF Before
<1>5. CASE n = Len(f) /\ n < Len(e)
  BY <1>1, <1>5 DEF Before
<1>6. CASE n < Len(e) /\ n < Len(f)
  <2>1. e[n + 1] \in Nat /\ f[n + 1] \in Nat /\ e[n + 1] # f[n + 1]
    BY <1>1, <1>6
  <2>2. e[n + 1] < f[n + 1] \/ f[n + 1] < e[n + 1]
    BY <2>1
  <2> QED BY <1>1, <1>6, <2>2 DEF Before
<1> QED BY <1>1, <1>2, <1>3, <1>4, <1>5, <1>6

\* none before itself
LEMMA BeforeIsIrreflexive ==
  ASSUME NEW e \in Seq(Nat)
  PROVE ~Before(e, e)
<1> SUFFICES ASSUME NEW n \in 0..Len(e), n < Len(e), e[n + 1] < e[n + 1] PROVE FALSE
  BY DEF Before
<1>1. e[n + 1] \in Nat
  OBVIOUS
<1> QED BY <1>1

\* and without a circle.
LEMMA BeforeIsTransitive ==
  ASSUME NEW e \in Seq(Nat), NEW f \in Seq(Nat), NEW g \in Seq(Nat),
         Before(e, f), Before(f, g)
  PROVE Before(e, g)
<1>1. PICK n \in 0..Len(e) : n < Len(f) /\ (\A i \in 1..n : e[i] = f[i])
                             /\ (n = Len(e) \/ e[n + 1] < f[n + 1])
  BY DEF Before
<1>2. PICK m \in 0..Len(f) : m < Len(g) /\ (\A i \in 1..m : f[i] = g[i])
                             /\ (m = Len(f) \/ f[m + 1] < g[m + 1])
  BY DEF Before
<1>3. /\ n \in Nat /\ m \in Nat /\ Len(e) \in Nat /\ Len(f) \in Nat /\ Len(g) \in Nat
      /\ n <= Len(e) /\ m <= Len(f) /\ n < Len(f) /\ m < Len(g)
  BY <1>1, <1>2
<1>4. CASE n < m
  <2>1. n \in 0..Len(e) /\ n < Len(g) /\ n + 1 \in 1..m
    BY <1>3, <1>4
  <2>2. \A i \in 1..n : i \in 1..m
    BY <1>3, <1>4
  <2>3. f[n + 1] = g[n + 1] /\ \A i \in 1..n : e[i] = g[i]
    BY <1>1, <1>2, <2>1, <2>2
  <2>4. n = Len(e) \/ e[n + 1] < g[n + 1]
    BY <1>1, <2>3
  <2> QED BY <2>1, <2>3, <2>4 DEF Before
<1>5. CASE m < n
  <2>1. m \in 0..Len(e) /\ m < Len(f) /\ m # Len(f) /\ m + 1 \in 1..n
    BY <1>3, <1>5
  <2>2. \A i \in 1..m : i \in 1..n
    BY <1>3, <1>5
  <2>3. e[m + 1] = f[m + 1] /\ \A i \in 1..m : e[i] = g[i]
    BY <1>1, <1>2, <2>1, <2>2
  <2>4. e[m + 1] < g[m + 1]
    BY <1>2, <2>1, <2>3
  <2> QED BY <1>3, <2>1, <2>3, <2>4 DEF Before
<1>6. CASE m = n
  <2>1. \A i \in 1..n : e[i] = g[i]
    BY <1>1, <1>2, <1>6
  <2>2. f[n + 1] < g[n + 1]
    <3>1. m # Len(f)
      BY <1>3, <1>6
    <3> QED BY <1>2, <1>6, <3>1
  <2>3. ASSUME n # Len(e) PROVE e[n + 1] < g[n + 1]
    <3>1. n + 1 \in 1..Len(e) /\ n + 1 \in 1..Len(f) /\ n + 1 \in 1..Len(g)
      BY <1>3, <1>6, <2>3
    <3>2. e[n + 1] \in Nat /\ f[n + 1] \in Nat /\ g[n + 1] \in Nat
      BY <3>1
    <3>3. e[n + 1] < f[n + 1]
      BY <1>1, <2>3
    <3>4. \A x, y, z \in Nat : x < y /\ y < z => x < z
      OBVIOUS
    <3> QED BY <2>2, <3>2, <3>3, <3>4
  <2>4. n < Len(g)
    BY <1>3, <1>6
  <2> QED BY <2>1, <2>3, <2>4 DEF Before
<1> QED BY <1>3, <1>4, <1>5, <1>6

-----------------------------------------------------------------------------
(* What is hashed.                                                            *)

\* A credential in numbers.
LEMMA CredentialParts ==
  ASSUME NEW c \in Credentials
  PROVE /\ c.fields \in Nat
        /\ \E n \in Nat : /\ c.capabilities \in [1..n -> Capabilities]
                          /\ SortedCapabilities(c) \in [1..n -> Capabilities]
<1>1. c.fields \in Fields /\ c.capabilities \in Lists(Capabilities)
  BY DEF Credentials
<1>2. PICK n \in Nat : c.capabilities \in [1..n -> Capabilities]
  BY <1>1, NumbersAssumption DEF Lists
<1>3. Sorted(c.capabilities, CapabilityOrder) \in [1..n -> Capabilities]
  BY <1>2, CapabilityOrderIsTotal, SortedIs
<1> QED BY <1>1, <1>2, <1>3, NumbersAssumption DEF SortedCapabilities

\* Where an encoding has its parts.
LEMMA EncodeIs ==
  ASSUME NEW c \in Credentials
  PROVE /\ SortedCapabilities(c) \in Seq(Nat)
        /\ Encode(c) \in Seq(Nat)
        /\ Len(Encode(c)) = Len(SortedCapabilities(c)) + 1
        /\ Encode(c)[1] = c.fields
        /\ \A i \in 1..Len(SortedCapabilities(c)) : Encode(c)[i + 1] = SortedCapabilities(c)[i]
<1>1. PICK n \in Nat : SortedCapabilities(c) \in [1..n -> Nat]
  BY CredentialParts, NumbersAssumption
<1>2. SortedCapabilities(c) \in Seq(Nat)
  BY <1>1, ListIsSequence
<1>3. c.fields \in Nat
  BY CredentialParts
<1> DEFINE t == SortedCapabilities(c)
<1>4. Encode(c) = <<c.fields>> \o t /\ t \in Seq(Nat)
  BY <1>2 DEF Encode
<1> HIDE DEF t
<1>5. /\ Encode(c) \in Seq(Nat) /\ Len(Encode(c)) = Len(t) + 1 /\ Encode(c)[1] = c.fields
      /\ \A i \in 1..Len(t) : Encode(c)[i + 1] = t[i]
  BY <1>3, <1>4
<1> QED BY <1>2, <1>5 DEF t

\* Hence encodings can be sorted, and in one way only.
LEMMA EncodingOrderIsTotal == Total(EncodingOrder, Encodings)
<1>1. Encodings \subseteq Seq(Nat)
  BY EncodeIs DEF Encodings
<1>2. \A e, f \in Encodings : <<e, f>> \in EncodingOrder <=> Before(e, f)
  BY DEF EncodingOrder
<1> QED BY <1>1, <1>2, BeforeIsTotal, BeforeIsIrreflexive, BeforeIsTransitive DEF Total

\* An encoding tells what a credential says, and forgets the order of its capabilities.
LEMMA EncodeIff ==
  ASSUME NEW c \in Credentials, NEW d \in Credentials
  PROVE Encode(c) = Encode(d) <=> Alike(c, d)
<1>1. PICK n \in Nat : c.capabilities \in [1..n -> Capabilities]
  BY CredentialParts
<1>2. PICK m \in Nat : d.capabilities \in [1..m -> Capabilities]
  BY CredentialParts
<1>3. Rearranged(c.capabilities, d.capabilities)
        <=> SortedCapabilities(c) = SortedCapabilities(d)
  BY <1>1, <1>2, CapabilityOrderIsTotal, SortedIff DEF SortedCapabilities
<1>4. ASSUME Encode(c) = Encode(d)
      PROVE c.fields = d.fields /\ SortedCapabilities(c) = SortedCapabilities(d)
  <2> DEFINE s == SortedCapabilities(c)
             t == SortedCapabilities(d)
  <2>1. s \in Seq(Nat) /\ t \in Seq(Nat)
    BY EncodeIs
  <2>2. Len(Encode(c)) = Len(s) + 1 /\ Len(Encode(d)) = Len(t) + 1
    BY EncodeIs
  <2>3. /\ \A i \in 1..Len(s) : Encode(c)[i + 1] = s[i]
        /\ \A i \in 1..Len(t) : Encode(d)[i + 1] = t[i]
    BY EncodeIs
  <2>4. c.fields = d.fields
    BY <1>4, EncodeIs
  <2> HIDE DEF s, t
  <2>5. Len(s) = Len(t) /\ s \in [1..Len(s) -> Nat] /\ t \in [1..Len(t) -> Nat]
    BY <1>4, <2>1, <2>2
  <2>6. \A i \in 1..Len(s) : s[i] = t[i]
    BY <1>4, <2>3, <2>5
  <2>7. s = t
    BY <2>5, <2>6
  <2> QED BY <2>4, <2>7 DEF s, t
<1>5. ASSUME c.fields = d.fields, SortedCapabilities(c) = SortedCapabilities(d)
      PROVE Encode(c) = Encode(d)
  BY <1>5 DEF Encode
<1> QED BY <1>3, <1>4, <1>5 DEF Alike

\* The hash of two lists of credentials is the same if, and only if, they are the same
\* credentials, each as often, in any order (CredentialSetHash128).
THEOREM HashIsOfTheSet ==
  ASSUME NEW s \in Lists(Credentials), NEW t \in Lists(Credentials)
  PROVE CredentialSetHash128(s) = CredentialSetHash128(t) <=> SameSet(s, t)
<1>1. PICK n \in Nat : s \in [1..n -> Credentials]
  BY NumbersAssumption DEF Lists
<1>2. PICK m \in Nat : t \in [1..m -> Credentials]
  BY NumbersAssumption DEF Lists
<1> DEFINE e == [i \in DOMAIN s |-> Encode(s[i])]
           f == [i \in DOMAIN t |-> Encode(t[i])]
<1>3. e \in [1..n -> Encodings] /\ f \in [1..m -> Encodings]
  BY <1>1, <1>2 DEF Encodings
<1>4. \A i \in DOMAIN s, j \in DOMAIN t : e[i] = f[j] <=> Alike(s[i], t[j])
  BY <1>1, <1>2, EncodeIff
<1>5. DOMAIN e = DOMAIN s /\ DOMAIN f = DOMAIN t
  OBVIOUS
<1>6. CredentialSetHash128(s) = Sorted(e, EncodingOrder)
      /\ CredentialSetHash128(t) = Sorted(f, EncodingOrder)
  BY DEF CredentialSetHash128
<1> HIDE DEF e, f
<1>7. Rearranged(e, f) <=> CredentialSetHash128(s) = CredentialSetHash128(t)
  BY <1>3, <1>6, EncodingOrderIsTotal, SortedIff
<1>8. \A p \in Bijection(DOMAIN s, DOMAIN t), i \in DOMAIN s : p[i] \in DOMAIN t
  BY BijectionFacts
<1>9. Rearranged(e, f) <=> SameSet(s, t)
  BY <1>4, <1>5, <1>8 DEF Rearranged, SameSet
<1> QED BY <1>7, <1>9

-----------------------------------------------------------------------------
(* Registration and resolution.                                               *)

\* The commitment is the hash of what was registered, the verdict its comparison.
CommitmentInv ==
  /\ registered \in Lists(Credentials) /\ resolved \in Lists(Credentials)
  /\ stage \in {"start", "registered", "accepted", "refused"}
  /\ stage # "start" => commitment = CredentialSetHash128(registered)
  /\ stage = "accepted" => CredentialSetHash128(resolved) = CredentialSetHash128(registered)
  /\ stage = "refused" => CredentialSetHash128(resolved) # CredentialSetHash128(registered)

\* Every step preserves the invariant.
LEMMA CommitmentInvInductive == CommitmentSpec => []CommitmentInv
<1>1. CommitmentInit => CommitmentInv
  BY DEF CommitmentInit, CommitmentInv
<1>2. CommitmentInv /\ [CommitmentNext]_commitmentVars => CommitmentInv'
  <2> SUFFICES ASSUME CommitmentInv, [CommitmentNext]_commitmentVars PROVE CommitmentInv'
    OBVIOUS
  <2>1. CASE Register
    BY <2>1 DEF Register, CommitmentInv
  <2>2. CASE Resolve
    BY <2>2 DEF Resolve, CommitmentInv
  <2>3. CASE UNCHANGED commitmentVars
    BY <2>3 DEF commitmentVars, CommitmentInv
  <2> QED BY <2>1, <2>2, <2>3 DEF CommitmentNext
<1> QED BY <1>1, <1>2, PTL DEF CommitmentSpec

\* CommitsToTheSet: the comparison of the commitment in a record (Service.Resolve) with the
\* hash of the document read succeeds for the credentials registered, and for no others.
THEOREM CommitsToTheSetAlways == CommitmentSpec => []CommitsToTheSet
<1>1. CommitmentInv => CommitsToTheSet
  BY HashIsOfTheSet DEF CommitmentInv, CommitsToTheSet
<1> QED BY <1>1, CommitmentInvInductive, PTL
==============================================================================
