---- MODULE RetryTokenProofs ----
(*****************************************************************************)
(* Proofs about what Endpoint writes and reads.  For every address,          *)
(* connection ID, clock and list of versions, a Retry token is accepted in   *)
(* its context and lifetime alone, and only whole, and a Version Negotiation *)
(* packet is read as it was written: both rest on what the codecs write and  *)
(* read, byte for byte.                                                      *)
(*****************************************************************************)
EXTENDS Endpoint, WellFoundedInduction, TLAPS

-----------------------------------------------------------------------------
(* Bytes and sequences *)

\* A byte is a number below 256.
LEMMA Bytes == Byte \subseteq Nat /\ \A x \in Nat : x \in Byte <=> x < 256
BY DEF Byte

\* An element of a sequence is one of the set the sequence is over.
LEMMA ElementOfSeq ==
    ASSUME NEW S, NEW s \in Seq(S), NEW n \in 1..Len(s)
    PROVE  s[n] \in S
OBVIOUS

\* A sequence over a set is one over every larger set.
LEMMA SeqMonotonic ==
    ASSUME NEW S, NEW T, S \subseteq T
    PROVE  Seq(S) \subseteq Seq(T)
OBVIOUS

\* Two sequences of one length with the same elements are the same.
LEMMA SeqEqual ==
    ASSUME NEW S, NEW s \in Seq(S), NEW t \in Seq(S), Len(s) = Len(t), \A i \in 1..Len(s) : s[i] = t[i]
    PROVE  s = t
OBVIOUS

-----------------------------------------------------------------------------
(* Recursion over the naturals *)

\* A set of natural numbers that is not empty has a least element.
LEMMA LeastNatural ==
  ASSUME NEW S \in SUBSET Nat, S # {}
  PROVE  \E m \in S : \A r \in S : m <= r
<1> DEFINE R == OpToRel(<, Nat)
<1>1. IsWellFoundedOn(R, Nat)
  BY NatLessThanWellFounded, Zenon
<1>2. R = {p \in Nat \X Nat : p[1] < p[2]}
  BY Zenon DEF OpToRel
<1> HIDE DEF R
<1>3. PICK m \in S : \A r \in S : <<r, m>> \notin R
  BY <1>1, WFMin, Zenon
<1>4. ASSUME NEW r \in S PROVE m <= r
  <2>1. r < m => <<r, m>> \in R
    BY <1>2
  <2> QED
    BY <2>1, <1>3
<1> QED
  BY <1>4

\* What holds at first and is kept by every step of a run holds throughout it.
LEMMA Induction ==
  ASSUME NEW N \in Nat, NEW S, NEW run, run[0] \in S,
         \A n \in 1..N : run[n - 1] \in S => run[n] \in S
  PROVE  \A n \in 0..N : run[n] \in S
<1> DEFINE Bad == {n \in 0..N : run[n] \notin S}
<1> SUFFICES ASSUME Bad # {} PROVE FALSE
  OBVIOUS
<1>0. Bad \in SUBSET Nat
  OBVIOUS
<1>1. PICK m \in Bad : \A n \in Bad : m <= n
  <2> HIDE DEF Bad
  <2> QED BY <1>0, LeastNatural
<1>2. CASE m = 0
  BY <1>1, <1>2
<1>3. CASE m # 0
  <2>1. m \in 1..N /\ m - 1 \in 0..N
    BY <1>1, <1>3
  <2>2. m - 1 \notin Bad
    BY <1>1, <2>1
  <2> QED
    BY <1>1, <2>1, <2>2
<1> QED
  BY <1>2, <1>3

\* The run r takes N steps from x, the n-th of them being f[n].
RunFrom(r, N, f, x) == r = [n \in 0..N |-> IF n = 0 THEN x ELSE f[n][r[n - 1]]]

\* There is a run of any length from any state, for any steps.
LEMMA RunExists ==
  ASSUME NEW N \in Nat, NEW f, NEW x
  PROVE  \E r : RunFrom(r, N, f, x)
<1> DEFINE P(m, r) == r = [n \in 0..m |-> IF n = 0 THEN x ELSE f[n][r[n - 1]]]
           Good == {m \in 0..N : \E r : P(m, r)}
           id == [n \in 0..N |-> n]
<1>1. 0 \in Good
  <2> DEFINE r == [n \in 0..0 |-> x]
  <2>1. P(0, r)
    OBVIOUS
  <2>2. \E s : P(0, s)
    BY <2>1, Zenon
  <2>3. 0 \in 0..N
    OBVIOUS
  <2> QED BY <2>2, <2>3
<1>2. ASSUME NEW m \in 1..N, m - 1 \in Good PROVE m \in Good
  <2>1. PICK r : P(m - 1, r)
    BY <1>2, SMTT(30)
  <2> DEFINE q == [n \in 0..m |-> IF n = m THEN f[m][r[m - 1]] ELSE r[n]]
  <2>2. ASSUME NEW n \in 0..m PROVE q[n] = IF n = 0 THEN x ELSE f[n][q[n - 1]]
    <3>1. CASE n = m
      <4>1. m - 1 \in 0..m /\ m - 1 # m /\ m # 0
        OBVIOUS
      <4>2. q[m - 1] = r[m - 1] /\ q[m] = f[m][r[m - 1]]
        BY <4>1
      <4> QED BY <3>1, <4>1, <4>2
    <3>2. CASE n # m
      <4>1. n \in 0..m - 1 /\ q[n] = r[n]
        BY <3>2, SMTT(30)
      <4>2. r[n] = IF n = 0 THEN x ELSE f[n][r[n - 1]]
        BY <2>1, <4>1, SMTT(30)
      <4>3. n # 0 => n - 1 \in 0..m /\ n - 1 # m
        BY <4>1
      <4>4. n # 0 => q[n - 1] = r[n - 1]
        BY <4>3
      <4> QED BY <4>1, <4>2, <4>4
    <3> QED BY <3>1, <3>2
  <2>3. P(m, q)
    BY <2>2
  <2>4. \E s : P(m, s)
    BY <2>3, Zenon
  <2>5. m \in 0..N
    OBVIOUS
  <2> QED BY <2>4, <2>5
<1>3. ASSUME NEW n \in 1..N PROVE id[n - 1] \in Good => id[n] \in Good
  <2>1. id[n - 1] = n - 1 /\ id[n] = n
    OBVIOUS
  <2> QED BY <2>1, <1>2, Zenon
<1>4. id[0] \in Good /\ id[N] = N /\ N \in 0..N
  BY <1>1
<1> HIDE DEF Good, id
<1>5. \A n \in 0..N : id[n] \in Good
  BY <1>3, <1>4, Induction
<1>6. N \in Good
  BY <1>4, <1>5
<1> QED BY <1>6, Zenon DEF Good, RunFrom

-----------------------------------------------------------------------------
(* Numbers in bytes *)

\* A number is its low byte and the rest.
LEMMA LowByte ==
  ASSUME NEW x \in Nat
  PROVE  x % 256 \in Byte /\ x \div 256 \in Nat /\ (x \div 256) * 256 + (x % 256) = x /\ (x < 256 => x % 256 = x)
<1>1. x % 256 \in Nat /\ x % 256 < 256 /\ x \div 256 \in Nat /\ (x \div 256) * 256 + (x % 256) = x /\ (x < 256 => x % 256 = x)
  OBVIOUS
<1> QED BY <1>1, Bytes

\* One byte more.
LEMMA ByteMore == ASSUME NEW x \in Nat, NEW y \in Nat PROVE x * 256 + y \in Nat /\ (x = 0 => x * 256 + y = y)
OBVIOUS

\* The numbers big_endian() takes its bytes from.
Shifts(sh, v) ==
  sh[0] = v /\ (\A k \in 0..7 : sh[k] \in Nat) /\ \A k \in 1..7 : sh[k] = sh[k - 1] \div 256

\* The numbers from_big_endian() goes through.
Values(val, first, rest) ==
  /\ val[0] = first /\ \A i \in 0..Len(rest) : val[i] \in Nat
  /\ \A i \in 1..Len(rest) : val[i] = val[i - 1] * 256 + rest[i]

\* big_endian() writes the low bytes of a number.
LEMMA BytesOf ==
  ASSUME NEW v \in Nat, NEW n \in 1..8
  PROVE  \E sh : Shifts(sh, v) /\ big_endian(v, n) = [i \in 1..n |-> sh[n - i] % 256]
<1> DEFINE step == [x \in Nat |-> x \div 256]
           f == [k \in 0..7 |-> step]
           R == CHOOSE sh : sh = [k \in 0..7 |-> IF k = 0 THEN v ELSE sh[k - 1] \div 256]
           S == Nat
<1>1. big_endian(v, n) = [i \in 1..n |-> R[n - i] % 256]
  BY Zenon DEF big_endian
<1>2. ASSUME NEW x \in Nat PROVE step[x] = x \div 256 /\ x \div 256 \in Nat
  BY LowByte
<1> HIDE DEF step, f
<1>3. PICK r : RunFrom(r, 7, f, v)
  BY RunExists
<1>4. r = [k \in 0..7 |-> IF k = 0 THEN v ELSE step[r[k - 1]]]
  BY <1>3 DEF RunFrom, f
<1>5. ASSUME NEW k \in 0..7 PROVE r[k] = IF k = 0 THEN v ELSE step[r[k - 1]]
  BY <1>4, Zenon
<1>6. r[0] \in S /\ \A k \in 1..7 : r[k - 1] \in S => r[k] \in S
  BY <1>2, <1>5
<1>7. \A k \in 0..7 : r[k] \in S
  <2> HIDE DEF S
  <2> QED BY <1>6, Induction
<1>8. r = [k \in 0..7 |-> IF k = 0 THEN v ELSE r[k - 1] \div 256]
  <2>1. \A k \in 0..7 : k # 0 => step[r[k - 1]] = r[k - 1] \div 256
    BY <1>2, <1>7
  <2> QED BY <1>4, <2>1
<1>9. R = [k \in 0..7 |-> IF k = 0 THEN v ELSE R[k - 1] \div 256]
  BY <1>8, ZenonT(30)
<1> HIDE DEF R
<1>10. ASSUME NEW k \in 0..7 PROVE R[k] = IF k = 0 THEN v ELSE R[k - 1] \div 256
  BY <1>9, ZenonT(30)
<1>11. R[0] \in S /\ \A k \in 1..7 : R[k - 1] \in S => R[k] \in S
  BY <1>10
<1>12. \A k \in 0..7 : R[k] \in S
  <2> HIDE DEF S
  <2> QED BY <1>11, Induction
<1>13. Shifts(R, v)
  BY <1>10, <1>12 DEF Shifts
<1> QED BY <1>1, <1>13

\* from_big_endian() puts bytes together.
LEMMA ValueOf ==
  ASSUME NEW first \in Nat, NEW rest \in Seq(Nat)
  PROVE  \E val : Values(val, first, rest) /\ from_big_endian(first, rest) = val[Len(rest)]
<1> DEFINE N == Len(rest)
           f == [i \in 0..N |-> [x \in Nat |-> x * 256 + rest[i]]]
           R == CHOOSE val : val = [i \in 0..N |-> IF i = 0 THEN first ELSE val[i - 1] * 256 + rest[i]]
           S == Nat
<1>1. from_big_endian(first, rest) = R[N]
  BY Zenon DEF from_big_endian
<1>2. N \in Nat /\ \A i \in 1..N : rest[i] \in Nat
  BY ElementOfSeq
<1> HIDE DEF N
<1>3. ASSUME NEW i \in 1..N, NEW x \in Nat PROVE f[i][x] = x * 256 + rest[i] /\ x * 256 + rest[i] \in Nat
  <2>1. i \in 0..N /\ rest[i] \in Nat
    BY <1>2
  <2>2. f[i] = [y \in Nat |-> y * 256 + rest[i]]
    BY <2>1
  <2> QED BY <2>1, <2>2, ByteMore
<1> HIDE DEF f
<1>4. PICK r : RunFrom(r, N, f, first)
  BY <1>2, RunExists, Zenon
<1>5. r = [i \in 0..N |-> IF i = 0 THEN first ELSE f[i][r[i - 1]]]
  BY <1>4, Zenon DEF RunFrom
<1>6. ASSUME NEW i \in 0..N PROVE r[i] = IF i = 0 THEN first ELSE f[i][r[i - 1]]
  BY <1>5, Zenon
<1>7. r[0] \in S /\ \A i \in 1..N : r[i - 1] \in S => r[i] \in S
  <2>1. r[0] = first
    BY <1>2, <1>6
  <2>2. ASSUME NEW i \in 1..N, r[i - 1] \in Nat PROVE r[i] \in Nat
    <3>1. i \in 0..N /\ i # 0
      BY <1>2
    <3> DEFINE x == r[i - 1]
    <3>2. r[i] = f[i][x] /\ x \in Nat
      BY <1>6, <2>2, <3>1
    <3> HIDE DEF x
    <3>3. f[i][x] = x * 256 + rest[i] /\ x * 256 + rest[i] \in Nat
      <4> HIDE DEF f
      <4> QED BY <1>3, <3>2, ZenonT(30)
    <3> QED BY <3>2, <3>3
  <2> QED BY <2>1, <2>2
<1>8. \A i \in 0..N : r[i] \in S
  <2> HIDE DEF S
  <2> QED BY <1>2, <1>7, Induction, Zenon
<1>9. r = [i \in 0..N |-> IF i = 0 THEN first ELSE r[i - 1] * 256 + rest[i]]
  <2>1. ASSUME NEW i \in 0..N, i # 0 PROVE f[i][r[i - 1]] = r[i - 1] * 256 + rest[i]
    <3>1. i \in 1..N /\ i - 1 \in 0..N
      BY <1>2, <2>1
    <3> DEFINE x == r[i - 1]
    <3>2. x \in Nat
      BY <1>8, <3>1
    <3> HIDE DEF x, f
    <3>3. f[i][x] = x * 256 + rest[i]
      BY <1>3, <3>1, <3>2, ZenonT(30)
    <3> QED BY <3>3 DEF x
  <2> QED BY <1>5, <2>1, ZenonT(30)
<1>10. R = [i \in 0..N |-> IF i = 0 THEN first ELSE R[i - 1] * 256 + rest[i]]
  BY <1>9, ZenonT(30)
<1> HIDE DEF R
<1>11. ASSUME NEW i \in 0..N PROVE R[i] = IF i = 0 THEN first ELSE R[i - 1] * 256 + rest[i]
  BY <1>10, Zenon
<1>12. R[0] \in S /\ \A i \in 1..N : R[i - 1] \in S => R[i] \in S
  <2>1. R[0] = first
    BY <1>2, <1>11
  <2>2. ASSUME NEW i \in 1..N, R[i - 1] \in Nat PROVE R[i] \in Nat
    <3>1. i \in 0..N /\ i # 0 /\ rest[i] \in Nat
      BY <1>2
    <3>2. R[i] = R[i - 1] * 256 + rest[i]
      BY <1>11, <3>1
    <3> QED BY <2>2, <3>1, <3>2, ByteMore
  <2> QED BY <2>1, <2>2
<1>13. \A i \in 0..N : R[i] \in S
  <2> HIDE DEF S
  <2> QED BY <1>2, <1>12, Induction, Zenon
<1>14. Values(R, first, rest)
  BY <1>2, <1>11, <1>13 DEF Values, N
<1> QED BY <1>1, <1>14 DEF N

\* What a number fits in.
Fit(v, n) == \A sh : Shifts(sh, v) => sh[n - 1] < 256

\* A number that fits is read as it was written.
LEMMA NumberRead ==
  ASSUME NEW v \in Nat, NEW n \in 1..8, Fit(v, n)
  PROVE  /\ big_endian(v, n) \in Seq(Byte) /\ Len(big_endian(v, n)) = n
         /\ from_big_endian(0, big_endian(v, n)) = v
<1>1. PICK sh : Shifts(sh, v) /\ big_endian(v, n) = [i \in 1..n |-> sh[n - i] % 256]
  BY BytesOf, Zenon
<1> DEFINE b == big_endian(v, n)
<1>2. \A i \in 1..n : n - i \in 0..7 /\ sh[n - i] \in Nat /\ sh[n - i] % 256 \in Byte
  <2> SUFFICES ASSUME NEW i \in 1..n PROVE n - i \in 0..7 /\ sh[n - i] \in Nat /\ sh[n - i] % 256 \in Byte
    OBVIOUS
  <2>1. n - i \in 0..7
    OBVIOUS
  <2>2. sh[n - i] \in Nat
    BY <1>1, <2>1, ZenonT(30) DEF Shifts
  <2> QED BY <2>1, <2>2, LowByte
<1>3. b \in Seq(Byte) /\ Len(b) = n /\ \A i \in 1..n : b[i] = sh[n - i] % 256
  BY <1>1, <1>2
<1> HIDE DEF b
<1>4. b \in Seq(Nat)
  <2>1. Byte \subseteq Nat
    BY Bytes
  <2> QED BY <1>3, <2>1, SeqMonotonic, Zenon
<1>5. PICK val : Values(val, 0, b) /\ from_big_endian(0, b) = val[Len(b)]
  BY <1>4, ValueOf
<1>6. sh[n - 1] < 256
  BY <1>1 DEF Fit
<1> DEFINE S == {i \in 0..n : i = 0 \/ val[i] = sh[n - i]}
           id == [i \in 0..n |-> i]
<1>7. id[0] \in S
  OBVIOUS
<1>8. ASSUME NEW i \in 1..n, id[i - 1] \in S PROVE id[i] \in S
  <2>0. id[i] = i /\ id[i - 1] = i - 1 /\ i \in 0..n
    OBVIOUS
  <2>1. val[i] = val[i - 1] * 256 + b[i] /\ b[i] = sh[n - i] % 256
    BY <1>3, <1>5 DEF Values
  <2>2. CASE i = 1
    <3> DEFINE x == sh[n - 1]
    <3>1. x \in Nat /\ x < 256 /\ b[1] = x % 256
      BY <1>2, <1>6, <2>1, <2>2
    <3>2. val[0] = 0 /\ val[1] = val[0] * 256 + b[1]
      BY <1>5, <2>1, <2>2 DEF Values
    <3> HIDE DEF x
    <3>3. b[1] = x
      BY <3>1, LowByte
    <3>4. val[1] = x
      BY <3>1, <3>2, <3>3
    <3> QED BY <2>0, <2>2, <3>4 DEF x
  <2>3. CASE i # 1
    <3> DEFINE k == n - i
               x == sh[k]
    <3>1. k + 1 \in 1..7 /\ n - (i - 1) = k + 1 /\ (k + 1) - 1 = k
      BY <2>3
    <3>2. val[i - 1] = sh[k + 1]
      BY <1>8, <2>0, <2>3, <3>1
    <3>3. sh[k + 1] = sh[(k + 1) - 1] \div 256
      BY <1>1, <3>1, ZenonT(30) DEF Shifts
    <3>4. sh[k + 1] = x \div 256 /\ x \in Nat
      BY <1>2, <3>1, <3>3
    <3>5. val[i] = (x \div 256) * 256 + (x % 256)
      BY <2>1, <3>2, <3>4
    <3> HIDE DEF x
    <3>6. val[i] = x
      BY <3>4, <3>5, LowByte
    <3> QED BY <2>0, <3>6 DEF x
  <2> QED BY <2>2, <2>3
<1> HIDE DEF S
<1>9. n \in Nat /\ n \in 0..n /\ id[n] = n /\ n # 0
  OBVIOUS
<1> HIDE DEF id
<1>10. n \in S /\ n # 0
  <2>1. \A i \in 0..n : id[i] \in S
    BY <1>7, <1>8, <1>9, Induction
  <2> QED BY <1>9, <2>1
<1>11. val[n] = sh[0] /\ sh[0] = v
  BY <1>1, <1>10 DEF S, Shifts
<1> QED BY <1>3, <1>5, <1>11 DEF b

\* Ports, lengths, versions and clock readings fit in the fields the code has for them.
LEMMA Fields ==
  ASSUME NEW v \in Nat
  PROVE  /\ v <= U16Max => Fit(v, 2)
         /\ Above24(v) < 256 => Fit(v, 4)
         /\ Above24(Above24(v) \div 256) < 256 => Fit(v, 8)
<1> SUFFICES ASSUME NEW sh, Shifts(sh, v)
             PROVE  /\ v <= U16Max => sh[1] < 256
                    /\ Above24(v) < 256 => sh[3] < 256
                    /\ Above24(Above24(v) \div 256) < 256 => sh[7] < 256
  BY DEF Fit
<1> DEFINE a == sh[1]
           b == sh[2]
           d == sh[3]
           e == sh[4]
           f == sh[5]
           g == sh[6]
           h == sh[7]
<1>1. a = v \div 256 /\ a \in Nat
  BY DEF Shifts
<1>2. b = a \div 256 /\ d = b \div 256 /\ e = d \div 256
  BY DEF Shifts
<1>3. f = e \div 256 /\ g = f \div 256 /\ h = g \div 256
  BY DEF Shifts
<1> HIDE DEF a, b, d, e, f, g, h
<1>4. v <= U16Max => a < 256
  BY <1>1, SMT DEF U16Max
<1>5. Above24(v) = d
  BY <1>1, <1>2, Zenon DEF Above24
<1>6. Above24(e) = h
  BY <1>3, ZenonT(30) DEF Above24
<1>7. Above24(v) \div 256 = e
  BY <1>2, <1>5, Zenon
<1>8. Above24(Above24(v) \div 256) = h
  BY <1>6, <1>7, Zenon
<1> QED BY <1>4, <1>5, <1>8 DEF a, d, h

\* The bytes s stand in b behind its first k.
At(b, k, s) ==
    /\ b \in Seq(Nat) /\ s \in Seq(Nat) /\ k \in Nat
    /\ k + Len(s) <= Len(b)
    /\ \A i \in 1..Len(s) : b[k + i] = s[i]

\* The first of two byte strings stands at the beginning of both.
LEMMA AtHead ==
  ASSUME NEW s \in Seq(Nat), NEW t \in Seq(Nat)
  PROVE  s \o t \in Seq(Nat) /\ Len(s \o t) = Len(s) + Len(t) /\ At(s \o t, 0, s)
<1>1. s \o t \in Seq(Nat) /\ Len(s \o t) = Len(s) + Len(t) /\ Len(s) \in Nat /\ Len(t) \in Nat
  OBVIOUS
<1>2. \A i \in 1..Len(s) : (s \o t)[0 + i] = s[i]
  OBVIOUS
<1> QED BY <1>1, <1>2 DEF At

\* The second of two byte strings stands behind the first.
LEMMA AtTail ==
  ASSUME NEW s \in Seq(Nat), NEW t \in Seq(Nat)
  PROVE  At(s \o t, Len(s), t)
<1>1. s \o t \in Seq(Nat) /\ Len(s \o t) = Len(s) + Len(t) /\ Len(s) \in Nat /\ Len(t) \in Nat
  OBVIOUS
<1>2. \A i \in 1..Len(t) : (s \o t)[Len(s) + i] = t[i]
  OBVIOUS
<1> QED BY <1>1, <1>2 DEF At

\* What stands within a part stands within the whole.
LEMMA AtWithin ==
  ASSUME NEW b, NEW k, NEW s, NEW j, NEW r, At(b, k, s), At(s, j, r)
  PROVE  At(b, k + j, r)
<1>1. Len(r) \in Nat /\ Len(s) \in Nat /\ Len(b) \in Nat /\ k \in Nat /\ j \in Nat
  BY DEF At
<1>2. k + j \in Nat /\ (k + j) + Len(r) <= Len(b)
  BY <1>1 DEF At
<1>3. ASSUME NEW i \in 1..Len(r) PROVE b[(k + j) + i] = r[i]
  <2>1. j + i \in 1..Len(s) /\ k + (j + i) = (k + j) + i
    BY <1>1 DEF At
  <2>2. b[k + (j + i)] = s[j + i] /\ s[j + i] = r[i]
    BY <2>1, Zenon DEF At
  <2> QED BY <2>1, <2>2
<1> QED BY <1>2, <1>3, Zenon DEF At

\* What stands behind a position is what Sub() takes out there.
LEMMA AtSub ==
  ASSUME NEW b, NEW k, NEW s, At(b, k, s)
  PROVE  Sub(b, k, Len(s)) = s
<1>1. b \in Seq(Nat) /\ s \in Seq(Nat) /\ Len(s) \in Nat /\ Len(b) \in Nat /\ k \in Nat /\ k + Len(s) <= Len(b)
  BY DEF At
<1> DEFINE x == Sub(b, k, Len(s))
<1>2. x \in Seq(Nat) /\ Len(x) = Len(s) /\ \A i \in 1..Len(s) : x[i] = b[k + i]
  <2>1. SubSeq(b, k + 1, k + Len(s)) \in Seq(Nat) /\ Len(SubSeq(b, k + 1, k + Len(s))) = Len(s)
    BY <1>1, SMTT(30)
  <2>2. ASSUME NEW i \in 1..Len(s) PROVE SubSeq(b, k + 1, k + Len(s))[i] = b[k + i]
    BY <1>1
  <2> QED BY <2>1, <2>2 DEF Sub
<1>3. \A i \in 1..Len(s) : x[i] = s[i]
  BY <1>2 DEF At
<1> HIDE DEF x
<1>4. x = s
  BY <1>1, <1>2, <1>3, SeqEqual, Zenon
<1> QED BY <1>4 DEF x

\* from_big_endian() reads the number that big_endian() wrote.
LEMMA AtNumber ==
  ASSUME NEW v \in Nat, NEW n \in 1..8, Fit(v, n), NEW b, NEW k, At(b, k, big_endian(v, n))
  PROVE  from_big_endian(0, Sub(b, k, n)) = v
<1>1. Len(big_endian(v, n)) = n /\ from_big_endian(0, big_endian(v, n)) = v
  BY NumberRead, Zenon
<1>2. Sub(b, k, Len(big_endian(v, n))) = big_endian(v, n)
  BY AtSub
<1> QED BY <1>1, <1>2

\* A length of 16 bits and the bytes it announces are as many bytes as it says and two more, and
\* both stand in their places.
LEMMA Prefixed ==
  ASSUME NEW s \in Seq(Nat), Len(s) <= U16Max
  PROVE  /\ length_prefixed(s) \in Seq(Nat)
         /\ Len(length_prefixed(s)) = 2 + Len(s)
         /\ Fit(Len(s), 2)
         /\ At(length_prefixed(s), 0, big_endian(Len(s), 2))
         /\ At(length_prefixed(s), 2, s)
<1> DEFINE n == Len(s)
           p == big_endian(n, 2)
<1>1. n \in Nat /\ n <= U16Max /\ 2 \in 1..8
  OBVIOUS
<1> HIDE DEF n
<1>2. Fit(n, 2)
  BY <1>1, Fields
<1>3. p \in Seq(Byte) /\ Len(p) = 2
  BY <1>1, <1>2, NumberRead
<1> HIDE DEF p
<1>4. p \in Seq(Nat)
  <2>1. Byte \subseteq Nat
    BY Bytes
  <2> QED BY <1>3, <2>1, SeqMonotonic, Zenon
<1>5. length_prefixed(s) = p \o s
  BY DEF length_prefixed, n, p
<1>6. p \o s \in Seq(Nat) /\ Len(p \o s) = Len(p) + Len(s) /\ At(p \o s, 0, p)
  BY <1>4, AtHead
<1>7. At(p \o s, Len(p), s)
  BY <1>4, AtTail
<1>8. At(length_prefixed(s), 0, p) /\ At(length_prefixed(s), 2, s)
  BY <1>3, <1>5, <1>6, <1>7
<1>9. length_prefixed(s) \in Seq(Nat) /\ Len(length_prefixed(s)) = 2 + Len(s)
  BY <1>3, <1>5, <1>6
<1> QED BY <1>2, <1>8, <1>9 DEF p, n

\* read_length_prefixed() reads the bytes that length_prefixed() wrote, and goes behind them.
LEMMA ReadPrefixed ==
  ASSUME NEW s \in Seq(Nat), Len(s) <= U16Max, NEW b, NEW k, At(b, k, length_prefixed(s))
  PROVE  read_length_prefixed(b, k) = [ok |-> TRUE, bytes |-> s, at |-> k + 2 + Len(s)]
<1>1. At(b, k + 0, big_endian(Len(s), 2)) /\ At(b, k + 2, s)
  BY Prefixed, AtWithin
<1>2. k \in Nat /\ Len(s) \in Nat /\ k + 0 = k /\ 2 \in 1..8 /\ Len(b) \in Nat
  BY DEF At
<1>3. from_big_endian(0, Sub(b, k, 2)) = Len(s)
  BY <1>1, <1>2, Prefixed, AtNumber
<1>4. (k + 2) + Len(s) <= Len(b)
  BY <1>1 DEF At
<1>5. Sub(b, k + 2, Len(s)) = s
  BY <1>1, AtSub
<1>6. ~(k + 2 > Len(b)) /\ ~(k + 2 + Len(s) > Len(b))
  BY <1>2, <1>4
<1> QED BY <1>3, <1>5, <1>6, Zenon DEF read_length_prefixed

\* A token that encode_retry_token() makes is read back as the payload and the tag it was made
\* of.
Token(payload, tag) == Magic \o length_prefixed(payload) \o length_prefixed(tag)

\* The parts of a token stand behind one another.
LEMMA TokenParts ==
  ASSUME NEW payload \in Seq(Nat), NEW tag \in Seq(Nat), Len(payload) <= U16Max, Len(tag) <= U16Max
  PROVE  /\ Token(payload, tag) \in Seq(Nat)
         /\ Len(Token(payload, tag)) = 9 + Len(payload) + Len(tag)
         /\ At(Token(payload, tag), 0, Magic)
         /\ At(Token(payload, tag), 5, length_prefixed(payload))
         /\ At(Token(payload, tag), 7 + Len(payload), length_prefixed(tag))
<1> DEFINE p == length_prefixed(payload)
           g == length_prefixed(tag)
<1>1. p \in Seq(Nat) /\ Len(p) = 2 + Len(payload) /\ g \in Seq(Nat) /\ Len(g) = 2 + Len(tag)
  BY Prefixed
<1>2. Magic \in Seq(Nat) /\ Len(Magic) = 5
  BY DEF Magic
<1> HIDE DEF p, g
<1> DEFINE h == Magic \o p
<1>3. h \in Seq(Nat) /\ Len(h) = Len(Magic) + Len(p) /\ At(h, 0, Magic)
  BY <1>1, <1>2, AtHead, Zenon
<1>4. At(h, Len(Magic), p)
  BY <1>1, <1>2, AtTail, Zenon
<1>5. Token(payload, tag) = h \o g
  BY DEF Token, p, g
<1> HIDE DEF h
<1>6. h \o g \in Seq(Nat) /\ Len(h \o g) = Len(h) + Len(g) /\ At(h \o g, 0, h)
  BY <1>1, <1>3, AtHead, Zenon
<1>7. At(h \o g, Len(h), g)
  BY <1>1, <1>3, AtTail, Zenon
<1>8. At(h \o g, 0 + 0, Magic) /\ At(h \o g, 0 + Len(Magic), p)
  BY <1>3, <1>4, <1>6, AtWithin, Zenon
<1>9. Len(h) = 7 + Len(payload) /\ 0 + 0 = 0 /\ 0 + Len(Magic) = 5 /\ Len(h) + Len(g) = 9 + Len(payload) + Len(tag)
  BY <1>1, <1>2, <1>3
<1>10. /\ h \o g \in Seq(Nat) /\ Len(h \o g) = 9 + Len(payload) + Len(tag)
       /\ At(h \o g, 0, Magic) /\ At(h \o g, 5, p) /\ At(h \o g, 7 + Len(payload), g)
  BY <1>6, <1>7, <1>8, <1>9, Zenon
<1> QED BY <1>5, <1>10 DEF p, g

\* parse_retry_token() reads from a token the payload and the tag it was made of.
LEMMA TokenRead ==
  ASSUME NEW payload \in Seq(Nat), NEW tag \in Seq(Nat), Len(payload) <= U16Max, Len(tag) <= U16Max, tag # <<>>
  PROVE  parse_retry_token(Token(payload, tag)) = [ok |-> TRUE, payload |-> payload, tag |-> tag]
<1> DEFINE t == Token(payload, tag)
           n == Len(payload)
           m == Len(tag)
<1>1. /\ t \in Seq(Nat) /\ Len(t) = 9 + n + m /\ At(t, 0, Magic)
      /\ At(t, 5, length_prefixed(payload)) /\ At(t, 7 + n, length_prefixed(tag))
  BY TokenParts
<1>2. n \in Nat /\ m \in Nat /\ Len(Magic) = 5
  BY DEF Magic
<1> HIDE DEF t
<1>3. read_length_prefixed(t, 5) = [ok |-> TRUE, bytes |-> payload, at |-> 5 + 2 + n]
  BY <1>1, ReadPrefixed
<1>4. read_length_prefixed(t, 7 + n) = [ok |-> TRUE, bytes |-> tag, at |-> 7 + n + 2 + m]
  BY <1>1, ReadPrefixed, Zenon
<1>5. Sub(t, 0, 5) = Magic
  BY <1>1, <1>2, AtSub, Zenon
<1>6. 5 + 2 + n = 7 + n /\ 7 + n + 2 + m = Len(t) /\ ~(Len(t) < 9)
  BY <1>1, <1>2
<1> HIDE DEF n, m
<1> DEFINE P == [ok |-> TRUE, bytes |-> payload, at |-> 7 + n]
           G == [ok |-> TRUE, bytes |-> tag, at |-> Len(t)]
<1>7. parts_of(P, G, Len(t)) = [ok |-> TRUE, payload |-> payload, tag |-> tag]
  BY DEF parts_of
<1>8. read_length_prefixed(t, 5) = P /\ read_length_prefixed(t, P.at) = G /\ P.ok = TRUE
  BY <1>3, <1>4, <1>6, Zenon
<1> HIDE DEF P, G
<1>9. payload_then_tag(t, P) = parts_of(P, G, Len(t))
  BY <1>8 DEF payload_then_tag
<1>10. parse_retry_token(t) = payload_then_tag(t, P)
  BY <1>5, <1>6, <1>8 DEF parse_retry_token
<1> QED BY <1>7, <1>9, <1>10 DEF t

\* What a Retry token says of its context.
Stamped(second, host, port, cid) ==
    big_endian(second, 8) \o length_prefixed(host) \o big_endian(port, 2) \o length_prefixed(cid)

\* A number's bytes are bytes.
LEMMA NumberBytes ==
  ASSUME NEW v \in Nat, NEW n \in 1..8, Fit(v, n)
  PROVE  big_endian(v, n) \in Seq(Nat) /\ Len(big_endian(v, n)) = n
<1>1. big_endian(v, n) \in Seq(Byte) /\ Len(big_endian(v, n)) = n
  BY NumberRead, Zenon
<1>2. Byte \subseteq Nat
  BY Bytes
<1> QED BY <1>1, <1>2, SeqMonotonic, Zenon

\* Four byte strings behind one another stand each behind those before it.
LEMMA FourParts ==
  ASSUME NEW a \in Seq(Nat), NEW b \in Seq(Nat), NEW c \in Seq(Nat), NEW d \in Seq(Nat)
  PROVE  /\ a \o b \o c \o d \in Seq(Nat)
         /\ Len(a \o b \o c \o d) = Len(a) + Len(b) + Len(c) + Len(d)
         /\ At(a \o b \o c \o d, 0, a)
         /\ At(a \o b \o c \o d, Len(a), b)
         /\ At(a \o b \o c \o d, Len(a) + Len(b), c)
         /\ At(a \o b \o c \o d, Len(a) + Len(b) + Len(c), d)
<1> DEFINE x == a \o b
           y == x \o c
           z == y \o d
<1>1. x \in Seq(Nat) /\ Len(x) = Len(a) + Len(b) /\ At(x, 0, a) /\ At(x, Len(a), b)
  BY AtHead, AtTail
<1> HIDE DEF x
<1>2. y \in Seq(Nat) /\ Len(y) = Len(x) + Len(c) /\ At(y, 0, x) /\ At(y, Len(x), c)
  BY <1>1, AtHead, AtTail, Zenon
<1> HIDE DEF y
<1>3. z \in Seq(Nat) /\ Len(z) = Len(y) + Len(d) /\ At(z, 0, y) /\ At(z, Len(y), d)
  BY <1>2, AtHead, AtTail, Zenon
<1> HIDE DEF z
<1>4. At(z, 0 + 0, x) /\ At(z, 0 + Len(x), c)
  BY <1>2, <1>3, AtWithin, Zenon
<1>5. 0 + 0 = 0 /\ Len(a) \in Nat /\ Len(b) \in Nat /\ Len(x) \in Nat /\ 0 + Len(x) = Len(x) /\ 0 + Len(a) = Len(a)
  BY <1>1
<1>6. At(z, 0, x) /\ At(z, Len(x), c)
  BY <1>4, <1>5
<1>7. At(z, 0 + 0, a) /\ At(z, 0 + Len(a), b)
  BY <1>1, <1>6, AtWithin, Zenon
<1>8. Len(x) + Len(c) + Len(d) = Len(a) + Len(b) + Len(c) + Len(d)
  BY <1>1
<1>9. /\ z \in Seq(Nat) /\ Len(z) = Len(a) + Len(b) + Len(c) + Len(d)
      /\ At(z, 0, a) /\ At(z, Len(a), b) /\ At(z, Len(a) + Len(b), c) /\ At(z, Len(a) + Len(b) + Len(c), d)
  BY <1>1, <1>2, <1>3, <1>5, <1>6, <1>7, <1>8
<1> QED BY <1>9 DEF x, y, z

\* decode_retry_token_payload() reads from a payload what encode_retry_token_payload() wrote.
LEMMA PayloadRead ==
  ASSUME NEW second \in Nat, Fit(second, 8), NEW host \in Seq(Nat), Len(host) <= U16Max,
         NEW port \in Nat, Fit(port, 2), NEW cid \in Seq(Nat), Len(cid) <= U16Max
  PROVE  LET p == Stamped(second, host, port, cid)
         IN  /\ p \in Seq(Nat) /\ Len(p) = 14 + Len(host) + Len(cid)
             /\ decode_retry_token_payload(p) =
                    [ok |-> TRUE, issued_at |-> second, cid |-> cid, remote |-> [host |-> host, port |-> port]]
<1> DEFINE p == Stamped(second, host, port, cid)
           a == big_endian(second, 8)
           b == length_prefixed(host)
           c == big_endian(port, 2)
           d == length_prefixed(cid)
           h == Len(host)
           n == Len(cid)
<1>0. 8 \in 1..8 /\ 2 \in 1..8 /\ h \in Nat /\ n \in Nat
  OBVIOUS
<1>1. a \in Seq(Nat) /\ Len(a) = 8 /\ c \in Seq(Nat) /\ Len(c) = 2
  BY <1>0, NumberBytes
<1>2. b \in Seq(Nat) /\ Len(b) = 2 + h /\ d \in Seq(Nat) /\ Len(d) = 2 + n
  BY Prefixed
<1>3. p = a \o b \o c \o d
  BY DEF Stamped
<1> HIDE DEF a, b, c, d, p
<1>4. /\ p \in Seq(Nat)
      /\ Len(p) = Len(a) + Len(b) + Len(c) + Len(d)
      /\ At(p, 0, a)
      /\ At(p, Len(a), b)
      /\ At(p, Len(a) + Len(b), c)
      /\ At(p, Len(a) + Len(b) + Len(c), d)
  <2> DEFINE w == a \o b \o c \o d
  <2>1. /\ w \in Seq(Nat)
        /\ Len(w) = Len(a) + Len(b) + Len(c) + Len(d)
        /\ At(w, 0, a)
        /\ At(w, Len(a), b)
        /\ At(w, Len(a) + Len(b), c)
        /\ At(w, Len(a) + Len(b) + Len(c), d)
    BY <1>1, <1>2, FourParts, ZenonT(30)
  <2>2. p = w
    BY <1>3
  <2> HIDE DEF w
  <2> QED BY <2>1, <2>2
<1> HIDE DEF h, n
<1>5. /\ Len(a) + Len(b) + Len(c) + Len(d) = 14 + h + n
      /\ Len(a) + Len(b) = 10 + h /\ Len(a) + Len(b) + Len(c) = 12 + h
  BY <1>0, <1>1, <1>2
<1>6. At(p, 8, b) /\ At(p, 10 + h, c) /\ At(p, 12 + h, d) /\ Len(p) = 14 + h + n
  BY <1>1, <1>4, <1>5
<1>7. from_big_endian(0, Sub(p, 0, 8)) = second /\ from_big_endian(0, Sub(p, 10 + h, 2)) = port
  BY <1>0, <1>4, <1>6, AtNumber DEF a, c
<1> DEFINE H == [ok |-> TRUE, bytes |-> host, at |-> 10 + h]
           C == [ok |-> TRUE, bytes |-> cid, at |-> 14 + h + n]
<1>8. read_length_prefixed(p, 8) = [ok |-> TRUE, bytes |-> host, at |-> 8 + 2 + h]
  BY <1>6, ReadPrefixed DEF b, h
<1>9. read_length_prefixed(p, 12 + h) = [ok |-> TRUE, bytes |-> cid, at |-> 12 + h + 2 + n]
  BY <1>6, ReadPrefixed, Zenon DEF d, n
<1>10. 8 + 2 + h = 10 + h /\ 12 + h + 2 + n = 14 + h + n /\ 10 + h + 2 = 12 + h
  BY <1>0
<1>11. read_length_prefixed(p, 8) = H /\ read_length_prefixed(p, H.at + 2) = C
  BY <1>8, <1>9, <1>10, Zenon
<1>12. ~(Len(p) < 8) /\ ~(H.at + 2 > Len(p)) /\ C.at = Len(p)
  BY <1>0, <1>6
<1>13. H.ok = TRUE /\ C.ok = TRUE /\ H.at = 10 + h /\ H.bytes = host /\ C.bytes = cid
  OBVIOUS
<1> HIDE DEF H, C
<1>14. decode_retry_token_payload(p) = host_then_cid(p, H)
  BY <1>11, <1>12 DEF decode_retry_token_payload
<1>15. host_then_cid(p, H) = decoded_context(p, H, C)
  BY <1>11, <1>12, <1>13 DEF host_then_cid
<1>16. decoded_context(p, H, C) =
           [ok |-> TRUE, issued_at |-> second, cid |-> cid, remote |-> [host |-> host, port |-> port]]
  BY <1>7, <1>12, <1>13, Zenon DEF decoded_context
<1> QED BY <1>4, <1>6, <1>14, <1>15, <1>16, Zenon DEF p, h, n

\* The values of a digest.
Digest == {x \in Nat : x < Digests}

\* One step of the digest: it tells numbers apart, and bytes.
LEMMA DigestStep ==
  ASSUME NEW x \in Nat, NEW b \in Nat
  PROVE  (x * 31 + b) % Digests \in Digest
BY SMT DEF Digests, Digest

\* Two digests that differ still do when both take in the same byte.
LEMMA DigestsDiffer ==
  ASSUME NEW x \in Digest, NEW y \in Digest, x # y, NEW b \in Nat
  PROVE  (x * 31 + b) % Digests # (y * 31 + b) % Digests
BY SMT DEF Digests, Digest

\* One digest that takes in two bytes that differ becomes two that differ.
LEMMA BytesDiffer ==
  ASSUME NEW x \in Digest, NEW b \in Byte, NEW c \in Byte, b # c
  PROVE  (x * 31 + b) % Digests # (x * 31 + c) % Digests
<1>1. b \in Nat /\ c \in Nat /\ b < 256 /\ c < 256
  BY Bytes
<1> QED BY <1>1, SMT DEF Digests, Digest

\* Digests are numbers, and a cell that holds one is no byte.
LEMMA DigestNat == 7 \in Digest /\ \A x \in Digest : x \in Nat /\ 256 + x \in Nat /\ (256 + x) > 255
BY SMT DEF Digests, Digest

\* The values compute_tag() goes through.
Hashes(h, payload) ==
  /\ h[0] = 7 /\ \A i \in 0..Len(payload) : h[i] \in Digest
  /\ \A i \in 1..Len(payload) : h[i] = (h[i - 1] * 31 + payload[i]) % Digests

\* compute_tag() ends with the last of the values it goes through.
LEMMA HashOf ==
  ASSUME NEW payload \in Seq(Nat)
  PROVE  \E h : Hashes(h, payload) /\ compute_tag(payload) = <<256 + h[Len(payload)]>>
<1> DEFINE N == Len(payload)
           f == [i \in 0..N |-> [x \in Digest |-> (x * 31 + payload[i]) % Digests]]
           R == CHOOSE h : h = [i \in 0..N |-> IF i = 0 THEN 7 ELSE (h[i - 1] * 31 + payload[i]) % Digests]
           S == Digest
<1>1. compute_tag(payload) = <<256 + R[N]>>
  BY Zenon DEF compute_tag
<1>2. N \in Nat /\ \A i \in 1..N : payload[i] \in Nat
  BY ElementOfSeq
<1> HIDE DEF N
<1>3. ASSUME NEW i \in 1..N, NEW x \in Digest
      PROVE f[i][x] = (x * 31 + payload[i]) % Digests /\ (x * 31 + payload[i]) % Digests \in Digest
  <2>1. i \in 0..N /\ payload[i] \in Nat
    BY <1>2
  <2>2. f[i] = [y \in Digest |-> (y * 31 + payload[i]) % Digests]
    BY <2>1
  <2>3. f[i][x] = (x * 31 + payload[i]) % Digests
    BY <2>2, Zenon
  <2> QED BY <2>1, <2>3, DigestStep, DigestNat, Zenon
<1> HIDE DEF f
<1>4. PICK r : RunFrom(r, N, f, 7)
  BY <1>2, RunExists, SMTT(30)
<1>5. r = [i \in 0..N |-> IF i = 0 THEN 7 ELSE f[i][r[i - 1]]]
  BY <1>4, Zenon DEF RunFrom
<1>6. ASSUME NEW i \in 0..N PROVE r[i] = IF i = 0 THEN 7 ELSE f[i][r[i - 1]]
  BY <1>5, Zenon
<1>7. r[0] \in S /\ \A i \in 1..N : r[i - 1] \in S => r[i] \in S
  <2>1. r[0] = 7
    BY <1>2, <1>6
  <2>2. ASSUME NEW i \in 1..N, r[i - 1] \in S PROVE r[i] \in S
    <3>1. i \in 0..N /\ i # 0
      BY <1>2
    <3>2. r[i] = f[i][r[i - 1]]
      BY <1>6, <3>1
    <3>3. f[i][r[i - 1]] \in Digest
      BY <1>3, <2>2
    <3> QED BY <3>2, <3>3
  <2> QED BY <2>1, <2>2, DigestNat
<1>8. \A i \in 0..N : r[i] \in S
  <2> HIDE DEF S
  <2> QED BY <1>2, <1>7, Induction, Zenon
<1>9. r = [i \in 0..N |-> IF i = 0 THEN 7 ELSE (r[i - 1] * 31 + payload[i]) % Digests]
  <2>1. ASSUME NEW i \in 0..N, i # 0 PROVE f[i][r[i - 1]] = (r[i - 1] * 31 + payload[i]) % Digests
    <3>1. i \in 1..N /\ i - 1 \in 0..N
      BY <1>2, <2>1
    <3> QED BY <1>3, <1>8, <3>1
  <2> QED BY <1>5, <2>1, Zenon
<1>10. R = [i \in 0..N |-> IF i = 0 THEN 7 ELSE (R[i - 1] * 31 + payload[i]) % Digests]
  BY <1>9, ZenonT(30)
<1> HIDE DEF R
<1>11. ASSUME NEW i \in 0..N PROVE R[i] = IF i = 0 THEN 7 ELSE (R[i - 1] * 31 + payload[i]) % Digests
  BY <1>10, Zenon
<1>12. R[0] \in S /\ \A i \in 1..N : R[i - 1] \in S => R[i] \in S
  <2>1. R[0] = 7
    BY <1>2, <1>11
  <2>2. ASSUME NEW i \in 1..N, R[i - 1] \in S PROVE R[i] \in S
    <3>1. i \in 0..N /\ i # 0 /\ payload[i] \in Nat
      BY <1>2
    <3>2. R[i] = (R[i - 1] * 31 + payload[i]) % Digests
      BY <1>11, <3>1
    <3>3. R[i - 1] \in Nat
      BY <2>2, DigestNat
    <3>4. (R[i - 1] * 31 + payload[i]) % Digests \in Digest
      BY <3>1, <3>3, DigestStep, Zenon
    <3> QED BY <3>2, <3>4
  <2> QED BY <2>1, <2>2, DigestNat
<1>13. \A i \in 0..N : R[i] \in S
  <2> HIDE DEF S
  <2> QED BY <1>2, <1>12, Induction, Zenon
<1>14. Hashes(R, payload)
  BY <1>2, <1>11, <1>13 DEF Hashes, N
<1> QED BY <1>1, <1>14 DEF N

\* A payload of which one byte changed has another tag.
LEMMA TagsDiffer ==
  ASSUME NEW p \in Seq(Byte), NEW q \in Seq(Byte), Len(q) = Len(p),
         NEW k \in 1..Len(p), p[k] # q[k], \A i \in 1..Len(p) : i # k => p[i] = q[i]
  PROVE  compute_tag(p) # compute_tag(q)
<1> DEFINE N == Len(p)
<1>1. N \in Nat /\ \A i \in 1..N : p[i] \in Byte /\ q[i] \in Byte
  OBVIOUS
<1>2. p \in Seq(Nat) /\ q \in Seq(Nat)
  <2>1. Byte \subseteq Nat
    BY Bytes
  <2> QED BY <2>1, SeqMonotonic, Zenon
<1>3. PICK h : Hashes(h, p) /\ compute_tag(p) = <<256 + h[N]>>
  BY <1>2, HashOf
<1>4. PICK g : Hashes(g, q) /\ compute_tag(q) = <<256 + g[N]>>
  <2>1. \E g : Hashes(g, q) /\ compute_tag(q) = <<256 + g[Len(q)]>>
    BY <1>2, HashOf, Zenon
  <2>2. Len(q) = N
    OBVIOUS
  <2> QED BY <2>1, <2>2, ZenonT(30)
<1> HIDE DEF N
<1>5. h[0] = 7 /\ g[0] = 7 /\ \A i \in 0..N : h[i] \in Digest /\ g[i] \in Digest
  BY <1>3, <1>4 DEF Hashes, N
<1>6. ASSUME NEW i \in 1..N
      PROVE  h[i] = (h[i - 1] * 31 + p[i]) % Digests /\ g[i] = (g[i - 1] * 31 + q[i]) % Digests
  BY <1>3, <1>4 DEF Hashes, N
<1>7. k \in 1..N /\ \A i \in 1..N : i # k => p[i] = q[i]
  BY DEF N
<1> DEFINE S == {i \in 0..N : (i < k => h[i] = g[i]) /\ (i >= k => h[i] # g[i])}
           id == [i \in 0..N |-> i]
<1>8. id[0] \in S
  BY <1>1, <1>5, <1>7
<1>9. ASSUME NEW i \in 1..N, id[i - 1] \in S PROVE id[i] \in S
  <2>0. i \in 0..N /\ i - 1 \in 0..N /\ id[i] = i /\ id[i - 1] = i - 1
    BY <1>1
  <2>1. h[i - 1] \in Digest /\ g[i - 1] \in Digest /\ p[i] \in Byte /\ q[i] \in Byte
    BY <1>1, <1>5, <2>0
  <2>2. CASE i < k
    <3>1. h[i - 1] = g[i - 1] /\ p[i] = q[i]
      BY <1>7, <1>9, <2>0, <2>2
    <3> QED BY <1>6, <2>0, <2>2, <3>1
  <2>3. CASE i = k
    <3>1. h[i - 1] = g[i - 1] /\ p[i] # q[i]
      BY <1>7, <1>9, <2>0, <2>3
    <3>2. h[i] # g[i]
      BY <1>6, <2>1, <3>1, BytesDiffer
    <3> QED BY <2>0, <2>3, <3>2
  <2>4. CASE i > k
    <3>1. h[i - 1] # g[i - 1] /\ p[i] = q[i]
      BY <1>7, <1>9, <2>0, <2>4
    <3>2. p[i] \in Nat
      BY <2>1, Bytes, Zenon
    <3>3. h[i] # g[i]
      BY <1>6, <2>1, <3>1, <3>2, DigestsDiffer
    <3> QED BY <2>0, <2>4, <3>3
  <2> QED BY <1>7, <2>2, <2>3, <2>4
<1>10. \A i \in 0..N : id[i] \in S
  <2> HIDE DEF S, id
  <2> QED BY <1>1, <1>8, <1>9, Induction, Zenon
<1>11. h[N] # g[N]
  <2>1. N \in 0..N /\ id[N] = N /\ N >= k
    BY <1>1, <1>7
  <2>2. N \in S
    BY <1>10, <2>1
  <2> QED BY <2>1, <2>2
<1>12. 256 + h[N] # 256 + g[N]
  <2>1. h[N] \in Nat /\ g[N] \in Nat
    BY <1>1, <1>5, DigestNat, SMTT(30)
  <2> QED BY <1>11, <2>1
<1> QED BY <1>3, <1>4, <1>12

\* Whole seconds of a clock reading: the second begins at most a second before it.
LEMMA Seconds ==
  ASSUME NEW t \in Nat, NEW s \in Nat, s # 0
  PROVE  t \div s \in Nat /\ (t \div s) * s = t - (t % s) /\ t % s \in Nat /\ t % s < s
BY SMT

\* A quotient is no larger than the number that was divided.
LEMMA Quotient ==
  ASSUME NEW t \in Nat, NEW q \in Nat, NEW s \in Nat, s # 0, q * s <= t
  PROVE  q <= t
BY SMT

\* The second that issue_second() gives begins where Began() says.
LEMMA SecondBegan ==
  ASSUME NEW t \in Int, issue_second(t) >= 0
  PROVE  /\ issue_second(t) \in Nat
         /\ issue_second(t) * Second = Began(t)
         /\ Began(t) \in Int /\ t - Began(t) < Second
         /\ t >= 0 => issue_second(t) <= t
         /\ t < 0 => issue_second(t) = 0
<1>0. Second \in Nat /\ Second # 0
  BY EndpointAssumption
<1>1. CASE t >= 0
  <2>1. t \in Nat /\ issue_second(t) = t \div Second /\ Began(t) = t - (t % Second)
    BY <1>1 DEF issue_second, Began
  <2>2. t \div Second \in Nat /\ (t \div Second) * Second = t - (t % Second) /\ t % Second \in Nat /\ t % Second < Second
    BY <1>0, <2>1, Seconds
  <2> DEFINE q == t \div Second
             r == t % Second
  <2>3. q \in Nat /\ q * Second = t - r /\ r \in Nat /\ r < Second
    BY <2>2
  <2> HIDE DEF q, r
  <2>4. q <= t
    BY <1>0, <2>1, <2>3, Quotient
  <2>5. t - r \in Int /\ t - (t - r) < Second
    BY <1>0, <2>1, <2>3
  <2>6. issue_second(t) = q /\ Began(t) = t - r
    BY <2>1 DEF q, r
  <2> QED BY <1>1, <2>3, <2>4, <2>5, <2>6
<1>2. CASE t < 0
  <2> DEFINE u == -t
             q == u \div Second
  <2>1. u \in Nat /\ issue_second(t) = -q /\ Began(t) = 0
    BY <1>2 DEF issue_second, Began
  <2> HIDE DEF u
  <2>2. q \in Nat
    BY <1>0, <2>1, Seconds, Zenon
  <2> HIDE DEF q
  <2>3. issue_second(t) = 0
    BY <2>1, <2>2
  <2>4. 0 * Second = 0 /\ t - 0 < Second
    BY <1>0, <1>2
  <2> QED BY <1>2, <2>1, <2>3, <2>4
<1> QED BY <1>1, <1>2

\* A smaller number fits where a larger one does.
LEMMA SmallerFits ==
  ASSUME NEW x \in Nat, NEW y \in Nat, x <= y, NEW n \in 1..8, Fit(y, n)
  PROVE  Fit(x, n)
<1> SUFFICES ASSUME NEW sh, Shifts(sh, x) PROVE sh[n - 1] < 256
  BY DEF Fit
<1>1. PICK g : Shifts(g, y)
  BY BytesOf
<1>2. g[n - 1] < 256
  BY <1>1 DEF Fit
<1> DEFINE S == {k \in 0..7 : sh[k] <= g[k]}
           id == [k \in 0..7 |-> k]
<1>3. id[0] \in S
  BY <1>1 DEF Shifts
<1>4. ASSUME NEW k \in 1..7, id[k - 1] \in S PROVE id[k] \in S
  <2>1. id[k] = k /\ id[k - 1] = k - 1 /\ k \in 0..7 /\ k - 1 \in 0..7
    OBVIOUS
  <2> DEFINE a == sh[k - 1]
             b == g[k - 1]
  <2>2. a \in Nat /\ b \in Nat /\ a <= b /\ sh[k] = a \div 256 /\ g[k] = b \div 256
    BY <1>1, <1>4, <2>1 DEF Shifts
  <2> HIDE DEF a, b
  <2>3. sh[k] <= g[k]
    BY <2>2
  <2> QED BY <2>1, <2>3
<1>5. \A k \in 0..7 : id[k] \in S
  <2> HIDE DEF S, id
  <2> QED BY <1>3, <1>4, Induction
<1>6. n - 1 \in 0..7 /\ id[n - 1] = n - 1
  OBVIOUS
<1>7. sh[n - 1] <= g[n - 1]
  BY <1>5, <1>6
<1>8. sh[n - 1] \in Nat /\ g[n - 1] \in Nat
  BY <1>1, <1>6 DEF Shifts
<1> QED BY <1>2, <1>7, <1>8

\* The second of a clock reading fits in the eight bytes a token has for it.
LEMMA SecondFits ==
  ASSUME NEW t \in Clocks, issue_second(t) >= 0
  PROVE  issue_second(t) \in Nat /\ Fit(issue_second(t), 8)
<1>1. t \in Int /\ (t >= 0 => Above24(Above24(t) \div 256) < 128)
  BY EndpointAssumption DEF Ticks
<1>2. issue_second(t) \in Nat /\ (t >= 0 => issue_second(t) <= t) /\ (t < 0 => issue_second(t) = 0)
  BY <1>1, SecondBegan
<1>3. 8 \in 1..8
  OBVIOUS
<1>4. CASE t >= 0
  <2>1. t \in Nat
    BY <1>1, <1>4
  <2> DEFINE w == Above24(Above24(t) \div 256)
  <2>2. w < 128 => w < 256
    <3>1. w \in Int
      BY <2>1 DEF Above24
    <3> HIDE DEF w
    <3> QED BY <3>1
  <2>3. Fit(t, 8)
    BY <1>1, <1>4, <2>1, <2>2, Fields
  <2> QED BY <1>2, <1>3, <1>4, <2>1, <2>3, SmallerFits
<1>5. CASE t < 0
  <2>1. 0 \in Nat /\ Fit(0, 8)
    <3>1. Above24(0) = 0 /\ 0 \div 256 = 0 /\ 0 < 256
      BY SMT DEF Above24
    <3> QED BY <3>1, Fields
  <2> QED BY <1>2, <1>5, <2>1
<1> QED BY <1>1, <1>4, <1>5

\* Connection IDs are compared as a whole.
LEMMA EqualIds ==
  ASSUME NEW s \in Seq(Nat), NEW t \in Seq(Nat), Len(s) <= 255, Len(t) <= 255
  PROVE  constant_time_equal(s, t) <=> s = t
<1>1. Len(s) \in Nat /\ Len(t) \in Nat
  OBVIOUS
<1>2. (Len(s) % 256 = Len(t) % 256) <=> Len(s) = Len(t)
  <2> DEFINE n == Len(s)
             m == Len(t)
  <2>1. n \in Nat /\ m \in Nat /\ n <= 255 /\ m <= 255
    BY <1>1
  <2> HIDE DEF n, m
  <2>2. (n % 256 = m % 256) <=> n = m
    BY <2>1, SMTT(30)
  <2> QED BY <2>2 DEF n, m
<1>3. ASSUME constant_time_equal(s, t) PROVE s = t
  <2>1. Len(s) = Len(t)
    BY <1>2, <1>3 DEF constant_time_equal
  <2>2. ASSUME NEW i \in 1..Len(s) PROVE s[i] = t[i]
    <3>1. i \in DOMAIN s \cup DOMAIN t /\ i <= Len(s) /\ i <= Len(t)
      BY <1>1, <2>1
    <3> QED BY <1>3, <3>1 DEF constant_time_equal
  <2> QED BY <2>1, <2>2, SeqEqual
<1>4. ASSUME s = t PROVE constant_time_equal(s, t)
  BY <1>4 DEF constant_time_equal
<1> QED BY <1>3, <1>4

\* What is written in a Retry token that was issued.
PayloadOf(i) == Stamped(issue_second(i.at), i.remote.host, i.remote.port, i.cid)

\* A token that issue_token() made in a second that is not before the epoch, for an address and a
\* connection ID.
Genuine(i) ==
    /\ i.remote \in Remotes /\ i.cid \in Cids /\ i.at \in Clocks
    /\ issue_second(i.at) >= 0
    /\ Len(i.remote.host) <= U16Max /\ Len(PayloadOf(i)) <= U16Max
    /\ i.token = Token(PayloadOf(i), compute_tag(PayloadOf(i)))

\* length_prefixed() of bytes is bytes.
LEMMA PrefixedBytes ==
  ASSUME NEW s \in Seq(Byte), Len(s) <= U16Max
  PROVE  s \in Seq(Nat) /\ length_prefixed(s) \in Seq(Byte)
<1>1. s \in Seq(Nat)
  BY Bytes, SeqMonotonic, Zenon
<1>2. Len(s) \in Nat /\ 2 \in 1..8
  OBVIOUS
<1>3. Fit(Len(s), 2)
  BY <1>2, Fields
<1> DEFINE n == Len(s)
           p == big_endian(n, 2)
<1> HIDE DEF n
<1>4. p \in Seq(Byte)
  BY <1>2, <1>3, NumberRead DEF n
<1> HIDE DEF p
<1>5. p \o s \in Seq(Byte)
  BY <1>4
<1>6. length_prefixed(s) = p \o s
  BY DEF length_prefixed, p, n
<1> QED BY <1>1, <1>5, <1>6

\* The addresses and connection IDs of the model are what the code's types hold.
LEMMA ContextFacts ==
  ASSUME NEW remote \in Remotes, NEW cid \in Cids
  PROVE  /\ remote.host \in Seq(Byte) /\ remote.host \in Seq(Nat)
         /\ remote.port \in Nat /\ Fit(remote.port, 2)
         /\ remote = [host |-> remote.host, port |-> remote.port]
         /\ cid \in Seq(Byte) /\ cid \in Seq(Nat) /\ Len(cid) <= 255 /\ Len(cid) <= U16Max
<1>1. remote \in [host : Seq(Byte), port : 0..U16Max] /\ cid \in Seq(Byte) /\ Len(cid) <= 255
  BY EndpointAssumption
<1>2. remote.host \in Seq(Byte) /\ remote.port \in 0..U16Max /\ remote = [host |-> remote.host, port |-> remote.port]
  BY <1>1
<1>3. remote.host \in Seq(Nat) /\ cid \in Seq(Nat)
  BY <1>1, <1>2, Bytes, SeqMonotonic, Zenon
<1>4. U16Max \in Nat /\ 255 <= U16Max
  BY SMT DEF U16Max
<1>5. remote.port \in Nat /\ remote.port <= U16Max
  BY <1>2, <1>4
<1>6. Len(cid) <= U16Max
  <2>1. Len(cid) \in Nat
    BY <1>1
  <2> QED BY <1>1, <1>4, <2>1
<1>7. Fit(remote.port, 2)
  BY <1>5, Fields
<1> QED BY <1>1, <1>2, <1>3, <1>5, <1>6, <1>7

\* The payload of a genuine token is made of bytes and tells the token's context.
LEMMA PayloadFacts ==
  ASSUME NEW i, Genuine(i)
  PROVE  /\ PayloadOf(i) \in Seq(Byte) /\ PayloadOf(i) \in Seq(Nat)
         /\ decode_retry_token_payload(PayloadOf(i)) =
               [ok |-> TRUE, issued_at |-> issue_second(i.at), cid |-> i.cid, remote |-> i.remote]
<1> DEFINE second == issue_second(i.at)
           host == i.remote.host
           port == i.remote.port
           cid == i.cid
<1>1. /\ host \in Seq(Byte) /\ host \in Seq(Nat)
      /\ port \in Nat /\ Fit(port, 2)
      /\ i.remote = [host |-> host, port |-> port]
      /\ cid \in Seq(Byte) /\ cid \in Seq(Nat) /\ Len(cid) <= U16Max
  BY ContextFacts DEF Genuine
<1>2. second \in Nat /\ Fit(second, 8)
  BY SecondFits DEF Genuine
<1>3. Len(host) <= U16Max /\ 8 \in 1..8 /\ 2 \in 1..8
  BY DEF Genuine
<1>4. PayloadOf(i) = Stamped(second, host, port, cid)
  BY DEF PayloadOf
<1> HIDE DEF second, host, port, cid
<1> DEFINE p == Stamped(second, host, port, cid)
<1>5. p \in Seq(Nat) /\ decode_retry_token_payload(p) =
          [ok |-> TRUE, issued_at |-> second, cid |-> cid, remote |-> [host |-> host, port |-> port]]
  BY <1>1, <1>2, <1>3, PayloadRead
<1>6. p \in Seq(Byte)
  <2> DEFINE a == big_endian(second, 8)
             b == length_prefixed(host)
             c == big_endian(port, 2)
             d == length_prefixed(cid)
  <2>1. a \in Seq(Byte) /\ c \in Seq(Byte)
    BY <1>1, <1>2, <1>3, NumberRead
  <2>2. b \in Seq(Byte) /\ d \in Seq(Byte)
    BY <1>1, <1>3, PrefixedBytes
  <2>3. p = a \o b \o c \o d
    BY DEF Stamped
  <2> HIDE DEF a, b, c, d
  <2>4. a \o b \o c \o d \in Seq(Byte)
    BY <2>1, <2>2
  <2> QED BY <2>3, <2>4
<1> HIDE DEF p
<1>7. PayloadOf(i) = p
  BY <1>4 DEF p
<1>8. [ok |-> TRUE, issued_at |-> second, cid |-> cid, remote |-> [host |-> host, port |-> port]] =
      [ok |-> TRUE, issued_at |-> issue_second(i.at), cid |-> i.cid, remote |-> i.remote]
  BY <1>1 DEF second, cid
<1> QED BY <1>5, <1>6, <1>7, <1>8

\* A tag is one cell that is no byte.
LEMMA TagFacts ==
  ASSUME NEW p \in Seq(Nat)
  PROVE  /\ compute_tag(p) \in Seq(Nat) /\ Len(compute_tag(p)) = 1 /\ compute_tag(p) # <<>>
         /\ compute_tag(p)[1] \in Nat /\ compute_tag(p)[1] > 255 /\ compute_tag(p) = <<compute_tag(p)[1]>>
<1>1. PICK h : Hashes(h, p) /\ compute_tag(p) = <<256 + h[Len(p)]>>
  BY HashOf
<1>2. h[Len(p)] \in Digest
  <2>1. Len(p) \in 0..Len(p)
    OBVIOUS
  <2> QED BY <1>1, <2>1 DEF Hashes
<1> DEFINE c == 256 + h[Len(p)]
<1>3. c \in Nat /\ c > 255
  BY <1>2, DigestNat
<1> HIDE DEF c
<1>4. compute_tag(p) = <<c>>
  BY <1>1 DEF c
<1>5. <<c>> \in Seq(Nat) /\ Len(<<c>>) = 1 /\ <<c>>[1] = c /\ <<c>> # <<>>
  BY <1>3
<1> QED BY <1>3, <1>4, <1>5

\* What validate_token() says of a token that was issued.
LEMMA Validation ==
  ASSUME NEW i, Genuine(i), config.provider, config.lifetime > 0, NEW remote \in Remotes, NEW cid \in Cids
  PROVE  validate_token(i.token, remote, cid) <=>
            /\ now >= issue_second(i.at) * Second
            /\ now - issue_second(i.at) * Second <= config.lifetime
            /\ i.remote = remote /\ i.cid = cid
<1> DEFINE p == PayloadOf(i)
           g == compute_tag(p)
           d == [ok |-> TRUE, issued_at |-> issue_second(i.at), cid |-> i.cid, remote |-> i.remote]
<1>1. p \in Seq(Nat) /\ decode_retry_token_payload(p) = d /\ Len(p) <= U16Max /\ i.token = Token(p, g)
  BY PayloadFacts DEF Genuine
<1>2. g \in Seq(Nat) /\ Len(g) = 1 /\ g # <<>>
  BY <1>1, TagFacts
<1>3. Len(g) <= U16Max /\ Len(g) <= 255
  <2>1. 1 <= U16Max /\ 1 <= 255
    BY SMT DEF U16Max
  <2> QED BY <1>2, <2>1
<1>4. constant_time_equal(g, g)
  BY <1>2, <1>3, EqualIds, Zenon
<1>5. verify_integrity_tag(p, g)
  BY <1>2, <1>4 DEF verify_integrity_tag, compute_integrity_tag, Failed
<1>6. constant_time_equal(i.cid, cid) <=> i.cid = cid
  BY ContextFacts, EqualIds DEF Genuine
<1>7. d.ok = TRUE /\ d.issued_at = issue_second(i.at) /\ d.cid = i.cid /\ d.remote = i.remote
  BY SMTT(30)
<1> HIDE DEF d, g, p
<1>8. context_matches(d, remote, cid) <=>
            /\ now >= issue_second(i.at) * Second
            /\ now - issue_second(i.at) * Second <= config.lifetime
            /\ i.remote = remote /\ i.cid = cid
  BY <1>6, <1>7 DEF context_matches
<1> DEFINE parts == [ok |-> TRUE, payload |-> p, tag |-> g]
<1>9. parse_retry_token(Token(p, g)) = parts
  BY <1>1, <1>2, <1>3, TokenRead, Zenon
<1>10. parts.ok = TRUE /\ parts.payload = p /\ parts.tag = g
  OBVIOUS
<1> HIDE DEF parts
<1>11. verified(parts, remote, cid) <=> context_matches(d, remote, cid)
  BY <1>1, <1>5, <1>10 DEF verified
<1>12. Token(p, g) # <<>>
  <2>1. Token(p, g) \in Seq(Nat) /\ Len(Token(p, g)) = 9 + Len(p) + Len(g)
    BY <1>1, <1>2, <1>3, TokenParts, Zenon
  <2>2. Len(p) \in Nat /\ Len(<<>>) = 0
    BY <1>1
  <2>3. Len(Token(p, g)) # 0
    BY <1>2, <2>1, <2>2
  <2> QED BY <2>2, <2>3
<1>13. validate_token(Token(p, g), remote, cid) <=> verified(parts, remote, cid)
  BY <1>9, <1>12 DEF validate_token, validate_retry_token_lifetime
<1> QED BY <1>1, <1>8, <1>11, <1>13, SMTT(30)

\* The bytes that Sub() takes out.
LEMMA SubCells ==
  ASSUME NEW b \in Seq(Nat), NEW k \in Nat, NEW n \in Nat, k + n <= Len(b)
  PROVE  /\ Sub(b, k, n) \in Seq(Nat) /\ Len(Sub(b, k, n)) = n
         /\ \A i \in 1..n : Sub(b, k, n)[i] = b[k + i]
<1>1. Len(b) \in Nat
  OBVIOUS
<1>2. SubSeq(b, k + 1, k + n) \in Seq(Nat) /\ Len(SubSeq(b, k + 1, k + n)) = n
  BY <1>1
<1>3. ASSUME NEW i \in 1..n PROVE SubSeq(b, k + 1, k + n)[i] = b[k + i]
  <2> DEFINE lo == k + 1
             hi == k + n
  <2>1. lo \in Nat /\ hi \in Nat /\ i \in 1..(hi - lo + 1) /\ lo + i - 1 = k + i
    OBVIOUS
  <2> HIDE DEF lo, hi
  <2>2. SubSeq(b, lo, hi)[i] = b[lo + i - 1]
    BY <2>1
  <2> QED BY <2>1, <2>2, Zenon DEF lo, hi
<1> QED BY <1>2, <1>3, Zenon DEF Sub

\* A number of 16 bits is read from two bytes.
LEMMA TwoBytes ==
  ASSUME NEW b \in Seq(Nat), NEW k \in Nat, k + 2 <= Len(b)
  PROVE  from_big_endian(0, Sub(b, k, 2)) = b[k + 1] * 256 + b[k + 2]
<1> DEFINE s == Sub(b, k, 2)
<1>1. 2 \in Nat /\ 1 \in 1..2 /\ 2 \in 1..2
  OBVIOUS
<1>2. s \in Seq(Nat) /\ Len(s) = 2 /\ \A i \in 1..2 : s[i] = b[k + i]
  BY <1>1, SubCells, Zenon
<1> HIDE DEF s
<1>3. PICK val : Values(val, 0, s) /\ from_big_endian(0, s) = val[Len(s)]
  <2>1. 0 \in Nat
    OBVIOUS
  <2> QED BY <1>2, <2>1, ValueOf, Zenon
<1>4. val[0] = 0 /\ val[1] = val[0] * 256 + s[1] /\ val[2] = val[1] * 256 + s[2]
  BY <1>1, <1>2, <1>3 DEF Values
<1>5. s[1] = b[k + 1] /\ s[2] = b[k + 2] /\ s[1] \in Nat /\ s[2] \in Nat
  BY <1>1, <1>2
<1>6. val[1] = s[1]
  BY <1>4, <1>5, SMTT(30)
<1>7. val[2] = b[k + 1] * 256 + b[k + 2]
  BY <1>4, <1>5, <1>6, SMTT(30)
<1>8. from_big_endian(0, s) = val[2]
  BY <1>2, <1>3
<1> QED BY <1>7, <1>8 DEF s

\* What a token is that validate_token() accepts.
Accepted(b, n, m) ==
    /\ n \in Nat /\ m \in Nat /\ m # 0
    /\ Len(b) = 9 + n + m
    /\ \A k \in 1..5 : b[k] = Magic[k]
    /\ n = b[6] * 256 + b[7]
    /\ m = b[8 + n] * 256 + b[9 + n]
    /\ b[10 + n] = compute_tag(Sub(b, 7, n))[1]

\* A token that validate_token() accepts has the shape of one.
LEMMA AcceptedParts ==
  ASSUME NEW b \in Seq(Nat), NEW remote, NEW cid, validate_token(b, remote, cid)
  PROVE  \E n, m : Accepted(b, n, m)
<1> DEFINE n == from_big_endian(0, Sub(b, 5, 2))
           m == from_big_endian(0, Sub(b, 7 + n, 2))
           P == read_length_prefixed(b, 5)
           G == read_length_prefixed(b, P.at)
           parts == parse_retry_token(b)
<1>0. Len(b) \in Nat
  OBVIOUS
<1>1. parts.ok /\ verify_integrity_tag(parts.payload, parts.tag)
  BY DEF validate_token, verified
<1>2. parts # Failed
  <2>1. ~Failed.ok
    BY DEF Failed
  <2> QED BY <1>1, <2>1
<1>3. ~(Len(b) < 9) /\ Sub(b, 0, 5) = Magic /\ parts = payload_then_tag(b, P)
  BY <1>2 DEF parse_retry_token
<1>4. P.ok /\ parts = parts_of(P, G, Len(b))
  BY <1>2, <1>3, SMTT(30) DEF payload_then_tag
<1>5. G.ok /\ G.bytes # <<>> /\ G.at = Len(b) /\ parts = [ok |-> TRUE, payload |-> P.bytes, tag |-> G.bytes]
  BY <1>2, <1>4, SMTT(30) DEF parts_of
<1>6. parts.payload = P.bytes /\ parts.tag = G.bytes
  BY <1>5
<1> HIDE DEF parts
<1>7. n = b[6] * 256 + b[7] /\ n \in Nat
  <2>1. 5 \in Nat /\ 5 + 2 <= Len(b) /\ 5 + 1 = 6 /\ 5 + 2 = 7 /\ 6 \in 1..Len(b) /\ 7 \in 1..Len(b)
    BY <1>0, <1>3
  <2>2. n = b[5 + 1] * 256 + b[5 + 2]
    BY <2>1, TwoBytes
  <2>3. b[6] \in Nat /\ b[7] \in Nat
    BY <2>1
  <2>4. b[6] * 256 + b[7] \in Nat
    BY <2>3, SMTT(30)
  <2> QED BY <2>1, <2>2, <2>4
<1> HIDE DEF n
<1>n. n \in Nat
  BY <1>7
<1>8. P = [ok |-> TRUE, bytes |-> Sub(b, 5 + 2, n), at |-> 5 + 2 + n] /\ ~(5 + 2 + n > Len(b))
  <2>1. P # Failed
    BY <1>4 DEF Failed
  <2> QED BY <2>1, SMTT(30) DEF read_length_prefixed, n
<1>9. P.at = 7 + n /\ P.bytes = Sub(b, 7, n) /\ 7 + n <= Len(b)
  <2>1. P.at = 5 + 2 + n /\ P.bytes = Sub(b, 5 + 2, n)
    BY <1>8
  <2>2. 5 + 2 + n = 7 + n /\ 5 + 2 = 7
    BY <1>n
  <2> QED BY <1>0, <1>n, <1>8, <2>1, <2>2
<1> HIDE DEF P
<1>10. /\ G = [ok |-> TRUE, bytes |-> Sub(b, 7 + n + 2, m), at |-> 7 + n + 2 + m]
       /\ ~(7 + n + 2 > Len(b)) /\ ~(7 + n + 2 + m > Len(b))
  <2>1. G # Failed
    BY <1>5 DEF Failed
  <2>2. G = read_length_prefixed(b, 7 + n)
    BY <1>9
  <2> HIDE DEF G
  <2> QED BY <2>1, <2>2, SMTT(30) DEF read_length_prefixed, m
<1>11. m = b[8 + n] * 256 + b[9 + n] /\ m \in Nat
  <2>1. /\ 7 + n \in Nat /\ (7 + n) + 2 <= Len(b) /\ (7 + n) + 1 = 8 + n /\ (7 + n) + 2 = 9 + n
        /\ 8 + n \in 1..Len(b) /\ 9 + n \in 1..Len(b)
    <3>1. ~(7 + n + 2 > Len(b))
      BY <1>10
    <3> QED BY <1>0, <1>n, <3>1
  <2>2. m = b[(7 + n) + 1] * 256 + b[(7 + n) + 2]
    BY <2>1, TwoBytes
  <2>3. b[8 + n] \in Nat /\ b[9 + n] \in Nat
    BY <2>1, SMTT(30)
  <2>4. b[8 + n] * 256 + b[9 + n] \in Nat
    BY <2>3, SMTT(30)
  <2> QED BY <2>1, <2>2, <2>4
<1> HIDE DEF m
<1>m. m \in Nat
  BY <1>11
<1>12. G.at = 9 + n + m /\ G.bytes = Sub(b, 9 + n, m) /\ Len(b) = 9 + n + m
  <2>1. G.at = 7 + n + 2 + m /\ G.bytes = Sub(b, 7 + n + 2, m)
    BY <1>10
  <2>2. 7 + n + 2 + m = 9 + n + m /\ 7 + n + 2 = 9 + n
    BY <1>n, <1>m
  <2> QED BY <1>5, <2>1, <2>2
<1> DEFINE p == Sub(b, 7, n)
           g == Sub(b, 9 + n, m)
<1>13. /\ p \in Seq(Nat) /\ Len(p) = n
       /\ g \in Seq(Nat) /\ Len(g) = m /\ \A k \in 1..m : g[k] = b[(9 + n) + k]
  <2>1. 7 \in Nat /\ 7 + n <= Len(b) /\ 9 + n \in Nat /\ (9 + n) + m <= Len(b)
    <3>1. 7 + n <= Len(b) /\ Len(b) = 9 + n + m
      BY <1>9, <1>12, SMTT(30)
    <3> QED BY <1>0, <1>n, <1>m, <3>1, SMTT(30)
  <2> QED BY <1>n, <1>m, <2>1, SubCells, Zenon
<1> HIDE DEF G
<1>14. verify_integrity_tag(p, g) /\ g # <<>>
  BY <1>1, <1>5, <1>6, <1>9, <1>12
<1> HIDE DEF p, g
<1>15. m # 0
  BY <1>13, <1>14
<1>16. constant_time_equal(compute_tag(p), g)
  BY <1>14 DEF verify_integrity_tag, compute_integrity_tag, Failed
<1>17. compute_tag(p)[1] = g[1]
  <2>1. Len(compute_tag(p)) = 1 /\ compute_tag(p) \in Seq(Nat)
    BY <1>13, TagFacts
  <2>2. 1 \in DOMAIN compute_tag(p) \cup DOMAIN g /\ 1 <= Len(compute_tag(p)) /\ 1 <= Len(g)
    BY <1>m, <1>13, <1>15, <2>1
  <2> QED BY <1>16, <2>2 DEF constant_time_equal
<1>18. b[10 + n] = compute_tag(Sub(b, 7, n))[1]
  <2>1. 1 \in 1..m /\ (9 + n) + 1 = 10 + n
    BY <1>n, <1>m, <1>15
  <2> QED BY <1>13, <1>17, <2>1 DEF p
<1>19. \A k \in 1..5 : b[k] = Magic[k]
  <2>1. 0 \in Nat /\ 5 \in Nat /\ 0 + 5 <= Len(b)
    BY <1>0, <1>3
  <2>2. \A k \in 1..5 : Sub(b, 0, 5)[k] = b[0 + k]
    BY <2>1, SubCells, Zenon
  <2>3. \A k \in 1..5 : 0 + k = k
    OBVIOUS
  <2> QED BY <1>3, <2>2, <2>3, Zenon
<1>20. Accepted(b, n, m)
  BY <1>7, <1>11, <1>12, <1>15, <1>18, <1>19, SMTT(30) DEF Accepted
<1> QED BY <1>20

\* The cells of a token that was issued.
Cells(t, p) ==
    /\ t \in Seq(Nat) /\ Len(t) = 10 + Len(p)
    /\ \A k \in 1..5 : t[k] = Magic[k]
    /\ Len(p) = t[6] * 256 + t[7]
    /\ \A k \in 1..Len(p) : t[7 + k] = p[k]
    /\ 1 = t[8 + Len(p)] * 256 + t[9 + Len(p)]
    /\ t[10 + Len(p)] = compute_tag(p)[1]
    /\ \A k \in 1..(9 + Len(p)) : t[k] \in Byte

\* What stands in the cells of a genuine token.
LEMMA TokenCells ==
  ASSUME NEW i, Genuine(i)
  PROVE  Cells(i.token, PayloadOf(i))
<1> DEFINE p == PayloadOf(i)
           g == compute_tag(p)
           t == Token(p, g)
           N == Len(p)
           a == length_prefixed(p)
           b == length_prefixed(g)
<1>1. p \in Seq(Byte) /\ p \in Seq(Nat) /\ Len(p) <= U16Max /\ i.token = t
  BY PayloadFacts DEF Genuine
<1>2. g \in Seq(Nat) /\ Len(g) = 1
  BY <1>1, TagFacts
<1>3. Len(g) <= U16Max
  <2>1. 1 <= U16Max
    BY SMT DEF U16Max
  <2> QED BY <1>2, <2>1
<1>4. N \in Nat
  BY <1>1
<1> HIDE DEF g, p
<1>5. t \in Seq(Nat) /\ Len(t) = 9 + N + Len(g) /\ At(t, 0, Magic) /\ At(t, 5, a) /\ At(t, 7 + N, b)
  BY <1>1, <1>2, <1>3, TokenParts, Zenon
<1>6. /\ Fit(N, 2) /\ At(a, 0, big_endian(N, 2)) /\ At(a, 2, p)
      /\ Fit(Len(g), 2) /\ At(b, 0, big_endian(Len(g), 2)) /\ At(b, 2, g)
  BY <1>1, <1>2, <1>3, Prefixed, Zenon
<1> HIDE DEF t, a, b, N
<1>7. At(t, 5 + 0, big_endian(N, 2)) /\ At(t, 5 + 2, p) /\ At(t, (7 + N) + 0, big_endian(Len(g), 2)) /\ At(t, (7 + N) + 2, g)
  BY <1>5, <1>6, AtWithin, Zenon
<1>8. 5 + 0 = 5 /\ 5 + 2 = 7 /\ (7 + N) + 0 = 7 + N /\ (7 + N) + 2 = 9 + N /\ 9 + N + 1 = 10 + N /\ 2 \in 1..8 /\ 1 \in Nat
  BY <1>4
<1>9. Len(t) = 10 + N
  BY <1>2, <1>5, <1>8
<1>10. /\ from_big_endian(0, Sub(t, 5, 2)) = N
       /\ from_big_endian(0, Sub(t, 7 + N, 2)) = Len(g)
  BY <1>2, <1>4, <1>6, <1>7, <1>8, AtNumber
<1>11. N = t[6] * 256 + t[7]
  <2>1. 5 \in Nat /\ 5 + 2 <= Len(t) /\ 5 + 1 = 6
    BY <1>4, <1>9
  <2>2. from_big_endian(0, Sub(t, 5, 2)) = t[5 + 1] * 256 + t[5 + 2]
    BY <1>5, <2>1, TwoBytes, ZenonT(30)
  <2> QED BY <1>8, <1>10, <2>1, <2>2
<1>12. 1 = t[8 + N] * 256 + t[9 + N]
  <2>1. 7 + N \in Nat /\ (7 + N) + 2 <= Len(t) /\ (7 + N) + 1 = 8 + N
    BY <1>4, <1>9
  <2>2. from_big_endian(0, Sub(t, 7 + N, 2)) = t[(7 + N) + 1] * 256 + t[(7 + N) + 2]
    BY <1>5, <2>1, TwoBytes, ZenonT(30)
  <2> QED BY <1>2, <1>8, <1>10, <2>1, <2>2
<1>13. \A k \in 1..5 : t[k] = Magic[k]
  <2>1. Len(Magic) = 5
    BY DEF Magic
  <2>2. \A k \in 1..5 : t[0 + k] = Magic[k]
    BY <1>5, <2>1, Zenon DEF At
  <2>3. \A k \in 1..5 : 0 + k = k
    OBVIOUS
  <2> QED BY <2>2, <2>3
<1>14. \A k \in 1..N : t[7 + k] = p[k]
  BY <1>7, <1>8 DEF At, N
<1>15. t[10 + N] = g[1]
  <2>1. 1 \in 1..Len(g) /\ (9 + N) + 1 = 10 + N
    BY <1>2, <1>4
  <2>2. t[(9 + N) + 1] = g[1]
    BY <1>7, <1>8, <2>1, Zenon DEF At
  <2> QED BY <2>1, <2>2
<1>16. ASSUME NEW k \in 1..(9 + N) PROVE t[k] \in Byte
  <2>1. CASE k \in 1..5
    <3>1. Magic[k] \in Nat /\ Magic[k] < 256
      BY <2>1 DEF Magic
    <3> QED BY <1>13, <2>1, <3>1, Bytes
  <2>2. CASE k \in 6..7
    <3>1. big_endian(N, 2) \in Seq(Byte) /\ Len(big_endian(N, 2)) = 2
      BY <1>4, <1>6, <1>8, NumberRead
    <3>2. k - 5 \in 1..2 /\ 5 + (k - 5) = k
      BY <2>2
    <3>3. t[5 + (k - 5)] = big_endian(N, 2)[k - 5]
      BY <1>7, <1>8, <3>1, <3>2, Zenon DEF At
    <3>4. big_endian(N, 2)[k - 5] \in Byte
      BY <3>1, <3>2, ElementOfSeq
    <3> QED BY <3>2, <3>3, <3>4
  <2>3. CASE k \in 8..(7 + N)
    <3>1. k - 7 \in 1..N /\ 7 + (k - 7) = k
      BY <1>4, <2>3
    <3>2. p[k - 7] \in Byte
      BY <1>1, <3>1, ElementOfSeq DEF N
    <3> QED BY <1>14, <3>1, <3>2
  <2>4. CASE k \in (8 + N)..(9 + N)
    <3>1. big_endian(Len(g), 2) \in Seq(Byte) /\ Len(big_endian(Len(g), 2)) = 2
      BY <1>2, <1>6, <1>8, NumberRead
    <3>2. k - (7 + N) \in 1..2 /\ (7 + N) + (k - (7 + N)) = k
      BY <1>4, <2>4
    <3>3. t[(7 + N) + (k - (7 + N))] = big_endian(Len(g), 2)[k - (7 + N)]
      BY <1>7, <1>8, <3>1, <3>2, ZenonT(30) DEF At
    <3>4. big_endian(Len(g), 2)[k - (7 + N)] \in Byte
      BY <3>1, <3>2, ElementOfSeq, SMTT(30)
    <3> QED BY <3>2, <3>3, <3>4
  <2> QED BY <1>4, <2>1, <2>2, <2>3, <2>4
<1>17. Cells(t, p)
  BY <1>5, <1>9, <1>11, <1>12, <1>13, <1>14, <1>15, <1>16, SMTT(30) DEF Cells, N, g
<1> QED BY <1>1, <1>17 DEF p

\* Two bytes are told by the number they make.
LEMMA SameNumber ==
  ASSUME NEW a \in Byte, NEW b \in Byte, NEW c \in Byte, NEW d \in Byte, a * 256 + b = c * 256 + d
  PROVE  a = c /\ b = d
<1>1. a \in Nat /\ b \in Nat /\ c \in Nat /\ d \in Nat /\ b < 256 /\ d < 256
  BY Bytes
<1> QED BY <1>1

\* A token that lost or gained bytes at its end is refused.
LEMMA Resized ==
  ASSUME NEW t, NEW p \in Seq(Nat), Cells(t, p), NEW b \in Seq(Nat), Len(b) # Len(t),
         \A k \in 1..Len(t) : k <= Len(b) => b[k] = t[k], NEW remote, NEW cid
  PROVE  ~validate_token(b, remote, cid)
<1> SUFFICES ASSUME validate_token(b, remote, cid) PROVE FALSE
  OBVIOUS
<1>1. PICK n, m : Accepted(b, n, m)
  BY AcceptedParts, SMTT(30)
<1> DEFINE N == Len(p)
<1>2. N \in Nat /\ Len(t) = 10 + N /\ n \in Nat /\ m \in Nat /\ m # 0 /\ Len(b) = 9 + n + m /\ Len(b) \in Nat
  BY <1>1 DEF Cells, Accepted
<1> HIDE DEF N
<1>3. 6 \in 1..Len(t) /\ 7 \in 1..Len(t) /\ 6 <= Len(b) /\ 7 <= Len(b)
  BY <1>2
<1>4. b[6] = t[6] /\ b[7] = t[7]
  BY <1>3, SMTT(30)
<1>5. n = N
  BY <1>1, <1>4 DEF Cells, Accepted, N
<1>6. 8 + N \in 1..Len(t) /\ 9 + N \in 1..Len(t) /\ 8 + N <= Len(b) /\ 9 + N <= Len(b)
  <2> DEFINE x == Len(b)
             y == Len(t)
  <2>1. x = 9 + N + m /\ y = 10 + N /\ N \in Nat /\ m \in Nat
    BY <1>2, <1>5
  <2> HIDE DEF x, y
  <2>2. 8 + N \in 1..y /\ 9 + N \in 1..y /\ 8 + N <= x /\ 9 + N <= x
    BY <2>1
  <2> QED BY <2>2 DEF x, y
<1>7. b[8 + N] = t[8 + N] /\ b[9 + N] = t[9 + N]
  BY <1>6, SMTT(30)
<1>8. m = 1
  <2>1. m = b[8 + N] * 256 + b[9 + N] /\ 1 = t[8 + N] * 256 + t[9 + N]
    BY <1>1, <1>5, ZenonT(30) DEF Cells, Accepted, N
  <2> QED BY <1>7, <2>1
<1>9. Len(b) = Len(t)
  BY <1>2, <1>5, <1>8
<1> QED BY <1>9

\* A token of which one cell changed is refused.
LEMMA OneChanged ==
  ASSUME NEW t, NEW p \in Seq(Byte), Cells(t, p), NEW b \in Seq(Nat), Len(b) = Len(t),
         NEW j \in 1..Len(t), b[j] # t[j], b[j] \in Byte,
         \A k \in 1..Len(t) : k # j => b[k] = t[k], NEW remote, NEW cid
  PROVE  ~validate_token(b, remote, cid)
<1> SUFFICES ASSUME validate_token(b, remote, cid) PROVE FALSE
  OBVIOUS
<1>1. PICK n, m : Accepted(b, n, m)
  BY AcceptedParts
<1> DEFINE N == Len(p)
           x == Len(b)
<1>2. N \in Nat /\ Len(t) = x /\ x = 10 + N /\ n \in Nat /\ m \in Nat /\ m # 0 /\ x = 9 + n + m
  <2>1. N \in Nat
    BY SMTT(30)
  <2>2. n \in Nat /\ m \in Nat /\ m # 0 /\ Len(b) = 9 + n + m
    BY <1>1 DEF Accepted
  <2>3. Len(t) = 10 + N
    BY DEF Cells
  <2> QED BY <2>1, <2>2, <2>3, Zenon
<1>3. p \in Seq(Nat)
  BY Bytes, SeqMonotonic, Zenon
<1> HIDE DEF N, x
<1>4. ASSUME NEW k \in 1..(9 + N) PROVE b[k] \in Byte /\ t[k] \in Byte
  <2>1. t[k] \in Byte
    BY Zenon DEF Cells, N
  <2>2. k \in 1..x
    BY <1>2
  <2> QED BY <1>2, <2>1, <2>2
<1>5. b[10 + n] \notin Byte
  <2> DEFINE q == Sub(b, 7, n)
             c == compute_tag(q)[1]
  <2>1. 7 \in Nat /\ 7 + n <= x
    BY <1>2, SMTT(30)
  <2>2. q \in Seq(Nat)
    BY <1>2, <2>1, SubCells DEF x
  <2> HIDE DEF q
  <2>3. c \in Nat /\ c > 255
    BY <2>2, TagFacts, SMTT(30)
  <2>4. b[10 + n] = c
    BY <1>1 DEF Accepted, q
  <2> HIDE DEF c
  <2>5. ~(c < 256)
    BY <2>3
  <2> QED BY <2>3, <2>4, <2>5, Bytes
<1>6. n = N /\ m = 1
  <2>1. 10 + n \notin 1..(9 + N)
    BY <1>4, <1>5
  <2>2. 10 + n <= 10 + N /\ (n # N => 10 + n \in 1..(9 + N))
    BY <1>2
  <2>3. n = N
    BY <2>1, <2>2
  <2> QED BY <1>2, <2>3, SMTT(30)
<1>7. b[6] = t[6] /\ b[7] = t[7]
  <2>1. 6 \in 1..(9 + N) /\ 7 \in 1..(9 + N)
    BY <1>2
  <2>2. b[6] * 256 + b[7] = t[6] * 256 + t[7]
    <3>1. n = b[6] * 256 + b[7]
      BY <1>1, Zenon DEF Accepted
    <3>2. N = t[6] * 256 + t[7]
      BY Zenon, ZenonT(30) DEF Cells, N
    <3> QED BY <1>6, <3>1, <3>2, ZenonT(30)
  <2>3. b[6] \in Byte /\ b[7] \in Byte /\ t[6] \in Byte /\ t[7] \in Byte
    BY <1>4, <2>1
  <2> QED BY <2>2, <2>3, SameNumber, SMTT(30)
<1>8. b[8 + N] = t[8 + N] /\ b[9 + N] = t[9 + N]
  <2>1. 8 + N \in 1..(9 + N) /\ 9 + N \in 1..(9 + N)
    BY <1>2
  <2>2. b[8 + N] * 256 + b[9 + N] = t[8 + N] * 256 + t[9 + N]
    <3>1. m = b[8 + n] * 256 + b[9 + n]
      BY <1>1, Zenon DEF Accepted
    <3>2. 1 = t[8 + N] * 256 + t[9 + N]
      BY Zenon, ZenonT(30) DEF Cells, N
    <3> QED BY <1>6, <3>1, <3>2, ZenonT(30)
  <2>3. b[8 + N] \in Byte /\ b[9 + N] \in Byte /\ t[8 + N] \in Byte /\ t[9 + N] \in Byte
    BY <1>4, <2>1
  <2> QED BY <2>2, <2>3, SameNumber, SMTT(30)
<1>9. \A k \in 1..5 : b[k] = t[k]
  <2>1. \A k \in 1..5 : b[k] = Magic[k]
    BY <1>1, Zenon DEF Accepted
  <2>2. \A k \in 1..5 : t[k] = Magic[k]
    BY Zenon DEF Cells
  <2> QED BY <2>1, <2>2, Zenon
<1>10. j # 10 + N
  BY <1>5, <1>6
<1>11. j \in 8..(7 + N)
  <2>1. j \in 1..(10 + N)
    BY <1>2
  <2>2. j \notin 1..5 /\ j # 6 /\ j # 7 /\ j # 8 + N /\ j # 9 + N
    BY <1>7, <1>8, <1>9, Zenon
  <2> QED BY <1>2, <1>10, <2>1, <2>2, SMTT(30)
<1> DEFINE q == Sub(b, 7, N)
<1>12. q \in Seq(Nat) /\ Len(q) = N /\ \A k \in 1..N : q[k] = b[7 + k]
  <2>1. 7 \in Nat /\ 7 + N <= x
    BY <1>2
  <2> QED BY <1>2, <2>1, SubCells, ZenonT(30) DEF x
<1>13. b[10 + N] = compute_tag(q)[1] /\ t[10 + N] = compute_tag(p)[1]
  BY <1>1, <1>6, Zenon DEF Cells, Accepted, N
<1> HIDE DEF q
<1>14. \A k \in 1..N : t[7 + k] = p[k]
  BY Zenon, ZenonT(30) DEF Cells, N
<1>15. ASSUME NEW k \in 1..N PROVE q[k] \in Byte /\ (7 + k # j => q[k] = p[k])
  <2>1. 7 + k \in 1..(9 + N) /\ 7 + k \in 1..x
    BY <1>2
  <2> QED BY <1>2, <1>4, <1>12, <1>14, <2>1, SMTT(30)
<1>16. q \in Seq(Byte)
  <2>1. q \in [1..N -> Byte]
    BY <1>12, <1>15
  <2> QED BY <1>2, <2>1
<1>17. j - 7 \in 1..N /\ 7 + (j - 7) = j /\ \A k \in 1..N : k # j - 7 => 7 + k # j
  BY <1>2, <1>11, SMTT(30)
<1>18. p[j - 7] # q[j - 7]
  BY <1>12, <1>14, <1>17, SMTT(30)
<1>19. compute_tag(p) # compute_tag(q)
  <2>1. Len(q) = Len(p) /\ j - 7 \in 1..Len(p)
    BY <1>12, <1>17 DEF N
  <2>2. \A k \in 1..Len(p) : k # j - 7 => p[k] = q[k]
    BY <1>15, <1>17 DEF N
  <2> QED BY <1>16, <1>18, <2>1, <2>2, TagsDiffer, Zenon
<1>20. compute_tag(p) = <<compute_tag(p)[1]>> /\ compute_tag(q) = <<compute_tag(q)[1]>>
  BY <1>3, <1>12, TagFacts
<1>21. b[10 + N] = t[10 + N]
  <2>1. 10 + N \in 1..x
    BY <1>2
  <2> QED BY <1>2, <1>10, <2>1
<1> QED BY <1>13, <1>19, <1>20, <1>21, SMTT(30)

\* A genuine token that lost or changed a byte, or gained one, is refused.
LEMMA DamagedRefused ==
  ASSUME NEW i, Genuine(i), NEW b \in Damaged(i.token), NEW remote, NEW cid
  PROVE  ~validate_token(b, remote, cid)
<1> DEFINE t == i.token
           p == PayloadOf(i)
<1>1. p \in Seq(Byte) /\ p \in Seq(Nat) /\ Cells(t, p)
  BY PayloadFacts, TokenCells
<1>3. b \in Truncated(t) \/ b \in Altered(t) \/ b = Append(t, 0)
  BY DEF Damaged
<1> HIDE DEF t, p
<1>2. t \in Seq(Nat) /\ Len(t) \in Nat
  <2>1. t \in Seq(Nat)
    BY <1>1 DEF Cells
  <2> QED BY <2>1
<1>4. CASE b \in Truncated(t)
  <2>1. PICK n \in 0..(Len(t) - 1) : b = SubSeq(t, 1, n)
    BY <1>4 DEF Truncated
  <2>2. n \in Nat /\ n < Len(t)
    BY <1>2
  <2>3. SubSeq(t, 1, n) \in Seq(Nat) /\ Len(SubSeq(t, 1, n)) = n /\ \A k \in 1..n : SubSeq(t, 1, n)[k] = t[k]
    BY <1>2, <2>2
  <2>4. b \in Seq(Nat) /\ Len(b) # Len(t) /\ \A k \in 1..Len(t) : k <= Len(b) => b[k] = t[k]
    BY <1>2, <2>1, <2>2, <2>3
  <2> QED BY <1>1, <2>4, Resized
<1>5. CASE b \in Altered(t)
  <2>1. PICK j \in DOMAIN t : b = [t EXCEPT ![j] = (@ + 1) % 256]
    BY <1>5 DEF Altered
  <2>2. j \in 1..Len(t) /\ t[j] \in Nat
    BY <1>2, <2>1
  <2> DEFINE x == t[j]
             y == (x + 1) % 256
  <2>3. y \in Nat /\ y < 256 /\ y # x
    <3>1. ASSUME NEW z \in Nat PROVE (z + 1) % 256 \in Nat /\ (z + 1) % 256 < 256 /\ (z + 1) % 256 # z
      OBVIOUS
    <3> QED BY <2>2, <3>1
  <2>4. b = [t EXCEPT ![j] = y]
    BY <2>1
  <2> HIDE DEF y
  <2>5. b \in Seq(Nat) /\ Len(b) = Len(t) /\ b[j] = y /\ \A k \in 1..Len(t) : k # j => b[k] = t[k]
    BY <1>2, <2>2, <2>3, <2>4
  <2>6. b[j] # t[j] /\ b[j] \in Byte
    BY <2>3, <2>5, Bytes, SMTT(30)
  <2> QED BY <1>1, <2>2, <2>5, <2>6, OneChanged, Zenon
<1>6. CASE b = Append(t, 0)
  <2>1. Append(t, 0) \in Seq(Nat) /\ Len(Append(t, 0)) = Len(t) + 1 /\ \A k \in 1..Len(t) : Append(t, 0)[k] = t[k]
    BY <1>2
  <2>2. Len(t) + 1 # Len(t)
    BY <1>2
  <2>3. b \in Seq(Nat) /\ Len(b) # Len(t) /\ \A k \in 1..Len(t) : k <= Len(b) => b[k] = t[k]
    BY <1>6, <2>1, <2>2
  <2> QED BY <1>1, <2>3, Resized
<1> QED BY <1>3, <1>4, <1>5, <1>6

-----------------------------------------------------------------------------
\* The Retry tokens that were handed out are genuine, and the validator that made them has a key
\* and a lifetime.
TokenInvariant ==
    /\ config \in Configs /\ now \in Clocks
    /\ \A i \in issued : Genuine(i)
    /\ issued # {} => config.provider /\ config.lifetime > 0

\* issue_token() hands out genuine tokens only.
LEMMA TokenIssued ==
  ASSUME NEW remote \in Remotes, NEW cid \in Cids, now \in Clocks, issue_token(remote, cid).ok
  PROVE  /\ config.provider /\ config.lifetime > 0
         /\ Genuine([remote |-> remote, cid |-> cid, at |-> now, token |-> issue_token(remote, cid).token])
<1> DEFINE r == issue_token(remote, cid)
           e == encode_retry_token_payload(remote, cid, now)
           p == Stamped(issue_second(now), remote.host, remote.port, cid)
           i == [remote |-> remote, cid |-> cid, at |-> now, token |-> r.token]
<1>0. ~Failed.ok
  BY DEF Failed
<1>1. r # Failed
  BY <1>0
<1>2. config.lifetime > 0 /\ r = issued_token(e)
  BY <1>1 DEF issue_token, validate_retry_token_lifetime
<1> HIDE DEF r
<1>3. e.ok /\ compute_integrity_tag(e.payload).ok /\ r = encode_retry_token(e.payload, compute_integrity_tag(e.payload).tag)
  BY <1>1, <1>2 DEF issued_token
<1>4. ~(issue_second(now) < 0) /\ ~(Len(remote.host) > U16Max) /\ e.payload = p
  <2>1. e # Failed
    BY <1>0, <1>3, SMTT(30)
  <2>2. e = [ok |-> TRUE, payload |-> p] /\ ~(issue_second(now) < 0 \/ Len(remote.host) > U16Max \/ Len(cid) > U16Max)
    BY <2>1 DEF encode_retry_token_payload, Stamped
  <2> QED BY <2>2
<1> HIDE DEF e
<1>5. config.provider /\ compute_integrity_tag(p).tag = compute_tag(p)
  BY <1>0, <1>3, <1>4 DEF compute_integrity_tag
<1>6. r = [ok |-> TRUE, token |-> Token(p, compute_tag(p))] /\ ~(Len(p) > U16Max)
  <2>1. r = encode_retry_token(p, compute_tag(p))
    BY <1>3, <1>4, <1>5, SMTT(30)
  <2> HIDE DEF p
  <2> QED BY <1>1, <2>1 DEF encode_retry_token, Token
<1>7. i.remote = remote /\ i.cid = cid /\ i.at = now /\ i.token = Token(p, compute_tag(p)) /\ PayloadOf(i) = p
  BY <1>6 DEF PayloadOf
<1>8. issue_second(now) >= 0 /\ Len(remote.host) <= U16Max /\ Len(p) <= U16Max
  <2>1. now \in Int /\ Second \in Nat /\ Second # 0 /\ U16Max \in Nat
    <3>1. U16Max \in Nat
      BY SMT DEF U16Max
    <3>2. now \in Ticks /\ Second \in Nat /\ Second # 0
      BY EndpointAssumption
    <3> QED BY <3>1, <3>2 DEF Ticks
  <2>2. issue_second(now) \in Int
    <3>1. CASE now >= 0
      <4>1. now \in Nat /\ issue_second(now) = now \div Second
        BY <2>1, <3>1 DEF issue_second
      <4>2. now \div Second \in Nat
        BY <2>1, <4>1, Seconds, Zenon
      <4> QED BY <4>1, <4>2
    <3>2. CASE now < 0
      <4> DEFINE u == -now
                 q == u \div Second
      <4>1. u \in Nat /\ issue_second(now) = -q
        BY <2>1, <3>2 DEF issue_second
      <4> HIDE DEF u
      <4>2. q \in Nat
        BY <2>1, <4>1, Seconds, Zenon
      <4> HIDE DEF q
      <4> QED BY <4>1, <4>2
    <3> QED BY <2>1, <3>1, <3>2
  <2>3. issue_second(now) >= 0
    BY <1>4, <2>2
  <2>4. remote.host \in Seq(Nat) /\ cid \in Seq(Nat) /\ remote.port \in Nat /\ Fit(remote.port, 2) /\ Len(cid) <= U16Max
    BY ContextFacts
  <2>5. Len(remote.host) \in Nat /\ Len(remote.host) <= U16Max
    BY <1>4, <2>1, <2>4
  <2>6. issue_second(now) \in Nat /\ Fit(issue_second(now), 8)
    BY <2>3, SecondFits, SMTT(30)
  <2>7. p \in Seq(Nat)
    BY <2>4, <2>5, <2>6, PayloadRead, SMTT(30)
  <2>8. Len(p) \in Nat
    BY <2>7
  <2>9. Len(p) <= U16Max
    <3> DEFINE n == Len(p)
    <3>1. n \in Nat /\ ~(n > U16Max)
      BY <1>6, <2>8
    <3> HIDE DEF n
    <3>2. n <= U16Max
      BY <2>1, <3>1
    <3> QED BY <3>2 DEF n
  <2> QED BY <2>3, <2>5, <2>9
<1> HIDE DEF i, p
<1>9. Genuine(i)
  BY <1>7, <1>8 DEF Genuine
<1> QED BY <1>2, <1>5, <1>9 DEF i, r

\* Nothing is issued at first.
LEMMA TokenInvariantInitially == Init => TokenInvariant
BY DEF Init, TokenInvariant

\* Every step keeps the issued tokens genuine.
LEMMA TokenInvariantKept == TokenInvariant /\ [Next]_vars => TokenInvariant'
<1> SUFFICES ASSUME TokenInvariant, [Next]_vars PROVE TokenInvariant'
  BY SMTT(30)
<1> USE DEF TokenInvariant
<1>1. ASSUME NEW i PROVE Genuine(i)' <=> Genuine(i)
  BY DEF Genuine, PayloadOf
<1>2. ASSUME UNCHANGED <<config, now, issued>> PROVE TokenInvariant'
  BY <1>2
<1>3. CASE start
  BY <1>2, <1>3 DEF start
<1>4. CASE stop
  BY <1>2, <1>4, SMTT(30) DEF stop
<1>5. ASSUME NEW cid \in Cids, NEW handle \in Handles, NEW token \in ResetTokens \cup {NoToken},
             register_connection(cid, handle, token)
      PROVE  TokenInvariant'
  BY <1>2, <1>5 DEF register_connection
<1>6. ASSUME NEW cid \in Cids, unregister_connection(cid) PROVE TokenInvariant'
  BY <1>2, <1>6 DEF unregister_connection
<1>7. ASSUME NEW remote \in Remotes, NEW cid \in Cids, SendRetry(remote, cid) PROVE TokenInvariant'
  <2> DEFINE i == [remote |-> remote, cid |-> cid, at |-> now, token |-> issue_token(remote, cid).token]
  <2>1. issue_token(remote, cid).ok /\ issued' = {i} /\ UNCHANGED <<config, now>>
    BY <1>7, SMTT(30) DEF SendRetry
  <2>2. config.provider /\ config.lifetime > 0 /\ Genuine(i)
    BY <2>1, TokenIssued
  <2> HIDE DEF i
  <2> QED BY <2>1, <2>2, SMTT(30)
<1>8. ASSUME NEW t \in Clocks, ClockMoves(t) PROVE TokenInvariant'
  <2>1. now' = t /\ UNCHANGED <<config, issued>>
    BY <1>8, SMTT(30) DEF ClockMoves
  <2> QED BY <2>1
<1>9. ASSUME NEW version \in {1, 2}, NEW client \in Cids, NEW server \in Cids, Negotiate(version, client, server)
      PROVE  TokenInvariant'
  BY <1>2, <1>9 DEF Negotiate
<1>10. CASE UNCHANGED vars
  BY <1>2, <1>10 DEF vars
<1> HIDE DEF TokenInvariant
<1> QED BY <1>3, <1>4, <1>5, <1>6, <1>7, <1>8, <1>9, <1>10, SMTT(30) DEF Next

\* Every Retry token the server hands out is a genuine one, for every address, connection ID,
\* clock and configuration: SendRetry() and issue_token().
THEOREM TokensGenuine == Spec => []TokenInvariant
BY TokenInvariantInitially, TokenInvariantKept, PTL DEF Spec

\* Genuine tokens are accepted in their context alone, and only whole.
LEMMA AcceptedInvariant == TokenInvariant => AcceptedWasIssued
<1> SUFFICES ASSUME TokenInvariant, NEW i \in issued
             PROVE  /\ \A remote \in Remotes, cid \in Cids :
                          validate_token(i.token, remote, cid) =>
                              /\ remote = i.remote /\ cid = i.cid
                              /\ now - Began(i.at) \in 0..config.lifetime
                    /\ \A damaged \in Damaged(i.token) : ~validate_token(damaged, i.remote, i.cid)
  BY DEF AcceptedWasIssued
<1>1. Genuine(i) /\ config.provider /\ config.lifetime > 0 /\ config \in Configs /\ now \in Clocks
  BY DEF TokenInvariant
<1>2. now \in Int /\ config.lifetime \in Int /\ i.at \in Int
  BY <1>1, EndpointAssumption, ZenonT(30) DEF Genuine, Ticks
<1>3. issue_second(i.at) * Second = Began(i.at) /\ Began(i.at) \in Int
  BY <1>1, <1>2, SecondBegan DEF Genuine
<1>4. ASSUME NEW remote \in Remotes, NEW cid \in Cids, validate_token(i.token, remote, cid)
      PROVE  remote = i.remote /\ cid = i.cid /\ now - Began(i.at) \in 0..config.lifetime
  <2>1. /\ now >= issue_second(i.at) * Second
        /\ now - issue_second(i.at) * Second <= config.lifetime
        /\ i.remote = remote /\ i.cid = cid
    BY <1>1, <1>4, Validation
  <2> DEFINE w == Began(i.at)
             l == config.lifetime
  <2>2. now >= w /\ now - w <= l
    BY <1>3, <2>1
  <2>3. w \in Int /\ l \in Int
    BY <1>2, <1>3
  <2> HIDE DEF w, l
  <2>4. now - w \in 0..l
    BY <1>2, <2>2, <2>3
  <2> QED BY <2>1, <2>4 DEF w, l
<1>5. \A damaged \in Damaged(i.token) : ~validate_token(damaged, i.remote, i.cid)
  BY <1>1, DamagedRefused
<1> QED BY <1>4, <1>5

\* validate_token() accepts a token only from the address and for the connection ID it was issued
\* to and within its lifetime, however the clock moves, and never one that lost, changed or
\* gained a byte.
THEOREM OnlyIssuedAccepted == Spec => []AcceptedWasIssued
BY TokensGenuine, AcceptedInvariant, PTL

\* Genuine tokens are accepted while they are fresh.
LEMMA HonouredInvariant == TokenInvariant => HonouredWhileFresh
<1> SUFFICES ASSUME TokenInvariant, NEW i \in issued,
                    Began(i.at) <= now, now + Second - 1 <= i.at + config.lifetime
             PROVE  validate_token(i.token, i.remote, i.cid)
  BY DEF HonouredWhileFresh
<1>1. Genuine(i) /\ config.provider /\ config.lifetime > 0 /\ config \in Configs /\ now \in Clocks
  BY DEF TokenInvariant
<1>2. now \in Int /\ config.lifetime \in Int /\ i.at \in Int /\ Second \in Nat
  BY <1>1, EndpointAssumption, ZenonT(30) DEF Genuine, Ticks
<1>3. issue_second(i.at) * Second = Began(i.at) /\ Began(i.at) \in Int /\ i.at - Began(i.at) < Second
  BY <1>1, <1>2, SecondBegan DEF Genuine
<1> DEFINE w == Began(i.at)
           l == config.lifetime
           a == i.at
<1>4. w \in Int /\ l \in Int /\ a \in Int /\ a - w < Second /\ w <= now /\ now + Second - 1 <= a + l
  BY <1>2, <1>3
<1> HIDE DEF w, l, a
<1>5. now >= w /\ now - w <= l
  BY <1>2, <1>4
<1>6. now >= issue_second(i.at) * Second /\ now - issue_second(i.at) * Second <= config.lifetime
  BY <1>3, <1>5 DEF w, l
<1>7. i.remote \in Remotes /\ i.cid \in Cids
  BY <1>1 DEF Genuine
<1> QED BY <1>1, <1>6, <1>7, Validation

\* A client that returns its token in time is let in, whatever the bytes of its address and
\* connection ID are: validate_token() reads back all that issue_token() wrote.
THEOREM FreshTokensHonoured == Spec => []HonouredWhileFresh
BY TokensGenuine, HonouredInvariant, PTL

\* read_connection_id() reads what append_connection_id() wrote, and goes behind it.
LEMMA ReadId ==
  ASSUME NEW id \in Seq(Nat), NEW b, NEW k, At(b, k, append_connection_id(id))
  PROVE  read_connection_id(b, k) = [ok |-> TRUE, id |-> id, at |-> k + 1 + Len(id)]
<1> DEFINE n == Len(id)
           h == <<n>>
<1>1. n \in Nat
  OBVIOUS
<1>2. append_connection_id(id) = h \o id
  BY DEF append_connection_id
<1> HIDE DEF n
<1>3. h \in Seq(Nat) /\ Len(h) = 1 /\ h[1] = n
  BY <1>1
<1> HIDE DEF h
<1>4. At(h \o id, 0, h) /\ At(h \o id, Len(h), id)
  BY <1>3, AtHead, AtTail, ZenonT(30)
<1>5. At(b, k + 0, h) /\ At(b, k + 1, id)
  BY <1>2, <1>3, <1>4, AtWithin, SMTT(30)
<1>6. b \in Seq(Nat) /\ Len(b) \in Nat /\ k \in Nat /\ (k + 1) + n <= Len(b)
  BY <1>5 DEF At, n
<1>7. b[k + 1] = n
  <2>1. 1 \in 1..Len(h) /\ k + 0 = k
    BY <1>3, <1>6, SMTT(30)
  <2>2. b[(k + 0) + 1] = h[1]
    BY <1>5, <2>1 DEF At
  <2> QED BY <1>3, <2>1, <2>2
<1>8. Sub(b, k + 1, n) = id
  BY <1>5, AtSub DEF n
<1>9. ~(k >= Len(b)) /\ ~(n > Len(b) - k - 1)
  BY <1>1, <1>6
<1> QED BY <1>7, <1>8, <1>9, Zenon DEF read_connection_id, n

\* Every version stands in four bytes of the list, in its place.
LEMMA VersionBytes ==
  ASSUME NEW vs \in Seq(Uint32)
  PROVE  /\ append_versions(vs) \in Seq(Nat)
         /\ Len(append_versions(vs)) = 4 * Len(vs)
         /\ \A i \in 1..Len(vs) : At(append_versions(vs), 4 * (i - 1), big_endian(vs[i], 4))
<1> DEFINE N == Len(vs)
           a == append_versions(vs)
<1>1. N \in Nat /\ \A i \in 1..N : vs[i] \in Uint32
  OBVIOUS
<1> HIDE DEF N
<1>2. ASSUME NEW i \in 1..N
      PROVE  big_endian(vs[i], 4) \in Seq(Nat) /\ Len(big_endian(vs[i], 4)) = 4
  <2>1. vs[i] \in Nat /\ Above24(vs[i]) < 256
    BY <1>1 DEF Uint32
  <2>2. Fit(vs[i], 4) /\ 4 \in 1..8
    BY <2>1, Fields
  <2> QED BY <2>1, <2>2, NumberBytes
<1>3. a = [k \in 1..(4 * N) |-> big_endian(vs[(k + 3) \div 4], 4)[((k - 1) % 4) + 1]]
  BY DEF append_versions, N
<1> HIDE DEF a
<1>4. ASSUME NEW k \in 1..(4 * N) PROVE a[k] \in Nat
  <2> DEFINE q == (k + 3) \div 4
             r == ((k - 1) % 4) + 1
  <2>1. q \in 1..N /\ r \in 1..4
    BY <1>1
  <2>2. a[k] = big_endian(vs[q], 4)[r]
    BY <1>3
  <2> HIDE DEF q, r
  <2>3. r \in 1..Len(big_endian(vs[q], 4))
    BY <1>2, <2>1, Zenon
  <2> QED BY <1>2, <2>1, <2>2, <2>3, ElementOfSeq
<1>5. a \in Seq(Nat) /\ Len(a) = 4 * N
  <2>1. a \in [1..(4 * N) -> Nat] /\ 4 * N \in Nat
    BY <1>1, <1>3, <1>4
  <2> QED BY <2>1
<1>6. ASSUME NEW i \in 1..N PROVE At(a, 4 * (i - 1), big_endian(vs[i], 4))
  <2> DEFINE e == big_endian(vs[i], 4)
  <2>1. e \in Seq(Nat) /\ Len(e) = 4
    BY <1>2
  <2>2. ASSUME NEW j \in 1..4 PROVE a[4 * (i - 1) + j] = e[j]
    <3> DEFINE k == 4 * (i - 1) + j
    <3>1. k \in 1..(4 * N) /\ (k + 3) \div 4 = i /\ ((k - 1) % 4) + 1 = j
      BY <1>1
    <3> HIDE DEF k
    <3>2. a[k] = big_endian(vs[i], 4)[j]
      BY <1>3, <3>1
    <3> QED BY <3>2 DEF k
  <2>3. 4 * (i - 1) \in Nat /\ 4 * (i - 1) + 4 <= 4 * N
    BY <1>1
  <2> HIDE DEF e
  <2>4. At(a, 4 * (i - 1), e)
    BY <1>5, <2>1, <2>2, <2>3 DEF At
  <2> QED BY <2>4 DEF e
<1> QED BY <1>5, <1>6 DEF N, a

\* Four zero bytes are version zero.
LEMMA VersionZero ==
  ASSUME NEW b \in Seq(Nat), NEW k \in Nat, k + 4 <= Len(b), \A i \in 1..4 : b[k + i] = 0
  PROVE  from_big_endian(0, Sub(b, k, 4)) = 0
<1> DEFINE s == Sub(b, k, 4)
<1>1. s \in Seq(Nat) /\ Len(s) = 4 /\ \A i \in 1..4 : s[i] = b[k + i]
  <2>1. 4 \in Nat
    OBVIOUS
  <2> QED BY <2>1, SubCells, Zenon
<1> HIDE DEF s
<1>2. 0 \in Nat
  OBVIOUS
<1>3. PICK val : Values(val, 0, s) /\ from_big_endian(0, s) = val[Len(s)]
  BY <1>1, <1>2, ValueOf, Zenon
<1>4. 1 \in 1..4 /\ 2 \in 1..4 /\ 3 \in 1..4 /\ 4 \in 1..4
  OBVIOUS
<1>5. /\ val[0] = 0 /\ val[1] = val[0] * 256 + s[1] /\ val[2] = val[1] * 256 + s[2]
      /\ val[3] = val[2] * 256 + s[3] /\ val[4] = val[3] * 256 + s[4]
  BY <1>1, <1>3, <1>4, SMTT(30) DEF Values
<1>6. s[1] = 0 /\ s[2] = 0 /\ s[3] = 0 /\ s[4] = 0
  BY <1>1, <1>4, Zenon
<1>7. 0 * 256 + 0 = 0
  OBVIOUS
<1>8. val[4] = 0
  BY <1>5, <1>6, <1>7, SMTT(30)
<1> QED BY <1>1, <1>3, <1>8, Zenon DEF s

\* The packet that build_version_negotiation() makes.
NegotiationPacket(client, server, vs) ==
    <<128, 0, 0, 0, 0>> \o append_connection_id(client) \o append_connection_id(server) \o append_versions(vs)

\* A Version Negotiation packet is read back as it was written.
LEMMA NegotiationRead ==
  ASSUME NEW client \in Cids, NEW server \in Cids, NEW vs \in Seq(Uint32), vs # <<>>
  PROVE  LET r == decode_packet_header(NegotiationPacket(client, server, vs))
         IN  r.kind = "version_negotiation" /\ r.dcid = client /\ r.scid = server /\ r.versions = vs
<1> DEFINE h == <<128, 0, 0, 0, 0>>
           c == append_connection_id(client)
           d == append_connection_id(server)
           v == append_versions(vs)
           b == h \o c \o d \o v
           n == Len(client)
           m == Len(server)
           N == Len(vs)
<1>1. client \in Seq(Nat) /\ server \in Seq(Nat)
  BY EndpointAssumption, Bytes, SeqMonotonic, ZenonT(30)
<1>2. n \in Nat /\ m \in Nat /\ N \in Nat
  BY <1>1
<1>3. N # 0
  OBVIOUS
<1>4. h \in Seq(Nat) /\ Len(h) = 5 /\ h[1] = 128 /\ \A i \in 1..4 : h[1 + i] = 0
  OBVIOUS
<1>5. c \in Seq(Nat) /\ Len(c) = 1 + n /\ d \in Seq(Nat) /\ Len(d) = 1 + m
  BY <1>1, <1>2 DEF append_connection_id
<1>6. v \in Seq(Nat) /\ Len(v) = 4 * N /\ \A i \in 1..N : At(v, 4 * (i - 1), big_endian(vs[i], 4))
  BY VersionBytes
<1> HIDE DEF h, c, d, v
<1>7. /\ b \in Seq(Nat)
      /\ Len(b) = Len(h) + Len(c) + Len(d) + Len(v)
      /\ At(b, 0, h)
      /\ At(b, Len(h), c)
      /\ At(b, Len(h) + Len(c), d)
      /\ At(b, Len(h) + Len(c) + Len(d), v)
  BY <1>4, <1>5, <1>6, FourParts, ZenonT(30)
<1> HIDE DEF b
<1> HIDE DEF n, m, N
<1>8. /\ Len(h) + Len(c) = 6 + n /\ Len(h) + Len(c) + Len(d) = 7 + n + m
      /\ Len(h) + Len(c) + Len(d) + Len(v) = 7 + n + m + 4 * N
  BY <1>2, <1>4, <1>5, <1>6, SMTT(30)
<1>9. /\ b \in Seq(Nat) /\ Len(b) = 7 + n + m + 4 * N /\ At(b, 0, h)
      /\ At(b, 5, c) /\ At(b, 6 + n, d) /\ At(b, 7 + n + m, v)
  BY <1>4, <1>7, <1>8
<1>10. b[1] = 128 /\ from_big_endian(0, Sub(b, 1, 4)) = 0
  <2>1. \A i \in 1..5 : b[0 + i] = h[i]
    BY <1>4, <1>9, Zenon DEF At
  <2>2. 0 + 1 = 1 /\ 1 \in 1..5 /\ \A i \in 1..4 : 1 + i \in 1..5 /\ 0 + (1 + i) = 1 + i
    OBVIOUS
  <2>3. b[1] = 128 /\ \A i \in 1..4 : b[1 + i] = 0
    BY <1>4, <2>1, <2>2
  <2>4. 1 \in Nat /\ 1 + 4 <= Len(b)
    BY <1>2, <1>9
  <2> QED BY <1>9, <2>3, <2>4, VersionZero, SMTT(30)
<1> DEFINE D == [ok |-> TRUE, id |-> client, at |-> 6 + n]
           S == [ok |-> TRUE, id |-> server, at |-> 7 + n + m]
<1>11. read_connection_id(b, 5) = D
  <2>1. read_connection_id(b, 5) = [ok |-> TRUE, id |-> client, at |-> 5 + 1 + n]
    BY <1>1, <1>9, ReadId DEF c, n
  <2>2. 5 + 1 + n = 6 + n
    BY <1>2
  <2> QED BY <2>1, <2>2, SMTT(30)
<1>12. read_connection_id(b, 6 + n) = S
  <2>1. read_connection_id(b, 6 + n) = [ok |-> TRUE, id |-> server, at |-> 6 + n + 1 + m]
    BY <1>1, <1>9, ReadId, Zenon DEF d, m
  <2>2. 6 + n + 1 + m = 7 + n + m
    BY <1>2
  <2> QED BY <2>1, <2>2, Zenon
<1>13. D.ok = TRUE /\ D.id = client /\ D.at = 6 + n /\ S.ok = TRUE /\ S.id = server /\ S.at = 7 + n + m
  OBVIOUS
<1> HIDE DEF D, S
<1> DEFINE left == Len(b) - S.at
<1>14. left = 4 * N /\ left # 0 /\ left % 4 = 0 /\ left \div 4 = N
  <2>1. left = 4 * N
    BY <1>2, <1>9, <1>13
  <2>2. 4 * N # 0 /\ (4 * N) % 4 = 0 /\ (4 * N) \div 4 = N
    BY <1>2, <1>3 DEF N
  <2> QED BY <2>1, <2>2, SMTT(30)
<1> HIDE DEF left
<1>15. [i \in 1..(left \div 4) |-> from_big_endian(0, Sub(b, S.at + 4 * (i - 1), 4))] = vs
  <2> DEFINE f == [i \in 1..(left \div 4) |-> from_big_endian(0, Sub(b, S.at + 4 * (i - 1), 4))]
  <2>1. ASSUME NEW i \in 1..N PROVE from_big_endian(0, Sub(b, S.at + 4 * (i - 1), 4)) = vs[i]
    <3>1. vs[i] \in Uint32
      BY DEF N
    <3>2. vs[i] \in Nat /\ Above24(vs[i]) < 256 /\ 4 \in 1..8
      BY <3>1 DEF Uint32
    <3>3. Fit(vs[i], 4)
      BY <3>2, Fields, SMTT(30)
    <3>4. At(b, (7 + n + m) + 4 * (i - 1), big_endian(vs[i], 4))
      BY <1>6, <1>9, AtWithin
    <3> QED BY <1>13, <3>2, <3>3, <3>4, AtNumber
  <2>2. f = [i \in 1..N |-> vs[i]]
    BY <1>14, <2>1
  <2>3. vs = [i \in 1..N |-> vs[i]]
    BY DEF N
  <2> QED BY <2>2, <2>3, ZenonT(30)
<1> DEFINE result == [kind |-> "version_negotiation", first |-> b[1], dcid |-> client, scid |-> server, versions |-> vs]
<1>16. decode_version_negotiation(b, 5) = result
  BY <1>11, <1>12, <1>13, <1>14, <1>15, ZenonT(30) DEF decode_version_negotiation, left
<1> HIDE DEF result
<1>17. b # <<>> /\ LongForm(b[1]) /\ ~(Len(b) < 5)
  <2>1. ~(Len(b) < 5)
    BY <1>2, <1>9
  <2>2. LongForm(b[1])
    BY <1>10 DEF LongForm
  <2>3. b # <<>>
    <3>1. Len(<<>>) = 0
      OBVIOUS
    <3> QED BY <2>1, <3>1
  <2> QED BY <2>1, <2>2, <2>3, SMTT(30)
<1>18. decode_packet_header(b) = decode_version_negotiation(b, 5)
  BY <1>10, <1>17 DEF decode_packet_header
<1>19. decode_packet_header(b) = result
  BY <1>16, <1>18
<1>20. b = NegotiationPacket(client, server, vs)
  BY DEF b, h, c, d, v, NegotiationPacket
<1>21. /\ result.kind = "version_negotiation" /\ result.dcid = client /\ result.scid = server
       /\ result.versions = vs
  BY DEF result
<1> QED BY <1>19, <1>20, <1>21

\* A Version Negotiation packet that was sent is the one that build_version_negotiation() makes
\* of the connection IDs and versions.
NegotiationInvariant ==
    /\ config \in Configs
    /\ negotiated.ok =>
         /\ negotiated.client \in Cids /\ negotiated.server \in Cids /\ config.versions # <<>>
         /\ negotiated.payload = NegotiationPacket(negotiated.client, negotiated.server, config.versions)

\* No Version Negotiation packet was sent at first.
LEMMA NegotiationInvariantInitially == Init => NegotiationInvariant
BY DEF Init, NegotiationInvariant, Failed

\* Every step keeps the packet that was sent.
LEMMA NegotiationInvariantKept == NegotiationInvariant /\ [Next]_vars => NegotiationInvariant'
<1> SUFFICES ASSUME NegotiationInvariant, [Next]_vars PROVE NegotiationInvariant'
  OBVIOUS
<1>1. ASSUME UNCHANGED <<config, negotiated>> PROVE NegotiationInvariant'
  BY <1>1, SMTT(30) DEF NegotiationInvariant
<1>2. ASSUME NEW version, NEW client \in Cids, NEW server \in Cids, Negotiate(version, client, server)
      PROVE  NegotiationInvariant'
  <2> DEFINE r == build_version_negotiation(client, server, config.versions)
             w == NegotiationPacket(client, server, config.versions)
  <2>1. /\ r.ok /\ config' = config
        /\ negotiated' = [ok |-> TRUE, client |-> client, server |-> server, payload |-> r.payload]
    BY <1>2, SMTT(30) DEF Negotiate
  <2>2. r # Failed
    BY <2>1 DEF Failed
  <2>3. config.versions # <<>> /\ r = [ok |-> TRUE, payload |-> w]
    BY <2>2, ZenonT(30) DEF build_version_negotiation, NegotiationPacket
  <2>4. negotiated'.client = client /\ negotiated'.server = server /\ negotiated'.payload = w
    <3>1. r.payload = w
      BY <2>3, SMTT(30)
    <3> HIDE DEF w, r
    <3> QED BY <2>1, <3>1, SMTT(30)
  <2>5. config' \in Configs /\ config'.versions # <<>>
    BY <2>1, <2>3 DEF NegotiationInvariant
  <2> QED BY <2>1, <2>4, <2>5, SMTT(30) DEF NegotiationInvariant
<1>3. CASE UNCHANGED vars
  BY <1>1, <1>3 DEF vars
<1>4. CASE Next
  BY <1>1, <1>2, <1>4, ZenonT(30)
     DEF Next, start, stop, register_connection, unregister_connection, SendRetry, ClockMoves
<1> QED BY <1>3, <1>4, SMTT(30)

\* The client's decoder reads it.
LEMMA NegotiationInvariantUnderstood == NegotiationInvariant => NegotiationUnderstood
<1> SUFFICES ASSUME NegotiationInvariant, negotiated.ok PROVE NegotiationUnderstood
  BY DEF NegotiationUnderstood
<1>1. /\ negotiated.client \in Cids /\ negotiated.server \in Cids
      /\ config.versions # <<>> /\ config \in Configs
      /\ negotiated.payload = NegotiationPacket(negotiated.client, negotiated.server, config.versions)
  BY DEF NegotiationInvariant
<1>2. config.versions \in Seq(Uint32)
  BY <1>1, EndpointAssumption, SMTT(30)
<1>3. LET r == decode_packet_header(NegotiationPacket(negotiated.client, negotiated.server, config.versions))
      IN  /\ r.kind = "version_negotiation" /\ r.dcid = negotiated.client
          /\ r.scid = negotiated.server /\ r.versions = config.versions
  BY <1>1, <1>2, NegotiationRead
<1> QED BY <1>1, <1>3, SMTT(30) DEF NegotiationUnderstood

\* The client's decoder reads from a Version Negotiation packet the versions the server supports
\* and both connection IDs in their places, for every list of versions and all IDs:
\* build_version_negotiation() and decode_version_negotiation().
THEOREM NegotiationIsUnderstood == Spec => []NegotiationUnderstood
BY NegotiationInvariantInitially, NegotiationInvariantKept, NegotiationInvariantUnderstood, PTL DEF Spec
====
