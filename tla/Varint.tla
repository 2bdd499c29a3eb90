---- MODULE Varint ----
(***************************************************************************)
(* QUIC variable-length integers (quic/varint.hpp).  A byte string is a     *)
(* sequence of numbers below 256; a position is the number of bytes already *)
(* consumed, as the code's offsets are.                                     *)
(***************************************************************************)
EXTENDS Integers, Sequences

CONSTANT MaxVarint  \* 2^62 - 1 in the code

Byte == 0..255
Sub(b, at, n) == SubSeq(b, at + 1, at + n)
Zeros(n) == [i \in 1..n |-> 0]

\* The value's n low bytes, most significant first.
big_endian(v, n) ==
    LET shifted[k \in 0..7] == IF k = 0 THEN v ELSE shifted[k - 1] \div 256
    IN  [i \in 1..n |-> shifted[n - i] % 256]

Above24(v) == ((v \div 256) \div 256) \div 256  \* without its three low bytes

\* The value of a byte and the bytes that follow it.
from_big_endian(first, rest) ==
    LET value[i \in 0..Len(rest)] == IF i = 0 THEN first ELSE value[i - 1] * 256 + rest[i]
    IN  value[Len(rest)]

\* Number of bytes an encoding takes.
encoded_size(v) ==
    IF v <= 63 THEN 1 ELSE IF v <= 16383 THEN 2 ELSE IF v <= 1073741823 THEN 4 ELSE 8

Representable(v) == v <= MaxVarint

\* The two top bits of the first byte say how many bytes follow it.
encode_varint(v) ==
    LET n == IF v < 64 THEN 1 ELSE IF v < 16384 THEN 2 ELSE encoded_size(v)
        prefix == CASE n = 1 -> 0 [] n = 2 -> 64 [] n = 4 -> 128 [] n = 8 -> 192
    IN  [big_endian(v, n) EXCEPT ![1] = prefix + (@ % 64)]

VarintResult(value, at) == [ok |-> Representable(value), value |-> value, at |-> at]

\* Reads one integer at position at: the value and the position behind it.
decode_varint(b, at) ==
    LET n == CASE b[at + 1] \div 64 = 0 -> 1 [] b[at + 1] \div 64 = 1 -> 2
               [] b[at + 1] \div 64 = 2 -> 4 [] OTHER -> 8
    IN  IF at >= Len(b) \/ Len(b) - at < n THEN [ok |-> FALSE, value |-> 0, at |-> at]
        ELSE VarintResult(from_big_endian(b[at + 1] % 64, Sub(b, at + 1, n - 1)), at + n)
====
