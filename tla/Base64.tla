------------------------------- MODULE Base64 -------------------------------
(***************************************************************************)
(* TSBase64.c and the categories that call it: a payload is a sequence of  *)
(* bytes, an encoded one a sequence of one-character strings.  The lengths *)
(* the code computes to allocate are those of the sequences; the NUL at    *)
(* the end of an encoded string is left out.                               *)
(***************************************************************************)
EXTENDS Integers, Sequences, FiniteSetsExt

base64_encoding_map == <<
  "A", "B", "C", "D", "E", "F", "G", "H", "I", "J", "K", "L", "M", "N", "O", "P",
  "Q", "R", "S", "T", "U", "V", "W", "X", "Y", "Z", "a", "b", "c", "d", "e", "f",
  "g", "h", "i", "j", "k", "l", "m", "n", "o", "p", "q", "r", "s", "t", "u", "v",
  "w", "x", "y", "z", "0", "1", "2", "3", "4", "5", "6", "7", "8", "9", "+", "/">>

\* The character of a number below 64.
Char(m) == base64_encoding_map[m + 1]

\* base64_decoding_map: 255 for what is not in the alphabet.
Sextet(c) ==
  IF \E m \in 0..63 : Char(m) = c THEN CHOOSE m \in 0..63 : Char(m) = c ELSE 255

-----------------------------------------------------------------------------

\* The four characters of three bytes.
EncodeChunk(b1, b2, b3) ==
  LET bits == 65536 * b1 + 256 * b2 + b3 IN
  <<Char(bits \div 262144), Char((bits \div 4096) % 64),
    Char((bits \div 64) % 64), Char(bits % 64)>>

\* Mutant: the rest is left out.
EncodeRestNone(b) == <<>>

\* What the last one or two bytes become.
EncodeRest(b) ==
  CASE Len(b) = 0 -> <<>>
    [] Len(b) = 1 -> <<Char(b[1] \div 4), Char((b[1] % 4) * 16), "=", "=">>
    [] Len(b) = 2 -> <<Char(b[1] \div 4), Char((b[1] % 4) * 16 + b[2] \div 16),
                       Char((b[2] % 16) * 4), "=">>

base64_encode(from) ==
  LET aligned_len == 3 * (Len(from) \div 3)
      Chunk(i) == EncodeChunk(from[3 * i + 1], from[3 * i + 2], from[3 * i + 3])
  IN  [j \in 1..4 * (aligned_len \div 3) |-> Chunk((j - 1) \div 4)[1 + ((j - 1) % 4)]]
        \o EncodeRest(SubSeq(from, aligned_len + 1, Len(from)))

-----------------------------------------------------------------------------

\* A chunk in the middle is never rejected: its values are masked with 0x3f
\* before they are compared with 0xff.
DecodeChunk(c) ==
  LET d == [i \in 1..4 |-> Sextet(c[i]) % 64]
      bits == 262144 * d[1] + 4096 * d[2] + 64 * d[3] + d[4]
  IN  <<bits \div 65536, (bits \div 256) % 256, bits % 256>>

\* The characters before the padding: a rest that is rejected leaves the zeros
\* its bytes were allocated with.
DecodeRest(c) ==
  LET d == [i \in 1..Len(c) |-> Sextet(c[i])]
      invalid == 255 \in {d[i] : i \in 1..Len(c)}
  IN  CASE Len(c) = 0 -> <<>>
        [] Len(c) = 2 -> IF invalid \/ d[2] % 16 # 0 THEN <<0>>
                         ELSE <<4 * d[1] + d[2] \div 16>>
        [] Len(c) = 3 -> IF invalid \/ d[3] % 4 # 0 THEN <<0, 0>>
                         ELSE <<4 * d[1] + d[2] \div 16, 16 * (d[2] % 16) + d[3] \div 4>>

base64_decode(from) ==
  LET last == Max({1} \cup {i \in 1..Len(from) : from[i] # "="})
      padding == Len(from) - last
      rest == CASE padding = 2 -> 2 [] padding = 1 -> 3 [] OTHER -> 0
      aligned_len == last - rest
      Chunk(i) == DecodeChunk(SubSeq(from, 4 * i + 1, 4 * i + 4))
  IN  IF Len(from) < 2 \/ last = 1 \/ padding > 2 \/ aligned_len % 4 # 0 THEN <<>>
      ELSE [j \in 1..3 * (aligned_len \div 4) |-> Chunk((j - 1) \div 3)[1 + ((j - 1) % 3)]]
             \o DecodeRest(SubSeq(from, aligned_len + 1, last))

-----------------------------------------------------------------------------

\* Bit k of the bytes b, from the most significant bit of the first, zero after the last.
BitOf(b, k) == IF k \div 8 >= Len(b) THEN 0 ELSE (b[k \div 8 + 1] \div 2 ^ (7 - (k % 8))) % 2

\* The encoding by its definition: six bits to a character, "=" up to a multiple of four.
EncodedByBits(b) ==
  LET used == (8 * Len(b) + 5) \div 6
      Value(j) == 32 * BitOf(b, 6 * j) + 16 * BitOf(b, 6 * j + 1) + 8 * BitOf(b, 6 * j + 2)
                    + 4 * BitOf(b, 6 * j + 3) + 2 * BitOf(b, 6 * j + 4) + BitOf(b, 6 * j + 5)
  IN  [j \in 1..4 * ((Len(b) + 2) \div 3) |-> IF j <= used THEN Char(Value(j - 1)) ELSE "="]

=============================================================================
