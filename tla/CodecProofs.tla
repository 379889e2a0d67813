---------------------------- MODULE CodecProofs -----------------------------
(***************************************************************************)
(* What the codecs do, for every payload: TSBase64.c is the encoding of    *)
(* its definition and decoding undoes it, a packet arrives as it was       *)
(* copied, the parser of hiredis.c does not see where its bytes are cut,   *)
(* and its formatter makes of a format and of arguments the command that   *)
(* gives these arguments back.                                             *)
(*                                                                         *)
(* An induction is one over a set of natural numbers: the lemma Induct,    *)
(* with the set of those a formula is true of.                             *)
(***************************************************************************)
EXTENDS Packets, RedisReader, WellFoundedInduction, TLAPS

-----------------------------------------------------------------------------
(***************************************************************************)
(* Base64: a group of three bytes, and the rest.                           *)
(***************************************************************************)

Byte == 0..255

LEMMA Alphabet ==
  ASSUME NEW m \in 0..63
  PROVE  Char(m) # "=" /\ Char(m) # "\\" 
  BY SMTT(60) DEF Char, base64_encoding_map

LEMMA SextetOfChar ==
  ASSUME NEW m \in 0..63
  PROVE  Sextet(Char(m)) = m
  <1>1. \A n \in 0..63 : Char(n) = Char(m) => n = m
    BY SMTT(60) DEF Char, base64_encoding_map
  <1>2. QED
    BY <1>1 DEF Sextet

LEMMA Split ==
  ASSUME NEW b1 \in Byte, NEW b2 \in Byte, NEW b3 \in Byte, NEW bits, bits = 65536 * b1 + 256 * b2 + b3
  PROVE /\ bits \div 262144 = b1 \div 4
        /\ (bits \div 4096) % 64 = 16 * (b1 % 4) + b2 \div 16
        /\ (bits \div 64) % 64 = 4 * (b2 % 16) + b3 \div 64
        /\ bits % 64 = b3 % 64
  <1>1. bits \div 262144 = b1 \div 4
    BY SMT DEF Byte
  <1>2. (bits \div 4096) % 64 = 16 * (b1 % 4) + b2 \div 16
    <2>1. bits \div 4096 = 16 * b1 + b2 \div 16
      BY SMT DEF Byte
    <2>2. QED BY <2>1, SMT DEF Byte
  <1>3. (bits \div 64) % 64 = 4 * (b2 % 16) + b3 \div 64
    <2>1. bits \div 64 = 1024 * b1 + 4 * b2 + b3 \div 64
      BY SMT DEF Byte
    <2>2. QED BY <2>1, SMT DEF Byte
  <1>4. bits % 64 = b3 % 64
    BY SMT DEF Byte
  <1>5. QED BY <1>1, <1>2, <1>3, <1>4

Chars == {Char(m) : m \in 0..63} \cup {"="}

LEMMA DecodeForm ==
  ASSUME NEW C, NEW e \in Seq(C), NEW q \in Nat, NEW k \in {0, 2, 3}, 4 * q + k > 0,
         Len(e) = IF k = 0 THEN 4 * q ELSE 4 * q + 4,
         \A i \in 4 * q + k + 1 .. Len(e) : e[i] = "=",
         e[4 * q + k] # "="
  PROVE  base64_decode(e) =
           [j \in 1..3 * q |->
              DecodeChunk(SubSeq(e, 4 * ((j - 1) \div 3) + 1, 4 * ((j - 1) \div 3) + 4))
                [1 + ((j - 1) % 3)]]
           \o DecodeRest(SubSeq(e, 4 * q + 1, 4 * q + k))
  <1> DEFINE last == Max({1} \cup {i \in 1..Len(e) : e[i] # "="})
  <1>1. last = 4 * q + k
    <2>1. 4 * q + k \in {1} \cup {i \in 1..Len(e) : e[i] # "="}
      OBVIOUS
    <2>2. \A x \in {1} \cup {i \in 1..Len(e) : e[i] # "="} : x <= 4 * q + k
      OBVIOUS
    <2>3. \A x \in {1} \cup {i \in 1..Len(e) : e[i] # "="} : x \in Int
      OBVIOUS
    <2> DEFINE S == {1} \cup {i \in 1..Len(e) : e[i] # "="}
    <2> HIDE DEF S
    <2>4. \A m, n \in S : (\A x \in S : m >= x) /\ (\A x \in S : n >= x) => m = n
      BY <2>3 DEF S
    <2>5. Max(S) = 4 * q + k
      BY <2>1, <2>2, <2>3, <2>4 DEF Max, S
    <2>6. QED BY <2>5 DEF S
  <1> HIDE DEF last
  <1>2. Len(e) >= 2 /\ last # 1 /\ Len(e) - last = (IF k = 0 THEN 0 ELSE 4 - k)
    BY <1>1
  <1>3. (CASE Len(e) - last = 2 -> 2 [] Len(e) - last = 1 -> 3 [] OTHER -> 0) = k
    BY <1>2
  <1>4. last - k = 4 * q /\ (4 * q) % 4 = 0 /\ (4 * q) \div 4 = q
    BY <1>1
  <1> DEFINE K == CASE Len(e) - last = 2 -> 2 [] Len(e) - last = 1 -> 3 [] OTHER -> 0
             Out(A, L) == [j \in 1..3 * (A \div 4) |->
                 DecodeChunk(SubSeq(e, 4 * ((j - 1) \div 3) + 1, 4 * ((j - 1) \div 3) + 4))
                   [1 + ((j - 1) % 3)]]
               \o DecodeRest(SubSeq(e, A + 1, L))
  <1>5. base64_decode(e) =
          IF Len(e) < 2 \/ last = 1 \/ Len(e) - last > 2 \/ (last - K) % 4 # 0 THEN <<>>
          ELSE Out(last - K, last)
    BY Zenon DEF base64_decode, last
  <1> HIDE DEF Out, K
  <1>6. K = k
    BY <1>3 DEF K
  <1>7. base64_decode(e) = Out(last - K, last)
    BY <1>2, <1>4, <1>5, <1>6
  <1>8. base64_decode(e) = Out(4 * q, 4 * q + k)
    BY <1>1, <1>4, <1>6, <1>7
  <1>9. Out(4 * q, 4 * q + k) = [j \in 1..3 * q |->
              DecodeChunk(SubSeq(e, 4 * ((j - 1) \div 3) + 1, 4 * ((j - 1) \div 3) + 4))
                [1 + ((j - 1) % 3)]]
           \o DecodeRest(SubSeq(e, 4 * q + 1, 4 * q + k))
    BY <1>4 DEF Out
  <1>10. QED
    BY <1>8, <1>9

LEMMA SextetsOfChunk ==
  ASSUME NEW b1 \in Byte, NEW b2 \in Byte, NEW b3 \in Byte
  PROVE  /\ EncodeChunk(b1, b2, b3) =
              <<Char(b1 \div 4), Char(16 * (b1 % 4) + b2 \div 16),
                Char(4 * (b2 % 16) + b3 \div 64), Char(b3 % 64)>>
         /\ b1 \div 4 \in 0..63 /\ 16 * (b1 % 4) + b2 \div 16 \in 0..63
         /\ 4 * (b2 % 16) + b3 \div 64 \in 0..63 /\ b3 % 64 \in 0..63
  <1> DEFINE bits == 65536 * b1 + 256 * b2 + b3
  <1>1. /\ bits \div 262144 = b1 \div 4
        /\ (bits \div 4096) % 64 = 16 * (b1 % 4) + b2 \div 16
        /\ (bits \div 64) % 64 = 4 * (b2 % 16) + b3 \div 64
        /\ bits % 64 = b3 % 64
    BY Split
  <1>2. EncodeChunk(b1, b2, b3) = <<Char(bits \div 262144), Char((bits \div 4096) % 64),
                                    Char((bits \div 64) % 64), Char(bits % 64)>>
    BY DEF EncodeChunk
  <1> HIDE DEF bits
  <1>3. EncodeChunk(b1, b2, b3) =
              <<Char(b1 \div 4), Char(16 * (b1 % 4) + b2 \div 16),
                Char(4 * (b2 % 16) + b3 \div 64), Char(b3 % 64)>>
    BY <1>1, <1>2
  <1>4. b1 \div 4 \in 0..63 /\ 16 * (b1 % 4) + b2 \div 16 \in 0..63
    BY SMT DEF Byte
  <1>5. 4 * (b2 % 16) + b3 \div 64 \in 0..63 /\ b3 % 64 \in 0..63
    BY SMT DEF Byte
  <1>6. QED BY <1>3, <1>4, <1>5

LEMMA Linear ==
  ASSUME NEW x1 \in Int, NEW y1 \in Int, NEW x2 \in Int, NEW y2 \in Int, NEW x3 \in Int, NEW y3 \in Int
  PROVE  262144 * x1 + 4096 * (16 * y1 + x2) + 64 * (4 * y2 + x3) + y3
           = 65536 * (4 * x1 + y1) + 256 * (16 * x2 + y2) + (64 * x3 + y3)
  BY SMT

LEMMA Joined ==
  ASSUME NEW b1 \in Byte, NEW b2 \in Byte, NEW b3 \in Byte,
         NEW m1, NEW m2, NEW m3, NEW m4,
         m1 = b1 \div 4, m2 = 16 * (b1 % 4) + b2 \div 16,
         m3 = 4 * (b2 % 16) + b3 \div 64, m4 = b3 % 64,
         NEW bits, bits = 262144 * m1 + 4096 * m2 + 64 * m3 + m4
  PROVE  bits \div 65536 = b1 /\ (bits \div 256) % 256 = b2 /\ bits % 256 = b3
  <1>1. bits = 65536 * b1 + 256 * b2 + b3
    <2>1. PICK x1 \in Int, y1 \in Int : b1 = 4 * x1 + y1 /\ x1 = b1 \div 4 /\ y1 = b1 % 4
      BY SMT DEF Byte
    <2>2. PICK x2 \in Int, y2 \in Int : b2 = 16 * x2 + y2 /\ x2 = b2 \div 16 /\ y2 = b2 % 16
      BY SMT DEF Byte
    <2>3. PICK x3 \in Int, y3 \in Int : b3 = 64 * x3 + y3 /\ x3 = b3 \div 64 /\ y3 = b3 % 64
      BY SMT DEF Byte
    <2>4. m1 = x1 /\ m2 = 16 * y1 + x2 /\ m3 = 4 * y2 + x3 /\ m4 = y3
      BY <2>1, <2>2, <2>3, SMT
    <2>5. bits = 262144 * x1 + 4096 * (16 * y1 + x2) + 64 * (4 * y2 + x3) + y3
      BY <2>4, SMT
    <2>6. QED
      BY <2>1, <2>2, <2>3, <2>5, Linear, SMT
  <1>2. bits \div 65536 = b1 /\ bits \div 256 = 256 * b1 + b2 /\ bits % 256 = b3
    BY <1>1, SMT DEF Byte
  <1>3. QED
    BY <1>2, SMT DEF Byte

LEMMA ChunkComesBack ==
  ASSUME NEW b1 \in Byte, NEW b2 \in Byte, NEW b3 \in Byte
  PROVE  DecodeChunk(EncodeChunk(b1, b2, b3)) = <<b1, b2, b3>>
  <1> DEFINE m1 == b1 \div 4
             m2 == 16 * (b1 % 4) + b2 \div 16
             m3 == 4 * (b2 % 16) + b3 \div 64
             m4 == b3 % 64
             c == <<Char(m1), Char(m2), Char(m3), Char(m4)>>
             d == [i \in 1..4 |-> Sextet(c[i]) % 64]
             bits == 262144 * d[1] + 4096 * d[2] + 64 * d[3] + d[4]
  <1>1. m1 \in 0..63 /\ m2 \in 0..63 /\ m3 \in 0..63 /\ m4 \in 0..63
    BY SextetsOfChunk
  <1>2. EncodeChunk(b1, b2, b3) = c
    BY SextetsOfChunk
  <1> HIDE DEF m1, m2, m3, m4
  <1>3. d[1] = m1 /\ d[2] = m2 /\ d[3] = m3 /\ d[4] = m4
    BY <1>1, SextetOfChar
  <1>4. DecodeChunk(c) = <<bits \div 65536, (bits \div 256) % 256, bits % 256>>
    BY DEF DecodeChunk
  <1> HIDE DEF d, c
  <1>5. bits \div 65536 = b1 /\ (bits \div 256) % 256 = b2 /\ bits % 256 = b3
    <2>1. bits = 262144 * m1 + 4096 * m2 + 64 * m3 + m4
      BY <1>3, SMT
    <2> HIDE DEF bits
    <2>2. QED
      BY <2>1, Joined, SMT DEF m1, m2, m3, m4
  <1>6. QED
    BY <1>2, <1>4, <1>5

LEMMA RestComesBack ==
  ASSUME NEW b1 \in Byte, NEW b2 \in Byte
  PROVE  /\ DecodeRest(<<Char(b1 \div 4), Char((b1 % 4) * 16)>>) = <<b1>>
         /\ DecodeRest(<<Char(b1 \div 4), Char((b1 % 4) * 16 + b2 \div 16), Char((b2 % 16) * 4)>>)
              = <<b1, b2>>
  <1> DEFINE m1 == b1 \div 4
             n2 == (b1 % 4) * 16
             m2 == (b1 % 4) * 16 + b2 \div 16
             m3 == (b2 % 16) * 4
  <1>1. m1 \in 0..63 /\ n2 \in 0..63 /\ m2 \in 0..63 /\ m3 \in 0..63
    BY SMT DEF Byte
  <1>2. /\ n2 % 16 = 0 /\ 4 * m1 + n2 \div 16 = b1
        /\ m3 % 4 = 0 /\ 4 * m1 + m2 \div 16 = b1 
    BY SMT DEF Byte
  <1>3. 16 * (m2 % 16) + m3 \div 4 = b2
    BY SMT DEF Byte
  <1> HIDE DEF m1, n2, m2, m3
  <1>4. /\ Sextet(Char(m1)) = m1 /\ Sextet(Char(n2)) = n2
        /\ Sextet(Char(m2)) = m2 /\ Sextet(Char(m3)) = m3
    BY <1>1, SextetOfChar
  <1>5. DecodeRest(<<Char(m1), Char(n2)>>) = <<b1>>
    <2> DEFINE c == <<Char(m1), Char(n2)>>
               d == [i \in 1..Len(c) |-> Sextet(c[i])]
    <2>1. Len(c) = 2 /\ d[1] = m1 /\ d[2] = n2
      BY <1>4
    <2>2. 255 \notin {d[i] : i \in 1..Len(c)}
      BY <2>1, <1>1
    <2> HIDE DEF d
    <2>3. DecodeRest(c) = <<4 * d[1] + d[2] \div 16>>
      BY <1>2, <2>1, <2>2 DEF DecodeRest, d
    <2>4. QED
      BY <1>2, <2>1, <2>3
  <1>6. DecodeRest(<<Char(m1), Char(m2), Char(m3)>>) = <<b1, b2>>
    <2> DEFINE c == <<Char(m1), Char(m2), Char(m3)>>
               d == [i \in 1..Len(c) |-> Sextet(c[i])]
    <2>1. Len(c) = 3 /\ d[1] = m1 /\ d[2] = m2 /\ d[3] = m3
      BY <1>4
    <2>2. 255 \notin {d[i] : i \in 1..Len(c)}
      BY <2>1, <1>1
    <2> HIDE DEF d
    <2>3. DecodeRest(c) = <<4 * d[1] + d[2] \div 16, 16 * (d[2] % 16) + d[3] \div 4>>
      BY <1>2, <2>1, <2>2 DEF DecodeRest, d
    <2>4. QED
      BY <1>2, <1>3, <2>1, <2>3
  <1>7. QED
    BY <1>5, <1>6 DEF m1, n2, m2, m3

Threes(b, i) == EncodeChunk(b[3 * i + 1], b[3 * i + 2], b[3 * i + 3])

LEMMA EncodeForm ==
  ASSUME NEW b \in Seq(Byte), NEW q \in Nat, NEW k \in 0..2, Len(b) = 3 * q + k
  PROVE  base64_encode(b) = [j \in 1..4 * q |-> Threes(b, (j - 1) \div 4)[1 + ((j - 1) % 4)]]
                              \o EncodeRest(SubSeq(b, 3 * q + 1, Len(b)))
  <1> DEFINE A == 3 * (Len(b) \div 3)
             Out(x) == [j \in 1..4 * (x \div 3) |-> Threes(b, (j - 1) \div 4)[1 + ((j - 1) % 4)]]
                         \o EncodeRest(SubSeq(b, x + 1, Len(b)))
  <1>1. base64_encode(b) = Out(A)
    BY Zenon DEF base64_encode, Threes
  <1>2. A = 3 * q /\ (3 * q) \div 3 = q
    OBVIOUS
  <1> HIDE DEF A
  <1>3. Out(3 * q) = [j \in 1..4 * q |-> Threes(b, (j - 1) \div 4)[1 + ((j - 1) % 4)]]
                              \o EncodeRest(SubSeq(b, 3 * q + 1, Len(b)))
    BY <1>2
  <1> HIDE DEF Out
  <1>4. QED
    BY <1>1, <1>2, <1>3

LEMMA ThreesAreChars ==
  ASSUME NEW b \in Seq(Byte), NEW i \in Nat, 3 * i + 3 <= Len(b)
  PROVE  \E m \in [1..4 -> 0..63] : Threes(b, i) = <<Char(m[1]), Char(m[2]), Char(m[3]), Char(m[4])>>
  <1>1. b[3 * i + 1] \in Byte /\ b[3 * i + 2] \in Byte /\ b[3 * i + 3] \in Byte
    OBVIOUS
  <1> DEFINE b1 == b[3 * i + 1]  b2 == b[3 * i + 2]  b3 == b[3 * i + 3]
             m == [j \in 1..4 |-> CASE j = 1 -> b1 \div 4 [] j = 2 -> 16 * (b1 % 4) + b2 \div 16
                                    [] j = 3 -> 4 * (b2 % 16) + b3 \div 64 [] j = 4 -> b3 % 64]
  <1>2. /\ EncodeChunk(b1, b2, b3) = <<Char(b1 \div 4), Char(16 * (b1 % 4) + b2 \div 16),
                Char(4 * (b2 % 16) + b3 \div 64), Char(b3 % 64)>>
        /\ b1 \div 4 \in 0..63 /\ 16 * (b1 % 4) + b2 \div 16 \in 0..63
        /\ 4 * (b2 % 16) + b3 \div 64 \in 0..63 /\ b3 % 64 \in 0..63
    BY <1>1, SextetsOfChunk
  <1>3. m \in [1..4 -> 0..63]
    BY <1>2
  <1>4. Threes(b, i) = <<Char(m[1]), Char(m[2]), Char(m[3]), Char(m[4])>>
    BY <1>2 DEF Threes
  <1>5. QED
    BY <1>3, <1>4

LEMMA FourElements ==
  ASSUME NEW S, NEW a \in S, NEW b \in S, NEW c \in S, NEW d \in S
  PROVE  <<a, b, c, d>> \in Seq(S)
  OBVIOUS

LEMMA LastOnes ==
  ASSUME NEW S, NEW s \in Seq(S), NEW n \in Nat
  PROVE  /\ Len(s) = n + 1 => SubSeq(s, n + 1, Len(s)) = <<s[n + 1]>>
         /\ Len(s) = n + 2 => SubSeq(s, n + 1, Len(s)) = <<s[n + 1], s[n + 2]>>
  <1> DEFINE t == SubSeq(s, n + 1, Len(s))
  <1>1. CASE Len(s) = n + 1
    <2>1. t \in Seq(S) /\ Len(t) = 1 /\ t[1] = s[n + 1]
      BY <1>1
    <2> HIDE DEF t
    <2>2. t = <<s[n + 1]>>
      BY <2>1
    <2>3. QED
      BY <1>1, <2>2 DEF t
  <1>2. CASE Len(s) = n + 2
    <2>1. t \in Seq(S) /\ Len(t) = 2 /\ t[1] = s[n + 1] /\ t[2] = s[n + 2]
      BY <1>2
    <2> HIDE DEF t
    <2>2. t = <<s[n + 1], s[n + 2]>>
      BY <2>1
    <2>3. QED
      BY <1>2, <2>2 DEF t
  <1>3. QED
    BY <1>1, <1>2

LEMMA EncodedRest ==
  ASSUME NEW b1 \in Byte, NEW b2 \in Byte
  PROVE  /\ EncodeRest(<<b1>>) = <<Char(b1 \div 4), Char((b1 % 4) * 16), "=", "=">>
         /\ EncodeRest(<<b1>>) \in Seq(Chars)
         /\ EncodeRest(<<b1, b2>>) = <<Char(b1 \div 4), Char((b1 % 4) * 16 + b2 \div 16),
                                      Char((b2 % 16) * 4), "=">>
         /\ EncodeRest(<<b1, b2>>) \in Seq(Chars)
  <1>1. /\ b1 \div 4 \in 0..63 /\ (b1 % 4) * 16 \in 0..63
        /\ (b1 % 4) * 16 + b2 \div 16 \in 0..63
        /\ (b2 % 16) * 4 \in 0..63
    BY SMT DEF Byte
  <1>2. EncodeRest(<<b1>>) = <<Char(b1 \div 4), Char((b1 % 4) * 16), "=", "=">>
    BY DEF EncodeRest
  <1>3. EncodeRest(<<b1, b2>>) = <<Char(b1 \div 4), Char((b1 % 4) * 16 + b2 \div 16),
                                   Char((b2 % 16) * 4), "=">>
    BY DEF EncodeRest
  <1>4. /\ Char(b1 \div 4) \in Chars /\ Char((b1 % 4) * 16) \in Chars
        /\ Char((b1 % 4) * 16 + b2 \div 16) \in Chars /\ Char((b2 % 16) * 4) \in Chars
        /\ "=" \in Chars
    BY <1>1, Zenon DEF Chars
  <1> DEFINE c1 == Char(b1 \div 4)
             c2 == Char((b1 % 4) * 16)
             c3 == Char((b1 % 4) * 16 + b2 \div 16)
             c4 == Char((b2 % 16) * 4)
             e == "="
  <1>5. c1 \in Chars /\ c2 \in Chars /\ c3 \in Chars /\ c4 \in Chars /\ e \in Chars
    BY <1>4
  <1>6. EncodeRest(<<b1>>) = <<c1, c2, e, e>> /\ EncodeRest(<<b1, b2>>) = <<c1, c3, c4, e>>
    BY <1>2, <1>3, Zenon
  <1> HIDE DEF c1, c2, c3, c4, e
  <1>7. <<c1, c2, e, e>> \in Seq(Chars) /\ <<c1, c3, c4, e>> \in Seq(Chars)
    BY <1>5, FourElements, Zenon
  <1>8. EncodeRest(<<b1>>) \in Seq(Chars) /\ EncodeRest(<<b1, b2>>) \in Seq(Chars)
    BY <1>6, <1>7, Zenon
  <1>9. QED
    BY <1>2, <1>3, <1>8, Zenon

\* An encoded payload, character by character.
LEMMA Encoded ==
  ASSUME NEW b \in Seq(Byte), NEW q \in Nat, NEW k \in 0..2, Len(b) = 3 * q + k
  PROVE  /\ base64_encode(b) \in Seq(Chars)
         /\ Len(base64_encode(b)) = IF k = 0 THEN 4 * q ELSE 4 * q + 4
         /\ \A i \in 0..q - 1 : \A t \in 1..4 : base64_encode(b)[4 * i + t] = Threes(b, i)[t]
         /\ k = 1 => /\ base64_encode(b)[4 * q + 1] = Char(b[3 * q + 1] \div 4)
                     /\ base64_encode(b)[4 * q + 2] = Char((b[3 * q + 1] % 4) * 16)
                     /\ base64_encode(b)[4 * q + 3] = "=" /\ base64_encode(b)[4 * q + 4] = "="
         /\ k = 2 => /\ base64_encode(b)[4 * q + 1] = Char(b[3 * q + 1] \div 4)
                     /\ base64_encode(b)[4 * q + 2] = Char((b[3 * q + 1] % 4) * 16 + b[3 * q + 2] \div 16)
                     /\ base64_encode(b)[4 * q + 3] = Char((b[3 * q + 2] % 16) * 4)
                     /\ base64_encode(b)[4 * q + 4] = "="
  <1> DEFINE body == [j \in 1..4 * q |-> Threes(b, (j - 1) \div 4)[1 + ((j - 1) % 4)]]
             tail == SubSeq(b, 3 * q + 1, Len(b))
             rest == EncodeRest(tail)
  <1>1. base64_encode(b) = body \o rest
    BY EncodeForm
  <1>2. body \in Seq(Chars) /\ Len(body) = 4 * q
    <2>1. \A j \in 1..4 * q : body[j] \in Chars
      <3> SUFFICES ASSUME NEW j \in 1..4 * q PROVE body[j] \in Chars
        OBVIOUS
      <3>1. (j - 1) \div 4 \in Nat /\ 3 * ((j - 1) \div 4) + 3 <= Len(b) /\ 1 + ((j - 1) % 4) \in 1..4
        OBVIOUS
      <3>2. PICK m \in [1..4 -> 0..63] : Threes(b, (j - 1) \div 4) =
                                          <<Char(m[1]), Char(m[2]), Char(m[3]), Char(m[4])>>
        BY <3>1, ThreesAreChars
      <3>3. \A t \in 1..4 : Char(m[t]) \in Chars
        BY Zenon DEF Chars
      <3>4. QED
        BY <3>1, <3>2, <3>3
    <2>2. QED
      BY <2>1
  <1>3. ASSUME NEW i \in 0..q - 1, NEW t \in 1..4
        PROVE  body[4 * i + t] = Threes(b, i)[t] /\ 4 * i + t \in 1..4 * q
    <2>1. 4 * i + t \in 1..4 * q /\ (4 * i + t - 1) \div 4 = i /\ 1 + ((4 * i + t - 1) % 4) = t
      OBVIOUS
    <2>2. QED
      BY <2>1
  <1>4. CASE k = 0
    <2>1. tail = <<>> /\ rest = <<>>
      BY <1>4 DEF EncodeRest
    <2>2. base64_encode(b) = body
      BY <1>1, <1>2, <2>1
    <2> HIDE DEF body, rest, tail
    <2>3. QED
      BY <1>2, <1>3, <1>4, <2>2
  <1>5. CASE k = 1
    <2> DEFINE b1 == b[3 * q + 1]
    <2>1. b1 \in Byte
      BY <1>5
    <2>2. tail = <<b1>>
      BY <1>5, LastOnes
    <2> HIDE DEF b1, tail
    <2>3. /\ rest = <<Char(b1 \div 4), Char((b1 % 4) * 16), "=", "=">>
          /\ rest \in Seq(Chars)
      BY <2>1, <2>2, EncodedRest
    <2> HIDE DEF body, rest
    <2>4. /\ base64_encode(b)[4 * q + 1] = Char(b1 \div 4)
          /\ base64_encode(b)[4 * q + 2] = Char((b1 % 4) * 16)
          /\ base64_encode(b)[4 * q + 3] = "=" /\ base64_encode(b)[4 * q + 4] = "="
          /\ base64_encode(b) \in Seq(Chars) /\ Len(base64_encode(b)) = 4 * q + 4
      BY <1>1, <1>2, <2>3, SMTT(60)
    <2>5. ASSUME NEW i \in 0..q - 1, NEW t \in 1..4
          PROVE  base64_encode(b)[4 * i + t] = Threes(b, i)[t]
      <3>1. body[4 * i + t] = Threes(b, i)[t] /\ 4 * i + t \in 1..4 * q
        BY <1>3
      <3>2. QED
        BY <3>1, <1>1, <1>2, <2>3
    <2>6. QED
      BY <2>4, <2>5, <1>5 DEF b1
  <1>6. CASE k = 2
    <2> DEFINE b1 == b[3 * q + 1]
               b2 == b[3 * q + 2]
    <2>1. b1 \in Byte /\ b2 \in Byte
      BY <1>6
    <2>2. tail = <<b1, b2>>
      BY <1>6, LastOnes
    <2> HIDE DEF b1, b2, tail
    <2>3. /\ rest = <<Char(b1 \div 4), Char((b1 % 4) * 16 + b2 \div 16), Char((b2 % 16) * 4), "=">>
          /\ rest \in Seq(Chars)
      BY <2>1, <2>2, EncodedRest
    <2> HIDE DEF body, rest
    <2>4. /\ base64_encode(b)[4 * q + 1] = Char(b1 \div 4)
          /\ base64_encode(b)[4 * q + 2] = Char((b1 % 4) * 16 + b2 \div 16)
          /\ base64_encode(b)[4 * q + 3] = Char((b2 % 16) * 4)
          /\ base64_encode(b)[4 * q + 4] = "="
          /\ base64_encode(b) \in Seq(Chars) /\ Len(base64_encode(b)) = 4 * q + 4
      BY <1>1, <1>2, <2>3
    <2>5. ASSUME NEW i \in 0..q - 1, NEW t \in 1..4
          PROVE  base64_encode(b)[4 * i + t] = Threes(b, i)[t]
      <3>1. body[4 * i + t] = Threes(b, i)[t] /\ 4 * i + t \in 1..4 * q
        BY <1>3
      <3>2. QED
        BY <3>1, <1>1, <1>2, <2>3
    <2>6. QED
      BY <2>4, <2>5, <1>6 DEF b1, b2
  <1>7. QED
    BY <1>4, <1>5, <1>6

LEMMA SubSeqOfTwo ==
  ASSUME NEW S, NEW s \in Seq(S), NEW n \in Nat
  PROVE  /\ n + 2 <= Len(s) => SubSeq(s, n + 1, n + 2) = <<s[n + 1], s[n + 2]>>
         /\ n + 3 <= Len(s) => SubSeq(s, n + 1, n + 3) = <<s[n + 1], s[n + 2], s[n + 3]>>
         /\ n + 4 <= Len(s) => SubSeq(s, n + 1, n + 4) = <<s[n + 1], s[n + 2], s[n + 3], s[n + 4]>>
  <1>1. ASSUME n + 2 <= Len(s)
        PROVE  SubSeq(s, n + 1, n + 2) = <<s[n + 1], s[n + 2]>>
    <2> DEFINE t == SubSeq(s, n + 1, n + 2)
    <2>1. t \in Seq(S) /\ Len(t) = 2 /\ t[1] = s[n + 1] /\ t[2] = s[n + 2]
      BY <1>1
    <2> HIDE DEF t
    <2>2. t = <<s[n + 1], s[n + 2]>>
      BY <2>1
    <2>3. QED
      BY <2>2 DEF t
  <1>2. ASSUME n + 3 <= Len(s)
        PROVE  SubSeq(s, n + 1, n + 3) = <<s[n + 1], s[n + 2], s[n + 3]>>
    <2> DEFINE t == SubSeq(s, n + 1, n + 3)
    <2>0. t \in Seq(S) /\ Len(t) = 3
      BY <1>2
    <2>1. t[1] = s[n + 1] /\ t[2] = s[n + 2] /\ t[3] = s[n + 3]
      BY <1>2
    <2> HIDE DEF t
    <2>2. t = <<s[n + 1], s[n + 2], s[n + 3]>>
      BY <2>0, <2>1
    <2>3. QED
      BY <2>2 DEF t
  <1>3. ASSUME n + 4 <= Len(s)
        PROVE  SubSeq(s, n + 1, n + 4) = <<s[n + 1], s[n + 2], s[n + 3], s[n + 4]>>
    <2> DEFINE t == SubSeq(s, n + 1, n + 4)
    <2>0. t \in Seq(S) /\ Len(t) = 4
      BY <1>3
    <2>1. t[1] = s[n + 1] /\ t[2] = s[n + 2] /\ t[3] = s[n + 3] /\ t[4] = s[n + 4]
      BY <1>3
    <2> HIDE DEF t
    <2>2. t = <<s[n + 1], s[n + 2], s[n + 3], s[n + 4]>>
      BY <2>0, <2>1
    <2>3. QED
      BY <2>2 DEF t
  <1>4. QED
    BY <1>1, <1>2, <1>3

\* The whole groups come back.
LEMMA GroupsComeBack ==
  ASSUME NEW b \in Seq(Byte), NEW q \in Nat, NEW k \in 0..2, Len(b) = 3 * q + k,
         NEW j \in 1..3 * q
  PROVE  DecodeChunk(SubSeq(base64_encode(b), 4 * ((j - 1) \div 3) + 1, 4 * ((j - 1) \div 3) + 4))
           [1 + ((j - 1) % 3)] = b[j]
  <1> DEFINE i == (j - 1) \div 3
             e == base64_encode(b)
             b1 == b[3 * i + 1]
             b2 == b[3 * i + 2]
             b3 == b[3 * i + 3]
  <1>1. i \in 0..q - 1 /\ i \in Nat /\ 4 * i + 4 <= 4 * q /\ 3 * i + 3 <= Len(b)
    OBVIOUS
  <1>2. e \in Seq(Chars) /\ Len(e) >= 4 * q
    BY Encoded
  <1>3. b1 \in Byte /\ b2 \in Byte /\ b3 \in Byte
    BY <1>1
  <1>4. /\ e[4 * i + 1] = Threes(b, i)[1] /\ e[4 * i + 2] = Threes(b, i)[2]
        /\ e[4 * i + 3] = Threes(b, i)[3] /\ e[4 * i + 4] = Threes(b, i)[4]
    BY <1>1, Encoded
  <1>5. j = 3 * i + 1 + ((j - 1) % 3) /\ (j - 1) % 3 \in 0..2
    BY SMT
  <1>6. Threes(b, i) = EncodeChunk(b1, b2, b3)
    BY DEF Threes
  <1>7. PICK m \in [1..4 -> 0..63] : Threes(b, i) = <<Char(m[1]), Char(m[2]), Char(m[3]), Char(m[4])>>
    BY <1>1, ThreesAreChars
  <1> HIDE DEF i, e
  <1>8. SubSeq(e, 4 * i + 1, 4 * i + 4) = <<e[4 * i + 1], e[4 * i + 2], e[4 * i + 3], e[4 * i + 4]>>
    BY <1>1, <1>2, SubSeqOfTwo
  <1>9. SubSeq(e, 4 * i + 1, 4 * i + 4) = EncodeChunk(b1, b2, b3)
    BY <1>4, <1>6, <1>7, <1>8
  <1> HIDE DEF b1, b2, b3
  <1>10. DecodeChunk(SubSeq(e, 4 * i + 1, 4 * i + 4)) = <<b1, b2, b3>>
    BY <1>3, <1>9, ChunkComesBack
  <1>11. <<b1, b2, b3>>[1 + ((j - 1) % 3)] = b[j]
    <2>1. CASE (j - 1) % 3 = 0
      BY <1>5, <2>1, j = 3 * i + 1 DEF b1, i
    <2>2. CASE (j - 1) % 3 = 1
      BY <1>5, <2>2, j = 3 * i + 2 DEF b2, i
    <2>3. CASE (j - 1) % 3 = 2
      BY <1>5, <2>3, j = 3 * i + 3 DEF b3, i
    <2>4. QED
      BY <1>5, <2>1, <2>2, <2>3
  <1>12. QED
    BY <1>10, <1>11 DEF i, e

\* Three of a number, and the rest.
LEMMA Thirds ==
  ASSUME NEW n \in Nat
  PROVE  n = 3 * (n \div 3) + (n % 3) /\ n \div 3 \in Nat /\ n % 3 \in 0..2
  <1>1. n \div 3 \in Nat /\ n % 3 \in 0..2
    BY SMT
  <1>2. n = 3 * (n \div 3) + (n % 3)
    BY SMT
  <1>3. QED
    BY <1>1, <1>2

(***************************************************************************)
(* What base64_decode makes of what base64_encode (TSBase64.c) has made of *)
(* bytes is these bytes, for every length: every rest of a group of three, *)
(* and every byte.                                                         *)
(***************************************************************************)
THEOREM DecodeUndoesEncode ==
  \A b \in Seq(Byte) : base64_decode(base64_encode(b)) = b
  <1> SUFFICES ASSUME NEW b \in Seq(Byte) PROVE base64_decode(base64_encode(b)) = b
    OBVIOUS
  <1> DEFINE e == base64_encode(b)
  <1>1. PICK q \in Nat, k \in 0..2 : Len(b) = 3 * q + k
    BY Thirds, Len(b) \in Nat
  <1>2. e \in Seq(Chars) /\ Len(e) = IF k = 0 THEN 4 * q ELSE 4 * q + 4
    BY <1>1, Encoded
  <1> DEFINE groups == [j \in 1..3 * q |->
              DecodeChunk(SubSeq(e, 4 * ((j - 1) \div 3) + 1, 4 * ((j - 1) \div 3) + 4))
                [1 + ((j - 1) % 3)]]
  <1>3. groups = SubSeq(b, 1, 3 * q)
    <2>1. \A j \in 1..3 * q : groups[j] = b[j]
      BY <1>1, GroupsComeBack
    <2>2. groups = [j \in 1..3 * q |-> b[j]]
      BY <2>1
    <2>3. SubSeq(b, 1, 3 * q) = [j \in 1..3 * q |-> b[j]]
      BY <1>1
    <2>4. QED
      BY <2>2, <2>3
  <1>4. CASE k = 0 /\ q = 0
    <2>1. Len(e) = 0 /\ b = <<>>
      BY <1>1, <1>2, <1>4
    <2>2. base64_decode(e) = <<>>
      BY <2>1 DEF base64_decode
    <2>3. QED
      BY <2>1, <2>2
  <1>5. CASE k = 0 /\ q > 0
    <2>1. e[4 * (q - 1) + 4] = Threes(b, q - 1)[4]
      BY <1>1, <1>5, Encoded
    <2>0. q - 1 \in Nat /\ 3 * (q - 1) + 3 <= Len(b) /\ 4 * (q - 1) + 4 = 4 * q
      BY <1>1, <1>5
    <2>2. PICK m \in [1..4 -> 0..63] : Threes(b, q - 1) = <<Char(m[1]), Char(m[2]), Char(m[3]), Char(m[4])>>
      BY <2>0, ThreesAreChars
    <2>3. e[4 * q] # "="
      <3>1. m[4] \in 0..63 /\ e[4 * q] = Char(m[4])
        BY <2>0, <2>1, <2>2
      <3>2. QED
        BY <3>1, Alphabet
    <2> HIDE DEF e, groups
    <2>4. base64_decode(e) = groups \o DecodeRest(SubSeq(e, 4 * q + 1, 4 * q))
      <3>1. 4 * q + 0 = 4 * q
        OBVIOUS
      <3>2. base64_decode(e) = groups \o DecodeRest(SubSeq(e, 4 * q + 1, 4 * q + 0))
        <4>1. 0 \in {0, 2, 3} /\ 4 * q + 0 > 0 /\ Len(e) = IF 0 = 0 THEN 4 * q ELSE 4 * q + 4
          BY <1>1, <1>2, <1>5
        <4>2. /\ \A i \in 4 * q + 0 + 1 .. Len(e) : e[i] = "="
              /\ e[4 * q + 0] # "="
          BY <1>1, <2>3, <3>1, <4>1
        <4>3. QED
          BY <4>1, <4>2, <1>1, <1>2, DecodeForm DEF groups
      <3>3. QED
        BY <3>1, <3>2
    <2>5. DecodeRest(SubSeq(e, 4 * q + 1, 4 * q)) = <<>>
      <3>1. SubSeq(e, 4 * q + 1, 4 * q) = <<>>
        BY <1>2
      <3>2. QED
        BY <3>1 DEF DecodeRest
    <2>6. SubSeq(b, 1, 3 * q) = b
      BY <1>1, <1>5
    <2>7. QED
      BY <1>3, <2>4, <2>5, <2>6 DEF e
  <1>6. CASE k = 1
    <2> DEFINE b1 == b[3 * q + 1]
    <2>0. b1 \in Byte
      BY <1>1, <1>6
    <2>1. /\ e[4 * q + 1] = Char(b1 \div 4) /\ e[4 * q + 2] = Char((b1 % 4) * 16)
          /\ e[4 * q + 3] = "=" /\ e[4 * q + 4] = "="
      BY <1>1, <1>6, Encoded
    <2>2. (b1 % 4) * 16 \in 0..63
      <3> HIDE DEF b1
      <3>1. QED
        BY <2>0, SMT DEF Byte
    <2>3. e[4 * q + 2] # "="
      BY <2>1, <2>2, Alphabet
    <2> HIDE DEF e, groups, b1
    <2>4. base64_decode(e) = groups \o DecodeRest(SubSeq(e, 4 * q + 1, 4 * q + 2))
      <3>1. \A i \in 4 * q + 2 + 1 .. Len(e) : e[i] = "="
        BY <1>2, <1>6, <2>1
      <3>2. QED
        <4>1. 2 \in {0, 2, 3} /\ 4 * q + 2 > 0 /\ Len(e) = IF 2 = 0 THEN 4 * q ELSE 4 * q + 4
          BY <1>1, <1>2, <1>6
        <4>2. QED
          BY <4>1, <1>1, <1>2, <2>3, <3>1, DecodeForm DEF groups
    <2>5. SubSeq(e, 4 * q + 1, 4 * q + 2) = <<e[4 * q + 1], e[4 * q + 2]>>
      BY <1>2, <1>6, SubSeqOfTwo
    <2>6. DecodeRest(SubSeq(e, 4 * q + 1, 4 * q + 2)) = <<b1>>
      BY <2>0, <2>1, <2>5, RestComesBack
    <2>7. SubSeq(b, 1, 3 * q) \o <<b1>> = b
      BY <1>1, <1>6 DEF b1
    <2>8. QED
      BY <1>3, <2>4, <2>6, <2>7 DEF e
  <1>7. CASE k = 2
    <2> DEFINE b1 == b[3 * q + 1]
               b2 == b[3 * q + 2]
    <2>0. b1 \in Byte /\ b2 \in Byte
      BY <1>1, <1>7
    <2>1. /\ e[4 * q + 1] = Char(b1 \div 4) /\ e[4 * q + 2] = Char((b1 % 4) * 16 + b2 \div 16)
          /\ e[4 * q + 3] = Char((b2 % 16) * 4) /\ e[4 * q + 4] = "="
      BY <1>1, <1>7, Encoded
    <2>2. (b2 % 16) * 4 \in 0..63
      <3> HIDE DEF b2
      <3>1. QED
        BY <2>0, SMT DEF Byte
    <2>3. e[4 * q + 3] # "="
      BY <2>1, <2>2, Alphabet
    <2> HIDE DEF e, groups, b1, b2
    <2>4. base64_decode(e) = groups \o DecodeRest(SubSeq(e, 4 * q + 1, 4 * q + 3))
      <3>1. \A i \in 4 * q + 3 + 1 .. Len(e) : e[i] = "="
        BY <1>2, <1>7, <2>1
      <3>2. QED
        <4>1. 3 \in {0, 2, 3} /\ 4 * q + 3 > 0 /\ Len(e) = IF 3 = 0 THEN 4 * q ELSE 4 * q + 4
          BY <1>1, <1>2, <1>7
        <4>2. QED
          BY <4>1, <1>1, <1>2, <2>3, <3>1, DecodeForm DEF groups
    <2>5. SubSeq(e, 4 * q + 1, 4 * q + 3) = <<e[4 * q + 1], e[4 * q + 2], e[4 * q + 3]>>
      BY <1>2, <1>7, SubSeqOfTwo
    <2>6. DecodeRest(SubSeq(e, 4 * q + 1, 4 * q + 3)) = <<b1, b2>>
      BY <2>0, <2>1, <2>5, RestComesBack
    <2>7. SubSeq(b, 1, 3 * q) \o <<b1, b2>> = b
      BY <1>1, <1>7 DEF b1, b2
    <2>8. QED
      BY <1>3, <2>4, <2>6, <2>7 DEF e
  <1>8. QED
    BY <1>1, <1>4, <1>5, <1>6, <1>7

-----------------------------------------------------------------------------
(***************************************************************************)
(* Base64 by the bits of its bytes.                                        *)
(***************************************************************************)

LEMMA BitsOfByte ==
  ASSUME NEW x \in Byte, NEW y0, NEW y1, NEW y2, NEW y3, NEW y4, NEW y5, NEW y6, NEW y7,
         y0 = (x \div 128) % 2, y1 = (x \div 64) % 2, y2 = (x \div 32) % 2, y3 = (x \div 16) % 2,
         y4 = (x \div 8) % 2, y5 = (x \div 4) % 2, y6 = (x \div 2) % 2, y7 = x % 2
  PROVE  /\ x \div 4 = 32 * y0 + 16 * y1 + 8 * y2 + 4 * y3 + 2 * y4 + y5
         /\ x % 4 = 2 * y6 + y7
         /\ x \div 16 = 8 * y0 + 4 * y1 + 2 * y2 + y3
         /\ x % 16 = 8 * y4 + 4 * y5 + 2 * y6 + y7
         /\ x \div 64 = 2 * y0 + y1
         /\ x % 64 = 32 * y2 + 16 * y3 + 8 * y4 + 4 * y5 + 2 * y6 + y7
  <1>1. x \div 4 = 32 * y0 + 16 * y1 + 8 * y2 + 4 * y3 + 2 * y4 + y5
    BY SMT DEF Byte
  <1>2. x % 4 = 2 * y6 + y7
    BY SMT DEF Byte
  <1>3. x \div 16 = 8 * y0 + 4 * y1 + 2 * y2 + y3
    BY SMT DEF Byte
  <1>4. x % 16 = 8 * y4 + 4 * y5 + 2 * y6 + y7
    BY SMT DEF Byte
  <1>5. x \div 64 = 2 * y0 + y1
    BY SMT DEF Byte
  <1>6. x % 64 = 32 * y2 + 16 * y3 + 8 * y4 + 4 * y5 + 2 * y6 + y7
    BY SMT DEF Byte
  <1>7. QED
    BY <1>1, <1>2, <1>3, <1>4, <1>5, <1>6

\* The eight bits of the byte before which there are n.
LEMMA BitsAt ==
  ASSUME NEW b \in Seq(Byte), NEW n \in Nat
  PROVE  /\ n < Len(b) =>
              /\ BitOf(b, 8 * n) = (b[n + 1] \div 128) % 2
              /\ BitOf(b, 8 * n + 1) = (b[n + 1] \div 64) % 2
              /\ BitOf(b, 8 * n + 2) = (b[n + 1] \div 32) % 2
              /\ BitOf(b, 8 * n + 3) = (b[n + 1] \div 16) % 2
              /\ BitOf(b, 8 * n + 4) = (b[n + 1] \div 8) % 2
              /\ BitOf(b, 8 * n + 5) = (b[n + 1] \div 4) % 2
              /\ BitOf(b, 8 * n + 6) = (b[n + 1] \div 2) % 2
              /\ BitOf(b, 8 * n + 7) = b[n + 1] % 2
         /\ n >= Len(b) => \A s \in 0..7 : BitOf(b, 8 * n + s) = 0
  <1>1. ASSUME NEW s \in 0..7
        PROVE  (8 * n + s) \div 8 = n /\ (8 * n + s) % 8 = s
    <2>1. (8 * n + s) \div 8 = n
      BY SMT
    <2>2. (8 * n + s) % 8 = s
      BY SMT
    <2>3. QED
      BY <2>1, <2>2
  <1>2. ASSUME NEW s \in 0..7
        PROVE  BitOf(b, 8 * n + s) = IF n >= Len(b) THEN 0 ELSE (b[n + 1] \div 2 ^ (7 - s)) % 2
    BY <1>1 DEF BitOf
  <1>3. /\ 2 ^ (7 - 0) = 128 /\ 2 ^ (7 - 1) = 64 /\ 2 ^ (7 - 2) = 32 /\ 2 ^ (7 - 3) = 16
        /\ 2 ^ (7 - 4) = 8 /\ 2 ^ (7 - 5) = 4 /\ 2 ^ (7 - 6) = 2 /\ 2 ^ (7 - 7) = 1
    BY SMT
  <1>4. n < Len(b) => b[n + 1] \in Byte /\ b[n + 1] \div 1 = b[n + 1]
    <2>1. \A x \in Byte : x \div 1 = x
      BY SMT DEF Byte
    <2>2. QED
      BY <2>1
  <1>5. n >= Len(b) => \A s \in 0..7 : BitOf(b, 8 * n + s) = 0
    BY <1>2
  <1>6. ASSUME n < Len(b)
        PROVE  /\ BitOf(b, 8 * n + 0) = (b[n + 1] \div 128) % 2
               /\ BitOf(b, 8 * n + 1) = (b[n + 1] \div 64) % 2
               /\ BitOf(b, 8 * n + 2) = (b[n + 1] \div 32) % 2
               /\ BitOf(b, 8 * n + 3) = (b[n + 1] \div 16) % 2
               /\ BitOf(b, 8 * n + 4) = (b[n + 1] \div 8) % 2
               /\ BitOf(b, 8 * n + 5) = (b[n + 1] \div 4) % 2
               /\ BitOf(b, 8 * n + 6) = (b[n + 1] \div 2) % 2
               /\ BitOf(b, 8 * n + 7) = b[n + 1] % 2
    BY <1>2, <1>3, <1>4, <1>6
  <1>7. 8 * n + 0 = 8 * n
    OBVIOUS
  <1>8. QED
    BY <1>5, <1>6, <1>7

Value(b, j) == 32 * BitOf(b, 6 * j) + 16 * BitOf(b, 6 * j + 1) + 8 * BitOf(b, 6 * j + 2)
                 + 4 * BitOf(b, 6 * j + 3) + 2 * BitOf(b, 6 * j + 4) + BitOf(b, 6 * j + 5)

\* The four values in twenty-four bits; what is behind the last byte counts as zero.
LEMMA Values ==
  ASSUME NEW b \in Seq(Byte), NEW i \in Nat, NEW b1 \in Byte, NEW b2 \in Byte, NEW b3 \in Byte,
         3 * i + 1 <= Len(b) /\ b1 = b[3 * i + 1],
         IF 3 * i + 2 <= Len(b) THEN b2 = b[3 * i + 2] ELSE b2 = 0,
         IF 3 * i + 3 <= Len(b) THEN b3 = b[3 * i + 3] ELSE b3 = 0
  PROVE  /\ Value(b, 4 * i) = b1 \div 4
         /\ Value(b, 4 * i + 1) = 16 * (b1 % 4) + b2 \div 16
         /\ Value(b, 4 * i + 2) = 4 * (b2 % 16) + b3 \div 64
         /\ Value(b, 4 * i + 3) = b3 % 64
  <1> DEFINE Bit(x, s) == CASE s = 0 -> (x \div 128) % 2 [] s = 1 -> (x \div 64) % 2
                            [] s = 2 -> (x \div 32) % 2 [] s = 3 -> (x \div 16) % 2
                            [] s = 4 -> (x \div 8) % 2 [] s = 5 -> (x \div 4) % 2
                            [] s = 6 -> (x \div 2) % 2 [] s = 7 -> x % 2
  <1>0. \A s \in 0..7 : Bit(0, s) = 0
    BY SMT
  <1>1. ASSUME NEW n \in Nat, NEW x \in Byte, IF n + 1 <= Len(b) THEN x = b[n + 1] ELSE x = 0
        PROVE  /\ BitOf(b, 8 * n) = Bit(x, 0)     /\ BitOf(b, 8 * n + 1) = Bit(x, 1)
               /\ BitOf(b, 8 * n + 2) = Bit(x, 2) /\ BitOf(b, 8 * n + 3) = Bit(x, 3)
               /\ BitOf(b, 8 * n + 4) = Bit(x, 4) /\ BitOf(b, 8 * n + 5) = Bit(x, 5)
               /\ BitOf(b, 8 * n + 6) = Bit(x, 6) /\ BitOf(b, 8 * n + 7) = Bit(x, 7)
    <2>1. CASE n < Len(b)
      <3>1. x = b[n + 1]
        BY <2>1, <1>1
      <3>2. /\ Bit(x, 0) = (x \div 128) % 2 /\ Bit(x, 1) = (x \div 64) % 2
            /\ Bit(x, 2) = (x \div 32) % 2 /\ Bit(x, 3) = (x \div 16) % 2
            /\ Bit(x, 4) = (x \div 8) % 2 /\ Bit(x, 5) = (x \div 4) % 2
            /\ Bit(x, 6) = (x \div 2) % 2 /\ Bit(x, 7) = x % 2
        OBVIOUS
      <3> HIDE DEF Bit
      <3>3. /\ BitOf(b, 8 * n) = (x \div 128) % 2 /\ BitOf(b, 8 * n + 1) = (x \div 64) % 2
            /\ BitOf(b, 8 * n + 2) = (x \div 32) % 2 /\ BitOf(b, 8 * n + 3) = (x \div 16) % 2
            /\ BitOf(b, 8 * n + 4) = (x \div 8) % 2 /\ BitOf(b, 8 * n + 5) = (x \div 4) % 2
            /\ BitOf(b, 8 * n + 6) = (x \div 2) % 2 /\ BitOf(b, 8 * n + 7) = x % 2
        BY <2>1, <3>1, BitsAt, Zenon
      <3>4. QED
        BY <3>2, <3>3
    <2>2. CASE n >= Len(b)
      <3>1. x = 0 /\ \A s \in 0..7 : BitOf(b, 8 * n + s) = 0
        BY <2>2, <1>1, BitsAt
      <3>2. 8 * n + 0 = 8 * n
        OBVIOUS
      <3> HIDE DEF Bit
      <3>3. QED
        BY <1>0, <3>1, <3>2
    <2>3. QED
      BY <2>1, <2>2
  <1>2. ASSUME NEW x \in Byte
        PROVE  /\ \A s \in 0..7 : Bit(x, s) \in 0..1
               /\ x \div 4 = 32 * Bit(x, 0) + 16 * Bit(x, 1) + 8 * Bit(x, 2) + 4 * Bit(x, 3) + 2 * Bit(x, 4) + Bit(x, 5)
               /\ x % 4 = 2 * Bit(x, 6) + Bit(x, 7)
               /\ x \div 16 = 8 * Bit(x, 0) + 4 * Bit(x, 1) + 2 * Bit(x, 2) + Bit(x, 3)
               /\ x % 16 = 8 * Bit(x, 4) + 4 * Bit(x, 5) + 2 * Bit(x, 6) + Bit(x, 7)
               /\ x \div 64 = 2 * Bit(x, 0) + Bit(x, 1)
               /\ x % 64 = 32 * Bit(x, 2) + 16 * Bit(x, 3) + 8 * Bit(x, 4) + 4 * Bit(x, 5) + 2 * Bit(x, 6) + Bit(x, 7)
    <2>1. /\ Bit(x, 0) = (x \div 128) % 2 /\ Bit(x, 1) = (x \div 64) % 2
          /\ Bit(x, 2) = (x \div 32) % 2 /\ Bit(x, 3) = (x \div 16) % 2
          /\ Bit(x, 4) = (x \div 8) % 2 /\ Bit(x, 5) = (x \div 4) % 2
          /\ Bit(x, 6) = (x \div 2) % 2 /\ Bit(x, 7) = x % 2
      OBVIOUS
    <2>2. \A s \in 0..7 : Bit(x, s) \in 0..1
      <3>1. /\ (x \div 128) % 2 \in 0..1 /\ (x \div 64) % 2 \in 0..1
            /\ (x \div 32) % 2 \in 0..1 /\ (x \div 16) % 2 \in 0..1
            /\ (x \div 8) % 2 \in 0..1 /\ (x \div 4) % 2 \in 0..1
            /\ (x \div 2) % 2 \in 0..1 /\ x % 2 \in 0..1
        BY SMT DEF Byte
      <3>2. QED
        BY <3>1
    <2> HIDE DEF Bit
    <2>3. QED
      BY <2>1, <2>2, BitsOfByte
  <1> HIDE DEF Bit
  <1>3. /\ 6 * (4 * i) = 8 * (3 * i) /\ 6 * (4 * i) + 1 = 8 * (3 * i) + 1
        /\ 6 * (4 * i) + 2 = 8 * (3 * i) + 2 /\ 6 * (4 * i) + 3 = 8 * (3 * i) + 3
        /\ 6 * (4 * i) + 4 = 8 * (3 * i) + 4 /\ 6 * (4 * i) + 5 = 8 * (3 * i) + 5
        /\ 6 * (4 * i + 1) = 8 * (3 * i) + 6 /\ 6 * (4 * i + 1) + 1 = 8 * (3 * i) + 7
        /\ 6 * (4 * i + 1) + 2 = 8 * (3 * i + 1) /\ 6 * (4 * i + 1) + 3 = 8 * (3 * i + 1) + 1
        /\ 6 * (4 * i + 1) + 4 = 8 * (3 * i + 1) + 2 /\ 6 * (4 * i + 1) + 5 = 8 * (3 * i + 1) + 3
        /\ 6 * (4 * i + 2) = 8 * (3 * i + 1) + 4 /\ 6 * (4 * i + 2) + 1 = 8 * (3 * i + 1) + 5
        /\ 6 * (4 * i + 2) + 2 = 8 * (3 * i + 1) + 6 /\ 6 * (4 * i + 2) + 3 = 8 * (3 * i + 1) + 7
        /\ 6 * (4 * i + 2) + 4 = 8 * (3 * i + 2) /\ 6 * (4 * i + 2) + 5 = 8 * (3 * i + 2) + 1
        /\ 6 * (4 * i + 3) = 8 * (3 * i + 2) + 2 /\ 6 * (4 * i + 3) + 1 = 8 * (3 * i + 2) + 3
        /\ 6 * (4 * i + 3) + 2 = 8 * (3 * i + 2) + 4 /\ 6 * (4 * i + 3) + 3 = 8 * (3 * i + 2) + 5
        /\ 6 * (4 * i + 3) + 4 = 8 * (3 * i + 2) + 6 /\ 6 * (4 * i + 3) + 5 = 8 * (3 * i + 2) + 7
    BY SMT
  <1>4. /\ 3 * i \in Nat /\ 3 * i + 1 \in Nat /\ 3 * i + 2 \in Nat
        /\ (3 * i + 1) + 1 = 3 * i + 2 /\ (3 * i + 2) + 1 = 3 * i + 3
    OBVIOUS
  <1>5. /\ BitOf(b, 8 * (3 * i)) = Bit(b1, 0)     /\ BitOf(b, 8 * (3 * i) + 1) = Bit(b1, 1)
        /\ BitOf(b, 8 * (3 * i) + 2) = Bit(b1, 2) /\ BitOf(b, 8 * (3 * i) + 3) = Bit(b1, 3)
        /\ BitOf(b, 8 * (3 * i) + 4) = Bit(b1, 4) /\ BitOf(b, 8 * (3 * i) + 5) = Bit(b1, 5)
        /\ BitOf(b, 8 * (3 * i) + 6) = Bit(b1, 6) /\ BitOf(b, 8 * (3 * i) + 7) = Bit(b1, 7)
    <2> DEFINE n == 3 * i
    <2>1. n \in Nat /\ IF n + 1 <= Len(b) THEN b1 = b[n + 1] ELSE b1 = 0
      BY <1>4
    <2> HIDE DEF n
    <2>2. /\ BitOf(b, 8 * n) = Bit(b1, 0)     /\ BitOf(b, 8 * n + 1) = Bit(b1, 1)
          /\ BitOf(b, 8 * n + 2) = Bit(b1, 2) /\ BitOf(b, 8 * n + 3) = Bit(b1, 3)
          /\ BitOf(b, 8 * n + 4) = Bit(b1, 4) /\ BitOf(b, 8 * n + 5) = Bit(b1, 5)
          /\ BitOf(b, 8 * n + 6) = Bit(b1, 6) /\ BitOf(b, 8 * n + 7) = Bit(b1, 7)
      BY <1>1, <2>1
    <2>3. QED
      BY <2>2, Zenon DEF n
  <1>6. /\ BitOf(b, 8 * (3 * i + 1)) = Bit(b2, 0)     /\ BitOf(b, 8 * (3 * i + 1) + 1) = Bit(b2, 1)
        /\ BitOf(b, 8 * (3 * i + 1) + 2) = Bit(b2, 2) /\ BitOf(b, 8 * (3 * i + 1) + 3) = Bit(b2, 3)
        /\ BitOf(b, 8 * (3 * i + 1) + 4) = Bit(b2, 4) /\ BitOf(b, 8 * (3 * i + 1) + 5) = Bit(b2, 5)
        /\ BitOf(b, 8 * (3 * i + 1) + 6) = Bit(b2, 6) /\ BitOf(b, 8 * (3 * i + 1) + 7) = Bit(b2, 7)
    <2> DEFINE n == 3 * i + 1
    <2>1. n \in Nat /\ IF n + 1 <= Len(b) THEN b2 = b[n + 1] ELSE b2 = 0
      BY <1>4
    <2> HIDE DEF n
    <2>2. /\ BitOf(b, 8 * n) = Bit(b2, 0)     /\ BitOf(b, 8 * n + 1) = Bit(b2, 1)
          /\ BitOf(b, 8 * n + 2) = Bit(b2, 2) /\ BitOf(b, 8 * n + 3) = Bit(b2, 3)
          /\ BitOf(b, 8 * n + 4) = Bit(b2, 4) /\ BitOf(b, 8 * n + 5) = Bit(b2, 5)
          /\ BitOf(b, 8 * n + 6) = Bit(b2, 6) /\ BitOf(b, 8 * n + 7) = Bit(b2, 7)
      BY <1>1, <2>1
    <2>3. QED
      BY <2>2, Zenon DEF n
  <1>7. /\ BitOf(b, 8 * (3 * i + 2)) = Bit(b3, 0)     /\ BitOf(b, 8 * (3 * i + 2) + 1) = Bit(b3, 1)
        /\ BitOf(b, 8 * (3 * i + 2) + 2) = Bit(b3, 2) /\ BitOf(b, 8 * (3 * i + 2) + 3) = Bit(b3, 3)
        /\ BitOf(b, 8 * (3 * i + 2) + 4) = Bit(b3, 4) /\ BitOf(b, 8 * (3 * i + 2) + 5) = Bit(b3, 5)
        /\ BitOf(b, 8 * (3 * i + 2) + 6) = Bit(b3, 6) /\ BitOf(b, 8 * (3 * i + 2) + 7) = Bit(b3, 7)
    <2> DEFINE n == 3 * i + 2
    <2>1. n \in Nat /\ IF n + 1 <= Len(b) THEN b3 = b[n + 1] ELSE b3 = 0
      BY <1>4
    <2> HIDE DEF n
    <2>2. /\ BitOf(b, 8 * n) = Bit(b3, 0)     /\ BitOf(b, 8 * n + 1) = Bit(b3, 1)
          /\ BitOf(b, 8 * n + 2) = Bit(b3, 2) /\ BitOf(b, 8 * n + 3) = Bit(b3, 3)
          /\ BitOf(b, 8 * n + 4) = Bit(b3, 4) /\ BitOf(b, 8 * n + 5) = Bit(b3, 5)
          /\ BitOf(b, 8 * n + 6) = Bit(b3, 6) /\ BitOf(b, 8 * n + 7) = Bit(b3, 7)
      BY <1>1, <2>1
    <2>3. QED
      BY <2>2, Zenon DEF n
  <1>8. Value(b, 4 * i) = b1 \div 4
    <2>1. Value(b, 4 * i) = 32 * Bit(b1, 0) + 16 * Bit(b1, 1) + 8 * Bit(b1, 2) + 4 * Bit(b1, 3) + 2 * Bit(b1, 4) + Bit(b1, 5)
      BY <1>3, <1>5 DEF Value
    <2>2. QED
      BY <1>2, <2>1
  <1>9. Value(b, 4 * i + 1) = 16 * (b1 % 4) + b2 \div 16
    <2>1. Value(b, 4 * i + 1) = 32 * Bit(b1, 6) + 16 * Bit(b1, 7) + 8 * Bit(b2, 0) + 4 * Bit(b2, 1) + 2 * Bit(b2, 2) + Bit(b2, 3)
      BY <1>3, <1>5, <1>6 DEF Value
    <2>2. /\ b1 % 4 = 2 * Bit(b1, 6) + Bit(b1, 7)
          /\ b2 \div 16 = 8 * Bit(b2, 0) + 4 * Bit(b2, 1) + 2 * Bit(b2, 2) + Bit(b2, 3)
          /\ \A s \in 0..7 : Bit(b1, s) \in 0..1 /\ Bit(b2, s) \in 0..1
      BY <1>2
    <2>3. QED
      BY <2>1, <2>2
  <1>10. Value(b, 4 * i + 2) = 4 * (b2 % 16) + b3 \div 64
    <2>1. Value(b, 4 * i + 2) = 32 * Bit(b2, 4) + 16 * Bit(b2, 5) + 8 * Bit(b2, 6) + 4 * Bit(b2, 7) + 2 * Bit(b3, 0) + Bit(b3, 1)
      BY <1>3, <1>6, <1>7 DEF Value
    <2>2. /\ b2 % 16 = 8 * Bit(b2, 4) + 4 * Bit(b2, 5) + 2 * Bit(b2, 6) + Bit(b2, 7)
          /\ b3 \div 64 = 2 * Bit(b3, 0) + Bit(b3, 1)
          /\ \A s \in 0..7 : Bit(b2, s) \in 0..1 /\ Bit(b3, s) \in 0..1
      BY <1>2
    <2>3. QED
      BY <2>1, <2>2, SMTT(60)
  <1>11. Value(b, 4 * i + 3) = b3 % 64
    <2>1. Value(b, 4 * i + 3) = 32 * Bit(b3, 2) + 16 * Bit(b3, 3) + 8 * Bit(b3, 4) + 4 * Bit(b3, 5) + 2 * Bit(b3, 6) + Bit(b3, 7)
      BY <1>3, <1>7 DEF Value
    <2>2. QED
      BY <1>2, <2>1
  <1>12. QED
    BY <1>8, <1>9, <1>10, <1>11

(***************************************************************************)
(* base64_encode (TSBase64.c), with its shifts and masks of three bytes    *)
(* and its own case for the rest, is the encoding as it is defined: six    *)
(* bits a character, zeros behind the last byte, and "=" up to a multiple  *)
(* of four.                                                                *)
(***************************************************************************)
THEOREM EncodesByDefinition ==
  \A b \in Seq(Byte) : base64_encode(b) = EncodedByBits(b)
  <1> SUFFICES ASSUME NEW b \in Seq(Byte) PROVE base64_encode(b) = EncodedByBits(b)
    OBVIOUS
  <1> DEFINE e == base64_encode(b)
             used == (8 * Len(b) + 5) \div 6
             size == 4 * ((Len(b) + 2) \div 3)
  <1>1. PICK q \in Nat, k \in 0..2 : Len(b) = 3 * q + k
    BY Thirds, Len(b) \in Nat
  <1>2. e \in Seq(Chars) /\ Len(e) = IF k = 0 THEN 4 * q ELSE 4 * q + 4
    BY <1>1, Encoded
  <1>3. EncodedByBits(b) = [j \in 1..size |-> IF j <= used THEN Char(Value(b, j - 1)) ELSE "="]
    BY Zenon DEF EncodedByBits, Value
  <1>4. /\ size = IF k = 0 THEN 4 * q ELSE 4 * q + 4
        /\ used = CASE k = 0 -> 4 * q [] k = 1 -> 4 * q + 2 [] k = 2 -> 4 * q + 3
    <2>1. /\ (3 * q + 2) \div 3 = q /\ (3 * q + 3) \div 3 = q + 1 /\ (3 * q + 4) \div 3 = q + 1
          /\ (24 * q + 5) \div 6 = 4 * q /\ (24 * q + 13) \div 6 = 4 * q + 2
          /\ (24 * q + 21) \div 6 = 4 * q + 3
      BY SMT
    <2>2. /\ Len(b) + 2 = 3 * q + (2 + k) /\ 8 * Len(b) + 5 = 24 * q + (8 * k + 5)
      BY <1>1
    <2>3. CASE k = 0
      BY <2>1, <2>2, <2>3
    <2>4. CASE k = 1
      <3>1. Len(b) + 2 = 3 * q + 3 /\ 8 * Len(b) + 5 = 24 * q + 13
        BY <1>1, <2>4
      <3>2. size = 4 * q + 4 /\ used = 4 * q + 2
        BY <2>1, <3>1
      <3> HIDE DEF size, used
      <3>3. QED
        BY <3>2, <2>4
    <2>5. CASE k = 2
      <3>1. Len(b) + 2 = 3 * q + 4 /\ 8 * Len(b) + 5 = 24 * q + 21
        BY <1>1, <2>5
      <3>2. size = 4 * q + 4 /\ used = 4 * q + 3
        BY <2>1, <3>1
      <3> HIDE DEF size, used
      <3>3. QED
        BY <3>2, <2>5
    <2>6. QED
      BY <2>3, <2>4, <2>5
  <1> HIDE DEF used, size, e
  <1>5. ASSUME NEW i \in 0..q - 1, NEW t \in 1..4
        PROVE  e[4 * i + t] = Char(Value(b, 4 * i + t - 1)) /\ 4 * i + t <= used
    <2> DEFINE b1 == b[3 * i + 1]
               b2 == b[3 * i + 2]
               b3 == b[3 * i + 3]
    <2>1. /\ b1 \in Byte /\ b2 \in Byte /\ b3 \in Byte /\ i \in Nat
          /\ 3 * i + 1 <= Len(b) /\ 3 * i + 2 <= Len(b) /\ 3 * i + 3 <= Len(b)
      BY <1>1
    <2>2. e[4 * i + t] = EncodeChunk(b1, b2, b3)[t]
      BY <1>1, Encoded DEF Threes, e
    <2> HIDE DEF b1, b2, b3
    <2>3. EncodeChunk(b1, b2, b3) =
              <<Char(b1 \div 4), Char(16 * (b1 % 4) + b2 \div 16),
                Char(4 * (b2 % 16) + b3 \div 64), Char(b3 % 64)>>
      BY <2>1, SextetsOfChunk
    <2>4. /\ Value(b, 4 * i) = b1 \div 4
          /\ Value(b, 4 * i + 1) = 16 * (b1 % 4) + b2 \div 16
          /\ Value(b, 4 * i + 2) = 4 * (b2 % 16) + b3 \div 64
          /\ Value(b, 4 * i + 3) = b3 % 64
      BY <2>1, Values DEF b1, b2, b3
    <2>5. 4 * i + t <= used
      BY <1>1, <1>4
    <2>6. /\ 4 * i + 1 - 1 = 4 * i /\ 4 * i + 2 - 1 = 4 * i + 1
          /\ 4 * i + 3 - 1 = 4 * i + 2 /\ 4 * i + 4 - 1 = 4 * i + 3
      OBVIOUS
    <2>7. EncodeChunk(b1, b2, b3)[t] = Char(Value(b, 4 * i + t - 1))
      BY <2>3, <2>4, <2>6
    <2>8. QED
      BY <2>2, <2>5, <2>7
  <1>6. ASSUME NEW j \in 1..4 * q
        PROVE  e[j] = Char(Value(b, j - 1)) /\ j <= used
    <2>1. PICK i \in 0..q - 1, t \in 1..4 : j = 4 * i + t
      <3>1. (j - 1) \div 4 \in 0..q - 1 /\ 1 + ((j - 1) % 4) \in 1..4
        BY SMT
      <3>2. j = 4 * ((j - 1) \div 4) + (1 + ((j - 1) % 4))
        BY SMT
      <3>3. QED
        BY <3>1, <3>2
    <2>2. QED
      BY <2>1, <1>5
  <1>7. ASSUME k # 0, NEW t \in 1..4
        PROVE  e[4 * q + t] = IF 4 * q + t <= used THEN Char(Value(b, 4 * q + t - 1)) ELSE "="
    <2> DEFINE b1 == b[3 * q + 1]
               b2 == IF k = 2 THEN b[3 * q + 2] ELSE 0
    <2>0. 0 \in Byte
      BY DEF Byte
    <2>1. b1 \in Byte /\ b2 \in Byte
      BY <1>1, <1>7, <2>0
    <2>2. /\ k = 1 => /\ e[4 * q + 1] = Char(b1 \div 4) /\ e[4 * q + 2] = Char((b1 % 4) * 16)
                      /\ e[4 * q + 3] = "=" /\ e[4 * q + 4] = "="
          /\ k = 2 => /\ e[4 * q + 1] = Char(b1 \div 4)
                      /\ e[4 * q + 2] = Char((b1 % 4) * 16 + b2 \div 16)
                      /\ e[4 * q + 3] = Char((b2 % 16) * 4) /\ e[4 * q + 4] = "="
      BY <1>1, <1>7, Encoded DEF e
    <2>3. /\ Value(b, 4 * q) = b1 \div 4
          /\ Value(b, 4 * q + 1) = 16 * (b1 % 4) + b2 \div 16
          /\ Value(b, 4 * q + 2) = 4 * (b2 % 16) + 0 \div 64
      BY <1>1, <1>7, <2>0, <2>1, Values
    <2>4. k = 1 => b2 = 0
      OBVIOUS
    <2> HIDE DEF b1, b2
    <2>5. /\ 0 \div 64 = 0 /\ 0 \div 16 = 0
          /\ 16 * (b1 % 4) + 0 = (b1 % 4) * 16 /\ 4 * (b2 % 16) + 0 = (b2 % 16) * 4
          /\ 16 * (b1 % 4) + b2 \div 16 = (b1 % 4) * 16 + b2 \div 16
      BY <2>1, SMT DEF Byte
    <2>6. /\ 4 * q + 1 - 1 = 4 * q /\ 4 * q + 2 - 1 = 4 * q + 1 /\ 4 * q + 3 - 1 = 4 * q + 2
      OBVIOUS
    <2>7. CASE k = 1
      <3>1. used = 4 * q + 2
        BY <1>4, <2>7
      <3>2. /\ Value(b, 4 * q + 1 - 1) = b1 \div 4
            /\ Value(b, 4 * q + 2 - 1) = (b1 % 4) * 16
        BY <2>3, <2>4, <2>5, <2>6, <2>7
      <3>3. QED
        BY <2>2, <2>7, <3>1, <3>2
    <2>8. CASE k = 2
      <3>1. used = 4 * q + 3
        BY <1>4, <2>8
      <3>2. /\ Value(b, 4 * q + 1 - 1) = b1 \div 4
            /\ Value(b, 4 * q + 2 - 1) = (b1 % 4) * 16 + b2 \div 16
            /\ Value(b, 4 * q + 3 - 1) = (b2 % 16) * 4
        BY <2>3, <2>5, <2>6
      <3>3. QED
        BY <2>2, <2>8, <3>1, <3>2
    <2>9. QED
      BY <1>7, <2>7, <2>8
  <1>8. ASSUME NEW j \in 1..size
        PROVE  e[j] = IF j <= used THEN Char(Value(b, j - 1)) ELSE "="
    <2>1. CASE j <= 4 * q
      BY <2>1, <1>6
    <2>2. CASE j > 4 * q
      <3>1. k # 0 /\ j - 4 * q \in 1..4 /\ j = 4 * q + (j - 4 * q)
        BY <2>2, <1>4
      <3>2. QED
        BY <3>1, <1>7
    <2>3. QED
      BY <2>1, <2>2, <1>4
  <1>9. e = [j \in 1..size |-> IF j <= used THEN Char(Value(b, j - 1)) ELSE "="]
    <2>1. e = [j \in 1..size |-> e[j]]
      BY <1>2, <1>4
    <2>2. QED
      BY <1>8, <2>1
  <1>10. QED
    BY <1>3, <1>9 DEF e

-----------------------------------------------------------------------------
(***************************************************************************)
(* The packets.                                                            *)
(***************************************************************************)

\* What is read back of each packet.
LEMMA PacketsComeBack ==
  ASSUME NEW c \in Seq(Byte), NEW s
  PROVE  /\ dictionaryFromJSON(JSONWithTextPacket(c, s))
              = [type |-> TSPlasterTypeText, sender |-> s, content |-> c, key |-> "text"]
         /\ dictionaryFromJSON(JSONWithImagePacket(c, s))
              = [type |-> TSPlasterTypeImage, sender |-> s, content |-> c, key |-> "image"]
         /\ dictionaryFromJSON(JSONWithNotificationPacket(c, s))
              = [type |-> TSPlasterTypeNotification, sender |-> s, content |-> c, key |-> "text"]
         /\ \A json \in JSONWithDataPacket(c, s) :
              /\ json.type = TSPlasterTypeFile /\ json.sender = s
              /\ c # <<>> => dictionaryFromJSON(json).content = c
  <1>1. base64_decode(base64_encode(c)) = c
    BY DecodeUndoesEncode
  <1> USE DEF TSPlasterTypeText, TSPlasterTypeImage, TSPlasterTypeNotification, TSPlasterTypeFile, Packet
  <1>2. dictionaryFromJSON(JSONWithTextPacket(c, s))
              = [type |-> TSPlasterTypeText, sender |-> s, content |-> c, key |-> "text"]
    BY <1>1 DEF dictionaryFromJSON, JSONWithTextPacket
  <1>3. dictionaryFromJSON(JSONWithImagePacket(c, s))
              = [type |-> TSPlasterTypeImage, sender |-> s, content |-> c, key |-> "image"]
    BY <1>1 DEF dictionaryFromJSON, JSONWithImagePacket
  <1>4. dictionaryFromJSON(JSONWithNotificationPacket(c, s))
              = [type |-> TSPlasterTypeNotification, sender |-> s, content |-> c, key |-> "text"]
    BY <1>1 DEF dictionaryFromJSON, JSONWithNotificationPacket
  <1>5. ASSUME NEW json \in JSONWithDataPacket(c, s)
        PROVE  /\ json.type = TSPlasterTypeFile /\ json.sender = s
               /\ c # <<>> => dictionaryFromJSON(json).content = c
    BY <1>1 DEF dictionaryFromJSON, JSONWithDataPacket
  <1>6. QED
    BY <1>2, <1>3, <1>4, <1>5

\* Contents are bytes, a file may be unreadable, an image is never empty.
Pasteboards ==
  {p \in UNION {[held -> Seq(Byte) \cup {Unreadable}] : held \in SUBSET Kinds} :
     \A k \in DOMAIN p : /\ p[k] = Unreadable => k = "file"
                         /\ p[k] = <<>> => k # "image"}

LEMMA UnreadableIsNoBytes == Unreadable \notin Seq(Byte)
  <1>1. \A s \in Seq(Byte) : Len(s) = 1 => s[1] \in Byte
    OBVIOUS
  <1>2. Len(Unreadable) = 1 /\ Unreadable[1] = -1 /\ -1 \notin Byte
    BY DEF Unreadable, Byte
  <1>3. QED
    BY <1>1, <1>2

\* What is copied: the file if there may be one, or else the image or the text.
LEMMA CopiedIs ==
  ASSUME NEW p \in Pasteboards, NEW out \in [Kinds -> BOOLEAN], NEW from \in {"mac", "phone"},
         NEW s, NEW json \in Copied(from, p, out, s)
  PROVE  \E k \in {x \in DOMAIN p : out[x]} :
           /\ p[k] \in Seq(Byte)
           /\ k = "file" <=> (from = "mac" /\ out["file"] /\ "file" \in DOMAIN p)
           /\ k = "file" => json \in JSONWithDataPacket(p[k], s)
           /\ k = "image" => json = JSONWithImagePacket(p[k], s)
           /\ k = "text" => json = JSONWithTextPacket(p[k], s)
  <1> DEFINE readables == {c \in {"image", "text"} \cap DOMAIN p : out[c]}
  <1>1. /\ DOMAIN p \subseteq Kinds
        /\ \A k \in DOMAIN p : p[k] \in Seq(Byte) \/ (k = "file" /\ p[k] = Unreadable)
    BY DEF Pasteboards
  <1>2. CASE from = "mac" /\ out["file"] /\ "file" \in DOMAIN p
    <2>1. json \in plaster(p, out, s)
      BY <1>2 DEF Copied
    <2>2. p["file"] # Unreadable /\ json \in JSONWithDataPacket(p["file"], s)
      BY <1>2, <2>1 DEF plaster
    <2>3. QED
      BY <1>1, <1>2, <2>2
  <1>3. CASE ~(from = "mac" /\ out["file"] /\ "file" \in DOMAIN p)
    <2>1. json \in CASE "image" \in readables -> {JSONWithImagePacket(p["image"], s)}
                     [] readables = {"text"} -> {JSONWithTextPacket(p["text"], s)}
                     [] readables = {} -> {}
      <3>1. CASE from = "mac"
        BY <1>3, <3>1 DEF Copied, plaster
      <3>2. CASE from = "phone"
        BY <3>2 DEF Copied, TSLplaster
      <3>3. QED
        BY <3>1, <3>2
    <2>2. CASE "image" \in readables
      <3>1. json = JSONWithImagePacket(p["image"], s)
        BY <2>1, <2>2
      <3>2. QED
        BY <1>1, <1>3, <2>2, <3>1
    <2>3. CASE readables = {"text"}
      <3>1. json = JSONWithTextPacket(p["text"], s) /\ "text" \in readables
        BY <2>1, <2>3
      <3>2. QED
        BY <1>1, <1>3, <3>1
    <2>4. readables = {} \/ readables = {"text"} \/ "image" \in readables
      OBVIOUS
    <2>5. CASE readables = {}
      <3>1. json \in {}
        BY <2>1, <2>5
      <3>2. QED
        BY <3>1
    <2>6. QED
      BY <2>2, <2>3, <2>4, <2>5
  <1>4. QED
    BY <1>2, <1>3

(***************************************************************************)
(* Of whatever is copied, all that plaster: (TSPlasterController.m) sends  *)
(* arrives with handlePlasterInWithData: as a representation that both     *)
(* profiles allow, whole and where the receiver wants it, or not at all    *)
(* for one the receiver does not allow; for every content, name and        *)
(* sender.                                                                 *)
(***************************************************************************)
THEOREM PacketsArriveWhole ==
  ASSUME NEW pboard \in Pasteboards, NEW out \in [Kinds -> BOOLEAN], NEW in \in [Kinds -> BOOLEAN],
         NEW from \in {"mac", "phone"}, NEW to \in {"mac", "phone"},
         NEW mode \in {"pasteboard", "file"}, NEW name \in Seq(Byte), NEW sender, NEW date
  PROVE  ArrivesWhole(from, to, pboard, out, in, mode, name, sender, date)
  <1> SUFFICES ASSUME NEW json \in Copied(from, pboard, out, sender)
               PROVE  \E kind \in {k \in DOMAIN pboard : out[k]} :
                        Arrives(kind, from, to, pboard, out, in, mode, json,
                                Outcome(to, json, name, in, mode, date))
    BY DEF ArrivesWhole
  <1>1. PICK kind \in {x \in DOMAIN pboard : out[x]} :
           /\ pboard[kind] \in Seq(Byte)
           /\ kind = "file" <=> (from = "mac" /\ out["file"] /\ "file" \in DOMAIN pboard)
           /\ kind = "file" => json \in JSONWithDataPacket(pboard[kind], sender)
           /\ kind = "image" => json = JSONWithImagePacket(pboard[kind], sender)
           /\ kind = "text" => json = JSONWithTextPacket(pboard[kind], sender)
    BY CopiedIs
  <1> DEFINE c == pboard[kind]
             got == Outcome(to, json, name, in, mode, date)
             note == JSONWithNotificationPacket(name, json.sender)
             fetched == [name |-> dictionaryFromJSON(note).content,
                         content |-> dictionaryFromJSON(json).content]
             packet == IF json.type = TSPlasterTypeFile THEN note ELSE json
             data == dictionaryFromJSON(packet)
  <1>2. kind \in Kinds
    BY DEF Pasteboards
  <1>3. got = IF to = "mac" THEN handlePlasterInWithData(packet, fetched, in, mode, date)
              ELSE TSLhandlePlasterInWithData(packet, in, mode)
    BY DEF Outcome
  <1> USE DEF TSPlasterTypeText, TSPlasterTypeImage, TSPlasterTypeNotification, TSPlasterTypeFile
  <1>4. CASE kind = "file"
    <2>1. json.type = TSPlasterTypeFile /\ (c # <<>> => fetched.content = c)
      BY <1>1, <1>4, PacketsComeBack
    <2>2. data.type = TSPlasterTypeNotification
      BY <2>1, PacketsComeBack
    <2> HIDE DEF fetched, packet
    <2>3. to = "phone" => got = Nothing
      BY <1>3, <2>2 DEF TSLhandlePlasterInWithData
    <2>4. to = "mac" => got = IF ~in["file"] THEN Nothing
                              ELSE Placed(IF mode = "file" THEN "folder" ELSE "pasteboard",
                                          "file", fetched.name, fetched.content)
      <3>1. Allowed(data.type, in) <=> in["file"]
        BY <2>2 DEF Allowed
      <3>2. QED
        BY <1>3, <2>2, <3>1 DEF handlePlasterInWithData, InPasteboard, InFolder
    <2>5. \A at \in {"folder", "pasteboard"} : Placed(at, "file", fetched.name, fetched.content) # Nothing
      BY DEF Placed, Nothing
    <2> HIDE DEF got
    <2>6. Arrives("file", from, to, pboard, out, in, mode, json, got)
      BY <1>1, <1>4, <2>1, <2>3, <2>4, <2>5 DEF Arrives, Placed
    <2>7. QED
      BY <1>4, <2>6 DEF got
  <1>5. CASE kind = "image"
    <2>1. json = JSONWithImagePacket(c, sender)
      BY <1>1, <1>5
    <2>2. packet = json /\ data.type = TSPlasterTypeImage /\ data.content = c /\ data.key = "image"
      <3>1. json.type = TSPlasterTypeImage
        BY <2>1 DEF JSONWithImagePacket, Packet
      <3>2. packet = json
        BY <3>1
      <3> HIDE DEF packet
      <3>3. data = [type |-> TSPlasterTypeImage, sender |-> sender, content |-> c, key |-> "image"]
        BY <1>1, <2>1, <3>2, PacketsComeBack
      <3>4. QED
        BY <3>1, <3>2, <3>3
    <2>3. Allowed(data.type, in) <=> in["image"]
      BY <2>2 DEF Allowed
    <2> HIDE DEF fetched, packet, c
    <2>4. to = "phone" => got = IF in["image"] /\ mode = "pasteboard" THEN Placed("pasteboard", "image", <<>>, c)
                                ELSE Nothing
      BY <1>3, <2>2, <2>3 DEF TSLhandlePlasterInWithData
    <2>5. to = "mac" => got = IF ~in["image"] THEN Nothing
                              ELSE IF mode = "pasteboard" THEN Placed("pasteboard", "image", <<>>, c)
                              ELSE Placed("folder", "image", plasterFileName(date, data.sender, ".tiff"), c)
      BY <1>3, <2>2, <2>3 DEF handlePlasterInWithData, InPasteboard, InFolder
    <2>6. \A at \in {"folder", "pasteboard"} : \A n : Placed(at, "image", n, c) # Nothing
      BY DEF Placed, Nothing
    <2> HIDE DEF got, data
    <2>7. Arrives("image", from, to, pboard, out, in, mode, json, got)
      BY <1>1, <1>5, <2>4, <2>5, <2>6 DEF Arrives, Placed, c
    <2>8. QED
      BY <1>5, <2>7 DEF got
  <1>6. CASE kind = "text"
    <2>1. json = JSONWithTextPacket(c, sender)
      BY <1>1, <1>6
    <2>2. /\ packet = json /\ data.type = TSPlasterTypeText /\ data.content = c /\ data.key = "text"
          /\ testHandlePlasterInWithData(json) = c
      <3>1. json.type = TSPlasterTypeText
        BY <2>1 DEF JSONWithTextPacket, Packet
      <3>2. packet = json
        BY <3>1
      <3> HIDE DEF packet
      <3>3. data = [type |-> TSPlasterTypeText, sender |-> sender, content |-> c, key |-> "text"]
        BY <1>1, <2>1, <3>2, PacketsComeBack
      <3>4. QED
        BY <3>1, <3>2, <3>3 DEF testHandlePlasterInWithData
    <2>3. Allowed(data.type, in) <=> in["text"]
      BY <2>2 DEF Allowed
    <2> HIDE DEF fetched, packet, c
    <2>4. to = "phone" => got = IF in["text"] /\ mode = "pasteboard" THEN Placed("pasteboard", "text", <<>>, c)
                                ELSE Nothing
      BY <1>3, <2>2, <2>3 DEF TSLhandlePlasterInWithData
    <2>5. to = "mac" => got = IF ~in["text"] THEN Nothing
                              ELSE IF mode = "pasteboard" THEN Placed("pasteboard", "text", <<>>, c)
                              ELSE Placed("folder", "text", plasterFileName(date, data.sender, ".txt"), c)
      BY <1>3, <2>2, <2>3 DEF handlePlasterInWithData, InPasteboard, InFolder
    <2>6. \A at \in {"folder", "pasteboard"} : \A n : Placed(at, "text", n, c) # Nothing
      BY DEF Placed, Nothing
    <2> HIDE DEF got, data
    <2>7. Arrives("text", from, to, pboard, out, in, mode, json, got)
      BY <1>1, <1>6, <2>2, <2>4, <2>5, <2>6 DEF Arrives, Placed, c
    <2>8. QED
      BY <1>6, <2>7 DEF got
  <1>7. QED
    BY <1>2, <1>4, <1>5, <1>6 DEF Kinds

-----------------------------------------------------------------------------
(***************************************************************************)
(* Numbers and sequences.                                                  *)
(***************************************************************************)

LEMMA Least ==
  ASSUME NEW S, S \subseteq Nat, S # {}
  PROVE  \E n \in S : \A m \in S : n <= m
  <1>1. IsWellFoundedOn(OpToRel(<,Nat), Nat)
    BY NatLessThanWellFounded
  <1>2. PICK x \in S : \A y \in S : ~(<<y, x>> \in OpToRel(<,Nat))
    BY <1>1, WFMin
  <1>3. \A y \in S : ~(y < x)
    BY <1>2 DEF OpToRel
  <1>4. QED
    BY <1>3

LEMMA Induct ==
  ASSUME NEW S, 0 \in S, \A n \in Nat : n \in S => n + 1 \in S
  PROVE  Nat \subseteq S
  <1>1. SUFFICES ASSUME Nat \ S # {} PROVE FALSE
    OBVIOUS
  <1>2. PICK n \in Nat \ S : \A m \in Nat \ S : n <= m
    BY <1>1, Least
  <1>3. n # 0 /\ n - 1 \in Nat /\ n - 1 \in S
    BY <1>2
  <1>4. QED
    BY <1>3, <1>2

LEMMA MinIs ==
  ASSUME NEW S, S \subseteq Nat, S # {}
  PROVE  Min(S) \in S /\ \A m \in S : Min(S) <= m
  BY Least DEF Min

LEMMA MaxIs ==
  ASSUME NEW n \in Nat, NEW S, S \subseteq 0..n, S # {}
  PROVE  Max(S) \in S /\ \A m \in S : Max(S) >= m
  <1> DEFINE T == {n - m : m \in S}
  <1>0. \A m \in S : m \in Nat /\ n - m \in Nat
    OBVIOUS
  <1>1. T \subseteq Nat /\ T # {}
    BY <1>0
  <1>2. PICK t \in T : \A u \in T : t <= u
    BY <1>1, Least
  <1>3. PICK x \in S : t = n - x
    BY <1>2
  <1>4. ASSUME NEW m \in S
        PROVE  x >= m
    <2>1. n - m \in T
      OBVIOUS
    <2> HIDE DEF T
    <2>2. t <= n - m /\ m \in Nat /\ x \in Nat
      BY <2>1, <1>0, <1>2, <1>3
    <2>3. QED
      BY <2>2, <1>3
  <1>5. QED
    BY <1>4 DEF Max

\* Beginnings and rests of s.
LEMMA Rests ==
  ASSUME NEW B, NEW s \in Seq(B), NEW k \in 0..Len(s)
  PROVE  /\ SubSeq(s, k + 1, Len(s)) \in Seq(B)
         /\ Len(SubSeq(s, k + 1, Len(s))) = Len(s) - k
         /\ \A i \in 1..Len(s) - k : SubSeq(s, k + 1, Len(s))[i] = s[k + i]
  OBVIOUS

LEMMA RestOfRest ==
  ASSUME NEW B, NEW s \in Seq(B), NEW k \in 0..Len(s), NEW m \in 0..Len(s) - k,
         NEW t, t = SubSeq(s, k + 1, Len(s))
  PROVE  SubSeq(t, m + 1, Len(t)) = SubSeq(s, k + m + 1, Len(s))
  <1>1. t \in Seq(B) /\ Len(t) = Len(s) - k /\ \A i \in 1..Len(s) - k : t[i] = s[k + i]
    BY Rests
  <1>2. /\ SubSeq(t, m + 1, Len(t)) \in Seq(B)
        /\ Len(SubSeq(t, m + 1, Len(t))) = Len(s) - k - m
        /\ \A i \in 1..Len(s) - k - m : SubSeq(t, m + 1, Len(t))[i] = s[k + m + i]
    BY <1>1
  <1>3. /\ SubSeq(s, k + m + 1, Len(s)) \in Seq(B)
        /\ Len(SubSeq(s, k + m + 1, Len(s))) = Len(s) - k - m
        /\ \A i \in 1..Len(s) - k - m : SubSeq(s, k + m + 1, Len(s))[i] = s[k + m + i]
    BY Rests
  <1>4. \A u, v \in Seq(B) : Len(u) = Len(v) /\ (\A i \in 1..Len(u) : u[i] = v[i]) => u = v
    OBVIOUS
  <1>5. QED
    BY <1>2, <1>3, <1>4

LEMMA RestOfLonger ==
  ASSUME NEW B, NEW x \in Seq(B), NEW y \in Seq(B), NEW k \in 0..Len(x)
  PROVE  /\ Len(x \o y) = Len(x) + Len(y)
         /\ \A i \in 1..Len(x) : (x \o y)[i] = x[i]
         /\ SubSeq(x \o y, k + 1, Len(x \o y)) = SubSeq(x, k + 1, Len(x)) \o y
  <1>0. x \o y \in Seq(B) /\ Len(x \o y) = Len(x) + Len(y) /\ k \in 0..Len(x \o y)
    OBVIOUS
  <1>1. \A i \in 1..Len(x) : (x \o y)[i] = x[i]
    OBVIOUS
  <1> DEFINE u == SubSeq(x \o y, k + 1, Len(x \o y))
             v == SubSeq(x, k + 1, Len(x)) \o y
  <1>2. /\ u \in Seq(B) /\ Len(u) = Len(x) + Len(y) - k
        /\ \A i \in 1..Len(x) + Len(y) - k : u[i] = (x \o y)[k + i]
    BY <1>0, Rests
  <1>3. /\ v \in Seq(B) /\ Len(v) = Len(x) + Len(y) - k
        /\ \A i \in 1..Len(x) + Len(y) - k : v[i] = (x \o y)[k + i]
    OBVIOUS
  <1> HIDE DEF u, v
  <1>4. \A i \in 1..Len(u) : u[i] = v[i]
    BY <1>2, <1>3
  <1>5. u = v
    BY <1>2, <1>3, <1>4, SMTT(60)
  <1>6. QED
    BY <1>0, <1>1, <1>5 DEF u, v

LEMMA PartOfLonger ==
  ASSUME NEW B, NEW x \in Seq(B), NEW y \in Seq(B), NEW a \in Nat \ {0}, NEW b \in Int, b <= Len(x)
  PROVE  SubSeq(x \o y, a, b) = SubSeq(x, a, b)
  <1> DEFINE u == SubSeq(x \o y, a, b)
             v == SubSeq(x, a, b)
  <1>1. CASE b < a
    BY <1>1
  <1>2. CASE b >= a
    <2>1. /\ u \in Seq(B) /\ Len(u) = b - a + 1
          /\ \A i \in 1..b - a + 1 : u[i] = x[a + i - 1]
      BY <1>2
    <2>2. /\ v \in Seq(B) /\ Len(v) = b - a + 1
          /\ \A i \in 1..b - a + 1 : v[i] = x[a + i - 1]
      BY <1>2
    <2> HIDE DEF u, v
    <2>3. u = v
      BY <2>1, <2>2
    <2>4. QED
      BY <2>3 DEF u, v
  <1>3. QED
    BY <1>1, <1>2

-----------------------------------------------------------------------------
(***************************************************************************)
(* The lines and the numbers of the protocol.                              *)
(***************************************************************************)

LEMMA Newline ==
  ASSUME NEW B, NEW x \in Seq(B)
  PROVE  \/ seekNewline(x) = -1
         \/ /\ seekNewline(x) \in Nat /\ seekNewline(x) + 2 <= Len(x)
            /\ x[seekNewline(x) + 1] = "\r" /\ x[seekNewline(x) + 2] = "\n"
            /\ \A i \in 1..seekNewline(x) : ~(x[i] = "\r" /\ x[i + 1] = "\n")
  <1> DEFINE at == {i \in 1..Len(x) - 1 : x[i] = "\r" /\ x[i + 1] = "\n"}
  <1>1. seekNewline(x) = IF at = {} THEN -1 ELSE Min(at) - 1
    BY DEF seekNewline
  <1>2. CASE at # {}
    <2>0. at \subseteq Nat
      OBVIOUS
    <2>1. Min(at) \in at /\ \A m \in at : Min(at) <= m
      BY <1>2, <2>0, MinIs
    <2>2. \A i \in 1..Min(at) - 1 : ~(x[i] = "\r" /\ x[i + 1] = "\n")
      <3> SUFFICES ASSUME NEW i \in 1..Min(at) - 1, x[i] = "\r" /\ x[i + 1] = "\n" PROVE FALSE
        OBVIOUS
      <3>1. i \in at /\ i < Min(at)
        BY <2>1
      <3>2. QED
        BY <3>1, <2>1
    <2> HIDE DEF at
    <2>3. Min(at) \in 1..Len(x) - 1 /\ x[Min(at)] = "\r" /\ x[Min(at) + 1] = "\n"
      BY <2>1 DEF at
    <2>4. QED
      BY <1>1, <1>2, <2>2, <2>3
  <1>3. QED
    BY <1>1, <1>2

LEMMA NewlineOfLonger ==
  ASSUME NEW B, NEW x \in Seq(B), NEW y \in Seq(B), seekNewline(x) >= 0
  PROVE  seekNewline(x \o y) = seekNewline(x)
  <1> DEFINE at == {i \in 1..Len(x) - 1 : x[i] = "\r" /\ x[i + 1] = "\n"}
             later == {i \in 1..Len(x \o y) - 1 : (x \o y)[i] = "\r" /\ (x \o y)[i + 1] = "\n"}
  <1>1. /\ seekNewline(x) = IF at = {} THEN -1 ELSE Min(at) - 1
        /\ seekNewline(x \o y) = IF later = {} THEN -1 ELSE Min(later) - 1
    BY DEF seekNewline
  <1>2. at # {} /\ at \subseteq Nat /\ later \subseteq Nat
    BY <1>1
  <1>3. Min(at) \in at /\ \A m \in at : Min(at) <= m
    BY <1>2, MinIs
  <1>4. /\ Len(x \o y) = Len(x) + Len(y)
        /\ \A i \in 1..Len(x) : (x \o y)[i] = x[i]
    OBVIOUS
  <1>5. at \subseteq later
    BY <1>4
  <1>6. Min(later) \in later /\ \A m \in later : Min(later) <= m
    BY <1>2, <1>5, MinIs
  <1>7. \A m \in later : m < Len(x) => m \in at
    BY <1>4
  <1>8. Min(at) < Len(x) /\ Min(at) \in Nat /\ Min(later) \in Nat
    <2>1. \A i \in at : i < Len(x) /\ i \in Nat
      OBVIOUS
    <2>2. QED
      BY <1>2, <1>3, <1>6, <2>1
  <1> HIDE DEF at, later
  <1>9. Min(at) = Min(later)
    BY <1>3, <1>5, <1>6, <1>7, <1>8
  <1>10. QED
    BY <1>1, <1>2, <1>5, <1>9

\* g iterates h from a: its values at 0, 1, .., n.
Iterates(g, n, W, a, h) ==
  g \in [0..n -> W] /\ g[0] = a /\ \A k \in 1..n : g[k] = h[k][g[k - 1]]

LEMMA Iteration ==
  ASSUME NEW n \in Nat, NEW W, NEW a \in W, NEW h \in [1..n -> [W -> W]]
  PROVE  \E g : Iterates(g, n, W, a, h)
  <1> DEFINE Is(g, m) == g = [k \in 0..m |-> IF k = 0 THEN a ELSE h[k][g[k - 1]]]
             S == {m \in Nat : m <= n => \E g \in [0..m -> W] : Is(g, m)}
  <1>1. 0 \in S
    <2>1. [k \in 0..0 |-> a] \in [0..0 -> W] /\ Is([k \in 0..0 |-> a], 0)
      OBVIOUS
    <2>2. QED
      BY <2>1
  <1>2. ASSUME NEW m \in Nat, m \in S
        PROVE  m + 1 \in S
    <2>1. SUFFICES ASSUME m + 1 <= n PROVE \E g \in [0..m + 1 -> W] : Is(g, m + 1)
      OBVIOUS
    <2>2. PICK g \in [0..m -> W] : Is(g, m)
      BY <1>2, <2>1
    <2> DEFINE f == [k \in 0..m + 1 |-> IF k <= m THEN g[k] ELSE h[m + 1][g[m]]]
    <2>3. h[m + 1][g[m]] \in W
      BY <2>1
    <2>4. f \in [0..m + 1 -> W]
      BY <2>3
    <2>5. \A k \in 0..m : g[k] = IF k = 0 THEN a ELSE h[k][g[k - 1]]
      BY <2>2
    <2>6. f[m + 1] = h[m + 1][g[m]] /\ \A k \in 0..m : f[k] = g[k]
      OBVIOUS
    <2> HIDE DEF f
    <2>7. ASSUME NEW k \in 0..m + 1
          PROVE  f[k] = IF k = 0 THEN a ELSE h[k][f[k - 1]]
      <3>1. CASE k = m + 1
        <4>1. k - 1 = m /\ k # 0 /\ m \in 0..m
          BY <3>1
        <4>2. f[k - 1] = g[m]
          BY <4>1, <2>6
        <4>3. QED
          BY <2>6, <3>1, <4>1, <4>2
      <3>2. CASE k = 0
        <4>1. 0 \in 0..m /\ k \in 0..m
          BY <3>2
        <4>2. g[0] = a
          BY <2>5, <4>1
        <4>3. QED
          BY <2>6, <3>2, <4>1, <4>2
      <3>3. CASE k \in 1..m
        <4>1. k - 1 \in 0..m /\ k \in 0..m /\ k # 0
          BY <3>3
        <4>2. QED
          BY <2>5, <2>6, <4>1
      <3>4. QED
        BY <3>1, <3>2, <3>3
    <2>8. Is(f, m + 1)
      BY <2>4, <2>7
    <2>9. QED
      BY <2>4, <2>8
  <1> HIDE DEF S
  <1>3. n \in S
    BY <1>1, <1>2, Induct
  <1>4. PICK g \in [0..n -> W] : Is(g, n)
    BY <1>3 DEF S
  <1>5. \A k \in 0..n : g[k] = IF k = 0 THEN a ELSE h[k][g[k - 1]]
    BY <1>4
  <1>6. 0 \in 0..n /\ \A k \in 1..n : k \in 0..n /\ k # 0
    OBVIOUS
  <1>7. g[0] = a /\ \A k \in 1..n : g[k] = h[k][g[k - 1]]
    BY <1>5, <1>6
  <1>8. QED
    BY <1>7 DEF Iterates

LEMMA DecimalIsNat ==
  ASSUME NEW B, NEW d \in Seq(B), \A i \in 1..Len(d) : d[i] \in DOMAIN DigitOf
  PROVE  Decimal(d) \in Nat
  <1> DEFINE n == Len(d)
             Is(g) == g = [i \in 0..n |-> IF i = 0 THEN 0 ELSE 10 * g[i - 1] + DigitOf[d[i]]]
             v == CHOOSE g : Is(g)
             h == [k \in 1..n |-> [w \in Nat |-> 10 * w + DigitOf[d[k]]]]
  <1>0. n \in Nat
    OBVIOUS
  <1>1. Decimal(d) = v[n]
    BY DEF Decimal
  <1>2. \A i \in 1..n : DigitOf[d[i]] \in Nat
    <2>1. \A c \in DOMAIN DigitOf : DigitOf[c] \in 0..9
      <3> SUFFICES ASSUME NEW c \in ToSet(Figures)
                   PROVE  (CHOOSE m \in 0..9 : Figures[m + 1] = c) \in 0..9
        BY DEF DigitOf
      <3>1. PICK j \in 1..10 : c = Figures[j]
        BY DEF ToSet, Figures
      <3>2. j - 1 \in 0..9 /\ Figures[(j - 1) + 1] = c
        BY <3>1
      <3>3. QED
        BY <3>2
    <2>2. QED
      BY <2>1
  <1> HIDE DEF v
  <1>3. h \in [1..n -> [Nat -> Nat]]
    BY <1>2
  <1>4. PICK g : g \in [0..n -> Nat] /\ g[0] = 0 /\ \A k \in 1..n : g[k] = h[k][g[k - 1]]
    <2> HIDE DEF h, n
    <2>1. 0 \in Nat
      OBVIOUS
    <2>2. \E g : Iterates(g, n, Nat, 0, h)
      BY <1>0, <1>3, <2>1, Iteration, Zenon
    <2>3. QED
      BY <2>2 DEF Iterates
  <1>5. Is(g)
    <2>1. ASSUME NEW k \in 1..n
          PROVE  h[k][g[k - 1]] = 10 * g[k - 1] + DigitOf[d[k]]
      <3>1. g[k - 1] \in Nat
        <4>1. k - 1 \in 0..n
          OBVIOUS
        <4> HIDE DEF h
        <4>2. QED
          BY <4>1, <1>4
      <3>2. h[k] = [w \in Nat |-> 10 * w + DigitOf[d[k]]]
        OBVIOUS
      <3> HIDE DEF h
      <3>3. QED
        BY <3>1, <3>2
    <2> HIDE DEF h
    <2>2. \A k \in 0..n : k # 0 => k \in 1..n
      OBVIOUS
    <2>3. \A k \in 0..n : g[k] = IF k = 0 THEN 0 ELSE 10 * g[k - 1] + DigitOf[d[k]]
      BY <1>4, <2>1, <2>2
    <2>4. QED
      BY <1>4, <2>3
  <1>6. Is(v)
    BY <1>5 DEF v
  <1>7. n \in {k \in Nat : k <= n => v[k] \in Nat}
    <2> DEFINE S == {k \in Nat : k <= n => v[k] \in Nat}
    <2> HIDE DEF n
    <2>1. 0 \in S
      BY <1>0, <1>6
    <2>2. ASSUME NEW k \in Nat, k \in S
          PROVE  k + 1 \in S
      <3>1. ASSUME k + 1 <= n
            PROVE  v[k + 1] \in Nat
        <4>1. v[k] \in Nat /\ k + 1 \in 1..n /\ k + 1 \in 0..n /\ (k + 1) - 1 = k
          BY <3>1, <2>2, <1>0
        <4>2. v[k + 1] = 10 * v[k] + DigitOf[d[k + 1]]
          <5>1. \A i \in 0..n : v[i] = IF i = 0 THEN 0 ELSE 10 * v[i - 1] + DigitOf[d[i]]
            BY <1>6
          <5>2. QED
            BY <4>1, <5>1
        <4>3. QED
          BY <4>1, <4>2, <1>2
      <3>2. QED
        BY <3>1
    <2> HIDE DEF S
    <2>3. n \in S
      BY <1>0, <2>1, <2>2, Induct
    <2>4. QED
      BY <2>3 DEF S
  <1>8. QED
    BY <1>1, <1>7

LEMMA NumbersAreInt ==
  ASSUME NEW B, NEW line \in Seq(B)
  PROVE  readLongLong(line) \in Int
  <1> DEFINE stops  == {i \in 1..Len(line) : line[i] = "\r"}
             number == IF stops = {} THEN line ELSE SubSeq(line, 1, Min(stops) - 1)
             signed == number # <<>> /\ number[1] \in {"-", "+"}
             digits == IF signed THEN Tail(number) ELSE number
  <1>1. number \in Seq(B)
    <2>1. CASE stops # {}
      <3>1. Min(stops) \in stops
        <4>1. stops \subseteq Nat
          OBVIOUS
        <4> HIDE DEF stops
        <4>2. QED
          BY <4>1, <2>1, MinIs
      <3>2. Min(stops) \in 1..Len(line)
        BY <3>1
      <3> HIDE DEF stops
      <3>3. QED
        BY <3>2
    <2>2. QED
      BY <2>1
  <1>2. digits \in Seq(B)
    <2> HIDE DEF number
    <2>1. QED
      BY <1>1
  <1>3. readLongLong(line) =
          IF \E i \in 1..Len(digits) : digits[i] \notin DOMAIN DigitOf THEN -1
          ELSE (IF signed /\ number[1] = "-" THEN -1 ELSE 1) * Decimal(digits)
    BY Zenon DEF readLongLong
  <1> HIDE DEF digits, signed
  <1>4. (\A i \in 1..Len(digits) : digits[i] \in DOMAIN DigitOf) => Decimal(digits) \in Nat
    BY <1>2, DecimalIsNat
  <1>5. QED
    BY <1>3, <1>4

-----------------------------------------------------------------------------
(***************************************************************************)
(* Readers, and one like another with more bytes behind it.                *)
(***************************************************************************)

TaskType == {"none", "error", "status", "integer", "string", "array"}

\* The item being read; the tasks under it are arrays, and nothing looks at them here.
Item == [type : TaskType, elements : {0}, items : {<<>>}]

Stack(T) == (\E S : T \in Seq(S)) /\ Len(T) <= 9 /\ (T # <<>> => Last(T) \in Item)

ReaderOf(buf, pos, rstack, reply, err) ==
  [buf |-> buf, pos |-> pos, rstack |-> rstack, reply |-> reply, err |-> err]

IsRecord(r) == r = ReaderOf(r.buf, r.pos, r.rstack, r.reply, r.err)

\* A reader of symbols in B.
Reader(r, B) ==
  /\ IsRecord(r)
  /\ r.buf \in Seq(B) /\ r.pos \in 0..Len(r.buf)
  /\ Stack(r.rstack)

\* Nothing but the bytes left in r matters beside its stack, its reply and its error;
\* s is like r with the bytes y behind them.
Longer(r, s, y, B) ==
  /\ Reader(r, B) /\ Reader(s, B)
  /\ Left(s) = Left(r) \o y
  /\ s.rstack = r.rstack /\ s.reply = r.reply /\ s.err = r.err

LEMMA Fields ==
  ASSUME NEW b, NEW p, NEW t, NEW e, NEW x
  PROVE  /\ ReaderOf(b, p, t, e, x).buf = b /\ ReaderOf(b, p, t, e, x).pos = p
         /\ ReaderOf(b, p, t, e, x).rstack = t /\ ReaderOf(b, p, t, e, x).reply = e
         /\ ReaderOf(b, p, t, e, x).err = x
         /\ IsRecord(ReaderOf(b, p, t, e, x))
  BY DEF ReaderOf, IsRecord

\* A reader with a field set, or two.
LEMMA SetPos ==
  ASSUME NEW r, IsRecord(r), NEW n, NEW u
  PROVE  [r EXCEPT !.pos = n] = ReaderOf(r.buf, n, r.rstack, r.reply, r.err)
  <1>1. PICK b, p, t, e, x : r = ReaderOf(b, p, t, e, x)
    BY DEF IsRecord
  <1>2. r.buf = b /\ r.pos = p /\ r.rstack = t /\ r.reply = e /\ r.err = x
    BY <1>1, Fields
  <1>3. [r EXCEPT !.pos = n] = ReaderOf(b, n, t, e, x)
    BY <1>1 DEF ReaderOf
  <1>4. QED
    BY <1>2, <1>3

LEMMA SetBuf ==
  ASSUME NEW r, IsRecord(r), NEW n, NEW u
  PROVE  [r EXCEPT !.buf = n] = ReaderOf(n, r.pos, r.rstack, r.reply, r.err)
  <1>1. PICK b, p, t, e, x : r = ReaderOf(b, p, t, e, x)
    BY DEF IsRecord
  <1>2. r.buf = b /\ r.pos = p /\ r.rstack = t /\ r.reply = e /\ r.err = x
    BY <1>1, Fields
  <1>3. [r EXCEPT !.buf = n] = ReaderOf(n, p, t, e, x)
    BY <1>1 DEF ReaderOf
  <1>4. QED
    BY <1>2, <1>3

LEMMA SetStack ==
  ASSUME NEW r, IsRecord(r), NEW n, NEW u
  PROVE  [r EXCEPT !.rstack = u] = ReaderOf(r.buf, r.pos, u, r.reply, r.err)
  <1>1. PICK b, p, t, e, x : r = ReaderOf(b, p, t, e, x)
    BY DEF IsRecord
  <1>2. r.buf = b /\ r.pos = p /\ r.rstack = t /\ r.reply = e /\ r.err = x
    BY <1>1, Fields
  <1>3. [r EXCEPT !.rstack = u] = ReaderOf(b, p, u, e, x)
    BY <1>1 DEF ReaderOf
  <1>4. QED
    BY <1>2, <1>3

LEMMA SetReply ==
  ASSUME NEW r, IsRecord(r), NEW n, NEW u
  PROVE  [r EXCEPT !.reply = u] = ReaderOf(r.buf, r.pos, r.rstack, u, r.err)
  <1>1. PICK b, p, t, e, x : r = ReaderOf(b, p, t, e, x)
    BY DEF IsRecord
  <1>2. r.buf = b /\ r.pos = p /\ r.rstack = t /\ r.reply = e /\ r.err = x
    BY <1>1, Fields
  <1>3. [r EXCEPT !.reply = u] = ReaderOf(b, p, t, u, x)
    BY <1>1 DEF ReaderOf
  <1>4. QED
    BY <1>2, <1>3

LEMMA SetPosStack ==
  ASSUME NEW r, IsRecord(r), NEW n, NEW u
  PROVE  [r EXCEPT !.pos = n, !.rstack = u] = ReaderOf(r.buf, n, u, r.reply, r.err)
  <1>1. PICK b, p, t, e, x : r = ReaderOf(b, p, t, e, x)
    BY DEF IsRecord
  <1>2. r.buf = b /\ r.pos = p /\ r.rstack = t /\ r.reply = e /\ r.err = x
    BY <1>1, Fields
  <1>3. [r EXCEPT !.pos = n, !.rstack = u] = ReaderOf(b, n, u, e, x)
    <2>1. [r EXCEPT !.pos = n, !.rstack = u] = [[r EXCEPT !.pos = n] EXCEPT !.rstack = u]
      OBVIOUS
    <2>2. [r EXCEPT !.pos = n] = ReaderOf(b, n, t, e, x)
      BY <1>1 DEF ReaderOf
    <2>3. [ReaderOf(b, n, t, e, x) EXCEPT !.rstack = u] = ReaderOf(b, n, u, e, x)
      BY DEF ReaderOf
    <2>4. QED
      BY <2>1, <2>2, <2>3
  <1>4. QED
    BY <1>2, <1>3

LEMMA SetStackReply ==
  ASSUME NEW r, IsRecord(r), NEW n, NEW u
  PROVE  [r EXCEPT !.rstack = n, !.reply = u] = ReaderOf(r.buf, r.pos, n, u, r.err)
  <1>1. PICK b, p, t, e, x : r = ReaderOf(b, p, t, e, x)
    BY DEF IsRecord
  <1>2. r.buf = b /\ r.pos = p /\ r.rstack = t /\ r.reply = e /\ r.err = x
    BY <1>1, Fields
  <1>3. [r EXCEPT !.rstack = n, !.reply = u] = ReaderOf(b, p, n, u, x)
    <2>1. [r EXCEPT !.rstack = n, !.reply = u] = [[r EXCEPT !.rstack = n] EXCEPT !.reply = u]
      OBVIOUS
    <2>2. [r EXCEPT !.rstack = n] = ReaderOf(b, p, n, e, x)
      BY <1>1 DEF ReaderOf
    <2>3. [ReaderOf(b, p, n, e, x) EXCEPT !.reply = u] = ReaderOf(b, p, n, u, x)
      BY DEF ReaderOf
    <2>4. QED
      BY <2>1, <2>2, <2>3
  <1>4. QED
    BY <1>2, <1>3

LEMMA SetBufPos ==
  ASSUME NEW r, IsRecord(r), NEW n, NEW u
  PROVE  [r EXCEPT !.buf = u, !.pos = n] = ReaderOf(u, n, r.rstack, r.reply, r.err)
  <1>1. PICK b, p, t, e, x : r = ReaderOf(b, p, t, e, x)
    BY DEF IsRecord
  <1>2. r.buf = b /\ r.pos = p /\ r.rstack = t /\ r.reply = e /\ r.err = x
    BY <1>1, Fields
  <1>3. [r EXCEPT !.buf = u, !.pos = n] = ReaderOf(u, n, t, e, x)
    <2>1. [r EXCEPT !.buf = u, !.pos = n] = [[r EXCEPT !.buf = u] EXCEPT !.pos = n]
      OBVIOUS
    <2>2. [r EXCEPT !.buf = u] = ReaderOf(u, p, t, e, x)
      BY <1>1 DEF ReaderOf
    <2>3. [ReaderOf(u, p, t, e, x) EXCEPT !.pos = n] = ReaderOf(u, n, t, e, x)
      BY DEF ReaderOf
    <2>4. QED
      BY <2>1, <2>2, <2>3
  <1>4. QED
    BY <1>2, <1>3

LEMMA LeftIs ==
  ASSUME NEW B, NEW r, Reader(r, B)
  PROVE  /\ Left(r) \in Seq(B) /\ Len(Left(r)) = Len(r.buf) - r.pos
         /\ \A i \in 1..Len(Left(r)) : Left(r)[i] = r.buf[r.pos + i]
  BY Rests DEF Reader, Left

LEMMA LeftAfter ==
  ASSUME NEW B, NEW r, Reader(r, B), NEW k \in 0..Len(Left(r)), NEW s, s.buf = r.buf, s.pos = r.pos + k
  PROVE  /\ s.pos \in 0..Len(r.buf)
         /\ Left(s) = SubSeq(Left(r), k + 1, Len(Left(r)))
         /\ Len(Left(s)) = Len(Left(r)) - k
  <1>1. r.buf \in Seq(B) /\ r.pos \in 0..Len(r.buf) /\ Len(Left(r)) = Len(r.buf) - r.pos
    BY LeftIs DEF Reader
  <1>2. k \in 0..Len(r.buf) - r.pos
    BY <1>1
  <1>3. SubSeq(Left(r), k + 1, Len(Left(r))) = SubSeq(r.buf, r.pos + k + 1, Len(r.buf))
    BY <1>1, <1>2, RestOfRest DEF Left
  <1>4. Left(s) = SubSeq(r.buf, r.pos + k + 1, Len(r.buf))
    BY DEF Left
  <1>5. Len(Left(s)) = Len(r.buf) - (r.pos + k)
    BY <1>1, <1>2, <1>4, Rests
  <1>6. Len(r.buf) \in Nat /\ r.pos \in Nat /\ k \in Nat /\ r.pos + k <= Len(r.buf)
    BY <1>1, <1>2
  <1>7. s.pos \in 0..Len(r.buf) /\ Len(Left(s)) = Len(Left(r)) - k
    BY <1>1, <1>5, <1>6
  <1>8. QED
    BY <1>3, <1>4, <1>7

-----------------------------------------------------------------------------
(***************************************************************************)
(* Moving to the next task.                                                *)
(***************************************************************************)

\* The first array under the item that is not complete with it, or 0.
Prv(T) == Max({0} \cup {i \in 1..Len(T) - 1 : Len(T[i].items) + 1 # T[i].elements})

Done(T, obj) ==
  LET done[i \in Prv(T) + 1..Len(T)] ==
        IF i = Len(T) THEN obj ELSE createArrayObject(Append(T[i].items, done[i + 1]))
  IN  done

Pushed(T, obj) ==
  SubSeq(T, 1, Prv(T) - 1)
    \o <<[T[Prv(T)] EXCEPT !.items = Append(T[Prv(T)].items, Done(T, obj)[Prv(T) + 1])], NewTask>>

LEMMA MoveForm ==
  ASSUME NEW r, NEW obj
  PROVE  moveToNextTask(r, obj) =
           IF Prv(r.rstack) = 0 THEN [r EXCEPT !.rstack = <<>>, !.reply = Done(r.rstack, obj)[1]]
           ELSE [r EXCEPT !.rstack = Pushed(r.rstack, obj)]
  BY Zenon DEF moveToNextTask, Prv, Done, Pushed

LEMMA PrvIs ==
  ASSUME NEW T, Stack(T), T # <<>>
  PROVE  Prv(T) \in 0..Len(T) - 1 /\ Len(T) \in 1..9
  <1>1. PICK S : T \in Seq(S)
    BY DEF Stack
  <1>2. Len(T) \in Nat /\ Len(T) > 0 /\ Len(T) <= 9
    BY <1>1 DEF Stack
  <1> DEFINE at == {0} \cup {i \in 1..Len(T) - 1 : Len(T[i].items) + 1 # T[i].elements}
  <1>3. at \subseteq 0..Len(T) - 1 /\ at # {}
    BY <1>2
  <1>4. Len(T) - 1 \in Nat
    BY <1>2
  <1>5. Max(at) \in at
    <2> HIDE DEF at
    <2>1. QED
      BY <1>3, <1>4, MaxIs
  <1>6. Prv(T) = Max(at)
    BY DEF Prv
  <1> HIDE DEF at
  <1>7. Prv(T) \in 0..Len(T) - 1
    BY <1>3, <1>5, <1>6
  <1>8. Len(T) \in 1..9
    <2> DEFINE n == Len(T)
    <2>1. n \in Nat /\ n > 0 /\ n <= 9
      BY <1>2
    <2> HIDE DEF n
    <2>2. n \in 1..9
      BY <2>1
    <2>3. QED
      BY <2>2 DEF n
  <1>9. QED
    BY <1>7, <1>8

\* The reply that completes an item is one.
LEMMA DoneIs ==
  ASSUME NEW T, Len(T) \in Nat, Prv(T) \in 0..Len(T) - 1, NEW obj, obj.type # "none"
  PROVE  Done(T, obj)[Prv(T) + 1] # NoReply
  <1> DEFINE n == Len(T)
             low == Prv(T) + 1
             A(i, x) == createArrayObject(Append(T[i].items, x))
             Is(f, m) == f = [i \in n - m..n |-> IF i = n THEN obj ELSE A(i, f[i + 1])]
             S == {m \in Nat : m <= n - low => \E f : Is(f, m)}
             v == CHOOSE f : f = [i \in low..n |-> IF i = n THEN obj ELSE A(i, f[i + 1])]
  <1>0. n \in Nat /\ low \in 1..n
    OBVIOUS
  <1>1. Done(T, obj) = v
    BY Zenon DEF Done
  <1>2. \A i, x : A(i, x) # NoReply
    BY DEF createArrayObject, NoReply
  <1>3. obj # NoReply
    BY DEF NoReply
  <1> HIDE DEF A, n, low
  <1>4. 0 \in S
    <2>1. Is([i \in n - 0..n |-> obj], 0)
      BY <1>0
    <2>2. QED
      BY <2>1
  <1>5. ASSUME NEW m \in Nat, m \in S
        PROVE  m + 1 \in S
    <2>1. SUFFICES ASSUME m + 1 <= n - low PROVE \E f : Is(f, m + 1)
      OBVIOUS
    <2>2. PICK f : Is(f, m)
      BY <1>0, <1>5, <2>1
    <2> DEFINE g == [i \in n - (m + 1)..n |-> IF i \in n - m..n THEN f[i] ELSE A(i, f[i + 1])]
    <2>3. \A i \in n - m..n : f[i] = IF i = n THEN obj ELSE A(i, f[i + 1])
      BY <2>2
    <2>4. /\ \A i \in n - m..n : g[i] = f[i]
          /\ \A i \in n - (m + 1)..n : i \notin n - m..n => g[i] = A(i, f[i + 1])
      BY <1>0
    <2>5. ASSUME NEW i \in n - (m + 1)..n
          PROVE  g[i] = IF i = n THEN obj ELSE A(i, g[i + 1])
      <3> HIDE DEF g
      <3>1. CASE i = n
        <4>1. i \in n - m..n
          BY <3>1, <1>0
        <4>2. QED
          BY <2>3, <2>4, <3>1, <4>1
      <3>2. CASE i # n
        <4>1. i + 1 \in n - m..n
          BY <3>2, <1>0
        <4>2. CASE i \in n - m..n
          BY <2>3, <2>4, <3>2, <4>1, <4>2
        <4>3. CASE i \notin n - m..n
          BY <2>4, <3>2, <4>1, <4>3
        <4>4. QED
          BY <4>2, <4>3
      <3>3. QED
        BY <3>1, <3>2
    <2>6. g = [i \in n - (m + 1)..n |-> g[i]]
      OBVIOUS
    <2> HIDE DEF g
    <2>7. Is(g, m + 1)
      BY <2>5, <2>6
    <2>8. QED
      BY <2>7
  <1>6. n - low \in S
    <2> HIDE DEF S
    <2>1. QED
      BY <1>0, <1>4, <1>5, Induct, SMTT(60)
  <1>7. PICK f : Is(f, n - low)
    BY <1>6
  <1>8. n - (n - low) = low
    BY <1>0
  <1>9. f = [i \in low..n |-> IF i = n THEN obj ELSE A(i, f[i + 1])]
    BY <1>7, <1>8
  <1> HIDE DEF S, Is
  <1>10. v = [i \in low..n |-> IF i = n THEN obj ELSE A(i, v[i + 1])]
    BY <1>9
  <1> HIDE DEF v
  <1>11. v[low] = IF low = n THEN obj ELSE A(low, v[low + 1])
    BY <1>0, <1>10
  <1>12. v[low] # NoReply
    BY <1>2, <1>3, <1>11
  <1>13. QED
    BY <1>1, <1>12 DEF low

LEMMA PushedIs ==
  ASSUME NEW T, Stack(T), T # <<>>, Prv(T) # 0, NEW obj
  PROVE  Stack(Pushed(T, obj)) /\ Pushed(T, obj) # <<>> /\ Last(Pushed(T, obj)) = NewTask
  <1>1. PICK S : T \in Seq(S)
    BY DEF Stack
  <1>2. Prv(T) \in 1..Len(T) - 1 /\ Len(T) \in 1..9
    BY PrvIs
  <1> DEFINE a == [T[Prv(T)] EXCEPT !.items = Append(T[Prv(T)].items, Done(T, obj)[Prv(T) + 1])]
             U == S \cup {a, NewTask}
             front == SubSeq(T, 1, Prv(T) - 1)
  <1>3. front \in Seq(U) /\ Len(front) = Prv(T) - 1
    BY <1>1, <1>2
  <1>4. Pushed(T, obj) = front \o <<a, NewTask>>
    BY Zenon DEF Pushed
  <1> HIDE DEF a, front
  <1>5. <<a, NewTask>> \in Seq(U) /\ Len(<<a, NewTask>>) = 2 /\ <<a, NewTask>>[2] = NewTask
    OBVIOUS
  <1> HIDE DEF U
  <1>6. /\ Pushed(T, obj) \in Seq(U) /\ Len(Pushed(T, obj)) = Prv(T) + 1
        /\ Pushed(T, obj)[Prv(T) + 1] = NewTask
    BY <1>2, <1>3, <1>4, <1>5
  <1>7. NewTask \in Item
    BY DEF NewTask, Item, TaskType
  <1> HIDE DEF NewTask
  <1>8. Last(Pushed(T, obj)) = NewTask
    BY <1>6 DEF Last
  <1>9. QED
    BY <1>2, <1>6, <1>7, <1>8 DEF Stack

\* What moving to the next task makes of the stack and of the reply depends on them alone.
LEMMA Moved ==
  ASSUME NEW B, NEW r, Reader(r, B), r.rstack # <<>>, NEW obj, NEW p, p = moveToNextTask(r, obj)
  PROVE  /\ p = ReaderOf(r.buf, r.pos,
                         IF Prv(r.rstack) = 0 THEN <<>> ELSE Pushed(r.rstack, obj),
                         IF Prv(r.rstack) = 0 THEN Done(r.rstack, obj)[1] ELSE r.reply, r.err)
         /\ Stack(p.rstack) /\ (p.rstack = <<>> \/ Last(p.rstack) = NewTask)
         /\ p.rstack = <<>> <=> Prv(r.rstack) = 0
  <1>1. IsRecord(r) /\ Stack(r.rstack)
    BY DEF Reader
  <1>2. p = IF Prv(r.rstack) = 0 THEN [r EXCEPT !.rstack = <<>>, !.reply = Done(r.rstack, obj)[1]]
           ELSE [r EXCEPT !.rstack = Pushed(r.rstack, obj)]
    BY MoveForm, Zenon
  <1>3. CASE Prv(r.rstack) = 0
    <2>0. p = [r EXCEPT !.rstack = <<>>, !.reply = Done(r.rstack, obj)[1]]
      BY <1>2, <1>3, Zenon
    <2>1. p = ReaderOf(r.buf, r.pos, <<>>, Done(r.rstack, obj)[1], r.err)
      BY <1>1, <2>0, SetStackReply, Zenon
    <2>2. p.rstack = <<>>
      BY <2>1, Fields
    <2>3. Stack(<<>>)
      <3>1. <<>> \in Seq({}) /\ Len(<<>>) = 0
        OBVIOUS
      <3>2. QED
        BY <3>1 DEF Stack
    <2>4. QED
      BY <1>3, <2>1, <2>2, <2>3
  <1>4. CASE Prv(r.rstack) # 0
    <2>0. p = [r EXCEPT !.rstack = Pushed(r.rstack, obj)]
      BY <1>2, <1>4, Zenon
    <2>1. p = ReaderOf(r.buf, r.pos, Pushed(r.rstack, obj), r.reply, r.err)
      BY <1>1, <2>0, SetStack, Zenon
    <2>2. p.rstack = Pushed(r.rstack, obj)
      BY <2>1, Fields
    <2>3. QED
      BY <1>1, <1>4, <2>1, <2>2, PushedIs
  <1>5. QED
    BY <1>3, <1>4

NextStack(T, obj) == IF Prv(T) = 0 THEN <<>> ELSE Pushed(T, obj)
NextReply(T, obj, reply) == IF Prv(T) = 0 THEN Done(T, obj)[1] ELSE reply

\* p has taken k bytes or more from r without an error.
Took(p, r, k, B) ==
  /\ p.ok /\ Reader(p.r, B) /\ p.r.err = r.err
  /\ Len(Left(p.r)) <= Len(Left(r)) - k
  /\ p.r.rstack = <<>> \/ Last(p.r.rstack) = NewTask
  /\ p.r.rstack = <<>> => p.r.reply # NoReply

LEMMA ConsumedIs ==
  ASSUME NEW B, NEW r, Reader(r, B), r.rstack # <<>>, NEW k \in 0..Len(Left(r)), NEW obj, obj.type # "none",
         NEW p, p = Consumed(r, k, obj)
  PROVE  /\ Took(p, r, k, B)
         /\ p.r = ReaderOf(r.buf, r.pos + k, NextStack(r.rstack, obj),
                           NextReply(r.rstack, obj, r.reply), r.err)
         /\ Left(p.r) = SubSeq(Left(r), k + 1, Len(Left(r)))
  <1> DEFINE q == [r EXCEPT !.pos = @ + k]
  <1>1. IsRecord(r) /\ r.buf \in Seq(B) /\ Stack(r.rstack)
    BY DEF Reader
  <1>2. q = ReaderOf(r.buf, r.pos + k, r.rstack, r.reply, r.err)
    <2>1. [r EXCEPT !.pos = r.pos + k] = ReaderOf(r.buf, r.pos + k, r.rstack, r.reply, r.err)
      BY <1>1, SetPos
    <2>2. QED
      BY <2>1
  <1>3. p.ok = TRUE /\ p.r = moveToNextTask(q, obj)
    BY DEF Consumed, OK
  <1> HIDE DEF q
  <1>4. q.buf = r.buf /\ q.pos = r.pos + k /\ q.rstack = r.rstack /\ q.reply = r.reply /\ q.err = r.err /\ IsRecord(q)
    BY <1>2, Fields
  <1>5. Reader(q, B)
    BY <1>1, <1>4, LeftAfter DEF Reader
  <1>6. /\ p.r = ReaderOf(r.buf, r.pos + k, NextStack(r.rstack, obj),
                           NextReply(r.rstack, obj, r.reply), r.err)
        /\ Stack(p.r.rstack) /\ (p.r.rstack = <<>> \/ Last(p.r.rstack) = NewTask)
    <2> DEFINE t == p.r
    <2>1. t = moveToNextTask(q, obj) /\ q.rstack # <<>>
      BY <1>3, <1>4
    <2> HIDE DEF t
    <2>2. /\ t = ReaderOf(q.buf, q.pos, NextStack(q.rstack, obj), NextReply(q.rstack, obj, q.reply), q.err)
          /\ Stack(t.rstack) /\ (t.rstack = <<>> \/ Last(t.rstack) = NewTask)
      BY <1>5, <2>1, Moved DEF NextStack, NextReply
    <2>3. QED
      BY <1>4, <2>2, Zenon DEF t
  <1>7. IsRecord(p.r) /\ p.r.buf = r.buf /\ p.r.pos = r.pos + k /\ p.r.err = r.err
    BY <1>6, Fields
  <1>8. /\ p.r.pos \in 0..Len(r.buf) /\ Len(Left(p.r)) = Len(Left(r)) - k
        /\ Left(p.r) = SubSeq(Left(r), k + 1, Len(Left(r)))
    BY <1>7, LeftAfter
  <1>9. Len(Left(r)) \in Nat
    BY LeftIs
  <1>11. p.r.rstack = <<>> => p.r.reply # NoReply
    <2>1. /\ p.r.rstack = NextStack(r.rstack, obj) /\ p.r.reply = NextReply(r.rstack, obj, r.reply)
      BY <1>6, Fields
    <2>2. Prv(r.rstack) \in 0..Len(r.rstack) - 1 /\ Len(r.rstack) \in Nat
      BY <1>1, PrvIs
    <2>3. Done(r.rstack, obj)[Prv(r.rstack) + 1] # NoReply
      BY <2>2, DoneIs
    <2>4. p.r.rstack = <<>> => Prv(r.rstack) = 0
      BY <1>1, <2>1, PushedIs DEF NextStack
    <2>5. QED
      BY <2>1, <2>3, <2>4 DEF NextReply
  <1>10. QED
    BY <1>1, <1>3, <1>6, <1>7, <1>8, <1>9, <1>11 DEF Took, Reader

\* More bytes change nothing about what is consumed.
LEMMA ConsumedLonger ==
  ASSUME NEW B, NEW r, NEW s, NEW y \in Seq(B), Longer(r, s, y, B), r.rstack # <<>>,
         NEW k \in 0..Len(Left(r)), NEW obj, obj.type # "none",
         NEW p, NEW q, p = Consumed(r, k, obj), q = Consumed(s, k, obj)
  PROVE  Took(p, r, k, B) /\ q.ok /\ Longer(p.r, q.r, y, B)
  <1>1. /\ Reader(r, B) /\ Reader(s, B) /\ Left(s) = Left(r) \o y
        /\ s.rstack = r.rstack /\ s.reply = r.reply /\ s.err = r.err
    BY DEF Longer
  <1>2. Left(r) \in Seq(B)
    BY <1>1, LeftIs
  <1>3. /\ Len(Left(s)) = Len(Left(r)) + Len(y)
        /\ SubSeq(Left(s), k + 1, Len(Left(s))) = SubSeq(Left(r), k + 1, Len(Left(r))) \o y
    BY <1>1, <1>2, RestOfLonger
  <1>4. k \in 0..Len(Left(s))
    BY <1>2, <1>3
  <1>5. /\ Took(p, r, k, B)
        /\ p.r = ReaderOf(r.buf, r.pos + k, NextStack(r.rstack, obj),
                           NextReply(r.rstack, obj, r.reply), r.err)
        /\ Left(p.r) = SubSeq(Left(r), k + 1, Len(Left(r)))
    BY <1>1, ConsumedIs
  <1>6. /\ Took(q, s, k, B)
        /\ q.r = ReaderOf(s.buf, s.pos + k, NextStack(r.rstack, obj),
                           NextReply(r.rstack, obj, r.reply), r.err)
        /\ Left(q.r) = SubSeq(Left(s), k + 1, Len(Left(s)))
    BY <1>1, <1>4, ConsumedIs, ZenonT(60)
  <1>7. /\ p.r.rstack = NextStack(r.rstack, obj) /\ q.r.rstack = NextStack(r.rstack, obj)
        /\ p.r.reply = NextReply(r.rstack, obj, r.reply) /\ q.r.reply = NextReply(r.rstack, obj, r.reply)
        /\ p.r.err = r.err /\ q.r.err = r.err
    BY <1>5, <1>6, Fields
  <1>8. QED
    BY <1>3, <1>5, <1>6, <1>7 DEF Took, Longer

\* With an array begun, the same.
Begun(r, k, elements) ==
  OK([r EXCEPT !.pos = @ + k,
               !.rstack = Front(@) \o <<[type |-> "array", elements |-> elements, items |-> <<>>], NewTask>>])

LEMMA BegunIs ==
  ASSUME NEW B, NEW r, Reader(r, B), r.rstack # <<>>, Len(r.rstack) < 9, NEW k \in 0..Len(Left(r)), NEW n,
         NEW p, p = Begun(r, k, n)
  PROVE  /\ Took(p, r, k, B)
         /\ p.r = ReaderOf(r.buf, r.pos + k,
                           Front(r.rstack) \o <<[type |-> "array", elements |-> n, items |-> <<>>], NewTask>>,
                           r.reply, r.err)
         /\ Left(p.r) = SubSeq(Left(r), k + 1, Len(Left(r)))
  <1> DEFINE a == [type |-> "array", elements |-> n, items |-> <<>>]
             T == Front(r.rstack) \o <<a, NewTask>>
  <1>1. IsRecord(r) /\ r.buf \in Seq(B) /\ Stack(r.rstack)
    BY DEF Reader
  <1>2. p.ok = TRUE /\ p.r = ReaderOf(r.buf, r.pos + k, T, r.reply, r.err)
    <2>1. [r EXCEPT !.pos = r.pos + k, !.rstack = T] = ReaderOf(r.buf, r.pos + k, T, r.reply, r.err)
      <3> HIDE DEF T
      <3>1. QED
        BY <1>1, SetPosStack, Zenon
    <2>2. p.ok = TRUE /\ p.r = [r EXCEPT !.pos = r.pos + k, !.rstack = T]
      BY DEF Begun, OK
    <2>3. QED
      BY <2>1, <2>2
  <1>3. Stack(T) /\ T # <<>> /\ Last(T) = NewTask
    <2>1. PICK S : r.rstack \in Seq(S)
      BY <1>1 DEF Stack
    <2> DEFINE U == S \cup {a, NewTask}
               f == Front(r.rstack)
    <2>2. Len(r.rstack) \in 1..8
      <3>1. Len(r.rstack) \in Nat /\ Len(r.rstack) # 0
        BY <2>1
      <3> DEFINE m == Len(r.rstack)
      <3>2. m \in Nat /\ m # 0 /\ m < 9
        BY <3>1
      <3> HIDE DEF m
      <3>3. m \in 1..8
        BY <3>2
      <3>4. QED
        BY <3>3 DEF m
    <2>3. f \in Seq(U) /\ Len(f) = Len(r.rstack) - 1
      BY <2>1, <2>2 DEF Front
    <2> HIDE DEF f, a
    <2>4. <<a, NewTask>> \in Seq(U) /\ Len(<<a, NewTask>>) = 2 /\ <<a, NewTask>>[2] = NewTask
      OBVIOUS
    <2> HIDE DEF U
    <2>5. T = f \o <<a, NewTask>>
      BY DEF f
    <2> DEFINE m == Len(r.rstack)
    <2>13. m \in 1..8 /\ Len(f) = m - 1
      BY <2>2, <2>3
    <2> HIDE DEF T, m
    <2>6. T \in Seq(U) /\ Len(T) = m + 1 /\ T[m + 1] = NewTask
      BY <2>3, <2>4, <2>5, <2>13
    <2>7. NewTask \in Item
      BY DEF NewTask, Item, TaskType
    <2> HIDE DEF T, NewTask
    <2>8. Last(T) = NewTask
      BY <2>6 DEF Last
    <2>9. Len(T) <= 9 /\ T # <<>>
      BY <2>13, <2>6
    <2>10. QED
      BY <2>6, <2>7, <2>8, <2>9 DEF Stack
  <1> HIDE DEF T
  <1>4. IsRecord(p.r) /\ p.r.buf = r.buf /\ p.r.pos = r.pos + k /\ p.r.err = r.err /\ p.r.rstack = T
    BY <1>2, Fields
  <1>5. /\ p.r.pos \in 0..Len(r.buf) /\ Len(Left(p.r)) = Len(Left(r)) - k
        /\ Left(p.r) = SubSeq(Left(r), k + 1, Len(Left(r)))
    BY <1>4, LeftAfter
  <1>6. Len(Left(r)) \in Nat
    BY LeftIs
  <1>7. Took(p, r, k, B)
    BY <1>1, <1>2, <1>3, <1>4, <1>5, <1>6 DEF Took, Reader
  <1>8. QED
    BY <1>2, <1>5, <1>7 DEF T

LEMMA BegunLonger ==
  ASSUME NEW B, NEW r, NEW s, NEW y \in Seq(B), Longer(r, s, y, B), r.rstack # <<>>, Len(r.rstack) < 9,
         NEW k \in 0..Len(Left(r)), NEW n, NEW p, NEW q, p = Begun(r, k, n), q = Begun(s, k, n)
  PROVE  Took(p, r, k, B) /\ q.ok /\ Longer(p.r, q.r, y, B)
  <1>1. /\ Reader(r, B) /\ Reader(s, B) /\ Left(s) = Left(r) \o y
        /\ s.rstack = r.rstack /\ s.reply = r.reply /\ s.err = r.err
    BY DEF Longer
  <1>2. Left(r) \in Seq(B)
    BY <1>1, LeftIs
  <1>3. /\ Len(Left(s)) = Len(Left(r)) + Len(y)
        /\ SubSeq(Left(s), k + 1, Len(Left(s))) = SubSeq(Left(r), k + 1, Len(Left(r))) \o y
    BY <1>1, <1>2, RestOfLonger
  <1>4. k \in 0..Len(Left(s))
    BY <1>2, <1>3
  <1> DEFINE T == Front(r.rstack) \o <<[type |-> "array", elements |-> n, items |-> <<>>], NewTask>>
  <1>5. /\ Took(p, r, k, B)
        /\ p.r = ReaderOf(r.buf, r.pos + k, T, r.reply, r.err)
        /\ Left(p.r) = SubSeq(Left(r), k + 1, Len(Left(r)))
    BY <1>1, BegunIs, Zenon
  <1>6. /\ Took(q, s, k, B)
        /\ q.r = ReaderOf(s.buf, s.pos + k, T, r.reply, r.err)
        /\ Left(q.r) = SubSeq(Left(s), k + 1, Len(Left(s)))
    <2>1. s.rstack # <<>> /\ Len(s.rstack) < 9
      BY <1>1
    <2>2. /\ Took(q, s, k, B)
          /\ q.r = ReaderOf(s.buf, s.pos + k, 
                     Front(s.rstack) \o <<[type |-> "array", elements |-> n, items |-> <<>>], NewTask>>, s.reply, s.err)
          /\ Left(q.r) = SubSeq(Left(s), k + 1, Len(Left(s)))
      BY <1>1, <1>4, <2>1, BegunIs, Zenon
    <2>3. QED
      BY <1>1, <2>2
  <1> HIDE DEF T
  <1>7. p.r.rstack = T /\ q.r.rstack = T /\ p.r.reply = r.reply /\ q.r.reply = r.reply
        /\ p.r.err = r.err /\ q.r.err = r.err
    BY <1>5, <1>6, Fields
  <1>8. QED
    BY <1>3, <1>5, <1>6, <1>7 DEF Took, Longer

-----------------------------------------------------------------------------
(***************************************************************************)
(* One item, with more bytes behind it and without.                        *)
(***************************************************************************)

\* What becomes of an item whose type is known when more bytes are behind it: it is
\* taken alike, or it fails alike, or it waits and nothing has changed.
Taken(P, Q, r, y, B) == Took(P, r, 2, B) /\ Q.ok /\ Longer(P.r, Q.r, y, B)
Broken(P, Q, r) == P = ERR(SetError(r, "protocol")) /\ Q = P
Waits(P, Q, r, s, y) == P = ERR(r) /\ (y = <<>> => Q = ERR(s))

LEMMA ConsumedTaken ==
  ASSUME NEW B, NEW r, NEW s, NEW y \in Seq(B), Longer(r, s, y, B), r.rstack # <<>>,
         NEW k \in 2..Len(Left(r)), NEW obj, obj.type # "none"
  PROVE  Taken(Consumed(r, k, obj), Consumed(s, k, obj), r, y, B)
  <1> DEFINE P == Consumed(r, k, obj)
             Q == Consumed(s, k, obj)
  <1>1. Left(r) \in Seq(B)
    BY LeftIs DEF Longer
  <1>2. k \in 0..Len(Left(r)) /\ Len(Left(r)) \in Nat
    BY <1>1
  <1> HIDE DEF P, Q
  <1>3. Took(P, r, k, B) /\ Q.ok /\ Longer(P.r, Q.r, y, B)
    BY <1>2, ConsumedLonger DEF P, Q
  <1>4. Took(P, r, 2, B)
    <2>1. Len(Left(P.r)) \in Nat
      BY <1>3, LeftIs DEF Took
    <2>2. QED
      BY <1>2, <1>3, <2>1 DEF Took
  <1>5. QED
    BY <1>3, <1>4 DEF Taken, P, Q

LEMMA BegunTaken ==
  ASSUME NEW B, NEW r, NEW s, NEW y \in Seq(B), Longer(r, s, y, B), r.rstack # <<>>, Len(r.rstack) < 9,
         NEW k \in 2..Len(Left(r)), NEW n
  PROVE  Taken(Begun(r, k, n), Begun(s, k, n), r, y, B)
  <1> DEFINE P == Begun(r, k, n)
             Q == Begun(s, k, n)
  <1>1. Left(r) \in Seq(B)
    BY LeftIs DEF Longer
  <1>2. k \in 0..Len(Left(r)) /\ Len(Left(r)) \in Nat
    BY <1>1
  <1> HIDE DEF P, Q
  <1>3. Took(P, r, k, B) /\ Q.ok /\ Longer(P.r, Q.r, y, B)
    BY <1>2, BegunLonger DEF P, Q
  <1>4. Took(P, r, 2, B)
    <2>1. Len(Left(P.r)) \in Nat
      BY <1>3, LeftIs DEF Took
    <2>2. QED
      BY <1>2, <1>3, <2>1 DEF Took
  <1>5. QED
    BY <1>3, <1>4 DEF Taken, P, Q

\* The lines at the beginning of what is left.
LEMMA Lines ==
  ASSUME NEW B, NEW r, NEW s, NEW y \in Seq(B), Longer(r, s, y, B)
  PROVE  /\ Left(r) \in Seq(B) /\ Left(s) \in Seq(B) /\ Left(s) = Left(r) \o y
         /\ \/ /\ seekNewline(Left(r)) = -1
               /\ y = <<>> => seekNewline(Left(s)) = -1
            \/ /\ seekNewline(Left(r)) \in Nat /\ seekNewline(Left(r)) + 2 <= Len(Left(r))
               /\ seekNewline(Left(s)) = seekNewline(Left(r))
               /\ \A a \in Nat \ {0} : \A b \in Int :
                    b <= Len(Left(r)) => SubSeq(Left(s), a, b) = SubSeq(Left(r), a, b)
  <1>1. Left(r) \in Seq(B) /\ Left(s) \in Seq(B) /\ Left(s) = Left(r) \o y
    BY LeftIs DEF Longer
  <1>2. y = <<>> => Left(s) = Left(r)
    BY <1>1
  <1> DEFINE n == seekNewline(Left(r))
  <1>3. \/ n = -1
        \/ n \in Nat /\ n + 2 <= Len(Left(r))
    BY <1>1, Newline
  <1>4. n >= 0 => seekNewline(Left(s)) = n
    BY <1>1, NewlineOfLonger
  <1>5. \A a \in Nat \ {0} : \A b \in Int :
          b <= Len(Left(r)) => SubSeq(Left(s), a, b) = SubSeq(Left(r), a, b)
    BY <1>1, PartOfLonger
  <1>6. CASE n = -1
    BY <1>1, <1>2, <1>6
  <1>7. CASE n \in Nat /\ n + 2 <= Len(Left(r))
    <2>1. n >= 0
      BY <1>7
    <2>2. seekNewline(Left(s)) = n
      BY <1>4, <2>1
    <2>3. QED
      BY <1>1, <1>5, <1>7, <2>2, Zenon
  <1>8. QED
    BY <1>3, <1>6, <1>7

LEMMA LineLonger ==
  ASSUME NEW B, NEW r, NEW s, NEW y \in Seq(B), Longer(r, s, y, B), r.rstack # <<>>,
         Cur(r).type # "none"
  PROVE  \/ Taken(processLineItem(r), processLineItem(s), r, y, B)
         \/ Waits(processLineItem(r), processLineItem(s), r, s, y)
  <1> DEFINE n == seekNewline(Left(r))
             line == SubSeq(Left(r), 1, n)
             obj == IF Cur(r).type = "integer" THEN createIntegerObject(readLongLong(line))
                    ELSE createStringObject(Cur(r).type, line)
  <1>1. s.rstack = r.rstack /\ Cur(s) = Cur(r)
    BY DEF Longer, Cur
  <1>2. CASE n = -1 /\ (y = <<>> => seekNewline(Left(s)) = -1)
    <2>1. processLineItem(r) = ERR(r)
      BY <1>2 DEF processLineItem, LineItem
    <2>2. y = <<>> => processLineItem(s) = ERR(s)
      BY <1>2 DEF processLineItem, LineItem
    <2>3. QED
      BY <2>1, <2>2 DEF Waits
  <1>3. CASE /\ n \in Nat /\ n + 2 <= Len(Left(r)) /\ seekNewline(Left(s)) = n
             /\ SubSeq(Left(s), 1, n) = line
    <2>1. processLineItem(r) = Consumed(r, n + 2, obj)
      <3>1. ~(n < 0)
        BY <1>3
      <3>2. QED
        BY <3>1, Zenon DEF processLineItem, LineItem
    <2>2. processLineItem(s) = Consumed(s, n + 2, obj)
      <3>1. ~(n < 0)
        BY <1>3
      <3>2. QED
        BY <3>1, <1>1, <1>3, Zenon DEF processLineItem, LineItem
    <2>3. obj.type # "none"
      BY DEF createIntegerObject, createStringObject
    <2>4. n + 2 \in 2..Len(Left(r))
      <3>1. Len(Left(r)) \in Nat
        BY Lines
      <3>2. QED
        BY <1>3, <3>1
    <2> HIDE DEF obj, n
    <2>5. Taken(Consumed(r, n + 2, obj), Consumed(s, n + 2, obj), r, y, B)
      BY <2>3, <2>4, ConsumedTaken
    <2>6. QED
      BY <2>1, <2>2, <2>5
  <1>4. n \in Nat /\ n + 2 <= Len(Left(r)) => n \in Int /\ n <= Len(Left(r))
    BY Lines
  <1>5. QED
    <2>1. 1 \in Nat \ {0}
      OBVIOUS
    <2>2. QED
      BY <1>2, <1>3, <1>4, <2>1, Lines

LEMMA BulkLonger ==
  ASSUME NEW B, NEW r, NEW s, NEW y \in Seq(B), Longer(r, s, y, B), r.rstack # <<>>
  PROVE  \/ Taken(processBulkItem(r), processBulkItem(s), r, y, B)
         \/ Waits(processBulkItem(r), processBulkItem(s), r, s, y)
  <1> DEFINE n == seekNewline(Left(r))
             len == Header(r, n)
             str == SubSeq(Left(r), n + 3, n + 2 + len)
             obj == createStringObject("string", str)
  <1>0. /\ Reader(r, B) /\ Reader(s, B) /\ Left(r) \in Seq(B) /\ Left(s) = Left(r) \o y
        /\ Len(Left(r)) = Len(r.buf) - r.pos /\ Len(Left(s)) = Len(s.buf) - s.pos
        /\ r.buf \in Seq(B) /\ s.buf \in Seq(B) /\ r.pos \in Nat /\ s.pos \in Nat
    BY LeftIs DEF Longer, Reader
  <1>1. Len(Left(r)) \in Nat /\ Len(Left(s)) = Len(Left(r)) + Len(y) /\ Len(y) \in Nat
    BY <1>0
  <1> DEFINE a == Len(r.buf)
             b == Len(s.buf)
             c == Len(y)
  <1>5. /\ a \in Nat /\ b \in Nat /\ c \in Nat /\ r.pos \in Nat /\ s.pos \in Nat
        /\ b - s.pos = a - r.pos + c /\ Len(Left(r)) = a - r.pos
    BY <1>0, <1>1
  <1> HIDE DEF a, b, c
  <1>2. CASE n = -1 /\ (y = <<>> => seekNewline(Left(s)) = -1)
    <2>1. processBulkItem(r) = ERR(r)
      BY <1>2 DEF processBulkItem
    <2>2. y = <<>> => processBulkItem(s) = ERR(s)
      BY <1>2 DEF processBulkItem
    <2>3. QED
      BY <2>1, <2>2 DEF Waits
  <1>3. CASE /\ n \in Nat /\ n + 2 <= Len(Left(r)) /\ seekNewline(Left(s)) = n
             /\ \A i \in Nat \ {0} : \A j \in Int :
                  j <= Len(Left(r)) => SubSeq(Left(s), i, j) = SubSeq(Left(r), i, j)
    <2>1. Header(s, n) = len
      <3>1. SubSeq(Left(s), 1, n) = SubSeq(Left(r), 1, n)
        <4>1. 1 \in Nat \ {0} /\ n \in Int /\ n <= Len(Left(r))
          <5> HIDE DEF n
          <5>1. QED
            BY <1>1, <1>3
        <4>2. QED
          BY <1>3, <4>1, Zenon
      <3>2. QED
        BY <3>1 DEF Header
    <2>2. len \in Int
      <3>1. SubSeq(Left(r), 1, n) \in Seq(B)
        BY <1>0, <1>1, <1>3
      <3>2. QED
        BY <3>1, NumbersAreInt DEF Header
    <2>3. /\ processBulkItem(r) = BulkItem(r, n, len)
          /\ processBulkItem(s) = BulkItem(s, n, len)
      <3>1. ~(n < 0)
        BY <1>3
      <3>2. QED
        BY <3>1, <2>1, <1>3, Zenon DEF processBulkItem
    <2> HIDE DEF n, len
    <2>4. CASE len < 0
      <3>1. /\ processBulkItem(r) = Consumed(r, n + 2, createNilObject)
            /\ processBulkItem(s) = Consumed(s, n + 2, createNilObject)
        BY <2>3, <2>4, Zenon DEF BulkItem
      <3>2. createNilObject.type # "none"
        BY DEF createNilObject
      <3>3. n + 2 \in 2..Len(Left(r))
        BY <1>1, <1>3
      <3>4. Taken(Consumed(r, n + 2, createNilObject), Consumed(s, n + 2, createNilObject), r, y, B)
        BY <3>2, <3>3, ConsumedTaken
      <3>5. QED
        BY <3>1, <3>4
    <2>5. CASE len >= 0
      <3>0. ~(len < 0)
        BY <2>2, <2>5
      <3>1. processBulkItem(r) = BulkString(r, n, len) /\ processBulkItem(s) = BulkString(s, n, len)
        BY <2>3, <3>0, Zenon DEF BulkItem
      <3>2. CASE r.pos + n + len + 4 > Len(r.buf)
        <4>1. processBulkItem(r) = ERR(r)
          BY <3>1, <3>2, Zenon DEF BulkString
        <4>2. y = <<>> => processBulkItem(s) = ERR(s)
          <5>1. SUFFICES ASSUME y = <<>> PROVE processBulkItem(s) = ERR(s)
            OBVIOUS
          <5>2. c = 0
            BY <5>1 DEF c
          <5>3. s.pos + n + len + 4 > Len(s.buf)
            <6>1. n \in Int /\ len \in Int
              BY <1>3, <2>2
            <6>2. r.pos + n + len + 4 > a
              BY <3>2 DEF a
            <6>3. s.pos + n + len + 4 > b
              BY <1>5, <5>2, <6>1, <6>2, SMTT(60)
            <6>4. QED
              BY <6>3 DEF b
          <5>4. QED
            BY <3>1, <5>3, Zenon DEF BulkString
        <4>3. QED
          BY <4>1, <4>2 DEF Waits
      <3>3. CASE ~(r.pos + n + len + 4 > Len(r.buf))
        <4>1. n + len + 4 <= Len(Left(r)) /\ ~(s.pos + n + len + 4 > Len(s.buf))
          <5>1. n \in Int /\ len \in Int
            BY <1>3, <2>2
          <5>2. ~(r.pos + n + len + 4 > a)
            BY <3>3 DEF a
          <5>3. n + len + 4 <= a - r.pos /\ ~(s.pos + n + len + 4 > b)
            <6> DEFINE u == r.pos
                       v == s.pos
            <6>1. /\ a \in Nat /\ b \in Nat /\ c \in Nat /\ u \in Nat /\ v \in Nat
                  /\ b - v = a - u + c /\ n \in Int /\ len \in Int /\ ~(u + n + len + 4 > a)
              BY <1>5, <5>1, <5>2
            <6> HIDE DEF u, v
            <6>2. n + len + 4 <= a - u
              BY <6>1
            <6>3. ~(v + n + len + 4 > b)
              BY <6>1, <6>2
            <6>4. QED
              BY <6>2, <6>3 DEF u, v
          <5>4. QED
            BY <1>5, <5>3 DEF b
        <4>2. SubSeq(Left(s), n + 3, n + 2 + len) = str
          <5>1. n + 3 \in Nat \ {0} /\ n + 2 + len \in Int /\ n + 2 + len <= Len(Left(r))
            BY <1>1, <1>3, <2>2, <4>1
          <5>2. QED
            BY <1>3, <5>1
        <4>3. /\ processBulkItem(r) = Consumed(r, n + len + 4, obj)
              /\ processBulkItem(s) = Consumed(s, n + len + 4, obj)
          BY <3>1, <3>3, <4>1, <4>2, Zenon DEF BulkString
        <4>4. obj.type # "none"
          BY DEF createStringObject
        <4>5. n + len + 4 \in 2..Len(Left(r))
          BY <1>1, <1>3, <2>2, <2>5, <4>1
        <4> HIDE DEF obj
        <4>6. Taken(Consumed(r, n + len + 4, obj), Consumed(s, n + len + 4, obj), r, y, B)
          BY <4>4, <4>5, ConsumedTaken
        <4>7. QED
          BY <4>3, <4>6
      <3>4. QED
        BY <3>2, <3>3
    <2>6. QED
      BY <2>2, <2>4, <2>5
  <1>4. QED
    BY <1>2, <1>3, Lines

LEMMA MultiBulkLonger ==
  ASSUME NEW B, NEW r, NEW s, NEW y \in Seq(B), Longer(r, s, y, B), r.rstack # <<>>
  PROVE  \/ Taken(processMultiBulkItem(r), processMultiBulkItem(s), r, y, B)
         \/ Broken(processMultiBulkItem(r), processMultiBulkItem(s), r)
         \/ Waits(processMultiBulkItem(r), processMultiBulkItem(s), r, s, y)
  <1> DEFINE n == seekNewline(Left(r))
             elements == Header(r, n)
  <1>0. /\ Left(r) \in Seq(B) /\ Len(Left(r)) \in Nat /\ s.rstack = r.rstack
        /\ (Len(r.rstack) = 9 \/ (Len(r.rstack) < 9 /\ Len(r.rstack) # 9))
    <2>1. Stack(r.rstack) /\ Left(r) \in Seq(B) /\ s.rstack = r.rstack
      BY LeftIs DEF Longer, Reader
    <2> DEFINE m == Len(r.rstack)
    <2>2. m \in Nat /\ m <= 9
      BY <2>1 DEF Stack
    <2> HIDE DEF m
    <2>3. m = 9 \/ (m < 9 /\ m # 9)
      BY <2>2
    <2>4. QED
      BY <2>1, <2>3 DEF m
  <1>1. CASE Len(r.rstack) = 9
    <2>1. /\ processMultiBulkItem(r) = ERR(SetError(r, "protocol"))
          /\ processMultiBulkItem(s) = ERR(SetError(s, "protocol"))
      BY <1>0, <1>1 DEF processMultiBulkItem
    <2>2. SetError(s, "protocol") = SetError(r, "protocol")
      BY DEF SetError
    <2>3. QED
      BY <2>1, <2>2 DEF Broken
  <1>2. CASE Len(r.rstack) < 9 /\ Len(r.rstack) # 9
    <2>1. CASE n = -1 /\ (y = <<>> => seekNewline(Left(s)) = -1)
      <3>1. processMultiBulkItem(r) = ERR(r)
        BY <1>2, <2>1 DEF processMultiBulkItem
      <3>2. y = <<>> => processMultiBulkItem(s) = ERR(s)
        BY <1>0, <1>2, <2>1 DEF processMultiBulkItem
      <3>3. QED
        BY <3>1, <3>2 DEF Waits
    <2>2. CASE /\ n \in Nat /\ n + 2 <= Len(Left(r)) /\ seekNewline(Left(s)) = n
               /\ SubSeq(Left(s), 1, n) = SubSeq(Left(r), 1, n)
      <3>1. Header(s, n) = elements
        BY <2>2 DEF Header
      <3>2. /\ processMultiBulkItem(r) = MultiBulkItem(r, n + 2, elements)
            /\ processMultiBulkItem(s) = MultiBulkItem(s, n + 2, elements)
        <4>1. n >= 0 /\ ~(n < 0) /\ Len(r.rstack) # 9 /\ Len(s.rstack) < 9 /\ Len(s.rstack) # 9
          <5>1. n >= 0 /\ ~(n < 0)
            <6> HIDE DEF n
            <6>1. QED
              BY <2>2
          <5>2. QED
            BY <5>1, <1>0, <1>2, Zenon
        <4>2. QED
          BY <4>1, <3>1, <1>2, <2>2, Zenon DEF processMultiBulkItem
      <3>3. n + 2 \in 2..Len(Left(r))
        BY <1>0, <2>2
      <3>4. elements \in Int
        <4>1. SubSeq(Left(r), 1, n) \in Seq(B)
          BY <1>0, <2>2
        <4>2. QED
          BY <4>1, NumbersAreInt DEF Header
      <3> HIDE DEF n, elements
      <3>5. CASE elements = -1
        <4>1. \A t : MultiBulkItem(t, n + 2, elements) = Consumed(t, n + 2, createNilObject)
          BY <3>5 DEF MultiBulkItem
        <4>2. createNilObject.type # "none"
          BY DEF createNilObject
        <4>3. Taken(Consumed(r, n + 2, createNilObject), Consumed(s, n + 2, createNilObject), r, y, B)
          BY <3>3, <4>2, ConsumedTaken
        <4>4. QED
          BY <3>2, <4>1, <4>3
      <3>6. CASE elements > 0
        <4>1. \A t : MultiBulkItem(t, n + 2, elements) = Begun(t, n + 2, elements)
          <5>1. elements # -1
            BY <3>4, <3>6
          <5>2. QED
            BY <3>6, <5>1, Zenon DEF MultiBulkItem, Begun
        <4>2. Taken(Begun(r, n + 2, elements), Begun(s, n + 2, elements), r, y, B)
          BY <3>3, <1>2, BegunTaken
        <4>3. QED
          BY <3>2, <4>1, <4>2
      <3>7. CASE elements # -1 /\ ~(elements > 0)
        <4>1. \A t : MultiBulkItem(t, n + 2, elements) = Consumed(t, n + 2, createArrayObject(<<>>))
          BY <3>7, Zenon DEF MultiBulkItem
        <4>2. createArrayObject(<<>>).type # "none"
          BY DEF createArrayObject
        <4> DEFINE obj == createArrayObject(<<>>)
        <4> HIDE DEF obj
        <4>3. Taken(Consumed(r, n + 2, obj), Consumed(s, n + 2, obj), r, y, B)
          BY <3>3, <4>2, ConsumedTaken DEF obj
        <4>4. QED
          BY <3>2, <4>1, <4>3 DEF obj
      <3>8. QED
        BY <3>5, <3>6, <3>7
    <2>3. n \in Nat /\ n + 2 <= Len(Left(r)) => n \in Int /\ n <= Len(Left(r))
      BY <1>0
    <2>4. 1 \in Nat \ {0}
      OBVIOUS
    <2>5. QED
      BY <2>1, <2>2, <2>3, <2>4, Lines
  <1>3. QED
    BY <1>0, <1>1, <1>2

Known(r) == Cur(r).type \in TaskType \ {"none"}

LEMMA TypedLonger ==
  ASSUME NEW B, NEW r, NEW s, NEW y \in Seq(B), Longer(r, s, y, B), r.rstack # <<>>, Known(r)
  PROVE  \/ Taken(ProcessTyped(r), ProcessTyped(s), r, y, B)
         \/ Broken(ProcessTyped(r), ProcessTyped(s), r)
         \/ Waits(ProcessTyped(r), ProcessTyped(s), r, s, y)
  <1>1. Cur(s) = Cur(r)
    BY DEF Longer, Cur
  <1>2. CASE Cur(r).type \in {"error", "status", "integer"}
    <2>1. ProcessTyped(r) = processLineItem(r) /\ ProcessTyped(s) = processLineItem(s)
      BY <1>1, <1>2 DEF ProcessTyped
    <2>2. Cur(r).type # "none"
      BY <1>2
    <2>3. QED
      BY <2>1, <2>2, LineLonger
  <1>3. CASE Cur(r).type = "string"
    <2>1. ProcessTyped(r) = processBulkItem(r) /\ ProcessTyped(s) = processBulkItem(s)
      BY <1>1, <1>3 DEF ProcessTyped
    <2>2. QED
      BY <2>1, BulkLonger
  <1>4. CASE Cur(r).type = "array"
    <2>1. ProcessTyped(r) = processMultiBulkItem(r) /\ ProcessTyped(s) = processMultiBulkItem(s)
      BY <1>1, <1>4 DEF ProcessTyped
    <2>2. QED
      BY <2>1, MultiBulkLonger
  <1>5. QED
    BY <1>2, <1>3, <1>4 DEF Known, TaskType

Alike(p, q, B) == (p.ok <=> q.ok) /\ Longer(p.r, q.r, <<>>, B)

LEMMA ResultOf ==
  ASSUME NEW r
  PROVE  OK(r).ok /\ OK(r).r = r /\ ~ERR(r).ok /\ ERR(r).r = r
  BY DEF OK, ERR

LEMMA FailedReader ==
  ASSUME NEW B, NEW r, NEW e
  PROVE  /\ Longer(SetError(r, e), SetError(r, e), <<>>, B)
         /\ SetError(r, e).err = e /\ SetError(r, e).rstack = <<>> /\ Left(SetError(r, e)) = <<>>
         /\ SetError(r, e).reply = NoReply
  <1> DEFINE f == SetError(r, e)
  <1>1. f = ReaderOf(<<>>, 0, <<>>, NoReply, e)
    BY DEF SetError, ReaderOf
  <1> HIDE DEF f
  <1>2. /\ IsRecord(f) /\ f.buf = <<>> /\ f.pos = 0 /\ f.rstack = <<>> /\ f.reply = NoReply /\ f.err = e
    BY <1>1, Fields
  <1>3. <<>> \in Seq(B) /\ 0 \in 0..Len(<<>>) /\ Stack(<<>>)
    <2>1. <<>> \in Seq({}) /\ Len(<<>>) = 0
      OBVIOUS
    <2>2. QED
      BY <2>1 DEF Stack
  <1>4. Left(f) = <<>> /\ <<>> = Left(f) \o <<>>
    <2>1. Left(f) = SubSeq(<<>>, 1, 0)
      BY <1>2 DEF Left
    <2>2. QED
      BY <2>1
  <1>5. Reader(f, B)
    BY <1>2, <1>3 DEF Reader
  <1>6. QED
    BY <1>2, <1>4, <1>5 DEF Longer, f

LEMMA SameLeft ==
  ASSUME NEW B, NEW r, NEW s, Longer(r, s, <<>>, B)
  PROVE  Left(s) = Left(r)
  <1>1. Left(r) \in Seq(B) /\ Left(s) = Left(r) \o <<>>
    BY LeftIs DEF Longer
  <1>2. QED
    BY <1>1

LEMMA SameAsItself ==
  ASSUME NEW B, NEW r, Reader(r, B)
  PROVE  Longer(r, r, <<>>, B)
  <1>1. Left(r) \in Seq(B)
    BY LeftIs
  <1>2. Left(r) = Left(r) \o <<>>
    BY <1>1
  <1>3. QED
    BY <1>2 DEF Longer

\* Two readers with the same bytes behind those of r are alike.
LEMMA AlikeBehind ==
  ASSUME NEW B, NEW r, NEW s, NEW t, NEW y, Longer(r, s, y, B), Longer(r, t, y, B)
  PROVE  Longer(t, s, <<>>, B)
  <1>1. Left(s) \in Seq(B) /\ Left(t) = Left(s)
    BY LeftIs DEF Longer
  <1>2. Left(s) = Left(t) \o <<>>
    BY <1>1
  <1>3. QED
    BY <1>2 DEF Longer

LEMMA LongerThanSame ==
  ASSUME NEW B, NEW r, NEW s, NEW t, NEW y, Longer(r, s, y, B), Longer(t, r, <<>>, B)
  PROVE  Longer(t, s, y, B)
  <1>1. Left(r) = Left(t)
    BY SameLeft
  <1>2. QED
    BY <1>1 DEF Longer

LEMMA WithTypeIs ==
  ASSUME NEW B, NEW r, Reader(r, B), r.rstack # <<>>, Left(r) # <<>>, Left(r)[1] \in DOMAIN TypeOf,
         NEW p, p = WithType(r)
  PROVE  /\ Reader(p, B) /\ p.rstack # <<>> /\ Known(p)
         /\ p = ReaderOf(r.buf, r.pos + 1, 
                         Append(Front(r.rstack), [Last(r.rstack) EXCEPT !.type = TypeOf[Left(r)[1]]]),
                         r.reply, r.err)
         /\ 1 \in 0..Len(Left(r))
         /\ Left(p) = SubSeq(Left(r), 1 + 1, Len(Left(r))) /\ Len(Left(p)) = Len(Left(r)) - 1
  <1> DEFINE a == [Last(r.rstack) EXCEPT !.type = TypeOf[Left(r)[1]]]
             T == Append(Front(r.rstack), a)
  <1>1. IsRecord(r) /\ r.buf \in Seq(B) /\ Stack(r.rstack) /\ Last(r.rstack) \in Item
    BY DEF Reader, Stack
  <1>2. TypeOf[Left(r)[1]] \in TaskType \ {"none"}
    BY DEF TypeOf, TaskType
  <1>3. a \in Item /\ a.type \in TaskType \ {"none"}
    <2> DEFINE t == TypeOf[Left(r)[1]]
    <2> HIDE DEF t
    <2>1. t \in TaskType \ {"none"}
      BY <1>2 DEF t
    <2>2. [Last(r.rstack) EXCEPT !.type = t] \in Item /\ [Last(r.rstack) EXCEPT !.type = t].type = t
      BY <1>1, <2>1 DEF Item
    <2>3. QED
      BY <2>1, <2>2 DEF t
  <1>4. p = ReaderOf(r.buf, r.pos + 1, T, r.reply, r.err)
    <2>1. p = [r EXCEPT !.pos = r.pos + 1, !.rstack = T]
      BY DEF WithType
    <2> HIDE DEF T
    <2>2. QED
      BY <1>1, <2>1, SetPosStack, Zenon
  <1> HIDE DEF a
  <1>5. Stack(T) /\ T # <<>> /\ Last(T) = a
    <2>1. PICK S : r.rstack \in Seq(S)
      BY <1>1 DEF Stack
    <2> DEFINE U == S \cup {a}
               f == Front(r.rstack)
               m == Len(r.rstack)
    <2>2. m \in 1..9
      <3>1. m \in Nat /\ m # 0 /\ m <= 9
        BY <1>1, <2>1 DEF Stack
      <3> HIDE DEF m
      <3>2. QED
        BY <3>1
    <2>3. f \in Seq(U) /\ Len(f) = m - 1
      BY <2>1, <2>2 DEF Front
    <2>4. T = Append(f, a) /\ a \in U
      OBVIOUS
    <2> HIDE DEF T, f, U, m
    <2>5. T \in Seq(U) /\ Len(T) = m /\ T[m] = a
      BY <2>2, <2>3, <2>4
    <2>6. Last(T) = a
      BY <2>5 DEF Last
    <2>7. Len(T) <= 9 /\ T # <<>>
      BY <2>2, <2>5
    <2>8. QED
      BY <1>3, <2>5, <2>6, <2>7 DEF Stack
  <1> HIDE DEF T
  <1>6. IsRecord(p) /\ p.buf = r.buf /\ p.pos = r.pos + 1 /\ p.rstack = T
    BY <1>4, Fields
  <1>7. 1 \in 0..Len(Left(r))
    <2>1. Left(r) \in Seq(B)
      BY LeftIs
    <2>2. QED
      BY <2>1
  <1>8. /\ p.pos \in 0..Len(r.buf) /\ Left(p) = SubSeq(Left(r), 1 + 1, Len(Left(r)))
        /\ Len(Left(p)) = Len(Left(r)) - 1
    BY <1>6, <1>7, LeftAfter
  <1>9. Reader(p, B)
    BY <1>1, <1>5, <1>6, <1>8 DEF Reader
  <1>10. Known(p)
    BY <1>3, <1>5, <1>6 DEF Known, Cur
  <1>11. QED
    BY <1>4, <1>5, <1>6, <1>7, <1>8, <1>9, <1>10 DEF T, a

LEMMA WithTypeLonger ==
  ASSUME NEW B, NEW r, NEW s, NEW y \in Seq(B), Longer(r, s, y, B), r.rstack # <<>>, Left(r) # <<>>,
         Left(r)[1] \in DOMAIN TypeOf
  PROVE  /\ Longer(WithType(r), WithType(s), y, B)
         /\ WithType(r).rstack # <<>> /\ Known(WithType(r)) /\ WithType(r).err = r.err
         /\ Len(Left(WithType(r))) = Len(Left(r)) - 1
         /\ Left(s) # <<>> /\ Left(s)[1] = Left(r)[1] 
  <1> DEFINE p == WithType(r)
             q == WithType(s)
             T == Append(Front(r.rstack), [Last(r.rstack) EXCEPT !.type = TypeOf[Left(r)[1]]])
  <1>1. /\ Reader(r, B) /\ Reader(s, B) /\ Left(r) \in Seq(B) /\ Left(s) = Left(r) \o y
        /\ s.rstack = r.rstack /\ s.reply = r.reply /\ s.err = r.err
    BY LeftIs DEF Longer
  <1>2. Left(s) # <<>> /\ Left(s)[1] = Left(r)[1]
    BY <1>1
  <1> HIDE DEF p, q
  <1>3. /\ Reader(p, B) /\ p.rstack # <<>> /\ Known(p)
        /\ p = ReaderOf(r.buf, r.pos + 1, T, r.reply, r.err)
        /\ 1 \in 0..Len(Left(r))
        /\ Left(p) = SubSeq(Left(r), 1 + 1, Len(Left(r))) /\ Len(Left(p)) = Len(Left(r)) - 1
    BY <1>1, WithTypeIs, Zenon DEF p
  <1>4. /\ Reader(q, B)
        /\ q = ReaderOf(s.buf, s.pos + 1, T, s.reply, s.err)
        /\ Left(q) = SubSeq(Left(s), 1 + 1, Len(Left(s)))
    <2>1. s.rstack # <<>> /\ Left(s)[1] \in DOMAIN TypeOf
      BY <1>1, <1>2
    <2>2. T = Append(Front(s.rstack), [Last(s.rstack) EXCEPT !.type = TypeOf[Left(s)[1]]])
      BY <1>1, <1>2
    <2>3. QED
      BY <1>1, <1>2, <2>1, <2>2, WithTypeIs, Zenon DEF q
  <1> HIDE DEF T
  <1>5. p.rstack = T /\ q.rstack = T /\ p.reply = r.reply /\ q.reply = s.reply /\ p.err = r.err /\ q.err = s.err
    BY <1>3, <1>4, Fields
  <1>6. Left(q) = Left(p) \o y
    BY <1>1, <1>3, <1>4, RestOfLonger
  <1>7. QED
    BY <1>1, <1>2, <1>3, <1>4, <1>5, <1>6 DEF Longer, p, q

LEMMA TypedSame ==
  ASSUME NEW B, NEW r, NEW s, Longer(r, s, <<>>, B), r.rstack # <<>>, Known(r)
  PROVE  Alike(ProcessTyped(r), ProcessTyped(s), B)
  <1> DEFINE P == ProcessTyped(r)
             Q == ProcessTyped(s)
  <1>0. <<>> \in Seq(B)
    OBVIOUS
  <1> HIDE DEF P, Q
  <1>1. CASE Taken(P, Q, r, <<>>, B)
    BY <1>1 DEF Taken, Took, Alike, P, Q
  <1>2. CASE Broken(P, Q, r)
    BY <1>2, FailedReader, ResultOf DEF Broken, Alike, P, Q
  <1>3. CASE Waits(P, Q, r, s, <<>>)
    BY <1>3, ResultOf DEF Waits, Alike, P, Q
  <1>4. QED
    BY <1>0, <1>1, <1>2, <1>3, TypedLonger DEF P, Q

\* What processItem does, by cases.
LEMMA ItemCases ==
  ASSUME NEW B, NEW r, Reader(r, B), r.rstack # <<>>
  PROVE  \/ Cur(r).type = "none" /\ Left(r) = <<>> /\ processItem(r) = ERR(r)
         \/ /\ Cur(r).type = "none" /\ Left(r) # <<>> /\ Left(r)[1] \notin DOMAIN TypeOf
            /\ processItem(r) = ERR(SetError(r, "protocol"))
         \/ /\ Cur(r).type = "none" /\ Left(r) # <<>> /\ Left(r)[1] \in DOMAIN TypeOf
            /\ processItem(r) = ProcessTyped(WithType(r))
         \/ Cur(r).type # "none" /\ Known(r) /\ processItem(r) = ProcessTyped(r)
  <1>1. Cur(r).type \in TaskType
    BY DEF Reader, Stack, Cur, Item
  <1>2. CASE Cur(r).type = "none" /\ Left(r) = <<>>
    BY <1>2, Zenon DEF processItem
  <1>3. CASE Cur(r).type = "none" /\ Left(r) # <<>> /\ Left(r)[1] \notin DOMAIN TypeOf
    BY <1>3, Zenon DEF processItem
  <1>4. CASE Cur(r).type = "none" /\ Left(r) # <<>> /\ Left(r)[1] \in DOMAIN TypeOf
    BY <1>4, Zenon DEF processItem
  <1>5. CASE Cur(r).type # "none"
    <2>1. processItem(r) = ProcessTyped(r)
      BY <1>5, Zenon DEF processItem
    <2>2. QED
      BY <1>1, <1>5, <2>1 DEF Known
  <1>6. QED
    BY <1>2, <1>3, <1>4, <1>5

LEMMA ItemSame ==
  ASSUME NEW B, NEW r, NEW s, Longer(r, s, <<>>, B), r.rstack # <<>>
  PROVE  Alike(processItem(r), processItem(s), B)
  <1>1. /\ Reader(r, B) /\ Reader(s, B) /\ s.rstack = r.rstack /\ Cur(s) = Cur(r) /\ Left(s) = Left(r)
        /\ <<>> \in Seq(B)
    BY SameLeft DEF Longer, Cur
  <1>2. CASE Cur(r).type = "none" /\ Left(r) = <<>> /\ processItem(r) = ERR(r)
    <2>1. processItem(s) = ERR(s)
      BY <1>1, <1>2, ItemCases
    <2>2. QED
      BY <1>2, <2>1, ResultOf DEF Alike
  <1>3. CASE /\ Cur(r).type = "none" /\ Left(r) # <<>> /\ Left(r)[1] \notin DOMAIN TypeOf
             /\ processItem(r) = ERR(SetError(r, "protocol"))
    <2>1. processItem(s) = ERR(SetError(s, "protocol"))
      BY <1>1, <1>3, ItemCases
    <2>2. SetError(s, "protocol") = SetError(r, "protocol")
      BY DEF SetError
    <2>3. QED
      BY <1>3, <2>1, <2>2, FailedReader, ResultOf DEF Alike
  <1>4. CASE /\ Cur(r).type = "none" /\ Left(r) # <<>> /\ Left(r)[1] \in DOMAIN TypeOf
             /\ processItem(r) = ProcessTyped(WithType(r))
    <2>1. processItem(s) = ProcessTyped(WithType(s))
      BY <1>1, <1>4, ItemCases
    <2>2. QED
      BY <1>1, <1>4, <2>1, WithTypeLonger, TypedSame
  <1>5. CASE Cur(r).type # "none" /\ Known(r) /\ processItem(r) = ProcessTyped(r)
    <2>1. processItem(s) = ProcessTyped(s)
      BY <1>1, <1>5, ItemCases
    <2>2. QED
      BY <1>5, <2>1, TypedSame
  <1>6. QED
    BY <1>1, <1>2, <1>3, <1>4, <1>5, ItemCases

\* P has stopped for want of bytes, and with y behind what it has left it does what Q did.
Waiting(P, Q, y, B) ==
  /\ ~P.ok /\ P.r.err = "none" /\ P.r.rstack # <<>> /\ Reader(P.r, B)
  /\ \A t : Longer(P.r, t, y, B) => Alike(processItem(t), Q, B)

Least3(r) == IF Cur(r).type = "none" THEN 3 ELSE 2

LEMMA ItemLonger ==
  ASSUME NEW B, NEW r, NEW s, NEW y \in Seq(B), Longer(r, s, y, B), r.rstack # <<>>, r.err = "none",
         NEW P, NEW Q, P = processItem(r), Q = processItem(s)
  PROVE  \/ Took(P, r, Least3(r), B) /\ Q.ok /\ Longer(P.r, Q.r, y, B)
         \/ Broken(P, Q, r)
         \/ Waiting(P, Q, y, B)
  <1>1. /\ Reader(r, B) /\ Reader(s, B) /\ s.rstack = r.rstack /\ Cur(s) = Cur(r)
        /\ Left(r) \in Seq(B) /\ Left(s) = Left(r) \o y
    BY LeftIs DEF Longer, Cur
  <1>2. CASE Cur(r).type = "none" /\ Left(r) = <<>> /\ processItem(r) = ERR(r)
    <2>1. ASSUME NEW t, Longer(r, t, y, B) PROVE Alike(processItem(t), Q, B)
      <3>1. Longer(t, s, <<>>, B)
        BY <2>1, AlikeBehind
      <3>2. t.rstack # <<>>
        BY <2>1 DEF Longer
      <3>3. QED
        BY <3>1, <3>2, ItemSame
    <2>2. P.r = r /\ ~P.ok
      BY <1>2, ResultOf
    <2>3. QED
      BY <1>1, <2>1, <2>2 DEF Waiting
  <1>3. CASE /\ Cur(r).type = "none" /\ Left(r) # <<>> /\ Left(r)[1] \notin DOMAIN TypeOf
             /\ processItem(r) = ERR(SetError(r, "protocol"))
    <2>1. Left(s) # <<>> /\ Left(s)[1] = Left(r)[1]
      BY <1>1, <1>3
    <2>2. processItem(s) = ERR(SetError(s, "protocol"))
      BY <1>1, <1>3, <2>1, ItemCases
    <2>3. SetError(s, "protocol") = SetError(r, "protocol")
      BY DEF SetError
    <2>4. QED
      BY <1>3, <2>2, <2>3 DEF Broken
  <1>4. CASE /\ Cur(r).type = "none" /\ Left(r) # <<>> /\ Left(r)[1] \in DOMAIN TypeOf
             /\ processItem(r) = ProcessTyped(WithType(r))
    <2> DEFINE u == WithType(r)
               v == WithType(s)
    <2>0. Longer(r, s, y, B) /\ r.rstack # <<>> /\ Left(r) # <<>> /\ Left(r)[1] \in DOMAIN TypeOf /\ y \in Seq(B)
      BY <1>4
    <2>1. /\ Longer(u, v, y, B) /\ u.rstack # <<>> /\ Known(u) /\ u.err = r.err
          /\ Len(Left(u)) = Len(Left(r)) - 1
          /\ Left(s) # <<>> /\ Left(s)[1] = Left(r)[1]
      BY <2>0, WithTypeLonger, ZenonT(60)
    <2>2. processItem(s) = ProcessTyped(v)
      BY <1>1, <1>4, <2>1, ItemCases
    <2>3. Q = ProcessTyped(v) /\ P = ProcessTyped(u)
      BY <1>4, <2>2
    <2> HIDE DEF u, v
    <2>4. \/ Taken(P, Q, u, y, B) \/ Broken(P, Q, u) \/ Waits(P, Q, u, v, y)
      BY <2>1, <2>3, TypedLonger
    <2>5. CASE Taken(P, Q, u, y, B)
      <3>1. Took(P, u, 2, B) /\ Q.ok /\ Longer(P.r, Q.r, y, B)
        BY <2>5 DEF Taken
      <3>2. Left(P.r) \in Seq(B)
        BY <3>1, LeftIs DEF Took
      <3>3. Len(Left(P.r)) <= Len(Left(r)) - 3
        <4>1. Len(Left(P.r)) \in Nat /\ Len(Left(r)) \in Nat /\ Len(Left(P.r)) <= Len(Left(u)) - 2
          BY <3>1, <3>2, <1>1 DEF Took
        <4>2. QED
          BY <4>1, <2>1
      <3>4. Took(P, r, Least3(r), B)
        BY <1>4, <2>1, <3>1, <3>3 DEF Took, Least3
      <3>5. QED
        BY <3>1, <3>4
    <2>6. CASE Broken(P, Q, u)
      <3>1. SetError(u, "protocol") = SetError(r, "protocol")
        BY DEF SetError
      <3>2. QED
        BY <2>6, <3>1 DEF Broken
    <2>7. CASE Waits(P, Q, u, v, y)
      <3>1. P.r = u /\ ~P.ok
        BY <2>7, ResultOf DEF Waits
      <3>2. ASSUME NEW t, Longer(u, t, y, B) PROVE Alike(processItem(t), Q, B)
        <4>1. Longer(t, v, <<>>, B)
          BY <3>2, <2>1, AlikeBehind
        <4>2. t.rstack # <<>> /\ Known(t) /\ Reader(t, B)
          BY <3>2, <2>1 DEF Longer, Known, Cur
        <4>3. processItem(t) = ProcessTyped(t)
          BY <4>2, ItemCases DEF Known
        <4>4. QED
          BY <4>1, <4>2, <4>3, <2>3, TypedSame
      <3>3. Reader(u, B)
        BY <2>1 DEF Longer
      <3>4. QED
        BY <2>1, <3>1, <3>2, <3>3 DEF Waiting
    <2>8. QED
      BY <2>4, <2>5, <2>6, <2>7
  <1>5. CASE Cur(r).type # "none" /\ Known(r) /\ processItem(r) = ProcessTyped(r)
    <2>1. processItem(s) = ProcessTyped(s)
      BY <1>1, <1>5, ItemCases
    <2>2. \/ Taken(P, Q, r, y, B) \/ Broken(P, Q, r) \/ Waits(P, Q, r, s, y)
      BY <1>5, <2>1, TypedLonger
    <2>3. CASE Taken(P, Q, r, y, B)
      <3>1. Took(P, r, 2, B) /\ Q.ok /\ Longer(P.r, Q.r, y, B)
        BY <2>3 DEF Taken
      <3>2. Took(P, r, Least3(r), B)
        BY <1>5, <3>1 DEF Least3
      <3>3. QED
        BY <3>1, <3>2
    <2>4. CASE Waits(P, Q, r, s, y)
      <3>1. P.r = r /\ ~P.ok
        BY <2>4, ResultOf DEF Waits
      <3>2. ASSUME NEW t, Longer(r, t, y, B) PROVE Alike(processItem(t), Q, B)
        <4>1. Longer(t, s, <<>>, B)
          BY <3>2, AlikeBehind
        <4>2. t.rstack # <<>>
          BY <3>2 DEF Longer
        <4>3. QED
          BY <4>1, <4>2, ItemSame
      <3>3. QED
        BY <1>1, <3>1, <3>2 DEF Waiting
    <2>5. QED
      BY <2>2, <2>3, <2>4
  <1>6. QED
    BY <1>1, <1>2, <1>3, <1>4, <1>5, ItemCases

-----------------------------------------------------------------------------
(***************************************************************************)
(* The rounds of ProcessItems.                                             *)
(***************************************************************************)

\* The results of the first n rounds from p on, and of the n-th.
AreRounds(f, p, n) == f = [k \in 0..n |-> IF k = 0 THEN p ELSE Again(f[k - 1])]
Round(p, n) == (CHOOSE f : AreRounds(f, p, n))[n]

Most(r) == (Len(Left(r)) + 1) \div 3 + 1

LEMMA ProcessForm ==
  ASSUME NEW r
  PROVE  ProcessItems(r) = Round(OK(r), Most(r)).r
  BY Zenon DEF ProcessItems, Round, AreRounds, Most

LEMMA RoundsExist ==
  ASSUME NEW p, NEW n \in Nat
  PROVE  \E f : AreRounds(f, p, n)
  <1> DEFINE S == {m \in Nat : \E f : AreRounds(f, p, m)}
  <1>1. 0 \in S
    <2>1. AreRounds([k \in 0..0 |-> p], p, 0)
      BY DEF AreRounds
    <2>2. QED
      BY <2>1
  <1>2. ASSUME NEW m \in Nat, m \in S
        PROVE  m + 1 \in S
    <2>1. PICK f : AreRounds(f, p, m)
      BY <1>2
    <2> DEFINE g == [k \in 0..m + 1 |-> IF k <= m THEN f[k] ELSE Again(f[m])]
    <2>2. \A k \in 0..m : f[k] = IF k = 0 THEN p ELSE Again(f[k - 1])
      BY <2>1 DEF AreRounds
    <2>3. g[m + 1] = Again(f[m]) /\ \A k \in 0..m : g[k] = f[k]
      OBVIOUS
    <2>4. g = [k \in 0..m + 1 |-> g[k]]
      OBVIOUS
    <2> HIDE DEF g
    <2>5. ASSUME NEW k \in 0..m + 1
          PROVE  g[k] = IF k = 0 THEN p ELSE Again(g[k - 1])
      <3>1. CASE k = m + 1
        <4>1. k - 1 = m /\ k # 0 /\ m \in 0..m
          BY <3>1
        <4>2. QED
          BY <2>3, <3>1, <4>1
      <3>2. CASE k = 0
        <4>1. 0 \in 0..m
          OBVIOUS
        <4>2. QED
          BY <2>2, <2>3, <3>2, <4>1
      <3>3. CASE k \in 1..m
        <4>1. k - 1 \in 0..m /\ k \in 0..m /\ k # 0
          BY <3>3
        <4>2. QED
          BY <2>2, <2>3, <4>1
      <3>4. QED
        BY <3>1, <3>2, <3>3
    <2>6. AreRounds(g, p, m + 1)
      BY <2>4, <2>5 DEF AreRounds
    <2>7. QED
      BY <2>6
  <1> HIDE DEF S
  <1>3. n \in S
    BY <1>1, <1>2, Induct
  <1>4. QED
    BY <1>3 DEF S

LEMMA RoundsAgree ==
  ASSUME NEW p, NEW n \in Nat, NEW m \in Nat, NEW f, NEW g, AreRounds(f, p, n), AreRounds(g, p, m)
  PROVE  \A k \in Nat : k <= n /\ k <= m => f[k] = g[k]
  <1> DEFINE S == {k \in Nat : k <= n /\ k <= m => f[k] = g[k]}
  <1>1. /\ \A k \in 0..n : f[k] = IF k = 0 THEN p ELSE Again(f[k - 1])
        /\ \A k \in 0..m : g[k] = IF k = 0 THEN p ELSE Again(g[k - 1])
    BY DEF AreRounds
  <1>2. 0 \in S
    BY <1>1
  <1>3. ASSUME NEW k \in Nat, k \in S
        PROVE  k + 1 \in S
    <2>1. SUFFICES ASSUME k + 1 <= n, k + 1 <= m PROVE f[k + 1] = g[k + 1]
      OBVIOUS
    <2>2. k + 1 \in 0..n /\ k + 1 \in 0..m /\ k + 1 # 0 /\ (k + 1) - 1 = k /\ k <= n /\ k <= m
      BY <2>1
    <2>3. f[k + 1] = Again(f[k]) /\ g[k + 1] = Again(g[k])
      BY <1>1, <2>2
    <2>4. QED
      BY <1>3, <2>2, <2>3
  <1> HIDE DEF S
  <1>4. Nat \subseteq S
    BY <1>2, <1>3, Induct
  <1>5. QED
    BY <1>4 DEF S

LEMMA RoundStep ==
  ASSUME NEW p
  PROVE  Round(p, 0) = p /\ \A n \in Nat : Round(p, n + 1) = Again(Round(p, n))
  <1> DEFINE v(n) == CHOOSE f : AreRounds(f, p, n)
  <1>1. ASSUME NEW n \in Nat PROVE AreRounds(v(n), p, n) /\ Round(p, n) = v(n)[n]
    BY RoundsExist DEF Round
  <1> HIDE DEF v
  <1>2. Round(p, 0) = p
    <2>1. v(0)[0] = p
      <3>1. AreRounds(v(0), p, 0) /\ 0 \in 0..0
        BY <1>1
      <3>2. QED
        BY <3>1 DEF AreRounds
    <2>2. QED
      BY <1>1, <2>1
  <1>3. ASSUME NEW n \in Nat PROVE Round(p, n + 1) = Again(Round(p, n))
    <2>1. n + 1 \in Nat /\ n + 1 \in 0..n + 1 /\ n + 1 # 0 /\ (n + 1) - 1 = n /\ n <= n + 1 /\ n <= n
      OBVIOUS
    <2>2. AreRounds(v(n), p, n) /\ AreRounds(v(n + 1), p, n + 1)
      BY <1>1, <2>1
    <2>3. v(n + 1)[n] = v(n)[n]
      BY <2>1, <2>2, RoundsAgree
    <2>4. v(n + 1)[n + 1] = Again(v(n + 1)[n])
      BY <2>1, <2>2 DEF AreRounds
    <2>5. QED
      BY <1>1, <2>1, <2>3, <2>4
  <1>4. QED
    BY <1>2, <1>3

\* An item that failed or completed the reply is the last one.
Stuck(p) == ~(p.ok /\ p.r.rstack # <<>>)

LEMMA StuckStays ==
  ASSUME NEW p, NEW n \in Nat, Stuck(Round(p, n))
  PROVE  \A m \in Nat : Round(p, n + m) = Round(p, n)
  <1> DEFINE S == {m \in Nat : Round(p, n + m) = Round(p, n)}
  <1>1. 0 \in S
    OBVIOUS
  <1>2. ASSUME NEW m \in Nat, m \in S
        PROVE  m + 1 \in S
    <2>1. n + m \in Nat /\ n + (m + 1) = (n + m) + 1
      OBVIOUS
    <2>2. Round(p, n + (m + 1)) = Again(Round(p, n))
      BY <1>2, <2>1, RoundStep
    <2>3. Again(Round(p, n)) = Round(p, n)
      BY DEF Again, Stuck
    <2>4. QED
      BY <2>2, <2>3
  <1> HIDE DEF S
  <1>3. Nat \subseteq S
    BY <1>1, <1>2, Induct
  <1>4. QED
    BY <1>3 DEF S

LEMMA StuckOnce ==
  ASSUME NEW p, NEW n \in Nat, NEW m \in Nat, Stuck(Round(p, n)), Stuck(Round(p, m))
  PROVE  Round(p, n) = Round(p, m)
  <1>1. CASE n <= m
    <2>1. m - n \in Nat /\ n + (m - n) = m
      BY <1>1
    <2>2. QED
      BY <2>1, StuckStays
  <1>2. CASE m <= n
    <2>1. n - m \in Nat /\ m + (n - m) = n
      BY <1>2
    <2>2. QED
      BY <2>1, StuckStays
  <1>3. QED
    BY <1>1, <1>2

\* What the rounds come to: nothing yet, the reply, an error, or want of bytes.
Result(p, B) ==
  /\ Reader(p.r, B)
  /\ \/ p.ok /\ p.r.rstack # <<>> /\ p.r.err = "none"
     \/ p.ok /\ p.r.rstack = <<>> /\ p.r.err = "none" /\ p.r.reply # NoReply
     \/ ~p.ok /\ p.r.err = "protocol" /\ p.r.rstack = <<>> /\ p.r.reply = NoReply
     \/ ~p.ok /\ p.r.err = "none" /\ p.r.rstack # <<>>

LEMMA ItemResult ==
  ASSUME NEW B, NEW r, Reader(r, B), r.rstack # <<>>, r.err = "none", NEW P, P = processItem(r)
  PROVE  Result(P, B) /\ (P.ok => Took(P, r, Least3(r), B))
  <1>1. <<>> \in Seq(B) /\ Longer(r, r, <<>>, B)
    BY SameAsItself
  <1>2. CASE Took(P, r, Least3(r), B)
    BY <1>2 DEF Took, Result
  <1>3. CASE Broken(P, P, r)
    <2>1. ~P.ok /\ P.r = SetError(r, "protocol")
      BY <1>3, ResultOf DEF Broken
    <2>2. Longer(P.r, P.r, <<>>, B) /\ P.r.err = "protocol" /\ P.r.rstack = <<>> /\ P.r.reply = NoReply
      BY <2>1, FailedReader
    <2>3. QED
      BY <2>1, <2>2 DEF Longer, Result
  <1>4. CASE Waiting(P, P, <<>>, B)
    BY <1>4 DEF Waiting, Result
  <1>5. QED
    BY <1>1, <1>2, <1>3, <1>4, ItemLonger

LEMMA RoundResult ==
  ASSUME NEW B, NEW r, Reader(r, B), r.rstack # <<>>, r.err = "none"
  PROVE  \A n \in Nat :
           /\ Result(Round(OK(r), n), B)
           /\ \/ Stuck(Round(OK(r), n)) \/ n = 0
              \/ /\ Cur(Round(OK(r), n).r).type = "none"
                 /\ Len(Left(Round(OK(r), n).r)) <= Len(Left(r)) + 1 - 3 * n
  <1> DEFINE P(n) == Round(OK(r), n)
             Fewer(n) == /\ Cur(P(n).r).type = "none"
                         /\ Len(Left(P(n).r)) <= Len(Left(r)) + 1 - 3 * n
             S == {n \in Nat : Result(P(n), B) /\ (Stuck(P(n)) \/ n = 0 \/ Fewer(n))}
  <1>0. P(0) = OK(r) /\ \A n \in Nat : P(n + 1) = Again(P(n))
    BY RoundStep
  <1> HIDE DEF P
  <1>1. 0 \in S
    BY <1>0, ResultOf DEF Result
  <1>2. ASSUME NEW n \in Nat, n \in S
        PROVE  n + 1 \in S
    <2>0. n + 1 \in Nat /\ P(n + 1) = Again(P(n)) /\ Result(P(n), B)
      BY <1>0, <1>2
    <2>1. CASE Stuck(P(n))
      <3>1. P(n + 1) = P(n)
        BY <2>0, <2>1 DEF Again, Stuck
      <3>2. QED
        BY <2>0, <2>1, <3>1
    <2>2. CASE ~Stuck(P(n))
      <3> DEFINE q == P(n).r
      <3>1. P(n + 1) = processItem(q) /\ Reader(q, B) /\ q.rstack # <<>> /\ q.err = "none"
        BY <2>0, <2>2 DEF Again, Stuck, Result
      <3>2. Result(P(n + 1), B) /\ (P(n + 1).ok => Took(P(n + 1), q, Least3(q), B))
        <4> HIDE DEF q
        <4>1. QED
          BY <3>1, ItemResult
      <3>3. ASSUME ~Stuck(P(n + 1)) PROVE Fewer(n + 1)
        <4>1. Took(P(n + 1), q, Least3(q), B) /\ P(n + 1).r.rstack # <<>>
          BY <3>2, <3>3 DEF Stuck
        <4>2. Last(P(n + 1).r.rstack) = NewTask
          BY <4>1 DEF Took
        <4>3. Cur(P(n + 1).r).type = "none"
          BY <4>2 DEF Cur, NewTask
        <4>4. /\ Len(Left(P(n + 1).r)) \in Nat /\ Len(Left(q)) \in Nat /\ Len(Left(r)) \in Nat
              /\ Len(Left(P(n + 1).r)) <= Len(Left(q)) - Least3(q)
          <5>1. /\ Left(P(n + 1).r) \in Seq(B) /\ Left(q) \in Seq(B) /\ Left(r) \in Seq(B)
            <6> HIDE DEF q
            <6>1. QED
              BY <3>1, <4>1, LeftIs DEF Took
          <5>2. QED
            BY <4>1, <5>1 DEF Took
        <4>5. CASE n = 0
          <5>1. q = r
            BY <1>0, <4>5, ResultOf
          <5>2. Least3(q) \in {2, 3}
            BY DEF Least3
          <5> HIDE DEF q
          <5>3. Len(Left(P(n + 1).r)) <= Len(Left(r)) + 1 - 3 * (n + 1)
            BY <4>4, <4>5, <5>1, <5>2
          <5>4. QED
            BY <4>3, <5>3
        <4>6. CASE Fewer(n)
          <5>1. Least3(q) = 3
            BY <4>6 DEF Least3
          <5>2. Len(Left(q)) <= Len(Left(r)) + 1 - 3 * n
            BY <4>6
          <5> HIDE DEF q
          <5>3. Len(Left(P(n + 1).r)) <= Len(Left(r)) + 1 - 3 * (n + 1)
            BY <4>4, <5>1, <5>2
          <5>4. QED
            BY <4>3, <5>3
        <4>7. QED
          BY <1>2, <2>2, <4>5, <4>6
      <3>4. QED
        BY <2>0, <3>2, <3>3
    <2>3. QED
      BY <2>1, <2>2
  <1> HIDE DEF S
  <1>3. Nat \subseteq S
    BY <1>1, <1>2, Induct
  <1>4. QED
    BY <1>3 DEF S, P

\* ProcessItems goes on until nothing more can be done.
LEMMA MostIsEnough ==
  ASSUME NEW B, NEW r, Reader(r, B), r.rstack # <<>>, r.err = "none"
  PROVE  Most(r) \in Nat /\ Stuck(Round(OK(r), Most(r)))
  <1> DEFINE l == Len(Left(r))
             n == (l + 1) \div 3 + 1
             P == Round(OK(r), n)
  <1>1. l \in Nat
    BY LeftIs
  <1>2. Most(r) = n
    BY DEF Most
  <1> HIDE DEF l
  <1>3. n \in Nat /\ n # 0 /\ 3 * n > l + 1
    BY <1>1
  <1> HIDE DEF n
  <1>4. /\ Result(P, B)
        /\ Stuck(P) \/ Len(Left(P.r)) <= l + 1 - 3 * n
    BY <1>3, RoundResult DEF l
  <1>5. Len(Left(P.r)) \in Nat
    BY <1>4, LeftIs DEF Result
  <1>6. Stuck(P)
    <2> HIDE DEF P
    <2>1. QED
      BY <1>1, <1>3, <1>4, <1>5
  <1>7. QED
    BY <1>2, <1>3, <1>6

LEMMA AgainSame ==
  ASSUME NEW B, NEW p, NEW q, Alike(p, q, B)
  PROVE  Alike(Again(p), Again(q), B)
  <1>1. q.r.rstack = p.r.rstack /\ (p.ok <=> q.ok)
    BY DEF Alike, Longer
  <1>2. CASE p.ok /\ p.r.rstack # <<>>
    <2>1. Again(p) = processItem(p.r) /\ Again(q) = processItem(q.r)
      BY <1>1, <1>2 DEF Again
    <2>2. QED
      BY <1>2, <2>1, ItemSame DEF Alike
  <1>3. CASE ~(p.ok /\ p.r.rstack # <<>>)
    <2>1. Again(p) = p /\ Again(q) = q
      BY <1>1, <1>3 DEF Again
    <2>2. QED
      BY <2>1
  <1>4. QED
    BY <1>2, <1>3

\* P of the shorter reader and Q of the longer one after as many rounds.
Together(P, Q, y, B) ==
  \/ P.ok /\ Q.ok /\ Longer(P.r, Q.r, y, B)
  \/ ~P.ok /\ P.r.err = "protocol" /\ Q = P
  \/ /\ ~P.ok /\ P.r.err = "none" /\ P.r.rstack # <<>>
     /\ \A t : Longer(P.r, t, y, B) => \E j \in Nat : Alike(Round(OK(t), j), Q, B)

LEMMA RoundsTogether ==
  ASSUME NEW B, NEW r, NEW s, NEW y \in Seq(B), Longer(r, s, y, B), r.rstack # <<>>, r.err = "none"
  PROVE  \A n \in Nat : Together(Round(OK(r), n), Round(OK(s), n), y, B)
  <1> DEFINE P(n) == Round(OK(r), n)
             Q(n) == Round(OK(s), n)
             S == {n \in Nat : Together(P(n), Q(n), y, B)}
  <1>1. /\ P(0) = OK(r) /\ Q(0) = OK(s)
        /\ \A n \in Nat : P(n + 1) = Again(P(n)) /\ Q(n + 1) = Again(Q(n))
    BY RoundStep
  <1>2. \A n \in Nat : Result(P(n), B)
    BY RoundResult DEF Longer
  <1> HIDE DEF P, Q
  <1>3. 0 \in S
    BY <1>1, ResultOf DEF Together
  <1>4. ASSUME NEW n \in Nat, n \in S
        PROVE  n + 1 \in S
    <2>0. n + 1 \in Nat /\ P(n + 1) = Again(P(n)) /\ Q(n + 1) = Again(Q(n)) /\ Result(P(n), B)
      BY <1>1, <1>2
    <2>1. CASE P(n).ok /\ Q(n).ok /\ Longer(P(n).r, Q(n).r, y, B) /\ P(n).r.rstack = <<>>
      <3>1. P(n + 1) = P(n) /\ Q(n + 1) = Q(n)
        BY <2>0, <2>1 DEF Again, Longer
      <3>2. QED
        BY <1>4, <2>0, <3>1
    <2>2. CASE P(n).ok /\ Q(n).ok /\ Longer(P(n).r, Q(n).r, y, B) /\ P(n).r.rstack # <<>>
      <3> DEFINE a == P(n).r
                 b == Q(n).r
                 X == P(n + 1)
                 Y == Q(n + 1)
      <3>1. /\ X = processItem(a) /\ Y = processItem(b)
            /\ a.err = "none" /\ a.rstack # <<>> /\ Longer(a, b, y, B)
        BY <2>0, <2>2 DEF Again, Longer, Result
      <3> HIDE DEF a, b, X, Y
      <3>2. \/ Took(X, a, Least3(a), B) /\ Y.ok /\ Longer(X.r, Y.r, y, B)
            \/ Broken(X, Y, a)
            \/ Waiting(X, Y, y, B)
        BY <3>1, ItemLonger
      <3>3. CASE Took(X, a, Least3(a), B) /\ Y.ok /\ Longer(X.r, Y.r, y, B)
        BY <3>3 DEF Together, Took, X, Y
      <3>4. CASE Broken(X, Y, a)
        <4>1. ~X.ok /\ X.r.err = "protocol" /\ Y = X
          BY <3>4, FailedReader, ResultOf DEF Broken
        <4>2. QED
          BY <4>1 DEF Together, X, Y
      <3>5. CASE Waiting(X, Y, y, B)
        <4>1. ASSUME NEW t, Longer(X.r, t, y, B)
              PROVE  \E j \in Nat : Alike(Round(OK(t), j), Y, B)
          <5>1. Alike(processItem(t), Y, B) /\ t.rstack # <<>>
            BY <3>5, <4>1 DEF Waiting, Longer
          <5>2. Round(OK(t), 0 + 1) = Again(OK(t))
            BY RoundStep
          <5>3. Again(OK(t)) = processItem(t)
            BY <5>1, ResultOf DEF Again
          <5>4. QED
            BY <5>1, <5>2, <5>3
        <4>2. QED
          BY <3>5, <4>1 DEF Waiting, Together, X, Y
      <3>6. QED
        BY <3>2, <3>3, <3>4, <3>5
    <2>3. CASE ~P(n).ok /\ P(n).r.err = "protocol" /\ Q(n) = P(n)
      <3>1. P(n + 1) = P(n) /\ Q(n + 1) = Q(n)
        BY <2>0, <2>3 DEF Again
      <3>2. QED
        BY <1>4, <2>0, <3>1
    <2>4. CASE /\ ~P(n).ok /\ P(n).r.err = "none" /\ P(n).r.rstack # <<>>
               /\ \A t : Longer(P(n).r, t, y, B) => \E j \in Nat : Alike(Round(OK(t), j), Q(n), B)
      <3>1. P(n + 1) = P(n)
        BY <2>0, <2>4 DEF Again
      <3>2. ASSUME NEW t, Longer(P(n).r, t, y, B)
            PROVE  \E j \in Nat : Alike(Round(OK(t), j), Q(n + 1), B)
        <4>1. PICK j \in Nat : Alike(Round(OK(t), j), Q(n), B)
          BY <2>4, <3>2
        <4>0. j + 1 \in Nat
          BY <4>1
        <4>2. Round(OK(t), j + 1) = Again(Round(OK(t), j))
          BY <4>1, RoundStep, Zenon
        <4>3. Alike(Round(OK(t), j + 1), Q(n + 1), B)
          BY <2>0, <4>1, <4>2, AgainSame
        <4>4. QED
          BY <4>0, <4>3
      <3>3. QED
        BY <2>0, <2>4, <3>1, <3>2 DEF Together
    <2>5. QED
      BY <1>4, <2>1, <2>2, <2>3, <2>4 DEF Together
  <1> HIDE DEF S
  <1>5. Nat \subseteq S
    BY <1>3, <1>4, Induct
  <1>6. QED
    BY <1>5 DEF S, P, Q

\* Of the readers p and q that ProcessItems comes to.
Complete(p, q, y, B) == p.err = "none" /\ p.rstack = <<>> /\ p.reply # NoReply /\ Longer(p, q, y, B)
Failed(p, q) == p.err = "protocol" /\ p.rstack = <<>> /\ p.reply = NoReply /\ q = p
Behind(p, q, y, B) ==
  /\ p.err = "none" /\ p.rstack # <<>>
  /\ \A t : Longer(p, t, y, B) => Longer(ProcessItems(t), q, <<>>, B)

LEMMA ProcessLonger ==
  ASSUME NEW B, NEW r, NEW s, NEW y \in Seq(B), Longer(r, s, y, B), r.rstack # <<>>, r.err = "none",
         NEW p, NEW q, p = ProcessItems(r), q = ProcessItems(s)
  PROVE  Reader(p, B) /\ (Complete(p, q, y, B) \/ Failed(p, q) \/ Behind(p, q, y, B))
  <1> DEFINE i == Most(r)
             j == Most(s)
             P == Round(OK(r), i)
             Q == Round(OK(s), j)
  <1>0. Reader(r, B) /\ Reader(s, B) /\ s.rstack # <<>> /\ s.err = "none"
    BY DEF Longer
  <1>1. i \in Nat /\ j \in Nat /\ Stuck(P) /\ Stuck(Q)
    BY <1>0, MostIsEnough
  <1>2. p = P.r /\ q = Q.r
    BY ProcessForm
  <1>3. Result(P, B)
    BY <1>0, <1>1, RoundResult
  <1>4. Together(P, Q, y, B)
    <2> HIDE DEF i, j
    <2>1. Round(OK(r), i + j) = P /\ Round(OK(s), j + i) = Q
      BY <1>1, StuckStays
    <2>2. j + i = i + j /\ i + j \in Nat
      BY <1>1
    <2>3. Together(Round(OK(r), i + j), Round(OK(s), i + j), y, B)
      BY <2>2, RoundsTogether
    <2>4. QED
      BY <2>1, <2>2, <2>3
  <1>5. ASSUME NEW t, Longer(P.r, t, y, B), P.r.err = "none", P.r.rstack # <<>>,
               NEW k \in Nat, Alike(Round(OK(t), k), Q, B)
        PROVE  Longer(ProcessItems(t), Q.r, <<>>, B)
    <2>1. Reader(t, B) /\ t.rstack # <<>> /\ t.err = "none"
      BY <1>5 DEF Longer
    <2>2. Most(t) \in Nat /\ Stuck(Round(OK(t), Most(t)))
      BY <2>1, MostIsEnough
    <2>3. Stuck(Round(OK(t), k))
      BY <1>1, <1>5 DEF Stuck, Alike, Longer
    <2>4. Round(OK(t), k) = Round(OK(t), Most(t))
      BY <2>2, <2>3, StuckOnce
    <2>5. ProcessItems(t) = Round(OK(t), k).r
      BY <2>4, ProcessForm
    <2>6. QED
      BY <1>5, <2>5 DEF Alike
  <1> HIDE DEF P, Q
  <1>6. CASE P.ok /\ Q.ok /\ Longer(P.r, Q.r, y, B)
    BY <1>1, <1>2, <1>3, <1>6 DEF Stuck, Result, Complete
  <1>7. CASE ~P.ok /\ P.r.err = "protocol" /\ Q = P
    BY <1>2, <1>3, <1>7 DEF Result, Failed
  <1>8. CASE /\ ~P.ok /\ P.r.err = "none" /\ P.r.rstack # <<>>
             /\ \A t : Longer(P.r, t, y, B) => \E k \in Nat : Alike(Round(OK(t), k), Q, B)
    BY <1>2, <1>3, <1>5, <1>8 DEF Result, Behind
  <1>9. QED
    BY <1>4, <1>6, <1>7, <1>8 DEF Together

-----------------------------------------------------------------------------
(***************************************************************************)
(* What is fed, and what is asked for.                                     *)
(***************************************************************************)

Ready(r) == IF r.rstack = <<>> THEN [r EXCEPT !.rstack = <<NewTask>>] ELSE r

LEMMA GetReplyForm ==
  ASSUME NEW r, r.err = "none"
  PROVE  redisReaderGetReply(r) =
           IF Len(r.buf) = 0 THEN [reply |-> NoReply, r |-> r]
           ELSE Emitted(Discarded(ProcessItems(Ready(r))))
  BY Zenon DEF redisReaderGetReply, Ready

LEMMA FedIs ==
  ASSUME NEW B, NEW r, Reader(r, B), r.err = "none", NEW x \in Seq(B), NEW s, s = redisReaderFeed(r, x)
  PROVE  /\ Longer(r, s, x, B) /\ s.buf = r.buf \o x /\ s.buf \in Seq(B)
         /\ s = ReaderOf(r.buf \o x, r.pos, r.rstack, r.reply, r.err)
  <1>1. IsRecord(r) /\ r.buf \in Seq(B) /\ r.pos \in 0..Len(r.buf) /\ Stack(r.rstack)
    BY DEF Reader
  <1>2. s = ReaderOf(r.buf \o x, r.pos, r.rstack, r.reply, r.err)
    <2>1. s = [r EXCEPT !.buf = r.buf \o x]
      BY DEF redisReaderFeed
    <2>2. QED
      BY <1>1, <2>1, SetBuf, Zenon
  <1>3. /\ IsRecord(s) /\ s.buf = r.buf \o x /\ s.pos = r.pos /\ s.rstack = r.rstack
        /\ s.reply = r.reply /\ s.err = r.err
    <2> DEFINE c == r.buf \o x
    <2>1. s = ReaderOf(c, r.pos, r.rstack, r.reply, r.err)
      BY <1>2
    <2> HIDE DEF c
    <2>2. IsRecord(s) /\ s.buf = c /\ s.pos = r.pos /\ s.rstack = r.rstack /\ s.reply = r.reply /\ s.err = r.err
      BY <2>1, Fields
    <2>3. QED
      BY <2>2 DEF c
  <1>4. s.buf \in Seq(B) /\ s.pos \in 0..Len(s.buf)
    BY <1>1, <1>3
  <1>5. Left(s) = Left(r) \o x
    BY <1>1, <1>3, RestOfLonger DEF Left
  <1>6. QED
    BY <1>1, <1>2, <1>3, <1>4, <1>5 DEF Longer, Reader

LEMMA ReadyIs ==
  ASSUME NEW B, NEW r, Reader(r, B), NEW s, s = Ready(r)
  PROVE  /\ Reader(s, B) /\ Left(s) = Left(r) /\ s.rstack # <<>> /\ s.reply = r.reply /\ s.err = r.err
         /\ s.rstack = IF r.rstack = <<>> THEN <<NewTask>> ELSE r.rstack
  <1>1. CASE r.rstack # <<>>
    BY <1>1 DEF Ready
  <1>2. CASE r.rstack = <<>>
    <2>1. s = ReaderOf(r.buf, r.pos, <<NewTask>>, r.reply, r.err)
      <3>1. s = [r EXCEPT !.rstack = <<NewTask>>]
        BY <1>2 DEF Ready
      <3>2. QED
        BY <3>1, SetStack, Zenon DEF Reader
    <2>2. /\ IsRecord(s) /\ s.buf = r.buf /\ s.pos = r.pos /\ s.rstack = <<NewTask>>
          /\ s.reply = r.reply /\ s.err = r.err
      BY <2>1, Fields
    <2>3. NewTask \in Item
      BY DEF NewTask, Item, TaskType
    <2> DEFINE T == <<NewTask>>
    <2>4. Stack(T) /\ T # <<>>
      <3>1. T \in Seq({NewTask}) /\ Len(T) = 1 /\ T[1] = NewTask /\ T # <<>>
        OBVIOUS
      <3> HIDE DEF T
      <3>2. Last(T) = NewTask
        BY <3>1 DEF Last
      <3>3. QED
        BY <2>3, <3>1, <3>2 DEF Stack
    <2>5. QED
      BY <1>2, <2>2, <2>4 DEF Reader, Left
  <1>3. QED
    BY <1>1, <1>2

LEMMA ReadyLonger ==
  ASSUME NEW B, NEW r, NEW s, NEW y, Longer(r, s, y, B)
  PROVE  Longer(Ready(r), Ready(s), y, B) /\ Ready(r).rstack # <<>> /\ Ready(r).err = r.err
  <1>1. Reader(r, B) /\ Reader(s, B) /\ Left(s) = Left(r) \o y
        /\ s.rstack = r.rstack /\ s.reply = r.reply /\ s.err = r.err
    BY DEF Longer
  <1>2. /\ Reader(Ready(r), B) /\ Left(Ready(r)) = Left(r) /\ Ready(r).rstack # <<>>
        /\ Ready(r).reply = r.reply /\ Ready(r).err = r.err
        /\ Ready(r).rstack = IF r.rstack = <<>> THEN <<NewTask>> ELSE r.rstack
    BY <1>1, ReadyIs, Zenon
  <1>3. /\ Reader(Ready(s), B) /\ Left(Ready(s)) = Left(s)
        /\ Ready(s).reply = s.reply /\ Ready(s).err = s.err
        /\ Ready(s).rstack = IF s.rstack = <<>> THEN <<NewTask>> ELSE s.rstack
    BY <1>1, ReadyIs, Zenon
  <1>4. QED
    BY <1>1, <1>2, <1>3 DEF Longer

LEMMA DiscardedIs ==
  ASSUME NEW B, NEW r, Reader(r, B)
  PROVE  Longer(r, Discarded(r), <<>>, B)
  <1> DEFINE s == Discarded(r)
  <1>1. CASE r.pos >= DiscardAt
    <2>1. s = ReaderOf(Left(r), 0, r.rstack, r.reply, r.err)
      <3>1. s = [r EXCEPT !.buf = Left(r), !.pos = 0]
        BY <1>1 DEF Discarded
      <3>2. QED
        BY <3>1, SetBufPos, Zenon DEF Reader
    <2> HIDE DEF s
    <2>2. /\ IsRecord(s) /\ s.buf = Left(r) /\ s.pos = 0 /\ s.rstack = r.rstack
          /\ s.reply = r.reply /\ s.err = r.err
      BY <2>1, Fields
    <2>3. Left(r) \in Seq(B)
      BY LeftIs
    <2>4. Left(s) = Left(r) \o <<>>
      <3> DEFINE l == Left(r)
      <3>1. Left(s) = SubSeq(l, 1, Len(l))
        BY <2>2 DEF Left
      <3>2. l \in Seq(B)
        BY <2>3
      <3> HIDE DEF l
      <3>3. SubSeq(l, 1, Len(l)) = l \o <<>>
        BY <3>2
      <3>4. QED
        BY <3>1, <3>3 DEF l
    <2>5. s.pos \in 0..Len(s.buf)
      BY <2>2, <2>3
    <2>6. Reader(s, B)
      BY <2>2, <2>3, <2>5 DEF Reader
    <2>7. QED
      BY <2>2, <2>4, <2>6 DEF Longer, s
  <1>2. CASE ~(r.pos >= DiscardAt)
    BY <1>2, SameAsItself DEF Discarded
  <1>3. QED
    BY <1>1, <1>2

\* What is emitted of a reader with a reply, and of one without.
LEMMA EmittedReply ==
  ASSUME NEW B, NEW d, Reader(d, B), d.err = "none", d.rstack = <<>>, NEW g, g = Emitted(d)
  PROVE  /\ g.reply = d.reply /\ Reader(g.r, B) /\ Left(g.r) = Left(d)
         /\ g.r.rstack = <<>> /\ g.r.reply = NoReply /\ g.r.err = "none"
  <1>1. g.reply = d.reply /\ g.r = [d EXCEPT !.reply = NoReply]
    BY DEF Emitted
  <1>2. g.r = ReaderOf(d.buf, d.pos, d.rstack, NoReply, d.err)
    BY <1>1, SetReply, Zenon DEF Reader
  <1>3. /\ IsRecord(g.r) /\ g.r.buf = d.buf /\ g.r.pos = d.pos /\ g.r.rstack = d.rstack
        /\ g.r.reply = NoReply /\ g.r.err = d.err
    BY <1>2, Fields
  <1>4. QED
    BY <1>1, <1>3 DEF Reader, Left

LEMMA EmittedNone ==
  ASSUME NEW d, ~(d.err = "none" /\ d.rstack = <<>>), NEW g, g = Emitted(d)
  PROVE  g.reply = NoReply /\ g.r = d
  BY DEF Emitted

LEMMA EmittedSame ==
  ASSUME NEW B, NEW d, NEW e, Longer(d, e, <<>>, B)
  PROVE  Emitted(e).reply = Emitted(d).reply /\ Same(Emitted(d).r, Emitted(e).r)
  <1>1. /\ Reader(d, B) /\ Reader(e, B) /\ Left(e) = Left(d) /\ e.rstack = d.rstack
        /\ e.reply = d.reply /\ e.err = d.err
    BY SameLeft DEF Longer
  <1>2. CASE d.err = "none" /\ d.rstack = <<>>
    <2>1. /\ Emitted(d).reply = d.reply /\ Left(Emitted(d).r) = Left(d)
          /\ Emitted(d).r.rstack = <<>> /\ Emitted(d).r.reply = NoReply /\ Emitted(d).r.err = "none"
      BY <1>1, <1>2, EmittedReply
    <2>2. /\ Emitted(e).reply = e.reply /\ Left(Emitted(e).r) = Left(e)
          /\ Emitted(e).r.rstack = <<>> /\ Emitted(e).r.reply = NoReply /\ Emitted(e).r.err = "none"
      BY <1>1, <1>2, EmittedReply
    <2>3. QED
      BY <1>1, <2>1, <2>2 DEF Same
  <1>3. CASE ~(d.err = "none" /\ d.rstack = <<>>)
    <2>1. Emitted(d).reply = NoReply /\ Emitted(d).r = d
      BY <1>3, EmittedNone
    <2>2. Emitted(e).reply = NoReply /\ Emitted(e).r = e
      BY <1>1, <1>3, EmittedNone
    <2>3. QED
      BY <1>1, <2>1, <2>2 DEF Same
  <1>4. QED
    BY <1>2, <1>3

LEMMA LongerTwice ==
  ASSUME NEW B, NEW r, NEW s, NEW t, NEW x \in Seq(B), NEW y \in Seq(B),
         Longer(r, s, x, B), Longer(s, t, y, B)
  PROVE  Longer(r, t, x \o y, B)
  <1>1. Left(r) \in Seq(B) /\ Left(t) = (Left(r) \o x) \o y
    BY LeftIs DEF Longer
  <1>2. Left(t) = Left(r) \o (x \o y)
    BY <1>1
  <1>3. QED
    BY <1>2 DEF Longer

LEMMA SameThenLonger ==
  ASSUME NEW B, NEW r, NEW s, NEW t, NEW y, Longer(r, s, <<>>, B), Longer(s, t, y, B)
  PROVE  Longer(r, t, y, B)
  <1>1. Left(s) = Left(r)
    BY SameLeft
  <1>2. QED
    BY <1>1 DEF Longer

(***************************************************************************)
(* Bytes fed to a reader in two pieces come to what they come to in one:   *)
(* redisReaderGetReply (hiredis.c) gives the same reply or error whether   *)
(* the second piece was there already or came later, in whatever state     *)
(* between two tasks, or inside of one, the reader waits, with as many     *)
(* bytes as it likes consumed or dropped from its buffer.                  *)
(***************************************************************************)
THEOREM CutsDoNotMatter ==
  ASSUME NEW B, NEW r, Reader(r, B), r.err = "none", NEW x \in Seq(B), NEW y \in Seq(B)
  PROVE  Reader(Fed(r, x).r, B) /\ CutIsNotSeen(r, x, y)
  <1> DEFINE a == redisReaderFeed(r, x)
             b == redisReaderFeed(r, x \o y)
             first == Fed(r, x)
             whole == Fed(r, x \o y)
  <1>0. first = redisReaderGetReply(a) /\ whole = redisReaderGetReply(b)
    BY DEF Fed
  <1>00. CutIsNotSeen(r, x, y) <=>
    \/ /\ first.reply # NoReply /\ first.r.err = "none" /\ first.r.rstack = <<>>
       /\ whole.reply = first.reply /\ whole.r.err = "none" /\ whole.r.rstack = <<>>
       /\ whole.r.reply = NoReply /\ first.r.reply = NoReply
       /\ Left(whole.r) = Left(first.r) \o y
    \/ first.reply = NoReply /\ first.r.err # "none" /\ whole = first
    \/ /\ first.reply = NoReply /\ first.r.err = "none"
       /\ Fed(first.r, y).reply = whole.reply /\ Same(Fed(first.r, y).r, whole.r)
    BY Zenon DEF CutIsNotSeen
  <1>1. x \o y \in Seq(B)
    OBVIOUS
  <1>2. /\ Longer(r, a, x, B) /\ a.buf = r.buf \o x /\ a.buf \in Seq(B)
        /\ a = ReaderOf(r.buf \o x, r.pos, r.rstack, r.reply, r.err)
    BY FedIs
  <1>3. /\ Longer(r, b, x \o y, B) /\ b.buf = r.buf \o (x \o y)
        /\ b = ReaderOf(r.buf \o (x \o y), r.pos, r.rstack, r.reply, r.err)
    <2> DEFINE z == x \o y
    <2>1. z \in Seq(B) /\ b = redisReaderFeed(r, z)
      BY <1>1
    <2> HIDE DEF b, z
    <2>2. /\ Longer(r, b, z, B) /\ b.buf = r.buf \o z
          /\ b = ReaderOf(r.buf \o z, r.pos, r.rstack, r.reply, r.err)
      BY <2>1, FedIs
    <2>3. QED
      BY <2>2 DEF z
  <1>4. r.buf \in Seq(B) /\ b.buf = a.buf \o y
    <2>1. r.buf \in Seq(B)
      BY DEF Reader
    <2>2. \A u \in Seq(B) : u \o (x \o y) = (u \o x) \o y
      OBVIOUS
    <2>3. r.buf \o (x \o y) = (r.buf \o x) \o y
      BY <2>1, <2>2, Zenon
    <2>4. QED
      BY <1>2, <1>3, <2>1, <2>3, Zenon
  <1>5. a.err = "none" /\ b.err = "none" /\ Reader(a, B) /\ Longer(a, b, y, B)
    <2>1. /\ Reader(a, B) /\ Reader(b, B) /\ a.err = "none" /\ b.err = "none"
          /\ b.rstack = a.rstack /\ b.reply = a.reply
      BY <1>2, <1>3 DEF Longer
    <2>2. Left(r) \in Seq(B) /\ Left(a) = Left(r) \o x /\ Left(b) = Left(r) \o (x \o y)
      BY <1>2, <1>3, LeftIs DEF Longer
    <2>3. Left(b) = Left(a) \o y
      BY <2>2
    <2>4. QED
      BY <2>1, <2>3 DEF Longer
  <1> HIDE DEF a, b, first, whole
  <1>6. CASE Len(a.buf) = 0
    <2>1. first.reply = NoReply /\ first.r = a
      BY <1>0, <1>5, <1>6, GetReplyForm
    <2>2. a.buf = <<>> /\ r.buf = <<>> /\ x = <<>>
      BY <1>2, <1>4, <1>6
    <2>3. a = r
      <3>1. r.buf \o x = r.buf
        BY <2>2
      <3>2. QED
        BY <1>2, <3>1 DEF Reader, IsRecord
    <2>4. x \o y = y
      BY <2>2
    <2>5. Fed(first.r, y) = whole
      BY <2>1, <2>3, <2>4 DEF whole
    <2>6. QED
      BY <1>00, <1>5, <2>1, <2>5 DEF Same, first
  <1>7. CASE Len(a.buf) # 0
    <2> DEFINE p == ProcessItems(Ready(a))
               q == ProcessItems(Ready(b))
    <2>1. Len(b.buf) # 0
      BY <1>2, <1>4, <1>7
    <2>2. first = Emitted(Discarded(p)) /\ whole = Emitted(Discarded(q))
      BY <1>0, <1>5, <1>7, <2>1, GetReplyForm
    <2>3. Longer(Ready(a), Ready(b), y, B) /\ Ready(a).rstack # <<>> /\ Ready(a).err = "none"
      BY <1>5, ReadyLonger
    <2>4. Reader(p, B) /\ (Complete(p, q, y, B) \/ Failed(p, q) \/ Behind(p, q, y, B))
      BY <2>3, ProcessLonger, Zenon
    <2> HIDE DEF p, q
    <2> DEFINE d == Discarded(p)
               e == Discarded(q)
    <2>5. Longer(p, d, <<>>, B) /\ Reader(d, B) /\ d.rstack = p.rstack /\ d.reply = p.reply /\ d.err = p.err
      BY <2>4, DiscardedIs DEF Longer
    <2>6. first = Emitted(d) /\ whole = Emitted(e)
      BY <2>2
    <2>7. CASE Complete(p, q, y, B)
      <3>1. /\ p.err = "none" /\ p.rstack = <<>> /\ p.reply # NoReply /\ Longer(p, q, y, B)
        BY <2>7 DEF Complete
      <3>2. Reader(q, B) /\ Longer(q, e, <<>>, B)
        BY <3>1, DiscardedIs DEF Longer
      <3>3. Left(d) = Left(p) /\ Left(e) = Left(q)
        BY <2>5, <3>2, SameLeft
      <3>4. /\ Reader(e, B) /\ e.rstack = <<>> /\ e.reply = p.reply /\ e.err = "none"
            /\ Left(e) = Left(d) \o y
        BY <3>1, <3>2, <3>3 DEF Longer
      <3> HIDE DEF d, e
      <3>5. /\ first.reply = p.reply /\ Reader(first.r, B) /\ Left(first.r) = Left(d)
            /\ first.r.rstack = <<>> /\ first.r.reply = NoReply /\ first.r.err = "none"
        BY <2>5, <2>6, <3>1, EmittedReply
      <3>6. /\ whole.reply = p.reply /\ Left(whole.r) = Left(e)
            /\ whole.r.rstack = <<>> /\ whole.r.reply = NoReply /\ whole.r.err = "none"
        BY <2>6, <3>4, EmittedReply
      <3>7. QED
        BY <1>00, <3>1, <3>4, <3>5, <3>6 DEF first
    <2>8. CASE Failed(p, q)
      <3>1. p.err # "none" /\ q = p
        BY <2>8 DEF Failed
      <3>2. e = d
        BY <3>1
      <3> HIDE DEF d, e
      <3>3. first.reply = NoReply /\ first.r = d /\ whole = first
        BY <2>5, <2>6, <3>1, <3>2, EmittedNone
      <3>4. QED
        BY <1>00, <2>5, <3>1, <3>3 DEF first
    <2>9. CASE Behind(p, q, y, B)
      <3>1. p.err = "none" /\ p.rstack # <<>>
        BY <2>9 DEF Behind
      <3> HIDE DEF d
      <3>2. first.reply = NoReply /\ first.r = d
        BY <2>5, <2>6, <3>1, EmittedNone
      <3> DEFINE t == redisReaderFeed(d, y)
                 second == Fed(d, y)
      <3>3. second = redisReaderGetReply(t)
        BY DEF Fed
      <3>4. Longer(d, t, y, B) /\ t.buf = d.buf \o y /\ t = ReaderOf(d.buf \o y, d.pos, d.rstack, d.reply, d.err)
        BY <2>5, <3>1, FedIs
      <3> HIDE DEF t, second
      <3>5. Longer(p, t, y, B) /\ t.err = "none" /\ t.rstack # <<>>
        BY <2>5, <3>1, <3>4, SameThenLonger DEF Longer
      <3>6. CASE Len(t.buf) # 0
        <4>1. second = Emitted(Discarded(ProcessItems(t)))
          BY <3>3, <3>5, <3>6, GetReplyForm DEF Ready
        <4> DEFINE u == ProcessItems(t)
        <4>2. Longer(u, q, <<>>, B)
          BY <2>9, <3>5 DEF Behind
        <4> HIDE DEF u
        <4>3. Longer(u, Discarded(u), <<>>, B) /\ Longer(q, e, <<>>, B)
          BY <4>2, DiscardedIs DEF Longer
        <4>4. Longer(Discarded(u), e, <<>>, B)
          <5>1. Longer(u, e, <<>>, B)
            BY <4>2, <4>3, SameThenLonger
          <5>2. QED
            BY <4>3, <5>1, AlikeBehind
        <4>5. second.reply = whole.reply /\ Same(second.r, whole.r)
          BY <4>1, <4>4, <2>6, EmittedSame DEF u
        <4>6. QED
          BY <1>00, <2>5, <3>1, <3>2, <4>5 DEF first, second
      <3>7. CASE Len(t.buf) = 0
        <4>1. d.buf \in Seq(B)
          BY <2>5 DEF Reader
        <4>2. d.buf = <<>> /\ y = <<>> /\ d.buf \o y = d.buf
          BY <3>4, <3>7, <4>1
        <4>3. t = d
          BY <2>5, <3>4, <4>2 DEF Reader, IsRecord
        <4>4. second.reply = NoReply /\ second.r = d
          BY <3>3, <3>5, <3>7, <4>3, GetReplyForm
        <4>5. whole = first
          <5>1. x \o y = x
            BY <4>2
          <5>2. QED
            BY <5>1 DEF first, whole
        <4>6. QED
          BY <1>00, <2>5, <3>1, <3>2, <4>4, <4>5 DEF Same, first, second
      <3>8. QED
        BY <3>6, <3>7
    <2>10. QED
      BY <2>4, <2>7, <2>8, <2>9
  <1>8. QED
    BY <1>6, <1>7

-----------------------------------------------------------------------------
(***************************************************************************)
(* Any number of pieces.                                                   *)
(***************************************************************************)

LEMMA FreshReader ==
  ASSUME NEW B
  PROVE  Reader(redisReaderCreate, B) /\ redisReaderCreate.err = "none"
  <1> DEFINE r == redisReaderCreate
  <1>1. r = ReaderOf(<<>>, 0, <<>>, NoReply, "none")
    BY DEF redisReaderCreate, ReaderOf
  <1> HIDE DEF r
  <1>2. IsRecord(r) /\ r.buf = <<>> /\ r.pos = 0 /\ r.rstack = <<>> /\ r.err = "none"
    BY <1>1, Fields
  <1>3. <<>> \in Seq(B) /\ 0 \in 0..Len(<<>>) /\ <<>> \in Seq({}) /\ Len(<<>>) <= 9
    OBVIOUS
  <1>4. QED
    BY <1>2, <1>3 DEF Reader, Stack, r

LEMMA ProcessSame ==
  ASSUME NEW B, NEW r, NEW s, Longer(r, s, <<>>, B)
  PROVE  Longer(ProcessItems(r), ProcessItems(s), <<>>, B)
  <1> DEFINE P(n) == Round(OK(r), n)
             Q(n) == Round(OK(s), n)
             S == {n \in Nat : Alike(P(n), Q(n), B)}
  <1>1. /\ P(0) = OK(r) /\ Q(0) = OK(s)
        /\ \A n \in Nat : P(n + 1) = Again(P(n)) /\ Q(n + 1) = Again(Q(n))
    BY RoundStep
  <1>2. Left(s) = Left(r) /\ Left(r) \in Seq(B)
    BY SameLeft, LeftIs DEF Longer
  <1>3. Most(s) = Most(r) /\ Most(r) \in Nat
    BY <1>2 DEF Most
  <1> HIDE DEF P, Q
  <1>4. 0 \in S
    BY <1>1, ResultOf DEF Alike
  <1>5. \A n \in Nat : n \in S => n + 1 \in S
    BY <1>1, AgainSame
  <1> HIDE DEF S
  <1>6. Nat \subseteq S
    BY <1>4, <1>5, Induct
  <1>7. Alike(P(Most(r)), Q(Most(r)), B)
    BY <1>3, <1>6 DEF S
  <1>8. QED
    BY <1>3, <1>7, ProcessForm DEF Alike, P, Q

\* Two readers that nothing tells apart answer alike when bytes have come.
LEMMA SameAnswers ==
  ASSUME NEW B, NEW r, NEW s, Longer(r, s, <<>>, B), r.err = "none", NEW y \in Seq(B), y # <<>>
  PROVE  Fed(s, y).reply = Fed(r, y).reply /\ Same(Fed(r, y).r, Fed(s, y).r)
  <1> DEFINE a == redisReaderFeed(r, y)
             b == redisReaderFeed(s, y)
             p == ProcessItems(Ready(a))
             q == ProcessItems(Ready(b))
  <1>1. /\ Reader(r, B) /\ Reader(s, B) /\ s.err = "none" /\ Left(s) = Left(r)
        /\ s.rstack = r.rstack /\ s.reply = r.reply
    BY SameLeft DEF Longer
  <1>2. Longer(r, a, y, B) /\ a.buf = r.buf \o y
    BY <1>1, FedIs
  <1>3. Longer(s, b, y, B) /\ b.buf = s.buf \o y
    BY <1>1, FedIs
  <1>4. Len(a.buf) # 0 /\ Len(b.buf) # 0
    <2>1. r.buf \in Seq(B) /\ s.buf \in Seq(B)
      BY <1>1 DEF Reader
    <2>2. \A u \in Seq(B) : Len(u \o y) # 0
      OBVIOUS
    <2>3. QED
      BY <1>2, <1>3, <2>1, <2>2
  <1> HIDE DEF a, b
  <1>5. Longer(r, b, y, B)
    BY <1>3, SameThenLonger
  <1>6. Longer(a, b, <<>>, B) /\ a.err = "none" /\ b.err = "none"
    BY <1>1, <1>2, <1>3, <1>5, AlikeBehind DEF Longer
  <1>7. /\ Fed(r, y) = Emitted(Discarded(p)) /\ Fed(s, y) = Emitted(Discarded(q))
    BY <1>4, <1>6, GetReplyForm DEF Fed, a, b
  <1>8. Longer(Ready(a), Ready(b), <<>>, B) /\ Ready(a).rstack # <<>> /\ Ready(a).err = "none"
    BY <1>6, ReadyLonger
  <1>10. Longer(p, q, <<>>, B)
    BY <1>8, ProcessSame
  <1> HIDE DEF p, q
  <1>11. Longer(p, Discarded(p), <<>>, B) /\ Longer(q, Discarded(q), <<>>, B)
    BY <1>10, DiscardedIs DEF Longer
  <1>12. Longer(Discarded(p), Discarded(q), <<>>, B)
    <2>1. Longer(p, Discarded(q), <<>>, B)
      BY <1>10, <1>11, SameThenLonger
    <2>2. QED
      BY <1>11, <2>1, AlikeBehind
  <1>13. QED
    BY <1>7, <1>12, EmittedSame

LEMMA TwoPieces ==
  ASSUME NEW B, NEW s \in Seq(B), NEW m \in 0..Len(s), NEW n \in m..Len(s)
  PROVE  /\ SubSeq(s, 1, m) \in Seq(B) /\ SubSeq(s, m + 1, n) \in Seq(B)
         /\ SubSeq(s, 1, n) = SubSeq(s, 1, m) \o SubSeq(s, m + 1, n)
         /\ n > m => SubSeq(s, m + 1, n) # <<>>
  OBVIOUS

(***************************************************************************)
(* However bytes are cut into the pieces that reads (async.c) bring, once  *)
(* there is a reply or an error it is that of all of them in one piece,    *)
(* with the same bytes left: when the n-th piece has come and none before  *)
(* it has completed a reply, the reader answers as a fresh one fed with    *)
(* all.                                                                    *)
(***************************************************************************)
THEOREM PiecesMakeTheReply ==
  ASSUME NEW B, NEW s \in Seq(B), NEW n \in Nat \ {0},
         NEW cut \in [0..n -> 0..Len(s)], cut[0] = 0, \A k \in 1..n : cut[k - 1] < cut[k],
         NEW got, DOMAIN got = 1..n,
         \A k \in 1..n :
           got[k] = Fed(IF k = 1 THEN redisReaderCreate ELSE got[k - 1].r,
                        SubSeq(s, cut[k - 1] + 1, cut[k])),
         \A k \in 1..n - 1 : got[k].reply = NoReply /\ got[k].r.err = "none",
         NEW whole, whole = Fed(redisReaderCreate, SubSeq(s, 1, cut[n]))
  PROVE  got[n].reply = whole.reply /\ Same(got[n].r, whole.r)
  <1> DEFINE All(k) == Fed(redisReaderCreate, SubSeq(s, 1, cut[k]))
             piece(k) == SubSeq(s, cut[k - 1] + 1, cut[k])
             Is(k) == /\ got[k].reply = All(k).reply /\ Same(got[k].r, All(k).r)
                      /\ Reader(got[k].r, B) /\ Reader(All(k).r, B)
             S == {k \in Nat : k + 1 \in 1..n => Is(k + 1)}
  <1>1. ASSUME NEW k \in 1..n
        PROVE  /\ cut[k] \in 0..Len(s) /\ cut[k - 1] \in 0..cut[k] /\ cut[k] > cut[k - 1]
               /\ piece(k) \in Seq(B) /\ piece(k) # <<>> /\ SubSeq(s, 1, cut[k - 1]) \in Seq(B)
               /\ SubSeq(s, 1, cut[k]) = SubSeq(s, 1, cut[k - 1]) \o piece(k)
    <2>1. k \in 0..n /\ k - 1 \in 0..n /\ cut[k - 1] < cut[k]
      OBVIOUS
    <2>2. cut[k] \in 0..Len(s) /\ cut[k - 1] \in 0..Len(s)
      BY <2>1
    <2>3. cut[k] \in cut[k - 1]..Len(s) /\ cut[k - 1] \in 0..cut[k]
      BY <2>1, <2>2
    <2> DEFINE u == cut[k - 1]
               v == cut[k]
    <2>4. u \in 0..Len(s) /\ v \in u..Len(s) /\ v > u
      BY <2>1, <2>2, <2>3
    <2> HIDE DEF u, v
    <2>5. /\ SubSeq(s, 1, u) \in Seq(B) /\ SubSeq(s, u + 1, v) \in Seq(B)
          /\ SubSeq(s, 1, v) = SubSeq(s, 1, u) \o SubSeq(s, u + 1, v)
          /\ SubSeq(s, u + 1, v) # <<>>
      BY <2>4, TwoPieces, ZenonT(60)
    <2>6. QED
      BY <2>1, <2>2, <2>3, <2>5, Zenon DEF u, v
  <1>3. 0 \in S
    <2>1. 1 \in 1..n
      OBVIOUS
    <2>2. got[1] = Fed(redisReaderCreate, SubSeq(s, cut[0] + 1, cut[1]))
      BY <2>1
    <2>3. got[1] = All(1) /\ SubSeq(s, 1, cut[1]) \in Seq(B)
      BY <1>1, <2>1, <2>2
    <2>4. Reader(All(1).r, B)
      BY <2>3, FreshReader, CutsDoNotMatter
    <2>5. QED
      BY <2>3, <2>4 DEF Same
  <1>4. ASSUME NEW k \in Nat, k \in S
        PROVE  k + 1 \in S
    <2> DEFINE m == k + 1
               x == SubSeq(s, 1, cut[m])
               y == piece(m + 1)
    <2>1. SUFFICES ASSUME m + 1 \in 1..n PROVE Is(m + 1)
      OBVIOUS
    <2>2. m \in 1..n - 1 /\ m \in 1..n /\ m + 1 # 1 /\ (m + 1) - 1 = m /\ m \in Nat
      BY <2>1
    <2>3. Is(m) /\ got[m].reply = NoReply /\ got[m].r.err = "none"
      BY <1>4, <2>2
    <2> HIDE DEF m
    <2>4. got[m + 1] = Fed(got[m].r, y)
      BY <2>1, <2>2
    <2>5. x \in Seq(B) /\ y \in Seq(B) /\ y # <<>> /\ SubSeq(s, 1, cut[m + 1]) = x \o y
      BY <1>1, <2>1, <2>2
    <2>6. All(m) = Fed(redisReaderCreate, x) /\ All(m + 1) = Fed(redisReaderCreate, x \o y)
      BY <2>5
    <2> HIDE DEF All, x, y, piece
    <2>7. All(m).reply = NoReply /\ All(m).r.err = "none"
      BY <2>3 DEF Same
    <2>8. CutIsNotSeen(redisReaderCreate, x, y)
      BY <2>5, FreshReader, CutsDoNotMatter
    <2>9. Fed(All(m).r, y).reply = All(m + 1).reply /\ Same(Fed(All(m).r, y).r, All(m + 1).r)
      BY <2>6, <2>7, <2>8, Zenon DEF CutIsNotSeen
    <2>10. Longer(got[m].r, All(m).r, <<>>, B)
      <3>1. Left(got[m].r) \in Seq(B)
        BY <2>3, LeftIs
      <3>2. Left(got[m].r) = Left(got[m].r) \o <<>>
        BY <3>1
      <3>3. QED
        BY <2>3, <3>2 DEF Same, Longer
    <2>11. /\ Fed(All(m).r, y).reply = Fed(got[m].r, y).reply
           /\ Same(Fed(got[m].r, y).r, Fed(All(m).r, y).r)
      BY <2>3, <2>5, <2>10, SameAnswers
    <2>12. Reader(got[m + 1].r, B) /\ Reader(All(m + 1).r, B)
      <3>1. Reader(Fed(got[m].r, y).r, B)
        BY <2>3, <2>5, CutsDoNotMatter
      <3>2. x \o y \in Seq(B)
        BY <2>5
      <3>3. Reader(Fed(redisReaderCreate, x \o y).r, B)
        BY <3>2, FreshReader, CutsDoNotMatter
      <3>4. QED
        BY <2>4, <2>6, <3>1, <3>3
    <2>13. QED
      BY <2>4, <2>9, <2>11, <2>12 DEF Same
  <1> HIDE DEF S
  <1>5. Nat \subseteq S
    BY <1>3, <1>4, Induct
  <1>6. Is(n)
    <2>1. n - 1 \in Nat /\ (n - 1) + 1 = n /\ n \in 1..n
      OBVIOUS
    <2> HIDE DEF Is
    <2>2. QED
      BY <1>5, <2>1 DEF S
  <1>7. QED
    BY <1>6

-----------------------------------------------------------------------------
(***************************************************************************)
(* The formatter: the digits of a length, and what they are read as.       *)
(***************************************************************************)

LEMMA Along ==
  ASSUME NEW n \in Nat, NEW S, 0 \in S, \A k \in 0..n : k < n /\ k \in S => k + 1 \in S
  PROVE  \A k \in 0..n : k \in S
  <1> DEFINE T == {k \in Nat : k <= n => k \in S}
  <1>1. 0 \in T
    OBVIOUS
  <1>2. ASSUME NEW k \in Nat, k \in T PROVE k + 1 \in T
    BY <1>2
  <1> HIDE DEF T
  <1>3. Nat \subseteq T
    BY <1>1, <1>2, Induct
  <1>4. QED
    BY <1>3 DEF T

\* The numbers of up to ten digits: every int that is not negative is one.
Number == {n \in Nat : n < 10 * (10 * (10 * (10 * (10 * (10 * (10 * (10 * (10 * 10))))))))}

LEMMA Tenth == \A a \in Nat, m \in Nat : a < 10 * m => a \div 10 < m
  BY SMT

LEMMA QuotientsAre ==
  ASSUME NEW n \in Nat
  PROVE  /\ Quotients(n)[0] = n
         /\ \A k \in 1..10 : Quotients(n)[k] = Quotients(n)[k - 1] \div 10
         /\ \A k \in 0..10 : Quotients(n)[k] \in Nat
  <1> DEFINE Is(g) == g = [k \in 0..10 |-> IF k = 0 THEN n ELSE g[k - 1] \div 10]
             q == CHOOSE g : Is(g)
             h == [k \in 1..10 |-> [w \in Nat |-> w \div 10]]
  <1>1. Quotients(n) = q
    BY Zenon DEF Quotients
  <1> HIDE DEF q
  <1>2. h \in [1..10 -> [Nat -> Nat]]
    OBVIOUS
  <1>3. PICK g : g \in [0..10 -> Nat] /\ g[0] = n /\ \A k \in 1..10 : g[k] = h[k][g[k - 1]]
    <2> HIDE DEF h
    <2>1. \E g : Iterates(g, 10, Nat, n, h)
      BY <1>2, Iteration
    <2>2. QED
      BY <2>1 DEF Iterates
  <1>4. Is(g)
    <2>1. ASSUME NEW k \in 1..10 PROVE h[k][g[k - 1]] = g[k - 1] \div 10
      <3>1. g[k - 1] \in Nat
        BY <1>3
      <3>2. h[k] = [w \in Nat |-> w \div 10]
        OBVIOUS
      <3> HIDE DEF h
      <3>3. QED
        BY <3>1, <3>2
    <2> HIDE DEF h
    <2>2. \A k \in 0..10 : g[k] = IF k = 0 THEN n ELSE g[k - 1] \div 10
      BY <1>3, <2>1
    <2>3. QED
      BY <1>3, <2>2
  <1>5. Is(q)
    BY <1>4 DEF q
  <1>6. \A k \in 0..10 : q[k] = IF k = 0 THEN n ELSE q[k - 1] \div 10
    BY <1>5
  <1>7. q[0] = n /\ \A k \in 1..10 : q[k] = q[k - 1] \div 10
    BY <1>6
  <1> DEFINE S == {k \in 0..10 : q[k] \in Nat}
  <1>8. 0 \in S /\ \A k \in 0..10 : k < 10 /\ k \in S => k + 1 \in S
    <2>1. 0 \in S
      BY <1>7
    <2>2. ASSUME NEW k \in 0..10, k < 10, k \in S PROVE k + 1 \in S
      <3>1. k + 1 \in 1..10 /\ (k + 1) - 1 = k /\ q[k] \in Nat
        BY <2>2
      <3>2. q[k + 1] = q[k] \div 10
        BY <3>1, <1>7
      <3>3. QED
        BY <3>1, <3>2
    <2>3. QED
      BY <2>1, <2>2
  <1> HIDE DEF S
  <1>9. \A k \in 0..10 : k \in S
    BY <1>8, Along
  <1>10. QED
    BY <1>1, <1>7, <1>9 DEF S

LEMMA LastQuotient ==
  ASSUME NEW n \in Number
  PROVE  n \in Nat /\ Quotients(n)[10] = 0
  <1> DEFINE q == Quotients(n)
             a == 10 * 10
             b == 10 * a
             c == 10 * b
             d == 10 * c
             e == 10 * d
             f == 10 * e
             g == 10 * f
             h == 10 * g
  <1>1. n \in Nat /\ n < 10 * h
    BY DEF Number
  <1>2. /\ q[0] = n /\ \A k \in 1..10 : q[k] = q[k - 1] \div 10
        /\ \A k \in 0..10 : q[k] \in Nat
    BY <1>1, QuotientsAre
  <1> HIDE DEF q
  <1>3. /\ q[1] = q[0] \div 10 /\ q[2] = q[1] \div 10 /\ q[3] = q[2] \div 10 /\ q[4] = q[3] \div 10
        /\ q[5] = q[4] \div 10 /\ q[6] = q[5] \div 10 /\ q[7] = q[6] \div 10
        /\ q[8] = q[7] \div 10 /\ q[9] = q[8] \div 10 /\ q[10] = q[9] \div 10
    BY <1>2
  <1>4. a \in Nat /\ b \in Nat /\ c \in Nat /\ d \in Nat /\ e \in Nat /\ f \in Nat /\ g \in Nat
        /\ h \in Nat /\ 10 \in Nat /\ 1 \in Nat /\ 10 = 10 * 1
    OBVIOUS
  <1>5. q[0] \in Nat /\ q[1] \in Nat /\ q[2] \in Nat /\ q[3] \in Nat /\ q[4] \in Nat
        /\ q[5] \in Nat /\ q[6] \in Nat /\ q[7] \in Nat /\ q[8] \in Nat /\ q[9] \in Nat
    BY <1>2
  <1> DEFINE Less(x, y) == x < y
  <1>6. \A x \in Nat, y \in Nat : Less(x, 10 * y) => Less(x \div 10, y)
    BY Tenth
  <1>7. Less(q[0], 10 * h)
    BY <1>1, <1>2
  <1> HIDE DEF Less, h
  <1>8. Less(q[1], h)
    BY <1>3, <1>4, <1>5, <1>6, <1>7, Zenon
  <1> HIDE DEF g
  <1>9. Less(q[2], g)
    BY <1>3, <1>4, <1>5, <1>6, <1>8, Zenon DEF h
  <1> HIDE DEF f
  <1>10. Less(q[3], f)
    BY <1>3, <1>4, <1>5, <1>6, <1>9, Zenon DEF g
  <1> HIDE DEF e
  <1>11. Less(q[4], e)
    BY <1>3, <1>4, <1>5, <1>6, <1>10, Zenon DEF f
  <1> HIDE DEF d
  <1>12. Less(q[5], d)
    BY <1>3, <1>4, <1>5, <1>6, <1>11, Zenon DEF e
  <1> HIDE DEF c
  <1>13. Less(q[6], c)
    BY <1>3, <1>4, <1>5, <1>6, <1>12, Zenon DEF d
  <1> HIDE DEF b
  <1>14. Less(q[7], b)
    BY <1>3, <1>4, <1>5, <1>6, <1>13, Zenon DEF c
  <1> HIDE DEF a
  <1>15. Less(q[8], a)
    BY <1>3, <1>4, <1>5, <1>6, <1>14, Zenon DEF b
  <1>16. Less(q[9], 10)
    BY <1>3, <1>4, <1>5, <1>6, <1>15, Zenon DEF a
  <1>17. q[9] \in 0..9
    BY <1>5, <1>16 DEF Less
  <1>18. q[10] = 0
    <2>1. q[10] = q[9] \div 10
      BY <1>3
    <2>2. \A m \in 0..9 : m \div 10 = 0
      BY SMT
    <2>3. QED
      BY <1>17, <2>1, <2>2, Zenon
  <1>19. QED
    BY <1>1, <1>18 DEF q

\* The number of digits, and what stays after that many divisions.
LEMMA intlenIs ==
  ASSUME NEW n \in Number
  PROVE  intlen(n) \in 1..10 /\ Quotients(n)[intlen(n)] = 0
  <1> DEFINE q == Quotients(n)
             Z == {k \in 1..10 : q[k] = 0}
             Is(k) == q[k] = 0 /\ (k > 1 => q[k - 1] > 0)
  <1>1. \A k \in 0..10 : q[k] \in Nat
    BY QuotientsAre, LastQuotient
  <1>2. 10 \in Z
    BY LastQuotient
  <1>3. Z \subseteq Nat /\ Z # {}
    BY <1>2
  <1>4. PICK k \in Z : \A m \in Z : k <= m
    <2> HIDE DEF Z
    <2>1. QED
      BY <1>3, Least
  <1>5. k > 1 => q[k - 1] > 0
    <2>1. SUFFICES ASSUME k > 1, ~(q[k - 1] > 0) PROVE FALSE
      OBVIOUS
    <2>2. k - 1 \in 1..10 /\ k - 1 \in 0..10 /\ k - 1 < k
      BY <1>4, <2>1
    <2>3. q[k - 1] = 0
      BY <1>1, <2>1, <2>2
    <2>4. k - 1 \in Z
      BY <2>2, <2>3
    <2>5. QED
      BY <1>4, <2>2, <2>4
  <1>6. k \in 1..10 /\ Is(k)
    BY <1>4, <1>5
  <1>7. intlen(n) = CHOOSE i \in 1..10 : Is(i)
    BY Zenon DEF intlen
  <1> HIDE DEF Is
  <1>8. intlen(n) \in 1..10 /\ Is(intlen(n))
    BY <1>6, <1>7
  <1>9. QED
    BY <1>8 DEF Is

LEMMA DigitsAre ==
  ASSUME NEW n \in Number
  PROVE  /\ Digits(n) \in Seq(ToSet(Figures)) /\ Len(Digits(n)) = intlen(n) /\ intlen(n) \in 1..10
         /\ \A i \in 1..intlen(n) : DigitOf[Digits(n)[i]] = Quotients(n)[intlen(n) - i] % 10
  <1> DEFINE l == intlen(n)
             q == Quotients(n)
             d == Digits(n)
  <1>1. l \in 1..10
    BY intlenIs
  <1>2. \A k \in 0..10 : q[k] \in Nat
    BY QuotientsAre, LastQuotient
  <1>3. d = [i \in 1..l |-> Figures[1 + (q[l - i] % 10)]]
    BY Zenon DEF Digits
  <1> HIDE DEF l, q, d
  <1>4. \A m \in 0..9 : Figures[1 + m] \in ToSet(Figures) /\ DigitOf[Figures[1 + m]] = m
    <2>1. \A m \in 0..9 : Figures[1 + m] \in ToSet(Figures)
      BY DEF ToSet, Figures
    <2>2. \A i, j \in 0..9 : Figures[i + 1] = Figures[j + 1] => i = j
      BY DEF Figures
    <2>3. ASSUME NEW m \in 0..9 PROVE DigitOf[Figures[1 + m]] = m
      <3>1. 1 + m = m + 1
        OBVIOUS
      <3>2. DigitOf[Figures[m + 1]] = CHOOSE j \in 0..9 : Figures[j + 1] = Figures[m + 1]
        BY <2>1, <3>1 DEF DigitOf
      <3>3. \A j \in 0..9 : Figures[j + 1] = Figures[m + 1] <=> j = m
        BY <2>2
      <3>4. QED
        BY <3>1, <3>2, <3>3
    <2>4. QED
      BY <2>1, <2>3
  <1>5. ASSUME NEW i \in 1..l
        PROVE  d[i] \in ToSet(Figures) /\ DigitOf[d[i]] = q[l - i] % 10
    <2>1. l - i \in 0..10 /\ d[i] = Figures[1 + (q[l - i] % 10)]
      BY <1>1, <1>3
    <2>2. q[l - i] \in Nat
      BY <1>2, <2>1
    <2> DEFINE m == q[l - i] % 10
    <2>3. m \in 0..9
      BY <2>2
    <2>4. d[i] = Figures[1 + m]
      BY <2>1
    <2> HIDE DEF m
    <2>5. d[i] \in ToSet(Figures) /\ DigitOf[d[i]] = m
      BY <1>4, <2>3, <2>4
    <2>6. QED
      BY <2>5 DEF m
  <1>6. d \in Seq(ToSet(Figures)) /\ Len(d) = l
    <2>1. \A T : \A m \in Nat : \A f \in [1..m -> T] : f \in Seq(T) /\ Len(f) = m
      OBVIOUS
    <2>2. l \in Nat /\ d \in [1..l -> ToSet(Figures)]
      BY <1>1, <1>3, <1>5
    <2>3. QED
      BY <2>1, <2>2
  <1>7. QED
    BY <1>1, <1>5, <1>6 DEF l, q, d

\* The value of every beginning of d.
LEMMA DecimalIs ==
  ASSUME NEW B, NEW d \in Seq(B), \A i \in 1..Len(d) : d[i] \in DOMAIN DigitOf
  PROVE  \E v \in [0..Len(d) -> Nat] :
           /\ v[0] = 0 /\ \A k \in 1..Len(d) : v[k] = 10 * v[k - 1] + DigitOf[d[k]]
           /\ Decimal(d) = v[Len(d)]
  <1> DEFINE n == Len(d)
             Is(g) == g = [i \in 0..n |-> IF i = 0 THEN 0 ELSE 10 * g[i - 1] + DigitOf[d[i]]]
             v == CHOOSE g : Is(g)
             h == [k \in 1..n |-> [w \in Nat |-> 10 * w + DigitOf[d[k]]]]
  <1>0. n \in Nat
    OBVIOUS
  <1>1. Decimal(d) = v[n]
    BY Zenon DEF Decimal
  <1>2. \A i \in 1..n : DigitOf[d[i]] \in Nat
    <2>1. \A c \in DOMAIN DigitOf : DigitOf[c] \in 0..9
      <3> SUFFICES ASSUME NEW c \in ToSet(Figures)
                   PROVE  (CHOOSE m \in 0..9 : Figures[m + 1] = c) \in 0..9
        BY DEF DigitOf
      <3>1. PICK j \in 1..10 : c = Figures[j]
        BY DEF ToSet, Figures
      <3>2. j - 1 \in 0..9 /\ Figures[(j - 1) + 1] = c
        BY <3>1
      <3>3. QED
        BY <3>2
    <2>2. QED
      BY <2>1
  <1> HIDE DEF v
  <1>3. h \in [1..n -> [Nat -> Nat]]
    BY <1>2
  <1>4. PICK g : g \in [0..n -> Nat] /\ g[0] = 0 /\ \A k \in 1..n : g[k] = h[k][g[k - 1]]
    <2> HIDE DEF h, n
    <2>1. 0 \in Nat
      OBVIOUS
    <2>2. \E g : Iterates(g, n, Nat, 0, h)
      BY <1>0, <1>3, <2>1, Iteration, Zenon
    <2>3. QED
      BY <2>2 DEF Iterates
  <1>5. Is(g)
    <2>1. ASSUME NEW k \in 1..n
          PROVE  h[k][g[k - 1]] = 10 * g[k - 1] + DigitOf[d[k]]
      <3>1. g[k - 1] \in Nat
        <4>1. k - 1 \in 0..n
          OBVIOUS
        <4> HIDE DEF h
        <4>2. QED
          BY <4>1, <1>4
      <3>2. h[k] = [w \in Nat |-> 10 * w + DigitOf[d[k]]]
        OBVIOUS
      <3> HIDE DEF h
      <3>3. QED
        BY <3>1, <3>2
    <2> HIDE DEF h
    <2>2. \A k \in 0..n : k # 0 => k \in 1..n
      OBVIOUS
    <2>3. \A k \in 0..n : g[k] = IF k = 0 THEN 0 ELSE 10 * g[k - 1] + DigitOf[d[k]]
      BY <1>4, <2>1, <2>2
    <2>4. QED
      BY <1>4, <2>3
  <1>6. Is(v)
    BY <1>5 DEF v
  <1> HIDE DEF n
  <1>7. /\ v[0] = 0 /\ \A k \in 1..n : v[k] = 10 * v[k - 1] + DigitOf[d[k]]
        /\ v = [k \in 0..n |-> v[k]]
    <2>1. \A k \in 0..n : v[k] = IF k = 0 THEN 0 ELSE 10 * v[k - 1] + DigitOf[d[k]]
      BY <1>6
    <2>2. 0 \in 0..n /\ \A k \in 1..n : k \in 0..n /\ k # 0
      BY <1>0
    <2>3. v = [k \in 0..n |-> v[k]]
      BY <1>6
    <2>4. QED
      BY <2>1, <2>2, <2>3
  <1> DEFINE S == {k \in 0..n : v[k] \in Nat}
  <1>8. ASSUME NEW k \in 0..n, k < n, k \in S
        PROVE  k + 1 \in S
    <2>1. v[k] \in Nat /\ k + 1 \in 1..n /\ k + 1 \in 0..n /\ (k + 1) - 1 = k
      BY <1>8, <1>0
    <2>2. v[k + 1] = 10 * v[k] + DigitOf[d[k + 1]]
      BY <1>7, <2>1
    <2>3. QED
      BY <1>2, <2>1, <2>2
  <1>9. 0 \in S
    BY <1>0, <1>7
  <1> HIDE DEF S
  <1>10. \A k \in 0..n : k \in S
    BY <1>0, <1>8, <1>9, Along
  <1>11. v \in [0..n -> Nat]
    BY <1>7, <1>10 DEF S
  <1>12. QED
    BY <1>1, <1>7, <1>11 DEF n

LEMMA DigitsComeBack ==
  ASSUME NEW n \in Number
  PROVE  Decimal(Digits(n)) = n
  <1> DEFINE l == intlen(n)
             q == Quotients(n)
             d == Digits(n)
  <1>1. /\ d \in Seq(ToSet(Figures)) /\ Len(d) = l /\ l \in 1..10
        /\ \A i \in 1..l : DigitOf[d[i]] = q[l - i] % 10
    BY DigitsAre
  <1>2. /\ q[0] = n /\ \A k \in 1..10 : q[k] = q[k - 1] \div 10
        /\ \A k \in 0..10 : q[k] \in Nat
    BY QuotientsAre, LastQuotient
  <1>3. q[l] = 0
    BY intlenIs
  <1> HIDE DEF l, q, d
  <1>4. \A i \in 1..Len(d) : d[i] \in DOMAIN DigitOf
    <2>1. DOMAIN DigitOf = ToSet(Figures)
      BY DEF DigitOf
    <2>2. QED
      BY <1>1, <2>1
  <1>5. PICK v \in [0..Len(d) -> Nat] :
          /\ v[0] = 0 /\ \A k \in 1..Len(d) : v[k] = 10 * v[k - 1] + DigitOf[d[k]]
          /\ Decimal(d) = v[Len(d)]
    BY <1>1, <1>4, DecimalIs
  <1> DEFINE S == {k \in 0..l : v[k] = q[l - k]}
  <1>6. 0 \in S
    BY <1>1, <1>3, <1>5
  <1>7. ASSUME NEW k \in 0..l, k < l, k \in S
        PROVE  k + 1 \in S
    <2>1. k + 1 \in 1..l /\ (k + 1) - 1 = k /\ l - k \in 1..10 /\ l - (k + 1) = (l - k) - 1
          /\ (l - k) - 1 \in 0..10 /\ k + 1 \in 0..l
      BY <1>1, <1>7
    <2>2. v[k + 1] = 10 * v[k] + DigitOf[d[k + 1]] /\ DigitOf[d[k + 1]] = q[l - (k + 1)] % 10
      BY <1>1, <1>5, <2>1
    <2>3. v[k] = q[l - k] /\ q[l - k] = q[(l - k) - 1] \div 10 /\ q[(l - k) - 1] \in Nat
      BY <1>2, <1>7, <2>1
    <2>4. \A m \in Nat : 10 * (m \div 10) + (m % 10) = m
      BY SMT
    <2>5. v[k + 1] = q[l - (k + 1)]
      BY <2>1, <2>2, <2>3, <2>4
    <2>6. QED
      BY <2>1, <2>5
  <1> HIDE DEF S
  <1>8. l \in S
    <2>1. l \in Nat /\ l \in 0..l
      BY <1>1
    <2>2. \A k \in 0..l : k \in S
      BY <1>6, <1>7, <2>1, Along
    <2>3. QED
      BY <2>1, <2>2
  <1>9. v[l] = q[l - l] /\ l - l = 0
    BY <1>1, <1>8 DEF S
  <1>10. QED
    BY <1>1, <1>2, <1>5, <1>9 DEF d

-----------------------------------------------------------------------------

\* What a command has beside the symbols of its arguments.
Marks == ToSet(Figures) \cup {"$", "*", "\r", "\n"}

LEMMA Joint ==
  ASSUME NEW B, NEW x \in Seq(B), NEW y \in Seq(B)
  PROVE  x \o y \in Seq(B) /\ Len(x \o y) = Len(x) + Len(y)
  OBVIOUS

LEMMA BulkIs ==
  ASSUME NEW B, Marks \subseteq B, NEW arg \in Seq(B), Len(arg) \in Number
  PROVE  Bulk(arg) \in Seq(B) /\ Len(Bulk(arg)) = bulklen(Len(arg)) /\ bulklen(Len(arg)) \in Nat
  <1> DEFINE d == Digits(Len(arg))
             l == intlen(Len(arg))
  <1>1. d \in Seq(ToSet(Figures)) /\ Len(d) = l /\ l \in 1..10
    BY DigitsAre
  <1> HIDE DEF d, l
  <1>2. d \in Seq(B)
    BY <1>1 DEF Marks
  <1>3. <<"$">> \in Seq(B) /\ Len(<<"$">>) = 1
    BY DEF Marks
  <1> DEFINE e == CRLF
  <1>3a. e \in Seq(B) /\ Len(e) = 2
    BY DEF Marks, CRLF
  <1> HIDE DEF e
  <1>4. Bulk(arg) = <<"$">> \o d \o e \o arg \o e
    BY DEF Bulk, d, e
  <1>5. bulklen(Len(arg)) = 1 + l + 2 + Len(arg) + 2
    BY DEF bulklen, l
  <1>6. /\ <<"$">> \o d \o e \o arg \o e \in Seq(B)
        /\ Len(<<"$">> \o d \o e \o arg \o e) = 1 + l + 2 + Len(arg) + 2
    <2> DEFINE u == <<"$">>
               v == u \o d
               w == v \o e
               x == w \o arg
    <2>1. u \in Seq(B) /\ Len(u) = 1
      BY <1>3
    <2> HIDE DEF u
    <2>2. v \in Seq(B) /\ Len(v) = 1 + l
      BY <1>1, <1>2, <2>1, Joint
    <2> HIDE DEF v
    <2>3. w \in Seq(B) /\ Len(w) = 1 + l + 2
      BY <1>1, <1>3a, <2>2, Joint
    <2> HIDE DEF w
    <2>4. x \in Seq(B) /\ Len(x) = 1 + l + 2 + Len(arg)
      BY <1>1, <2>3, Joint
    <2> HIDE DEF x
    <2>5. x \o e \in Seq(B) /\ Len(x \o e) = 1 + l + 2 + Len(arg) + 2
      <3>1. x \o e \in Seq(B) /\ Len(x \o e) = Len(x) + Len(e)
        BY <1>3a, <2>4, Joint
      <3>2. QED
        BY <1>3a, <2>4, <3>1
    <2>6. QED
      BY <2>5 DEF u, v, w, x
  <1>7. QED
    BY <1>1, <1>4, <1>5, <1>6

Heading(n) == <<"*">> \o Digits(n) \o CRLF

LEMMA HeadingIs ==
  ASSUME NEW B, Marks \subseteq B, NEW n \in Number
  PROVE  /\ Heading(n) \in Seq(B) /\ Len(Heading(n)) = 1 + intlen(n) + 2
         /\ 1 + intlen(n) + 2 \in Nat
  <1> DEFINE d == Digits(n)
             l == intlen(n)
  <1>1. d \in Seq(ToSet(Figures)) /\ Len(d) = l /\ l \in 1..10
    BY DigitsAre
  <1> HIDE DEF d, l
  <1>2. d \in Seq(B)
    BY <1>1 DEF Marks
  <1>3. <<"*">> \in Seq(B) /\ Len(<<"*">>) = 1
    BY DEF Marks
  <1> DEFINE e == CRLF
  <1>3a. e \in Seq(B) /\ Len(e) = 2
    BY DEF Marks, CRLF
  <1> HIDE DEF e
  <1>4. <<"*">> \o d \o e \in Seq(B) /\ Len(<<"*">> \o d \o e) = 1 + l + 2
    <2> DEFINE u == <<"*">>
               v == u \o d
    <2>1. u \in Seq(B) /\ Len(u) = 1
      BY <1>3
    <2> HIDE DEF u
    <2>2. v \in Seq(B) /\ Len(v) = 1 + l
      BY <1>1, <1>2, <2>1, Joint
    <2> HIDE DEF v
    <2>3. v \o e \in Seq(B) /\ Len(v \o e) = 1 + l + 2
      BY <1>1, <1>3a, <2>2, Joint
    <2>4. QED
      BY <2>3 DEF u, v
  <1>5. QED
    BY <1>1, <1>4 DEF Heading, d, l, e

-----------------------------------------------------------------------------
(***************************************************************************)
(* A command as it is built, and its length as it is added up.             *)
(***************************************************************************)

\* v is what h makes of a, as long as that is in W; so it stays there.
Unfolds(v, n, W, a, h) ==
  /\ v = [k \in 0..n |-> v[k]] /\ v[0] = a
  /\ \A k \in 1..n : v[k - 1] \in W => v[k] = h[k][v[k - 1]]

LEMMA Iterated ==
  ASSUME NEW n \in Nat, NEW W, NEW a \in W, NEW h \in [1..n -> [W -> W]],
         NEW v, Unfolds(v, n, W, a, h)
  PROVE  v \in [0..n -> W]
  <1>0. /\ v = [k \in 0..n |-> v[k]] /\ v[0] = a
        /\ \A k \in 1..n : v[k - 1] \in W => v[k] = h[k][v[k - 1]]
    BY DEF Unfolds
  <1> DEFINE S == {k \in 0..n : v[k] \in W}
  <1>1. 0 \in S
    BY <1>0
  <1>2. ASSUME NEW k \in 0..n, k < n, k \in S PROVE k + 1 \in S
    <2>1. k + 1 \in 1..n /\ (k + 1) - 1 = k /\ v[k] \in W /\ k + 1 \in 0..n
      BY <1>2
    <2>2. v[k + 1] = h[k + 1][v[k]]
      BY <1>0, <2>1
    <2>3. h[k + 1] \in [W -> W]
      BY <2>1
    <2>4. QED
      BY <2>1, <2>2, <2>3
  <1> HIDE DEF S
  <1>3. \A k \in 0..n : k \in S
    BY <1>1, <1>2, Along
  <1>4. QED
    BY <1>0, <1>3 DEF S

\* Arguments that a command can be made of.
Arguable(argv, B) ==
  /\ argv \in Seq(Seq(B)) /\ Len(argv) \in Number
  /\ \A j \in 1..Len(argv) : Len(argv[j]) \in Number

\* The command up to every argument.
LEMMA BuiltIs ==
  ASSUME NEW B, Marks \subseteq B, NEW argv, Arguable(argv, B)
  PROVE  \E cmd \in [0..Len(argv) -> Seq(B)] :
           /\ cmd[0] = Heading(Len(argv))
           /\ \A j \in 1..Len(argv) : cmd[j] = cmd[j - 1] \o Bulk(argv[j])
           /\ Built(argv) = cmd[Len(argv)]
  <1> DEFINE n == Len(argv)
             a == Heading(n)
             b(j) == Bulk(argv[j])
             Is(g) == g = [j \in 0..n |-> IF j = 0 THEN a ELSE g[j - 1] \o b(j)]
             v == CHOOSE g : Is(g)
             h == [j \in 1..n |-> [w \in Seq(B) |-> w \o b(j)]]
  <1>1. Built(argv) = v[n]
    BY Zenon DEF Built, Heading
  <1>2. n \in Nat /\ a \in Seq(B) /\ \A j \in 1..n : b(j) \in Seq(B)
    <2>1. n \in Nat
      BY DEF Arguable
    <2>2. a \in Seq(B)
      BY HeadingIs DEF Arguable
    <2>3. ASSUME NEW j \in 1..n PROVE b(j) \in Seq(B)
      <3>1. argv[j] \in Seq(B) /\ Len(argv[j]) \in Number
        BY DEF Arguable
      <3>2. QED
        BY <3>1, BulkIs
    <2>4. QED
      BY <2>1, <2>2, <2>3
  <1> HIDE DEF v, a, b, n
  <1>3. h \in [1..n -> [Seq(B) -> Seq(B)]]
    BY <1>2, Joint
  <1>4. PICK g : g \in [0..n -> Seq(B)] /\ g[0] = a /\ \A j \in 1..n : g[j] = h[j][g[j - 1]]
    <2> HIDE DEF h
    <2>1. \E g : Iterates(g, n, Seq(B), a, h)
      BY <1>2, <1>3, Iteration, Zenon
    <2>2. QED
      BY <2>1 DEF Iterates
  <1>5. ASSUME NEW j \in 1..n, NEW w \in Seq(B)
        PROVE  h[j][w] = w \o b(j)
    OBVIOUS
  <1> HIDE DEF h
  <1>6. Is(g)
    <2>1. \A j \in 1..n : j - 1 \in 0..n
      BY <1>2
    <2>2. \A j \in 1..n : g[j] = g[j - 1] \o b(j)
      BY <1>4, <1>5, <2>1
    <2>3. \A j \in 0..n : g[j] = IF j = 0 THEN a ELSE g[j - 1] \o b(j)
      <3>1. \A j \in 0..n : j # 0 => j \in 1..n
        BY <1>2
      <3>2. QED
        BY <1>4, <2>2, <3>1
    <2>4. QED
      BY <1>4, <2>3
  <1>7. Is(v)
    BY <1>6 DEF v
  <1>8. /\ v = [j \in 0..n |-> v[j]] /\ v[0] = a
        /\ \A j \in 1..n : v[j] = v[j - 1] \o b(j)
    <2>1. \A j \in 0..n : v[j] = IF j = 0 THEN a ELSE v[j - 1] \o b(j)
      BY <1>7
    <2>2. 0 \in 0..n /\ \A j \in 1..n : j \in 0..n /\ j # 0
      BY <1>2
    <2>3. v = [j \in 0..n |-> v[j]]
      BY <1>7
    <2>4. QED
      BY <2>1, <2>2, <2>3
  <1>9. v \in [0..n -> Seq(B)]
    <2>1. \A j \in 1..n : v[j - 1] \in Seq(B) => v[j] = h[j][v[j - 1]]
      BY <1>5, <1>8
    <2>2. Unfolds(v, n, Seq(B), a, h)
      BY <1>8, <2>1 DEF Unfolds
    <2>3. QED
      BY <1>2, <1>3, <2>2, Iterated, Zenon
  <1>10. QED
    BY <1>1, <1>8, <1>9 DEF n, a, b

LEMMA TotalIs ==
  ASSUME NEW B, Marks \subseteq B, NEW argv, Arguable(argv, B)
  PROVE  \E len \in [0..Len(argv) -> Nat] :
           /\ len[0] = 1 + intlen(Len(argv)) + 2
           /\ \A j \in 1..Len(argv) : len[j] = len[j - 1] + bulklen(Len(argv[j]))
           /\ Total(argv) = len[Len(argv)]
  <1> DEFINE n == Len(argv)
             a == 1 + intlen(n) + 2
             b(j) == bulklen(Len(argv[j]))
             Is(g) == g = [j \in 0..n |-> IF j = 0 THEN a ELSE g[j - 1] + b(j)]
             v == CHOOSE g : Is(g)
             h == [j \in 1..n |-> [w \in Nat |-> w + b(j)]]
  <1>1. Total(argv) = v[n]
    BY Zenon DEF Total
  <1>2. n \in Nat /\ a \in Nat /\ \A j \in 1..n : b(j) \in Nat
    <2>1. n \in Nat
      BY DEF Arguable
    <2>2. a \in Nat
      BY HeadingIs DEF Arguable
    <2>3. ASSUME NEW j \in 1..n PROVE b(j) \in Nat
      <3>1. argv[j] \in Seq(B) /\ Len(argv[j]) \in Number
        BY DEF Arguable
      <3>2. QED
        BY <3>1, BulkIs
    <2>4. QED
      BY <2>1, <2>2, <2>3
  <1> HIDE DEF v, a, b, n
  <1>3. h \in [1..n -> [Nat -> Nat]]
    BY <1>2
  <1>4. PICK g : g \in [0..n -> Nat] /\ g[0] = a /\ \A j \in 1..n : g[j] = h[j][g[j - 1]]
    <2> HIDE DEF h
    <2>1. \E g : Iterates(g, n, Nat, a, h)
      BY <1>2, <1>3, Iteration, Zenon
    <2>2. QED
      BY <2>1 DEF Iterates
  <1>5. ASSUME NEW j \in 1..n, NEW w \in Nat
        PROVE  h[j][w] = w + b(j)
    OBVIOUS
  <1> HIDE DEF h
  <1>6. Is(g)
    <2>1. \A j \in 1..n : j - 1 \in 0..n
      BY <1>2
    <2>2. \A j \in 1..n : g[j] = g[j - 1] + b(j)
      BY <1>4, <1>5, <2>1
    <2>3. \A j \in 0..n : g[j] = IF j = 0 THEN a ELSE g[j - 1] + b(j)
      <3>1. \A j \in 0..n : j # 0 => j \in 1..n
        BY <1>2
      <3>2. QED
        BY <1>4, <2>2, <3>1
    <2>4. QED
      BY <1>4, <2>3
  <1>7. Is(v)
    BY <1>6 DEF v
  <1>8. /\ v = [j \in 0..n |-> v[j]] /\ v[0] = a
        /\ \A j \in 1..n : v[j] = v[j - 1] + b(j)
    <2>1. \A j \in 0..n : v[j] = IF j = 0 THEN a ELSE v[j - 1] + b(j)
      BY <1>7
    <2>2. 0 \in 0..n /\ \A j \in 1..n : j \in 0..n /\ j # 0
      BY <1>2
    <2>3. v = [j \in 0..n |-> v[j]]
      BY <1>7
    <2>4. QED
      BY <2>1, <2>2, <2>3
  <1>9. v \in [0..n -> Nat]
    <2>1. \A j \in 1..n : v[j - 1] \in Nat => v[j] = h[j][v[j - 1]]
      BY <1>5, <1>8
    <2>2. Unfolds(v, n, Nat, a, h)
      BY <1>8, <2>1 DEF Unfolds
    <2>3. QED
      BY <1>2, <1>3, <2>2, Iterated, Zenon
  <1>10. QED
    BY <1>1, <1>8, <1>9 DEF n, a, b

LEMMA TotalIsLength ==
  ASSUME NEW B, Marks \subseteq B, NEW argv, Arguable(argv, B)
  PROVE  Built(argv) \in Seq(B) /\ Total(argv) = Len(Built(argv))
  <1> DEFINE n == Len(argv)
  <1>0. n \in Nat
    BY DEF Arguable
  <1>1. PICK cmd \in [0..n -> Seq(B)] :
          /\ cmd[0] = Heading(n)
          /\ \A j \in 1..n : cmd[j] = cmd[j - 1] \o Bulk(argv[j])
          /\ Built(argv) = cmd[n]
    BY BuiltIs
  <1>2. PICK len \in [0..n -> Nat] :
           /\ len[0] = 1 + intlen(n) + 2
           /\ \A j \in 1..n : len[j] = len[j - 1] + bulklen(Len(argv[j]))
           /\ Total(argv) = len[n]
    BY TotalIs
  <1> DEFINE S == {j \in 0..n : Len(cmd[j]) = len[j]}
  <1>3. Len(Heading(n)) = 1 + intlen(n) + 2
    BY HeadingIs DEF Arguable
  <1>4. \A j \in 1..n : /\ Bulk(argv[j]) \in Seq(B)
                        /\ Len(Bulk(argv[j])) = bulklen(Len(argv[j]))
    <2> TAKE j \in 1..n
    <2>1. argv[j] \in Seq(B) /\ Len(argv[j]) \in Number
      BY DEF Arguable
    <2>2. QED
      BY <2>1, BulkIs
  <1> HIDE DEF n
  <1>5. 0 \in S
    BY <1>0, <1>1, <1>2, <1>3
  <1>6. ASSUME NEW j \in 0..n, j < n, j \in S PROVE j + 1 \in S
    <2>1. j + 1 \in 1..n /\ (j + 1) - 1 = j /\ j + 1 \in 0..n
      BY <1>0, <1>6
    <2>2. cmd[j + 1] = cmd[j] \o Bulk(argv[j + 1]) /\ len[j + 1] = len[j] + bulklen(Len(argv[j + 1]))
      BY <1>1, <1>2, <2>1
    <2> DEFINE b == Bulk(argv[j + 1])
    <2>3. b \in Seq(B) /\ Len(b) = bulklen(Len(argv[j + 1])) /\ cmd[j] \in Seq(B)
      BY <1>1, <1>4, <2>1
    <2> HIDE DEF b
    <2>4. Len(cmd[j] \o b) = Len(cmd[j]) + Len(b)
      BY <2>3, Joint
    <2>5. Len(cmd[j]) = len[j]
      BY <1>6
    <2>6. Len(cmd[j + 1]) = len[j + 1]
      BY <2>2, <2>3, <2>4, <2>5 DEF b
    <2>7. QED
      BY <2>1, <2>6
  <1> HIDE DEF S
  <1>7. \A j \in 0..n : j \in S
    BY <1>0, <1>5, <1>6, Along
  <1>8. Len(cmd[n]) = len[n] /\ cmd[n] \in Seq(B)
    BY <1>0, <1>1, <1>7 DEF S
  <1>9. QED
    BY <1>1, <1>2, <1>8

-----------------------------------------------------------------------------
(***************************************************************************)
(* What nextArgument finds in a command.                                   *)
(***************************************************************************)

\* Where the parts of a bulk are.
BulkParts(e, d, arg) ==
  /\ Len(e) = Len(d) + Len(arg) + 5
  /\ e[1] = "$" /\ \A i \in 1..Len(d) : e[1 + i] = d[i]
  /\ e[Len(d) + 2] = "\r" /\ e[Len(d) + 3] = "\n"
  /\ \A i \in 1..Len(arg) : e[Len(d) + 3 + i] = arg[i]
  /\ e[Len(d) + Len(arg) + 4] = "\r" /\ e[Len(d) + Len(arg) + 5] = "\n"

LEMMA Parts ==
  ASSUME NEW B, NEW x \in Seq(B), NEW y \in Seq(B)
  PROVE  /\ \A i \in 1..Len(x) : (x \o y)[i] = x[i]
         /\ \A i \in 1..Len(y) : (x \o y)[Len(x) + i] = y[i]
  OBVIOUS

\* z is x and y behind it.
JoinOf(z, x, y) ==
  /\ Len(z) = Len(x) + Len(y)
  /\ \A i \in 1..Len(x) : z[i] = x[i]
  /\ \A i \in 1..Len(y) : z[Len(x) + i] = y[i]

LEMMA Joining ==
  ASSUME NEW B, NEW x \in Seq(B), NEW y \in Seq(B)
  PROVE  x \o y \in Seq(B) /\ JoinOf(x \o y, x, y)
  <1> DEFINE z == x \o y
  <1>1. z \in Seq(B) /\ Len(z) = Len(x) + Len(y)
        /\ (\A i \in 1..Len(x) : z[i] = x[i])
        /\ (\A i \in 1..Len(y) : z[Len(x) + i] = y[i])
    OBVIOUS
  <1> HIDE DEF z
  <1>2. z \in Seq(B) /\ JoinOf(z, x, y)
    BY <1>1 DEF JoinOf
  <1>3. QED
    BY <1>2 DEF z

\* y is in p behind j symbols.
PartAt(p, j, y) ==
  j \in 0..Len(p) /\ j + Len(y) <= Len(p) /\ \A i \in 1..Len(y) : p[j + i] = y[i]

LEMMA PartIs ==
  ASSUME NEW B, NEW p \in Seq(B), NEW y \in Seq(B), NEW j, PartAt(p, j, y)
  PROVE  SubSeq(p, j + 1, j + Len(y)) = y
  <1> DEFINE n == Len(y)
             s == SubSeq(p, j + 1, j + n)
  <1>1. /\ n \in Nat /\ j \in Nat /\ Len(p) \in Nat /\ j + n <= Len(p)
        /\ \A i \in 1..n : p[j + i] = y[i]
    BY DEF PartAt
  <1>2. s \in Seq(B) /\ Len(s) = n /\ \A i \in 1..n : s[i] = p[j + i]
    <2> HIDE DEF n
    <2>1. Len(s) = n /\ s \in Seq(B)
      BY <1>1
    <2>2. ASSUME NEW i \in 1..n PROVE s[i] = p[j + i]
      <3>1. (j + 1) + i - 1 = j + i /\ i \in 1..((j + n) + 1 - (j + 1))
        BY <1>1
      <3>2. s[i] = p[(j + 1) + i - 1]
        BY <1>1, <3>1
      <3>3. QED
        BY <3>1, <3>2
    <2>3. QED
      BY <2>1, <2>2
  <1> HIDE DEF s
  <1>3. Len(s) = Len(y) /\ \A i \in 1..Len(y) : s[i] = y[i]
    BY <1>1, <1>2 DEF n
  <1>4. s = y
    BY <1>2, <1>3
  <1>5. QED
    BY <1>4 DEF s, n

LEMMA PartsOfBulk ==
  ASSUME NEW B, Marks \subseteq B, NEW d \in Seq(B), NEW arg \in Seq(B)
  PROVE  BulkParts(<<"$">> \o d \o CRLF \o arg \o CRLF, d, arg)
  <1> DEFINE c == CRLF
             u == <<"$">>
             v == u \o d
             w == v \o c
             x == w \o arg
             e == x \o c
             l == Len(d)
             m == Len(arg)
  <1>1. c \in Seq(B) /\ Len(c) = 2 /\ c[1] = "\r" /\ c[2] = "\n"
    BY DEF CRLF, Marks
  <1>2. u \in Seq(B) /\ Len(u) = 1 /\ u[1] = "$"
    BY DEF Marks
  <1>3. l \in Nat /\ m \in Nat
    OBVIOUS
  <1> HIDE DEF c, u
  <1>4. /\ v \in Seq(B) /\ Len(v) = 1 + Len(d)
        /\ \A i \in 1..1 : v[i] = u[i]
        /\ \A i \in 1..Len(d) : v[1 + i] = d[i]
    <2>1. v \in Seq(B) /\ JoinOf(v, u, d)
      BY <1>2, Joining, Zenon
    <2> HIDE DEF v
    <2>2. QED
      BY <1>2, <2>1 DEF JoinOf
  <1> HIDE DEF v
  <1>5. /\ w \in Seq(B) /\ Len(w) = Len(v) + 2
        /\ \A i \in 1..Len(v) : w[i] = v[i]
        /\ \A i \in 1..2 : w[Len(v) + i] = c[i]
    <2>1. w \in Seq(B) /\ JoinOf(w, v, c)
      BY <1>1, <1>4, Joining, Zenon
    <2> HIDE DEF w
    <2>2. QED
      BY <1>1, <1>4, <2>1 DEF JoinOf
  <1> HIDE DEF w
  <1>6. /\ x \in Seq(B) /\ Len(x) = Len(w) + Len(arg)
        /\ \A i \in 1..Len(w) : x[i] = w[i]
        /\ \A i \in 1..Len(arg) : x[Len(w) + i] = arg[i]
    <2>1. x \in Seq(B) /\ JoinOf(x, w, arg)
      BY <1>5, Joining, Zenon
    <2> HIDE DEF x
    <2>2. QED
      BY <1>5, <2>1 DEF JoinOf
  <1> HIDE DEF x
  <1>7. /\ e \in Seq(B) /\ Len(e) = Len(x) + 2
        /\ \A i \in 1..Len(x) : e[i] = x[i]
        /\ \A i \in 1..2 : e[Len(x) + i] = c[i]
    <2>1. e \in Seq(B) /\ JoinOf(e, x, c)
      BY <1>1, <1>6, Joining, Zenon
    <2> HIDE DEF e
    <2>2. QED
      BY <1>1, <1>6, <2>1 DEF JoinOf
  <1> HIDE DEF e
  <1>8. Len(v) = l + 1 /\ Len(w) = l + 3 /\ Len(x) = l + m + 3 /\ Len(e) = l + m + 5
    BY <1>3, <1>4, <1>5, <1>6, <1>7
  <1> HIDE DEF l, m
  <1>9. e[1] = "$"
    <2>1. 1 \in 1..Len(x) /\ 1 \in 1..Len(w) /\ 1 \in 1..Len(v) /\ 1 \in 1..1
      BY <1>3, <1>8
    <2>2. QED
      BY <2>1, <1>2, <1>4, <1>5, <1>6, <1>7
  <1>10. ASSUME NEW i \in 1..l PROVE e[1 + i] = d[i]
    <2>1. 1 + i \in 1..Len(x) /\ 1 + i \in 1..Len(w) /\ 1 + i \in 1..Len(v) /\ i \in 1..Len(d)
      BY <1>3, <1>8 DEF l
    <2>2. QED
      BY <2>1, <1>4, <1>5, <1>6, <1>7
  <1>11. e[l + 2] = "\r" /\ e[l + 3] = "\n"
    <2>1. l + 2 \in 1..Len(x) /\ l + 2 \in 1..Len(w) /\ l + 2 = Len(v) + 1
          /\ l + 3 \in 1..Len(x) /\ l + 3 \in 1..Len(w) /\ l + 3 = Len(v) + 2
          /\ 1 \in 1..2 /\ 2 \in 1..2
      BY <1>3, <1>8
    <2>2. QED
      BY <2>1, <1>1, <1>5, <1>6, <1>7
  <1>12. ASSUME NEW i \in 1..m PROVE e[l + 3 + i] = arg[i]
    <2>1. l + 3 + i \in 1..Len(x) /\ l + 3 + i = Len(w) + i /\ i \in 1..Len(arg)
      BY <1>3, <1>8 DEF m
    <2>2. QED
      BY <2>1, <1>6, <1>7
  <1>13. e[l + m + 4] = "\r" /\ e[l + m + 5] = "\n"
    <2>1. l + m + 4 = Len(x) + 1 /\ l + m + 5 = Len(x) + 2 /\ 1 \in 1..2 /\ 2 \in 1..2
      BY <1>3, <1>8
    <2>2. QED
      BY <2>1, <1>1, <1>7
  <1>14. BulkParts(e, d, arg)
    BY <1>8, <1>9, <1>10, <1>11, <1>12, <1>13 DEF BulkParts, l, m
  <1>15. QED
    BY <1>14, Zenon DEF e, x, w, v, u, c

LEMMA FiguresAre ==
  \A c \in ToSet(Figures) : c \notin {"$", "*", "\r", "\n", "-", "+"} /\ c \in DOMAIN DigitOf
  <1>1. \A c \in ToSet(Figures) : c \notin {"$", "*", "\r", "\n", "-", "+"}
    BY DEF ToSet, Figures
  <1>2. ToSet(Figures) = DOMAIN DigitOf
    BY DEF DigitOf
  <1>3. QED
    BY <1>1, <1>2

LEMMA FirstIs ==
  ASSUME NEW I, NEW k \in I, I \subseteq Nat, \A i \in I : k <= i
  PROVE  Min(I) = k
  <1>1. Min(I) \in I /\ \A i \in I : Min(I) <= i
    BY MinIs
  <1>2. k <= Min(I) /\ Min(I) <= k /\ k \in Nat /\ Min(I) \in Nat
    BY <1>1
  <1>3. QED
    BY <1>2

\* Where no argument begins.
NoDollar(x) == \A i \in 1..Len(x) : x[i] # "$"

\* What nextArgument finds where a bulk comes next.
LEMMA NextIs ==
  ASSUME NEW B, Marks \subseteq B, NEW x \in Seq(B), NoDollar(x),
         NEW arg \in Seq(B), Len(arg) \in Number, NEW y \in Seq(B)
  PROVE  /\ nextArgument(x \o (Bulk(arg) \o y)) = [arg |-> arg, rest |-> y]
         /\ Contains(x \o (Bulk(arg) \o y), "$")
  <1> DEFINE p == x \o (Bulk(arg) \o y)
             d == Digits(Len(arg))
             e == Bulk(arg)
             a == Len(x)
             l == Len(d)
             m == Len(arg)
             n == Len(y)
  <1>1. d \in Seq(ToSet(Figures)) /\ l \in 1..10 /\ Decimal(d) = m
    BY DigitsAre, DigitsComeBack
  <1>2. e = <<"$">> \o d \o CRLF \o arg \o CRLF /\ e \in Seq(B)
    BY BulkIs DEF Bulk
  <1> HIDE DEF d
  <1>3. d \in Seq(B)
    BY <1>1 DEF Marks
  <1>4. BulkParts(e, d, arg)
    BY <1>2, <1>3, PartsOfBulk
  <1> HIDE DEF e
  <1>5. a \in Nat /\ m \in Nat /\ n \in Nat /\ l \in Nat
    BY <1>1
  <1>6. /\ Len(e) = l + m + 5
        /\ e[1] = "$" /\ \A i \in 1..l : e[1 + i] = d[i]
        /\ e[l + 2] = "\r"
        /\ \A i \in 1..m : e[l + 3 + i] = arg[i]
    BY <1>4 DEF BulkParts
  <1> DEFINE z == e \o y
  <1>7. /\ z \in Seq(B) /\ Len(z) = Len(e) + n
        /\ \A i \in 1..Len(e) : z[i] = e[i]
        /\ \A i \in 1..n : z[Len(e) + i] = y[i]
    <2>1. z \in Seq(B) /\ JoinOf(z, e, y)
      BY <1>2, Joining, Zenon
    <2> HIDE DEF z
    <2>2. QED
      BY <1>2, <2>1 DEF JoinOf
  <1>8. z \in Seq(B) /\ Len(z) = l + m + 5 + n
        /\ z[1] = "$" /\ (\A i \in 1..l : z[1 + i] = d[i])
        /\ z[l + 2] = "\r"
        /\ (\A i \in 1..m : z[l + 3 + i] = arg[i])
        /\ (\A i \in 1..n : z[l + m + 5 + i] = y[i])
    <2> HIDE DEF z, l, m, n
    <2>1. Len(z) = l + m + 5 + n /\ z \in Seq(B)
      BY <1>5, <1>6, <1>7 DEF z
    <2>2. \A i \in 1..l + m + 5 : z[i] = e[i]
      BY <1>6, <1>7 DEF z
    <2>3. 1 \in 1..l + m + 5 /\ (\A i \in 1..l : 1 + i \in 1..l + m + 5) /\ l + 2 \in 1..l + m + 5
          /\ (\A i \in 1..m : l + 3 + i \in 1..l + m + 5)
      BY <1>5
    <2>4. \A i \in 1..n : z[l + m + 5 + i] = y[i]
      BY <1>6, <1>7 DEF z
    <2>5. QED
      BY <1>6, <2>1, <2>2, <2>3, <2>4
  <1>9. p = x \o z
    BY Zenon DEF e
  <1> HIDE DEF z, p
  <1>10. /\ p \in Seq(B) /\ Len(p) = a + Len(z)
         /\ \A i \in 1..a : p[i] = x[i]
         /\ \A i \in 1..Len(z) : p[a + i] = z[i]
    <2>1. p \in Seq(B) /\ JoinOf(p, x, z)
      BY <1>8, <1>9, Joining, Zenon
    <2>2. QED
      BY <2>1 DEF JoinOf, a
  <1> HIDE DEF a, l, m, n
  <1>11. /\ Len(p) = a + l + m + 5 + n
         /\ p[a + 1] = "$" /\ (\A i \in 1..l : p[a + 1 + i] = d[i])
         /\ p[a + l + 2] = "\r"
         /\ (\A i \in 1..m : p[a + l + 3 + i] = arg[i])
         /\ (\A i \in 1..n : p[a + l + m + 5 + i] = y[i])
    <2>1. Len(p) = a + l + m + 5 + n
      BY <1>5, <1>8, <1>10
    <2>2. p[a + 1] = "$"
      <3>1. 1 \in 1..Len(z)
        BY <1>5, <1>8
      <3>2. QED
        BY <3>1, <1>8, <1>10
    <2>3. ASSUME NEW i \in 1..l PROVE p[a + 1 + i] = d[i]
      <3>1. 1 + i \in 1..Len(z) /\ a + 1 + i = a + (1 + i)
        BY <1>5, <1>8
      <3>2. QED
        BY <3>1, <1>8, <1>10
    <2>4. p[a + l + 2] = "\r"
      <3>1. l + 2 \in 1..Len(z) /\ a + l + 2 = a + (l + 2)
        BY <1>5, <1>8
      <3>2. QED
        BY <3>1, <1>8, <1>10
    <2>5. ASSUME NEW i \in 1..m PROVE p[a + l + 3 + i] = arg[i]
      <3>1. l + 3 + i \in 1..Len(z) /\ a + l + 3 + i = a + (l + 3 + i)
        BY <1>5, <1>8
      <3>2. QED
        BY <3>1, <1>8, <1>10
    <2>6. ASSUME NEW i \in 1..n PROVE p[a + l + m + 5 + i] = y[i]
      <3>1. l + m + 5 + i \in 1..Len(z) /\ a + l + m + 5 + i = a + (l + m + 5 + i)
        BY <1>5, <1>8
      <3>2. QED
        BY <3>1, <1>8, <1>10
    <2>7. QED
      BY <2>1, <2>2, <2>3, <2>4, <2>5, <2>6
  <1> DEFINE I == {i \in 1..Len(p) : p[i] = "$"}
             J == {i \in a + 1..Len(p) : p[i] = "\r"}
  <1>12. a + 1 \in I /\ Min(I) = a + 1
    <2>1. a + 1 \in I
      BY <1>5, <1>11
    <2>2. I \subseteq Nat
      OBVIOUS
    <2>3. ASSUME NEW i \in I PROVE a + 1 <= i
      <3>1. i \in Nat /\ i >= 1 /\ p[i] = "$"
        OBVIOUS
      <3>2. i \in 1..a => p[i] # "$"
        BY <1>10 DEF a, NoDollar
      <3>3. QED
        BY <1>5, <3>1, <3>2
    <2> HIDE DEF I
    <2>4. QED
      BY <2>1, <2>2, <2>3, FirstIs
  <1>13. a + l + 2 \in J /\ Min(J) = a + l + 2
    <2>1. a + l + 2 \in J
      BY <1>5, <1>11
    <2>2. J \subseteq Nat
      BY <1>5
    <2>3. ASSUME NEW i \in J PROVE a + l + 2 <= i
      <3>1. i \in Nat /\ i >= a + 1 /\ p[i] = "\r"
        BY <1>5
      <3>2. SUFFICES ASSUME ~(a + l + 2 <= i) PROVE FALSE
        OBVIOUS
      <3>3. CASE i = a + 1
        BY <1>11, <3>1, <3>3
      <3>4. CASE i - a - 1 \in 1..l
        <4>1. p[a + 1 + (i - a - 1)] = d[i - a - 1]
          BY <1>11, <3>4
        <4>2. a + 1 + (i - a - 1) = i
          BY <1>5, <3>1
        <4>3. d[i - a - 1] \in ToSet(Figures)
          BY <1>1, <3>4 DEF l
        <4>4. QED
          BY <3>1, <4>1, <4>2, <4>3, FiguresAre
      <3>5. QED
        BY <1>5, <3>1, <3>2, <3>3, <3>4
    <2> HIDE DEF J
    <2>4. QED
      BY <2>1, <2>2, <2>3, FirstIs
  <1>14. SelectInSeq(p, LAMBDA c : c = "$") = a + 1
    BY <1>12 DEF SelectInSeq
  <1>15. SelectInSubSeq(p, a + 1, Len(p), LAMBDA c : c = "\r") = a + l + 2
    BY <1>13 DEF SelectInSubSeq
  <1> HIDE DEF I, J
  <1>16. SubSeq(p, a + 1 + 1, a + l + 2 - 1) = d
    <2>1. PartAt(p, a + 1, d) /\ a + l + 2 - 1 = a + 1 + Len(d)
      BY <1>5, <1>11 DEF l, PartAt
    <2>2. SubSeq(p, a + 1 + 1, a + 1 + Len(d)) = d
      BY <1>3, <1>10, <2>1, PartIs, Zenon
    <2>3. QED
      BY <2>1, <2>2
  <1>17. SubSeq(p, a + l + 2 + 2, a + l + 2 + 1 + m) = arg
    <2>1. /\ PartAt(p, a + l + 3, arg)
          /\ a + l + 2 + 2 = a + l + 3 + 1 /\ a + l + 2 + 1 + m = a + l + 3 + Len(arg)
      BY <1>5, <1>11 DEF m, PartAt
    <2>2. SubSeq(p, a + l + 3 + 1, a + l + 3 + Len(arg)) = arg
      BY <1>10, <2>1, PartIs, Zenon
    <2>3. QED
      BY <2>1, <2>2
  <1>18. SubSeq(p, a + l + 2 + m + 4, Len(p)) = y
    <2>1. /\ PartAt(p, a + l + m + 5, y)
          /\ a + l + 2 + m + 4 = a + l + m + 5 + 1 /\ Len(p) = a + l + m + 5 + Len(y)
      BY <1>5, <1>11 DEF n, PartAt
    <2>2. SubSeq(p, a + l + m + 5 + 1, a + l + m + 5 + Len(y)) = y
      BY <1>10, <2>1, PartIs, Zenon
    <2>3. QED
      BY <2>1, <2>2
  <1>19. nextArgument(p) = [arg |-> arg, rest |-> y]
    <2> DEFINE dollar == SelectInSeq(p, LAMBDA c : c = "$")
               cr == SelectInSubSeq(p, dollar, Len(p), LAMBDA c : c = "\r")
               len == Decimal(SubSeq(p, dollar + 1, cr - 1))
    <2>1. nextArgument(p) = [arg |-> SubSeq(p, cr + 2, cr + 1 + len), rest |-> SubSeq(p, cr + len + 4, Len(p))]
      BY Zenon DEF nextArgument
    <2>2. dollar = a + 1 /\ cr = a + l + 2
      BY <1>14, <1>15
    <2> HIDE DEF dollar, cr
    <2>3. dollar + 1 = a + 1 + 1 /\ cr - 1 = a + l + 2 - 1
      BY <1>5, <2>2
    <2>4. len = m
      <3>1. SubSeq(p, dollar + 1, cr - 1) = d
        BY <1>16, <2>3, Zenon
      <3>2. QED
        BY <1>1, <3>1, Zenon DEF m
    <2> HIDE DEF len
    <2>5. QED
      BY <1>17, <1>18, <2>1, <2>2, <2>4
  <1>20. Contains(p, "$")
    BY <1>12 DEF Contains, I
  <1>21. QED
    BY <1>19, <1>20, Zenon DEF p

LEMMA HeadingHasNone ==
  ASSUME NEW n \in Number
  PROVE  NoDollar(Heading(n))
  <1> DEFINE B == ToSet(Figures)
             d == Digits(n)
             u == <<"*">>
             v == u \o d
             e == v \o CRLF
             C == Marks
  <1>1. d \in Seq(B)
    BY DigitsAre
  <1>2. \A i \in 1..Len(d) : d[i] # "$"
    <2> HIDE DEF d, B
    <2>1. \A i \in 1..Len(d) : d[i] \in B
      BY <1>1
    <2>2. \A c \in B : c # "$"
      BY FiguresAre DEF B
    <2>3. QED
      BY <2>1, <2>2
  <1>3. d \in Seq(C)
    <2> HIDE DEF d
    <2>1. QED
      BY <1>1 DEF Marks
  <1>4. u \in Seq(C) /\ Len(u) = 1 /\ u[1] = "*"
    BY DEF Marks
  <1>5. CRLF \in Seq(C) /\ Len(CRLF) = 2 /\ CRLF[1] = "\r" /\ CRLF[2] = "\n"
    BY DEF CRLF, Marks
  <1>6. v \in Seq(C) /\ JoinOf(v, u, d)
    BY <1>3, <1>4, Joining, Zenon
  <1>7. e \in Seq(C) /\ JoinOf(e, v, CRLF)
    BY <1>5, <1>6, Joining, Zenon
  <1>8. Heading(n) = e
    BY Zenon DEF Heading
  <1> HIDE DEF d, u, v, e, C
  <1>9. \A i \in 1..Len(e) : e[i] # "$"
    <2>1. Len(d) \in Nat /\ Len(v) = 1 + Len(d) /\ Len(e) = Len(v) + 2
      BY <1>3, <1>4, <1>5, <1>6, <1>7 DEF JoinOf
    <2>2. \A i \in 1..Len(v) : v[i] # "$"
      <3> SUFFICES ASSUME NEW i \in 1..Len(v) PROVE v[i] # "$"
        OBVIOUS
      <3>1. CASE i = 1
        BY <1>4, <1>6, <3>1 DEF JoinOf
      <3>2. CASE i # 1
        <4>1. i - 1 \in 1..Len(d) /\ Len(u) + (i - 1) = i
          BY <1>4, <2>1, <3>2
        <4>2. v[i] = d[i - 1]
          BY <1>6, <4>1 DEF JoinOf
        <4>3. QED
          BY <1>2, <4>1, <4>2
      <3>3. QED
        BY <3>1, <3>2
    <2> SUFFICES ASSUME NEW i \in 1..Len(e) PROVE e[i] # "$"
      OBVIOUS
    <2>3. CASE i \in 1..Len(v)
      BY <1>7, <2>2, <2>3 DEF JoinOf
    <2>4. CASE i \notin 1..Len(v)
      <3>1. i - Len(v) \in {1, 2} /\ Len(v) + (i - Len(v)) = i /\ i - Len(v) \in 1..2
        BY <2>1, <2>4
      <3>2. e[i] = CRLF[i - Len(v)]
        BY <1>5, <1>7, <3>1 DEF JoinOf
      <3>3. QED
        BY <1>5, <3>1, <3>2
    <2>5. QED
      BY <2>3, <2>4
  <1>10. QED
    BY <1>8, <1>9 DEF NoDollar

\* What comes in a command from every argument on.
LEMMA BehindHeading ==
  ASSUME NEW B, Marks \subseteq B, NEW argv, Arguable(argv, B)
  PROVE  \E rest \in [0..Len(argv) -> Seq(B)] :
           /\ rest[Len(argv)] = <<>>
           /\ \A j \in 1..Len(argv) : rest[j - 1] = Bulk(argv[j]) \o rest[j]
           /\ Built(argv) = Heading(Len(argv)) \o rest[0]
           /\ Len(Built(argv)) >= 6 * Len(argv)
  <1> DEFINE n == Len(argv)
             b(j) == Bulk(argv[j])
             h == [i \in 1..n |-> [w \in Seq(B) |-> b(n - i + 1) \o w]]
  <1>1. /\ n \in Nat /\ n \in Number
        /\ \A j \in 1..n : b(j) \in Seq(B) /\ Len(b(j)) >= 6
    <2>1. n \in Nat /\ n \in Number
      BY DEF Arguable
    <2>2. ASSUME NEW j \in 1..n PROVE b(j) \in Seq(B) /\ Len(b(j)) >= 6
      <3>1. argv[j] \in Seq(B) /\ Len(argv[j]) \in Number
        BY DEF Arguable
      <3>2. b(j) \in Seq(B) /\ Len(b(j)) = bulklen(Len(argv[j]))
        BY <3>1, BulkIs
      <3>3. bulklen(Len(argv[j])) >= 6
        <4>1. intlen(Len(argv[j])) \in 1..10 /\ Len(argv[j]) \in Nat
          BY <3>1, DigitsAre
        <4>2. QED
          BY <4>1 DEF bulklen
      <3>4. QED
        BY <3>2, <3>3
    <2>3. QED
      BY <2>1, <2>2
  <1>2. PICK cmd \in [0..n -> Seq(B)] :
          /\ cmd[0] = Heading(n)
          /\ \A j \in 1..n : cmd[j] = cmd[j - 1] \o b(j)
          /\ Built(argv) = cmd[n]
    BY BuiltIs
  <1> HIDE DEF n, b
  <1>3. h \in [1..n -> [Seq(B) -> Seq(B)]]
    <2>1. \A i \in 1..n : n - i + 1 \in 1..n
      BY <1>1
    <2>2. ASSUME NEW i \in 1..n, NEW w \in Seq(B) PROVE b(n - i + 1) \o w \in Seq(B)
      BY <1>1, <2>1, Joint
    <2>3. QED
      BY <2>2
  <1>4. PICK g : g \in [0..n -> Seq(B)] /\ g[0] = <<>> /\ \A i \in 1..n : g[i] = h[i][g[i - 1]]
    <2> HIDE DEF h
    <2>0. <<>> \in Seq(B)
      OBVIOUS
    <2>1. \E g : Iterates(g, n, Seq(B), <<>>, h)
      BY <1>1, <1>3, <2>0, Iteration, Zenon
    <2>2. QED
      BY <2>1 DEF Iterates
  <1>5. \A i \in 1..n : g[i] = b(n - i + 1) \o g[i - 1]
    <2>1. \A i \in 1..n : i - 1 \in 0..n
      BY <1>1
    <2>2. QED
      BY <1>4, <2>1
  <1> HIDE DEF h
  <1> DEFINE r == [j \in 0..n |-> g[n - j]]
  <1>6. r \in [0..n -> Seq(B)] /\ \A j \in 0..n : r[j] = g[n - j]
    BY <1>1, <1>4
  <1> HIDE DEF r
  <1>7. r[n] = <<>>
    <2>1. n \in 0..n /\ n - n = 0
      BY <1>1
    <2>2. QED
      BY <1>4, <1>6, <2>1
  <1>8. ASSUME NEW j \in 1..n PROVE r[j - 1] = b(j) \o r[j]
    <2>1. /\ j - 1 \in 0..n /\ j \in 0..n /\ n - j + 1 \in 1..n /\ n - (j - 1) = n - j + 1
          /\ n - (n - j + 1) + 1 = j /\ (n - j + 1) - 1 = n - j
      BY <1>1
    <2>2. r[j - 1] = g[n - j + 1] /\ r[j] = g[n - j]
      BY <1>6, <2>1
    <2>3. g[n - j + 1] = b(n - (n - j + 1) + 1) \o g[(n - j + 1) - 1]
      BY <1>5, <2>1
    <2>4. g[n - j + 1] = b(j) \o g[n - j]
      BY <2>1, <2>3
    <2>5. QED
      BY <2>2, <2>4
  <1> DEFINE p == Built(argv)
             S == {i \in 0..n : p = cmd[n - i] \o g[i]}
  <1>9. p = cmd[0] \o r[0]
    <2>1. 0 \in S
      <3>1. n \in 0..n /\ n - 0 = n /\ 0 \in 0..n
        BY <1>1
      <3>2. cmd[n] \o <<>> = cmd[n]
        BY <3>1, <1>2
      <3>3. QED
        BY <1>2, <1>4, <3>1, <3>2
    <2>2. ASSUME NEW i \in 0..n, i < n, i \in S PROVE i + 1 \in S
      <3>1. /\ i + 1 \in 1..n /\ n - i \in 1..n /\ (i + 1) - 1 = i /\ n - (i + 1) + 1 = n - i
            /\ (n - i) - 1 = n - (i + 1) /\ n - (i + 1) \in 0..n /\ i + 1 \in 0..n
        BY <1>1, <2>2
      <3>2. cmd[n - i] = cmd[n - (i + 1)] \o b(n - i)
        BY <1>2, <3>1
      <3>3. g[i + 1] = b(n - i) \o g[i]
        BY <1>5, <3>1
      <3>4. cmd[n - (i + 1)] \in Seq(B) /\ b(n - i) \in Seq(B) /\ g[i] \in Seq(B)
        BY <1>1, <1>2, <1>4, <3>1
      <3>5. \A x, y, z \in Seq(B) : (x \o y) \o z = x \o (y \o z)
        OBVIOUS
      <3>6. p = cmd[n - (i + 1)] \o g[i + 1]
        <4>1. p = (cmd[n - (i + 1)] \o b(n - i)) \o g[i]
          BY <2>2, <3>2 DEF S
        <4>2. (cmd[n - (i + 1)] \o b(n - i)) \o g[i] = cmd[n - (i + 1)] \o (b(n - i) \o g[i])
          BY <3>4, <3>5, Zenon
        <4>3. QED
          BY <3>3, <4>1, <4>2, Zenon
      <3>7. QED
        BY <3>1, <3>6 DEF S
    <2> HIDE DEF S
    <2>3. \A i \in 0..n : i \in S
      BY <1>1, <2>1, <2>2, Along
    <2>4. n \in S
      BY <1>1, <2>3
    <2>5. p = cmd[n - n] \o g[n]
      BY <2>4 DEF S
    <2>6. n - n = 0 /\ n - 0 = n /\ 0 \in 0..n
      BY <1>1
    <2>7. QED
      BY <1>6, <2>5, <2>6
  <1>10. Len(p) >= 6 * n
    <2> DEFINE T == {j \in 0..n : Len(cmd[j]) >= 6 * j}
    <2>1. 0 \in T
      BY <1>1, <1>2
    <2>2. ASSUME NEW j \in 0..n, j < n, j \in T PROVE j + 1 \in T
      <3>1. j + 1 \in 1..n /\ (j + 1) - 1 = j /\ j + 1 \in 0..n
        BY <1>1, <2>2
      <3>2. cmd[j + 1] = cmd[j] \o b(j + 1) /\ cmd[j] \in Seq(B) /\ b(j + 1) \in Seq(B)
        BY <1>1, <1>2, <3>1
      <3>3. Len(cmd[j + 1]) = Len(cmd[j]) + Len(b(j + 1))
        BY <3>2, Joint
      <3>4. Len(b(j + 1)) >= 6 /\ Len(cmd[j]) >= 6 * j /\ Len(cmd[j]) \in Nat /\ Len(b(j + 1)) \in Nat
        BY <1>1, <2>2, <3>1, <3>2
      <3>5. QED
        BY <3>1, <3>3, <3>4
    <2> HIDE DEF T
    <2>3. \A j \in 0..n : j \in T
      BY <1>1, <2>1, <2>2, Along
    <2>4. n \in T
      BY <1>1, <2>3
    <2>5. QED
      BY <1>2, <2>4 DEF T
  <1>11. QED
    BY <1>2, <1>6, <1>7, <1>8, <1>9, <1>10 DEF n, b

\* The walk goes through st and then stays where it is.
LEMMA WalkIs ==
  ASSUME NEW p, NEW n \in Nat, NEW st, Len(p) \div 6 \in Nat, n <= Len(p) \div 6,
         st[0] = [args |-> <<>>, rest |-> p],
         \A j \in 1..n : WithNext(st[j - 1]) = st[j],
         WithNext(st[n]) = st[n]
  PROVE  Arguments(p) = st[n].args
  <1> DEFINE N == Len(p) \div 6
             a == [args |-> <<>>, rest |-> p]
             Is(g) == g = [k \in 0..N |-> IF k = 0 THEN a ELSE WithNext(g[k - 1])]
             v == CHOOSE g : Is(g)
             m(k) == IF k <= n THEN k ELSE n
             g == [k \in 0..N |-> st[m(k)]]
  <1>1. Arguments(p) = v[N].args
    BY Zenon DEF Arguments
  <1>2. N \in Nat /\ n <= N
    OBVIOUS
  <1> HIDE DEF N, a, v
  <1>3. \A k \in 0..N : g[k] = IF k = 0 THEN a ELSE WithNext(g[k - 1])
    <2> SUFFICES ASSUME NEW k \in 0..N PROVE g[k] = IF k = 0 THEN a ELSE WithNext(g[k - 1])
      OBVIOUS
    <2>1. CASE k = 0
      <3>1. g[k] = st[0]
        BY <1>2, <2>1
      <3>2. QED
        BY <2>1, <3>1 DEF a
    <2>2. CASE k # 0 /\ k <= n
      <3>1. k \in 1..n /\ k - 1 \in 0..N /\ k - 1 <= n
        BY <1>2, <2>2
      <3>2. g[k] = st[k] /\ g[k - 1] = st[k - 1]
        BY <2>2, <3>1
      <3>3. QED
        BY <2>2, <3>1, <3>2
    <2>3. CASE k # 0 /\ ~(k <= n)
      <3>1. k - 1 \in 0..N /\ n <= k - 1 /\ k - 1 \in Nat
        BY <1>2, <2>3
      <3>2. m(k - 1) = n
        BY <3>1
      <3>3. g[k] = st[n] /\ g[k - 1] = st[n]
        BY <2>3, <3>1, <3>2
      <3>4. QED
        BY <2>3, <3>3
    <2>4. QED
      BY <2>1, <2>2, <2>3
  <1>4. Is(v)
    <2>1. g = [k \in 0..N |-> g[k]]
      OBVIOUS
    <2> HIDE DEF g
    <2>2. Is(g)
      BY <1>3, <2>1
    <2>3. QED
      BY <2>2 DEF v
  <1>5. v[N] = g[N]
    <2> DEFINE S == {k \in 0..N : v[k] = g[k]}
    <2>1. \A k \in 0..N : v[k] = IF k = 0 THEN a ELSE WithNext(v[k - 1])
      BY <1>4
    <2> HIDE DEF g
    <2>2. 0 \in S
      BY <1>2, <1>3, <2>1
    <2>3. ASSUME NEW k \in 0..N, k < N, k \in S PROVE k + 1 \in S
      <3>1. k + 1 \in 0..N /\ k + 1 # 0 /\ (k + 1) - 1 = k
        BY <1>2, <2>3
      <3>2. v[k + 1] = WithNext(v[k]) /\ g[k + 1] = WithNext(g[k])
        BY <1>3, <2>1, <3>1
      <3>3. QED
        BY <2>3, <3>1, <3>2
    <2> HIDE DEF S
    <2>4. \A k \in 0..N : k \in S
      BY <1>2, <2>2, <2>3, Along
    <2>5. N \in S
      BY <1>2, <2>4
    <2>6. QED
      BY <2>5 DEF S
  <1>6. g[N] = st[n]
    <2>1. N \in 0..N /\ m(N) = n
      BY <1>2
    <2>2. QED
      BY <2>1
  <1>7. QED
    BY <1>1, <1>5, <1>6

\* Where the walk is.
Walk(args, rest) == [args |-> args, rest |-> rest]

LEMMA OneMore ==
  ASSUME NEW B, Marks \subseteq B, NEW x \in Seq(B), NoDollar(x),
         NEW arg \in Seq(B), Len(arg) \in Number, NEW y \in Seq(B), NEW args
  PROVE  WithNext(Walk(args, x \o (Bulk(arg) \o y))) = Walk(Append(args, arg), y)
  <1> DEFINE p == x \o (Bulk(arg) \o y)
             f == Walk(args, p)
  <1>1. nextArgument(p) = [arg |-> arg, rest |-> y] /\ Contains(p, "$")
    BY NextIs, Zenon
  <1>2. f.args = args /\ f.rest = p
    <2> HIDE DEF p
    <2>1. QED
      BY DEF Walk
  <1> HIDE DEF p, f
  <1>3. WithNext(f) = [args |-> Append(f.args, nextArgument(f.rest).arg),
                       rest |-> nextArgument(f.rest).rest]
    BY <1>1, <1>2, Zenon DEF WithNext
  <1>4. nextArgument(p).arg = arg /\ nextArgument(p).rest = y
    BY <1>1
  <1>5. WithNext(f) = Walk(Append(args, arg), y)
    BY <1>2, <1>3, <1>4, Zenon DEF Walk
  <1>6. QED
    BY <1>5, Zenon DEF f, p

(***************************************************************************)
(* Walking over a command as __redisAsyncCommand (async.c) does with       *)
(* nextArgument, which reads the lengths in it, gives the arguments the    *)
(* command was made of, one by one, whatever bytes they hold: a "$" or an  *)
(* end of line in an argument is not taken for the next one.               *)
(***************************************************************************)
THEOREM ArgumentsComeBack ==
  ASSUME NEW B, Marks \subseteq B, NEW argv, Arguable(argv, B)
  PROVE  Arguments(Built(argv)) = argv
  <1> DEFINE p == Built(argv)
             n == Len(argv)
             H == Heading(n)
  <1>1. n \in Nat /\ n \in Number /\ argv \in Seq(Seq(B))
        /\ \A j \in 1..n : argv[j] \in Seq(B) /\ Len(argv[j]) \in Number
    BY DEF Arguable
  <1>2. PICK rest \in [0..n -> Seq(B)] :
          /\ rest[n] = <<>>
          /\ \A j \in 1..n : rest[j - 1] = Bulk(argv[j]) \o rest[j]
          /\ p = H \o rest[0]
          /\ Len(p) >= 6 * n
    BY BehindHeading
  <1>3. H \in Seq(B) /\ NoDollar(H)
    <2>1. n \in Number
      BY <1>1
    <2> HIDE DEF n
    <2>2. QED
      BY <2>1, HeadingIs, HeadingHasNone
  <1>4. p \in Seq(B) /\ Len(p) \in Nat
    BY TotalIsLength
  <1> HIDE DEF p, H, n
  <1> DEFINE st == [j \in 0..n |-> [args |-> SubSeq(argv, 1, j),
                                    rest |-> IF j = 0 THEN p ELSE rest[j]]]
  <1>5. ASSUME NEW j \in 0..n
        PROVE  \E x \in Seq(B) : NoDollar(x) /\ st[j].rest = x \o rest[j]
    <2>1. CASE j = 0
      BY <1>2, <1>3, <2>1
    <2>2. CASE j # 0
      <3>1. <<>> \in Seq(B) /\ NoDollar(<<>>)
        BY DEF NoDollar
      <3>2. rest[j] \in Seq(B)
        BY <1>2
      <3>3. <<>> \o rest[j] = rest[j]
        BY <3>2
      <3>4. st[j].rest = rest[j]
        BY <2>2
      <3>5. QED
        BY <3>1, <3>3, <3>4
    <2>3. QED
      BY <2>1, <2>2
  <1>6. ASSUME NEW j \in 1..n
        PROVE  WithNext(st[j - 1]) = st[j]
    <2>1. j - 1 \in 0..n /\ j \in 0..n /\ j # 0 /\ j <= n
      BY <1>1
    <2>2. PICK x \in Seq(B) : NoDollar(x) /\ st[j - 1].rest = x \o rest[j - 1]
      BY <1>5, <2>1
    <2>3. rest[j - 1] = Bulk(argv[j]) \o rest[j] /\ rest[j] \in Seq(B)
      BY <1>2, <2>1
    <2>4. st[j - 1] = [args |-> SubSeq(argv, 1, j - 1), rest |-> st[j - 1].rest]
          /\ st[j] = [args |-> SubSeq(argv, 1, j), rest |-> rest[j]]
      BY <2>1
    <2> HIDE DEF st
    <2>5. argv[j] \in Seq(B) /\ Len(argv[j]) \in Number
      BY <1>1
    <2>6. st[j - 1] = [args |-> SubSeq(argv, 1, j - 1), rest |-> x \o (Bulk(argv[j]) \o rest[j])]
      BY <2>2, <2>3, <2>4, Zenon
    <2>7. WithNext(st[j - 1]) = [args |-> Append(SubSeq(argv, 1, j - 1), argv[j]), rest |-> rest[j]]
      <3>1. NoDollar(x) /\ rest[j] \in Seq(B)
        BY <2>2, <2>3
      <3>2. WithNext(Walk(SubSeq(argv, 1, j - 1), x \o (Bulk(argv[j]) \o rest[j])))
              = Walk(Append(SubSeq(argv, 1, j - 1), argv[j]), rest[j])
        BY <2>5, <3>1, OneMore, ZenonT(60)
      <3>3. QED
        BY <2>6, <3>2, Zenon DEF Walk
    <2>8. Append(SubSeq(argv, 1, j - 1), argv[j]) = SubSeq(argv, 1, j)
      <3>1. argv \in Seq(Seq(B)) /\ j \in 1..Len(argv)
        BY <1>1 DEF n
      <3>2. QED
        BY <3>1
    <2>9. QED
      BY <2>4, <2>7, <2>8, Zenon
  <1>7. WithNext(st[n]) = st[n]
    <2>1. n \in 0..n
      BY <1>1
    <2>2. PICK x \in Seq(B) : NoDollar(x) /\ st[n].rest = x \o rest[n]
      BY <1>5, <2>1
    <2>3. st[n].rest = x
      <3>1. x \o <<>> = x
        OBVIOUS
      <3>2. QED
        BY <1>2, <2>2, <3>1, Zenon
    <2>4. ~Contains(st[n].rest, "$")
      <3> HIDE DEF st
      <3>1. QED
        BY <2>2, <2>3 DEF Contains, NoDollar
    <2> HIDE DEF st
    <2>5. QED
      BY <2>4, Zenon DEF WithNext
  <1>8. st[0] = [args |-> <<>>, rest |-> p]
    <2>1. SubSeq(argv, 1, 0) = <<>> /\ 0 \in 0..n
      BY <1>1
    <2>2. QED
      BY <2>1
  <1>9. Len(p) \div 6 \in Nat /\ n <= Len(p) \div 6
    <2>1. \A k, l \in Nat : l >= 6 * k => k <= l \div 6 /\ l \div 6 \in Nat
      BY SMT
    <2>2. QED
      BY <1>1, <1>2, <1>4, <2>1
  <1>10. st[n].args = argv
    <2>1. n \in 0..n
      BY <1>1
    <2>2. st[n].args = SubSeq(argv, 1, n)
      BY <2>1
    <2>3. SubSeq(argv, 1, Len(argv)) = argv
      BY <1>1
    <2>4. QED
      BY <2>2, <2>3 DEF n
  <1> HIDE DEF st
  <1>11. Arguments(p) = st[n].args
    BY <1>1, <1>6, <1>7, <1>8, <1>9, WalkIs, Zenon
  <1>12. QED
    BY <1>10, <1>11 DEF p

-----------------------------------------------------------------------------
(***************************************************************************)
(* The loop over the format, round by round.                               *)
(***************************************************************************)

(***************************************************************************)
(* The length of a command that redisFormatCommandArgv (hiredis.c) and     *)
(* redisvFormatCommand add up, with digits counted by intlen, is the       *)
(* length of what they put together in a loop of its own: the buffer is    *)
(* filled to its last byte, as assert(pos == totlen) says, for any         *)
(* arguments, and from a format it is the same command as from its         *)
(* arguments.                                                              *)
(***************************************************************************)
THEOREM CommandsAreExact ==
  ASSUME NEW B, Marks \subseteq B, NEW argv, Arguable(argv, B)
  PROVE  /\ redisFormatCommandArgv(argv) = [cmd |-> Built(argv), totlen |-> Len(Built(argv))]
         /\ \A format, ap : Argv(format, ap) = argv =>
              redisvFormatCommand(format, ap) = redisFormatCommandArgv(argv)
  <1> DEFINE p == Built(argv)
  <1>1. p \in Seq(B) /\ Total(argv) = Len(p)
    BY TotalIsLength
  <1> HIDE DEF p
  <1>2. SubSeq(p, 1, Len(p)) = p
    BY <1>1
  <1>3. redisFormatCommandArgv(argv) = [cmd |-> SubSeq(p, 1, Total(argv)), totlen |-> Total(argv)]
    BY Zenon DEF redisFormatCommandArgv, p
  <1>4. redisFormatCommandArgv(argv) = [cmd |-> p, totlen |-> Len(p)]
    BY <1>1, <1>2, <1>3, Zenon
  <1>5. ASSUME NEW format, NEW ap, Argv(format, ap) = argv
        PROVE  redisvFormatCommand(format, ap) = [cmd |-> p, totlen |-> Len(p)]
    <2>1. redisvFormatCommand(format, ap) = [cmd |-> p, totlen |-> Total(argv)]
      BY <1>5, Zenon DEF redisvFormatCommand, p
    <2>2. QED
      BY <1>1, <2>1, Zenon
  <1>6. QED
    BY <1>4, <1>5, Zenon DEF p

\* The loop over the format goes through st.
LEMMA ScansAre ==
  ASSUME NEW format, NEW ap, NEW N \in Nat, N = Len(format), NEW st,
         st[0] = Scanning(format, ap, <<>>, FALSE, <<>>),
         \A k \in 1..N : st[k] = Scan(st[k - 1])
  PROVE  Argv(format, ap) = Ended(st[N])
  <1> DEFINE a == Scanning(format, ap, <<>>, FALSE, <<>>)
             Is(g, m) == g = [k \in 0..m |-> IF k = 0 THEN a ELSE Scan(g[k - 1])]
             v == CHOOSE g : Is(g, Len(format))
             g == [k \in 0..N |-> st[k]]
  <1>1. Argv(format, ap) = Ended(v[Len(format)])
    BY Zenon DEF Argv
  <1>2. st[0] = a
    OBVIOUS
  <1> HIDE DEF a, v
  <1>3. \A k \in 0..N : g[k] = IF k = 0 THEN a ELSE Scan(g[k - 1])
    <2> SUFFICES ASSUME NEW k \in 0..N PROVE g[k] = IF k = 0 THEN a ELSE Scan(g[k - 1])
      OBVIOUS
    <2>1. CASE k = 0
      BY <1>2, <2>1
    <2>2. CASE k # 0
      <3>1. k \in 1..N /\ k - 1 \in 0..N
        BY <2>2
      <3>2. g[k] = st[k] /\ g[k - 1] = st[k - 1]
        BY <3>1
      <3>3. QED
        BY <2>2, <3>1, <3>2
    <2>3. QED
      BY <2>1, <2>2
  <1>4. Is(v, N)
    <2>1. g = [k \in 0..N |-> g[k]]
      OBVIOUS
    <2> HIDE DEF g
    <2>2. Is(g, N)
      BY <1>3, <2>1
    <2>3. Is(g, Len(format))
      BY <2>2
    <2> HIDE DEF Is
    <2>4. Is(v, Len(format))
      BY <2>3, Zenon DEF v
    <2>5. QED
      BY <2>4
  <1>5. v[N] = g[N]
    <2> DEFINE S == {k \in 0..N : v[k] = g[k]}
    <2>1. \A k \in 0..N : v[k] = IF k = 0 THEN a ELSE Scan(v[k - 1])
      BY <1>4
    <2> HIDE DEF g
    <2>2. 0 \in S
      BY <1>3, <2>1
    <2>3. ASSUME NEW k \in 0..N, k < N, k \in S PROVE k + 1 \in S
      <3>1. k + 1 \in 0..N /\ k + 1 # 0 /\ (k + 1) - 1 = k
        BY <2>3
      <3>2. v[k + 1] = Scan(v[k]) /\ g[k + 1] = Scan(g[k])
        BY <1>3, <2>1, <3>1
      <3>3. QED
        BY <2>3, <3>1, <3>2
    <2> HIDE DEF S
    <2>4. \A k \in 0..N : k \in S
      BY <2>2, <2>3, Along
    <2>5. N \in S
      BY <2>4
    <2>6. QED
      BY <2>5 DEF S
  <1>6. g[N] = st[N]
    OBVIOUS
  <1>7. QED
    BY <1>1, <1>5, <1>6

LEMMA FirstOf ==
  ASSUME NEW B, NEW x \in B, NEW y \in Seq(B)
  PROVE  /\ <<x>> \o y \in Seq(B) /\ <<x>> \o y # <<>> /\ (<<x>> \o y)[1] = x
         /\ Tail(<<x>> \o y) = y /\ Len(<<x>> \o y) = 1 + Len(y)
  <1> DEFINE u == <<x>>
             d == u \o y
  <1>1. u \in Seq(B) /\ Len(u) = 1 /\ u[1] = x
    OBVIOUS
  <1> HIDE DEF u
  <1>2. d \in Seq(B) /\ JoinOf(d, u, y)
    BY <1>1, Joining, Zenon
  <1> HIDE DEF d
  <1>3. Len(d) = 1 + Len(y) /\ d[1] = x /\ \A i \in 1..Len(y) : d[1 + i] = y[i]
    BY <1>1, <1>2 DEF JoinOf
  <1>4. d # <<>>
    BY <1>3
  <1>5. Tail(d) = y
    <2>1. Tail(d) \in Seq(B) /\ Len(Tail(d)) = Len(y)
      BY <1>2, <1>3, <1>4
    <2>2. \A i \in 1..Len(y) : Tail(d)[i] = y[i]
      BY <1>2, <1>3, <1>4
    <2> DEFINE t == Tail(d)
    <2> HIDE DEF t
    <2>3. t = y
      BY <2>1, <2>2 DEF t
    <2>4. QED
      BY <2>3 DEF t
  <1>6. QED
    BY <1>2, <1>3, <1>4, <1>5 DEF d, u

\* In the middle of an argument, and between two.
Within(c, ap, u, v) == Scanning(c, ap, u, TRUE, v)
Between(c, ap, v) == Scanning(c, ap, <<>>, FALSE, v)

\* What the text goes on with: x, or a value.
Starts(d, x) == d # <<>> /\ d[1] = x
StartsPlain(d) == d # <<>> /\ d[1] # " " /\ d[1] # "%"
StartsValue(d) == d # <<>> /\ Len(d) > 1 /\ d[1] = "%" /\ d[2] \in {"s", "b"}

\* The rounds of the loop: at a blank, at any other symbol of the text, at a conversion.
LEMMA BlankEnds ==
  ASSUME NEW d, Starts(d, " "), NEW ap, NEW u, NEW v
  PROVE  Scan(Within(d, ap, u, v)) = Between(Tail(d), ap, Append(v, u))
  <1> DEFINE s == Within(d, ap, u, v)
  <1>1. s.c = d /\ s.ap = ap /\ s.curarg = u /\ s.argv = v /\ s.touched = TRUE
    BY DEF Within, Scanning
  <1> HIDE DEF s
  <1>2. Scan(s) = Between(Tail(d), ap, Append(v, u))
    BY <1>1, Zenon DEF Scan, Between, Starts
  <1>3. QED
    BY <1>2 DEF s

LEMMA BlankStays ==
  ASSUME NEW d, Starts(d, " "), NEW ap, NEW v
  PROVE  Scan(Between(d, ap, v)) = Between(Tail(d), ap, v)
  <1> DEFINE s == Between(d, ap, v)
  <1>1. s.c = d /\ s.ap = ap /\ s.curarg = <<>> /\ s.argv = v /\ s.touched = FALSE
    BY DEF Between, Scanning
  <1> HIDE DEF s
  <1>2. Scan(s) = Between(Tail(d), ap, v)
    BY <1>1, Zenon DEF Scan, Between, Starts
  <1>3. QED
    BY <1>2 DEF s

LEMMA SymbolGoesOn ==
  ASSUME NEW d, StartsPlain(d), NEW ap, NEW u, NEW v
  PROVE  Scan(Within(d, ap, u, v)) = Within(Tail(d), ap, Append(u, d[1]), v)
  <1> DEFINE s == Within(d, ap, u, v)
  <1>1. s.c = d /\ s.ap = ap /\ s.curarg = u /\ s.argv = v
    BY DEF Within, Scanning
  <1> HIDE DEF s
  <1>2. Scan(s) = Within(Tail(d), ap, Append(u, d[1]), v)
    BY <1>1, Zenon DEF Scan, Within, StartsPlain
  <1>3. QED
    BY <1>2 DEF s

LEMMA SymbolBegins ==
  ASSUME NEW d, StartsPlain(d), NEW ap, NEW v
  PROVE  Scan(Between(d, ap, v)) = Within(Tail(d), ap, Append(<<>>, d[1]), v)
  <1> DEFINE s == Between(d, ap, v)
  <1>1. s.c = d /\ s.ap = ap /\ s.curarg = <<>> /\ s.argv = v
    BY DEF Between, Scanning
  <1> HIDE DEF s
  <1>2. Scan(s) = Within(Tail(d), ap, Append(<<>>, d[1]), v)
    BY <1>1, Zenon DEF Scan, Within, StartsPlain
  <1>3. QED
    BY <1>2 DEF s

LEMMA ValueBegins ==
  ASSUME NEW d, StartsValue(d), NEW ap, NEW v
  PROVE  Scan(Between(d, ap, v)) = Within(Tail(Tail(d)), Tail(ap), <<>> \o Head(ap), v)
  <1> DEFINE s == Between(d, ap, v)
  <1>1. d[1] # " " /\ ~(d[2] = "%") /\ d # <<>> /\ Len(d) > 1 /\ d[1] = "%" /\ d[2] \in {"s", "b"}
    BY DEF StartsValue
  <1>2. s.c = d /\ s.ap = ap /\ s.curarg = <<>> /\ s.argv = v
    BY DEF Between, Scanning
  <1> HIDE DEF s
  <1>3. Scan(s) = Within(Tail(Tail(d)), Tail(ap), <<>> \o Head(ap), v)
    BY <1>1, <1>2, Zenon DEF Scan, Within
  <1>4. QED
    BY <1>3 DEF s

LEMMA NothingLeft ==
  ASSUME NEW ap, NEW u, NEW v
  PROVE  Scan(Within(<<>>, ap, u, v)) = Within(<<>>, ap, u, v)
  <1> DEFINE s == Within(<<>>, ap, u, v)
  <1>1. ~(Len(<<>>) > 1)
    OBVIOUS
  <1>2. s.c = <<>>
    BY DEF Within, Scanning
  <1> HIDE DEF s
  <1>3. Scan(s) = s
    BY <1>1, <1>2, Zenon DEF Scan
  <1>4. QED
    BY <1>3 DEF s

LEMMA LastEnds ==
  ASSUME NEW c, NEW ap, NEW u, NEW v
  PROVE  Ended(Within(c, ap, u, v)) = Append(v, u)
  <1> DEFINE s == Within(c, ap, u, v)
  <1>1. s.curarg = u /\ s.argv = v /\ s.touched = TRUE
    BY DEF Within, Scanning
  <1> HIDE DEF s
  <1>2. Ended(s) = Append(v, u)
    BY <1>1, Zenon DEF Ended
  <1>3. QED
    BY <1>2 DEF s

\* m rounds lead from s to t.
Runs(s, m, t) ==
  \E g : g[0] = s /\ g[m] = t /\ \A k \in 1..m : g[k] = Scan(g[k - 1])

LEMMA OneRound ==
  ASSUME NEW s
  PROVE  Runs(s, 1, Scan(s))
  <1> DEFINE g == [k \in 0..1 |-> IF k = 0 THEN s ELSE Scan(s)]
  <1>1. g[0] = s /\ g[1] = Scan(s) /\ \A k \in 1..1 : g[k] = Scan(g[k - 1])
    OBVIOUS
  <1> HIDE DEF g
  <1>2. QED
    BY <1>1 DEF Runs

LEMMA MoreRounds ==
  ASSUME NEW s, NEW m \in Nat, NEW t, Runs(s, m, t), NEW n \in Nat, NEW u, Runs(t, n, u)
  PROVE  Runs(s, m + n, u)
  <1>1. PICK g : g[0] = s /\ g[m] = t /\ \A k \in 1..m : g[k] = Scan(g[k - 1])
    BY DEF Runs
  <1>2. PICK h : h[0] = t /\ h[n] = u /\ \A k \in 1..n : h[k] = Scan(h[k - 1])
    BY DEF Runs
  <1> DEFINE f == [k \in 0..m + n |-> IF k <= m THEN g[k] ELSE h[k - m]]
  <1>3. f[0] = s
    BY <1>1
  <1>4. f[m + n] = u
    <2>1. CASE n = 0
      BY <1>1, <1>2, <2>1
    <2>2. CASE n # 0
      <3>1. m + n \in 0..m + n /\ ~(m + n <= m) /\ (m + n) - m = n
        BY <2>2
      <3>2. QED
        BY <1>2, <3>1
    <2>3. QED
      BY <2>1, <2>2
  <1>5. ASSUME NEW k \in 1..m + n PROVE f[k] = Scan(f[k - 1])
    <2>1. k \in 0..m + n /\ k - 1 \in 0..m + n
      OBVIOUS
    <2>2. CASE k <= m
      <3>1. k \in 1..m /\ k - 1 <= m
        BY <2>2
      <3>2. f[k] = g[k] /\ f[k - 1] = g[k - 1]
        BY <2>1, <2>2, <3>1
      <3>3. QED
        BY <1>1, <3>1, <3>2
    <2>3. CASE ~(k <= m)
      <3>1. k - m \in 1..n /\ (k - m) - 1 = (k - 1) - m
        BY <2>3
      <3>2. f[k] = h[k - m]
        BY <2>1, <2>3
      <3>3. f[k - 1] = h[(k - m) - 1]
        <4>1. CASE k - 1 = m
          <5>1. f[k - 1] = g[m] /\ (k - m) - 1 = 0
            BY <2>1, <4>1
          <5>2. QED
            BY <1>1, <1>2, <5>1
        <4>2. CASE k - 1 # m
          <5>1. ~(k - 1 <= m)
            BY <2>3, <4>2
          <5>2. f[k - 1] = h[(k - 1) - m]
            BY <2>1, <5>1
          <5>3. QED
            BY <3>1, <5>2
        <4>3. QED
          BY <4>1, <4>2
      <3>4. h[k - m] = Scan(h[(k - m) - 1])
        BY <1>2, <3>1
      <3>5. QED
        BY <3>2, <3>3, <3>4
    <2>4. QED
      BY <2>2, <2>3
  <1> HIDE DEF f
  <1>6. QED
    BY <1>3, <1>4, <1>5 DEF Runs

LEMMA NoRound ==
  ASSUME NEW s
  PROVE  Runs(s, 0, s)
  <1> DEFINE g == [k \in 0..0 |-> s]
  <1>1. g[0] = s /\ \A k \in 1..0 : g[k] = Scan(g[k - 1])
    OBVIOUS
  <1> HIDE DEF g
  <1>2. QED
    BY <1>1 DEF Runs

\* When the text is at its end, the rounds that are left do nothing.
LEMMA Idles ==
  ASSUME NEW n \in Nat, NEW t, Scan(t) = t
  PROVE  Runs(t, n, t)
  <1> DEFINE g == [k \in 0..n |-> t]
  <1>1. g[0] = t /\ g[n] = t /\ \A k \in 1..n : g[k] = Scan(g[k - 1])
    OBVIOUS
  <1> HIDE DEF g
  <1>2. QED
    BY <1>1 DEF Runs

LEMMA ScannedAll ==
  ASSUME NEW format, NEW ap, NEW bp, NEW u, NEW v, NEW m,
         Runs(Between(format, ap, <<>>), m, Within(<<>>, bp, u, v)),
         Len(format) \in Nat, m \in 0..Len(format)
  PROVE  Argv(format, ap) = Append(v, u)
  <1> DEFINE N == Len(format)
             s == Between(format, ap, <<>>)
             e == Within(<<>>, bp, u, v)
  <1>1. m \in Nat /\ N - m \in Nat /\ m + (N - m) = N
    OBVIOUS
  <1>2. Scan(e) = e
    BY NothingLeft, Zenon
  <1> HIDE DEF N, s, e
  <1>3. Runs(e, N - m, e)
    BY <1>1, <1>2, Idles, Zenon
  <1>4. Runs(s, m, e)
    BY DEF s, e
  <1>5. Runs(s, m + (N - m), e)
    BY <1>1, <1>3, <1>4, MoreRounds, Zenon
  <1>6. PICK g : g[0] = s /\ g[N] = e /\ \A k \in 1..N : g[k] = Scan(g[k - 1])
    BY <1>1, <1>5 DEF Runs
  <1>7. Argv(format, ap) = Ended(g[N])
    <2>1. N \in Nat /\ N = Len(format)
      BY <1>1 DEF N
    <2>2. g[0] = Scanning(format, ap, <<>>, FALSE, <<>>)
      BY <1>6, Zenon DEF s, Between
    <2>3. \A k \in 1..N : g[k] = Scan(g[k - 1])
      BY <1>6
    <2>4. QED
      BY <2>1, <2>2, <2>3, ScansAre
  <1>8. Ended(e) = Append(v, u)
    BY LastEnds, Zenon DEF e
  <1>9. QED
    BY <1>6, <1>7, <1>8, Zenon

LEMMA Appended ==
  ASSUME NEW a, NEW b, NEW c
  PROVE  Append(<<>>, a) = <<a>> /\ Append(<<a>>, b) = <<a, b>> /\ Append(<<a, b>>, c) = <<a, b, c>>
  <1>1. Append(<<>>, a) = <<a>>
    OBVIOUS
  <1>2. Append(<<a>>, b) = <<a, b>>
    <2> DEFINE S == {a, b}
               l == Append(<<a>>, b)
               r == <<a, b>>
    <2>1. <<a>> \in Seq(S) /\ b \in S /\ r \in Seq(S)
      OBVIOUS
    <2>2. l \in Seq(S) /\ Len(l) = 2 /\ l[1] = a /\ l[2] = b
      BY <2>1
    <2>3. Len(r) = 2 /\ r[1] = a /\ r[2] = b
      OBVIOUS
    <2> HIDE DEF S, l, r
    <2>4. l = r
      BY <2>1, <2>2, <2>3
    <2>5. QED
      BY <2>4 DEF l, r
  <1>3. Append(<<a, b>>, c) = <<a, b, c>>
    <2> DEFINE S == {a, b, c}
               l == Append(<<a, b>>, c)
               r == <<a, b, c>>
    <2>1. <<a, b>> \in Seq(S) /\ c \in S /\ r \in Seq(S)
      OBVIOUS
    <2>2. l \in Seq(S) /\ Len(l) = 3 /\ l[1] = a /\ l[2] = b /\ l[3] = c
      BY <2>1
    <2>3. Len(r) = 3 /\ r[1] = a /\ r[2] = b /\ r[3] = c
      OBVIOUS
    <2> HIDE DEF S, l, r
    <2>4. l = r
      BY <2>1, <2>2, <2>3
    <2>5. QED
      BY <2>4 DEF l, r
  <1>4. QED
    BY <1>1, <1>2, <1>3

LEMMA OfOne ==
  ASSUME NEW a
  PROVE  Tail(<<a>>) = <<>>
  OBVIOUS

LEMMA OfTwo ==
  ASSUME NEW a, NEW b
  PROVE  Tail(<<a, b>>) = <<b>>
  OBVIOUS

LEMMA OfThree ==
  ASSUME NEW a, NEW b, NEW c
  PROVE  Tail(<<a, b, c>>) = <<b, c>>
  OBVIOUS

LEMMA BehindWord ==
  ASSUME NEW w
  PROVE  Tail(<<w, " ", "%", "s", " ", "%", "b">>) = <<" ", "%", "s", " ", "%", "b">>
  <1>1. \A b, p, s, z : Tail(<<w, b, p, s, b, p, z>>) = <<b, p, s, b, p, z>>
    OBVIOUS
  <1>2. QED
    BY <1>1, Zenon

LEMMA TailsOfTwo ==
  ASSUME NEW b, NEW p, NEW s, NEW z
  PROVE  /\ Tail(<<b, p, s, b, p, z>>) = <<p, s, b, p, z>>
         /\ Tail(Tail(<<p, s, b, p, z>>)) = <<b, p, z>>
  <1>1. Tail(<<b, p, s, b, p, z>>) = <<p, s, b, p, z>>
    OBVIOUS
  <1>2. Tail(<<p, s, b, p, z>>) = <<s, b, p, z>> /\ Tail(<<s, b, p, z>>) = <<b, p, z>>
    OBVIOUS
  <1>3. QED
    BY <1>1, <1>2, Zenon

LEMMA BeginningsOfTwo ==
  ASSUME NEW p, NEW s, NEW b, NEW z
  PROVE  /\ <<p, s, b, p, z>> # <<>> /\ Len(<<p, s, b, p, z>>) > 1
         /\ <<p, s, b, p, z>>[1] = p /\ <<p, s, b, p, z>>[2] = s
         /\ <<p, z>> # <<>> /\ Len(<<p, z>>) > 1 /\ <<p, z>>[1] = p /\ <<p, z>>[2] = z
  OBVIOUS

LEMMA FiveRounds ==
  ASSUME NEW s1, NEW s6, \E s2, s3, s4, s5 :
           Runs(s1, 1, s2) /\ Runs(s2, 1, s3) /\ Runs(s3, 1, s4) /\ Runs(s4, 1, s5) /\ Runs(s5, 1, s6)
  PROVE  Runs(s1, 5, s6)
  <1>1. PICK s2, s3, s4, s5 :
          Runs(s1, 1, s2) /\ Runs(s2, 1, s3) /\ Runs(s3, 1, s4) /\ Runs(s4, 1, s5) /\ Runs(s5, 1, s6)
    OBVIOUS
  <1>2. 1 \in Nat /\ 2 \in Nat /\ 3 \in Nat /\ 4 \in Nat
        /\ 1 + 1 = 2 /\ 2 + 1 = 3 /\ 3 + 1 = 4 /\ 4 + 1 = 5
    OBVIOUS
  <1>3. Runs(s1, 2, s3)
    BY <1>1, <1>2, MoreRounds
  <1>4. Runs(s1, 3, s4)
    BY <1>1, <1>2, <1>3, MoreRounds
  <1>5. Runs(s1, 4, s5)
    BY <1>1, <1>2, <1>4, MoreRounds
  <1>6. QED
    BY <1>1, <1>2, <1>5, MoreRounds

\* What is left of the text of a command with two values.
LEMMA TextOfTwo ==
  ASSUME NEW w, w # " ", w # "%"
  PROVE  /\ StartsPlain(<<w, " ", "%", "s", " ", "%", "b">>)
         /\ Starts(<<" ", "%", "s", " ", "%", "b">>, " ")
         /\ StartsValue(<<"%", "s", " ", "%", "b">>)
         /\ Starts(<<" ", "%", "b">>, " ")
         /\ StartsValue(<<"%", "b">>)
  <1>1. StartsPlain(<<w, " ", "%", "s", " ", "%", "b">>)
    BY DEF StartsPlain
  <1>2. Starts(<<" ", "%", "s", " ", "%", "b">>, " ")
    BY DEF Starts
  <1>3. StartsValue(<<"%", "s", " ", "%", "b">>)
    <2>1. "s" \in {"s", "b"}
      OBVIOUS
    <2>2. QED
      BY <2>1, BeginningsOfTwo, Zenon DEF StartsValue
  <1>4. Starts(<<" ", "%", "b">>, " ")
    BY DEF Starts
  <1>5. StartsValue(<<"%", "b">>)
    <2>1. "b" \in {"s", "b"}
      OBVIOUS
    <2>2. QED
      BY <2>1, BeginningsOfTwo, Zenon DEF StartsValue
  <1>6. QED
    BY <1>1, <1>2, <1>3, <1>4, <1>5

LEMMA SevenLong ==
  ASSUME NEW a, NEW b, NEW c, NEW d, NEW e, NEW f, NEW g
  PROVE  /\ Len(<<a, b, c, d, e, f, g>>) \in Nat /\ 5 \in 0..Len(<<a, b, c, d, e, f, g>>)
         /\ <<a, b, c, d, e, f, g>>[1] = a
  OBVIOUS

LEMMA HeadOf ==
  ASSUME NEW B, NEW x \in Seq(B), NEW y
  PROVE  <<>> \o Head(<<x, y>>) = x /\ <<>> \o Head(<<x>>) = x
  <1>1. Head(<<x, y>>) = x /\ Head(<<x>>) = x
    OBVIOUS
  <1>2. <<>> \o x = x
    OBVIOUS
  <1>3. QED
    BY <1>1, <1>2, Zenon

(***************************************************************************)
(* From "PUBLISH %s %b" and "SET %s %b" (TSRedisController.m), which have  *)
(* the channel, the key and what is said as values, redisvFormatCommand    *)
(* makes three arguments: the word and the values as they are, with every  *)
(* blank, "%" and end of line in them.                                     *)
(***************************************************************************)
THEOREM ValuesArriveWhole ==
  ASSUME NEW word, word # " ", word # "%", NEW B, NEW x \in Seq(B), NEW y \in Seq(B)
  PROVE  Argv(<<word, " ", "%", "s", " ", "%", "b">>, <<x, y>>) = <<<<word>>, x, y>>
  <1> DEFINE c1 == <<word, " ", "%", "s", " ", "%", "b">>
             c2 == <<" ", "%", "s", " ", "%", "b">>
             c3 == <<"%", "s", " ", "%", "b">>
             c4 == <<" ", "%", "b">>
             c5 == <<"%", "b">>
             ap == <<x, y>>
             bp == <<y>>
             v1 == <<<<word>>>>
             v2 == <<<<word>>, x>>
             w == <<word>>
  <1>1. /\ StartsPlain(c1) /\ Starts(c2, " ") /\ StartsValue(c3) /\ Starts(c4, " ")
        /\ StartsValue(c5)
    BY TextOfTwo, Zenon
  <1>2. Tail(c1) = c2 /\ c1[1] = word
    <2>1. Tail(c1) = c2
      BY BehindWord, Zenon
    <2>2. c1[1] = word
      BY SevenLong, Zenon
    <2>3. QED
      BY <2>1, <2>2
  <1>3. Tail(c2) = c3
    BY TailsOfTwo
  <1>4. Tail(Tail(c3)) = c4
    BY TailsOfTwo
  <1>5. Tail(c4) = c5
    BY OfThree, Zenon
  <1>6. Tail(Tail(c5)) = <<>>
    BY OfTwo, OfOne, Zenon
  <1>7. Tail(ap) = bp /\ Tail(bp) = <<>>
    BY OfTwo, OfOne, Zenon
  <1>8. <<>> \o Head(ap) = x /\ <<>> \o Head(bp) = y
    BY HeadOf, Zenon
  <1>9. /\ Append(<<>>, word) = w /\ Append(<<>>, w) = v1
        /\ Append(v1, x) = v2 /\ Append(v2, y) = <<<<word>>, x, y>>
    BY Appended, Zenon
  <1>10. Len(c1) \in Nat /\ 5 \in 0..Len(c1)
    BY SevenLong, Zenon
  <1> HIDE DEF c1, c2, c3, c4, c5, ap, bp, v1, v2, w
  <1>11. Scan(Between(c1, ap, <<>>)) = Within(c2, ap, w, <<>>)
    BY <1>1, <1>2, <1>9, SymbolBegins, Zenon
  <1>12. Scan(Within(c2, ap, w, <<>>)) = Between(c3, ap, v1)
    BY <1>1, <1>3, <1>9, BlankEnds, Zenon
  <1>13. Scan(Between(c3, ap, v1)) = Within(c4, bp, x, v1)
    BY <1>1, <1>4, <1>7, <1>8, ValueBegins, Zenon
  <1>14. Scan(Within(c4, bp, x, v1)) = Between(c5, bp, v2)
    BY <1>1, <1>5, <1>9, BlankEnds, Zenon
  <1>15. Scan(Between(c5, bp, v2)) = Within(<<>>, <<>>, y, v2)
    BY <1>1, <1>6, <1>7, <1>8, ValueBegins, ZenonT(60)
  <1>16. Runs(Between(c1, ap, <<>>), 5, Within(<<>>, <<>>, y, v2))
    <2>1. Runs(Between(c1, ap, <<>>), 1, Within(c2, ap, w, <<>>))
      BY <1>11, OneRound
    <2>2. Runs(Within(c2, ap, w, <<>>), 1, Between(c3, ap, v1))
      BY <1>12, OneRound
    <2>3. Runs(Between(c3, ap, v1), 1, Within(c4, bp, x, v1))
      BY <1>13, OneRound
    <2>4. Runs(Within(c4, bp, x, v1), 1, Between(c5, bp, v2))
      BY <1>14, OneRound
    <2>5. Runs(Between(c5, bp, v2), 1, Within(<<>>, <<>>, y, v2))
      BY <1>15, OneRound
    <2>6. QED
      BY <2>1, <2>2, <2>3, <2>4, <2>5, FiveRounds
  <1>17. Argv(c1, ap) = Append(v2, y)
    <2>1. ASSUME NEW format, Len(format) \in Nat, 5 \in 0..Len(format),
                 Runs(Between(format, ap, <<>>), 5, Within(<<>>, <<>>, y, v2))
          PROVE  Argv(format, ap) = Append(v2, y)
      BY <2>1, ScannedAll
    <2>2. QED
      BY <1>10, <1>16, <2>1, Zenon
  <1>18. QED
    BY <1>9, <1>17, Zenon DEF c1, ap

-----------------------------------------------------------------------------
(***************************************************************************)
(* The text of SUBSCRIBE, which is a format.                               *)
(***************************************************************************)

LEMMA Associative ==
  ASSUME NEW B, NEW x \in Seq(B), NEW y \in Seq(B), NEW z \in Seq(B)
  PROVE  (x \o y) \o z = x \o (y \o z)
  OBVIOUS

\* What comes behind each of the n parts b that f has put together.
Remains(r, n, f, b, B) ==
  /\ r \in [0..n -> Seq(B)] /\ r[n] = <<>>
  /\ \A j \in 1..n : r[j - 1] = b[j] \o r[j]
  /\ f[n] = f[0] \o r[0]

Grows(f, n, b) == \A j \in 1..n : f[j] = f[j - 1] \o b[j]

Stacked(g, n, b, B) ==
  /\ g \in [0..n -> Seq(B)] /\ g[0] = <<>>
  /\ \A i \in 1..n : g[i] = b[n - i + 1] \o g[i - 1]

LEMMA Stacking ==
  ASSUME NEW B, NEW n \in Nat, NEW b \in [1..n -> Seq(B)]
  PROVE  \E g : Stacked(g, n, b, B)
  <1> DEFINE h == [i \in 1..n |-> [w \in Seq(B) |-> b[n - i + 1] \o w]]
  <1>1. h \in [1..n -> [Seq(B) -> Seq(B)]]
    <2>1. \A i \in 1..n : n - i + 1 \in 1..n
      OBVIOUS
    <2>2. ASSUME NEW i \in 1..n, NEW w \in Seq(B) PROVE b[n - i + 1] \o w \in Seq(B)
      BY <2>1, Joint
    <2>3. QED
      BY <2>2
  <1>2. PICK g : g \in [0..n -> Seq(B)] /\ g[0] = <<>> /\ \A i \in 1..n : g[i] = h[i][g[i - 1]]
    <2> HIDE DEF h
    <2>1. <<>> \in Seq(B)
      OBVIOUS
    <2>2. \E g : Iterates(g, n, Seq(B), <<>>, h)
      BY <1>1, <2>1, Iteration, Zenon
    <2>3. QED
      BY <2>2 DEF Iterates
  <1>3. \A i \in 1..n : g[i] = b[n - i + 1] \o g[i - 1]
    <2>1. \A i \in 1..n : i - 1 \in 0..n
      OBVIOUS
    <2>2. QED
      BY <1>2, <2>1
  <1> HIDE DEF h
  <1>4. Stacked(g, n, b, B)
    BY <1>2, <1>3 DEF Stacked
  <1>5. QED
    BY <1>4

LEMMA Suffixing ==
  ASSUME NEW B, NEW n \in Nat, NEW f \in [0..n -> Seq(B)], NEW b \in [1..n -> Seq(B)],
         Grows(f, n, b), NEW g, Stacked(g, n, b, B)
  PROVE  \E r : Remains(r, n, f, b, B)
  <1>0. \A j \in 1..n : f[j] = f[j - 1] \o b[j]
    BY DEF Grows
  <1>1. g \in [0..n -> Seq(B)] /\ g[0] = <<>>
    BY DEF Stacked
  <1>3. \A i \in 1..n : g[i] = b[n - i + 1] \o g[i - 1]
    BY DEF Stacked
  <1> DEFINE after == [j \in 0..n |-> g[n - j]]
  <1>4. after \in [0..n -> Seq(B)] /\ \A j \in 0..n : after[j] = g[n - j]
    BY <1>1
  <1> HIDE DEF after
  <1>5. after[n] = <<>>
    <2>1. n \in 0..n /\ n - n = 0
      OBVIOUS
    <2>2. QED
      BY <1>1, <1>4, <2>1
  <1>6. ASSUME NEW j \in 1..n PROVE after[j - 1] = b[j] \o after[j]
    <2>1. /\ j - 1 \in 0..n /\ j \in 0..n /\ n - j + 1 \in 1..n /\ n - (j - 1) = n - j + 1
          /\ n - (n - j + 1) + 1 = j /\ (n - j + 1) - 1 = n - j
      OBVIOUS
    <2>2. after[j - 1] = g[n - j + 1] /\ after[j] = g[n - j]
      BY <1>4, <2>1
    <2>3. g[n - j + 1] = b[n - (n - j + 1) + 1] \o g[(n - j + 1) - 1]
      BY <1>3, <2>1
    <2>4. g[n - j + 1] = b[j] \o g[n - j]
      BY <2>1, <2>3
    <2>5. QED
      BY <2>2, <2>4
  <1> DEFINE S == {i \in 0..n : f[n] = f[n - i] \o g[i]}
  <1>7. 0 \in S
    <2>1. n \in 0..n /\ n - 0 = n /\ 0 \in 0..n
      OBVIOUS
    <2>2. f[n] \o <<>> = f[n]
      BY <2>1
    <2>3. QED
      BY <1>1, <2>1, <2>2
  <1>8. ASSUME NEW i \in 0..n, i < n, i \in S PROVE i + 1 \in S
    <2>1. /\ i + 1 \in 1..n /\ n - i \in 1..n /\ (i + 1) - 1 = i /\ n - (i + 1) + 1 = n - i
          /\ (n - i) - 1 = n - (i + 1) /\ n - (i + 1) \in 0..n /\ i + 1 \in 0..n
      BY <1>8
    <2>2. f[n - i] = f[n - (i + 1)] \o b[n - i]
      BY <1>0, <2>1
    <2>3. g[i + 1] = b[n - i] \o g[i]
      BY <1>3, <2>1
    <2>4. f[n - (i + 1)] \in Seq(B) /\ b[n - i] \in Seq(B) /\ g[i] \in Seq(B)
      BY <1>1, <2>1
    <2>5. f[n] = (f[n - (i + 1)] \o b[n - i]) \o g[i]
      BY <1>8, <2>2 DEF S
    <2>6. (f[n - (i + 1)] \o b[n - i]) \o g[i] = f[n - (i + 1)] \o (b[n - i] \o g[i])
      <3> DEFINE p == f[n - (i + 1)]
                 q == b[n - i]
                 o == g[i]
      <3>1. p \in Seq(B) /\ q \in Seq(B) /\ o \in Seq(B)
        BY <2>4
      <3> HIDE DEF p, q, o
      <3>2. (p \o q) \o o = p \o (q \o o)
        <4>1. \A u, v, w \in Seq(B) : (u \o v) \o w = u \o (v \o w)
          BY Associative, SMTT(60)
        <4>2. QED
          BY <3>1, <4>1
      <3>3. QED
        BY <3>2, Zenon DEF p, q, o
    <2>7. f[n] = f[n - (i + 1)] \o g[i + 1]
      BY <2>3, <2>5, <2>6, Zenon
    <2>8. QED
      BY <2>1, <2>7 DEF S
  <1> HIDE DEF S
  <1>9. \A i \in 0..n : i \in S
    BY <1>7, <1>8, Along
  <1>10. f[n] = f[0] \o after[0]
    <2>1. n \in S
      BY <1>9
    <2>2. f[n] = f[n - n] \o g[n]
      BY <2>1 DEF S
    <2>3. n - n = 0 /\ n - 0 = n /\ 0 \in 0..n
      OBVIOUS
    <2>4. QED
      BY <1>4, <2>2, <2>3
  <1>11. \A j \in 1..n : after[j - 1] = b[j] \o after[j]
    BY <1>6
  <1>12. QED
    <2>1. after \in [0..n -> Seq(B)]
      BY <1>4
    <2>2. Remains(after, n, f, b, B)
      BY <1>5, <1>10, <1>11, <2>1 DEF Remains
    <2>3. QED
      BY <2>2

LEMMA RemainsOf ==
  ASSUME NEW B, NEW n \in Nat, NEW f \in [0..n -> Seq(B)], NEW b \in [1..n -> Seq(B)],
         Grows(f, n, b)
  PROVE  \E r : Remains(r, n, f, b, B)
  <1>1. \E g : Stacked(g, n, b, B)
    BY Stacking, Zenon
  <1>2. PICK g : Stacked(g, n, b, B)
    BY <1>1
  <1>3. \E r : Remains(r, n, f, b, B)
    BY <1>2, Suffixing, Zenon
  <1>4. QED
    BY <1>3

LEMMA Listed ==
  ASSUME NEW S, NEW l \in Seq(S)
  PROVE  Len(l) \in Nat /\ \A j \in 1..Len(l) : l[j] \in S
  OBVIOUS

LEMMA OnesAndTwos ==
  ASSUME NEW B, NEW x \in B, NEW y \in B
  PROVE  <<x, y>> \in Seq(B) /\ <<y>> \in Seq(B)
  OBVIOUS

\* The texts put together on the way to that of SUBSCRIBE.
Texts(n, a, e, l) == CHOOSE g : g = [j \in 0..n |-> IF j = 0 THEN a ELSE g[j - 1] \o e \o l[j]]

Starting(f, n, a, e, l, B) ==
  /\ f \in [0..n -> Seq(B)] /\ f[0] = a
  /\ \A j \in 1..n : f[j] = f[j - 1] \o (e \o l[j])

LEMMA TextsAre ==
  ASSUME NEW B, NEW n \in Nat, NEW a \in Seq(B), NEW e \in Seq(B), NEW l,
         \A j \in 1..n : l[j] \in Seq(B)
  PROVE  Starting(Texts(n, a, e, l), n, a, e, l, B)
  <1> DEFINE Is(g) == g = [j \in 0..n |-> IF j = 0 THEN a ELSE g[j - 1] \o e \o l[j]]
             v == Texts(n, a, e, l)
             h == [j \in 1..n |-> [w \in Seq(B) |-> (w \o e) \o l[j]]]
  <1>3. ASSUME NEW j \in 1..n, NEW w \in Seq(B)
        PROVE  (w \o e) \o l[j] \in Seq(B) /\ (w \o e) \o l[j] = w \o (e \o l[j])
    <2> DEFINE x == l[j]
    <2>0. x \in Seq(B)
      OBVIOUS
    <2> HIDE DEF x
    <2>1. w \o e \in Seq(B)
      BY Joint
    <2>2. (w \o e) \o x \in Seq(B)
      BY <2>0, <2>1, Joint
    <2>3. (w \o e) \o x = w \o (e \o x)
      BY <2>0, Associative
    <2>4. QED
      BY <2>2, <2>3 DEF x
  <1>4. h \in [1..n -> [Seq(B) -> Seq(B)]]
    BY <1>3
  <1>5. PICK g : g \in [0..n -> Seq(B)] /\ g[0] = a /\ \A j \in 1..n : g[j] = h[j][g[j - 1]]
    <2> HIDE DEF h
    <2>1. \E g : Iterates(g, n, Seq(B), a, h)
      BY <1>4, Iteration, Zenon
    <2>2. QED
      BY <2>1 DEF Iterates
  <1>6. ASSUME NEW j \in 1..n, NEW w \in Seq(B)
        PROVE  h[j][w] = (w \o e) \o l[j]
    OBVIOUS
  <1> HIDE DEF h
  <1>7. Is(g)
    <2>1. \A j \in 1..n : j - 1 \in 0..n
      OBVIOUS
    <2>2. \A j \in 1..n : g[j] = g[j - 1] \o e \o l[j]
      BY <1>5, <1>6, <2>1
    <2>3. \A j \in 0..n : g[j] = IF j = 0 THEN a ELSE g[j - 1] \o e \o l[j]
      <3>1. \A j \in 0..n : j # 0 => j \in 1..n
        OBVIOUS
      <3>2. QED
        BY <1>5, <2>2, <3>1
    <2>4. QED
      BY <1>5, <2>3
  <1>8. Is(v)
    <2> HIDE DEF Is
    <2>1. v = CHOOSE f : Is(f)
      BY Zenon DEF Texts, Is
    <2> HIDE DEF v
    <2>2. QED
      BY <1>7, <2>1, Zenon
  <1> HIDE DEF v
  <1>9. /\ v = [j \in 0..n |-> v[j]] /\ v[0] = a
        /\ \A j \in 1..n : v[j] = v[j - 1] \o e \o l[j]
    <2>1. \A j \in 0..n : v[j] = IF j = 0 THEN a ELSE v[j - 1] \o e \o l[j]
      BY <1>8
    <2>2. 0 \in 0..n /\ \A j \in 1..n : j \in 0..n /\ j # 0
      OBVIOUS
    <2>3. v = [j \in 0..n |-> v[j]]
      BY <1>8
    <2>4. QED
      BY <2>1, <2>2, <2>3
  <1> HIDE DEF Is
  <1>10. v \in [0..n -> Seq(B)]
    <2>1. \A j \in 1..n : v[j - 1] \in Seq(B) => v[j] = h[j][v[j - 1]]
      BY <1>6, <1>9
    <2>2. Unfolds(v, n, Seq(B), a, h)
      BY <1>9, <2>1, Zenon DEF Unfolds
    <2>3. QED
      BY <1>4, <2>2, Iterated, Zenon
  <1>11. \A j \in 1..n : v[j] = v[j - 1] \o (e \o l[j])
    <2>1. \A j \in 1..n : v[j - 1] \in Seq(B)
      <3>1. \A j \in 1..n : j - 1 \in 0..n
        OBVIOUS
      <3>2. QED
        BY <1>10, <3>1
    <2>2. QED
      BY <1>3, <1>9, <2>1
  <1>12. QED
    BY <1>9, <1>10, <1>11, Zenon DEF v, Starting

LEMMA SubscribeFormatIs ==
  ASSUME NEW B, "SUBSCRIBE" \in B, " " \in B, NEW l \in Seq(Seq(B))
  PROVE  \E f : /\ Starting(f, Len(l), <<"SUBSCRIBE", " ">>, <<" ">>, l, B)
                /\ SubscribeFormat(l) = f[Len(l)]
  <1> DEFINE n == Len(l)
             a == <<"SUBSCRIBE", " ">>
             e == <<" ">>
  <1>1. a \in Seq(B) /\ e \in Seq(B)
    BY OnesAndTwos, Zenon
  <1>2. n \in Nat /\ \A j \in 1..n : l[j] \in Seq(B)
    BY Listed, Zenon
  <1>3. SubscribeFormat(l) = Texts(n, a, e, l)[n]
    BY Zenon DEF SubscribeFormat, Texts
  <1> HIDE DEF n, a, e
  <1>4. Starting(Texts(n, a, e, l), n, a, e, l, B)
    BY <1>1, <1>2, TextsAre
  <1>5. QED
    BY <1>3, <1>4, Zenon DEF n, a, e

LEMMA FromHere ==
  ASSUME NEW B, NEW d \in Seq(B), NEW k \in 1..Len(d)
  PROVE  /\ SubSeq(d, k, Len(d)) # <<>> /\ SubSeq(d, k, Len(d))[1] = d[k]
         /\ Tail(SubSeq(d, k, Len(d))) = SubSeq(d, k + 1, Len(d))
  <1> DEFINE n == Len(d)
             s == SubSeq(d, k, n)
             t == SubSeq(d, k + 1, n)
  <1>1. n \in Nat /\ k \in 1..n
    OBVIOUS
  <1>2. s \in Seq(B) /\ Len(s) = n + 1 - k /\ \A i \in 1..n + 1 - k : s[i] = d[k + i - 1]
    <2> HIDE DEF n
    <2>1. QED
      BY <1>1 DEF n
  <1>3. t \in Seq(B) /\ Len(t) = n - k /\ \A i \in 1..n - k : t[i] = d[k + i]
    <2>1. Len(t) = n - k /\ t \in Seq(B)
      BY <1>1
    <2>2. ASSUME NEW i \in 1..n - k PROVE t[i] = d[k + i]
      <3>1. (k + 1) + i - 1 = k + i /\ i \in 1..(n + 1 - (k + 1))
        BY <1>1
      <3>2. t[i] = d[(k + 1) + i - 1]
        BY <1>1, <3>1
      <3>3. QED
        BY <3>1, <3>2
    <2>3. QED
      BY <2>1, <2>2
  <1> HIDE DEF n, s, t
  <1>4. s # <<>> /\ s[1] = d[k]
    <2>1. 1 \in 1..n + 1 - k /\ k + 1 - 1 = k
      BY <1>1
    <2>2. s[1] = d[k]
      BY <1>2, <2>1
    <2>3. QED
      BY <1>1, <1>2, <2>2
  <1>5. Tail(s) = t
    <2> DEFINE w == Tail(s)
    <2>1. w \in Seq(B) /\ Len(w) = n - k /\ \A i \in 1..n - k : w[i] = s[i + 1]
      BY <1>1, <1>2, <1>4
    <2> HIDE DEF w
    <2>2. ASSUME NEW i \in 1..n - k PROVE w[i] = t[i]
      <3>1. i + 1 \in 1..n + 1 - k /\ k + (i + 1) - 1 = k + i
        BY <1>1
      <3>2. s[i + 1] = d[k + i]
        BY <1>2, <3>1
      <3>3. QED
        BY <1>3, <2>1, <3>2
    <2>3. w = t
      BY <1>3, <2>1, <2>2
    <2>4. QED
      BY <2>3 DEF w
  <1>6. QED
    BY <1>4, <1>5 DEF n, s, t

LEMMA UpToHere ==
  ASSUME NEW B, NEW x \in Seq(B), NEW k \in 1..Len(x)
  PROVE  Append(SubSeq(x, 1, k - 1), x[k]) = SubSeq(x, 1, k)
  <1> DEFINE s == SubSeq(x, 1, k - 1)
             t == SubSeq(x, 1, k)
             w == Append(s, x[k])
  <1>1. Len(x) \in Nat /\ k - 1 \in 0..Len(x) /\ x[k] \in B
    OBVIOUS
  <1>2. s \in Seq(B) /\ Len(s) = k - 1 /\ \A i \in 1..k - 1 : s[i] = x[i]
    BY <1>1
  <1>3. t \in Seq(B) /\ Len(t) = k /\ \A i \in 1..k : t[i] = x[i]
    BY <1>1
  <1> HIDE DEF s, t
  <1>4. w \in Seq(B) /\ Len(w) = k /\ w[k] = x[k] /\ \A i \in 1..k - 1 : w[i] = s[i]
    BY <1>1, <1>2
  <1> HIDE DEF w
  <1>5. \A i \in 1..k : w[i] = t[i]
    BY <1>1, <1>2, <1>3, <1>4
  <1>6. w = t
    BY <1>3, <1>4, <1>5
  <1>7. QED
    BY <1>6 DEF s, t, w

LEMMA WholeAndNone ==
  ASSUME NEW B, NEW x \in Seq(B)
  PROVE  SubSeq(x, 1, Len(x)) = x /\ SubSeq(x, 1, 0) = <<>> /\ <<>> \o x = x /\ x \o <<>> = x
  OBVIOUS

LEMMA Lengths ==
  ASSUME NEW B, NEW x \in Seq(B)
  PROVE  Len(x) \in Nat /\ (x # <<>> => Len(x) > 0)
  OBVIOUS

\* What Plain says of each symbol.
Word(x) == x # <<>> /\ \A i \in 1..Len(x) : x[i] # " " /\ x[i] # "%"

LEMMA PlainIsWord ==
  ASSUME NEW x, Plain(x)
  PROVE  Word(x)
  BY DEF Plain, Word, Contains

\* Len(x) rounds go through the name x.
LEMMA Named ==
  ASSUME NEW B, NEW x \in Seq(B), Word(x), NEW y \in Seq(B), NEW ap, NEW v
  PROVE  Runs(Between(x \o y, ap, v), Len(x), Within(y, ap, x, v))
  <1> DEFINE n == Len(x)
             d == x \o y
             D(k) == SubSeq(d, k, Len(d))
             U(k) == SubSeq(x, 1, k)
             g == [k \in 0..n |-> IF k = 0 THEN Between(d, ap, v)
                                  ELSE Within(D(k + 1), ap, U(k), v)]
  <1>1. d \in Seq(B) /\ JoinOf(d, x, y)
    BY Joining, Zenon
  <1> HIDE DEF d
  <1>2. /\ n \in Nat /\ n > 0 /\ Len(d) \in Nat /\ Len(d) = n + Len(y) /\ Len(y) \in Nat
        /\ \A i \in 1..n : d[i] = x[i] /\ i \in 1..Len(d)
        /\ \A i \in 1..Len(y) : d[n + i] = y[i]
    <2>1. n \in Nat /\ n > 0 /\ Len(d) \in Nat /\ Len(y) \in Nat
      <3>1. x # <<>>
        BY DEF Word
      <3> HIDE DEF D, U, g
      <3>2. QED
        BY <1>1, <3>1, Lengths, Zenon
    <2> HIDE DEF n
    <2>2. /\ Len(d) = n + Len(y) /\ \A i \in 1..n : d[i] = x[i]
          /\ \A i \in 1..Len(y) : d[n + i] = y[i]
      BY <1>1, Zenon DEF JoinOf, n
    <2>3. \A i \in 1..n : i \in 1..Len(d)
      BY <2>1, <2>2
    <2>4. QED
      BY <2>1, <2>2, <2>3
  <1>3. D(1) = d /\ U(0) = <<>> /\ U(n) = x
    BY <1>1, WholeAndNone, Zenon
  <1>4. D(n + 1) = y
    <2>1. PartAt(d, n, y)
      BY <1>2 DEF PartAt
    <2>2. SubSeq(d, n + 1, n + Len(y)) = y
      BY <1>1, <2>1, PartIs, Zenon
    <2> HIDE DEF n
    <2>3. QED
      BY <1>2, <2>2
  <1>5. ASSUME NEW k \in 1..n
        PROVE  StartsPlain(D(k)) /\ Tail(D(k)) = D(k + 1) /\ D(k)[1] = x[k]
               /\ Append(U(k - 1), x[k]) = U(k)
    <2>1. k \in 1..Len(d) /\ k \in 1..Len(x)
      BY <1>2
    <2>2. D(k) # <<>> /\ D(k)[1] = d[k] /\ Tail(D(k)) = D(k + 1)
      BY <1>1, <2>1, FromHere, Zenon
    <2>3. Append(U(k - 1), x[k]) = U(k)
      BY <2>1, UpToHere, Zenon
    <2>4. d[k] = x[k] /\ x[k] # " " /\ x[k] # "%"
      BY <1>2 DEF Word
    <2> HIDE DEF D, U, n
    <2>5. QED
      BY <2>2, <2>3, <2>4 DEF StartsPlain
  <1>6. g[0] = Between(d, ap, v) /\ \A k \in 1..n : g[k] = Within(D(k + 1), ap, U(k), v)
    BY <1>2
  <1> HIDE DEF D, U, g, n
  <1>7. ASSUME NEW k \in 1..n PROVE g[k] = Scan(g[k - 1])
    <2>1. CASE k = 1
      <3>1. StartsPlain(D(1)) /\ Tail(D(1)) = D(k + 1) /\ D(1)[1] = x[1]
            /\ Append(U(k - 1), x[1]) = U(k)
        BY <1>5, <2>1
      <3>2. U(k - 1) = <<>>
        BY <1>3, <2>1
      <3>3. StartsPlain(d) /\ Tail(d) = D(k + 1) /\ d[1] = x[1] /\ Append(<<>>, d[1]) = U(k)
        BY <1>3, <3>1, <3>2
      <3>4. Scan(Between(d, ap, v)) = Within(Tail(d), ap, Append(<<>>, d[1]), v)
        BY <3>3, SymbolBegins, Zenon
      <3>5. g[k - 1] = Between(d, ap, v)
        BY <1>6, <2>1
      <3>6. g[k] = Within(D(k + 1), ap, U(k), v)
        BY <1>6
      <3>7. QED
        BY <3>3, <3>4, <3>5, <3>6, Zenon
    <2>2. CASE k # 1
      <3>1. k - 1 \in 1..n /\ (k - 1) + 1 = k
        BY <1>2, <2>2
      <3>2. g[k - 1] = Within(D(k), ap, U(k - 1), v)
        BY <1>6, <3>1
      <3>3. StartsPlain(D(k)) /\ Tail(D(k)) = D(k + 1) /\ D(k)[1] = x[k]
            /\ Append(U(k - 1), x[k]) = U(k)
        BY <1>5
      <3>4. Scan(Within(D(k), ap, U(k - 1), v)) = Within(Tail(D(k)), ap, Append(U(k - 1), D(k)[1]), v)
        BY <3>3, SymbolGoesOn, Zenon
      <3>5. g[k] = Within(D(k + 1), ap, U(k), v)
        BY <1>6
      <3>6. QED
        BY <3>2, <3>3, <3>4, <3>5, Zenon
    <2>3. QED
      BY <2>1, <2>2
  <1>8. g[n] = Within(y, ap, x, v)
    <2>1. n \in 1..n
      BY <1>2
    <2>2. g[n] = Within(D(n + 1), ap, U(n), v)
      BY <1>6, <2>1
    <2>3. QED
      BY <1>3, <1>4, <2>2, Zenon
  <1>9. \A k \in 1..n : g[k] = Scan(g[k - 1])
    BY <1>7
  <1>10. Runs(Between(d, ap, v), n, Within(y, ap, x, v))
    BY <1>6, <1>8, <1>9 DEF Runs
  <1>11. QED
    BY <1>10 DEF d, n

\* JoinOf a blank, a name is read as the next argument.
LEMMA NextNamed ==
  ASSUME NEW B, " " \in B, NEW x \in Seq(B), Word(x), NEW y \in Seq(B), NEW ap, NEW u, NEW v
  PROVE  /\ Runs(Within(<<" ">> \o (x \o y), ap, u, v), 1 + Len(x), Within(y, ap, x, Append(v, u)))
         /\ Runs(Between(<<" ">> \o (x \o y), ap, v), 1 + Len(x), Within(y, ap, x, v))
  <1> DEFINE z == x \o y
             e == " "
             d == <<e>> \o z
  <1>1. z \in Seq(B)
    BY Joint, Zenon
  <1>2. e \in B
    OBVIOUS
  <1>3. \A w : Runs(Between(z, ap, w), Len(x), Within(y, ap, x, w))
    BY Named, Zenon
  <1>4. Len(x) \in Nat /\ 1 \in Nat
    <2>1. 1 \in Nat
      OBVIOUS
    <2>2. QED
      BY <2>1, Lengths, Zenon
  <1> HIDE DEF z, e
  <1>5. d # <<>> /\ d[1] = e /\ Tail(d) = z
    BY <1>1, <1>2, FirstOf, Zenon
  <1> HIDE DEF d
  <1>6. Starts(d, " ") /\ Tail(d) = z
    BY <1>5, Zenon DEF Starts, e
  <1>7. Runs(Within(d, ap, u, v), 1 + Len(x), Within(y, ap, x, Append(v, u)))
    <2>1. Scan(Within(d, ap, u, v)) = Between(z, ap, Append(v, u))
      BY <1>6, BlankEnds, Zenon
    <2>2. Runs(Within(d, ap, u, v), 1, Between(z, ap, Append(v, u)))
      BY <2>1, OneRound
    <2>3. Runs(Between(z, ap, Append(v, u)), Len(x), Within(y, ap, x, Append(v, u)))
      BY <1>3
    <2>4. QED
      BY <1>4, <2>2, <2>3, MoreRounds, Zenon
  <1>8. Runs(Between(d, ap, v), 1 + Len(x), Within(y, ap, x, v))
    <2>1. Scan(Between(d, ap, v)) = Between(z, ap, v)
      BY <1>6, BlankStays, Zenon
    <2>2. Runs(Between(d, ap, v), 1, Between(z, ap, v))
      BY <2>1, OneRound
    <2>3. Runs(Between(z, ap, v), Len(x), Within(y, ap, x, v))
      BY <1>3
    <2>4. QED
      BY <1>4, <2>2, <2>3, MoreRounds, Zenon
  <1>9. QED
    BY <1>7, <1>8, Zenon DEF d, e, z

\* The arguments before the j-th name, and with it.
LEMMA ListGrows ==
  ASSUME NEW S, NEW h \in Seq(S), NEW l \in Seq(S), NEW j \in 1..Len(l)
  PROVE  Append(h \o SubSeq(l, 1, j - 1), l[j]) = h \o SubSeq(l, 1, j)
  <1> DEFINE s == SubSeq(l, 1, j - 1)
  <1>1. s \in Seq(S) /\ l[j] \in S
    OBVIOUS
  <1>2. Append(s, l[j]) = SubSeq(l, 1, j)
    BY UpToHere, Zenon
  <1> HIDE DEF s
  <1>3. \A a \in S : Append(h \o s, a) = h \o Append(s, a)
    BY <1>1, SMTT(60)
  <1>4. QED
    BY <1>1, <1>2, <1>3 DEF s

\* After some rounds the j-th of the names l is read, and r[j] is what is left of N symbols.
ReadUpTo(start, ap, H, l, r, N, j) ==
  \E m \in Nat : /\ m + Len(r[j]) = N
                 /\ Runs(start, m, Within(r[j], ap, l[j], H \o SubSeq(l, 1, j - 1)))

\* The n names l are to come behind H.
Names(l, n, H, B) ==
  /\ " " \in B /\ l \in Seq(Seq(B)) /\ H \in Seq(Seq(B)) /\ n = Len(l)
  /\ \A j \in 1..n : Word(l[j])

\* r[0] holds them, each behind a blank.
Separated(r, n, l, B) ==
  /\ r \in [0..n -> Seq(B)]
  /\ \A j \in 1..n : r[j - 1] = <<" ">> \o (l[j] \o r[j])

Begins(start, k, r, ap, H, N) ==
  k + Len(r[0]) = N /\ Runs(start, k, Between(r[0], ap, H))

LEMMA NamesRead ==
  ASSUME NEW B, NEW l, NEW n \in Nat, NEW H, Names(l, n, H, B), NEW r, Separated(r, n, l, B),
         NEW ap, NEW start, NEW N \in Nat, NEW k \in Nat, Begins(start, k, r, ap, H, N)
  PROVE  \A j \in 1..n : ReadUpTo(start, ap, H, l, r, N, j)
  <1> DEFINE V(j) == H \o SubSeq(l, 1, j)
             P(j) == ReadUpTo(start, ap, H, l, r, N, j)
             b == " "
             S == {j \in 0..n : j > 0 => P(j)}
  <1> HIDE DEF b
  <1>0. /\ l \in Seq(Seq(B)) /\ H \in Seq(Seq(B)) /\ n = Len(l)
        /\ \A j \in 1..n : Word(l[j])
    BY Zenon DEF Names
  <1>1. b \in B /\ \A j \in 1..n : r[j - 1] = <<b>> \o (l[j] \o r[j])
    BY Zenon DEF Names, Separated, b
  <1>01. r \in [0..n -> Seq(B)]
    BY Zenon DEF Separated
  <1>02. k + Len(r[0]) = N /\ Runs(start, k, Between(r[0], ap, H))
    BY Zenon DEF Begins
  <1>2. ASSUME NEW j \in 1..n
        PROVE  /\ l[j] \in Seq(B) /\ r[j] \in Seq(B) /\ r[j - 1] \in Seq(B) /\ Word(l[j])
               /\ Len(l[j]) \in Nat /\ Len(r[j]) \in Nat
               /\ Len(r[j - 1]) = 1 + Len(l[j]) + Len(r[j])
    <2>1. l[j] \in Seq(B) /\ Word(l[j])
      BY <1>0, Listed
    <2>2. r[j] \in Seq(B) /\ r[j - 1] \in Seq(B)
      <3>1. j \in 0..n /\ j - 1 \in 0..n
        OBVIOUS
      <3>2. QED
        BY <3>1, <1>01
    <2>3. l[j] \o r[j] \in Seq(B) /\ Len(l[j] \o r[j]) = Len(l[j]) + Len(r[j])
      BY <2>1, <2>2, Joint, Zenon
    <2>4. Len(r[j - 1]) = 1 + Len(l[j] \o r[j])
      <3> DEFINE z == l[j] \o r[j]
      <3>1. z \in Seq(B) /\ b \in B
        BY <1>1, <2>3
      <3>2. r[j - 1] = <<b>> \o z
        BY <1>1
      <3> HIDE DEF z
      <3>3. Len(<<b>> \o z) = 1 + Len(z)
        BY <3>1, FirstOf, Zenon
      <3>4. QED
        BY <3>2, <3>3 DEF z
    <2>5. Len(l[j]) \in Nat /\ Len(r[j]) \in Nat
      BY <2>1, <2>2, Lengths, Zenon
    <2>6. Len(r[j - 1]) = 1 + Len(l[j]) + Len(r[j])
      <3> DEFINE p == Len(l[j])
                 q == Len(r[j])
                 o == Len(r[j - 1])
                 d == Len(l[j] \o r[j])
      <3>1. p \in Nat /\ q \in Nat /\ d = p + q /\ o = 1 + d
        BY <2>3, <2>4, <2>5, Zenon
      <3> HIDE DEF p, q, o, d
      <3>2. o = 1 + p + q
        BY <3>1
      <3>3. QED
        BY <3>2, Zenon DEF o, p, q
    <2>7. QED
      BY <2>1, <2>2, <2>5, <2>6
  <1>3. V(0) = H
    <2>1. SubSeq(l, 1, 0) = <<>> /\ H \o <<>> = H
      BY <1>0, WholeAndNone, Zenon
    <2>2. QED
      BY <2>1
  <1>4. ASSUME NEW j \in 1..n PROVE Append(V(j - 1), l[j]) = V(j)
    <2>1. j \in 1..Len(l)
      BY <1>0
    <2>2. QED
      BY <1>0, <2>1, ListGrows, Zenon
  <1> HIDE DEF V
  <1>5. ASSUME NEW j \in 1..n, NEW m \in Nat, NEW s, Runs(start, m, s),
               m + Len(r[j - 1]) = N,
               Runs(s, 1 + Len(l[j]), Within(r[j], ap, l[j], V(j - 1)))
        PROVE  P(j)
    <2>1. 1 + Len(l[j]) \in Nat /\ m + (1 + Len(l[j])) \in Nat
          /\ (m + (1 + Len(l[j]))) + Len(r[j]) = N
      <3> DEFINE p == Len(l[j])
                 q == Len(r[j])
                 o == Len(r[j - 1])
      <3>1. p \in Nat /\ q \in Nat /\ o = 1 + p + q /\ m + o = N
        BY <1>2, <1>5, Zenon
      <3> HIDE DEF p, q, o, P
      <3>2. 1 + p \in Nat /\ m + (1 + p) \in Nat /\ (m + (1 + p)) + q = N
        BY <3>1
      <3>3. QED
        BY <3>2, Zenon DEF p, q
    <2>2. Runs(start, m + (1 + Len(l[j])), Within(r[j], ap, l[j], V(j - 1)))
      BY <1>5, <2>1, MoreRounds, Zenon
    <2> DEFINE M == m + (1 + Len(l[j]))
    <2>3. M \in Nat /\ M + Len(r[j]) = N /\ Runs(start, M, Within(r[j], ap, l[j], V(j - 1)))
      BY <2>1, <2>2
    <2> HIDE DEF M
    <2>4. QED
      BY <2>3, Zenon DEF ReadUpTo, V
  <1> HIDE DEF P
  <1>6. 0 \in S
    OBVIOUS
  <1>7. ASSUME NEW j \in 0..n, j < n, j \in S PROVE j + 1 \in S
    <2> DEFINE i == j + 1
    <2>1. i \in 1..n /\ i \in 0..n /\ i - 1 = j
      BY <1>7
    <2> HIDE DEF i
    <2>2. l[i] \in Seq(B) /\ r[i] \in Seq(B) /\ Word(l[i]) /\ r[j] = <<b>> \o (l[i] \o r[i])
      BY <1>1, <1>2, <2>1
    <2>3. CASE j = 0
      <3>1. Runs(Between(<<b>> \o (l[i] \o r[i]), ap, H), 1 + Len(l[i]), Within(r[i], ap, l[i], H))
        BY <1>1, <2>2, NextNamed, Zenon DEF b
      <3>2. Runs(Between(r[0], ap, H), 1 + Len(l[i]), Within(r[i], ap, l[i], V(i - 1)))
        BY <1>3, <2>1, <2>2, <2>3, <3>1
      <3>3. k + Len(r[i - 1]) = N
        BY <1>02, <2>1, <2>3
      <3>4. P(i)
        BY <1>02, <1>5, <2>1, <3>2, <3>3
      <3>5. QED
        BY <2>1, <3>4 DEF i
    <2>4. CASE j # 0
      <3>1. j \in 1..n
        BY <2>4
      <3>2. P(j)
        BY <1>7, <3>1
      <3>3. PICK m \in Nat : m + Len(r[j]) = N /\ Runs(start, m, Within(r[j], ap, l[j], V(j - 1)))
        BY <3>2, Zenon DEF P, ReadUpTo, V
      <3>4. Append(V(j - 1), l[j]) = V(j)
        BY <1>4, <3>1
      <3>5. Runs(Within(<<b>> \o (l[i] \o r[i]), ap, l[j], V(j - 1)), 1 + Len(l[i]),
                 Within(r[i], ap, l[i], Append(V(j - 1), l[j])))
        BY <1>1, <2>2, NextNamed, Zenon DEF b
      <3>6. Runs(Within(r[j], ap, l[j], V(j - 1)), 1 + Len(l[i]),
                 Within(r[i], ap, l[i], V(i - 1)))
        BY <2>1, <2>2, <3>4, <3>5
      <3>7. m + Len(r[i - 1]) = N
        BY <2>1, <3>3
      <3>8. P(i)
        BY <1>5, <2>1, <3>3, <3>6, <3>7
      <3>9. QED
        BY <2>1, <3>8 DEF i
    <2>5. QED
      BY <2>3, <2>4
  <1> HIDE DEF S
  <1>8. \A j \in 0..n : j \in S
    BY <1>6, <1>7, Along
  <1>9. ASSUME NEW j \in 1..n PROVE P(j)
    <2>1. j \in 0..n /\ j > 0
      OBVIOUS
    <2>2. j \in S
      BY <1>8, <2>1
    <2>3. QED
      BY <2>1, <2>2 DEF S
  <1>10. QED
    BY <1>9 DEF P

LEMMA Counts ==
  /\ 1 \in Nat /\ 2 \in Nat /\ 1 + 1 = 2
  /\ \A n \in Nat : 0 \in 0..n /\ (n > 0 => n \in 1..n) /\ 2 + n \in Nat
  /\ \A n \in Nat : \A j \in 1..n : j \in 0..n
  OBVIOUS

LEMMA EmptyLen == \A x : x = <<>> => Len(x) = 0
  OBVIOUS

LEMMA OneIsAll == \A m, n \in Nat : \A k : k = 0 /\ m + k = n => m \in 0..n
  OBVIOUS

LEMMA OnePlusOne ==
  ASSUME NEW x, NEW y
  PROVE  <<x>> \o <<y>> = <<x, y>>
  <1> DEFINE S == {x, y}
             p == <<x>>
             q == <<y>>
             l == p \o q
             r == <<x, y>>
  <1>1. p \in Seq(S) /\ q \in Seq(S) /\ r \in Seq(S)
    OBVIOUS
  <1>2. Len(p) = 1 /\ p[1] = x /\ Len(q) = 1 /\ q[1] = y /\ Len(r) = 2 /\ r[1] = x /\ r[2] = y
    OBVIOUS
  <1> HIDE DEF S, p, q, r
  <1>3. l \in Seq(S) /\ JoinOf(l, p, q)
    BY <1>1, Joining, Zenon
  <1> HIDE DEF l
  <1>4. Len(l) = 2 /\ l[1] = x /\ l[2] = y
    BY <1>2, <1>3 DEF JoinOf
  <1>5. l = r
    BY <1>1, <1>2, <1>3, <1>4
  <1>6. QED
    BY <1>5 DEF l, p, q, r

Regrouped(u, v, w) == (u \o v) \o w = u \o (v \o w)

LEMMA Regroups ==
  ASSUME NEW B, NEW u \in Seq(B), NEW v \in Seq(B), NEW w \in Seq(B)
  PROVE  Regrouped(u, v, w)
  BY Associative DEF Regrouped

Unwrapped(x, y, z) == <<x, y>> \o z = <<x>> \o (<<y>> \o z)

LEMMA TwoInOne ==
  ASSUME NEW B, NEW x \in B, NEW y \in B, NEW z \in Seq(B)
  PROVE  Unwrapped(x, y, z)
  <1> DEFINE p == <<x>>
             q == <<y>>
             w == <<x, y>>
  <1>1. p \in Seq(B) /\ q \in Seq(B)
    BY OnesAndTwos, Zenon
  <1>2. p \o q = w
    BY OnePlusOne, Zenon
  <1> HIDE DEF p, q, w
  <1>3. (p \o q) \o z = p \o (q \o z)
    BY <1>1, Associative
  <1>4. w \o z = p \o (q \o z)
    BY <1>2, <1>3
  <1>5. QED
    BY <1>4, Zenon DEF p, q, w, Unwrapped

LEMMA TwoLonger ==
  ASSUME NEW B, NEW x \in B, NEW y \in B, NEW z \in Seq(B)
  PROVE  Len(<<x, y>> \o z) = 2 + Len(z)
  <1> DEFINE w == <<x, y>>
  <1>1. w \in Seq(B)
    BY OnesAndTwos, Zenon
  <1>2. Len(w) = 2
    OBVIOUS
  <1> HIDE DEF w
  <1>3. Len(w \o z) = Len(w) + Len(z)
    BY <1>1, Joint, Zenon
  <1>4. QED
    BY <1>2, <1>3 DEF w

\* The command itself is read in two rounds.
LEMMA Opened ==
  ASSUME NEW B, NEW x \in B, x # " ", x # "%", " " \in B, NEW z \in Seq(B), NEW ap
  PROVE  Runs(Between(<<x, " ">> \o z, ap, <<>>), 2, Between(z, ap, <<<<x>>>>))
  <1> DEFINE e == " "
             c == <<x, e>> \o z
             d == <<e>> \o z
             u == <<x>>
             v == <<<<x>>>>
  <1>1. e \in B
    OBVIOUS
  <1>2. Append(<<>>, x) = u /\ Append(<<>>, u) = v
    BY Appended, Zenon
  <1>3. x # e /\ x # "%"
    OBVIOUS
  <1>4. 1 \in Nat /\ 1 + 1 = 2
    BY Counts, Zenon
  <1> HIDE DEF e
  <1>5. c = <<x>> \o d /\ d \in Seq(B)
    <2>1. d \in Seq(B)
      BY <1>1, FirstOf, Zenon
    <2>2. c = <<x>> \o d
      <3>1. Unwrapped(x, e, z)
        BY <1>1, TwoInOne, Zenon
      <3>2. QED
        BY <3>1 DEF Unwrapped
    <2>3. QED
      BY <2>1, <2>2, Zenon
  <1>6. d # <<>> /\ d[1] = e /\ Tail(d) = z
    BY <1>1, FirstOf, Zenon
  <1> HIDE DEF d
  <1>7. c # <<>> /\ c[1] = x /\ Tail(c) = d
    <2>1. <<x>> \o d # <<>> /\ (<<x>> \o d)[1] = x /\ Tail(<<x>> \o d) = d
      BY <1>5, FirstOf, Zenon
    <2> HIDE DEF c
    <2>2. QED
      BY <1>5, <2>1
  <1> HIDE DEF c, u, v
  <1>8. StartsPlain(c) /\ Starts(d, " ")
    BY <1>3, <1>6, <1>7, Zenon DEF StartsPlain, Starts, e
  <1>9. Scan(Between(c, ap, <<>>)) = Within(d, ap, u, <<>>)
    BY <1>2, <1>7, <1>8, SymbolBegins, Zenon
  <1>10. Scan(Within(d, ap, u, <<>>)) = Between(z, ap, v)
    BY <1>2, <1>6, <1>8, BlankEnds, Zenon
  <1>11. Runs(Between(c, ap, <<>>), 1, Within(d, ap, u, <<>>))
    BY <1>9, OneRound
  <1>12. Runs(Within(d, ap, u, <<>>), 1, Between(z, ap, v))
    BY <1>10, OneRound
  <1>13. Runs(Between(c, ap, <<>>), 1 + 1, Between(z, ap, v))
    BY <1>4, <1>11, <1>12, MoreRounds, Zenon
  <1>14. Runs(Between(c, ap, <<>>), 2, Between(z, ap, v))
    BY <1>4, <1>13, Zenon
  <1>15. QED
    BY <1>14, Zenon DEF c, v, e

\* The text of SUBSCRIBE, taken apart.
LEMMA SubscribeText ==
  ASSUME NEW B, "SUBSCRIBE" \in B, " " \in B, NEW l \in Seq(Seq(B))
  PROVE  \E r : /\ Separated(r, Len(l), l, B) /\ r[Len(l)] = <<>>
                /\ SubscribeFormat(l) = <<"SUBSCRIBE", " ">> \o r[0]
  <1> DEFINE n == Len(l)
             a == <<"SUBSCRIBE", " ">>
             e == <<" ">>
             b == [j \in 1..n |-> e \o l[j]]
  <1>1. a \in Seq(B) /\ e \in Seq(B)
    BY OnesAndTwos, Zenon
  <1>2. n \in Nat /\ \A j \in 1..n : l[j] \in Seq(B)
    BY Listed, Zenon
  <1>3. \E f : Starting(f, n, a, e, l, B) /\ SubscribeFormat(l) = f[n]
    BY SubscribeFormatIs, Zenon
  <1>4. \A j \in 1..n : b[j] = e \o l[j]
    BY Zenon
  <1> HIDE DEF n, a, e
  <1>5. b \in [1..n -> Seq(B)]
    <2>1. ASSUME NEW j \in 1..n PROVE e \o l[j] \in Seq(B)
      BY <1>1, <1>2, Joint
    <2>2. QED
      BY <2>1
  <1> HIDE DEF b
  <1>6. PICK f : Starting(f, n, a, e, l, B) /\ SubscribeFormat(l) = f[n]
    BY <1>3
  <1>7. /\ f \in [0..n -> Seq(B)] /\ f[0] = a
        /\ \A j \in 1..n : f[j] = f[j - 1] \o (e \o l[j])
    BY <1>6, Zenon DEF Starting
  <1>8. Grows(f, n, b)
    BY <1>4, <1>7 DEF Grows
  <1>9. \E r : Remains(r, n, f, b, B)
    BY <1>2, <1>5, <1>7, <1>8, RemainsOf, Zenon
  <1>10. PICK r : Remains(r, n, f, b, B)
    BY <1>9
  <1>11. /\ r \in [0..n -> Seq(B)] /\ r[n] = <<>> /\ f[n] = f[0] \o r[0]
         /\ \A j \in 1..n : r[j - 1] = b[j] \o r[j]
    BY <1>10, Zenon DEF Remains
  <1>12. ASSUME NEW j \in 1..n PROVE r[j - 1] = e \o (l[j] \o r[j])
    <2>1. l[j] \in Seq(B) /\ r[j] \in Seq(B)
      <3>1. j \in 0..n
        BY <1>2, Counts, Zenon
      <3>2. QED
        BY <1>2, <1>11, <3>1
    <2>2. r[j - 1] = (e \o l[j]) \o r[j]
      BY <1>4, <1>11
    <2>3. (e \o l[j]) \o r[j] = e \o (l[j] \o r[j])
      <3> DEFINE p == l[j]
                 q == r[j]
      <3> HIDE DEF p, q
      <3>1. e \in Seq(B) /\ p \in Seq(B) /\ q \in Seq(B)
        BY <1>1, <2>1 DEF p, q
      <3>2. (e \o p) \o q = e \o (p \o q)
        <4>1. Regrouped(e, p, q)
          BY <3>1, Regroups, Zenon
        <4>2. QED
          BY <4>1 DEF Regrouped
      <3>3. QED
        BY <3>2, Zenon DEF p, q
    <2>4. QED
      BY <2>2, <2>3, Zenon
  <1>13. Separated(r, n, l, B)
    BY <1>11, <1>12, Zenon DEF Separated, e
  <1>14. SubscribeFormat(l) = a \o r[0]
    BY <1>6, <1>7, <1>11
  <1>15. QED
    BY <1>11, <1>13, <1>14, Zenon DEF n, a

(***************************************************************************)
(* The text that bootWithPeers (TSPlasterController.m) and                 *)
(* subscribeToChannel: (TSRedisController.m) put together of the peers is  *)
(* taken as a format without values: when each name is one that a format   *)
(* takes literally, not empty and with no blank and no "%", the command    *)
(* has these names as its arguments, every one and in order.               *)
(***************************************************************************)
THEOREM NamesComeBack ==
  ASSUME NEW B, "SUBSCRIBE" \in B, " " \in B, NEW l \in Seq(Seq(B)), l # <<>>,
         \A j \in 1..Len(l) : Plain(l[j]), NEW ap
  PROVE  Argv(SubscribeFormat(l), ap) = <<<<"SUBSCRIBE">>>> \o l
  <1> DEFINE n == Len(l)
             s == "SUBSCRIBE"
             e == " "
             c == SubscribeFormat(l)
             H == <<<<s>>>>
             N == Len(c)
  <1>1. n \in Nat /\ n > 0
    BY Lengths, Zenon
  <1>2. s \in B /\ e \in B /\ s # " " /\ s # "%"
    OBVIOUS
  <1>3. \A j \in 1..n : Word(l[j])
    BY PlainIsWord
  <1>4. \E r : Separated(r, n, l, B) /\ r[n] = <<>> /\ c = <<s, e>> \o r[0]
    BY SubscribeText, Zenon
  <1>5. l \in Seq(Seq(B))
    OBVIOUS
  <1> HIDE DEF s
  <1>6. H \in Seq(Seq(B))
    <2>1. <<s>> \in Seq(B)
      BY <1>2, OnesAndTwos, Zenon
    <2>2. QED
      BY <2>1, OnesAndTwos, Zenon
  <1>7. Names(l, n, H, B)
    BY <1>2, <1>3, <1>5, <1>6, Zenon DEF Names, e
  <1>8. PICK r : Separated(r, n, l, B) /\ r[n] = <<>> /\ c = <<s, e>> \o r[0]
    BY <1>4
  <1>9. r[0] \in Seq(B) /\ Len(r[0]) \in Nat
    <2>1. r \in [0..n -> Seq(B)]
      BY <1>8, Zenon DEF Separated
    <2> HIDE DEF n
    <2>2. r[0] \in Seq(B)
      <3>1. 0 \in 0..n
        BY <1>1, Counts, Zenon
      <3>2. QED
        BY <2>1, <3>1, Zenon
    <2>3. QED
      BY <2>2, Lengths, Zenon
  <1>10. Runs(Between(c, ap, <<>>), 2, Between(r[0], ap, H))
    <2>1. Runs(Between(<<s, " ">> \o r[0], ap, <<>>), 2, Between(r[0], ap, <<<<s>>>>))
      BY <1>2, <1>9, Opened, Zenon DEF e
    <2>2. c = <<s, " ">> \o r[0]
      BY <1>8, Zenon DEF e
    <2> HIDE DEF c
    <2>3. QED
      BY <2>1, <2>2, Zenon DEF H
  <1>11. N = 2 + Len(r[0])
    <2> HIDE DEF c, e
    <2>1. Len(<<s, e>> \o r[0]) = 2 + Len(r[0])
      BY <1>2, <1>9, TwoLonger, Zenon
    <2>2. QED
      BY <1>8, <2>1, Zenon
  <1> DEFINE start == Between(c, ap, <<>>)
  <1> HIDE DEF e, c, H, n, N
  <1>12. N \in Nat /\ 2 \in Nat /\ n \in 1..n /\ 2 + Len(r[0]) = N
    BY <1>1, <1>9, <1>11, Counts, Zenon
  <1>13. Begins(start, 2, r, ap, H, N)
    BY <1>10, <1>12, Zenon DEF Begins
  <1>14. \A j \in 1..n : ReadUpTo(start, ap, H, l, r, N, j)
    BY <1>1, <1>7, <1>8, <1>12, <1>13, NamesRead, Zenon
  <1>15. PICK m \in Nat : m + Len(r[n]) = N
                          /\ Runs(start, m, Within(r[n], ap, l[n], H \o SubSeq(l, 1, n - 1)))
    <2>1. ReadUpTo(start, ap, H, l, r, N, n)
      BY <1>12, <1>14
    <2>2. QED
      BY <2>1, Zenon DEF ReadUpTo
  <1>16. r[n] = <<>>
    BY <1>8
  <1>17. m \in 0..N
    <2> DEFINE k == Len(r[n])
    <2>1. k = 0 /\ m + k = N /\ N \in Nat
      BY <1>12, <1>15, <1>16, EmptyLen, Zenon
    <2> HIDE DEF k
    <2>2. QED
      BY <2>1, OneIsAll, Zenon
  <1> DEFINE v == H \o SubSeq(l, 1, n - 1)
  <1>18. Runs(Between(c, ap, <<>>), m, Within(<<>>, ap, l[n], v))
    BY <1>15, <1>16
  <1> HIDE DEF v
  <1>19. Len(c) \in Nat /\ m \in 0..Len(c)
    BY <1>12, <1>17 DEF N
  <1>20. Argv(c, ap) = Append(v, l[n])
    BY <1>18, <1>19, ScannedAll
  <1>21. Append(v, l[n]) = H \o SubSeq(l, 1, n)
    <2>1. n \in 1..Len(l)
      BY <1>12 DEF n
    <2>2. QED
      BY <1>5, <1>6, <2>1, ListGrows, Zenon DEF v
  <1>22. SubSeq(l, 1, n) = l
    BY <1>5, WholeAndNone, Zenon DEF n
  <1>23. QED
    BY <1>20, <1>21, <1>22, Zenon DEF c, H, s

=============================================================================
