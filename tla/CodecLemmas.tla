------------------------------ MODULE CodecLemmas ------------------------------
(***************************************************************************)
(* What the operators of Codec compute, for bytes of any values and        *)
(* sequences of any length.                                                *)
(***************************************************************************)
EXTENDS Codec, WellFoundedInduction, TLAPS

(* The exclusive or of two bytes.                                          *)

Bit(a, k) == (a \div k) % 2

\* A number of eight bits.
Number(b0, b1, b2, b3, b4, b5, b6, b7) ==
  b0 + 2 * b1 + 4 * b2 + 8 * b3 + 16 * b4 + 32 * b5 + 64 * b6 + 128 * b7

LEMMA NumberBits ==
  ASSUME NEW b0 \in {0, 1}, NEW b1 \in {0, 1}, NEW b2 \in {0, 1}, NEW b3 \in {0, 1},
         NEW b4 \in {0, 1}, NEW b5 \in {0, 1}, NEW b6 \in {0, 1}, NEW b7 \in {0, 1},
         NEW n, n = b0 + 2 * b1 + 4 * b2 + 8 * b3 + 16 * b4 + 32 * b5 + 64 * b6 + 128 * b7
  PROVE  /\ n \in Byte
         /\ Bit(n, 1) = b0 /\ Bit(n, 2) = b1 /\ Bit(n, 4) = b2 /\ Bit(n, 8) = b3
         /\ Bit(n, 16) = b4 /\ Bit(n, 32) = b5 /\ Bit(n, 64) = b6 /\ Bit(n, 128) = b7
BY SMTT(60) DEF Bit, Byte

LEMMA ByteNumber ==
  ASSUME NEW n \in Byte
  PROVE  /\ \A k \in {1, 2, 4, 8, 16, 32, 64, 128} : Bit(n, k) \in {0, 1}
         /\ n = Bit(n, 1) + 2 * Bit(n, 2) + 4 * Bit(n, 4) + 8 * Bit(n, 8) + 16 * Bit(n, 16)
                  + 32 * Bit(n, 32) + 64 * Bit(n, 64) + 128 * Bit(n, 128)
BY SMTT(60) DEF Bit, Byte

Powers == {1, 2, 4, 8, 16, 32, 64, 128}

LEMMA SameBits ==
  ASSUME NEW a \in Byte, NEW b \in Byte, \A k \in Powers : Bit(a, k) = Bit(b, k)
  PROVE  a = b
<1>1. \A k \in Powers : Bit(a, k) \in {0, 1} /\ Bit(b, k) \in {0, 1}
  BY ByteNumber DEF Powers
<1> QED
  BY <1>1, ByteNumber DEF Powers

LEMMA XorBits ==
  ASSUME NEW a \in Byte, NEW b \in Byte
  PROVE  /\ Xor(a, b) \in Byte
         /\ \A k \in Powers : Bit(Xor(a, b), k) = IF Bit(a, k) = Bit(b, k) THEN 0 ELSE 1
<1> DEFINE x(k) == IF Bit(a, k) = Bit(b, k) THEN 0 ELSE 1
<1>1. \A k \in Powers : x(k) \in {0, 1}
  OBVIOUS
<1>2. Xor(a, b) = x(1) + 2 * x(2) + 4 * x(4) + 8 * x(8) + 16 * x(16) + 32 * x(32) + 64 * x(64)
                    + 128 * x(128)
  <2> DEFINE y(k) == IF (a \div k) % 2 = 1 /\ (b \div k) % 2 = 1 THEN k ELSE 0
  <2>1. /\ \A k \in {1, 2, 4, 8, 16, 32, 64, 128} : Bit(a, k) \in {0, 1}
        /\ \A k \in {1, 2, 4, 8, 16, 32, 64, 128} : Bit(b, k) \in {0, 1}
    BY ByteNumber
  <2>2. x(1) = Bit(a, 1) + Bit(b, 1) - 2 * y(1)
    BY <2>1 DEF Bit
  <2>3. 2 * x(2) = 2 * Bit(a, 2) + 2 * Bit(b, 2) - 2 * y(2)
    BY <2>1 DEF Bit
  <2>4. 4 * x(4) = 4 * Bit(a, 4) + 4 * Bit(b, 4) - 2 * y(4)
    BY <2>1 DEF Bit
  <2>5. 8 * x(8) = 8 * Bit(a, 8) + 8 * Bit(b, 8) - 2 * y(8)
    BY <2>1 DEF Bit
  <2>6. 16 * x(16) = 16 * Bit(a, 16) + 16 * Bit(b, 16) - 2 * y(16)
    BY <2>1 DEF Bit
  <2>7. 32 * x(32) = 32 * Bit(a, 32) + 32 * Bit(b, 32) - 2 * y(32)
    BY <2>1 DEF Bit
  <2>8. 64 * x(64) = 64 * Bit(a, 64) + 64 * Bit(b, 64) - 2 * y(64)
    BY <2>1 DEF Bit
  <2>9. 128 * x(128) = 128 * Bit(a, 128) + 128 * Bit(b, 128) - 2 * y(128)
    BY <2>1 DEF Bit
  <2>10. Xor(a, b) = a + b - 2 * (y(1) + y(2) + y(4) + y(8) + y(16) + y(32) + y(64) + y(128))
    BY DEF Xor, And
  <2>11. /\ a = Bit(a, 1) + 2 * Bit(a, 2) + 4 * Bit(a, 4) + 8 * Bit(a, 8) + 16 * Bit(a, 16)
                  + 32 * Bit(a, 32) + 64 * Bit(a, 64) + 128 * Bit(a, 128)
         /\ b = Bit(b, 1) + 2 * Bit(b, 2) + 4 * Bit(b, 4) + 8 * Bit(b, 8) + 16 * Bit(b, 16)
                  + 32 * Bit(b, 32) + 64 * Bit(b, 64) + 128 * Bit(b, 128)
    BY ByteNumber
  <2>12. /\ y(1) \in Int /\ y(2) \in Int /\ y(4) \in Int /\ y(8) \in Int
         /\ y(16) \in Int /\ y(32) \in Int /\ y(64) \in Int /\ y(128) \in Int
    OBVIOUS
  <2>13. /\ Bit(a, 1) \in Int /\ Bit(a, 2) \in Int /\ Bit(a, 4) \in Int /\ Bit(a, 8) \in Int
         /\ Bit(a, 16) \in Int /\ Bit(a, 32) \in Int /\ Bit(a, 64) \in Int /\ Bit(a, 128) \in Int
         /\ Bit(b, 1) \in Int /\ Bit(b, 2) \in Int /\ Bit(b, 4) \in Int /\ Bit(b, 8) \in Int
         /\ Bit(b, 16) \in Int /\ Bit(b, 32) \in Int /\ Bit(b, 64) \in Int /\ Bit(b, 128) \in Int
         /\ x(1) \in Int /\ x(2) \in Int /\ x(4) \in Int /\ x(8) \in Int
         /\ x(16) \in Int /\ x(32) \in Int /\ x(64) \in Int /\ x(128) \in Int
    BY <2>1
  <2> HIDE DEF x, y
  <2> DEFINE al == Bit(a, 1) + 2 * Bit(a, 2) + 4 * Bit(a, 4) + 8 * Bit(a, 8)
             ah == 16 * Bit(a, 16) + 32 * Bit(a, 32) + 64 * Bit(a, 64) + 128 * Bit(a, 128)
             bl == Bit(b, 1) + 2 * Bit(b, 2) + 4 * Bit(b, 4) + 8 * Bit(b, 8)
             bh == 16 * Bit(b, 16) + 32 * Bit(b, 32) + 64 * Bit(b, 64) + 128 * Bit(b, 128)
             xl == x(1) + 2 * x(2) + 4 * x(4) + 8 * x(8)
             xh == 16 * x(16) + 32 * x(32) + 64 * x(64) + 128 * x(128)
             yl == y(1) + y(2) + y(4) + y(8)
             yh == y(16) + y(32) + y(64) + y(128)
  <2>14. xl = al + bl - 2 * yl
    BY <2>2, <2>3, <2>4, <2>5, <2>12, <2>13
  <2>15. xh = ah + bh - 2 * yh
    BY <2>6, <2>7, <2>8, <2>9, <2>12, <2>13
  <2>16. a = al + ah /\ b = bl + bh
    BY <2>11, <2>13
  <2>17. Xor(a, b) = a + b - 2 * (yl + yh)
    BY <2>10, <2>12
  <2>18. /\ al \in Int /\ ah \in Int /\ bl \in Int /\ bh \in Int
         /\ xl \in Int /\ xh \in Int /\ yl \in Int /\ yh \in Int
    BY <2>12, <2>13
  <2>19. xl + xh = x(1) + 2 * x(2) + 4 * x(4) + 8 * x(8) + 16 * x(16) + 32 * x(32) + 64 * x(64)
                     + 128 * x(128)
    BY <2>13
  <2> HIDE DEF al, ah, bl, bh, xl, xh, yl, yh
  <2>20. Xor(a, b) = xl + xh
    BY <2>14, <2>15, <2>16, <2>17, <2>18
  <2> QED
    BY <2>19, <2>20
<1> HIDE DEF x
<1>3. /\ Xor(a, b) \in Byte
      /\ Bit(Xor(a, b), 1) = x(1) /\ Bit(Xor(a, b), 2) = x(2) /\ Bit(Xor(a, b), 4) = x(4)
      /\ Bit(Xor(a, b), 8) = x(8) /\ Bit(Xor(a, b), 16) = x(16) /\ Bit(Xor(a, b), 32) = x(32)
      /\ Bit(Xor(a, b), 64) = x(64) /\ Bit(Xor(a, b), 128) = x(128)
  BY <1>1, <1>2, NumberBits DEF Powers
<1>4. \A k \in Powers : Bit(Xor(a, b), k) = x(k)
  BY <1>3 DEF Powers
<1> QED
  BY <1>3, <1>4 DEF x

LEMMA XorGroup ==
  /\ \A a \in Byte : Xor(a, a) = 0 /\ Xor(0, a) = a /\ Xor(a, 0) = a
  /\ \A a, b, c \in Byte : Xor(Xor(a, b), c) = Xor(a, Xor(b, c))
<1>0. 0 \in Byte /\ \A k \in Powers : Bit(0, k) = 0
  BY DEF Byte, Powers, Bit
<1>1. \A a \in Byte, k \in Powers : Bit(a, k) \in {0, 1}
  BY ByteNumber DEF Powers
<1>2. ASSUME NEW a \in Byte PROVE Xor(a, a) = 0 /\ Xor(0, a) = a /\ Xor(a, 0) = a
  <2>1. Xor(a, a) \in Byte /\ Xor(0, a) \in Byte /\ Xor(a, 0) \in Byte
    BY <1>0, XorBits
  <2>2. \A k \in Powers : /\ Bit(Xor(a, a), k) = Bit(0, k)
                          /\ Bit(Xor(0, a), k) = Bit(a, k)
                          /\ Bit(Xor(a, 0), k) = Bit(a, k)
    BY <1>0, <1>1, XorBits
  <2> QED
    BY <1>0, <2>1, <2>2, SameBits
<1>3. ASSUME NEW a \in Byte, NEW b \in Byte, NEW c \in Byte
      PROVE  Xor(Xor(a, b), c) = Xor(a, Xor(b, c))
  <2>1. /\ Xor(a, b) \in Byte /\ Xor(b, c) \in Byte
        /\ Xor(Xor(a, b), c) \in Byte /\ Xor(a, Xor(b, c)) \in Byte
    BY XorBits
  <2>2. ASSUME NEW k \in Powers PROVE Bit(Xor(Xor(a, b), c), k) = Bit(Xor(a, Xor(b, c)), k)
    <3>1. /\ Bit(Xor(a, b), k) = IF Bit(a, k) = Bit(b, k) THEN 0 ELSE 1
          /\ Bit(Xor(b, c), k) = IF Bit(b, k) = Bit(c, k) THEN 0 ELSE 1
          /\ Bit(Xor(Xor(a, b), c), k) = IF Bit(Xor(a, b), k) = Bit(c, k) THEN 0 ELSE 1
          /\ Bit(Xor(a, Xor(b, c)), k) = IF Bit(a, k) = Bit(Xor(b, c), k) THEN 0 ELSE 1
      BY <2>1, XorBits
    <3>2. Bit(a, k) \in {0, 1} /\ Bit(b, k) \in {0, 1} /\ Bit(c, k) \in {0, 1}
      BY <1>1
    <3> QED
      BY <3>1, <3>2
  <2> QED
    BY <2>1, <2>2, SameBits
<1> QED
  BY <1>2, <1>3

\* The exclusive or of bytes of text is one.
LEMMA XorText ==
  ASSUME NEW a \in 0 .. 127, NEW b \in 0 .. 127
  PROVE  Xor(a, b) \in 0 .. 127
<1>1. a \in Byte /\ b \in Byte
  BY DEF Byte
<1>2. \A n \in Byte : n \in 0 .. 127 <=> Bit(n, 128) = 0
  BY DEF Byte, Bit
<1>3. Xor(a, b) \in Byte /\ Bit(Xor(a, b), 128) = 0
  BY <1>1, <1>2, XorBits DEF Powers
<1> QED
  BY <1>2, <1>3

-----------------------------------------------------------------------------
(* Induction, and the exclusive or of many bytes.                          *)

LEMMA NatSet ==
  ASSUME NEW S, 0 \in S, \A k \in Nat : k \in S => k + 1 \in S
  PROVE  \A k \in Nat : k \in S
<1> DEFINE T == Nat \ S
<1>1. SUFFICES ASSUME T # {} PROVE FALSE
  OBVIOUS
<1>2. PICK x \in T : \A y \in T : ~ (<<y, x>> \in OpToRel(<, Nat))
  <2>1. T \subseteq Nat
    OBVIOUS
  <2> HIDE DEF T
  <2> QED
    BY <1>1, <2>1, NatLessThanWellFounded, WFMin
<1>3. \A y \in Nat : y < x => y \in S
  BY <1>2 DEF OpToRel
<1>4. x \in Nat /\ x # 0
  OBVIOUS
<1>5. x - 1 \in Nat /\ x - 1 < x /\ (x - 1) + 1 = x
  BY <1>4
<1>6. x \in S
  BY <1>3, <1>5
<1> QED
  BY <1>6

\* f is the function of Fold, for the first n bytes that it folds.
Folds(f, s, k, n) ==
  f = [j \in 0 .. n |-> IF j = 0 THEN 0 ELSE Xor(f[j - 1], s[2 * j - k])]

\* The same, byte by byte.
Steps(f, s, k, n) ==
  /\ f[0] = 0
  /\ \A j \in 0 .. n - 1 : f[j + 1] = Xor(f[j], s[2 * j + 2 - k])

LEMMA FoldsAt ==
  ASSUME NEW s, NEW k \in {0, 1}, NEW n \in Nat, NEW f, Folds(f, s, k, n)
  PROVE  Steps(f, s, k, n)
<1>1. \A j \in 0 .. n : f[j] = IF j = 0 THEN 0 ELSE Xor(f[j - 1], s[2 * j - k])
  BY DEF Folds
<1>2. /\ 0 \in 0 .. n
      /\ \A j \in 0 .. n - 1 : /\ j + 1 \in 0 .. n /\ j + 1 # 0 /\ (j + 1) - 1 = j
                               /\ 2 * (j + 1) - k = 2 * j + 2 - k
  OBVIOUS
<1>3. f[0] = 0
  BY <1>1, <1>2, Zenon
<1>4. ASSUME NEW j \in 0 .. n - 1
      PROVE  f[j + 1] = Xor(f[j], s[2 * j + 2 - k])
  <2>1. f[j + 1] = Xor(f[(j + 1) - 1], s[2 * (j + 1) - k])
    BY <1>1, <1>2, Zenon
  <2>2. (j + 1) - 1 = j /\ 2 * (j + 1) - k = 2 * j + 2 - k
    BY <1>2
  <2> QED
    BY <2>1, <2>2, Zenon
<1> QED
  BY <1>3, <1>4 DEF Steps

LEMMA FoldsExist ==
  ASSUME NEW s, NEW k \in {0, 1}
  PROVE  \A n \in Nat : \E f : Folds(f, s, k, n)
<1> DEFINE S == {n \in Nat : \E f : Folds(f, s, k, n)}
<1>1. 0 \in S
  <2>1. Folds([j \in 0 .. 0 |-> 0], s, k, 0)
    BY DEF Folds
  <2> QED
    BY <2>1
<1>2. ASSUME NEW n \in Nat, n \in S PROVE n + 1 \in S
  <2>1. PICK f : Folds(f, s, k, n)
    BY <1>2
  <2>s. Steps(f, s, k, n)
    BY <2>1, FoldsAt
  <2> DEFINE e == Xor(f[n], s[2 * (n + 1) - k])
             g == [j \in 0 .. n + 1 |-> IF j = n + 1 THEN e ELSE f[j]]
             h == [j \in 0 .. n + 1 |-> IF j = 0 THEN 0 ELSE Xor(g[j - 1], s[2 * j - k])]
  <2>2. \A j \in 0 .. n : g[j] = f[j]
    OBVIOUS
  <2>3. g[n + 1] = e /\ g[(n + 1) - 1] = f[n]
    BY <2>2
  <2>4. ASSUME NEW j \in 0 .. n + 1 PROVE g[j] = h[j]
    <3>1. CASE j = n + 1
      <4>1. j # 0 /\ j \in 0 .. n + 1
        BY <3>1
      <4>2. h[j] = Xor(g[j - 1], s[2 * j - k])
        BY <4>1
      <4> HIDE DEF g, h
      <4> QED
        BY <2>3, <3>1, <4>2, Zenon
    <3>2. CASE j = 0
      <4>1. f[0] = 0
        BY <2>s, Zenon DEF Steps
      <4> QED
        BY <2>2, <3>2, <4>1
    <3>3. CASE j \in 1 .. n
      <4>1. /\ j \in 0 .. n /\ j - 1 \in 0 .. n - 1 /\ j - 1 \in 0 .. n /\ j # 0 /\ (j - 1) + 1 = j
            /\ 2 * (j - 1) + 2 - k = 2 * j - k
        BY <3>3
      <4>2. g[j] = f[j] /\ g[j - 1] = f[j - 1]
        BY <2>2, <4>1
      <4>3. h[j] = Xor(g[j - 1], s[2 * j - k])
        BY <4>1
      <4>4. f[(j - 1) + 1] = Xor(f[j - 1], s[2 * (j - 1) + 2 - k])
        BY <2>s, <4>1, Zenon DEF Steps
      <4> HIDE DEF g, h
      <4> QED
        BY <4>1, <4>2, <4>3, <4>4, Zenon
    <3> QED
      BY <3>1, <3>2, <3>3
  <2>5. g = h
    <3>1. g = [j \in 0 .. n + 1 |-> g[j]] /\ h = [j \in 0 .. n + 1 |-> h[j]]
      OBVIOUS
    <3> HIDE DEF g, h
    <3> QED
      BY <2>4, <3>1, Zenon
  <2>6. Folds(g, s, k, n + 1)
    <3> HIDE DEF g
    <3> QED
      BY <2>5 DEF Folds
  <2> QED
    BY <2>6
<1> HIDE DEF S
<1>3. \A n \in Nat : n \in S
  BY <1>1, <1>2, NatSet
<1> QED
  BY <1>3 DEF S

\* How many bytes Fold folds, of a sequence of length l.
Count(l, k) == (l + k) \div 2

LEMMA CountIs ==
  ASSUME NEW l \in Nat, NEW k \in {0, 1}
  PROVE  /\ Count(l, k) \in Nat
         /\ \A j \in 0 .. Count(l, k) - 1 : 2 * j + 2 - k \in 1 .. l
BY DEF Count

\* Fold by its recursion equations.
LEMMA FoldIs ==
  ASSUME NEW S, NEW s \in Seq(S), NEW k \in {0, 1}
  PROVE  \E f : Folds(f, s, k, Count(Len(s), k)) /\ Fold(s, k) = f[Count(Len(s), k)]
<1> DEFINE n == Count(Len(s), k)
           f == CHOOSE f : Folds(f, s, k, n)
<1>1. n \in Nat
  <2>1. Len(s) \in Nat
    OBVIOUS
  <2> QED
    BY <2>1, CountIs
<1>2. Folds(f, s, k, n)
  BY <1>1, FoldsExist
<1>3. Fold(s, k) = f[n]
  BY DEF Fold, Folds, Count
<1> QED
  BY <1>2, <1>3

LEMMA XorStays ==
  /\ 0 \in Byte /\ \A a, b \in Byte : Xor(a, b) \in Byte
  /\ 0 \in 0 .. 127 /\ \A a, b \in 0 .. 127 : Xor(a, b) \in 0 .. 127
<1>1. 0 \in Byte /\ 0 \in 0 .. 127
  BY DEF Byte
<1>2. ASSUME NEW a \in Byte, NEW b \in Byte PROVE Xor(a, b) \in Byte
  BY XorBits
<1>3. ASSUME NEW a \in 0 .. 127, NEW b \in 0 .. 127 PROVE Xor(a, b) \in 0 .. 127
  BY XorText
<1> QED
  BY <1>1, <1>2, <1>3

\* Whatever bytes Xor stays among, Fold stays there.
LEMMA FoldsIn ==
  ASSUME NEW B, 0 \in B, \A a, b \in B : Xor(a, b) \in B,
         NEW s \in Seq(B), NEW k \in {0, 1}, NEW f, Folds(f, s, k, Count(Len(s), k))
  PROVE  \A j \in 0 .. Count(Len(s), k) : f[j] \in B
<1> DEFINE n == Count(Len(s), k)
           S == {j \in Nat : j <= n => f[j] \in B}
<1>1. n \in Nat /\ \A j \in 0 .. n - 1 : s[2 * j + 2 - k] \in B
  <2>1. Len(s) \in Nat
    OBVIOUS
  <2>2. n \in Nat /\ \A j \in 0 .. n - 1 : 2 * j + 2 - k \in 1 .. Len(s)
    BY <2>1, CountIs
  <2> HIDE DEF n
  <2> QED
    BY <2>2
<1>2. Steps(f, s, k, n)
  BY <1>1, FoldsAt
<1> HIDE DEF n
<1>3. 0 \in S
  BY <1>2 DEF Steps
<1>4. ASSUME NEW j \in Nat, j \in S PROVE j + 1 \in S
  <2> SUFFICES ASSUME j + 1 <= n PROVE f[j + 1] \in B
    OBVIOUS
  <2>1. j \in 0 .. n - 1 /\ f[j] \in B
    BY <1>1, <1>4
  <2>2. f[j + 1] = Xor(f[j], s[2 * j + 2 - k])
    BY <1>2, <2>1, Zenon DEF Steps
  <2>3. s[2 * j + 2 - k] \in B
    BY <1>1, <2>1
  <2> QED
    BY <2>1, <2>2, <2>3
<1>5. \A j \in Nat : j \in S
  <2> HIDE DEF S
  <2> QED
    BY <1>3, <1>4, NatSet
<1> QED
  BY <1>1, <1>5 DEF n

LEMMA FoldTyped ==
  /\ \A s \in Seq(Byte), k \in {0, 1} : Fold(s, k) \in Byte
  /\ \A s \in Seq(0 .. 127), k \in {0, 1} : Fold(s, k) \in 0 .. 127
<1>3. ASSUME NEW B, 0 \in B, \A a, b \in B : Xor(a, b) \in B, NEW s \in Seq(B), NEW k \in {0, 1}
      PROVE  Fold(s, k) \in B
  <2> DEFINE n == Count(Len(s), k)
  <2>1. PICK f : Folds(f, s, k, n) /\ Fold(s, k) = f[n]
    BY FoldIs
  <2>2. n \in 0 .. n
    <3>1. Len(s) \in Nat
      OBVIOUS
    <3>2. n \in Nat
      BY <3>1, CountIs
    <3> HIDE DEF n
    <3> QED
      BY <3>2
  <2>3. \A j \in 0 .. n : f[j] \in B
    BY <1>3, <2>1, FoldsIn
  <2> QED
    BY <2>1, <2>2, <2>3
<1> QED
  BY <1>3, XorStays

\* Behind an even number of bytes, a sequence folds by itself.
LEMMA FoldConcat ==
  ASSUME NEW s \in Seq(Byte), NEW t \in Seq(Byte), NEW k \in {0, 1}, Len(s) % 2 = 0
  PROVE  Fold(s \o t, k) = Xor(Fold(s, k), Fold(t, k))
<1> DEFINE m == Count(Len(s), k)
           n == Count(Len(t), k)
           c == s \o t
<1>1. /\ Len(s) \in Nat /\ Len(t) \in Nat /\ c \in Seq(Byte) /\ Len(c) = Len(s) + Len(t)
      /\ \A i \in 1 .. Len(s) : c[i] = s[i]
      /\ \A i \in 1 .. Len(t) : c[Len(s) + i] = t[i] /\ t[i] \in Byte
  OBVIOUS
<1>2. /\ m \in Nat /\ n \in Nat /\ m + n \in Nat
      /\ Count(Len(c), k) = m + n /\ 2 * m = Len(s)
  <2>1. \A x, y \in Nat : x % 2 = 0 =>
          /\ Count(x, k) \in Nat /\ Count(y, k) \in Nat /\ Count(x, k) + Count(y, k) \in Nat
          /\ Count(x + y, k) = Count(x, k) + Count(y, k) /\ 2 * Count(x, k) = x
    BY DEF Count
  <2> QED
    BY <1>1, <2>1
<1>3. \A j \in 0 .. m - 1 : c[2 * j + 2 - k] = s[2 * j + 2 - k]
  <2>1. \A j \in 0 .. m - 1 : 2 * j + 2 - k \in 1 .. Len(s)
    BY <1>1, CountIs
  <2> QED
    BY <1>1, <2>1
<1>4. \A j \in 0 .. n - 1 : c[2 * (m + j) + 2 - k] = t[2 * j + 2 - k] /\ t[2 * j + 2 - k] \in Byte
  <2>1. \A j \in 0 .. n - 1 : 2 * j + 2 - k \in 1 .. Len(t)
    BY <1>1, CountIs
  <2> HIDE DEF m, n, c
  <2>2. \A j \in 0 .. n - 1 : 2 * (m + j) + 2 - k = Len(s) + (2 * j + 2 - k)
    <3> DEFINE l == Len(s)
    <3>1. m \in Nat /\ n \in Nat /\ l \in Nat /\ 2 * m = l
      BY <1>1, <1>2
    <3> HIDE DEF l
    <3>2. \A j \in 0 .. n - 1 : 2 * (m + j) + 2 - k = l + (2 * j + 2 - k)
      BY <3>1
    <3> QED
      BY <3>2 DEF l
  <2> QED
    BY <1>1, <2>1, <2>2, Zenon
<1>5. PICK f : Folds(f, c, k, m + n) /\ Fold(c, k) = f[m + n]
  <2> HIDE DEF c, m, n
  <2> QED
    BY <1>1, <1>2, FoldIs
<1>6. PICK g : Folds(g, s, k, m) /\ Fold(s, k) = g[m]
  BY FoldIs
<1>7. PICK h : Folds(h, t, k, n) /\ Fold(t, k) = h[n]
  BY FoldIs
<1>8. \A j \in 0 .. n : h[j] \in Byte
  <2>1. Folds(h, t, k, Count(Len(t), k))
    BY <1>7
  <2> QED
    BY <2>1, XorStays, FoldsIn
<1>9. g[m] \in Byte
  BY <1>6, FoldTyped
<1> HIDE DEF m, n, c
<1>10. Steps(f, c, k, m + n)
  BY <1>2, <1>5, FoldsAt
<1>11. Steps(g, s, k, m)
  BY <1>2, <1>6, FoldsAt
<1>12. Steps(h, t, k, n)
  BY <1>2, <1>7, FoldsAt
<1>13. f[m] = g[m]
  <2> DEFINE S == {j \in Nat : j <= m => f[j] = g[j]}
  <2>1. 0 \in S
    BY <1>10, <1>11 DEF Steps
  <2>2. ASSUME NEW j \in Nat, j \in S PROVE j + 1 \in S
    <3> SUFFICES ASSUME j + 1 <= m PROVE f[j + 1] = g[j + 1]
      OBVIOUS
    <3>1. j \in 0 .. m - 1 /\ j \in 0 .. (m + n) - 1 /\ f[j] = g[j]
      BY <1>2, <2>2
    <3> QED
      BY <1>3, <1>10, <1>11, <3>1, Zenon DEF Steps
  <2>3. \A j \in Nat : j \in S
    <3> HIDE DEF S
    <3> QED
      BY <2>1, <2>2, NatSet
  <2> QED
    BY <1>2, <2>3
<1>14. \A j \in 0 .. n : f[m + j] = Xor(g[m], h[j])
  <2> DEFINE S == {j \in Nat : j <= n => f[m + j] = Xor(g[m], h[j])}
  <2>1. 0 \in S
    <3>1. Xor(g[m], 0) = g[m]
      BY <1>9, XorGroup
    <3> QED
      BY <1>2, <1>12, <1>13, <3>1 DEF Steps
  <2>2. ASSUME NEW j \in Nat, j \in S PROVE j + 1 \in S
    <3> SUFFICES ASSUME j + 1 <= n PROVE f[m + (j + 1)] = Xor(g[m], h[j + 1])
      OBVIOUS
    <3>1. /\ j \in 0 .. n - 1 /\ j \in 0 .. n /\ m + j \in 0 .. (m + n) - 1
          /\ m + (j + 1) = (m + j) + 1 /\ f[m + j] = Xor(g[m], h[j])
      BY <1>2, <2>2
    <3>2. t[2 * j + 2 - k] \in Byte /\ h[j] \in Byte /\ c[2 * (m + j) + 2 - k] = t[2 * j + 2 - k]
      BY <1>4, <1>8, <3>1
    <3>3. f[(m + j) + 1] = Xor(f[m + j], t[2 * j + 2 - k])
      BY <1>10, <3>1, <3>2, Zenon DEF Steps
    <3>4. h[j + 1] = Xor(h[j], t[2 * j + 2 - k])
      BY <1>12, <3>1, Zenon DEF Steps
    <3>5. Xor(Xor(g[m], h[j]), t[2 * j + 2 - k]) = Xor(g[m], Xor(h[j], t[2 * j + 2 - k]))
      BY <1>9, <3>2, XorGroup, Zenon
    <3> QED
      BY <3>1, <3>3, <3>4, <3>5, Zenon
  <2>3. \A j \in Nat : j \in S
    <3> HIDE DEF S
    <3> QED
      BY <2>1, <2>2, NatSet
  <2> QED
    BY <1>2, <2>3
<1> QED
  BY <1>2, <1>5, <1>6, <1>7, <1>14 DEF c

LEMMA FoldTwo ==
  ASSUME NEW a \in Byte, NEW b \in Byte
  PROVE  Fold(<<a, b>>, 1) = a /\ Fold(<<a, b>>, 0) = b
<1> DEFINE s == <<a, b>>
<1>1. s \in Seq(Byte) /\ Len(s) = 2 /\ s[1] = a /\ s[2] = b
  OBVIOUS
<1> HIDE DEF s
<1>2. ASSUME NEW k \in {0, 1} PROVE Fold(s, k) = IF k = 1 THEN a ELSE b
  <2>1. Count(2, k) = 1
    BY DEF Count
  <2>2. PICK f : Folds(f, s, k, 1) /\ Fold(s, k) = f[1]
    BY <1>1, <2>1, FoldIs
  <2>3. Steps(f, s, k, 1)
    BY <2>2, FoldsAt
  <2>4. 0 \in 0 .. 1 - 1 /\ 0 + 1 = 1 /\ 2 * 0 + 2 - k = 2 - k
    OBVIOUS
  <2>5. f[1] = Xor(0, s[2 - k])
    BY <2>3, <2>4, Zenon DEF Steps
  <2>6. s[2 - k] = IF k = 1 THEN a ELSE b
    BY <1>1
  <2>7. Xor(0, a) = a /\ Xor(0, b) = b
    BY XorGroup
  <2> QED
    BY <2>2, <2>5, <2>6, <2>7
<1> QED
  BY <1>2 DEF s

\* A frame of even length and its check field fold to nothing.
LEMMA FoldChecked ==
  ASSUME NEW s \in Seq(Byte), Len(s) % 2 = 0, NEW k \in {0, 1}
  PROVE  Fold(FoldSerializedFrame(s), k) = 0
<1>1. Fold(s, 0) \in Byte /\ Fold(s, 1) \in Byte /\ Fold(s, k) \in Byte
  BY FoldTyped
<1> DEFINE c == <<Fold(s, 1), Fold(s, 0)>>
<1>2. c \in Seq(Byte) /\ Fold(c, k) = Fold(s, k)
  BY <1>1, FoldTwo
<1>3. FoldSerializedFrame(s) = s \o c
  BY DEF FoldSerializedFrame
<1> HIDE DEF c
<1>4. Fold(s \o c, k) = Xor(Fold(s, k), Fold(c, k))
  BY <1>2, FoldConcat
<1> QED
  BY <1>1, <1>2, <1>3, <1>4, XorGroup

-----------------------------------------------------------------------------
(* Numbers as text.                                                        *)

\* f is the function of Digits.
Lefts(f, n, w) == f = [i \in 1 .. w |-> IF i = w THEN n ELSE f[i + 1] \div 10]

LEMMA LeftsExist ==
  ASSUME NEW n
  PROVE  \A w \in Nat : \E f : Lefts(f, n, w)
<1> DEFINE S == {w \in Nat : \E f : Lefts(f, n, w)}
<1>1. 0 \in S
  <2>1. Lefts([i \in 1 .. 0 |-> n], n, 0)
    BY DEF Lefts
  <2> QED
    BY <2>1
<1>2. ASSUME NEW w \in Nat, w \in S PROVE w + 1 \in S
  <2>1. PICK f : Lefts(f, n, w)
    BY <1>2
  <2>2. \A i \in 1 .. w : f[i] = IF i = w THEN n ELSE f[i + 1] \div 10
    BY <2>1 DEF Lefts
  <2> DEFINE e == IF w = 0 THEN n ELSE f[1] \div 10
             g == [i \in 1 .. w + 1 |-> IF i = 1 THEN e ELSE f[i - 1]]
             h == [i \in 1 .. w + 1 |-> IF i = w + 1 THEN n ELSE g[i + 1] \div 10]
  <2>3. \A i \in 1 .. w : g[i + 1] = f[i]
    OBVIOUS
  <2>4. ASSUME NEW i \in 1 .. w + 1 PROVE g[i] = h[i]
    <3>1. CASE i = 1
      <4>1. CASE w = 0
        BY <3>1, <4>1
      <4>2. CASE w # 0
        <5>1. 1 \in 1 .. w /\ i # w + 1
          BY <3>1, <4>2
        <5>2. g[1 + 1] = f[1]
          BY <2>3, <5>1
        <5> QED
          BY <3>1, <4>2, <5>1, <5>2
      <4> QED
        BY <4>1, <4>2
    <3>2. CASE i \in 2 .. w + 1
      <4>1. i - 1 \in 1 .. w /\ i # 1 /\ (i - 1) + 1 = i /\ (i - 1 = w <=> i = w + 1)
        BY <3>2
      <4>2. g[i] = f[i - 1]
        BY <4>1
      <4>3. f[i - 1] = IF i = w + 1 THEN n ELSE f[i] \div 10
        BY <2>2, <4>1
      <4>4. i # w + 1 => g[i + 1] = f[i]
        BY <2>3, <4>1
      <4>5. h[i] = IF i = w + 1 THEN n ELSE g[i + 1] \div 10
        OBVIOUS
      <4> HIDE DEF g, h
      <4> QED
        BY <4>2, <4>3, <4>4, <4>5
    <3> QED
      BY <3>1, <3>2
  <2>5. g = h
    <3>1. g = [i \in 1 .. w + 1 |-> g[i]] /\ h = [i \in 1 .. w + 1 |-> h[i]]
      OBVIOUS
    <3> HIDE DEF g, h
    <3> QED
      BY <2>4, <3>1, Zenon
  <2>6. Lefts(g, n, w + 1)
    <3> HIDE DEF g
    <3> QED
      BY <2>5 DEF Lefts
  <2> QED
    BY <2>6
<1> HIDE DEF S
<1>3. \A w \in Nat : w \in S
  BY <1>1, <1>2, NatSet
<1> QED
  BY <1>3 DEF S

LEMMA LeftsAt ==
  ASSUME NEW n, NEW w, NEW f, Lefts(f, n, w)
  PROVE  \A i \in 1 .. w : f[i] = IF i = w THEN n ELSE f[i + 1] \div 10
BY DEF Lefts

LEMMA LeftsNat ==
  ASSUME NEW n \in Nat, NEW w \in Nat, NEW f, Lefts(f, n, w)
  PROVE  \A i \in 1 .. w : f[i] \in Nat
<1> DEFINE S == {k \in Nat : k < w => f[w - k] \in Nat}
<1>1. \A i \in 1 .. w : f[i] = IF i = w THEN n ELSE f[i + 1] \div 10
  BY LeftsAt
<1>2. 0 \in S
  BY <1>1
<1>3. ASSUME NEW k \in Nat, k \in S PROVE k + 1 \in S
  <2> SUFFICES ASSUME k + 1 < w PROVE f[w - (k + 1)] \in Nat
    OBVIOUS
  <2>1. w - (k + 1) \in 1 .. w /\ w - (k + 1) # w /\ (w - (k + 1)) + 1 = w - k /\ f[w - k] \in Nat
    BY <1>3
  <2>2. f[w - (k + 1)] = f[w - k] \div 10
    BY <1>1, <2>1
  <2>3. \A m \in Nat : m \div 10 \in Nat
    OBVIOUS
  <2> QED
    BY <2>1, <2>2, <2>3
<1>4. \A k \in Nat : k \in S
  <2> HIDE DEF S
  <2> QED
    BY <1>2, <1>3, NatSet
<1>5. ASSUME NEW i \in 1 .. w PROVE f[i] \in Nat
  <2>1. w - i \in Nat /\ w - i < w /\ w - (w - i) = i
    OBVIOUS
  <2> QED
    BY <1>4, <2>1
<1> QED
  BY <1>5

LEMMA DigitsAre ==
  ASSUME NEW n \in Nat, NEW w \in Nat
  PROVE  /\ Digits(n, w) \in Seq(Digit) /\ Len(Digits(n, w)) = w
         /\ \E f : Lefts(f, n, w) /\ \A i \in 1 .. w : f[i] \in Nat /\ Digits(n, w)[i] = 48 + (f[i] % 10)
<1> DEFINE f == CHOOSE f : Lefts(f, n, w)
<1>1. Lefts(f, n, w)
  BY LeftsExist
<1>2. \A i \in 1 .. w : f[i] \in Nat
  BY <1>1, LeftsNat
<1>3. Digits(n, w) = [i \in 1 .. w |-> 48 + (f[i] % 10)]
  BY DEF Digits, Lefts
<1> HIDE DEF f
<1>4. \A m \in Nat : 48 + (m % 10) \in Digit
  BY DEF Digit
<1>5. Digits(n, w) \in Seq(Digit) /\ Len(Digits(n, w)) = w
  BY <1>2, <1>3, <1>4
<1> QED
  BY <1>1, <1>2, <1>3, <1>5


LEMMA MaxSeq ==
  MAX_SEQ \in Nat /\ MAX_SEQ < 100000 /\ \A n \in Nat : n <= MAX_SEQ => n % (MAX_SEQ + 1) = n
BY SMT DEF MAX_SEQ

LEMMA ElementsIn ==
  ASSUME NEW S, NEW s \in Seq(S)
  PROVE  \A i \in 1 .. Len(s) : s[i] \in S
OBVIOUS

LEMMA FiveOf ==
  ASSUME NEW S, NEW t \in Seq(S), Len(t) = 5
  PROVE  /\ t # <<>> /\ SubSeq(t, 1, 5) = t /\ \A i \in 1 .. 5 : t[i] \in S
         /\ t[1] \in S /\ t[2] \in S /\ t[3] \in S /\ t[4] \in S /\ t[5] \in S
<1>1. \A i \in 1 .. 5 : t[i] \in S
  BY ElementsIn, Zenon
<1>2. SubSeq(t, 1, 5) = t
  OBVIOUS
<1>3. t # <<>>
  OBVIOUS
<1>4. t[1] \in S /\ t[2] \in S /\ t[3] \in S /\ t[4] \in S /\ t[5] \in S
  BY <1>1
<1> QED
  BY <1>1, <1>2, <1>3, <1>4

LEMMA itoaDigits ==
  ASSUME NEW n \in 0 .. MAX_SEQ
  PROVE  /\ itoa(n) \in Seq(Digit) /\ Len(itoa(n)) = 5
         /\ LET d == itoa(n)
            IN  n = 10000 * (d[1] - 48) + 1000 * (d[2] - 48) + 100 * (d[3] - 48)
                      + 10 * (d[4] - 48) + (d[5] - 48)
<1>n. n \in Nat /\ n <= MAX_SEQ
  BY MaxSeq
<1>m. n < 100000
  BY <1>n, MaxSeq, SMT
<1>5. 5 \in Nat
  OBVIOUS
<1>1. itoa(n) = Digits(n, 5)
  BY <1>n, MaxSeq DEF itoa
<1>2. PICK f : /\ Lefts(f, n, 5)
               /\ \A i \in 1 .. 5 : f[i] \in Nat /\ Digits(n, 5)[i] = 48 + (f[i] % 10)
  BY <1>n, <1>5, DigitsAre
<1>3. \A i \in 1 .. 5 : f[i] = IF i = 5 THEN n ELSE f[i + 1] \div 10
  BY <1>2, LeftsAt
<1>4. f[5] = n /\ f[4] = f[5] \div 10 /\ f[3] = f[4] \div 10 /\ f[2] = f[3] \div 10 /\ f[1] = f[2] \div 10
  BY <1>3
<1>6. f[1] \in Nat /\ f[2] \in Nat /\ f[3] \in Nat /\ f[4] \in Nat
  BY <1>2
<1>7. n = 10000 * (f[1] % 10) + 1000 * (f[2] % 10) + 100 * (f[3] % 10) + 10 * (f[4] % 10) + (n % 10)
  <2>1. f[1] < 10
    BY <1>n, <1>m, <1>4, <1>6, SMT
  <2> QED
    BY <1>n, <1>4, <1>6, <2>1, SMT
<1>8. Digits(n, 5) \in Seq(Digit) /\ Len(Digits(n, 5)) = 5
  BY <1>n, <1>5, DigitsAre
<1>9. /\ Digits(n, 5)[1] = 48 + (f[1] % 10) /\ Digits(n, 5)[2] = 48 + (f[2] % 10)
      /\ Digits(n, 5)[3] = 48 + (f[3] % 10) /\ Digits(n, 5)[4] = 48 + (f[4] % 10)
      /\ Digits(n, 5)[5] = 48 + (n % 10)
  BY <1>2, <1>4
<1> DEFINE d == Digits(n, 5)
<1>10. /\ d[1] - 48 = f[1] % 10 /\ d[2] - 48 = f[2] % 10 /\ d[3] - 48 = f[3] % 10
       /\ d[4] - 48 = f[4] % 10 /\ d[5] - 48 = n % 10
  BY <1>n, <1>6, <1>9, SMT
<1> HIDE DEF d
<1>11. n = 10000 * (d[1] - 48) + 1000 * (d[2] - 48) + 100 * (d[3] - 48) + 10 * (d[4] - 48) + (d[5] - 48)
  BY <1>7, <1>10, SMT
<1> QED
  BY <1>1, <1>8, <1>11 DEF d

LEMMA MinIsLeast ==
  ASSUME NEW S, S \subseteq Nat, S # {}
  PROVE  Min(S) \in S /\ \A y \in S : Min(S) <= y
<1>1. PICK x \in S : \A y \in S : ~ (<<y, x>> \in OpToRel(<, Nat))
  BY NatLessThanWellFounded, WFMin
<1>2. \A y \in S : x <= y
  <2> SUFFICES ASSUME NEW y \in S PROVE x <= y
    OBVIOUS
  <2>1. x \in Nat /\ y \in Nat
    OBVIOUS
  <2>2. y < x => <<y, x>> \in OpToRel(<, Nat)
    BY <2>1 DEF OpToRel
  <2>3. ~ (y < x)
    BY <1>1, <2>2
  <2> QED
    BY <2>1, <2>3
<1> QED
  BY <1>2 DEF Min

LEMMA FirstInIs ==
  ASSUME NEW T, NEW s \in Seq(T), NEW S
  PROVE  /\ FirstIn(s, S) \in 0 .. Len(s)
         /\ FirstIn(s, S) # 0 => s[FirstIn(s, S)] \in S
         /\ \A i \in 1 .. Len(s) : s[i] \in S => FirstIn(s, S) \in 1 .. i
<1> DEFINE I == {i \in 1 .. Len(s) : s[i] \in S}
<1>1. FirstIn(s, S) = IF I # {} THEN Min(I) ELSE 0
  BY DEF FirstIn, SelectInSeq
<1>2. I # {} => Min(I) \in I /\ \A y \in I : Min(I) <= y
  <2>1. I \subseteq Nat
    OBVIOUS
  <2> HIDE DEF I
  <2> QED
    BY <2>1, MinIsLeast
<1>3. \A i : i \in I <=> i \in 1 .. Len(s) /\ s[i] \in S
  OBVIOUS
<1>4. Len(s) \in Nat
  OBVIOUS
<1> HIDE DEF I
<1>5. CASE I = {}
  BY <1>1, <1>3, <1>4, <1>5
<1>6. CASE I # {}
  BY <1>1, <1>2, <1>3, <1>4, <1>6
<1> QED
  BY <1>5, <1>6

LEMMA FirstNotInIs ==
  ASSUME NEW T, NEW s \in Seq(T), NEW S
  PROVE  /\ (\A i \in 1 .. Len(s) : s[i] \in S) => FirstNotIn(s, S) = 0
         /\ s # <<>> /\ s[1] \notin S => FirstNotIn(s, S) = 1
         /\ FirstNotIn(s, S) \in 0 .. Len(s)
<1> DEFINE I == {i \in 1 .. Len(s) : s[i] \notin S}
<1>1. FirstNotIn(s, S) = IF I # {} THEN Min(I) ELSE 0
  BY DEF FirstNotIn, SelectInSeq
<1>2. I # {} => Min(I) \in I /\ \A y \in I : Min(I) <= y
  <2>1. I \subseteq Nat
    OBVIOUS
  <2> HIDE DEF I
  <2> QED
    BY <2>1, MinIsLeast
<1>3. \A i : i \in I <=> i \in 1 .. Len(s) /\ s[i] \notin S
  OBVIOUS
<1>4. Len(s) \in Nat /\ (s # <<>> => Len(s) # 0)
  OBVIOUS
<1> HIDE DEF I
<1>5. (\A i \in 1 .. Len(s) : s[i] \in S) => FirstNotIn(s, S) = 0
  BY <1>1, <1>3
<1>6. ASSUME s # <<>>, s[1] \notin S PROVE FirstNotIn(s, S) = 1
  <2>1. 1 \in I
    BY <1>3, <1>4, <1>6
  <2>2. Min(I) \in 1 .. Len(s) /\ Min(I) <= 1
    BY <1>2, <1>3, <2>1
  <2> QED
    BY <1>1, <1>4, <2>1, <2>2
<1>7. FirstNotIn(s, S) \in 0 .. Len(s)
  BY <1>1, <1>2, <1>3, <1>4
<1> QED
  BY <1>5, <1>6, <1>7

\* v is the function of Value, for five digits.
Values(v, t) == v = [i \in 0 .. 5 |-> IF i = 0 THEN 0 ELSE 10 * v[i - 1] + t[i] - 48]

LEMMA ValuesExist ==
  ASSUME NEW t
  PROVE  \E v : Values(v, t)
<1> DEFINE v1 == 10 * 0 + t[1] - 48
           v2 == 10 * v1 + t[2] - 48
           v3 == 10 * v2 + t[3] - 48
           v4 == 10 * v3 + t[4] - 48
           v5 == 10 * v4 + t[5] - 48
           x == [i \in 0 .. 5 |-> IF i = 0 THEN 0 ELSE IF i = 1 THEN v1 ELSE IF i = 2 THEN v2
                                 ELSE IF i = 3 THEN v3 ELSE IF i = 4 THEN v4 ELSE v5]
           y == [i \in 0 .. 5 |-> IF i = 0 THEN 0 ELSE 10 * x[i - 1] + t[i] - 48]
<1>1. /\ x[0] = 0 /\ x[1] = v1 /\ x[2] = v2 /\ x[3] = v3 /\ x[4] = v4 /\ x[5] = v5
  OBVIOUS
<1>2. /\ y[0] = 0 /\ y[1] = 10 * x[0] + t[1] - 48 /\ y[2] = 10 * x[1] + t[2] - 48
      /\ y[3] = 10 * x[2] + t[3] - 48 /\ y[4] = 10 * x[3] + t[4] - 48 /\ y[5] = 10 * x[4] + t[5] - 48
  OBVIOUS
<1>3. \A i \in 0 .. 5 : i \in {0, 1, 2, 3, 4, 5}
  OBVIOUS
<1>4. x = [i \in 0 .. 5 |-> x[i]] /\ y = [i \in 0 .. 5 |-> y[i]]
  OBVIOUS
<1> HIDE DEF x, y
<1>5. \A i \in 0 .. 5 : x[i] = y[i]
  BY <1>1, <1>2, <1>3
<1>6. x = y
  BY <1>4, <1>5, Zenon
<1>7. Values(x, t)
  BY <1>6 DEF y, Values
<1> QED
  BY <1>7

LEMMA ValueOfFive ==
  ASSUME NEW t \in Seq(Digit), Len(t) = 5
  PROVE  Value(t, 5) = 10000 * (t[1] - 48) + 1000 * (t[2] - 48) + 100 * (t[3] - 48)
                         + 10 * (t[4] - 48) + (t[5] - 48)
<1> DEFINE w == CHOOSE v : Values(v, t)
<1>1. Value(t, 5) = w[5]
  BY DEF Value, Values
<1>2. Values(w, t)
  BY ValuesExist
<1> HIDE DEF w
<1>3. /\ w[0] = 0 /\ w[1] = 10 * w[0] + t[1] - 48 /\ w[2] = 10 * w[1] + t[2] - 48
      /\ w[3] = 10 * w[2] + t[3] - 48 /\ w[4] = 10 * w[3] + t[4] - 48 /\ w[5] = 10 * w[4] + t[5] - 48
  BY <1>2 DEF Values
<1>4. t[1] \in Int /\ t[2] \in Int /\ t[3] \in Int /\ t[4] \in Int /\ t[5] \in Int
  <2>1. \A x \in Digit : x \in Int
    BY DEF Digit
  <2>2. t[1] \in Digit /\ t[2] \in Digit /\ t[3] \in Digit /\ t[4] \in Digit /\ t[5] \in Digit
    BY FiveOf
  <2> QED
    BY <2>1, <2>2
<1>5. \A x, y \in Int : 10 * x + y - 48 \in Int
  OBVIOUS
<1>6. w[1] \in Int /\ w[2] \in Int /\ w[3] \in Int /\ w[4] \in Int /\ w[5] \in Int
  <2>1. w[0] \in Int
    BY <1>3
  <2>2. w[1] \in Int
    BY <1>3, <1>4, <1>5, <2>1, Zenon
  <2>3. w[2] \in Int
    BY <1>3, <1>4, <1>5, <2>2, Zenon
  <2>4. w[3] \in Int
    BY <1>3, <1>4, <1>5, <2>3, Zenon
  <2>5. w[4] \in Int
    BY <1>3, <1>4, <1>5, <2>4, Zenon
  <2>6. w[5] \in Int
    BY <1>3, <1>4, <1>5, <2>5, Zenon
  <2> QED
    BY <2>2, <2>3, <2>4, <2>5, <2>6
<1>7. /\ w[1] = 10 * 0 + t[1] - 48 /\ w[2] = 10 * w[1] + t[2] - 48
      /\ w[3] = 10 * w[2] + t[3] - 48 /\ w[4] = 10 * w[3] + t[4] - 48 /\ w[5] = 10 * w[4] + t[5] - 48
  BY <1>3
<1> QED
  <2> DEFINE a == t[1]
             b == t[2]
             c == t[3]
             d == t[4]
             e == t[5]
             w1 == w[1]
             w2 == w[2]
             w3 == w[3]
             w4 == w[4]
             w5 == w[5]
  <2>1. a \in Int /\ b \in Int /\ c \in Int /\ d \in Int /\ e \in Int
    BY <1>4
  <2>2. w1 \in Int /\ w2 \in Int /\ w3 \in Int /\ w4 \in Int /\ w5 \in Int
    BY <1>6
  <2>3. /\ w1 = 10 * 0 + a - 48 /\ w2 = 10 * w1 + b - 48 /\ w3 = 10 * w2 + c - 48
        /\ w4 = 10 * w3 + d - 48 /\ w5 = 10 * w4 + e - 48
    BY <1>7
  <2> HIDE DEF a, b, c, d, e, w1, w2, w3, w4, w5
  <2>4. w5 = 10000 * (a - 48) + 1000 * (b - 48) + 100 * (c - 48) + 10 * (d - 48) + (e - 48)
    BY <2>1, <2>2, <2>3, SMT
  <2> QED
    BY <1>1, <2>4 DEF a, b, c, d, e, w5

LEMMA atoiDigits ==
  ASSUME NEW t \in Seq(Digit), Len(t) = 5
  PROVE  atoi(t) = Value(t, 5)
<1>1. \A x \in Digit : x \notin Blank /\ x \notin {43, 45}
  BY DEF Digit, Blank
<1>2. t # <<>> /\ t[1] \in Digit /\ SubSeq(t, 1, Len(t)) = t /\ \A i \in 1 .. Len(t) : t[i] \in Digit
  BY FiveOf
<1>3. FirstNotIn(t, Blank) = 1 /\ FirstNotIn(t, Digit) = 0
  BY <1>1, <1>2, FirstNotInIs
<1>4. t[1] \notin {43, 45} /\ t[1] # 45
  BY <1>1, <1>2
<1> QED
  <2> DEFINE blanks == FirstNotIn(t, Blank)
             x == IF blanks = 0 THEN <<>> ELSE SubSeq(t, blanks, Len(t))
             u == IF x # <<>> /\ x[1] \in {43, 45} THEN Tail(x) ELSE x
             stop == FirstNotIn(u, Digit)
             value == Value(u, IF stop = 0 THEN Len(u) ELSE stop - 1)
  <2>1. x = t
    BY <1>2, <1>3
  <2>2. u = t
    <3> HIDE DEF x
    <3> QED
      BY <1>4, <2>1
  <2>3. value = Value(t, 5)
    <3> HIDE DEF u
    <3> QED
      BY <1>3, <2>2
  <2>4. atoi(t) = IF x # <<>> /\ x[1] = 45 THEN 0 - value ELSE value
    BY DEF atoi
  <2> HIDE DEF x, value
  <2> QED
    BY <1>4, <2>1, <2>3, <2>4

\* What itoa writes, atoi reads: every number of a packet, frame or message header
\* that fits sixteen bits, with its leading zeros.  (Utils.cpp, Unserialize.)
THEOREM NumberReadBack ==
  ASSUME NEW n \in 0 .. MAX_SEQ
  PROVE  atoi(itoa(n)) % (MAX_SEQ + 1) = n
<1> DEFINE d == itoa(n)
<1>1. d \in Seq(Digit) /\ Len(d) = 5
  BY itoaDigits
<1>2. n = 10000 * (d[1] - 48) + 1000 * (d[2] - 48) + 100 * (d[3] - 48) + 10 * (d[4] - 48) + (d[5] - 48)
  BY itoaDigits
<1> HIDE DEF d
<1>3. atoi(d) = n
  BY <1>1, <1>2, atoiDigits, ValueOfFive
<1>4. n % (MAX_SEQ + 1) = n
  BY MaxSeq
<1> QED
  BY <1>3, <1>4, Zenon DEF d

-----------------------------------------------------------------------------
(* Sequences and strings.                                                  *)

\* u is s, of length m, followed by t, of length n.
IsConcat(u, s, t, m, n) ==
  /\ Len(u) = m + n
  /\ \A i \in 1 .. m : u[i] = s[i]
  /\ \A i \in 1 .. n : u[m + i] = t[i]

LEMMA ConcatIs ==
  ASSUME NEW S, NEW s \in Seq(S), NEW t \in Seq(S)
  PROVE  s \o t \in Seq(S) /\ IsConcat(s \o t, s, t, Len(s), Len(t))
BY DEF IsConcat

LEMMA SameSeq ==
  ASSUME NEW S, NEW s \in Seq(S), NEW t \in Seq(S), Len(s) = Len(t),
         \A i \in 1 .. Len(t) : s[i] = t[i]
  PROVE  s = t
OBVIOUS

LEMMA SubSeqIs ==
  ASSUME NEW S, NEW s \in Seq(S), NEW t \in Seq(S), NEW m \in Nat, m + Len(t) <= Len(s),
         \A i \in 1 .. Len(t) : s[m + i] = t[i]
  PROVE  SubSeq(s, m + 1, m + Len(t)) = t
<1> DEFINE u == SubSeq(s, m + 1, m + Len(t))
<1>1. Len(t) \in Nat /\ Len(s) \in Nat
  OBVIOUS
<1>2. u \in Seq(S) /\ Len(u) = Len(t)
  BY <1>1
<1>3. \A i \in 1 .. Len(t) : u[i] = s[m + i]
  BY <1>1
<1> HIDE DEF u
<1>4. u = t
  BY <1>2, <1>3, SameSeq
<1> QED
  BY <1>4 DEF u

\* The string at d goes at least as far as no byte is NUL.
LEMMA CStringIs ==
  ASSUME NEW d \in Seq(Byte), NEW m \in 0 .. Len(d), \A i \in 1 .. m : d[i] # NUL
  PROVE  /\ CString(d) \in Seq(Byte) /\ Len(CString(d)) >= m
         /\ \A i \in 1 .. m : CString(d)[i] = d[i]
<1> DEFINE n == FirstIn(d, {NUL})
<1>1. n \in 0 .. Len(d) /\ (n # 0 => d[n] = NUL)
  BY FirstInIs
<1>2. CString(d) = IF n = 0 THEN d ELSE SubSeq(d, 1, n - 1)
  BY DEF CString
<1>3. Len(d) \in Nat
  OBVIOUS
<1> HIDE DEF n
<1>4. CASE n = 0
  BY <1>2, <1>3, <1>4
<1>5. CASE n # 0
  <2>1. n - 1 \in Nat /\ n - 1 <= Len(d) /\ m <= n - 1
    BY <1>1, <1>3, <1>5
  <2>2. SubSeq(d, 1, n - 1) \in Seq(Byte) /\ Len(SubSeq(d, 1, n - 1)) = n - 1
    BY <2>1, <1>3
  <2>3. \A i \in 1 .. n - 1 : SubSeq(d, 1, n - 1)[i] = d[i]
    BY <2>1, <1>3
  <2> QED
    BY <1>2, <1>5, <2>1, <2>2, <2>3
<1> QED
  BY <1>4, <1>5

LEMMA substrIs ==
  ASSUME NEW S, NEW s \in Seq(S), NEW t \in Seq(S), NEW m \in Nat, m + Len(t) <= Len(s),
         \A i \in 1 .. Len(t) : s[m + i] = t[i]
  PROVE  substr(s, m, Len(t)) = t
<1>1. Len(t) \in Nat /\ Len(s) \in Nat
  OBVIOUS
<1>2. (IF m + Len(t) < Len(s) THEN m + Len(t) ELSE Len(s)) = m + Len(t)
  BY <1>1
<1>3. substr(s, m, Len(t)) = SubSeq(s, m + 1, m + Len(t))
  BY <1>2 DEF substr
<1> QED
  BY <1>3, SubSeqIs

LEMMA CopyIs ==
  ASSUME NEW S, NEW s \in Seq(S), NEW fill
  PROVE  Copy(s, Len(s), fill) = s
<1>1. Copy(s, Len(s), fill) = [i \in 1 .. Len(s) |-> s[i]]
  BY DEF Copy
<1> QED
  BY <1>1

-----------------------------------------------------------------------------
(* The format of packets and frames.                                       *)

LEMMA SerializeIs ==
  ASSUME NEW f \in Format, Len(f.payload) <= MAX_SEQ
  PROVE  /\ Serialize(f) \in Seq(Byte) /\ Len(Serialize(f)) = 12 + Len(f.payload)
         /\ Serialize(f)[1] = Flag(f.type = ACK)
         /\ \A i \in 1 .. 5 : Serialize(f)[1 + i] = itoa(f.seq)[i]
         /\ Serialize(f)[7] = Flag(f.end)
         /\ \A i \in 1 .. 5 : Serialize(f)[7 + i] = itoa(Len(f.payload))[i]
         /\ \A i \in 1 .. Len(f.payload) : Serialize(f)[12 + i] = f.payload[i]
         /\ \A i \in 1 .. 12 : Serialize(f)[i] \in Digit
<1> DEFINE a == <<Flag(f.type = ACK)>>
           b == itoa(f.seq)
           c == <<Flag(f.end)>>
           d == itoa(Len(f.payload))
           p == f.payload
<1>1. \A x \in BOOLEAN : Flag(x) \in Digit
  BY DEF Flag, Digit
<1>2. Digit \subseteq Byte
  BY DEF Digit, Byte
<1>3. a \in Seq(Digit) /\ c \in Seq(Digit) /\ Len(a) = 1 /\ Len(c) = 1
      /\ a[1] = Flag(f.type = ACK) /\ c[1] = Flag(f.end)
  <2>1. (f.type = ACK) \in BOOLEAN /\ f.end \in BOOLEAN
    BY DEF Format
  <2>2. Flag(f.type = ACK) \in Digit /\ Flag(f.end) \in Digit
    BY <1>1, <2>1
  <2> QED
    BY <2>2
<1>4. p \in Seq(Byte) /\ Len(p) \in 0 .. MAX_SEQ /\ f.seq \in 0 .. MAX_SEQ
  BY MaxSeq DEF Format
<1>5. b \in Seq(Digit) /\ d \in Seq(Digit) /\ Len(b) = 5 /\ Len(d) = 5
  BY <1>4, itoaDigits
<1>6. Serialize(f) = (((a \o b) \o c) \o d) \o p
  BY DEF Serialize
<1> HIDE DEF a, b, c, d, p
<1> DEFINE ab == a \o b
<1>7. ab \in Seq(Digit) /\ IsConcat(ab, a, b, 1, 5)
  <2>1. IsConcat(ab, a, b, Len(a), Len(b)) /\ ab \in Seq(Digit)
    BY <1>3, <1>5, ConcatIs
  <2> QED
    BY <1>3, <1>5, <2>1
<1> HIDE DEF ab
<1> DEFINE abc == ab \o c
<1>8. abc \in Seq(Digit) /\ IsConcat(abc, ab, c, 6, 1)
  <2>1. Len(ab) = 6
    BY <1>7 DEF IsConcat
  <2>2. IsConcat(abc, ab, c, Len(ab), Len(c)) /\ abc \in Seq(Digit)
    BY <1>3, <1>7, ConcatIs
  <2> QED
    BY <1>3, <2>1, <2>2
<1> HIDE DEF abc
<1> DEFINE abcd == abc \o d
<1>9. abcd \in Seq(Digit) /\ IsConcat(abcd, abc, d, 7, 5) /\ Len(abcd) = 12
  <2>1. Len(abc) = 7
    BY <1>8 DEF IsConcat
  <2>2. IsConcat(abcd, abc, d, Len(abc), Len(d)) /\ abcd \in Seq(Digit)
    BY <1>5, <1>8, ConcatIs
  <2>3. IsConcat(abcd, abc, d, 7, 5)
    BY <1>5, <2>1, <2>2
  <2>4. Len(abcd) = 12
    BY <2>3 DEF IsConcat
  <2> QED
    BY <2>2, <2>3, <2>4
<1> HIDE DEF abcd
<1>10. abcd \in Seq(Byte)
  BY <1>2, <1>9
<1> DEFINE s == abcd \o p
<1>11. s \in Seq(Byte) /\ IsConcat(s, abcd, p, 12, Len(p))
  <2>1. IsConcat(s, abcd, p, Len(abcd), Len(p)) /\ s \in Seq(Byte)
    BY <1>4, <1>10, ConcatIs
  <2> QED
    BY <1>9, <2>1
<1>12. Serialize(f) = s
  BY <1>6 DEF ab, abc, abcd
<1> HIDE DEF s
<1>13. \A i \in 1 .. 12 : s[i] = abcd[i] /\ abcd[i] \in Digit
  <2>1. \A i \in 1 .. Len(abcd) : abcd[i] \in Digit
    <3>1. abcd \in Seq(Digit)
      BY <1>9
    <3> QED
      BY <3>1, ElementsIn
  <2> QED
    BY <1>9, <1>11, <2>1 DEF IsConcat
<1>14. /\ s[1] = a[1] /\ s[7] = c[1]
       /\ \A i \in 1 .. 5 : s[1 + i] = b[i]
       /\ \A i \in 1 .. 5 : s[7 + i] = d[i]
  <2>1. s[1] = a[1] /\ s[7] = c[1]
    BY <1>7, <1>8, <1>9, <1>11 DEF IsConcat
  <2>2. ASSUME NEW i \in 1 .. 5 PROVE s[1 + i] = b[i] /\ s[7 + i] = d[i]
    <3>1. 1 + i \in 1 .. 6 /\ 1 + i \in 1 .. 7 /\ 1 + i \in 1 .. 12 /\ 7 + i \in 1 .. 12
      OBVIOUS
    <3> QED
      BY <1>7, <1>8, <1>9, <1>11, <3>1 DEF IsConcat
  <2> QED
    BY <2>1, <2>2
<1> QED
  BY <1>3, <1>11, <1>12, <1>13, <1>14 DEF b, d, p, IsConcat

\* What begins with the bytes of a frame or packet without NUL is read as that one,
\* whatever follows in memory.  (Frame::Serialize and Unserialize, and Packet's.)
THEOREM FormatReadBack ==
  ASSUME NEW f \in Format, Len(f.payload) <= MAX_SEQ,
         \A i \in 1 .. Len(f.payload) : f.payload[i] # NUL,
         NEW d \in Seq(Byte), Len(Serialize(f)) <= Len(d),
         \A i \in 1 .. Len(Serialize(f)) : d[i] = Serialize(f)[i],
         NEW fill
  PROVE  Unserialize(d, fill) = f
<1> DEFINE s == Serialize(f)
           n == Len(f.payload)
           str == CString(d)
<1>1. /\ f.type \in {DATA, ACK} /\ f.seq \in 0 .. MAX_SEQ /\ f.end \in BOOLEAN /\ f.payload \in Seq(Byte)
      /\ n \in Nat /\ n \in 0 .. MAX_SEQ
      /\ f = [type |-> f.type, seq |-> f.seq, end |-> f.end, payload |-> f.payload]
  BY MaxSeq DEF Format
<1>2. /\ s \in Seq(Byte) /\ Len(s) = 12 + n
      /\ s[1] = Flag(f.type = ACK)
      /\ s[7] = Flag(f.end)
      /\ \A i \in 1 .. 5 : s[1 + i] = itoa(f.seq)[i]
      /\ \A i \in 1 .. 5 : s[7 + i] = itoa(n)[i]
      /\ \A i \in 1 .. n : s[12 + i] = f.payload[i]
      /\ \A i \in 1 .. 12 : s[i] \in Digit
  BY SerializeIs
<1>d. Len(d) \in Nat /\ Len(s) <= Len(d) /\ \A i \in 1 .. Len(s) : d[i] = s[i]
  OBVIOUS
<1>p. \A i \in 1 .. n : f.payload[i] # NUL
  OBVIOUS
<1> HIDE DEF s, n
<1>3. \A i \in 1 .. Len(s) : d[i] # NUL
  <2>1. \A x \in Digit : x # NUL
    BY DEF Digit, NUL
  <2> SUFFICES ASSUME NEW i \in 1 .. Len(s) PROVE s[i] # NUL
    BY <1>d
  <2>2. CASE i \in 1 .. 12
    BY <1>2, <2>1, <2>2
  <2>3. CASE i > 12
    <3>1. i - 12 \in 1 .. n /\ 12 + (i - 12) = i
      BY <1>1, <1>2, <2>3
    <3> QED
      BY <1>2, <1>p, <3>1
  <2> QED
    BY <2>2, <2>3
<1>4. str \in Seq(Byte) /\ Len(str) \in Nat /\ Len(str) >= 12 + n /\ \A i \in 1 .. 12 + n : str[i] = s[i]
  <2>1. Len(s) \in 0 .. Len(d)
    BY <1>1, <1>2, <1>d
  <2>2. str \in Seq(Byte) /\ Len(str) >= Len(s) /\ \A i \in 1 .. Len(s) : str[i] = d[i]
    BY <1>3, <2>1, CStringIs
  <2>3. Len(str) \in Nat
    BY <2>2
  <2> HIDE DEF str
  <2> QED
    BY <1>2, <1>d, <2>2, <2>3
<1> HIDE DEF str
<1>5. Digit \subseteq Byte
  BY DEF Digit, Byte
<1>6. substr(str, 1, 5) = itoa(f.seq)
  <2> DEFINE t == itoa(f.seq)
  <2>1. t \in Seq(Byte) /\ Len(t) = 5
    BY <1>1, <1>5, itoaDigits
  <2>2. \A i \in 1 .. 5 : s[1 + i] = t[i]
    BY <1>2
  <2> HIDE DEF t
  <2>3. \A i \in 1 .. 5 : 1 + i \in 1 .. 12 + n
    BY <1>1
  <2>4. \A i \in 1 .. Len(t) : str[1 + i] = t[i]
    BY <1>4, <2>1, <2>2, <2>3
  <2>5. 1 + Len(t) <= Len(str)
    BY <1>1, <1>4, <2>1
  <2>6. str \in Seq(Byte) /\ t \in Seq(Byte) /\ 1 \in Nat
    BY <1>4, <2>1
  <2>7. substr(str, 1, Len(t)) = t
    BY <2>4, <2>5, <2>6, substrIs
  <2> QED
    BY <2>1, <2>7 DEF t
<1>7. substr(str, 7, 5) = itoa(n)
  <2> DEFINE t == itoa(n)
  <2>1. t \in Seq(Byte) /\ Len(t) = 5
    BY <1>1, <1>5, itoaDigits
  <2>2. \A i \in 1 .. 5 : s[7 + i] = t[i]
    BY <1>2
  <2> HIDE DEF t
  <2>3. \A i \in 1 .. 5 : 7 + i \in 1 .. 12 + n
    BY <1>1
  <2>4. \A i \in 1 .. Len(t) : str[7 + i] = t[i]
    BY <1>4, <2>1, <2>2, <2>3
  <2>5. 7 + Len(t) <= Len(str)
    BY <1>1, <1>4, <2>1
  <2>6. str \in Seq(Byte) /\ t \in Seq(Byte) /\ 7 \in Nat
    BY <1>4, <2>1
  <2>7. substr(str, 7, Len(t)) = t
    BY <2>4, <2>5, <2>6, substrIs
  <2> QED
    BY <2>1, <2>7 DEF t
<1>8. substr(str, 12, n) = f.payload
  <2>1. \A i \in 1 .. n : 12 + i \in 1 .. 12 + n
    BY <1>1
  <2>2. \A i \in 1 .. n : str[12 + i] = f.payload[i]
    BY <1>2, <1>4, <2>1
  <2> DEFINE t == f.payload
  <2>3. n = Len(t) /\ t \in Seq(Byte) /\ \A i \in 1 .. n : str[12 + i] = t[i]
    BY <1>1, <2>2 DEF n
  <2> HIDE DEF t
  <2>4. substr(str, 12, Len(t)) = t
    BY <1>1, <1>4, <2>3, substrIs
  <2> QED
    BY <2>3, <2>4 DEF t
<1>9. atoi(substr(str, 1, 5)) % (MAX_SEQ + 1) = f.seq /\ atoi(substr(str, 7, 5)) % (MAX_SEQ + 1) = n
  BY <1>1, <1>6, <1>7, NumberReadBack
<1>10. Copy(substr(str, 12, n), n, fill) = f.payload
  <2>1. Copy(f.payload, Len(f.payload), fill) = f.payload
    BY <1>1, CopyIs
  <2> QED
    BY <1>8, <2>1 DEF n
<1>11. (IF d[1] = 48 THEN DATA ELSE ACK) = f.type /\ (d[7] # 48) = f.end
  <2>1. d[1] = Flag(f.type = ACK) /\ d[7] = Flag(f.end)
    <3>1. 1 \in 1 .. Len(s) /\ 7 \in 1 .. Len(s)
      BY <1>1, <1>2
    <3> QED
      BY <1>2, <1>d, <3>1
  <2> QED
    BY <1>1, <2>1 DEF Flag, DATA, ACK
<1>12. Unserialize(d, fill) =
         [type    |-> IF d[1] = 48 THEN DATA ELSE ACK,
          seq     |-> atoi(substr(str, 1, 5)) % (MAX_SEQ + 1),
          end     |-> d[7] # 48,
          payload |-> Copy(substr(str, 12, atoi(substr(str, 7, 5)) % (MAX_SEQ + 1)),
                           atoi(substr(str, 7, 5)) % (MAX_SEQ + 1), fill)]
  BY DEF Unserialize, str
<1> QED
  BY <1>1, <1>9, <1>10, <1>11, <1>12

\* What begins with twelve digits has the header of a frame.
LEMMA ReadableIs ==
  ASSUME NEW d \in Seq(Byte), Len(d) >= 12, \A i \in 1 .. 12 : d[i] \in Digit
  PROVE  Readable(d)
<1>1. \A i \in 1 .. 12 : d[i] # NUL
  <2>1. \A x \in Digit : x # NUL
    BY DEF Digit, NUL
  <2> QED
    BY <2>1
<1>2. 12 \in 0 .. Len(d)
  OBVIOUS
<1>3. CString(d) \in Seq(Byte) /\ Len(CString(d)) >= 12
  BY <1>1, <1>2, CStringIs
<1> QED
  BY <1>3 DEF Readable, InRange, FRAME_HEAD

-----------------------------------------------------------------------------
(* What Unserialize reads has the format of a frame, whatever the bytes are. *)

\* v is the function of Value, for the first n bytes of t.
ValuesTo(v, t, n) == v = [i \in 0 .. n |-> IF i = 0 THEN 0 ELSE 10 * v[i - 1] + t[i] - 48]

LEMMA ValuesToExist ==
  ASSUME NEW t
  PROVE  \A n \in Nat : \E v : ValuesTo(v, t, n)
<1> DEFINE S == {n \in Nat : \E v : ValuesTo(v, t, n)}
<1>1. 0 \in S
  <2>1. ValuesTo([i \in 0 .. 0 |-> 0], t, 0)
    BY DEF ValuesTo
  <2> QED
    BY <2>1
<1>2. ASSUME NEW n \in Nat, n \in S PROVE n + 1 \in S
  <2>1. PICK f : ValuesTo(f, t, n)
    BY <1>2
  <2>s. \A i \in 0 .. n : f[i] = IF i = 0 THEN 0 ELSE 10 * f[i - 1] + t[i] - 48
    BY <2>1 DEF ValuesTo
  <2> DEFINE e == 10 * f[n] + t[n + 1] - 48
             g == [i \in 0 .. n + 1 |-> IF i = n + 1 THEN e ELSE f[i]]
             h == [i \in 0 .. n + 1 |-> IF i = 0 THEN 0 ELSE 10 * g[i - 1] + t[i] - 48]
  <2>2. \A i \in 0 .. n : g[i] = f[i]
    OBVIOUS
  <2>3. g[n + 1] = e /\ g[(n + 1) - 1] = f[n]
    BY <2>2
  <2>4. ASSUME NEW i \in 0 .. n + 1 PROVE g[i] = h[i]
    <3>0. h[i] = IF i = 0 THEN 0 ELSE 10 * g[i - 1] + t[i] - 48
      OBVIOUS
    <3> HIDE DEF g, h
    <3>1. CASE i = n + 1
      <4>1. i # 0 /\ g[i - 1] = f[n]
        BY <2>3, <3>1
      <4> QED
        BY <2>3, <3>0, <3>1, <4>1
    <3>2. CASE i \in 0 .. n
      <4>1. i # 0 => i - 1 \in 0 .. n
        BY <3>2
      <4> QED
        BY <2>2, <2>s, <3>0, <3>2, <4>1
    <3> QED
      BY <3>1, <3>2
  <2>5. g = h
    <3>1. g = [i \in 0 .. n + 1 |-> g[i]] /\ h = [i \in 0 .. n + 1 |-> h[i]]
      OBVIOUS
    <3> HIDE DEF g, h
    <3> QED
      BY <2>4, <3>1, Zenon
  <2>6. ValuesTo(g, t, n + 1)
    <3> HIDE DEF g
    <3> QED
      BY <2>5 DEF ValuesTo
  <2> QED
    BY <2>6
<1> HIDE DEF S
<1>3. \A n \in Nat : n \in S
  BY <1>1, <1>2, NatSet
<1> QED
  BY <1>3 DEF S

LEMMA ValueInt ==
  ASSUME NEW t \in Seq(Byte), NEW n \in 0 .. Len(t)
  PROVE  Value(t, n) \in Int
<1> DEFINE v == CHOOSE v : ValuesTo(v, t, n)
<1>0. n \in Nat /\ Len(t) \in Nat
  OBVIOUS
<1>1. Value(t, n) = v[n]
  BY DEF Value, ValuesTo
<1>2. ValuesTo(v, t, n)
  BY <1>0, ValuesToExist
<1> HIDE DEF v
<1>3. \A i \in 0 .. n : v[i] = IF i = 0 THEN 0 ELSE 10 * v[i - 1] + t[i] - 48
  BY <1>2 DEF ValuesTo
<1>4. \A i \in 1 .. n : t[i] \in Int
  <2>1. \A x \in Byte : x \in Int
    BY DEF Byte
  <2>2. \A i \in 1 .. Len(t) : t[i] \in Byte
    OBVIOUS
  <2> QED
    BY <1>0, <2>1, <2>2
<1> DEFINE S == {i \in Nat : i <= n => v[i] \in Int}
<1>5. 0 \in S
  BY <1>3
<1>6. ASSUME NEW i \in Nat, i \in S PROVE i + 1 \in S
  <2> SUFFICES ASSUME i + 1 <= n PROVE v[i + 1] \in Int
    OBVIOUS
  <2>1. v[i] \in Int /\ i + 1 \in 1 .. n /\ i + 1 \in 0 .. n /\ i + 1 # 0 /\ (i + 1) - 1 = i
    BY <1>0, <1>6
  <2>2. v[i + 1] = 10 * v[(i + 1) - 1] + t[i + 1] - 48 /\ t[i + 1] \in Int
    BY <1>3, <1>4, <2>1
  <2> QED
    BY <2>1, <2>2
<1>7. \A i \in Nat : i \in S
  <2> HIDE DEF S
  <2> QED
    BY <1>5, <1>6, NatSet
<1> QED
  BY <1>0, <1>1, <1>7

LEMMA atoiInt ==
  ASSUME NEW s \in Seq(Byte)
  PROVE  atoi(s) \in Int
<1> DEFINE blanks == FirstNotIn(s, Blank)
           t == IF blanks = 0 THEN <<>> ELSE SubSeq(s, blanks, Len(s))
           u == IF t # <<>> /\ t[1] \in {43, 45} THEN Tail(t) ELSE t
           stop == FirstNotIn(u, Digit)
           n == IF stop = 0 THEN Len(u) ELSE stop - 1
<1>1. t \in Seq(Byte)
  <2>1. blanks \in 0 .. Len(s)
    BY FirstNotInIs
  <2> HIDE DEF blanks
  <2> QED
    BY <2>1
<1> HIDE DEF t
<1>2. u \in Seq(Byte)
  BY <1>1
<1> HIDE DEF u
<1>3. n \in 0 .. Len(u)
  <2>1. stop \in 0 .. Len(u)
    BY <1>2, FirstNotInIs
  <2>2. Len(u) \in Nat
    BY <1>2
  <2> HIDE DEF stop
  <2> QED
    BY <2>1, <2>2
<1>4. Value(u, n) \in Int
  BY <1>2, <1>3, ValueInt
<1> HIDE DEF n
<1>5. atoi(s) = IF t # <<>> /\ t[1] = 45 THEN 0 - Value(u, n) ELSE Value(u, n)
  BY DEF atoi, t, u, n
<1> QED
  BY <1>4, <1>5

LEMMA substrTyped ==
  ASSUME NEW s \in Seq(Byte), NEW m \in Nat, NEW n \in Nat
  PROVE  substr(s, m, n) \in Seq(Byte) /\ Len(substr(s, m, n)) <= n
BY DEF substr

LEMMA CStringTyped ==
  ASSUME NEW d \in Seq(Byte)
  PROVE  CString(d) \in Seq(Byte)
<1>1. 0 \in 0 .. Len(d)
  OBVIOUS
<1> QED
  BY <1>1, CStringIs

LEMMA UnserializeTyped ==
  ASSUME NEW d \in Seq(Byte), NEW fill \in Byte
  PROVE  /\ Unserialize(d, fill) \in Format
         /\ Unserialize(d, fill).type = IF d[1] = 48 THEN DATA ELSE ACK
<1> DEFINE str == CString(d)
           n == atoi(substr(str, 7, 5)) % (MAX_SEQ + 1)
           q == atoi(substr(str, 1, 5)) % (MAX_SEQ + 1)
           c == substr(str, 12, n)
           p == Copy(c, n, fill)
<1>1. str \in Seq(Byte)
  BY CStringTyped
<1> HIDE DEF str
<1>2. \A a \in Int : a % (MAX_SEQ + 1) \in 0 .. MAX_SEQ
  BY SMT DEF MAX_SEQ
<1>3. n \in 0 .. MAX_SEQ /\ q \in 0 .. MAX_SEQ
  <2>1. substr(str, 7, 5) \in Seq(Byte) /\ substr(str, 1, 5) \in Seq(Byte)
    BY <1>1, substrTyped
  <2> QED
    BY <1>2, <2>1, atoiInt
<1>4. n \in Nat
  BY <1>3, MaxSeq
<1>5. Unserialize(d, fill) = [type    |-> IF d[1] = 48 THEN DATA ELSE ACK, seq |-> q,
                              end     |-> d[7] # 48, payload |-> p]
  BY DEF Unserialize, str
<1> HIDE DEF n, q
<1>6. c \in Seq(Byte)
  BY <1>1, <1>4, substrTyped
<1> HIDE DEF c
<1>7. p \in Seq(Byte)
  <2>1. p = [i \in 1 .. n |-> IF i <= Len(c) THEN c[i] ELSE IF i = Len(c) + 1 THEN NUL ELSE fill]
    BY DEF Copy
  <2>2. NUL \in Byte
    BY DEF NUL, Byte
  <2>3. \A i \in 1 .. n : (IF i <= Len(c) THEN c[i] ELSE IF i = Len(c) + 1 THEN NUL ELSE fill) \in Byte
    BY <1>4, <1>6, <2>2
  <2> HIDE DEF p
  <2> QED
    BY <1>4, <2>1, <2>3
<1> HIDE DEF p
<1>8. (IF d[1] = 48 THEN DATA ELSE ACK) \in {DATA, ACK} /\ (d[7] # 48) \in BOOLEAN
  OBVIOUS
<1> QED
  BY <1>3, <1>5, <1>7, <1>8 DEF Format

LEMMA BlockIs ==
  ASSUME NEW s \in Seq(Byte), NEW n \in Nat, Len(s) <= n, NEW fill \in Byte
  PROVE  /\ Block(s, n, fill) \in Seq(Byte) /\ Len(Block(s, n, fill)) = n + 2
         /\ \A i \in 1 .. Len(s) : Block(s, n, fill)[i] = s[i]
<1> DEFINE j == [i \in 1 .. n - Len(s) |-> fill]
           e == <<fill, NUL>>
           sj == s \o j
<1>1. Len(s) \in Nat /\ n - Len(s) \in Nat
  OBVIOUS
<1>2. j \in Seq(Byte) /\ Len(j) = n - Len(s)
  BY <1>1
<1>3. e \in Seq(Byte) /\ Len(e) = 2
  BY DEF NUL, Byte
<1>4. Block(s, n, fill) = sj \o e
  BY DEF Block
<1> HIDE DEF j, e
<1>5. sj \in Seq(Byte) /\ Len(sj) = n /\ \A i \in 1 .. Len(s) : sj[i] = s[i]
  <2>1. sj \in Seq(Byte) /\ IsConcat(sj, s, j, Len(s), Len(j))
    BY <1>2, ConcatIs
  <2> HIDE DEF sj
  <2> QED
    BY <1>1, <1>2, <2>1 DEF IsConcat
<1> HIDE DEF sj
<1>6. sj \o e \in Seq(Byte) /\ IsConcat(sj \o e, sj, e, n, 2)
  BY <1>3, <1>5, ConcatIs
<1>7. Len(sj \o e) = n + 2 /\ \A i \in 1 .. n : (sj \o e)[i] = sj[i]
  BY <1>6 DEF IsConcat
<1> QED
  BY <1>1, <1>4, <1>5, <1>6, <1>7

-----------------------------------------------------------------------------
(* The check field.                                                        *)

LEMMA SignExtendedIs ==
  ASSUME NEW a \in Byte, NEW b \in Byte
  PROVE  SignExtended(a) = b <=> a = b /\ a <= 127
BY DEF SignExtended, Byte

LEMMA FrameValidIs ==
  ASSUME NEW s \in Seq(Byte), NEW x \in Byte, NEW y \in Byte, NEW before
  PROVE  FrameValid(s \o <<x, y>>, before) <=>
           x = Fold(s, 1) /\ x <= 127 /\ y = Fold(s, 0) /\ y <= 127
<1> DEFINE e == <<x, y>>
           u == s \o e
           at(i) == IF i < 1 THEN before ELSE u[i]
<1>1. e \in Seq(Byte) /\ Len(e) = 2 /\ e[1] = x /\ e[2] = y /\ Len(s) \in Nat
  OBVIOUS
<1> HIDE DEF e
<1>2. u \in Seq(Byte) /\ IsConcat(u, s, e, Len(s), 2)
  BY <1>1, ConcatIs
<1> HIDE DEF u
<1>3. /\ Len(u) - FRAME_TAIL = Len(s) /\ u[Len(s) + 1] = x /\ u[Len(s) + 2] = y
      /\ Len(u) \in Nat /\ Len(s) <= Len(u) /\ \A i \in 1 .. Len(s) : u[i] = s[i]
  BY <1>1, <1>2 DEF IsConcat, FRAME_TAIL
<1>4. SubSeq(u, 1, Len(s)) = s
  <2>1. 0 + Len(s) <= Len(u) /\ 0 + 1 = 1 /\ 0 + Len(s) = Len(s) /\ 0 \in Nat
    BY <1>1, <1>3
  <2>2. \A i \in 1 .. Len(s) : u[0 + i] = s[i]
    BY <1>3
  <2>3. SubSeq(u, 0 + 1, 0 + Len(s)) = s
    BY <1>2, <2>1, <2>2, SubSeqIs
  <2> QED
    BY <2>1, <2>3
<1>5. at(Len(s) + 1) = x /\ at(Len(s) + 2) = y
  BY <1>1, <1>3
<1> HIDE DEF at
<1>6. FrameValid(u, before) <=> SignExtended(x) = Fold(s, 1) /\ SignExtended(y) = Fold(s, 0)
  BY <1>3, <1>4, <1>5 DEF FrameValid, at
<1>7. Fold(s, 1) \in Byte /\ Fold(s, 0) \in Byte
  BY FoldTyped
<1> QED
  BY <1>6, <1>7, SignExtendedIs DEF u, e

\* A frame and its check field are refused when a check byte is above 127, only.
LEMMA FrameValidAlone ==
  ASSUME NEW s \in Seq(Byte), NEW before
  PROVE  FrameValid(FoldSerializedFrame(s), before) <=> Fold(s, 0) <= 127 /\ Fold(s, 1) <= 127
<1>1. Fold(s, 1) \in Byte /\ Fold(s, 0) \in Byte
  BY FoldTyped
<1> QED
  BY <1>1, FrameValidIs DEF FoldSerializedFrame

\* Behind a frame of even length and its check field the check is the second one's:
\* two frames in one buffer are accepted whenever the second one would be by itself.
\* (FoldSerializedFrame, FrameValid.)
THEOREM MergedCheck ==
  ASSUME NEW s \in Seq(Byte), Len(s) % 2 = 0, NEW t \in Seq(Byte), NEW before
  PROVE  FrameValid(FoldSerializedFrame(s) \o FoldSerializedFrame(t), before)
           <=> Fold(t, 0) <= 127 /\ Fold(t, 1) <= 127
<1> DEFINE c == FoldSerializedFrame(s)
           e == <<Fold(t, 1), Fold(t, 0)>>
<1>1. Fold(s, 0) \in Byte /\ Fold(s, 1) \in Byte /\ Fold(t, 0) \in Byte /\ Fold(t, 1) \in Byte
  BY FoldTyped
<1>2. c \in Seq(Byte) /\ Len(c) = Len(s) + 2
  BY <1>1 DEF FoldSerializedFrame
<1>3. Len(c) % 2 = 0
  BY <1>2
<1>4. Fold(c, 0) = 0 /\ Fold(c, 1) = 0
  BY FoldChecked
<1>5. e \in Seq(Byte)
  BY <1>1
<1>6. FoldSerializedFrame(t) = t \o e
  BY DEF FoldSerializedFrame
<1> HIDE DEF c
<1>7. c \o (t \o e) = (c \o t) \o e
  <2> HIDE DEF e
  <2> QED
    BY <1>2, <1>5
<1>8. c \o t \in Seq(Byte)
  BY <1>2
<1>9. Fold(c \o t, 0) = Fold(t, 0) /\ Fold(c \o t, 1) = Fold(t, 1)
  <2>1. Fold(c \o t, 0) = Xor(Fold(c, 0), Fold(t, 0)) /\ Fold(c \o t, 1) = Xor(Fold(c, 1), Fold(t, 1))
    BY <1>2, <1>3, FoldConcat
  <2> QED
    BY <1>1, <1>4, <2>1, XorGroup
<1>10. FrameValid((c \o t) \o e, before) <=>
         Fold(t, 1) = Fold(c \o t, 1) /\ Fold(t, 1) <= 127 /\ Fold(t, 0) = Fold(c \o t, 0) /\ Fold(t, 0) <= 127
  BY <1>1, <1>8, FrameValidIs
<1> QED
  BY <1>6, <1>7, <1>9, <1>10 DEF c

-----------------------------------------------------------------------------
(* Short sequences, and numbers between other bytes.                       *)

LEMMA OfSome ==
  ASSUME NEW S, NEW s \in Seq(S), s # <<>>
  PROVE  /\ Len(s) \in Nat /\ \A i \in 1 .. Len(s) : s[i] \in S
         /\ s = [i \in 1 .. Len(s) |-> s[i]]
         /\ Tail(s) = [i \in 1 .. Len(s) - 1 |-> s[i + 1]]
         /\ \A x \in S : Append(s, x) = [i \in 1 .. Len(s) + 1 |-> IF i = Len(s) + 1 THEN x ELSE s[i]]
<1> DEFINE n == Len(s)
<1>1. n \in Nat /\ n - 1 \in Nat /\ \A i \in 1 .. n : s[i] \in S
  OBVIOUS
<1>2. s = [i \in 1 .. n |-> s[i]]
  OBVIOUS
<1>3. Tail(s) = [i \in 1 .. n - 1 |-> s[i + 1]]
  <2> DEFINE t == Tail(s)
             g == [i \in 1 .. n - 1 |-> s[i + 1]]
  <2>1. t \in Seq(S) /\ Len(t) = n - 1 /\ \A i \in 1 .. n - 1 : t[i] = s[i + 1]
    OBVIOUS
  <2> HIDE DEF n, t
  <2>2. \A i \in 1 .. n - 1 : i + 1 \in 1 .. n
    BY <1>1
  <2>3. g \in Seq(S) /\ Len(g) = n - 1 /\ \A i \in 1 .. n - 1 : g[i] = s[i + 1]
    BY <1>1, <2>2
  <2> HIDE DEF g
  <2>4. t = g
    BY <2>1, <2>3, SameSeq
  <2> QED
    BY <2>4 DEF t, g, n
<1>4. ASSUME NEW x \in S
      PROVE  Append(s, x) = [i \in 1 .. n + 1 |-> IF i = n + 1 THEN x ELSE s[i]]
  <2> DEFINE t == Append(s, x)
             g == [i \in 1 .. n + 1 |-> IF i = n + 1 THEN x ELSE s[i]]
  <2>1. t \in Seq(S) /\ Len(t) = n + 1 /\ t[n + 1] = x /\ \A i \in 1 .. n : t[i] = s[i]
    OBVIOUS
  <2> HIDE DEF n, t
  <2>2. \A i \in 1 .. n + 1 : i = n + 1 \/ (i # n + 1 /\ i \in 1 .. n)
    BY <1>1
  <2>3. g \in Seq(S) /\ Len(g) = n + 1 /\ \A i \in 1 .. n + 1 : g[i] = IF i = n + 1 THEN x ELSE s[i]
    BY <1>1, <2>2
  <2> HIDE DEF g
  <2>5. \A i \in 1 .. n + 1 : t[i] = g[i]
    BY <2>1, <2>2, <2>3
  <2>4. t = g
    BY <2>1, <2>3, <2>5, SameSeq
  <2> QED
    BY <2>4 DEF t, g, n
<1> QED
  BY <1>1, <1>2, <1>3, <1>4

LEMMA OfOne ==
  ASSUME NEW S, NEW s \in Seq(S), Len(s) = 1
  PROVE  s[1] \in S /\ s = <<s[1]>> /\ Tail(s) = <<>>
<1>1. s # <<>>
  OBVIOUS
<1> DEFINE n == Len(s)
<1>2. n = 1
  OBVIOUS
<1>3. /\ \A i \in 1 .. n : s[i] \in S
      /\ s = [i \in 1 .. n |-> s[i]]
      /\ Tail(s) = [i \in 1 .. n - 1 |-> s[i + 1]]
  BY <1>1, OfSome
<1> HIDE DEF n
<1>4. s[1] \in S
  BY <1>2, <1>3
<1>5. s = [i \in 1 .. 1 |-> s[i]] /\ Tail(s) = [i \in 1 .. 1 - 1 |-> s[i + 1]]
  BY <1>2, <1>3, Zenon
<1>6. [i \in 1 .. 1 |-> s[i]] = <<s[1]>> /\ [i \in 1 .. 1 - 1 |-> s[i + 1]] = <<>>
  OBVIOUS
<1> QED
  BY <1>4, <1>5, <1>6, Zenon

LEMMA OfTwo ==
  ASSUME NEW S, NEW s \in Seq(S), Len(s) = 2
  PROVE  s[1] \in S /\ s[2] \in S /\ Tail(s) = <<s[2]>>
<1>1. s # <<>>
  OBVIOUS
<1> DEFINE n == Len(s)
<1>2. n = 2
  OBVIOUS
<1>3. /\ \A i \in 1 .. n : s[i] \in S
      /\ Tail(s) = [i \in 1 .. n - 1 |-> s[i + 1]]
  BY <1>1, OfSome
<1> HIDE DEF n
<1>4. s[1] \in S /\ s[2] \in S
  BY <1>2, <1>3
<1>5. Tail(s) = [i \in 1 .. 2 - 1 |-> s[i + 1]]
  BY <1>2, <1>3, Zenon
<1>6. [i \in 1 .. 2 - 1 |-> s[i + 1]] = <<s[2]>>
  OBVIOUS
<1> QED
  BY <1>4, <1>5, <1>6, Zenon

LEMMA OfTwoMade ==
  ASSUME NEW S, NEW s \in Seq(S), Len(s) = 1, NEW x \in S
  PROVE  Len(Append(s, x)) = 2 /\ Append(s, x)[1] = s[1] /\ Append(s, x)[2] = x
<1>1. s # <<>>
  OBVIOUS
<1> DEFINE n == Len(s)
           t == Append(s, x)
<1>2. n = 1
  OBVIOUS
<1>3. t = [i \in 1 .. n + 1 |-> IF i = n + 1 THEN x ELSE s[i]]
  BY <1>1, OfSome
<1> HIDE DEF n, t
<1>4. t = [i \in 1 .. 1 + 1 |-> IF i = 1 + 1 THEN x ELSE s[i]]
  BY <1>2, <1>3, Zenon
<1>5. [i \in 1 .. 1 + 1 |-> IF i = 1 + 1 THEN x ELSE s[i]] = <<s[1], x>>
  OBVIOUS
<1>6. t = <<s[1], x>>
  BY <1>4, <1>5, Zenon
<1>7. Len(<<s[1], x>>) = 2 /\ <<s[1], x>>[1] = s[1] /\ <<s[1], x>>[2] = x
  OBVIOUS
<1> QED
  BY <1>6, <1>7, Zenon DEF t

LEMMA substrAt ==
  ASSUME NEW S, NEW s \in Seq(S), NEW m \in Nat, NEW n \in Nat, m + n <= Len(s)
  PROVE  /\ substr(s, m, n) \in Seq(S) /\ Len(substr(s, m, n)) = n
         /\ \A i \in 1 .. n : substr(s, m, n)[i] = s[m + i]
<1>1. Len(s) \in Nat
  OBVIOUS
<1>2. (IF m + n < Len(s) THEN m + n ELSE Len(s)) = m + n
  BY <1>1
<1>3. substr(s, m, n) = SubSeq(s, m + 1, m + n)
  BY <1>2 DEF substr
<1> DEFINE u == SubSeq(s, m + 1, m + n)
<1>4. u \in Seq(S) /\ Len(u) = n
  BY <1>1
<1>5. \A i \in 1 .. n : u[i] = s[m + i]
  BY <1>1
<1> HIDE DEF u
<1> QED
  BY <1>3, <1>4, <1>5 DEF u

LEMMA FirstNotInAt ==
  ASSUME NEW T, NEW s \in Seq(T), NEW S, NEW n \in Nat, n + 1 <= Len(s),
         \A i \in 1 .. n : s[i] \in S, s[n + 1] \notin S
  PROVE  FirstNotIn(s, S) = n + 1
<1> DEFINE I == {i \in 1 .. Len(s) : s[i] \notin S}
<1>1. FirstNotIn(s, S) = IF I # {} THEN Min(I) ELSE 0
  BY DEF FirstNotIn, SelectInSeq
<1>2. I \subseteq Nat /\ n + 1 \in I /\ \A i \in I : ~(i < n + 1)
  OBVIOUS
<1> HIDE DEF I
<1>3. I # {}
  BY <1>2
<1>4. Min(I) \in I /\ \A y \in I : Min(I) <= y
  BY <1>2, <1>3, MinIsLeast
<1> DEFINE m == Min(I)
<1>5. m \in Nat /\ ~(m < n + 1) /\ m <= n + 1
  BY <1>2, <1>4
<1>6. m = n + 1
  <2> HIDE DEF m
  <2> QED
    BY <1>5
<1> QED
  BY <1>1, <1>3, <1>6

\* Digits to the end, or to the first other byte.
LEMMA atoiIs ==
  ASSUME NEW t \in Seq(Byte), NEW n \in 1 .. Len(t), \A i \in 1 .. n : t[i] \in Digit,
         n = Len(t) \/ t[n + 1] \notin Digit
  PROVE  atoi(t) = Value(t, n)
<1>1. \A x \in Digit : x \notin Blank /\ x \notin {43, 45}
  BY DEF Digit, Blank
<1>2. t # <<>> /\ t[1] \in Digit /\ SubSeq(t, 1, Len(t)) = t /\ Len(t) \in Nat /\ n \in Nat /\ n <= Len(t)
  OBVIOUS
<1>3. FirstNotIn(t, Blank) = 1
  BY <1>1, <1>2, FirstNotInIs
<1>5. FirstNotIn(t, Digit) = IF n = Len(t) THEN 0 ELSE n + 1
  <2>1. CASE n = Len(t)
    BY <2>1, FirstNotInIs
  <2>2. CASE n # Len(t)
    <3> DEFINE l == Len(t)
    <3>1. n \in Nat /\ l \in Nat /\ n <= l /\ n # l
      BY <1>2, <2>2
    <3>2. t[n + 1] \notin Digit
      BY <2>2, Zenon
    <3> HIDE DEF l
    <3>3. n + 1 <= l
      BY <3>1
    <3>4. FirstNotIn(t, Digit) = n + 1
      BY <3>1, <3>2, <3>3, FirstNotInAt DEF l
    <3> QED
      BY <2>2, <3>4
  <2> QED
    BY <2>1, <2>2
<1>4. t[1] \notin {43, 45} /\ t[1] # 45
  BY <1>1, <1>2
<1> QED
  <2> DEFINE blanks == FirstNotIn(t, Blank)
             x == IF blanks = 0 THEN <<>> ELSE SubSeq(t, blanks, Len(t))
             u == IF x # <<>> /\ x[1] \in {43, 45} THEN Tail(x) ELSE x
             stop == FirstNotIn(u, Digit)
             l == IF stop = 0 THEN Len(u) ELSE stop - 1
             value == Value(u, l)
  <2>1. x = t
    <3> HIDE DEF u
    <3>1. blanks = 1 /\ 1 # 0
      BY <1>3
    <3> QED
      BY <1>2, <3>1, Zenon
  <2>2. u = t
    <3> HIDE DEF x
    <3> QED
      BY <1>4, <2>1
  <2>3. value = Value(t, n)
    <3> HIDE DEF u
    <3>1. l = n
      <4>1. stop = IF n = Len(t) THEN 0 ELSE n + 1
        BY <1>5, <2>2
      <4> HIDE DEF stop
      <4>a. \A y \in Nat : y + 1 # 0 /\ (y + 1) - 1 = y
        OBVIOUS
      <4>2. n + 1 # 0 /\ (n + 1) - 1 = n
        BY <1>2, <4>a, Zenon
      <4> QED
        BY <2>2, <4>1, <4>2, Zenon
    <3> HIDE DEF l
    <3> QED
      BY <2>2, <3>1
  <2>4. atoi(t) = IF x # <<>> /\ x[1] = 45 THEN 0 - value ELSE value
    BY DEF atoi
  <2> HIDE DEF x, value
  <2> QED
    BY <1>4, <2>1, <2>3, <2>4

LEMMA ValueOfZeros ==
  ASSUME NEW t, NEW n \in Nat, \A i \in 1 .. n : t[i] = 48
  PROVE  Value(t, n) = 0
<1> DEFINE v == CHOOSE v : ValuesTo(v, t, n)
<1>1. Value(t, n) = v[n]
  BY DEF Value, ValuesTo
<1>2. ValuesTo(v, t, n)
  BY ValuesToExist
<1> HIDE DEF v
<1>3. \A i \in 0 .. n : v[i] = IF i = 0 THEN 0 ELSE 10 * v[i - 1] + t[i] - 48
  BY <1>2 DEF ValuesTo
<1> DEFINE S == {i \in Nat : i <= n => v[i] = 0}
<1>5. 0 \in S
  BY <1>3
<1>6. ASSUME NEW i \in Nat, i \in S PROVE i + 1 \in S
  <2> SUFFICES ASSUME i + 1 <= n PROVE v[i + 1] = 0
    OBVIOUS
  <2>1. v[i] = 0 /\ i + 1 \in 1 .. n /\ i + 1 \in 0 .. n /\ i + 1 # 0 /\ (i + 1) - 1 = i
    BY <1>6
  <2>2. v[i + 1] = 10 * v[(i + 1) - 1] + t[i + 1] - 48 /\ t[i + 1] = 48
    BY <1>3, <2>1
  <2> QED
    BY <2>1, <2>2
<1>7. \A i \in Nat : i \in S
  <2> HIDE DEF S
  <2> QED
    BY <1>5, <1>6, NatSet
<1> QED
  BY <1>1, <1>7

\* The number with these four digits.
Four(a, b, c, d) == 1000 * (a - 48) + 100 * (b - 48) + 10 * (c - 48) + (d - 48)

LEMMA ValueOfFour ==
  ASSUME NEW t, NEW a \in Int, NEW b \in Int, NEW c \in Int, NEW d \in Int,
         t[1] = a, t[2] = b, t[3] = c, t[4] = d
  PROVE  Value(t, 4) = Four(a, b, c, d)
<1> DEFINE w == CHOOSE v : ValuesTo(v, t, 4)
<1>1. Value(t, 4) = w[4]
  BY DEF Value, ValuesTo
<1>2. ValuesTo(w, t, 4)
  <2>1. 4 \in Nat
    OBVIOUS
  <2> QED
    BY <2>1, ValuesToExist
<1> HIDE DEF w
<1>3. \A i \in 0 .. 4 : w[i] = IF i = 0 THEN 0 ELSE 10 * w[i - 1] + t[i] - 48
  BY <1>2 DEF ValuesTo
<1> DEFINE w1 == w[1]
           w2 == w[2]
           w3 == w[3]
           w4 == w[4]
<1>4. /\ w1 = 10 * 0 + a - 48 /\ w2 = 10 * w1 + b - 48 /\ w3 = 10 * w2 + c - 48
      /\ w4 = 10 * w3 + d - 48
  BY <1>3
<1> HIDE DEF w1, w2, w3, w4
<1>5. w1 \in Int
  BY <1>4
<1>6. w2 \in Int
  BY <1>4, <1>5
<1>7. w3 \in Int
  BY <1>4, <1>6
<1>8. w4 = 1000 * (a - 48) + 100 * (b - 48) + 10 * (c - 48) + (d - 48)
  BY <1>4, <1>5, <1>6, <1>7, SMT
<1> QED
  BY <1>1, <1>8 DEF w4, Four

LEMMA ZeroDigits ==
  ASSUME NEW w \in Nat
  PROVE  Digits(0, w) \in Seq(Digit) /\ Len(Digits(0, w)) = w /\ \A i \in 1 .. w : Digits(0, w)[i] = 48
<1>0. 0 \in Nat
  OBVIOUS
<1>1. PICK f : Lefts(f, 0, w) /\ \A i \in 1 .. w : f[i] \in Nat /\ Digits(0, w)[i] = 48 + (f[i] % 10)
  BY <1>0, DigitsAre, Zenon
<1>2. \A i \in 1 .. w : f[i] = IF i = w THEN 0 ELSE f[i + 1] \div 10
  BY <1>1, LeftsAt
<1> DEFINE S == {k \in Nat : k < w => f[w - k] = 0}
<1>3. 0 \in S
  BY <1>2
<1>4. ASSUME NEW k \in Nat, k \in S PROVE k + 1 \in S
  <2> SUFFICES ASSUME k + 1 < w PROVE f[w - (k + 1)] = 0
    OBVIOUS
  <2>1. w - (k + 1) \in 1 .. w /\ w - (k + 1) # w /\ (w - (k + 1)) + 1 = w - k /\ f[w - k] = 0
    BY <1>4
  <2>2. f[w - (k + 1)] = f[w - k] \div 10
    BY <1>2, <2>1
  <2>3. 0 \div 10 = 0
    OBVIOUS
  <2> QED
    BY <2>1, <2>2, <2>3
<1>5. \A k \in Nat : k \in S
  <2> HIDE DEF S
  <2> QED
    BY <1>3, <1>4, NatSet
<1>6. ASSUME NEW i \in 1 .. w PROVE Digits(0, w)[i] = 48
  <2>1. w - i \in Nat /\ w - i < w /\ w - (w - i) = i
    OBVIOUS
  <2>2. f[i] = 0
    BY <1>5, <2>1
  <2>3. 48 + (0 % 10) = 48
    OBVIOUS
  <2> QED
    BY <1>1, <2>2, <2>3
<1> QED
  BY <1>0, <1>6, DigitsAre

=============================================================================
