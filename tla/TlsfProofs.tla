----------------------------- MODULE TlsfProofs -----------------------------
(***************************************************************************)
(* Proofs about Tlsf.  The arithmetic of the lists comes first, then what  *)
(* each operation does to a consistent heap (Good), then the invariant:    *)
(* while the heap is up it is consistent, and its blocks in use are the    *)
(* client's.                                                               *)
(***************************************************************************)
EXTENDS Tlsf, WellFoundedInduction, TLAPS

\* A nonempty set of natural numbers has a smallest one.
LEMMA Smallest ==
  ASSUME NEW S \in SUBSET Nat, S # {} PROVE \E s \in S : \A t \in S : s <= t
  <1> DEFINE R == {ss \in Nat \X Nat : ss[1] < ss[2]}
  <1>1. IsWellFoundedOn(R, Nat)
    BY NatLessThanWellFounded DEF OpToRel
  <1>2. \E s \in S : \A t \in S : <<t, s>> \notin R
    <2> HIDE DEF R
    <2> QED BY <1>1, WFMin
  <1>3. ASSUME NEW s \in S, NEW t \in S, <<t, s>> \notin R PROVE s <= t
    BY <1>3
  <1> QED BY <1>2, <1>3

-----------------------------------------------------------------------------
(* Powers of two, and division by them.                                      *)

\* The table holds the powers of two.
LEMMA Powers ==
  /\ \A k \in 0 .. 30 : Pow2(k) \in Nat \ {0}
  /\ \A k \in 0 .. 29 : Pow2(k + 1) = 2 * Pow2(k)
  BY DEF Pow2, PowersOfTwo

\* Each is at least twice the one before.
LEMMA PowersGrow ==
  ASSUME NEW k \in 0 .. 30, NEW l \in 0 .. 30, k < l PROVE 2 * Pow2(k) <= Pow2(l)
  BY DEF Pow2, PowersOfTwo

\* Exponents add.
LEMMA PowersAdd ==
  ASSUME NEW l \in 1 .. 5, NEW k \in 0 .. 30, l <= k PROVE Pow2(k) = Pow2(l) * Pow2(k - l)
  <1> USE Powers
  <1>1. Pow2(0) = 1 /\ Pow2(1) = 2 /\ Pow2(2) = 4 /\ Pow2(3) = 8 /\ Pow2(4) = 16 /\ Pow2(5) = 32
    BY DEF Pow2, PowersOfTwo
  <1>2. k >= 1 => Pow2(k) = 2 * Pow2(k - 1)
    OBVIOUS
  <1>3. k >= 2 => Pow2(k - 1) = 2 * Pow2(k - 2)
    OBVIOUS
  <1>4. k >= 3 => Pow2(k - 2) = 2 * Pow2(k - 3)
    OBVIOUS
  <1>5. k >= 4 => Pow2(k - 3) = 2 * Pow2(k - 4)
    OBVIOUS
  <1>6. k >= 5 => Pow2(k - 4) = 2 * Pow2(k - 5)
    OBVIOUS
  <1>7. l = 1 \/ l = 2 \/ l = 3 \/ l = 4 \/ l = 5
    OBVIOUS
  <1> QED BY <1>1, <1>2, <1>3, <1>4, <1>5, <1>6, <1>7

\* The most significant bit of a size: the size lies between its power of two and the next.
LEMMA MsBitIs ==
  ASSUME NEW n \in Nat \ {0}, n < 2 * Pow2(30)
  PROVE  MsBit(n) \in 0 .. 30 /\ Pow2(MsBit(n)) <= n /\ n < 2 * Pow2(MsBit(n))
  <1>1. \E k \in 0 .. 30 : Pow2(k) <= n /\ n < 2 * Pow2(k)
    BY DEF Pow2, PowersOfTwo
  <1> QED BY <1>1 DEF MsBit

\* What div and mod are.
LEMMA DivBounds ==
  ASSUME NEW n \in Nat, NEW p \in Nat \ {0}
  PROVE  n \div p \in Nat /\ n % p \in 0 .. p - 1 /\ n = p * (n \div p) + (n % p)
  <1>1. n \div p \in Nat /\ n % p \in 0 .. p - 1
    OBVIOUS
  <1>2. n = p * (n \div p) + (n % p)
    OBVIOUS
  <1> QED BY <1>1, <1>2

\* A quotient by the width of a list is between the first list's and the last's.
LEMMA DivRange ==
  ASSUME NEW n \in Nat, NEW w \in Nat, NEW p \in Nat \ {0}, w * p <= n, n < 2 * (w * p)
  PROVE  n \div p \in w .. 2 * w - 1
  <1>1. PICK q \in Nat, r \in 0 .. p - 1 : q = n \div p /\ n = p * q + r
    BY DivBounds
  <1>2. ~(q + 1 <= w)
    <2> SUFFICES ASSUME q + 1 <= w PROVE FALSE
      OBVIOUS
    <2>1. p * (q + 1) <= p * w /\ p * (q + 1) = p * q + p
      OBVIOUS
    <2> QED BY <2>1, <1>1
  <1>3. ~(2 * w <= q)
    <2> SUFFICES ASSUME 2 * w <= q PROVE FALSE
      OBVIOUS
    <2>1. p * (2 * w) <= p * q /\ p * (2 * w) = 2 * (w * p)
      OBVIOUS
    <2> QED BY <2>1, <1>1
  <1> QED BY <1>1, <1>2, <1>3

\* A remainder from its quotient.
LEMMA ModIs ==
  ASSUME NEW x \in Nat, NEW w \in Nat, NEW p \in Nat \ {0}, w * p <= x, x < w * p + p
  PROVE  x % p = x - w * p
  <1>1. PICK q \in Nat, r \in 0 .. p - 1 : q = x \div p /\ r = x % p /\ x = p * q + r
    BY DivBounds
  <1>2. ~(w + 1 <= q)
    <2> SUFFICES ASSUME w + 1 <= q PROVE FALSE
      OBVIOUS
    <2>1. p * (w + 1) <= p * q /\ p * (w + 1) = w * p + p
      OBVIOUS
    <2> QED BY <2>1, <1>1
  <1>3. ~(q + 1 <= w)
    <2> SUFFICES ASSUME q + 1 <= w PROVE FALSE
      OBVIOUS
    <2>1. p * (q + 1) <= p * w /\ p * (q + 1) = p * q + p /\ p * w = w * p
      OBVIOUS
    <2> QED BY <2>1, <1>1
  <1>4. q = w
    BY <1>2, <1>3
  <1>5. p * w = w * p
    OBVIOUS
  <1> QED BY <1>1, <1>4, <1>5

\* The remainders of a number just above 2 s p, by p and by 2 p.
LEMMA ModOfTwo ==
  ASSUME NEW x \in Nat, NEW s \in Nat, NEW p \in Nat \ {0},
         2 * (s * p) <= x, x < 2 * (s * p) + p
  PROVE  x % p = x - 2 * (s * p) /\ x % (2 * p) = x - 2 * (s * p)
  <1> DEFINE w == 2 * s
             d == 2 * p
             u == s * p
  <1>0. u \in Nat /\ w \in Nat /\ d \in Nat \ {0}
    OBVIOUS
  <1>1. w * p = 2 * u
    OBVIOUS
  <1>2. s * d = 2 * u
    OBVIOUS
  <1>3. 2 * u <= x /\ x < 2 * u + p /\ x < 2 * u + d
    BY <1>0
  <1> HIDE DEF w, d, u
  <1>4. x % p = x - w * p
    <2>1. w * p <= x /\ x < w * p + p
      BY <1>1, <1>3
    <2> QED BY <1>0, <2>1, ModIs
  <1>5. x % d = x - s * d
    <2>1. s * d <= x /\ x < s * d + d
      BY <1>2, <1>3
    <2> QED BY <1>0, <2>1, ModIs
  <1> QED BY <1>1, <1>2, <1>4, <1>5 DEF u, d

\* Quotients are ordered as multiples are.
LEMMA DivOrder ==
  ASSUME NEW n \in Nat, NEW m \in Nat, NEW p \in Nat \ {0}
  PROVE  n \div p >= m \div p <=> n >= m - (m % p)
  <1>1. n >= m - (m % p) => n \div p >= m \div p
    OBVIOUS
  <1>2. n \div p >= m \div p => n >= m - (m % p)
    OBVIOUS
  <1> QED BY <1>1, <1>2

-----------------------------------------------------------------------------
(* The lists of sizes.                                                       *)

Width == Pow2(FliOffset + 1 - LogSli)

\* The constants as numbers: SMALL_BLOCK is the lists of one level times their width.
LEMMA Constants ==
  /\ LogSli \in 1 .. 5 /\ FliOffset \in LogSli .. 8 /\ MaxFli \in FliOffset + 2 .. 30
  /\ Sli \in Nat \ {0} /\ Small \in Nat \ {0} /\ Width \in Nat \ {0}
  /\ Small = Sli * Width /\ Small \div Sli = Width
  /\ Width \in {1, 2, 4, 8}
  /\ PoolSize \in Nat /\ PoolSize < Pow2(MaxFli) /\ PoolSize >= 8 /\ PoolSize % 8 = 0
  <1>1. LogSli \in 1 .. 5 /\ FliOffset \in LogSli .. 8 /\ MaxFli \in FliOffset + 2 .. 30
    BY TlsfAssumption
  <1>2. Sli \in Nat \ {0} /\ Small \in Nat \ {0} /\ Width \in Nat \ {0}
    BY <1>1, Powers DEF Sli, Small, Width
  <1>3. Small = Sli * Width
    BY <1>1, PowersAdd DEF Sli, Small, Width
  <1>4. Small \div Sli = Width
    <2>1. \A a \in Nat \ {0}, b \in Nat : (a * b) \div a = b
      OBVIOUS
    <2> QED BY <1>2, <1>3, <2>1
  <1>5. Width \in {1, 2, 4, 8}
    <2>1. \A w \in Nat \ {0} : 8 % w = 0 => w \in {1, 2, 4, 8}
      OBVIOUS
    <2> QED BY <1>2, <1>4, <2>1, TlsfAssumption DEF Align
  <1> QED BY <1>1, <1>2, <1>3, <1>4, <1>5, TlsfAssumption DEF Align, MinBlock

\* A level has more than one list.
LEMMA TwoLists == Sli >= 2
  BY TlsfAssumption DEF Sli, Pow2, PowersOfTwo

Sizes == {n \in Nat : MinBlock <= n /\ n < Pow2(MaxFli)}

\* What a size of at least SMALL_BLOCK is made of: its first level k, the width of its
\* list, and the list.
LEMMA LargeSize ==
  ASSUME NEW n \in Sizes, n >= Small
  PROVE  /\ MsBit(n) \in FliOffset + 1 .. MaxFli - 1
         /\ Pow2(MsBit(n)) <= n /\ n < 2 * Pow2(MsBit(n))
         /\ Pow2(MsBit(n) - LogSli) \in Nat \ {0}
         /\ Pow2(MsBit(n)) = Sli * Pow2(MsBit(n) - LogSli)
         /\ n \div Pow2(MsBit(n) - LogSli) \in Sli .. 2 * Sli - 1
  <1> USE Constants
  <1> DEFINE k == MsBit(n)
  <1>0. /\ n \in Nat \ {0} /\ n < Pow2(MaxFli)
        /\ Pow2(MaxFli) \in Nat /\ Pow2(30) \in Nat /\ Pow2(MaxFli) <= Pow2(30)
    <2>1. n \in Nat \ {0} /\ n < Pow2(MaxFli)
      BY DEF Sizes, MinBlock
    <2>2. MaxFli \in 0 .. 30 /\ 30 \in 0 .. 30
      OBVIOUS
    <2>3. Pow2(MaxFli) \in Nat /\ Pow2(30) \in Nat
      BY <2>2, Powers
    <2>4. MaxFli = 30 \/ 2 * Pow2(MaxFli) <= Pow2(30)
      BY <2>2, PowersGrow
    <2> QED BY <2>1, <2>3, <2>4
  <1>1. k \in 0 .. 30 /\ Pow2(k) <= n /\ n < 2 * Pow2(k) /\ Pow2(k) \in Nat
    <2>1. n < 2 * Pow2(30)
      BY <1>0
    <2>2. k \in 0 .. 30 /\ Pow2(k) <= n /\ n < 2 * Pow2(k)
      BY <1>0, <2>1, MsBitIs
    <2> QED BY <2>2, Powers
  <1>2. k < MaxFli
    <2> SUFFICES ASSUME MaxFli <= k PROVE FALSE
      BY <1>1
    <2>1. k = MaxFli \/ 2 * Pow2(MaxFli) <= Pow2(k)
      BY <1>1, PowersGrow
    <2> QED BY <1>0, <1>1, <2>1
  <1>3. k > FliOffset
    <2> SUFFICES ASSUME k < FliOffset + 1 PROVE FALSE
      BY <1>1
    <2>1. FliOffset + 1 \in 0 .. 30
      OBVIOUS
    <2>2. 2 * Pow2(k) <= Small
      BY <1>1, <2>1, PowersGrow DEF Small
    <2> QED BY <1>0, <1>1, <2>2
  <1>4. Pow2(k - LogSli) \in Nat \ {0} /\ Pow2(k) = Sli * Pow2(k - LogSli)
    <2>1. k - LogSli \in 0 .. 30 /\ LogSli <= k /\ LogSli \in 1 .. 5 /\ k \in 0 .. 30
      BY <1>1, <1>3
    <2>2. Pow2(k - LogSli) \in Nat \ {0}
      BY <2>1, Powers
    <2>3. Pow2(k) = Sli * Pow2(k - LogSli)
      BY <2>1, PowersAdd DEF Sli
    <2> QED BY <2>2, <2>3
  <1>5. n \div Pow2(k - LogSli) \in Sli .. 2 * Sli - 1
    BY <1>0, <1>1, <1>4, DivRange
  <1> QED BY <1>1, <1>2, <1>3, <1>4, <1>5

\* Every size has a list.
LEMMA HasClass == ASSUME NEW n \in Sizes PROVE Class(n) \in Classes
  <1> USE Constants
  <1>0. n \in Nat
    BY DEF Sizes
  <1>1. CASE n < Small
    <2>1. n \div Width \in 0 .. Sli - 1
      <3>1. PICK q \in Nat, r \in 0 .. Width - 1 : q = n \div Width /\ n = Width * q + r
        <4>1. Width \in Nat \ {0}
          OBVIOUS
        <4>2. /\ n \div Width \in Nat /\ n % Width \in 0 .. Width - 1
              /\ n = Width * (n \div Width) + (n % Width)
          <5> HIDE Constants
          <5> QED BY <1>0, <4>1, DivBounds
        <4> QED BY <4>2
      <3>2. ~(Sli <= q)
        <4> SUFFICES ASSUME Sli <= q PROVE FALSE
          OBVIOUS
        <4>1. Width * Sli <= Width * q /\ Width * Sli = Sli * Width
          OBVIOUS
        <4> QED BY <4>1, <3>1, <1>1
      <3> QED BY <3>1, <3>2
    <2> QED BY <1>1, <2>1 DEF Class, Classes, Fls
  <1>2. CASE n >= Small
    <2>1. MsBit(n) - FliOffset \in Fls /\ (n \div Pow2(MsBit(n) - LogSli)) - Sli \in 0 .. Sli - 1
      BY <1>2, LargeSize DEF Fls
    <2>2. Class(n) = <<MsBit(n) - FliOffset, (n \div Pow2(MsBit(n) - LogSli)) - Sli>>
      BY <1>0, <1>2 DEF Class
    <2> QED BY <2>1, <2>2 DEF Classes
  <1> QED BY <1>0, <1>1, <1>2

\* The order of the lists, and the width of a size's list.
AtLeast(c, d) == c[1] > d[1] \/ (c[1] = d[1] /\ c[2] >= d[2])

WidthOf(m) == IF m < Small THEN Width ELSE Pow2(MsBit(m) - LogSli)

\* MAPPING_INSERT, component by component.
LEMMA ClassIs ==
  ASSUME NEW n \in Sizes
  PROVE  /\ n < Small => Class(n)[1] = 0 /\ Class(n)[2] = n \div Width
         /\ n >= Small => /\ Class(n)[1] = MsBit(n) - FliOffset
                          /\ Class(n)[2] = (n \div Pow2(MsBit(n) - LogSli)) - Sli
  BY Constants DEF Class, Sizes

\* A list is at least another's exactly if the size reaches the other's smallest.
LEMMA ClassOrder ==
  ASSUME NEW s \in Sizes, NEW m \in Sizes
  PROVE  AtLeast(Class(s), Class(m)) <=> s >= m - (m % WidthOf(m))
  <1> USE Constants
  <1>0. s \in Nat /\ m \in Nat
    BY DEF Sizes
  <1>1. CASE s < Small /\ m < Small
    <2>1. s \div Width >= m \div Width <=> s >= m - (m % Width)
      BY <1>0, DivOrder
    <2> QED BY <1>1, <2>1, ClassIs DEF AtLeast, WidthOf
  <1>2. CASE s >= Small /\ m < Small
    <2>1. m % Width \in 0 .. Width - 1
      BY <1>0, DivBounds
    <2>2. Class(s)[1] > 0 /\ Class(m)[1] = 0
      BY <1>2, ClassIs, LargeSize
    <2>3. s >= m - (m % Width)
      BY <1>0, <1>2, <2>1
    <2> QED BY <1>2, <2>2, <2>3 DEF AtLeast, WidthOf
  <1>3. CASE m >= Small
    <2> DEFINE p == Pow2(MsBit(m) - LogSli)
    <2>1. /\ p \in Nat \ {0} /\ MsBit(m) \in FliOffset + 1 .. MaxFli - 1
          /\ Pow2(MsBit(m)) = Sli * p /\ m \div p \in Sli .. 2 * Sli - 1
          /\ Pow2(MsBit(m)) <= m /\ m < 2 * Pow2(MsBit(m))
      BY <1>3, LargeSize
    <2>2. WidthOf(m) = p
      BY <1>0, <1>3 DEF WidthOf
    <2>3. Pow2(MsBit(m)) \in Nat
      BY <2>1, Powers
    <2>4. m % p \in 0 .. p - 1 /\ Pow2(MsBit(m)) <= m - (m % p)
      <3>1. m \div p \in Nat /\ m % p \in 0 .. p - 1 /\ m = p * (m \div p) + (m % p)
        BY <1>0, <2>1, DivBounds
      <3>2. p * Sli <= p * (m \div p) /\ p * Sli = Sli * p
        BY <2>1
      <3> QED BY <1>0, <2>1, <2>3, <3>1, <3>2
    <2> HIDE DEF p
    <2>5. CASE s < Small
      <3>1. Small <= Pow2(MsBit(m))
        <4>1. FliOffset + 1 \in 0 .. 30 /\ MsBit(m) \in 0 .. 30
          BY <2>1
        <4>2. FliOffset + 1 = MsBit(m) \/ 2 * Small <= Pow2(MsBit(m))
          BY <2>1, <4>1, PowersGrow DEF Small
        <4> QED BY <4>2, <2>3 DEF Small
      <3>2. Class(s)[1] = 0 /\ Class(m)[1] > 0 /\ Class(m)[1] \in Int
        BY <2>1, <2>5, <1>3, ClassIs
      <3>3. ~(s >= m - (m % p))
        BY <1>0, <2>3, <2>4, <2>5, <3>1
      <3> QED BY <2>2, <3>2, <3>3 DEF AtLeast
    <2>6. CASE s >= Small
      <3>1. /\ MsBit(s) \in FliOffset + 1 .. MaxFli - 1
            /\ Pow2(MsBit(s)) <= s /\ s < 2 * Pow2(MsBit(s)) /\ Pow2(MsBit(s)) \in Nat
        BY <2>6, LargeSize, Powers
      <3>2. CASE MsBit(s) = MsBit(m)
        <4>1. s \div p >= m \div p <=> s >= m - (m % p)
          BY <1>0, <2>1, DivOrder
        <4>2. /\ Class(s)[1] = Class(m)[1] /\ Class(m)[1] \in Int
              /\ Class(s)[2] = (s \div p) - Sli /\ Class(m)[2] = (m \div p) - Sli
          BY <2>1, <2>6, <1>3, <3>2, ClassIs DEF p
        <4>3. s \div p \in Nat
          BY <1>0, <2>1, DivBounds
        <4> QED BY <2>1, <2>2, <3>1, <4>1, <4>2, <4>3 DEF AtLeast
      <3>3. CASE MsBit(s) > MsBit(m)
        <4>1. 2 * Pow2(MsBit(m)) <= Pow2(MsBit(s))
          BY <2>1, <3>1, <3>3, PowersGrow
        <4>2. Class(s)[1] > Class(m)[1]
          BY <2>1, <2>6, <1>3, <3>1, <3>3, ClassIs
        <4>3. s >= m - (m % p)
          BY <1>0, <2>1, <2>3, <2>4, <3>1, <4>1
        <4> QED BY <2>2, <4>2, <4>3 DEF AtLeast
      <3>4. CASE MsBit(s) < MsBit(m)
        <4>1. 2 * Pow2(MsBit(s)) <= Pow2(MsBit(m))
          BY <2>1, <3>1, <3>4, PowersGrow
        <4>2. Class(s)[1] < Class(m)[1] /\ Class(s)[1] \in Int /\ Class(m)[1] \in Int
          BY <2>1, <2>6, <1>3, <3>1, <3>4, ClassIs
        <4>3. ~(s >= m - (m % p))
          BY <1>0, <2>1, <2>3, <2>4, <3>1, <4>1
        <4> QED BY <2>2, <4>2, <4>3 DEF AtLeast
      <3> QED BY <2>1, <3>1, <3>2, <3>3, <3>4
    <2> QED BY <1>0, <2>5, <2>6
  <1> QED BY <1>0, <1>1, <1>2, <1>3

-----------------------------------------------------------------------------
(* What malloc asks the lists for.                                           *)

\* A request is rounded up to a multiple of the alignment.
LEMMA AdjustedIs ==
  ASSUME NEW n \in Requests
  PROVE  /\ n \in Nat /\ Adjusted(n) \in Nat /\ Adjusted(n) % 8 = 0 /\ Adjusted(n) >= n
         /\ Adjusted(n) >= 8 /\ Adjusted(n) <= Pow2(MaxFli - 1)
         /\ Pow2(MaxFli - 1) \in Nat /\ Pow2(MaxFli) = 2 * Pow2(MaxFli - 1)
  <1>1. n \in 0 .. Pow2(MaxFli - 1) - 8
    BY TlsfAssumption DEF Align
  <1>2. Pow2(MaxFli - 1) \in Nat /\ Pow2(MaxFli) = 2 * Pow2(MaxFli - 1)
    BY Constants, Powers
  <1>3. /\ RoundUp(n) \in Nat /\ RoundUp(n) % 8 = 0 /\ RoundUp(n) >= n /\ RoundUp(n) <= n + 7
    BY <1>1, <1>2 DEF RoundUp, Align
  <1> QED BY <1>1, <1>2, <1>3 DEF Adjusted, MinBlock

\* Powers of two and the alignment.
LEMMA PowersAlign == \A k \in 0 .. 30 : Pow2(k) \in {1, 2, 4} \/ \E j \in Nat : Pow2(k) = 8 * j
  <1>1. \A k \in 0 .. 30 : Pow2(k) \in {1, 2, 4} \/ Pow2(k) % 8 = 0
    BY DEF Pow2, PowersOfTwo
  <1>2. \A x \in Nat : x % 8 = 0 => \E j \in Nat : x = 8 * j
    <2> TAKE x \in Nat
    <2> HAVE x % 8 = 0
    <2> WITNESS x \div 8 \in Nat
    <2> QED OBVIOUS
  <1> QED BY <1>1, <1>2, Powers

\* The search: its list is the first whose blocks are all large enough, and the size
\* that is carved out is the smallest of that list.
LEMMA SearchIs ==
  ASSUME NEW a \in Nat, a % 8 = 0, a >= 8, a <= Pow2(MaxFli - 1)
  PROVE  /\ a + Slack(a) \in Sizes
         /\ SearchSize(a) = (a + Slack(a)) - ((a + Slack(a)) % WidthOf(a + Slack(a)))
         /\ SearchSize(a) \in Nat /\ SearchSize(a) >= a /\ SearchSize(a) % 8 = 0
  <1> USE Constants
  <1>0. Pow2(MaxFli - 1) \in Nat /\ Pow2(MaxFli) = 2 * Pow2(MaxFli - 1)
    BY Powers, SMTT(30)
  <1>a. a \in Sizes
    BY <1>0 DEF Sizes, MinBlock
  <1>1. CASE a < Small
    <2>1. Slack(a) = 0
      BY <1>1 DEF Slack
    <2>2. SearchSize(a) = a
      BY <2>1 DEF SearchSize
    <2>3. a % Width = 0
      OBVIOUS
    <2>4. WidthOf(a) = Width
      BY <1>1 DEF WidthOf
    <2>5. a + Slack(a) = a
      BY <2>1
    <2> QED BY <1>a, <2>2, <2>3, <2>4, <2>5
  <1>2. CASE a >= Small
    <2> DEFINE k == MsBit(a)
               p == Pow2(k - LogSli)
               m == a + Slack(a)
    <2>1. /\ k \in FliOffset + 1 .. MaxFli - 1
          /\ Pow2(k) <= a /\ a < 2 * Pow2(k)
          /\ p \in Nat \ {0} /\ Pow2(k) = Sli * p
      BY <1>a, <1>2, LargeSize
    <2>2. Pow2(k) \in Nat /\ Sli >= 2
      <3>1. Pow2(k) \in Nat
        BY <2>1, Powers
      <3> QED BY <3>1, TwoLists
    <2>3. Slack(a) = p - 1 /\ m = a + p - 1
      BY <1>2, <2>1 DEF Slack
    <2>4. 2 * p <= Pow2(k)
      <3>1. p * 2 <= p * Sli /\ p * Sli = Sli * p
        BY <2>1, <2>2
      <3> QED BY <2>1, <3>1
    <2>5. m \in Sizes /\ m >= Small
      BY <1>0, <1>2, <2>1, <2>2, <2>3, <2>4 DEF Sizes, MinBlock
    <2>6. SearchSize(a) = m - (m % p)
      BY <2>1, <2>3 DEF SearchSize
    <2> HIDE DEF p, k, m
    <2>7. m \div p \in Nat /\ m % p \in 0 .. p - 1 /\ m = p * (m \div p) + (m % p) /\ m \in Nat
      <3>1. m \in Nat /\ p \in Nat \ {0}
        BY <2>1, <2>3
      <3> QED BY <3>1, DivBounds
    <2>8. SearchSize(a) \in Nat /\ SearchSize(a) >= a
      BY <2>1, <2>3, <2>6, <2>7
    <2>9. SearchSize(a) % 8 = 0
      <3>0. k - LogSli \in 0 .. 30 /\ p = Pow2(k - LogSli)
        BY <2>1 DEF p
      <3>1. CASE p \in {1, 2, 4}
        BY <2>3, <2>6, <3>1
      <3>2. ASSUME NEW j \in Nat, p = 8 * j PROVE SearchSize(a) % 8 = 0
        <4>1. SearchSize(a) = 8 * (j * (m \div p))
          <5>1. \A x \in Nat, y \in Nat : (8 * x) * y = 8 * (x * y)
            OBVIOUS
          <5>2. SearchSize(a) = p * (m \div p)
            BY <2>1, <2>6, <2>7
          <5> QED BY <2>7, <3>2, <5>1, <5>2
        <4>2. \A x \in Nat : (8 * x) % 8 = 0
          OBVIOUS
        <4>3. j * (m \div p) \in Nat
          BY <2>7
        <4> QED BY <4>1, <4>2, <4>3
      <3> QED BY <3>0, <3>1, <3>2, PowersAlign
    <2>10. m - (m % p) = m - (m % WidthOf(m))
      <3>1. /\ MsBit(m) \in FliOffset + 1 .. MaxFli - 1
            /\ Pow2(MsBit(m)) <= m /\ m < 2 * Pow2(MsBit(m)) /\ Pow2(MsBit(m)) \in Nat
            /\ WidthOf(m) = Pow2(MsBit(m) - LogSli) /\ Pow2(MsBit(m)) = Sli * WidthOf(m)
            /\ WidthOf(m) \in Nat \ {0}
        BY <2>5, <2>7, LargeSize, Powers DEF WidthOf
      <3>0. k \in 0 .. 29 /\ MsBit(m) \in 0 .. 29 /\ LogSli \in 1 .. 5 /\ LogSli <= k
        BY <2>1, <3>1
      <3>2. ~(MsBit(m) < k)
        <4> SUFFICES ASSUME MsBit(m) < k PROVE FALSE
          OBVIOUS
        <4>1. 2 * Pow2(MsBit(m)) <= Pow2(k)
          BY <2>1, <3>1, PowersGrow
        <4> QED BY <2>1, <2>2, <2>3, <2>7, <3>1, <4>1
      <3>3. CASE MsBit(m) = k
        BY <3>1, <3>3 DEF p
      <3>4. CASE MsBit(m) > k
        <4>1. Pow2(k + 1) = 2 * Pow2(k) /\ Pow2(k + 1 - LogSli) = 2 * p
          BY <2>1, Powers DEF p
        <4>2. MsBit(m) = k + 1
          <5> SUFFICES ASSUME k + 1 < MsBit(m) PROVE FALSE
            BY <3>0, <3>4
          <5>1. 2 * Pow2(k + 1) <= Pow2(MsBit(m))
            BY <2>1, <3>1, PowersGrow
          <5> QED BY <2>1, <2>2, <2>3, <2>4, <2>7, <3>1, <4>1, <5>1
        <4>3. WidthOf(m) = 2 * p
          BY <3>0, <3>1, <4>1, <4>2
        <4>4. m < 2 * Pow2(k) + p /\ 2 * Pow2(k) <= m
          BY <2>1, <2>2, <2>3, <3>1, <4>1, <4>2
        <4>5. m % p = m - 2 * Pow2(k) /\ m % (2 * p) = m - 2 * Pow2(k)
          <5>1. Sli \in Nat /\ p \in Nat \ {0} /\ Pow2(k) = Sli * p
            BY <2>1
          <5>2. 2 * (Sli * p) <= m /\ m < 2 * (Sli * p) + p
            BY <4>4, <5>1
          <5> HIDE Constants
          <5>3. m % p = m - 2 * (Sli * p) /\ m % (2 * p) = m - 2 * (Sli * p)
            BY <2>7, <5>1, <5>2, ModOfTwo
          <5> QED BY <5>1, <5>3
        <4> QED BY <4>3, <4>5
      <3> QED BY <2>1, <3>1, <3>2, <3>3, <3>4
    <2> QED BY <2>5, <2>6, <2>8, <2>9, <2>10 DEF m
  <1> QED BY <1>1, <1>2

\* FIND_SUITABLE_BLOCK finds a list that is not empty and at least the one asked for,
\* or there is none.
LEMMA FindIs ==
  ASSUME NEW h, h.sl \subseteq Classes, h.fl = {c[1] : c \in h.sl}, NEW c \in Classes
  PROVE  \/ Find(h, c) = NoClass /\ \A d \in h.sl : ~AtLeast(d, c)
         \/ Find(h, c) # NoClass /\ Find(h, c) \in h.sl /\ AtLeast(Find(h, c), c)
  <1> DEFINE here  == {s \in 0 .. Sli - 1 : <<c[1], s>> \in h.sl /\ s >= c[2]}
             above == {f \in h.fl : f > c[1]}
             level == LsBit(above)
             inLevel == {s \in 0 .. Sli - 1 : <<level, s>> \in h.sl}
  <1>1. ASSUME NEW S \in SUBSET Nat, S # {} PROVE LsBit(S) \in S
    BY <1>1, Smallest DEF LsBit
  <1>2. \A d \in Classes : d[1] \in Nat /\ d[2] \in 0 .. Sli - 1 /\ d = <<d[1], d[2]>>
    BY Constants DEF Classes, Fls
  <1>3. NoClass \notin Classes
    BY <1>2 DEF NoClass
  <1>4. here \subseteq Nat /\ above \subseteq Nat /\ inLevel \subseteq Nat
    <2>1. here \subseteq Nat /\ inLevel \subseteq Nat
      BY Constants
    <2>2. above \subseteq Nat
      BY <1>2
    <2> QED BY <2>1, <2>2
  <1>5. CASE here # {}
    <2>1. LsBit(here) \in here
      BY <1>1, <1>4, <1>5
    <2>2. Find(h, c) = <<c[1], LsBit(here)>>
      BY <1>5 DEF Find
    <2>3. Find(h, c) \in h.sl /\ AtLeast(Find(h, c), c)
      <3>1. PICK s \in 0 .. Sli - 1 : s = LsBit(here) /\ <<c[1], s>> \in h.sl /\ s >= c[2]
        BY <2>1
      <3> QED BY <2>2, <3>1 DEF AtLeast
    <2> QED BY <2>3, <1>3
  <1>6. CASE here = {} /\ above # {}
    <2>1. level \in above
      BY <1>1, <1>4, <1>6
    <2>2. PICK d \in h.sl : d[1] = level
      BY <2>1
    <2>3. d[2] \in inLevel
      BY <2>2, <1>2
    <2>4. LsBit(inLevel) \in inLevel
      BY <1>1, <1>4, <2>3
    <2>5. Find(h, c) = <<level, LsBit(inLevel)>>
      BY <1>6 DEF Find
    <2>6. Find(h, c) \in h.sl /\ AtLeast(Find(h, c), c)
      BY <2>1, <2>4, <2>5 DEF AtLeast
    <2> QED BY <2>6, <1>3
  <1>7. CASE here = {} /\ above = {}
    <2>1. Find(h, c) = NoClass
      BY <1>7 DEF Find
    <2>2. ASSUME NEW d \in h.sl, AtLeast(d, c) PROVE FALSE
      <3>1. d[1] \in h.fl
        OBVIOUS
      <3>2. d[1] = c[1] /\ d[2] >= c[2]
        BY <1>7, <2>2, <3>1 DEF AtLeast
      <3>3. d[2] \in here
        BY <1>2, <3>2
      <3> QED BY <1>7, <3>3
    <2> QED BY <2>1, <2>2
  <1> QED BY <1>5, <1>6, <1>7

-----------------------------------------------------------------------------
(* Headers.                                                                  *)

Typed(blk) == DOMAIN blk \subseteq Addresses /\ \A a \in DOMAIN blk : blk[a] \in Block

FreeOf(blk) == {a \in DOMAIN blk : blk[a].free}

Fields == {"blk", "matrix", "sl", "fl"}

\* What a walk needs of one block.
LEMMA BlockIs ==
  ASSUME NEW blk, Typed(blk), Tiled(blk), NEW a \in DOMAIN blk
  PROVE  /\ a \in 0 .. End /\ End \in Nat /\ End = PoolSize + 8
         /\ blk[a].size \in 0 .. PoolSize /\ blk[a].free \in BOOLEAN
         /\ blk[a].prevFree \in BOOLEAN /\ blk[a].prev \in 0 .. End
         /\ NextOf(blk, a) = a + 8 + blk[a].size /\ NextOf(blk, a) > a
         /\ a # End => /\ NextOf(blk, a) \in DOMAIN blk /\ NextOf(blk, a) # 0
                       /\ NextOf(blk, a) <= End
                       /\ blk[a].size >= 8 /\ blk[a].size % 8 = 0 /\ blk[a].size \in Sizes
                       /\ \A d \in DOMAIN blk : d <= a \/ d >= NextOf(blk, a)
  <1>1. a \in 0 .. End /\ End \in Nat /\ End = PoolSize + 8 /\ PoolSize \in Nat
    BY Constants DEF Typed, Addresses, End, Overhead
  <1>2. /\ blk[a].size \in 0 .. PoolSize /\ blk[a].free \in BOOLEAN
        /\ blk[a].prevFree \in BOOLEAN /\ blk[a].prev \in 0 .. End
    BY DEF Typed, Block
  <1>3. NextOf(blk, a) = a + 8 + blk[a].size /\ NextOf(blk, a) > a
    BY <1>1, <1>2 DEF NextOf, Overhead
  <1>4. ASSUME a # End
        PROVE  /\ NextOf(blk, a) \in DOMAIN blk
               /\ blk[a].size >= 8 /\ blk[a].size % 8 = 0
               /\ \A d \in DOMAIN blk : d <= a \/ d >= NextOf(blk, a)
    BY <1>4 DEF Tiled, MinBlock, Align
  <1>5. ASSUME a # End
        PROVE  NextOf(blk, a) # 0 /\ NextOf(blk, a) <= End /\ blk[a].size \in Sizes
    <2>1. NextOf(blk, a) \in 0 .. End
      BY <1>4, <1>5 DEF Typed, Addresses
    <2>2. blk[a].size \in Sizes
      <3>1. Pow2(MaxFli) \in Nat
        BY Constants, Powers
      <3> QED BY <1>2, <1>4, <1>5, <3>1, Constants DEF Sizes, MinBlock
    <2> QED BY <1>1, <1>2, <1>3, <2>1, <2>2
  <1> QED BY <1>1, <1>2, <1>3, <1>4, <1>5

\* Two blocks do not have the same one above them.
LEMMA OneBelow ==
  ASSUME NEW blk, Typed(blk), Tiled(blk), NEW a \in DOMAIN blk \ {End}, NEW d \in DOMAIN blk \ {End},
         NextOf(blk, a) = NextOf(blk, d)
  PROVE  a = d
  <1>1. a < d => NextOf(blk, a) <= d
    BY BlockIs
  <1>2. d < a => NextOf(blk, d) <= a
    BY BlockIs
  <1> QED BY <1>1, <1>2, BlockIs

\* Every block but the first is above another.
LEMMA Below ==
  ASSUME NEW blk, Typed(blk), Tiled(blk), NEW d \in DOMAIN blk \ {0}
  PROVE  \E a \in DOMAIN blk \ {End} : NextOf(blk, a) = d
  <1> DEFINE G == {d - a : a \in {x \in DOMAIN blk : x < d}}
  <1>1. 0 \in DOMAIN blk /\ DOMAIN blk \subseteq 0 .. End /\ End \in Nat /\ d \in 0 .. End
    BY BlockIs DEF Tiled, Typed, Addresses
  <1>2. G \in SUBSET Nat /\ G # {}
    <2>1. d - 0 \in G
      BY <1>1
    <2>2. \A x \in DOMAIN blk : x < d => d - x \in Nat
      BY <1>1
    <2> QED BY <2>1, <2>2
  <1>3. PICK g \in G : \A t \in G : g <= t
    BY <1>2, Smallest
  <1>4. PICK a \in DOMAIN blk : a < d /\ g = d - a
    BY <1>3
  <1>5. a \in 0 .. End /\ a # End
    BY <1>1, <1>4
  <1>6. NextOf(blk, a) \in DOMAIN blk /\ NextOf(blk, a) > a /\ NextOf(blk, a) <= d
    <2>1. d <= a \/ d >= NextOf(blk, a)
      BY <1>5, BlockIs
    <2> QED BY <1>1, <1>4, <1>5, <2>1, BlockIs
  <1>7. ~(NextOf(blk, a) < d)
    <2> SUFFICES ASSUME NextOf(blk, a) < d PROVE FALSE
      OBVIOUS
    <2>1. d - NextOf(blk, a) \in G
      BY <1>6
    <2>2. g <= d - NextOf(blk, a)
      BY <1>3, <2>1
    <2>3. NextOf(blk, a) \in 0 .. End
      BY <1>6, BlockIs
    <2> QED BY <1>1, <1>4, <1>5, <1>6, <2>2, <2>3
  <1>8. NextOf(blk, a) \in 0 .. End
    BY <1>6, BlockIs
  <1> QED BY <1>1, <1>4, <1>5, <1>6, <1>7, <1>8

-----------------------------------------------------------------------------
(* Lists.                                                                    *)

\* The blocks of S are in the lists of their sizes, and nothing else is.
Listed(h, S) ==
  /\ h.matrix = [c \in Classes |-> {a \in S : Class(h.blk[a].size) = c}]
  /\ h.sl = {c \in Classes : h.matrix[c] # {}}
  /\ h.fl = {c[1] : c \in h.sl}

\* INSERT_BLOCK adds its block.
LEMMA InsertIs ==
  ASSUME NEW h, DOMAIN h = Fields, NEW S, Listed(h, S), NEW b, h.blk[b].size \in Sizes
  PROVE  /\ DOMAIN Insert(h, b) = Fields /\ Insert(h, b).blk = h.blk
         /\ Listed(Insert(h, b), S \cup {b})
  <1> DEFINE c == Class(h.blk[b].size)
             g == Insert(h, b)
  <1>1. c \in Classes
    BY HasClass
  <1>2. /\ DOMAIN g = Fields /\ g.blk = h.blk
        /\ g.matrix = [h.matrix EXCEPT ![c] = @ \cup {b}]
        /\ g.sl = h.sl \cup {c} /\ g.fl = h.fl \cup {c[1]}
    BY DEF Insert, Fields
  <1> HIDE DEF g
  <1>3. g.matrix = [d \in Classes |-> {a \in S \cup {b} : Class(g.blk[a].size) = d}]
    <2>1. ASSUME NEW d \in Classes
          PROVE  g.matrix[d] = {a \in S \cup {b} : Class(g.blk[a].size) = d}
      BY <1>1, <1>2 DEF Listed
    <2>2. DOMAIN g.matrix = Classes /\ g.matrix = [d \in DOMAIN g.matrix |-> g.matrix[d]]
      BY <1>2 DEF Listed
    <2> QED BY <2>1, <2>2
  <1>4. \A d \in Classes : g.matrix[d] = IF d = c THEN h.matrix[d] \cup {b} ELSE h.matrix[d]
    BY <1>1, <1>2 DEF Listed
  <1>5. g.sl = {d \in Classes : g.matrix[d] # {}}
    BY <1>1, <1>2, <1>4 DEF Listed
  <1>6. g.fl = {d[1] : d \in g.sl}
    BY <1>2 DEF Listed
  <1> QED BY <1>2, <1>3, <1>5, <1>6 DEF Listed, g

\* EXTRACT_BLOCK takes it out, with the bits of a list or a level that becomes empty.
LEMMA ExtractIs ==
  ASSUME NEW h, DOMAIN h = Fields, NEW S, Listed(h, S), NEW b \in S, h.blk[b].size \in Sizes
  PROVE  /\ DOMAIN Extract(h, b) = Fields /\ Extract(h, b).blk = h.blk
         /\ Listed(Extract(h, b), S \ {b})
  <1> DEFINE c == Class(h.blk[b].size)
             g == Extract(h, b)
             last == h.matrix[c] = {b}
             gone == last /\ \A s \in 0 .. Sli - 1 : <<c[1], s>> \notin g.sl
  <1>1. c \in Classes
    BY HasClass
  <1>2. /\ DOMAIN g = Fields /\ g.blk = h.blk
        /\ g.matrix = [h.matrix EXCEPT ![c] = @ \ {b}]
        /\ g.sl = (IF last THEN h.sl \ {c} ELSE h.sl)
        /\ g.fl = (IF gone THEN h.fl \ {c[1]} ELSE h.fl)
    BY DEF Extract, Fields
  <1> HIDE DEF g, gone
  <1>3. g.matrix = [d \in Classes |-> {a \in S \ {b} : Class(g.blk[a].size) = d}]
    <2>1. ASSUME NEW d \in Classes
          PROVE  g.matrix[d] = {a \in S \ {b} : Class(g.blk[a].size) = d}
      BY <1>1, <1>2, SMTT(30) DEF Listed
    <2>2. DOMAIN g.matrix = Classes /\ g.matrix = [d \in DOMAIN g.matrix |-> g.matrix[d]]
      BY <1>2 DEF Listed
    <2> QED BY <2>1, <2>2
  <1>4. \A d \in Classes : g.matrix[d] = IF d = c THEN h.matrix[d] \ {b} ELSE h.matrix[d]
    BY <1>1, <1>2 DEF Listed
  <1>5. b \in h.matrix[c] /\ c \in h.sl
    BY <1>1 DEF Listed
  <1>6. g.sl = {d \in Classes : g.matrix[d] # {}}
    <2>1. h.sl = {d \in Classes : h.matrix[d] # {}}
      BY DEF Listed
    <2>2. g.matrix[c] # {} <=> ~last
      BY <1>1, <1>4, <1>5
    <2> HIDE DEF last
    <2>3. ASSUME NEW d \in Classes PROVE d \in g.sl <=> g.matrix[d] # {}
      <3>1. CASE d = c
        BY <1>2, <1>5, <2>2, <3>1
      <3>2. CASE d # c
        BY <1>2, <1>4, <2>1, <3>2
      <3> QED BY <3>1, <3>2
    <2>4. g.sl \subseteq Classes
      BY <1>2, <2>1
    <2> QED BY <2>3, <2>4
  <1>7. g.fl = {d[1] : d \in g.sl}
    <2>1. \A d \in Classes : d[1] \in Nat /\ d[2] \in 0 .. Sli - 1 /\ d = <<d[1], d[2]>>
      BY Constants DEF Classes, Fls
    <2>2. g.sl \subseteq Classes /\ h.sl \subseteq Classes
      BY <1>6 DEF Listed
    <2>3. CASE ~last
      BY <1>2, <2>3 DEF Listed, gone
    <2>4. CASE last /\ gone
      <3>1. \A d \in g.sl : d[1] # c[1]
        BY <2>1, <2>2, <2>4 DEF gone
      <3> QED BY <1>2, <2>4, <3>1 DEF Listed
    <2>5. CASE last /\ ~gone
      <3>1. PICK s \in 0 .. Sli - 1 : <<c[1], s>> \in g.sl
        BY <2>5 DEF gone
      <3>2. g.sl = h.sl \ {c} /\ g.fl = h.fl
        BY <1>2, <2>5
      <3>3. c[1] \in {d[1] : d \in g.sl}
        <4>1. <<c[1], s>>[1] = c[1]
          OBVIOUS
        <4> QED BY <3>1, <4>1
      <3> QED BY <3>2, <3>3, <1>5 DEF Listed
    <2> QED BY <2>3, <2>4, <2>5
  <1> QED BY <1>2, <1>3, <1>6, <1>7 DEF Listed, g

-----------------------------------------------------------------------------
(* A block between two operations of free_ex(): b is free, and in no list.   *)

LooseAt(blk, b) ==
  /\ ~blk[0].prevFree
  /\ \A a \in DOMAIN blk \ {End, b} :
       /\ blk[NextOf(blk, a)].prevFree = blk[a].free
       /\ blk[a].free => /\ blk[NextOf(blk, a)].prev = a
                         /\ NextOf(blk, a) = b \/ ~blk[NextOf(blk, a)].free

Good(h) ==
  /\ DOMAIN h = Fields /\ Typed(h.blk) /\ Tiled(h.blk) /\ Joined(h.blk)
  /\ Listed(h, FreeOf(h.blk))

Loose(h, b) ==
  /\ DOMAIN h = Fields /\ Typed(h.blk) /\ Tiled(h.blk)
  /\ b \in DOMAIN h.blk \ {End} /\ h.blk[b].free /\ LooseAt(h.blk, b)
  /\ Listed(h, FreeOf(h.blk) \ {b})

\* The headers after b has grown over n.
Grown(blk, b, n) ==
  [a \in DOMAIN blk \ {n} |->
     IF a = b THEN [blk[b] EXCEPT !.size = @ + blk[n].size + Overhead] ELSE blk[a]]

Grows(blk, b, n, new) ==
  /\ DOMAIN new = DOMAIN blk \ {n} /\ b # n
  /\ new[b].free = blk[b].free /\ new[b].prevFree = blk[b].prevFree /\ new[b].prev = blk[b].prev
  /\ \A a \in DOMAIN blk \ {b, n} : new[a] = blk[a]
  /\ NextOf(new, b) = NextOf(blk, n)
  /\ \A a \in DOMAIN blk \ {b, n} : NextOf(new, a) = NextOf(blk, a)
  /\ \A a \in DOMAIN blk \ {b, n, End} : NextOf(blk, a) # n
  /\ Typed(new) /\ Tiled(new)

\* A block grows over the one above it.
LEMMA GrowIs ==
  ASSUME NEW blk, Typed(blk), Tiled(blk), NEW b \in DOMAIN blk \ {End}, NEW n \in DOMAIN blk \ {End},
         n = NextOf(blk, b), NEW new, new = Grown(blk, b, n)
  PROVE  Grows(blk, b, n, new)
  <1>1. DOMAIN new = DOMAIN blk \ {n} /\ b # n /\ \A a \in DOMAIN blk \ {b, n} : new[a] = blk[a]
    BY BlockIs DEF Grown
  <1>2. /\ new[b].free = blk[b].free /\ new[b].prevFree = blk[b].prevFree /\ new[b].prev = blk[b].prev
        /\ new[b].size = blk[b].size + blk[n].size + 8
        /\ new[b] = [size |-> new[b].size, free |-> blk[b].free,
                     prevFree |-> blk[b].prevFree, prev |-> blk[b].prev]
    <2>1. blk[b] \in Block /\ new[b] = [blk[b] EXCEPT !.size = @ + blk[n].size + Overhead]
      BY <1>1 DEF Typed, Grown
    <2> QED BY <2>1 DEF Block, Overhead
  <1>3. NextOf(new, b) = NextOf(blk, n)
    BY <1>2, BlockIs DEF NextOf, Overhead
  <1>4. \A a \in DOMAIN blk \ {b, n} : NextOf(new, a) = NextOf(blk, a)
    BY <1>1 DEF NextOf
  <1>5. \A a \in DOMAIN blk \ {b, n, End} : NextOf(blk, a) # n
    BY OneBelow
  <1>6. Typed(new)
    <2>1. new[b].size \in 0 .. PoolSize
      <3>1. NextOf(blk, n) \in 0 .. End /\ End = PoolSize + 8 /\ NextOf(blk, n) = n + 8 + blk[n].size
        BY BlockIs
      <3>2. n = b + 8 + blk[b].size /\ b \in 0 .. End /\ blk[b].size \in 0 .. PoolSize
            /\ blk[n].size \in 0 .. PoolSize
        BY BlockIs
      <3> QED BY <1>2, <3>1, <3>2, Constants
    <2>2. new[b] \in Block
      BY <1>2, <2>1, BlockIs DEF Block
    <2> QED BY <1>1, <2>2 DEF Typed
  <1>7. Tiled(new)
    <2>1. {0, End} \subseteq DOMAIN new /\ new[End].size = 0 /\ ~new[End].free
      <3>1. n # 0 /\ b # End /\ n # End /\ {0, End} \subseteq DOMAIN blk
        BY BlockIs DEF Tiled
      <3> QED BY <1>1, <3>1 DEF Tiled
    <2>2. ASSUME NEW a \in DOMAIN new \ {End}, a # b
          PROVE  /\ new[a].size >= MinBlock /\ new[a].size % Align = 0
                 /\ NextOf(new, a) \in DOMAIN new
                 /\ \A d \in DOMAIN new : d <= a \/ d >= NextOf(new, a)
      BY <1>1, <1>4, <1>5, <2>2 DEF Tiled
    <2>3. /\ new[b].size >= MinBlock /\ new[b].size % Align = 0
          /\ NextOf(new, b) \in DOMAIN new
      <3>1. /\ blk[b].size \in Nat /\ blk[b].size >= 8 /\ blk[b].size % 8 = 0
            /\ blk[n].size \in Nat /\ blk[n].size >= 8 /\ blk[n].size % 8 = 0
        BY BlockIs
      <3>2. new[b].size >= 8 /\ new[b].size % 8 = 0
        BY <1>2, <3>1
      <3>3. NextOf(blk, n) \in DOMAIN new
        BY <1>1, BlockIs
      <3> QED BY <1>3, <3>2, <3>3 DEF MinBlock, Align
    <2>4. ASSUME NEW d \in DOMAIN new PROVE d <= b \/ d >= NextOf(new, b)
      <3>1. d <= b \/ d >= n
        BY <1>1, BlockIs
      <3>2. d <= n \/ d >= NextOf(blk, n)
        BY <1>1, BlockIs
      <3>3. d \in 0 .. End /\ n \in 0 .. End /\ d # n /\ End \in Nat
        BY <1>1, BlockIs
      <3>4. ASSUME d >= n, d <= n PROVE FALSE
        BY <3>3, <3>4
      <3> QED BY <1>3, <3>1, <3>2, <3>4
    <2>5. ASSUME NEW a \in DOMAIN new \ {End}
          PROVE  /\ new[a].size >= MinBlock /\ new[a].size % Align = 0
                 /\ NextOf(new, a) \in DOMAIN new
                 /\ \A d \in DOMAIN new : d <= a \/ d >= NextOf(new, a)
      <3>1. CASE a = b
        BY <2>3, <2>4, <3>1
      <3>2. CASE a # b
        BY <2>2, <3>2
      <3> QED BY <3>1, <3>2
    <2> QED BY <2>1, <2>5 DEF Tiled
  <1> QED BY <1>1, <1>2, <1>3, <1>4, <1>5, <1>6, <1>7 DEF Grows

\* free_ex marks the block.
LEMMA MarkIs ==
  ASSUME NEW h, Good(h), NEW b \in DOMAIN h.blk \ {End}, ~h.blk[b].free
  PROVE  /\ Loose(Mark(h, b), b) /\ DOMAIN Mark(h, b).blk = DOMAIN h.blk
         /\ FreeOf(Mark(h, b).blk) \ {b} = FreeOf(h.blk)
         /\ \A a \in DOMAIN h.blk : Mark(h, b).blk[a].size = h.blk[a].size
  <1> DEFINE g == Mark(h, b)
  <1>0. DOMAIN h = Fields /\ Typed(h.blk) /\ Tiled(h.blk) /\ Joined(h.blk) /\ Listed(h, FreeOf(h.blk))
    BY DEF Good
  <1>1. /\ DOMAIN g = Fields /\ g.blk = [h.blk EXCEPT ![b].free = TRUE]
        /\ g.matrix = h.matrix /\ g.sl = h.sl /\ g.fl = h.fl
    BY <1>0 DEF Mark, Fields
  <1> HIDE DEF g
  <1>2. /\ DOMAIN g.blk = DOMAIN h.blk
        /\ \A a \in DOMAIN h.blk \ {b} : g.blk[a] = h.blk[a]
        /\ g.blk[b] = [h.blk[b] EXCEPT !.free = TRUE]
    BY <1>1
  <1>3. /\ g.blk[b].free = TRUE /\ g.blk[b].size = h.blk[b].size
        /\ g.blk[b].prevFree = h.blk[b].prevFree /\ g.blk[b].prev = h.blk[b].prev /\ g.blk[b] \in Block
    <2>1. h.blk[b] \in Block
      BY <1>0 DEF Typed
    <2> QED BY <1>2, <2>1 DEF Block
  <1>4. Typed(g.blk)
    BY <1>0, <1>2, <1>3 DEF Typed
  <1>5. \A a \in DOMAIN h.blk : g.blk[a].size = h.blk[a].size /\ NextOf(g.blk, a) = NextOf(h.blk, a)
    BY <1>2, <1>3 DEF NextOf
  <1>6. \A a \in DOMAIN h.blk : /\ g.blk[a].prevFree = h.blk[a].prevFree /\ g.blk[a].prev = h.blk[a].prev
                                /\ a # b => g.blk[a].free = h.blk[a].free
    BY <1>2, <1>3
  <1>7. Tiled(g.blk)
    BY <1>0, <1>2, <1>5, <1>6 DEF Tiled
  <1>8. LooseAt(g.blk, b)
    <2>1. ~g.blk[0].prevFree
      BY <1>0, <1>6 DEF Joined, Tiled
    <2>2. ASSUME NEW a \in DOMAIN g.blk \ {End, b}
          PROVE  /\ g.blk[NextOf(g.blk, a)].prevFree = g.blk[a].free
                 /\ g.blk[a].free => /\ g.blk[NextOf(g.blk, a)].prev = a
                                     /\ NextOf(g.blk, a) = b \/ ~g.blk[NextOf(g.blk, a)].free
      <3>1. NextOf(h.blk, a) \in DOMAIN h.blk
        BY <1>0, <1>2, BlockIs
      <3> QED BY <1>0, <1>2, <1>5, <1>6, <3>1 DEF Joined
    <2> QED BY <2>1, <2>2 DEF LooseAt
  <1>9. FreeOf(g.blk) \ {b} = FreeOf(h.blk)
    BY <1>2, <1>6 DEF FreeOf
  <1>10. Listed(g, FreeOf(g.blk) \ {b})
    <2>1. \A a \in FreeOf(h.blk) : g.blk[a].size = h.blk[a].size
      BY <1>5 DEF FreeOf
    <2>2. Listed(h, FreeOf(h.blk))
      BY <1>0
    <2>3. \A c \in Classes : {a \in FreeOf(h.blk) : Class(g.blk[a].size) = c} =
                             {a \in FreeOf(h.blk) : Class(h.blk[a].size) = c}
      BY <2>1
    <2>4. Listed(g, FreeOf(h.blk))
      BY <1>1, <2>2, <2>3 DEF Listed
    <2> QED BY <1>9, <2>4
  <1> QED BY <1>1, <1>2, <1>3, <1>4, <1>5, <1>7, <1>8, <1>9, <1>10 DEF Loose, g

\* b and n, next to each other, are free, and m of them is in its list; g has the one block.
Absorbs(h, b, n, loose, m, g) ==
  /\ DOMAIN h = Fields /\ Typed(h.blk) /\ Tiled(h.blk)
  /\ b \in DOMAIN h.blk \ {End} /\ n \in DOMAIN h.blk \ {End} /\ n = NextOf(h.blk, b)
  /\ h.blk[b].free /\ h.blk[n].free
  /\ loose \in {b, n} /\ m \in {b, n} /\ m # loose
  /\ LooseAt(h.blk, loose) /\ Listed(h, FreeOf(h.blk) \ {loose})
  /\ g = Swallow(Extract(h, m), b, n)

Absorbed(h, b, n, g) ==
  /\ Loose(g, b) /\ n # b /\ DOMAIN g.blk = DOMAIN h.blk \ {n}
  /\ FreeOf(g.blk) = FreeOf(h.blk) \ {n}
  /\ \A a \in DOMAIN h.blk \ {b, n} : g.blk[a] = h.blk[a]
  /\ g.blk[b].prevFree = h.blk[b].prevFree /\ g.blk[b].prev = h.blk[b].prev
  /\ NextOf(g.blk, b) = NextOf(h.blk, n)

\* Of two free neighbours, one of them in its list, one block is made.
LEMMA AbsorbIs ==
  ASSUME NEW h, NEW b, NEW n, NEW loose, NEW m, NEW g, Absorbs(h, b, n, loose, m, g)
  PROVE  Absorbed(h, b, n, g)
  <1> DEFINE e == Extract(h, m)
             S == FreeOf(h.blk) \ {loose}
  <1>0. /\ DOMAIN h = Fields /\ Typed(h.blk) /\ Tiled(h.blk)
        /\ b \in DOMAIN h.blk \ {End} /\ n \in DOMAIN h.blk \ {End} /\ n = NextOf(h.blk, b)
        /\ h.blk[b].free /\ h.blk[n].free
        /\ loose \in {b, n} /\ m \in {b, n} /\ m # loose
        /\ LooseAt(h.blk, loose) /\ Listed(h, S)
        /\ g = Swallow(Extract(h, m), b, n)
    BY DEF Absorbs
  <1>1. m \in S /\ h.blk[m].size \in Sizes
    <2>1. m \in DOMAIN h.blk \ {End} /\ h.blk[m].free
      BY <1>0
    <2> QED BY <1>0, <2>1, BlockIs DEF FreeOf
  <1>2. DOMAIN e = Fields /\ e.blk = h.blk /\ Listed(e, S \ {m})
    BY <1>0, <1>1, ExtractIs
  <1> HIDE DEF e
  <1>3. DOMAIN g = Fields /\ g.matrix = e.matrix /\ g.sl = e.sl /\ g.fl = e.fl
    BY <1>0, <1>2 DEF Swallow, Fields, e
  <1>31. g.blk = Grown(h.blk, b, n)
    BY <1>0, <1>2 DEF Swallow, Fields, e, Grown
  <1>4. /\ DOMAIN g.blk = DOMAIN h.blk \ {n} /\ b # n
        /\ g.blk[b].free = h.blk[b].free /\ g.blk[b].prevFree = h.blk[b].prevFree
        /\ g.blk[b].prev = h.blk[b].prev
        /\ \A a \in DOMAIN h.blk \ {b, n} : g.blk[a] = h.blk[a]
        /\ NextOf(g.blk, b) = NextOf(h.blk, n)
        /\ \A a \in DOMAIN h.blk \ {b, n} : NextOf(g.blk, a) = NextOf(h.blk, a)
        /\ \A a \in DOMAIN h.blk \ {b, n, End} : NextOf(h.blk, a) # n
        /\ Typed(g.blk) /\ Tiled(g.blk)
    <2>1. Grows(h.blk, b, n, g.blk)
      BY <1>0, <1>31, GrowIs
    <2> QED BY <2>1 DEF Grows
  <1>5. b \in DOMAIN g.blk \ {End} /\ g.blk[b].free
    BY <1>0, <1>4
  <1>6. FreeOf(g.blk) = FreeOf(h.blk) \ {n}
    BY <1>0, <1>4 DEF FreeOf
  <1>7. Listed(g, FreeOf(g.blk) \ {b})
    <2>1. FreeOf(g.blk) \ {b} = S \ {m}
      BY <1>0, <1>6
    <2>2. \A a \in S \ {m} : g.blk[a].size = h.blk[a].size
      BY <1>0, <1>4 DEF FreeOf
    <2>3. \A c \in Classes : {a \in S \ {m} : Class(g.blk[a].size) = c} =
                             {a \in S \ {m} : Class(e.blk[a].size) = c}
      BY <1>2, <2>2
    <2> HIDE DEF S
    <2>4. Listed(g, S \ {m})
      BY <1>2, <1>3, <2>3 DEF Listed
    <2> QED BY <2>1, <2>4
  <1>8. LooseAt(g.blk, b)
    <2>1. ~g.blk[0].prevFree
      <3>1. 0 \in DOMAIN h.blk /\ n # 0 /\ ~h.blk[0].prevFree
        BY <1>0, BlockIs DEF LooseAt, Tiled
      <3> QED BY <1>4, <3>1
    <2>2. ASSUME NEW a \in DOMAIN g.blk \ {End, b}
          PROVE  /\ g.blk[NextOf(g.blk, a)].prevFree = g.blk[a].free
                 /\ g.blk[a].free => /\ g.blk[NextOf(g.blk, a)].prev = a
                                     /\ NextOf(g.blk, a) = b \/ ~g.blk[NextOf(g.blk, a)].free
      <3> DEFINE x == NextOf(h.blk, a)
      <3>1. /\ a \in DOMAIN h.blk \ {End, b, n} /\ g.blk[a] = h.blk[a] /\ NextOf(g.blk, a) = x
            /\ x # n /\ x \in DOMAIN h.blk
        BY <1>0, <1>4, BlockIs
      <3>2. /\ h.blk[x].prevFree = h.blk[a].free
            /\ h.blk[a].free => h.blk[x].prev = a /\ (x = loose \/ ~h.blk[x].free)
        BY <1>0, <3>1 DEF LooseAt
      <3>3. g.blk[x].prevFree = h.blk[x].prevFree /\ g.blk[x].prev = h.blk[x].prev
            /\ (x # b => g.blk[x].free = h.blk[x].free)
        BY <1>4, <3>1
      <3>4. x = loose => x = b
        BY <1>0, <3>1
      <3> HIDE DEF x
      <3> QED BY <3>1, <3>2, <3>3, <3>4
    <2> QED BY <2>1, <2>2 DEF LooseAt
  <1> QED BY <1>3, <1>4, <1>5, <1>6, <1>7, <1>8 DEF Loose, Absorbed

\* free_ex joins the block above, so that it is not free afterwards.
LEMMA JoinNextIs ==
  ASSUME NEW h, NEW b, Loose(h, b), NEW g, g = JoinNext(h, b)
  PROVE  /\ Loose(g, b) /\ ~g.blk[NextOf(g.blk, b)].free
         /\ {a \in DOMAIN g.blk : ~g.blk[a].free} = {a \in DOMAIN h.blk : ~h.blk[a].free}
         /\ \A a \in DOMAIN h.blk : ~h.blk[a].free => g.blk[a].size = h.blk[a].size
  <1> DEFINE n == NextOf(h.blk, b)
  <1>1. /\ DOMAIN h = Fields /\ Typed(h.blk) /\ Tiled(h.blk) /\ LooseAt(h.blk, b)
        /\ b \in DOMAIN h.blk \ {End} /\ h.blk[b].free /\ Listed(h, FreeOf(h.blk) \ {b})
    BY DEF Loose
  <1>2. CASE ~h.blk[n].free
    BY <1>2 DEF JoinNext
  <1>3. CASE h.blk[n].free
    <2>1. n \in DOMAIN h.blk \ {End}
      BY <1>1, <1>3, BlockIs DEF Tiled
    <2>2. g = Swallow(Extract(h, n), b, n)
      BY <1>3 DEF JoinNext
    <2>3. b # n
      BY <1>1, BlockIs
    <2>4. /\ Loose(g, b) /\ DOMAIN g.blk = DOMAIN h.blk \ {n}
          /\ FreeOf(g.blk) = FreeOf(h.blk) \ {n}
          /\ \A a \in DOMAIN h.blk \ {b, n} : g.blk[a] = h.blk[a]
          /\ NextOf(g.blk, b) = NextOf(h.blk, n)
      <3>1. Absorbs(h, b, n, b, n, g)
        BY <1>1, <1>3, <2>1, <2>2, <2>3 DEF Absorbs
      <3>2. Absorbed(h, b, n, g)
        BY <3>1, AbsorbIs
      <3> QED BY <3>2 DEF Absorbed
    <2>5. ~g.blk[NextOf(g.blk, b)].free
      <3>1. /\ NextOf(h.blk, n) \in DOMAIN h.blk /\ NextOf(h.blk, n) > n /\ n > b
            /\ n \in Nat /\ b \in Nat /\ NextOf(h.blk, n) \in Nat
        <4>1. n \in 0 .. End /\ b \in 0 .. End /\ NextOf(h.blk, n) \in 0 .. End /\ End \in Nat
          BY <1>1, <2>1, BlockIs
        <4> QED BY <1>1, <2>1, <4>1, BlockIs
      <3>2. ~h.blk[NextOf(h.blk, n)].free
        BY <1>1, <1>3, <2>1, <2>3, <3>1 DEF LooseAt
      <3>3. NextOf(h.blk, n) # n /\ NextOf(h.blk, n) # b
        BY <3>1
      <3> QED BY <2>4, <3>1, <3>2, <3>3
    <2>6. {a \in DOMAIN g.blk : ~g.blk[a].free} = {a \in DOMAIN h.blk : ~h.blk[a].free}
      BY <1>3, <2>4 DEF FreeOf
    <2>7. \A a \in DOMAIN h.blk : ~h.blk[a].free => g.blk[a].size = h.blk[a].size
      BY <1>1, <1>3, <2>4
    <2> QED BY <2>4, <2>5, <2>6, <2>7
  <1> QED BY <1>2, <1>3

\* It joins the one below, and what owns the memory then has no free neighbour.
LEMMA JoinPrevIs ==
  ASSUME NEW h, NEW b, Loose(h, b), ~h.blk[NextOf(h.blk, b)].free,
         NEW g, g = JoinPrev(h, b), NEW o, o = Owner(h, b)
  PROVE  /\ Loose(g, o) /\ ~g.blk[NextOf(g.blk, o)].free /\ ~g.blk[o].prevFree
         /\ {a \in DOMAIN g.blk : ~g.blk[a].free} = {a \in DOMAIN h.blk : ~h.blk[a].free}
         /\ \A a \in DOMAIN h.blk : ~h.blk[a].free => g.blk[a].size = h.blk[a].size
  <1>1. /\ DOMAIN h = Fields /\ Typed(h.blk) /\ Tiled(h.blk) /\ LooseAt(h.blk, b)
        /\ b \in DOMAIN h.blk \ {End} /\ h.blk[b].free /\ Listed(h, FreeOf(h.blk) \ {b})
    BY DEF Loose
  <1>2. CASE ~h.blk[b].prevFree
    BY <1>2 DEF JoinPrev, Owner
  <1>3. CASE h.blk[b].prevFree
    <2>1. b # 0
      BY <1>1, <1>3 DEF LooseAt
    <2>2. PICK p \in DOMAIN h.blk \ {End} : NextOf(h.blk, p) = b
      BY <1>1, <2>1, Below
    <2>3. p # b
      BY <1>1, <2>2, BlockIs
    <2>4. h.blk[p].free /\ h.blk[b].prev = p
      BY <1>1, <1>3, <2>2, <2>3, BlockIs DEF LooseAt
    <2>5. o = p /\ g = Swallow(Extract(h, p), p, b)
      BY <1>3, <2>3, <2>4 DEF Owner, JoinPrev
    <2>6. /\ Loose(g, p) /\ DOMAIN g.blk = DOMAIN h.blk \ {b}
          /\ FreeOf(g.blk) = FreeOf(h.blk) \ {b}
          /\ \A a \in DOMAIN h.blk \ {p, b} : g.blk[a] = h.blk[a]
          /\ g.blk[p].prevFree = h.blk[p].prevFree
          /\ NextOf(g.blk, p) = NextOf(h.blk, b)
      <3>1. Absorbs(h, p, b, b, p, g)
        BY <1>1, <2>2, <2>3, <2>4, <2>5 DEF Absorbs
      <3>2. Absorbed(h, p, b, g)
        BY <3>1, AbsorbIs
      <3> QED BY <3>2 DEF Absorbed
    <2>7. ~g.blk[NextOf(g.blk, p)].free
      <3>1. NextOf(h.blk, b) \in DOMAIN h.blk /\ NextOf(h.blk, b) # b
        BY <1>1, BlockIs
      <3>2. NextOf(h.blk, b) # p
        BY <2>4
      <3> QED BY <2>6, <3>1, <3>2
    <2>8. ~h.blk[p].prevFree
      <3>1. CASE p = 0
        BY <1>1, <3>1 DEF LooseAt
      <3>2. CASE p # 0
        <4>1. PICK q \in DOMAIN h.blk \ {End} : NextOf(h.blk, q) = p
          BY <1>1, <3>2, Below
        <4>2. q # b
          <5>1. NextOf(h.blk, b) > b /\ NextOf(h.blk, p) > p /\ p \in 0 .. End /\ b \in 0 .. End
                /\ End \in Nat
            BY <1>1, <2>2, BlockIs
          <5> QED BY <2>2, <4>1, <5>1
        <4>3. h.blk[p].prevFree = h.blk[q].free /\ (h.blk[q].free => p = b \/ ~h.blk[p].free)
          BY <1>1, <4>1, <4>2 DEF LooseAt
        <4> QED BY <2>3, <2>4, <4>3
      <3> QED BY <3>1, <3>2
    <2>9. {a \in DOMAIN g.blk : ~g.blk[a].free} = {a \in DOMAIN h.blk : ~h.blk[a].free}
      BY <1>1, <2>6 DEF FreeOf
    <2>10. \A a \in DOMAIN h.blk : ~h.blk[a].free => g.blk[a].size = h.blk[a].size
      BY <1>1, <2>4, <2>6
    <2> QED BY <2>5, <2>6, <2>7, <2>8, <2>9, <2>10
  <1> QED BY <1>2, <1>3

UsedOf(blk) == {a \in DOMAIN blk : ~blk[a].free}

\* The block goes into a list and the one above is told.
LEMMA EnlistIs ==
  ASSUME NEW h, NEW b, Loose(h, b), ~h.blk[NextOf(h.blk, b)].free, ~h.blk[b].prevFree,
         NEW g, g = Enlist(h, b)
  PROVE  /\ Good(g) /\ UsedOf(g.blk) = UsedOf(h.blk)
         /\ \A a \in DOMAIN h.blk : g.blk[a].size = h.blk[a].size
  <1> DEFINE n == NextOf(h.blk, b)
             e == Insert(h, b)
             S == FreeOf(h.blk) \ {b}
  <1>0. /\ DOMAIN h = Fields /\ Typed(h.blk) /\ Tiled(h.blk) /\ LooseAt(h.blk, b)
        /\ b \in DOMAIN h.blk \ {End} /\ h.blk[b].free /\ Listed(h, S)
    BY DEF Loose
  <1>1. n \in DOMAIN h.blk /\ n # b /\ n # 0 /\ ~h.blk[n].free /\ h.blk[b].size \in Sizes
        /\ b \in 0 .. End
    BY <1>0, BlockIs
  <1>2. DOMAIN e = Fields /\ e.blk = h.blk /\ Listed(e, S \cup {b})
    BY <1>0, <1>1, InsertIs
  <1>3. S \cup {b} = FreeOf(h.blk)
    BY <1>0 DEF FreeOf
  <1> HIDE DEF e, n
  <1>4. DOMAIN g = Fields /\ g.matrix = e.matrix /\ g.sl = e.sl /\ g.fl = e.fl
    BY <1>2 DEF Enlist, Fields, e
  <1>5. /\ DOMAIN g.blk = DOMAIN h.blk
        /\ \A a \in DOMAIN h.blk \ {n} : g.blk[a] = h.blk[a]
        /\ g.blk[n] = [h.blk[n] EXCEPT !.prevFree = TRUE, !.prev = b]
    BY <1>1, <1>2 DEF Enlist, Fields, e, n
  <1>6. /\ g.blk[n].size = h.blk[n].size /\ g.blk[n].free = h.blk[n].free
        /\ g.blk[n].prevFree = TRUE /\ g.blk[n].prev = b /\ g.blk[n] \in Block
    <2>1. h.blk[n] \in Block
      BY <1>0, <1>1 DEF Typed
    <2> QED BY <1>1, <1>5, <2>1 DEF Block
  <1>7. \A a \in DOMAIN h.blk : /\ g.blk[a].size = h.blk[a].size /\ g.blk[a].free = h.blk[a].free
                                /\ NextOf(g.blk, a) = NextOf(h.blk, a)
                                /\ a # n => /\ g.blk[a].prevFree = h.blk[a].prevFree
                                            /\ g.blk[a].prev = h.blk[a].prev
    BY <1>5, <1>6 DEF NextOf
  <1>8. Typed(g.blk)
    BY <1>0, <1>5, <1>6 DEF Typed
  <1>9. Tiled(g.blk)
    BY <1>0, <1>5, <1>7 DEF Tiled
  <1>10. Joined(g.blk)
    <2>1. ~g.blk[0].prevFree
      <3>1. 0 \in DOMAIN h.blk /\ ~h.blk[0].prevFree
        BY <1>0 DEF Tiled, LooseAt
      <3> QED BY <1>1, <1>7, <3>1
    <2>2. ASSUME NEW a \in DOMAIN g.blk \ {End}, a # b
          PROVE  /\ g.blk[NextOf(g.blk, a)].prevFree = g.blk[a].free
                 /\ g.blk[a].free => /\ g.blk[NextOf(g.blk, a)].prev = a
                                     /\ ~g.blk[NextOf(g.blk, a)].free
      <3> DEFINE x == NextOf(h.blk, a)
      <3>1. x \in DOMAIN h.blk /\ NextOf(g.blk, a) = x /\ a \in DOMAIN h.blk \ {End, b}
        BY <1>0, <1>5, <1>7, <2>2, BlockIs
      <3>2. x # n
        BY <1>0, <2>2, <3>1, OneBelow DEF n
      <3>3. /\ h.blk[x].prevFree = h.blk[a].free
            /\ h.blk[a].free => h.blk[x].prev = a /\ (x = b \/ ~h.blk[x].free)
        BY <1>0, <3>1 DEF LooseAt
      <3>4. x = b => ~h.blk[a].free
        BY <3>3
      <3> HIDE DEF x
      <3> QED BY <1>7, <3>1, <3>2, <3>3, <3>4
    <2>3. /\ g.blk[NextOf(g.blk, b)].prevFree = g.blk[b].free
          /\ g.blk[b].free => /\ g.blk[NextOf(g.blk, b)].prev = b
                              /\ ~g.blk[NextOf(g.blk, b)].free
      <3>1. NextOf(g.blk, b) = n /\ g.blk[b].free = TRUE
        <4>1. h.blk[b].free \in BOOLEAN
          BY <1>0, BlockIs
        <4> QED BY <1>0, <1>7, <4>1 DEF n
      <3> QED BY <1>1, <1>6, <3>1
    <2>4. ASSUME NEW a \in DOMAIN g.blk \ {End}
          PROVE  /\ g.blk[NextOf(g.blk, a)].prevFree = g.blk[a].free
                 /\ g.blk[a].free => /\ g.blk[NextOf(g.blk, a)].prev = a
                                     /\ ~g.blk[NextOf(g.blk, a)].free
      BY <2>2, <2>3
    <2> QED BY <2>1, <2>4 DEF Joined
  <1>11. FreeOf(g.blk) = FreeOf(h.blk)
    BY <1>5, <1>7 DEF FreeOf
  <1>12. Listed(g, FreeOf(g.blk))
    <2>1. \A a \in FreeOf(h.blk) : g.blk[a].size = h.blk[a].size
      BY <1>7 DEF FreeOf
    <2>2. \A c \in Classes : {a \in FreeOf(h.blk) : Class(g.blk[a].size) = c} =
                             {a \in FreeOf(h.blk) : Class(h.blk[a].size) = c}
      BY <2>1
    <2>3. Listed(g, FreeOf(h.blk))
      BY <1>2, <1>3, <1>4, <2>2 DEF Listed
    <2> QED BY <1>11, <2>3
  <1>13. UsedOf(g.blk) = UsedOf(h.blk)
    BY <1>5, <1>7 DEF UsedOf
  <1> QED BY <1>4, <1>7, <1>8, <1>9, <1>10, <1>12, <1>13 DEF Good

\* free_ex: what is left in use is what was, without the block.
LEMMA PutIs ==
  ASSUME NEW h, Good(h), NEW b \in DOMAIN h.blk \ {End}, ~h.blk[b].free, NEW g, g = Put(h, b)
  PROVE  /\ Good(g) /\ UsedOf(g.blk) = UsedOf(h.blk) \ {b}
         /\ \A a \in UsedOf(g.blk) : g.blk[a].size = h.blk[a].size
  <1> DEFINE m == Mark(h, b)
             j == JoinNext(m, b)
             o == Owner(j, b)
             k == JoinPrev(j, b)
  <1>1. /\ Loose(m, b) /\ DOMAIN m.blk = DOMAIN h.blk /\ FreeOf(m.blk) \ {b} = FreeOf(h.blk)
        /\ \A a \in DOMAIN h.blk : m.blk[a].size = h.blk[a].size
    BY MarkIs
  <1>2. g = Enlist(k, o)
    BY DEF Put
  <1>3. UsedOf(m.blk) = UsedOf(h.blk) \ {b}
    <2>1. b \in FreeOf(m.blk)
      BY <1>1 DEF Loose, FreeOf
    <2>2. b \notin FreeOf(h.blk)
      BY DEF FreeOf
    <2> HIDE DEF m
    <2> QED BY <1>1, <2>1, <2>2 DEF FreeOf, UsedOf
  <1> HIDE DEF m
  <1>4. /\ Loose(j, b) /\ ~j.blk[NextOf(j.blk, b)].free /\ UsedOf(j.blk) = UsedOf(m.blk)
        /\ \A a \in DOMAIN m.blk : ~m.blk[a].free => j.blk[a].size = m.blk[a].size
    BY <1>1, JoinNextIs DEF UsedOf
  <1> HIDE DEF j
  <1>5. /\ Loose(k, o) /\ ~k.blk[NextOf(k.blk, o)].free /\ ~k.blk[o].prevFree
        /\ UsedOf(k.blk) = UsedOf(j.blk)
        /\ \A a \in DOMAIN j.blk : ~j.blk[a].free => k.blk[a].size = j.blk[a].size
    BY <1>4, JoinPrevIs DEF UsedOf
  <1> HIDE DEF k, o
  <1>6. /\ Good(g) /\ UsedOf(g.blk) = UsedOf(k.blk)
        /\ \A a \in DOMAIN k.blk : g.blk[a].size = k.blk[a].size
    BY <1>2, <1>5, EnlistIs
  <1>7. UsedOf(g.blk) = UsedOf(h.blk) \ {b}
    BY <1>3, <1>4, <1>5, <1>6
  <1>8. ASSUME NEW a \in UsedOf(g.blk) PROVE g.blk[a].size = h.blk[a].size
    <2>1. a \in UsedOf(k.blk) /\ a \in UsedOf(j.blk) /\ a \in UsedOf(m.blk) /\ a \in UsedOf(h.blk)
      BY <1>3, <1>4, <1>5, <1>6, <1>8
    <2>2. /\ a \in DOMAIN k.blk
          /\ a \in DOMAIN j.blk /\ ~j.blk[a].free
          /\ a \in DOMAIN m.blk /\ ~m.blk[a].free /\ a \in DOMAIN h.blk
      BY <2>1 DEF UsedOf
    <2> QED BY <1>1, <1>4, <1>5, <1>6, <2>2
  <1> QED BY <1>6, <1>7, <1>8

\* malloc_ex without a remainder: the block is in use as it is.
LEMMA TakeWhole ==
  ASSUME NEW h, Good(h), NEW b \in FreeOf(h.blk), NEW need, ~Split(h.blk[b].size, need),
         NEW g, g = Take(h, b, need)
  PROVE  /\ Good(g) /\ UsedOf(g.blk) = UsedOf(h.blk) \cup {b}
         /\ \A a \in DOMAIN h.blk : g.blk[a].size = h.blk[a].size
  <1> DEFINE n == NextOf(h.blk, b)
             e == Extract(h, b)
             S == FreeOf(h.blk) \ {b}
  <1>0. /\ DOMAIN h = Fields /\ Typed(h.blk) /\ Tiled(h.blk) /\ Joined(h.blk)
        /\ Listed(h, FreeOf(h.blk)) /\ b \in DOMAIN h.blk \ {End} /\ h.blk[b].free
    BY DEF Good, FreeOf, Tiled
  <1>1. n \in DOMAIN h.blk /\ n # b /\ n # 0 /\ ~h.blk[n].free /\ h.blk[b].size \in Sizes
    BY <1>0, BlockIs DEF Joined
  <1>2. DOMAIN e = Fields /\ e.blk = h.blk /\ Listed(e, S)
    BY <1>0, <1>1, ExtractIs
  <1> HIDE DEF e, n
  <1>3. g = [e EXCEPT !.blk = [h.blk EXCEPT ![b].free = FALSE, ![n].prevFree = FALSE]]
    BY DEF Take, e, n
  <1>4. DOMAIN g = Fields /\ g.matrix = e.matrix /\ g.sl = e.sl /\ g.fl = e.fl
    BY <1>2, <1>3 DEF Fields
  <1>5. /\ DOMAIN g.blk = DOMAIN h.blk
        /\ \A a \in DOMAIN h.blk \ {b, n} : g.blk[a] = h.blk[a]
        /\ g.blk[b] = [h.blk[b] EXCEPT !.free = FALSE]
        /\ g.blk[n] = [h.blk[n] EXCEPT !.prevFree = FALSE]
    <2>1. g.blk = [h.blk EXCEPT ![b].free = FALSE, ![n].prevFree = FALSE]
      BY <1>2, <1>3 DEF Fields
    <2> QED BY <1>0, <1>1, <2>1
  <1>6. /\ g.blk[b].size = h.blk[b].size /\ g.blk[b].free = FALSE
        /\ g.blk[b].prevFree = h.blk[b].prevFree /\ g.blk[b].prev = h.blk[b].prev
        /\ g.blk[b] \in Block
    <2>1. h.blk[b] \in Block
      BY <1>0 DEF Typed
    <2> QED BY <1>5, <2>1 DEF Block
  <1>7. /\ g.blk[n].size = h.blk[n].size /\ g.blk[n].free = h.blk[n].free
        /\ g.blk[n].prevFree = FALSE /\ g.blk[n].prev = h.blk[n].prev /\ g.blk[n] \in Block
    <2>1. h.blk[n] \in Block
      BY <1>0, <1>1 DEF Typed
    <2> QED BY <1>5, <2>1 DEF Block
  <1>8. \A a \in DOMAIN h.blk : g.blk[a].size = h.blk[a].size /\ NextOf(g.blk, a) = NextOf(h.blk, a)
    BY <1>5, <1>6, <1>7 DEF NextOf
  <1>9. \A a \in DOMAIN h.blk : /\ a # b => g.blk[a].free = h.blk[a].free
                                /\ a # n => g.blk[a].prevFree = h.blk[a].prevFree
                                /\ g.blk[a].prev = h.blk[a].prev
    BY <1>5, <1>6, <1>7
  <1>10. Typed(g.blk)
    BY <1>0, <1>5, <1>6, <1>7 DEF Typed
  <1>11. Tiled(g.blk)
    BY <1>0, <1>5, <1>8, <1>9 DEF Tiled
  <1>12. Joined(g.blk)
    <2>1. ~g.blk[0].prevFree
      BY <1>0, <1>1, <1>9 DEF Joined, Tiled
    <2>2. ASSUME NEW a \in DOMAIN g.blk \ {End}, a # b
          PROVE  /\ g.blk[NextOf(g.blk, a)].prevFree = g.blk[a].free
                 /\ g.blk[a].free => /\ g.blk[NextOf(g.blk, a)].prev = a
                                     /\ ~g.blk[NextOf(g.blk, a)].free
      <3> DEFINE x == NextOf(h.blk, a)
      <3>1. x \in DOMAIN h.blk /\ NextOf(g.blk, a) = x /\ a \in DOMAIN h.blk \ {End, b}
        BY <1>0, <1>5, <1>8, <2>2, BlockIs
      <3>2. x # n
        BY <1>0, <2>2, <3>1, OneBelow DEF n
      <3>3. h.blk[x].prevFree = h.blk[a].free /\ (h.blk[a].free => h.blk[x].prev = a /\ ~h.blk[x].free)
        BY <1>0, <3>1 DEF Joined
      <3>4. ~g.blk[b].free
        BY <1>6
      <3> HIDE DEF x
      <3> QED BY <1>9, <2>2, <3>1, <3>2, <3>3, <3>4
    <2>3. /\ g.blk[NextOf(g.blk, b)].prevFree = g.blk[b].free
          /\ g.blk[b].free => /\ g.blk[NextOf(g.blk, b)].prev = b
                              /\ ~g.blk[NextOf(g.blk, b)].free
      <3>1. NextOf(g.blk, b) = n
        BY <1>0, <1>8 DEF n
      <3> QED BY <1>6, <1>7, <3>1
    <2>4. ASSUME NEW a \in DOMAIN g.blk \ {End}
          PROVE  /\ g.blk[NextOf(g.blk, a)].prevFree = g.blk[a].free
                 /\ g.blk[a].free => /\ g.blk[NextOf(g.blk, a)].prev = a
                                     /\ ~g.blk[NextOf(g.blk, a)].free
      BY <2>2, <2>3
    <2> QED BY <2>1, <2>4 DEF Joined
  <1>13. FreeOf(g.blk) = S /\ UsedOf(g.blk) = UsedOf(h.blk) \cup {b}
    BY <1>0, <1>5, <1>6, <1>9 DEF FreeOf, UsedOf
  <1>14. Listed(g, FreeOf(g.blk))
    <2>1. \A a \in S : g.blk[a].size = h.blk[a].size
      BY <1>8 DEF FreeOf
    <2>2. \A c \in Classes : {a \in S : Class(g.blk[a].size) = c} = {a \in S : Class(h.blk[a].size) = c}
      BY <2>1
    <2> HIDE DEF S
    <2>3. Listed(g, S)
      BY <1>2, <1>4, <2>2 DEF Listed
    <2> QED BY <1>13, <2>3
  <1> QED BY <1>4, <1>8, <1>10, <1>11, <1>12, <1>13, <1>14 DEF Good

\* The headers after a cut.
CutOf(blk, b, need) ==
  LET size == blk[b].size
      next == NextOf(blk, b)
      rest == b + Overhead + need
  IN  [a \in DOMAIN blk \cup {rest} |->
         IF a = b THEN [blk[b] EXCEPT !.size = need, !.free = FALSE]
         ELSE IF a = rest THEN [size |-> size - need - Overhead, free |-> TRUE,
                                prevFree |-> FALSE, prev |-> 0]
         ELSE IF a = next THEN [blk[next] EXCEPT !.prev = rest]
         ELSE blk[a]]

CutWell(blk, b, need, new, rest) ==
  /\ Typed(new) /\ Tiled(new) /\ Joined(new)
  /\ DOMAIN new = DOMAIN blk \cup {rest} /\ rest \notin DOMAIN blk
  /\ new[b].size = need /\ ~new[b].free /\ new[rest].free /\ new[rest].size \in Sizes
  /\ \A a \in DOMAIN blk \ {b} : new[a].size = blk[a].size /\ new[a].free = blk[a].free

\* malloc_ex with a remainder: the rest is a free block.
LEMMA CutIs ==
  ASSUME NEW blk, Typed(blk), Tiled(blk), Joined(blk), NEW b \in DOMAIN blk, blk[b].free,
         NEW need \in Nat, need >= 8, need % 8 = 0, Split(blk[b].size, need),
         NEW new, new = CutOf(blk, b, need), NEW rest, rest = b + 8 + need
  PROVE  CutWell(blk, b, need, new, rest)
  <1> DEFINE n == NextOf(blk, b)
             size == blk[b].size
  <1>0. b # End
    BY DEF Tiled
  <1>1. /\ b \in 0 .. End /\ End \in Nat /\ End = PoolSize + 8 /\ PoolSize \in Nat
        /\ size \in 0 .. PoolSize /\ size \in Nat /\ size >= 8 /\ size % 8 = 0
        /\ n = b + 8 + size /\ n \in DOMAIN blk /\ n \in 0 .. End /\ n # 0 /\ n # b
        /\ \A d \in DOMAIN blk : d <= b \/ d >= n
    <2>1. n \in DOMAIN blk /\ n # b
      BY <1>0, BlockIs
    <2> QED BY <1>0, <2>1, BlockIs, Constants
  <1>2. size - need >= 16
    BY DEF Split, Header
  <1>3. /\ rest \in 0 .. End /\ b < rest /\ rest < n /\ rest # End /\ rest # 0
        /\ n = rest + 8 + (size - need - 8)
    BY <1>1, <1>2
  <1>4. rest \notin DOMAIN blk
    BY <1>1, <1>3
  <1>5. /\ DOMAIN new = DOMAIN blk \cup {rest}
        /\ \A a \in DOMAIN blk \ {b, n} : new[a] = blk[a]
        /\ new[b] = [blk[b] EXCEPT !.size = need, !.free = FALSE]
        /\ new[rest] = [size |-> size - need - 8, free |-> TRUE, prevFree |-> FALSE, prev |-> 0]
        /\ new[n] = [blk[n] EXCEPT !.prev = rest]
    BY <1>1, <1>3, <1>4 DEF CutOf, Overhead
  <1> HIDE DEF n, size
  <1>6. /\ new[b].size = need /\ new[b].free = FALSE /\ new[b].prevFree = blk[b].prevFree
        /\ new[b].prev = blk[b].prev /\ new[b] \in Block
    <2>1. blk[b] \in Block
      BY DEF Typed
    <2>2. need \in 0 .. PoolSize
      BY <1>1, <1>2
    <2>3. new[b] = [blk[b] EXCEPT !.size = need, !.free = FALSE]
      BY <1>5
    <2> QED BY <2>1, <2>2, <2>3 DEF Block
  <1>7. /\ new[n].size = blk[n].size /\ new[n].free = blk[n].free /\ new[n].prevFree = blk[n].prevFree
        /\ new[n].prev = rest /\ new[n] \in Block
    <2>1. blk[n] \in Block
      BY <1>1 DEF Typed
    <2> QED BY <1>3, <1>5, <2>1 DEF Block
  <1>8. /\ new[rest].size = size - need - 8 /\ new[rest].free = TRUE /\ new[rest].prevFree = FALSE
        /\ new[rest].prev = 0 /\ new[rest] \in Block
    <2>1. size - need - 8 \in 0 .. PoolSize /\ 0 \in 0 .. End
      BY <1>1, <1>2
    <2> QED BY <1>5, <2>1 DEF Block
  <1>9. \A a \in DOMAIN blk \ {b} :
          /\ new[a].size = blk[a].size /\ new[a].free = blk[a].free /\ new[a].prevFree = blk[a].prevFree
          /\ NextOf(new, a) = NextOf(blk, a) /\ (a # n => new[a].prev = blk[a].prev)
    BY <1>5, <1>7 DEF NextOf
  <1>10. NextOf(new, b) = rest /\ NextOf(new, rest) = n
    BY <1>3, <1>6, <1>8 DEF NextOf, Overhead
  <1>11. Typed(new)
    BY <1>3, <1>5, <1>6, <1>7, <1>8 DEF Typed, Addresses
  <1>12. size - need - 8 \in Nat /\ size - need - 8 >= 8 /\ (size - need - 8) % 8 = 0
    BY <1>1, <1>2
  <1>13. Tiled(new)
    <2>1. {0, End} \subseteq DOMAIN new /\ new[End].size = 0 /\ ~new[End].free
      BY <1>0, <1>5, <1>9 DEF Tiled
    <2>2. ASSUME NEW a \in DOMAIN new \ {End}
          PROVE  /\ new[a].size >= 8 /\ new[a].size % 8 = 0
                 /\ NextOf(new, a) \in DOMAIN new
                 /\ \A d \in DOMAIN new : d <= a \/ d >= NextOf(new, a)
      <3>1. CASE a = b
        <4>1. \A d \in DOMAIN blk : d \in 0 .. End
          BY BlockIs
        <4>2. \A d \in DOMAIN new : d <= b \/ d >= rest
          BY <1>1, <1>3, <1>5, <4>1
        <4>3. NextOf(new, b) \in DOMAIN new
          BY <1>5, <1>10
        <4> QED BY <1>6, <1>10, <3>1, <4>2, <4>3
      <3>2. CASE a = rest
        <4>1. \A d \in DOMAIN blk : d \in 0 .. End
          BY BlockIs
        <4>2. \A d \in DOMAIN new : d <= rest \/ d >= n
          BY <1>1, <1>3, <1>5, <4>1
        <4> QED BY <1>1, <1>5, <1>8, <1>10, <1>12, <3>2, <4>2
      <3>3. CASE a # b /\ a # rest
        <4>1. /\ a \in DOMAIN blk \ {End} /\ a # b /\ NextOf(new, a) = NextOf(blk, a)
              /\ new[a].size = blk[a].size
          BY <1>5, <1>9, <3>3
        <4>2. /\ NextOf(blk, a) \in DOMAIN blk /\ blk[a].size >= 8 /\ blk[a].size % 8 = 0
              /\ \A d \in DOMAIN blk : d <= a \/ d >= NextOf(blk, a)
              /\ a \in 0 .. End /\ NextOf(blk, a) \in 0 .. End
          BY <4>1, BlockIs
        <4>3. rest <= a \/ rest >= NextOf(blk, a)
          BY <1>1, <1>3, <4>1, <4>2
        <4> QED BY <1>5, <4>1, <4>2, <4>3
      <3> QED BY <3>1, <3>2, <3>3
    <2> QED BY <2>1, <2>2 DEF Tiled, MinBlock, Align
  <1>14. Joined(new)
    <2>1. ~new[0].prevFree
      <3>1. 0 \in DOMAIN blk /\ ~blk[0].prevFree
        BY DEF Tiled, Joined
      <3> QED BY <1>6, <1>9, <3>1
    <2>2. ASSUME NEW a \in DOMAIN new \ {End}
          PROVE  /\ new[NextOf(new, a)].prevFree = new[a].free
                 /\ new[a].free => new[NextOf(new, a)].prev = a /\ ~new[NextOf(new, a)].free
      <3>1. CASE a = b
        BY <1>6, <1>8, <1>10, <3>1
      <3>2. CASE a = rest
        <4>1. blk[n].prevFree = TRUE /\ ~blk[n].free
          <5>1. blk[n].prevFree = blk[b].free /\ ~blk[n].free /\ blk[b].free \in BOOLEAN
            BY <1>0, BlockIs DEF Joined, n
          <5> QED BY <5>1
        <4> QED BY <1>7, <1>8, <1>10, <1>9, <1>1, <3>2, <4>1
      <3>3. CASE a # b /\ a # rest
        <4> DEFINE x == NextOf(blk, a)
        <4>1. a \in DOMAIN blk \ {End} /\ a # b /\ NextOf(new, a) = x /\ x \in DOMAIN blk
          BY <1>5, <1>9, <3>3, BlockIs
        <4>2. x # n
          BY <1>0, <4>1, OneBelow DEF n
        <4>3. blk[x].prevFree = blk[a].free /\ (blk[a].free => blk[x].prev = a /\ ~blk[x].free)
          BY <4>1 DEF Joined
        <4>4. new[x].prevFree = blk[x].prevFree /\ new[x].prev = blk[x].prev
              /\ (new[x].free => blk[x].free)
          BY <1>6, <1>9, <4>1, <4>2
        <4>5. new[a].free = blk[a].free
          BY <1>9, <4>1
        <4> HIDE DEF x
        <4> QED BY <4>1, <4>3, <4>4, <4>5
      <3> QED BY <3>1, <3>2, <3>3
    <2> QED BY <2>1, <2>2 DEF Joined
  <1>15. new[rest].size \in Sizes
    <2>1. rest \in DOMAIN new
      BY <1>5
    <2> QED BY <1>3, <1>11, <1>13, <2>1, BlockIs
  <1> QED BY <1>4, <1>5, <1>6, <1>8, <1>9, <1>11, <1>13, <1>14, <1>15 DEF CutWell

\* malloc_ex with a remainder.
LEMMA TakePart ==
  ASSUME NEW h, Good(h), NEW b \in FreeOf(h.blk), NEW need \in Nat, need >= 8, need % 8 = 0,
         Split(h.blk[b].size, need), NEW g, g = Take(h, b, need)
  PROVE  /\ Good(g) /\ UsedOf(g.blk) = UsedOf(h.blk) \cup {b} /\ g.blk[b].size = need
         /\ \A a \in UsedOf(h.blk) : g.blk[a].size = h.blk[a].size
  <1> DEFINE rest == b + 8 + need
             cut == CutOf(h.blk, b, need)
             e == Extract(h, b)
             x == [e EXCEPT !.blk = cut]
             S == FreeOf(h.blk) \ {b}
  <1>0. /\ DOMAIN h = Fields /\ Typed(h.blk) /\ Tiled(h.blk) /\ Joined(h.blk)
        /\ Listed(h, FreeOf(h.blk)) /\ b \in DOMAIN h.blk \ {End} /\ h.blk[b].free
    BY DEF Good, FreeOf, Tiled
  <1>1. h.blk[b].size \in Sizes
    BY <1>0, BlockIs
  <1>2. DOMAIN e = Fields /\ e.blk = h.blk /\ Listed(e, S)
    BY <1>0, <1>1, ExtractIs
  <1>3. g = Insert(x, rest)
    BY DEF Take, CutOf, Overhead
  <1> HIDE DEF e, cut, rest
  <1>4. cut = CutOf(h.blk, b, need) /\ rest = b + 8 + need
    BY DEF cut, rest
  <1>5. /\ Typed(cut) /\ Tiled(cut) /\ Joined(cut)
        /\ DOMAIN cut = DOMAIN h.blk \cup {rest} /\ rest \notin DOMAIN h.blk
        /\ cut[b].size = need /\ ~cut[b].free /\ cut[rest].free /\ cut[rest].size \in Sizes
        /\ \A a \in DOMAIN h.blk \ {b} : cut[a].size = h.blk[a].size /\ cut[a].free = h.blk[a].free
    <2>1. CutWell(h.blk, b, need, cut, rest)
      BY <1>0, <1>4, CutIs
    <2> QED BY <2>1 DEF CutWell
  <1>6. DOMAIN x = Fields /\ x.blk = cut /\ x.matrix = e.matrix /\ x.sl = e.sl /\ x.fl = e.fl
    BY <1>2 DEF Fields
  <1> HIDE DEF x
  <1>7. Listed(x, S)
    <2>1. \A a \in S : cut[a].size = h.blk[a].size
      BY <1>5 DEF FreeOf
    <2>2. \A c \in Classes : {a \in S : Class(x.blk[a].size) = c} = {a \in S : Class(e.blk[a].size) = c}
      BY <1>2, <1>6, <2>1
    <2> HIDE DEF S
    <2> QED BY <1>2, <1>6, <2>2 DEF Listed
  <1>8. DOMAIN g = Fields /\ g.blk = cut /\ Listed(g, S \cup {rest})
    BY <1>3, <1>5, <1>6, <1>7, InsertIs
  <1>9. FreeOf(cut) = S \cup {rest}
    BY <1>0, <1>5 DEF FreeOf
  <1>10. UsedOf(cut) = UsedOf(h.blk) \cup {b}
    BY <1>0, <1>5 DEF UsedOf
  <1>11. \A a \in UsedOf(h.blk) : cut[a].size = h.blk[a].size
    BY <1>0, <1>5 DEF UsedOf
  <1> QED BY <1>5, <1>8, <1>9, <1>10, <1>11 DEF Good

\* malloc_ex, from a free block that is large enough.
LEMMA TakeIs ==
  ASSUME NEW h, Good(h), NEW b \in FreeOf(h.blk), NEW need \in Nat, need >= 8, need % 8 = 0,
         need <= h.blk[b].size, NEW g, g = Take(h, b, need)
  PROVE  /\ Good(g) /\ UsedOf(g.blk) = UsedOf(h.blk) \cup {b} /\ need <= g.blk[b].size
         /\ \A a \in UsedOf(h.blk) : g.blk[a].size = h.blk[a].size
  <1>1. CASE Split(h.blk[b].size, need)
    BY <1>1, TakePart
  <1>2. CASE ~Split(h.blk[b].size, need)
    <2>1. /\ Good(g) /\ UsedOf(g.blk) = UsedOf(h.blk) \cup {b}
          /\ \A a \in DOMAIN h.blk : g.blk[a].size = h.blk[a].size
      BY <1>2, TakeWhole
    <2> QED BY <2>1 DEF FreeOf, UsedOf
  <1> QED BY <1>1, <1>2

\* process_area leaves one free block.
LEMMA FreshIs == Good(FreshHeap) /\ UsedOf(FreshHeap.blk) = {End}
  <1> DEFINE blk == [a \in {0, End} |->
                       IF a = 0 THEN [size |-> PoolSize, free |-> TRUE, prevFree |-> FALSE, prev |-> 0]
                                ELSE [size |-> 0, free |-> FALSE, prevFree |-> TRUE, prev |-> 0]]
             h == [blk |-> blk, matrix |-> [c \in Classes |-> {}], sl |-> {}, fl |-> {}]
  <1>1. End = PoolSize + 8 /\ PoolSize \in Nat /\ PoolSize >= 8 /\ PoolSize % 8 = 0 /\ End \in Nat
        /\ End # 0 /\ PoolSize < Pow2(MaxFli) /\ PoolSize \in Sizes
    <2>1. Pow2(MaxFli) \in Nat
      BY Constants, Powers
    <2> QED BY <2>1, Constants DEF End, Overhead, Sizes, MinBlock
  <1>2. /\ DOMAIN blk = {0, End} /\ blk[0].size = PoolSize /\ blk[0].free = TRUE
        /\ blk[0].prevFree = FALSE /\ blk[End].size = 0 /\ blk[End].free = FALSE
        /\ blk[End].prevFree = TRUE /\ blk[End].prev = 0
    BY <1>1
  <1>3. Typed(blk)
    <2>1. blk[0] \in Block /\ blk[End] \in Block
      BY <1>1 DEF Block
    <2> QED BY <1>1, <1>2, <2>1 DEF Typed, Addresses
  <1>4. DOMAIN h = Fields /\ h.blk = blk /\ h.matrix = [c \in Classes |-> {}] /\ h.sl = {} /\ h.fl = {}
    BY DEF Fields
  <1>5. FreshHeap = Insert(h, 0)
    BY DEF FreshHeap
  <1> HIDE DEF h, blk
  <1>6. NextOf(blk, 0) = End
    BY <1>1, <1>2 DEF NextOf, Overhead
  <1>7. Tiled(blk)
    BY <1>1, <1>2, <1>6 DEF Tiled, MinBlock, Align
  <1>8. Joined(blk)
    BY <1>1, <1>2, <1>6 DEF Joined
  <1>9. Listed(h, {})
    <2>1. \A c \in Classes : {a \in {} : Class(h.blk[a].size) = c} = {}
      OBVIOUS
    <2>2. h.matrix = [c \in Classes |-> {a \in {} : Class(h.blk[a].size) = c}]
      BY <1>4, <2>1
    <2>3. \A c \in Classes : h.matrix[c] = {}
      BY <1>4
    <2> QED BY <1>4, <2>2, <2>3 DEF Listed
  <1>10. h.blk[0].size \in Sizes
    BY <1>1, <1>2, <1>4
  <1>11. DOMAIN FreshHeap = Fields /\ FreshHeap.blk = blk /\ Listed(FreshHeap, {} \cup {0})
    BY <1>4, <1>5, <1>9, <1>10, InsertIs
  <1>12. FreeOf(blk) = {} \cup {0} /\ UsedOf(blk) = {End}
    BY <1>1, <1>2 DEF FreeOf, UsedOf
  <1> QED BY <1>3, <1>7, <1>8, <1>11, <1>12 DEF Good

-----------------------------------------------------------------------------
(* The search.                                                               *)

\* What FIND_SUITABLE_BLOCK finds for a request is a list of blocks that are large enough;
\* if it finds none there is no such block.
LEMMA SearchFits ==
  ASSUME NEW h, Good(h), NEW n \in Requests
  PROVE  /\ Find(h, SearchClass(Adjusted(n))) # NoClass =>
              \A b \in h.matrix[Find(h, SearchClass(Adjusted(n)))] :
                 b \in FreeOf(h.blk) /\ h.blk[b].size >= SearchSize(Adjusted(n))
         /\ Find(h, SearchClass(Adjusted(n))) = NoClass =>
              \A b \in FreeOf(h.blk) : h.blk[b].size < SearchSize(Adjusted(n))
         /\ SearchSize(Adjusted(n)) \in Nat /\ SearchSize(Adjusted(n)) >= n
         /\ SearchSize(Adjusted(n)) >= 8 /\ SearchSize(Adjusted(n)) % 8 = 0
  <1> DEFINE a == Adjusted(n)
             m == a + Slack(a)
             c == Find(h, Class(m))
  <1>0. /\ Typed(h.blk) /\ Tiled(h.blk) /\ Listed(h, FreeOf(h.blk))
    BY DEF Good
  <1>1. n \in Nat /\ a \in Nat /\ a % 8 = 0 /\ a >= n /\ a >= 8 /\ a <= Pow2(MaxFli - 1)
    BY AdjustedIs
  <1>2. SearchClass(Adjusted(n)) = Class(m)
    BY DEF SearchClass
  <1> HIDE DEF a
  <1>3. /\ m \in Sizes /\ SearchSize(a) = m - (m % WidthOf(m))
        /\ SearchSize(a) \in Nat /\ SearchSize(a) >= a /\ SearchSize(a) % 8 = 0
    BY <1>1, SearchIs
  <1> HIDE DEF m
  <1>4. /\ h.sl \subseteq Classes /\ h.fl = {d[1] : d \in h.sl}
        /\ \A d \in Classes : h.matrix[d] = {b \in FreeOf(h.blk) : Class(h.blk[b].size) = d}
        /\ \A d \in Classes : d \in h.sl <=> h.matrix[d] # {}
    BY <1>0 DEF Listed
  <1>5. \A b \in FreeOf(h.blk) : h.blk[b].size \in Sizes
    BY <1>0, BlockIs DEF FreeOf, Tiled
  <1>6. Class(m) \in Classes
    BY <1>3, HasClass
  <1>7. \/ c = NoClass /\ \A d \in h.sl : ~AtLeast(d, Class(m))
        \/ c # NoClass /\ c \in h.sl /\ AtLeast(c, Class(m))
    BY <1>4, <1>6, FindIs
  <1> HIDE DEF c
  <1>8. \A b \in FreeOf(h.blk) : AtLeast(Class(h.blk[b].size), Class(m)) <=> h.blk[b].size >= SearchSize(a)
    BY <1>3, <1>5, ClassOrder
  <1>9. ASSUME c # NoClass, NEW b \in h.matrix[c]
        PROVE  b \in FreeOf(h.blk) /\ h.blk[b].size >= SearchSize(a)
    BY <1>4, <1>7, <1>8, <1>9
  <1>10. ASSUME c = NoClass, NEW b \in FreeOf(h.blk) PROVE h.blk[b].size < SearchSize(a)
    <2>1. Class(h.blk[b].size) \in Classes
      BY <1>5, HasClass
    <2>2. Class(h.blk[b].size) \in h.sl
      BY <1>4, <2>1
    <2>3. ~(h.blk[b].size >= SearchSize(a))
      BY <1>7, <1>8, <1>10, <2>2
    <2> QED BY <1>3, <1>5, <2>3 DEF Sizes
  <1>11. SearchSize(a) >= n /\ SearchSize(a) >= 8
    BY <1>1, <1>3
  <1>12. a = Adjusted(n) /\ c = Find(h, SearchClass(Adjusted(n)))
    BY <1>2 DEF a, c
  <1> QED BY <1>3, <1>9, <1>10, <1>11, <1>12

-----------------------------------------------------------------------------
(* The invariant.                                                            *)

HeapTyped(h) ==
  /\ DOMAIN h = Fields /\ Typed(h.blk)
  /\ h.matrix \in [Classes -> SUBSET Addresses]
  /\ h.sl \subseteq Classes /\ h.fl \subseteq Fls

ClientTyped(l) == DOMAIN l \subseteq Addresses /\ \A p \in DOMAIN l : l[p] \in Requests

\* What is in use is what the client has.
Accounted(h, l) ==
  /\ UsedOf(h.blk) \ {End} = {p - Overhead : p \in DOMAIN l}
  /\ \A p \in DOMAIN l : l[p] <= h.blk[p - Overhead].size

IInv ==
  /\ up \in BOOLEAN /\ signature \in BOOLEAN
  /\ HeapTyped(heap) /\ ClientTyped(live)
  /\ ~up => live = <<>>
  /\ up => Good(heap) /\ Accounted(heap, live)

\* A consistent heap has the type of one.
LEMMA GoodTyped == ASSUME NEW h, Good(h) PROVE HeapTyped(h)
  <1>1. DOMAIN h = Fields /\ Typed(h.blk) /\ Listed(h, FreeOf(h.blk))
    BY DEF Good
  <1>2. FreeOf(h.blk) \subseteq Addresses
    BY <1>1 DEF FreeOf, Typed
  <1>3. h.matrix \in [Classes -> SUBSET Addresses]
    BY <1>1, <1>2 DEF Listed
  <1>4. \A c \in Classes : c[1] \in Fls
    BY DEF Classes
  <1>5. h.sl \subseteq Classes /\ h.fl \subseteq Fls
    BY <1>1, <1>4 DEF Listed
  <1> QED BY <1>1, <1>3, <1>5 DEF HeapTyped

\* Pointers and headers.
LEMMA LiveIs ==
  ASSUME NEW h, NEW l, Good(h), Accounted(h, l), ClientTyped(l), NEW p \in DOMAIN l
  PROVE  /\ p \in 0 .. End /\ p - Overhead = p - 8 /\ l[p] \in Nat
         /\ p - 8 \in DOMAIN h.blk \ {End} /\ ~h.blk[p - 8].free
  <1>1. p \in 0 .. End /\ p - Overhead = p - 8 /\ l[p] \in Nat
    BY AdjustedIs DEF ClientTyped, Addresses, Overhead
  <1>2. p - 8 \in UsedOf(h.blk) \ {End}
    BY <1>1 DEF Accounted
  <1> QED BY <1>1, <1>2 DEF UsedOf

\* What Malloc does, when it does not return NULL.
LEMMA MallocActs ==
  ASSUME IInv, NEW n \in Requests, Malloc(n)
  PROVE  \E b \in FreeOf(heap.blk) :
           /\ up /\ up' = up /\ signature' = signature
           /\ Good(heap') /\ UsedOf(heap'.blk) = UsedOf(heap.blk) \cup {b}
           /\ n <= heap'.blk[b].size /\ n <= heap.blk[b].size
           /\ \A a \in UsedOf(heap.blk) : heap'.blk[a].size = heap.blk[a].size
           /\ live' = [p \in DOMAIN live \cup {b + 8} |-> IF p = b + 8 THEN n ELSE live[p]]
  <1> DEFINE c == Find(heap, SearchClass(Adjusted(n)))
             need == SearchSize(Adjusted(n))
  <1>1. up /\ up' = up /\ signature' = signature /\ c # NoClass /\ Good(heap)
    BY DEF Malloc, IInv
  <1>2. PICK b \in heap.matrix[c] :
          /\ heap' = Take(heap, b, need)
          /\ live' = [p \in DOMAIN live \cup {b + 8} |-> IF p = b + 8 THEN n ELSE live[p]]
    BY DEF Malloc, Overhead
  <1>3. /\ b \in FreeOf(heap.blk) /\ heap.blk[b].size >= need
        /\ need \in Nat /\ need >= n /\ need >= 8 /\ need % 8 = 0
    BY <1>1, <1>2, SearchFits
  <1> HIDE DEF need, c
  <1>4. b \in DOMAIN heap.blk /\ heap.blk[b].size \in Nat
    BY <1>1, <1>3, BlockIs DEF FreeOf, Good
  <1>5. /\ Good(heap') /\ UsedOf(heap'.blk) = UsedOf(heap.blk) \cup {b}
        /\ need <= heap'.blk[b].size
        /\ \A a \in UsedOf(heap.blk) : heap'.blk[a].size = heap.blk[a].size
    BY <1>1, <1>2, <1>3, <1>4, TakeIs
  <1>6. n \in Nat
    BY AdjustedIs
  <1>7. heap'.blk[b].size \in Nat
    <2>1. b \in DOMAIN heap'.blk
      BY <1>5 DEF UsedOf
    <2> QED BY <1>5, <2>1, BlockIs DEF Good
  <1>8. n <= heap'.blk[b].size /\ n <= heap.blk[b].size
    BY <1>3, <1>4, <1>5, <1>6, <1>7
  <1> QED BY <1>1, <1>2, <1>3, <1>5, <1>8

\* What Free does.
LEMMA FreeActs ==
  ASSUME IInv, NEW p \in DOMAIN live, Free(p)
  PROVE  /\ up /\ up' = up /\ signature' = signature
         /\ Good(heap') /\ UsedOf(heap'.blk) = UsedOf(heap.blk) \ {p - 8}
         /\ \A a \in UsedOf(heap'.blk) : heap'.blk[a].size = heap.blk[a].size
         /\ live' = [q \in DOMAIN live \ {p} |-> live[q]]
  <1>1. up /\ up' = up /\ signature' = signature /\ Good(heap) /\ Accounted(heap, live)
        /\ ClientTyped(live)
        /\ live' = [q \in DOMAIN live \ {p} |-> live[q]]
    BY DEF Free, IInv
  <1>2. p - Overhead = p - 8 /\ p - 8 \in DOMAIN heap.blk \ {End} /\ ~heap.blk[p - 8].free
    BY <1>1, LiveIs
  <1>3. heap' = Put(heap, p - 8)
    BY <1>2 DEF Free
  <1> QED BY <1>1, <1>2, <1>3, PutIs

\* IInv is inductive: the first states.
LEMMA InitHolds == Init => IInv
  <1> SUFFICES ASSUME Init PROVE IInv
    OBVIOUS
  <1>1. /\ heap = [blk |-> <<>>, matrix |-> [c \in Classes |-> {}], sl |-> {}, fl |-> {}]
        /\ live = <<>> /\ up = FALSE /\ signature = FALSE
    BY DEF Init
  <1>2. /\ DOMAIN heap = Fields /\ heap.blk = <<>> /\ heap.matrix = [c \in Classes |-> {}]
        /\ heap.sl = {} /\ heap.fl = {}
    BY <1>1 DEF Fields
  <1>3. DOMAIN heap.blk = {} /\ DOMAIN live = {}
    BY <1>1, <1>2
  <1>4. HeapTyped(heap)
    BY <1>2, <1>3 DEF HeapTyped, Typed
  <1>5. ClientTyped(live)
    BY <1>3 DEF ClientTyped
  <1> QED BY <1>1, <1>4, <1>5 DEF IInv

\* ... and every step.
LEMMA NextHolds == IInv /\ [Next]_vars => IInv'
  <1> SUFFICES ASSUME IInv, [Next]_vars PROVE IInv'
    OBVIOUS
  <1>0. /\ up \in BOOLEAN /\ signature \in BOOLEAN /\ HeapTyped(heap) /\ ClientTyped(live)
        /\ (~up => live = <<>>) /\ (up => Good(heap) /\ Accounted(heap, live))
    BY DEF IInv
  <1>1. CASE HeapInit
    <2>1. ~up /\ up' = TRUE /\ signature' = TRUE /\ heap' = FreshHeap /\ live' = live /\ live = <<>>
      BY <1>0, <1>1 DEF HeapInit, InitMemoryPool
    <2>2. Good(heap') /\ UsedOf(heap'.blk) = {End}
      BY <2>1, FreshIs
    <2>3. DOMAIN live' = {}
      BY <2>1
    <2>4. Accounted(heap', live')
      BY <2>2, <2>3 DEF Accounted
    <2>5. ClientTyped(live')
      BY <2>3 DEF ClientTyped
    <2> QED BY <2>1, <2>2, <2>4, <2>5, GoodTyped DEF IInv
  <1>2. CASE Restart
    <2>1. up' = FALSE /\ live' = <<>> /\ signature' = signature /\ heap' = heap
      BY <1>2 DEF Restart
    <2>2. DOMAIN live' = {}
      BY <2>1
    <2>3. ClientTyped(live')
      BY <2>2 DEF ClientTyped
    <2> QED BY <1>0, <2>1, <2>3 DEF IInv
  <1>3. CASE \E n \in Requests : Malloc(n)
    <2>1. PICK n \in Requests : Malloc(n)
      BY <1>3
    <2>2. PICK b \in FreeOf(heap.blk) :
            /\ up /\ up' = up /\ signature' = signature
            /\ Good(heap') /\ UsedOf(heap'.blk) = UsedOf(heap.blk) \cup {b}
            /\ n <= heap'.blk[b].size /\ n <= heap.blk[b].size
            /\ \A a \in UsedOf(heap.blk) : heap'.blk[a].size = heap.blk[a].size
            /\ live' = [p \in DOMAIN live \cup {b + 8} |-> IF p = b + 8 THEN n ELSE live[p]]
      BY <2>1, MallocActs
    <2>3. Good(heap) /\ Accounted(heap, live) /\ ClientTyped(live)
      BY <1>0, <2>2
    <2>4. b \in DOMAIN heap.blk \ {End} /\ b \in 0 .. End /\ b + 8 \in 0 .. End /\ End \in Nat
      <3>1. b \in DOMAIN heap.blk \ {End}
        BY <2>3 DEF FreeOf, Good, Tiled
      <3>2. /\ b \in 0 .. End /\ End \in Nat /\ NextOf(heap.blk, b) = b + 8 + heap.blk[b].size
            /\ NextOf(heap.blk, b) <= End /\ heap.blk[b].size >= 8 /\ heap.blk[b].size \in 0 .. PoolSize
        BY <2>3, <3>1, BlockIs DEF Good
      <3> QED BY <3>1, <3>2, Constants
    <2>5. /\ DOMAIN live' = DOMAIN live \cup {b + 8} /\ live'[b + 8] = n
          /\ \A p \in DOMAIN live \ {b + 8} : live'[p] = live[p]
      BY <2>2
    <2>6. ClientTyped(live')
      BY <2>3, <2>4, <2>5 DEF ClientTyped, Addresses
    <2>7. \A p \in DOMAIN live : p \in 0 .. End /\ p - 8 \in UsedOf(heap.blk) \ {End} /\ p # b + 8
      <3>1. b \notin UsedOf(heap.blk)
        BY DEF FreeOf, UsedOf
      <3>2. \A p \in DOMAIN live : p \in 0 .. End /\ p - 8 \in UsedOf(heap.blk) \ {End}
        BY <2>3, LiveIs DEF UsedOf
      <3> QED BY <2>4, <3>1, <3>2
    <2>8. UsedOf(heap'.blk) \ {End} = {p - Overhead : p \in DOMAIN live'}
      <3>1. UsedOf(heap'.blk) \ {End} = (UsedOf(heap.blk) \ {End}) \cup {b}
        BY <2>2, <2>4
      <3>2. UsedOf(heap.blk) \ {End} = {p - Overhead : p \in DOMAIN live}
        BY <2>3 DEF Accounted
      <3>3. b = (b + 8) - Overhead
        BY <2>4 DEF Overhead
      <3> QED BY <2>5, <3>1, <3>2, <3>3
    <2>9. ASSUME NEW p \in DOMAIN live' PROVE live'[p] <= heap'.blk[p - Overhead].size
      <3>1. CASE p = b + 8
        <4>1. p - Overhead = b
          BY <2>4, <3>1 DEF Overhead
        <4> QED BY <2>2, <2>5, <3>1, <4>1
      <3>2. CASE p # b + 8
        <4>1. p \in DOMAIN live /\ live'[p] = live[p]
          BY <2>5, <3>2
        <4>2. p - Overhead = p - 8
          BY DEF Overhead
        <4> QED BY <2>2, <2>3, <2>7, <4>1, <4>2 DEF Accounted
      <3> QED BY <3>1, <3>2
    <2>10. Accounted(heap', live')
      BY <2>8, <2>9 DEF Accounted
    <2> QED BY <1>0, <2>2, <2>6, <2>10, GoodTyped DEF IInv
  <1>4. CASE \E p \in DOMAIN live : Free(p)
    <2>1. PICK p \in DOMAIN live : Free(p)
      BY <1>4
    <2>2. /\ up /\ up' = up /\ signature' = signature
          /\ Good(heap') /\ UsedOf(heap'.blk) = UsedOf(heap.blk) \ {p - 8}
          /\ \A a \in UsedOf(heap'.blk) : heap'.blk[a].size = heap.blk[a].size
          /\ live' = [q \in DOMAIN live \ {p} |-> live[q]]
      BY <2>1, FreeActs
    <2>3. Good(heap) /\ Accounted(heap, live) /\ ClientTyped(live)
      BY <1>0, <2>2
    <2>4. DOMAIN live' = DOMAIN live \ {p} /\ \A q \in DOMAIN live' : live'[q] = live[q]
      BY <2>2
    <2>5. ClientTyped(live')
      BY <2>3, <2>4 DEF ClientTyped
    <2>6. \A q \in DOMAIN live : q \in 0 .. End /\ q - Overhead = q - 8
      BY <2>3, LiveIs
    <2>7. UsedOf(heap.blk) \ {End} = {q - Overhead : q \in DOMAIN live}
      BY <2>3 DEF Accounted
    <2>8. \A q \in DOMAIN live \ {p} : q - 8 # p - 8
      BY <2>6
    <2>9. UsedOf(heap'.blk) \ {End} = {q - Overhead : q \in DOMAIN live'}
      <3>1. UsedOf(heap'.blk) \ {End} = (UsedOf(heap.blk) \ {End}) \ {p - 8}
        BY <2>2
      <3> QED BY <2>4, <2>6, <2>7, <2>8, <3>1
    <2>10. ASSUME NEW q \in DOMAIN live' PROVE live'[q] <= heap'.blk[q - Overhead].size
      <3>1. q - Overhead \in UsedOf(heap'.blk)
        BY <2>9
      <3> QED BY <2>2, <2>3, <2>4, <3>1 DEF Accounted
    <2>11. Accounted(heap', live')
      BY <2>9, <2>10 DEF Accounted
    <2> QED BY <1>0, <2>2, <2>5, <2>11, GoodTyped DEF IInv
  <1>5. CASE UNCHANGED vars
    <2>1. up' = up /\ signature' = signature /\ heap' = heap /\ live' = live
      BY <1>5 DEF vars
    <2> QED BY <1>0, <2>1 DEF IInv
  <1> QED BY <1>1, <1>2, <1>3, <1>4, <1>5 DEF Next

\* The invariant holds always.
LEMMA Inductive == Spec => []IInv
  BY InitHolds, NextHolds, PTL DEF Spec

-----------------------------------------------------------------------------
(* The theorems.                                                             *)

\* The heap's fields keep their types: every header stays inside the pool.
THEOREM HeapTypes == Spec => []TypeOK
  <1>1. IInv => TypeOK
    BY DEF IInv, HeapTyped, ClientTyped, Typed, Fields, TypeOK
  <1> QED BY <1>1, Inductive, PTL

\* After any calls, and after restarts, the sizes, PREV_FREE bits and prev_hdr pointers that
\* free_ex follows agree with each other, for every pool, table of lists and set of requests.
THEOREM WalksAreSafe == Spec => []HeadersAgree
  <1>1. IInv => HeadersAgree
    BY DEF IInv, Good, HeadersAgree
  <1> QED BY <1>1, Inductive, PTL

\* INSERT_BLOCK and EXTRACT_BLOCK keep the lists and both bitmaps equal to what the headers say.
THEOREM ListsAreRight == Spec => []ListsAgree
  <1>1. IInv => ListsAgree
    <2> SUFFICES ASSUME Good(heap)
                 PROVE  /\ \A c \in Classes : heap.matrix[c] =
                             {a \in DOMAIN heap.blk : heap.blk[a].free /\ Class(heap.blk[a].size) = c}
                        /\ heap.sl = {c \in Classes : heap.matrix[c] # {}}
                        /\ heap.fl = {c[1] : c \in heap.sl}
      BY DEF IInv, ListsAgree
    <2>1. Listed(heap, FreeOf(heap.blk))
      BY DEF Good
    <2>2. ASSUME NEW c \in Classes
          PROVE  heap.matrix[c] =
                   {a \in DOMAIN heap.blk : heap.blk[a].free /\ Class(heap.blk[a].size) = c}
      BY <2>1 DEF Listed, FreeOf
    <2> QED BY <2>1, <2>2 DEF Listed
  <1> QED BY <1>1, Inductive, PTL

\* What is not free is the client's and large enough; with everything freed the pool is one
\* block again.
THEOREM NothingIsLost == Spec => []NothingLeaks
  <1>1. IInv => NothingLeaks
    <2> SUFFICES ASSUME Good(heap), Accounted(heap, live)
                 PROVE  /\ {a \in DOMAIN heap.blk \ {End} : ~heap.blk[a].free} =
                             {p - Overhead : p \in DOMAIN live}
                        /\ \A p \in DOMAIN live : live[p] <= heap.blk[p - Overhead].size
                        /\ live = <<>> => DOMAIN heap.blk = {0, End}
      BY DEF IInv, NothingLeaks
    <2>1. {a \in DOMAIN heap.blk \ {End} : ~heap.blk[a].free} = {p - Overhead : p \in DOMAIN live}
      BY DEF Accounted, UsedOf
    <2>2. ASSUME live = <<>> PROVE DOMAIN heap.blk = {0, End}
      <3>0. Typed(heap.blk) /\ Tiled(heap.blk) /\ Joined(heap.blk) /\ {0, End} \subseteq DOMAIN heap.blk
        BY DEF Good, Tiled
      <3>1. DOMAIN live = {}
        BY <2>2
      <3>2. \A a \in DOMAIN heap.blk \ {End} : heap.blk[a].free
        BY <2>1, <3>1
      <3>3. 0 # End
        BY Constants DEF End, Overhead
      <3>4. NextOf(heap.blk, 0) \in DOMAIN heap.blk /\ ~heap.blk[NextOf(heap.blk, 0)].free
        BY <3>0, <3>2, <3>3, BlockIs DEF Joined
      <3>5. NextOf(heap.blk, 0) = End
        BY <3>2, <3>4
      <3>6. \A d \in DOMAIN heap.blk : d \in 0 .. End /\ End \in Nat /\ (d <= 0 \/ d >= End)
        BY <3>0, <3>3, <3>5, BlockIs
      <3> QED BY <3>0, <3>6
    <2> QED BY <2>1, <2>2 DEF Accounted
  <1> QED BY <1>1, Inductive, PTL

\* malloc returns NULL only if no free block reaches the rounded request.
THEOREM NullIsHonest == Spec => []NullMeansNoFit
  <1>1. IInv => NullMeansNoFit
    <2> SUFFICES ASSUME Good(heap), NEW n \in Requests,
                        Find(heap, SearchClass(Adjusted(n))) = NoClass,
                        NEW a \in DOMAIN heap.blk, heap.blk[a].free
                 PROVE  heap.blk[a].size < SearchSize(Adjusted(n))
      BY DEF IInv, NullMeansNoFit
    <2>1. a \in FreeOf(heap.blk)
      BY DEF FreeOf
    <2> QED BY <2>1, SearchFits
  <1> QED BY <1>1, Inductive, PTL

\* malloc and free keep the promise of HeapService: blocks in use are in the pool and do not
\* overlap, across restarts on memory that was not cleared.
THEOREM HeapImplementsService == Spec => ImplementsHeap
  <1>1. Init => Service!Init
    BY DEF Init, Service!Init
  <1>2. IInv /\ [Next]_vars => [Service!Next]_<<up, live>>
    <2> SUFFICES ASSUME IInv, [Next]_vars PROVE Service!Next \/ UNCHANGED <<up, live>>
      OBVIOUS
    <2>1. CASE HeapInit
      BY <2>1 DEF HeapInit, Service!Start, Service!Next
    <2>2. CASE Restart
      BY <2>2 DEF Restart, Service!Restart, Service!Next
    <2>3. CASE \E n \in Requests : Malloc(n)
      <3>1. PICK n \in Requests : Malloc(n)
        BY <2>3
      <3>2. PICK b \in FreeOf(heap.blk) :
              /\ up /\ up' = up
              /\ n <= heap.blk[b].size
              /\ live' = [p \in DOMAIN live \cup {b + 8} |-> IF p = b + 8 THEN n ELSE live[p]]
        BY <3>1, MallocActs
      <3>3. Good(heap) /\ Accounted(heap, live) /\ ClientTyped(live) /\ Typed(heap.blk) /\ Tiled(heap.blk)
        BY <3>2 DEF IInv, Good
      <3>4. b \in DOMAIN heap.blk \ {End} /\ heap.blk[b].free
        BY <3>3 DEF FreeOf, Tiled
      <3>5. /\ b \in 0 .. End /\ End \in Nat /\ n \in Nat /\ heap.blk[b].size \in Nat
            /\ b + 8 + heap.blk[b].size <= End
            /\ \A d \in DOMAIN heap.blk : d <= b \/ d >= b + 8 + heap.blk[b].size
        <4>1. n \in Nat
          BY AdjustedIs
        <4> QED BY <3>3, <3>4, <4>1, BlockIs
      <3>6. ASSUME NEW q \in DOMAIN live
            PROVE  q # b + 8 /\ (b + 8 + n <= q \/ q + live[q] <= b + 8)
        <4>1. /\ q \in 0 .. End /\ q - Overhead = q - 8 /\ live[q] \in Nat
              /\ q - 8 \in DOMAIN heap.blk \ {End} /\ ~heap.blk[q - 8].free
          BY <3>3, LiveIs
        <4>2. live[q] <= heap.blk[q - 8].size
          BY <3>3, <4>1 DEF Accounted
        <4>3. /\ heap.blk[q - 8].size \in Nat /\ q - 8 # b
              /\ b <= q - 8 \/ b >= (q - 8) + 8 + heap.blk[q - 8].size
          BY <3>3, <3>4, <4>1, BlockIs
        <4>4. q - 8 <= b \/ q - 8 >= b + 8 + heap.blk[b].size
          BY <3>5, <4>1
        <4> QED BY <3>2, <3>5, <4>1, <4>2, <4>3, <4>4
      <3>7. Service!Allocate(n, b + 8)
        <4>1. b + 8 \notin DOMAIN live /\ (b + 8) + n <= End
          BY <3>2, <3>5, <3>6
        <4> QED BY <3>2, <3>6, <4>1 DEF Service!Allocate
      <3>8. b + 8 \in 0 .. End
        BY <3>2, <3>5
      <3> QED BY <3>7, <3>8 DEF Service!Next
    <2>4. CASE \E p \in DOMAIN live : Free(p)
      <3>1. PICK p \in DOMAIN live : Free(p)
        BY <2>4
      <3>2. up /\ up' = up /\ live' = [q \in DOMAIN live \ {p} |-> live[q]]
        BY <3>1 DEF Free
      <3>3. p \in 0 .. End
        BY DEF IInv, ClientTyped, Addresses
      <3> QED BY <3>2, <3>3 DEF Service!Release, Service!Next
    <2>5. CASE UNCHANGED vars
      BY <2>5 DEF vars
    <2> QED BY <2>1, <2>2, <2>3, <2>4, <2>5 DEF Next
  <1> QED BY <1>1, <1>2, Inductive, PTL DEF Spec, ImplementsHeap, Service!Spec
=============================================================================
