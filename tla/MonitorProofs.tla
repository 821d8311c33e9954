--------------------------- MODULE MonitorProofs ---------------------------
(***************************************************************************)
(* For mailboxes of any depth, any buffers, channels and requests: the IPC *)
(* monitor implements MailService; write_word never reports a word sent    *)
(* that is not; the words of a request are those the ARM laid out and the  *)
(* reply to one tag is true, unless the VPU wrote into them from another   *)
(* message; only a tag without room makes it; and no request is lost if    *)
(* MAIL0 has room for all of them.                                         *)
(***************************************************************************)
EXTENDS Monitor, FiniteSetTheorems, WellFoundedInduction, TLAPS

-----------------------------------------------------------------------------
(* Recursion.  FlattenSeq is a recursive function; that it exists, and what it   *)
(* is, follows by induction over sets of natural numbers.                        *)

\* A nonempty set of natural numbers has a smallest one.
LEMMA Smallest ==
  ASSUME NEW S \in SUBSET Nat, S # {} PROVE \E s \in S : \A t \in S : s <= t
  <1> DEFINE R == {ss \in Nat \X Nat : ss[1] < ss[2]}
  <1>1. IsWellFoundedOn(R, Nat)
    BY NatLessThanWellFounded DEF OpToRel
  <1>2. \E s \in S : \A t \in S : <<t, s>> \notin R
    <2> HIDE DEF R
    <2> QED BY <1>1, WFMin
  <1>3. ASSUME NEW s \in S, NEW t \in S, <<t, s>> \notin R PROVE s <= t
    BY <1>3
  <1> QED BY <1>2, <1>3

\* Induction, over a set of natural numbers.
LEMMA Induction ==
  ASSUME NEW P \in SUBSET Nat, 0 \in P, \A n \in P : n + 1 \in P PROVE P = Nat
  <1> SUFFICES ASSUME Nat \ P # {} PROVE FALSE
    OBVIOUS
  <1>1. PICK n \in Nat \ P : \A k \in Nat \ P : n <= k
    BY Smallest
  <1>2. n # 0 /\ n - 1 \in Nat
    OBVIOUS
  <1>3. n - 1 \in P
    BY <1>1, <1>2
  <1>4. n = (n - 1) + 1
    OBVIOUS
  <1> QED BY <1>3, <1>4

\* h begins with x and goes on by steps.
Follows(h, x, step) == h[0] = x /\ \A n \in Nat : h[n + 1] = step[n + 1][h[n]]

\* A function defined by recursion exists.
LEMMA Recursion ==
  ASSUME NEW S, NEW x \in S, NEW step \in [Nat -> [S -> S]]
  PROVE  \E h \in [Nat -> S] : Follows(h, x, step)
  <1> DEFINE IsPart(f, n) == f[0] = x /\ \A i \in 1 .. n : f[i] = step[i][f[i - 1]]
             Part(n) == {f \in [0 .. n -> S] : IsPart(f, n)}
  <1>1. ASSUME NEW n \in Nat PROVE Part(n) # {}
    <2> DEFINE P == {k \in Nat : Part(k) # {}}
    <2>1. 0 \in P
      <3>1. [i \in 0 .. 0 |-> x] \in Part(0)
        OBVIOUS
      <3> QED BY <3>1
    <2>2. ASSUME NEW k \in P PROVE k + 1 \in P
      <3>1. PICK f \in [0 .. k -> S] : IsPart(f, k)
        OBVIOUS
      <3> DEFINE g == [i \in 0 .. k + 1 |-> IF i = k + 1 THEN step[k + 1][f[k]] ELSE f[i]]
      <3>2. f[k] \in S /\ step[k + 1][f[k]] \in S
        OBVIOUS
      <3>3. g \in [0 .. k + 1 -> S]
        BY <3>2
      <3>4. g[0] = x
        BY <3>1
      <3>5. ASSUME NEW i \in 1 .. k + 1 PROVE g[i] = step[i][g[i - 1]]
        <4>1. CASE i = k + 1
          BY <4>1
        <4>2. CASE i # k + 1
          BY <4>2, <3>1
        <4> QED BY <4>1, <4>2
      <3>6. g \in Part(k + 1)
        <4> HIDE DEF g
        <4> QED BY <3>3, <3>4, <3>5
      <3>7. k + 1 \in Nat
        OBVIOUS
      <3> HIDE DEF g, Part
      <3> QED BY <3>6, <3>7
    <2>3. P = Nat
      <3> HIDE DEF P
      <3>1. P \in SUBSET Nat
        BY DEF P
      <3> QED BY <2>1, <2>2, <3>1, Induction
    <2> QED BY <2>3
  <1>2. ASSUME NEW a \in Nat, NEW b \in Nat, NEW f \in Part(a), NEW g \in Part(b),
               NEW n \in Nat, n <= a, n <= b
        PROVE  f[n] = g[n]
    <2> DEFINE P == {k \in Nat : k <= a /\ k <= b => f[k] = g[k]}
    <2>1. 0 \in P
      OBVIOUS
    <2>2. ASSUME NEW k \in P PROVE k + 1 \in P
      <3> SUFFICES ASSUME k + 1 <= a, k + 1 <= b PROVE f[k + 1] = g[k + 1]
        OBVIOUS
      <3>1. f[k] = g[k]
        OBVIOUS
      <3>2. f[k + 1] = step[k + 1][f[k]] /\ g[k + 1] = step[k + 1][g[k]]
        OBVIOUS
      <3> QED BY <3>1, <3>2
    <2>3. P = Nat
      <3> HIDE DEF P
      <3>1. P \in SUBSET Nat
        BY DEF P
      <3> QED BY <2>1, <2>2, <3>1, Induction
    <2> QED BY <2>3, <1>2
  <1> DEFINE F(n) == CHOOSE f : f \in Part(n)
             h == [n \in Nat |-> F(n)[n]]
  <1>3. ASSUME NEW n \in Nat PROVE F(n) \in Part(n)
    <2> HIDE DEF Part
    <2> QED BY <1>1
  <1>4. h \in [Nat -> S]
    <2> HIDE DEF F
    <2>1. ASSUME NEW n \in Nat PROVE F(n)[n] \in S
      BY <1>3
    <2> QED BY <2>1
  <1>5. h[0] = x
    <2> HIDE DEF F
    <2>1. F(0)[0] = x
      BY <1>3
    <2> QED BY <2>1
  <1>6. ASSUME NEW n \in Nat PROVE h[n + 1] = step[n + 1][h[n]]
    <2> HIDE DEF F
    <2>1. F(n) \in Part(n) /\ F(n + 1) \in Part(n + 1)
      BY <1>3
    <2>2. F(n)[n] = F(n + 1)[n]
      <3> HIDE DEF Part
      <3> QED BY <2>1, <1>2
    <2>3. F(n + 1)[n + 1] = step[n + 1][F(n + 1)[n]]
      BY <2>1
    <2> QED BY <2>2, <2>3
  <1>7. Follows(h, x, step)
    <2> HIDE DEF h
    <2> QED BY <1>5, <1>6 DEF Follows
  <1> HIDE DEF h
  <1> QED BY <1>4, <1>7

\* FlattenSeq's recursion over the n parts of q.
Joins(f, q, n) == f = [i \in 1 .. n |-> IF i = 1 THEN q[i] ELSE f[i - 1] \o q[i]]

\* Such a function exists ...
LEMMA JoinExists ==
  ASSUME NEW S, \A s, t \in S : s \o t \in S, NEW n \in Nat \ {0}, NEW q \in [1 .. n -> S]
  PROVE  \E f : Joins(f, q, n)
  <1> DEFINE step == [k \in Nat |-> [s \in S |-> IF k \in 2 .. n THEN s \o q[k] ELSE q[1]]]
  <1>1. step \in [Nat -> [S -> S]] /\ q[1] \in S
    OBVIOUS
  <1>2. PICK h \in [Nat -> S] : Follows(h, q[1], step)
    <2> HIDE DEF step
    <2> QED BY <1>1, Recursion
  <1> DEFINE f == [i \in 1 .. n |-> h[i]]
  <1>3. ASSUME NEW i \in 1 .. n PROVE f[i] = IF i = 1 THEN q[i] ELSE f[i - 1] \o q[i]
    <2>1. i - 1 \in Nat /\ (i - 1) + 1 = i
      OBVIOUS
    <2>2. h[i] = step[i][h[i - 1]] /\ h[i - 1] \in S
      <3> HIDE DEF step, f
      <3> QED BY <2>1, <1>2 DEF Follows
    <2>3. h[i] = IF i \in 2 .. n THEN h[i - 1] \o q[i] ELSE q[1]
      BY <2>2
    <2> HIDE DEF step
    <2>4. i # 1 => i - 1 \in 1 .. n
      OBVIOUS
    <2> QED BY <2>3, <2>4
  <1> HIDE DEF step
  <1>4. f = [i \in 1 .. n |-> IF i = 1 THEN q[i] ELSE f[i - 1] \o q[i]]
    BY <1>3
  <1> HIDE DEF f
  <1> QED BY <1>4 DEF Joins

\* ... and stays in S.
LEMMA JoinType ==
  ASSUME NEW S, \A s, t \in S : s \o t \in S, NEW n \in Nat \ {0}, NEW q \in [1 .. n -> S],
         NEW f, Joins(f, q, n)
  PROVE  f \in [1 .. n -> S]
  <1>1. f = [i \in 1 .. n |-> f[i]]
    BY DEF Joins
  <1>2. \A i \in 1 .. n : f[i] = IF i = 1 THEN q[i] ELSE f[i - 1] \o q[i]
    BY DEF Joins
  <1>3. ASSUME NEW k \in Nat, k + 1 \in 1 .. n, k \in 1 .. n => f[k] \in S PROVE f[k + 1] \in S
    <2>1. CASE k = 0
      BY <2>1, <1>2
    <2>2. CASE k # 0
      <3>1. f[k] \in S
        BY <2>2, <1>3
      <3>2. q[k + 1] \in S
        BY <1>3
      <3>3. f[k + 1] = f[k] \o q[k + 1]
        <4>1. (k + 1) - 1 = k /\ k + 1 # 1
          BY <2>2
        <4> QED BY <4>1, <1>2, <1>3
      <3>4. f[k] \o q[k + 1] \in S
        BY <3>1, <3>2
      <3> QED BY <3>3, <3>4
    <2> QED BY <2>1, <2>2
  <1> DEFINE P == {k \in Nat : k \in 1 .. n => f[k] \in S}
  <1>4. P = Nat
    <2>1. 0 \in P
      OBVIOUS
    <2>2. ASSUME NEW k \in P PROVE k + 1 \in P
      BY <1>3
    <2>3. P \in SUBSET Nat
      OBVIOUS
    <2> HIDE DEF P
    <2> QED BY <2>1, <2>2, <2>3, Induction
  <1>5. ASSUME NEW i \in 1 .. n PROVE f[i] \in S
    <2>1. i \in P
      <3> HIDE DEF P
      <3> QED BY <1>4
    <2> QED BY <2>1
  <1> QED BY <1>1, <1>5

\* What FlattenSeq makes of sequences over S is one.
LEMMA FlattenType ==
  ASSUME NEW S, NEW seqs \in Seq(Seq(S)) PROVE FlattenSeq(seqs) \in Seq(S)
  <1> DEFINE n  == Len(seqs)
             fl == CHOOSE f : f = [i \in 1 .. n |-> IF i = 1 THEN seqs[i] ELSE f[i - 1] \o seqs[i]]
  <1>1. CASE n = 0
    BY <1>1 DEF FlattenSeq
  <1>2. CASE n # 0
    <2>1. n \in Nat \ {0} /\ seqs \in [1 .. n -> Seq(S)]
      BY <1>2
    <2>2. \A s, t \in Seq(S) : s \o t \in Seq(S)
      OBVIOUS
    <2>3. FlattenSeq(seqs) = fl[n]
      BY <1>2 DEF FlattenSeq
    <2>4. \E f : Joins(f, seqs, n)
      <3> HIDE DEF n
      <3> QED BY <2>1, <2>2, JoinExists
    <2>5. Joins(fl, seqs, n)
      BY <2>4 DEF Joins
    <2> HIDE DEF fl, n
    <2>6. fl \in [1 .. n -> Seq(S)]
      BY <2>1, <2>2, <2>5, JoinType
    <2> QED BY <2>1, <2>3, <2>6
  <1> QED BY <1>1, <1>2

\* A message of one part is that part.
LEMMA FlattenOne ==
  ASSUME NEW s \in Seq(Nat) PROVE FlattenSeq(<<s>>) = s
  <1> DEFINE fl == CHOOSE f : f = [i \in 1 .. 1 |-> IF i = 1 THEN <<s>>[i] ELSE f[i - 1] \o <<s>>[i]]
  <1>1. Len(<<s>>) = 1 /\ <<s>>[1] = s
    OBVIOUS
  <1>2. FlattenSeq(<<s>>) = fl[1]
    BY <1>1 DEF FlattenSeq
  <1> DEFINE g == [i \in 1 .. 1 |-> s]
  <1>3. g = [i \in 1 .. 1 |-> IF i = 1 THEN <<s>>[i] ELSE g[i - 1] \o <<s>>[i]]
    BY <1>1
  <1>4. fl = [i \in 1 .. 1 |-> IF i = 1 THEN <<s>>[i] ELSE fl[i - 1] \o <<s>>[i]]
    <2> HIDE DEF g
    <2> QED BY <1>3
  <1> HIDE DEF fl
  <1> QED BY <1>1, <1>2, <1>4

-----------------------------------------------------------------------------
(* The words of a message.                                                   *)

\* The parts of the assumption that most steps need.
LEMMA Basics ==
  /\ Depth \in Nat \ {0} /\ Wrap \in Nat /\ Wrap > 2000
  /\ Buffers \subseteq Nat /\ Buffers # {} /\ Messages # {}
  /\ Channels \subseteq 0 .. 15 /\ Channels # {}
  /\ Timeout \in Nat /\ MaxTicks \in Nat
  <1>1. Depth \in Nat \ {0} /\ Wrap \in Nat /\ Wrap > 2000
    BY MonitorAssumption
  <1>2. Buffers \subseteq Nat /\ Buffers # {} /\ Messages # {}
    BY MonitorAssumption
  <1>3. Channels \subseteq 0 .. 15 /\ Channels # {}
    BY MonitorAssumption
  <1>4. Timeout \in Nat /\ MaxTicks \in Nat
    BY MonitorAssumption
  <1> QED BY <1>1, <1>2, <1>3, <1>4

\* Division in a few forms, so that no prover has to reason about it.
LEMMA Division ==
  /\ Wrap \div 4 \in Nat /\ 4 * (Wrap \div 4) = Wrap /\ Wrap \div 4 > 500 - 1
  /\ \A n \in Nat : (4 * n) \div 4 = n
  /\ \A x \in 0 .. (Wrap \div 4) - 1 : x % (Wrap \div 4) = x
  /\ (0 - 2) % (Wrap \div 4) = (Wrap \div 4) - 2
  /\ (0 - 1) % (Wrap \div 4) = (Wrap \div 4) - 1
  <1>1. Wrap \div 4 \in Nat /\ 4 * (Wrap \div 4) = Wrap /\ Wrap \div 4 > 500 - 1
    <2>1. Wrap \in Nat /\ Wrap > 2000 /\ Wrap % 4 = 0
      BY MonitorAssumption
    <2>2. ASSUME NEW w \in Nat, w > 2000, w % 4 = 0
          PROVE  w \div 4 \in Nat /\ 4 * (w \div 4) = w /\ w \div 4 > 500 - 1
      BY <2>2
    <2> QED BY <2>1, <2>2
  <1>2. ASSUME NEW n \in Nat PROVE (4 * n) \div 4 = n
    OBVIOUS
  <1>3. ASSUME NEW M \in Nat, M > 500 - 1
        PROVE  \A x \in 0 .. M - 1 : x % M = x
    BY <1>3
  <1>4. ASSUME NEW M \in Nat, M > 500 - 1 PROVE (0 - 2) % M = M - 2
    BY <1>4
  <1>5. ASSUME NEW M \in Nat, M > 500 - 1 PROVE (0 - 1) % M = M - 1
    BY <1>5
  <1> QED BY <1>1, <1>2, <1>3, <1>4, <1>5

\* Where the buffers are.
LEMMA Places ==
  ASSUME NEW b \in Buffers
  PROVE  /\ b \in Nat /\ Size[b] \in Nat /\ Size[b] >= 2
         /\ b + Size[b] + 16 <= Wrap \div 4 /\ Size[b] + 16 <= Wrap \div 4
         /\ \A i \in 0 .. Size[b] - 1 : b + i \in Memory
         /\ Memory \subseteq Nat
  <1>1. b \in Nat /\ Size[b] \in Nat \ {0, 1}
    BY MonitorAssumption
  <1>2. b + Size[b] + 16 <= Wrap \div 4
    BY MonitorAssumption
  <1>3. ASSUME NEW i \in 0 .. Size[b] - 1 PROVE b + i \in Memory
    BY <1>1 DEF Memory
  <1>4. Memory \subseteq Nat
    <2>1. ASSUME NEW c \in Buffers PROVE c .. c + Size[c] - 1 \subseteq Nat
      <3>1. c \in Nat /\ Size[c] \in Nat
        BY MonitorAssumption
      <3> QED BY <3>1
    <2> QED BY <2>1 DEF Memory
  <1> QED BY <1>1, <1>2, <1>3, <1>4, Division

\* The words of a message but the first, which is its length in bytes.
LEMMA LayoutParts ==
  ASSUME NEW m \in Messages
  PROVE  \E body \in Seq(Word32) : Layout(m) = (<<4 * (Len(body) + 3), 0>> \o body) \o <<0>>
  <1> DEFINE parts == [k \in DOMAIN m |-> TagWords(m[k])]
             body  == FlattenSeq(parts)
  <1>1. m \in Seq(Tags)
    BY MonitorAssumption
  <1>2. ASSUME NEW k \in DOMAIN m PROVE TagWords(m[k]) \in Seq(Word32)
    <2>1. m[k] \in Tags
      BY <1>1
    <2>2. m[k].tag \in Word32 /\ m[k].size \in Word32 /\ m[k].words \in Nat
      BY <2>1 DEF Tags
    <2>3. 0 \in Word32
      BY Basics DEF Word32
    <2>4. ASSUME NEW a \in Word32, NEW b \in Word32, NEW n \in Nat
          PROVE  <<a, b, 0>> \in Seq(Word32) /\ [j \in 1 .. n |-> 0] \in Seq(Word32)
      BY <2>3
    <2>5. /\ <<m[k].tag, m[k].size, 0>> \in Seq(Word32)
          /\ [j \in 1 .. m[k].words |-> 0] \in Seq(Word32)
      BY <2>2, <2>4
    <2>6. ASSUME NEW a \in Seq(Word32), NEW b \in Seq(Word32) PROVE a \o b \in Seq(Word32)
      OBVIOUS
    <2> QED BY <2>5, <2>6 DEF TagWords
  <1>3. parts \in Seq(Seq(Word32))
    <2>1. Len(m) \in Nat /\ DOMAIN m = 1 .. Len(m)
      BY <1>1
    <2> QED BY <1>2, <2>1
  <1>4. body \in Seq(Word32)
    <2> HIDE DEF parts
    <2> QED BY <1>3, FlattenType
  <1>5. Layout(m) = (<<4 * (Len(body) + 3), 0>> \o body) \o <<0>>
    BY DEF Layout
  <1> QED BY <1>4, <1>5

\* c is the i numbers of a and then the j numbers of b.
EndToEnd(c, a, i, b, j) ==
  /\ c \in Seq(Nat) /\ Len(c) = i + j
  /\ \A k \in 1 .. i : c[k] = a[k]
  /\ \A k \in 1 .. j : c[i + k] = b[k]

\* Laying two sequences end to end.
LEMMA PutEndToEnd ==
  ASSUME NEW a \in Seq(Nat), NEW b \in Seq(Nat) PROVE EndToEnd(a \o b, a, Len(a), b, Len(b))
  <1>1. /\ a \o b \in Seq(Nat)
        /\ Len(a \o b) = Len(a) + Len(b)
        /\ \A k \in 1 .. Len(a) : (a \o b)[k] = a[k]
    OBVIOUS
  <1>2. ASSUME NEW k \in 1 .. Len(b) PROVE (a \o b)[Len(a) + k] = b[k]
    <2>1. Len(a) \in Nat /\ Len(b) \in Nat
      OBVIOUS
    <2>2. Len(a) + k \in 1 .. Len(a) + Len(b) /\ (Len(a) + k) - Len(a) = k /\ ~(Len(a) + k <= Len(a))
      BY <2>1
    <2> QED BY <2>2
  <1> QED BY <1>1, <1>2 DEF EndToEnd

\* A message that fits into a buffer is laid out as words of 32 bits; so is the length.
LEMMA LayoutType ==
  ASSUME NEW m \in Messages, NEW b \in Buffers, Len(Layout(m)) <= Size[b]
  PROVE  /\ Layout(m) \in Seq(Word32)
         /\ Len(Layout(m)) >= 3 /\ Layout(m)[1] = 4 * Len(Layout(m))
  <1>1. PICK body \in Seq(Word32) : Layout(m) = (<<4 * (Len(body) + 3), 0>> \o body) \o <<0>>
    BY LayoutParts
  <1> DEFINE n == Len(body)
             head == <<4 * (n + 3), 0>>
  <1>2. n \in Nat /\ body \in Seq(Nat) /\ 0 \in Word32
    <2>1. 0 \in Word32 /\ Word32 \subseteq Nat
      BY Basics DEF Word32
    <2>2. ASSUME NEW S, NEW T, S \subseteq T, NEW q \in Seq(S) PROVE q \in Seq(T) /\ Len(q) \in Nat
      BY <2>2
    <2> QED BY <2>1, <2>2
  <1>3. head \in Seq(Nat) /\ Len(head) = 2 /\ head[1] = 4 * (n + 3) /\ <<0>> \in Seq(Nat) /\ Len(<<0>>) = 1
    BY <1>2
  <1>4. head \o body \in Seq(Nat) /\ Len(head \o body) = n + 2 /\ (head \o body)[1] = head[1]
    <2> HIDE DEF head
    <2>1. EndToEnd(head \o body, head, 2, body, n)
      BY <1>2, <1>3, PutEndToEnd
    <2> HIDE DEF n
    <2> QED BY <2>1, <1>2 DEF EndToEnd
  <1>5. Len(Layout(m)) = n + 3 /\ Layout(m)[1] = 4 * (n + 3)
    <2> DEFINE front == head \o body
               back  == <<0>>
    <2>1. Layout(m) = front \o back
      BY <1>1
    <2>2. front \in Seq(Nat) /\ Len(front) = n + 2 /\ front[1] = 4 * (n + 3)
      <3> HIDE DEF head, n
      <3> QED BY <1>3, <1>4
    <2>3. back \in Seq(Nat) /\ Len(back) = 1
      BY <1>3
    <2> HIDE DEF front, back, head, n
    <2>4. EndToEnd(front \o back, front, n + 2, back, 1)
      BY <2>2, <2>3, PutEndToEnd
    <2>5. (n + 2) + 1 = n + 3 /\ 1 \in 1 .. n + 2
      BY <1>2
    <2> QED BY <2>1, <2>2, <2>4, <2>5 DEF EndToEnd
  <1>6. 4 * (n + 3) \in Word32
    <2>1. Size[b] \in Nat /\ Size[b] + 16 <= Wrap \div 4
      BY Places
    <2>2. n + 3 <= Size[b]
      BY <1>5
    <2>3. Wrap \div 4 \in Nat /\ 4 * (Wrap \div 4) = Wrap
      BY Division
    <2> HIDE DEF n
    <2>4. ASSUME NEW k \in Nat, NEW z \in Nat, NEW d \in Nat, NEW w \in Nat,
                 z + 16 <= d, k + 3 <= z, 4 * d = w
          PROVE  4 * (k + 3) \in 0 .. w - 1
      BY <2>4
    <2> QED BY <2>1, <2>2, <2>3, <2>4, <1>2, Basics DEF Word32
  <1>7. head \in Seq(Word32)
    <2> HIDE DEF n
    <2> QED BY <1>2, <1>6
  <1> HIDE DEF n, head
  <1>8. head \o body \in Seq(Word32) /\ <<0>> \in Seq(Word32)
    BY <1>2, <1>7
  <1>9. Layout(m) \in Seq(Word32)
    BY <1>1, <1>8 DEF head, n
  <1> QED BY <1>2, <1>5, <1>9

\* The only element of a sequence.
LEMMA OnlyElement == ASSUME NEW S, NEW q \in Seq(S), Len(q) = 1 PROVE q[1] \in S
  OBVIOUS

\* What a tag is made of.
LEMMA TheTag ==
  ASSUME NEW m \in Messages, Len(m) = 1
  PROVE  m[1].tag \in Word32 /\ m[1].size \in Word32 /\ m[1].words \in Nat
  <1>1. m \in Seq(Tags)
    BY MonitorAssumption
  <1>2. m[1] \in Tags
    BY <1>1, OnlyElement
  <1> QED BY <1>2 DEF Tags

\* The words of one tag.
LEMMA OneTagWords ==
  ASSUME NEW t, t.tag \in Nat, t.size \in Nat, t.words \in Nat
  PROVE  /\ TagWords(t) \in Seq(Nat)
         /\ Len(TagWords(t)) = 3 + t.words
         /\ TagWords(t)[1] = t.tag /\ TagWords(t)[2] = t.size /\ TagWords(t)[3] = 0
  <1> DEFINE a == <<t.tag, t.size, 0>>
             b == [k \in 1 .. t.words |-> 0]
  <1>1. a \in Seq(Nat) /\ Len(a) = 3 /\ a[1] = t.tag /\ a[2] = t.size /\ a[3] = 0
    OBVIOUS
  <1>2. b \in Seq(Nat) /\ Len(b) = t.words
    OBVIOUS
  <1>3. TagWords(t) = a \o b
    BY DEF TagWords
  <1> HIDE DEF a, b
  <1>4. EndToEnd(TagWords(t), a, 3, b, t.words)
    BY <1>1, <1>2, <1>3, PutEndToEnd
  <1>5. TagWords(t)[1] = a[1] /\ TagWords(t)[2] = a[2] /\ TagWords(t)[3] = a[3]
    BY <1>4 DEF EndToEnd
  <1>6. TagWords(t) \in Seq(Nat) /\ Len(TagWords(t)) = 3 + t.words
    BY <1>4 DEF EndToEnd
  <1> QED BY <1>1, <1>5, <1>6

\* The words of a message of one tag: the tag is at word 2, its size and a clear response
\* word follow, and the end tag is the last word.
LEMMA OneTagLayout ==
  ASSUME NEW m \in Messages, Len(m) = 1
  PROVE  LET words == Layout(m)
         IN  /\ Len(words) = 6 + m[1].words
             /\ words[3] = m[1].tag /\ words[4] = m[1].size /\ words[5] = 0
             /\ words[6 + m[1].words] = 0
  <1> DEFINE t    == m[1]
             n    == t.words
             body == TagWords(t)
             head == <<4 * (Len(body) + 3), 0>>
  <1>1. t.tag \in Nat /\ t.size \in Nat /\ n \in Nat
    BY TheTag, Basics DEF Word32
  <1>2. /\ body \in Seq(Nat) /\ Len(body) = 3 + n
        /\ body[1] = t.tag /\ body[2] = t.size /\ body[3] = 0
    <2> HIDE DEF t
    <2> QED BY <1>1, OneTagWords
  <1>3. Layout(m) = (head \o body) \o <<0>>
    <2>1. DOMAIN m = {1}
      <3>1. m \in Seq(Tags)
        BY MonitorAssumption
      <3>2. DOMAIN m = 1 .. Len(m)
        BY <3>1
      <3> QED BY <3>2
    <2>2. [k \in DOMAIN m |-> TagWords(m[k])] = <<body>>
      BY <2>1
    <2>3. FlattenSeq(<<body>>) = body
      <3> HIDE DEF body
      <3> QED BY <1>2, FlattenOne
    <2> HIDE DEF body
    <2> QED BY <2>2, <2>3 DEF Layout
  <1> HIDE DEF body, n
  <1>4. head \in Seq(Nat) /\ Len(head) = 2 /\ <<0>> \in Seq(Nat) /\ Len(<<0>>) = 1 /\ <<0>>[1] = 0
    BY <1>1, <1>2
  <1> HIDE DEF head
  <1>5. /\ head \o body \in Seq(Nat) /\ Len(head \o body) = 5 + n
        /\ \A k \in 1 .. 3 + n : (head \o body)[2 + k] = body[k]
    <2>1. EndToEnd(head \o body, head, 2, body, 3 + n)
      BY <1>2, <1>4, PutEndToEnd
    <2>2. 2 + (3 + n) = 5 + n
      BY <1>1
    <2> QED BY <2>1, <2>2, Zenon DEF EndToEnd
  <1> DEFINE words == (head \o body) \o <<0>>
  <1>6. /\ words \in Seq(Nat) /\ Len(words) = 6 + n
        /\ \A k \in 1 .. 5 + n : words[k] = (head \o body)[k]
        /\ words[6 + n] = 0
    <2> DEFINE front == head \o body
               back  == <<0>>
    <2> HIDE DEF front, back
    <2>1. back \in Seq(Nat) /\ Len(back) = 1 /\ back[1] = 0
      BY <1>4 DEF back
    <2>2. front \in Seq(Nat) /\ Len(front) = 5 + n
      BY <1>5 DEF front
    <2>3. EndToEnd(front \o back, front, 5 + n, back, 1)
      BY <2>1, <2>2, PutEndToEnd
    <2>4. (5 + n) + 1 = 6 + n /\ 1 \in 1 .. 1
      BY <1>1
    <2> QED BY <2>1, <2>3, <2>4 DEF front, back, EndToEnd
  <1> HIDE DEF words
  <1>7. ASSUME NEW k \in 1 .. 3 PROVE words[2 + k] = body[k]
    <2>1. 2 + k \in 1 .. 5 + n /\ k \in 1 .. 3 + n
      BY <1>1
    <2> QED BY <2>1, <1>5, <1>6
  <1>8. words[3] = t.tag /\ words[4] = t.size /\ words[5] = 0
    <2>1. words[2 + 1] = body[1] /\ words[2 + 2] = body[2] /\ words[2 + 3] = body[3]
      BY <1>7
    <2> QED BY <2>1, <1>2
  <1> QED BY <1>3, <1>6, <1>8 DEF words, n

-----------------------------------------------------------------------------
(* The memory.                                                               *)

\* The messages whose words are as the ARM laid them out.
Fits(b)    == Len(Layout(asked[b])) <= Size[b]
LaidOut(b) ==
  /\ Fits(b)
  /\ \A i \in 1 .. Len(Layout(asked[b])) : mem[b + i - 1] = Layout(asked[b])[i]

\* The requests of one tag that has room.
Modest(b) == Len(asked[b]) = 1 /\ Roomy(asked[b][1])
IsKnown(b) == asked[b][1].tag = FirmwareHash

\* The VPU has handled that tag.
Done(b) ==
  /\ Fits(b)
  /\ mem[b + 4] = (IF IsKnown(b) THEN Handled ELSE 0)
  /\ IsKnown(b) => \A i \in 1 .. 5 : mem[b + 4 + i] = Hash[i]
  /\ mem[b + Len(Layout(asked[b])) - 1] = 0

\* Two buffers have no word in common.
LEMMA Apart ==
  ASSUME NEW b \in Buffers, NEW c \in Buffers, b # c,
         NEW i \in 0 .. Size[b] - 1, NEW j \in 0 .. Size[c] - 1
  PROVE  b + i # c + j
  <1>1. b \in Nat /\ c \in Nat /\ Size[b] \in Nat /\ Size[c] \in Nat
    BY MonitorAssumption
  <1>2. b < c \/ c < b
    BY <1>1
  <1>3. (b < c => b + Size[b] <= c) /\ (c < b => c + Size[c] <= b)
    BY MonitorAssumption
  <1> QED BY <1>1, <1>2, <1>3

\* Laying words out in memory, and writing the hash, keeps its type.
LEMMA MemoryTypes ==
  ASSUME NEW m \in [Memory -> Word32], NEW b \in Buffers
  PROVE  /\ \A words \in Seq(Word32) : Put(m, b, words) \in [Memory -> Word32]
         /\ \A p : WriteHash(m, b, p) \in [Memory -> Word32]
  <1>1. ASSUME NEW words \in Seq(Word32) PROVE Put(m, b, words) \in [Memory -> Word32]
    <2>1. \A k \in DOMAIN words : words[k] \in Word32
      OBVIOUS
    <2> QED BY <2>1 DEF Put
  <1>2. ASSUME NEW p PROVE WriteHash(m, b, p) \in [Memory -> Word32]
    <2>1. Handled \in Word32
      BY Basics DEF Handled, Word32
    <2>2. Hash[1] \in Word32 /\ Hash[2] \in Word32 /\ Hash[3] \in Word32 /\ Hash[4] \in Word32 /\ Hash[5] \in Word32
      BY Basics DEF Hash, Word32
    <2>3. 3 .. 7 = {3, 4, 5, 6, 7}
      OBVIOUS
    <2>4. ASSUME NEW k, NEW a \in Memory
          PROVE  (CASE k = 2 -> Handled [] k \in 3 .. 7 -> Hash[k - 2] [] OTHER -> m[a]) \in Word32
      <3>1. m[a] \in Word32
        OBVIOUS
      <3>2. k \in 3 .. 7 => Hash[k - 2] \in Word32
        <4> HIDE DEF Word32
        <4> QED BY <2>2, <2>3
      <3> QED BY <2>1, <3>1, <3>2
    <2> HIDE DEF Word32
    <2> QED BY <2>4 DEF WriteHash
  <1> QED BY <1>1, <1>2

\* Words laid out are found where they were put, and the other buffers are untouched.
LEMMA PutReads ==
  ASSUME NEW m \in [Memory -> Word32], NEW b \in Buffers, NEW words \in Seq(Word32),
         Len(words) <= Size[b]
  PROVE  /\ \A i \in 1 .. Len(words) : Put(m, b, words)[b + i - 1] = words[i]
         /\ \A c \in Buffers \ {b} : \A j \in 0 .. Size[c] - 1 : Put(m, b, words)[c + j] = m[c + j]
  <1>1. b \in Nat /\ Size[b] \in Nat /\ Len(words) \in Nat /\ DOMAIN words = 1 .. Len(words)
    BY Places
  <1>2. ASSUME NEW i \in 1 .. Len(words) PROVE Put(m, b, words)[b + i - 1] = words[i]
    <2>1. i - 1 \in 0 .. Size[b] - 1 /\ b + (i - 1) = b + i - 1
      BY <1>1
    <2>2. b + i - 1 \in Memory
      BY <2>1, Places
    <2>3. (b + i - 1) - b + 1 = i
      BY <1>1
    <2> QED BY <1>1, <2>2, <2>3 DEF Put
  <1>3. ASSUME NEW c \in Buffers \ {b}, NEW j \in 0 .. Size[c] - 1
        PROVE  Put(m, b, words)[c + j] = m[c + j]
    <2>1. c + j \in Memory /\ c \in Nat /\ Size[c] \in Nat
      BY Places
    <2>2. (c + j) - b + 1 \notin 1 .. Len(words)
      <3> SUFFICES ASSUME (c + j) - b + 1 \in 1 .. Len(words) PROVE FALSE
        OBVIOUS
      <3>1. (c + j) - b \in 0 .. Size[b] - 1 /\ b + ((c + j) - b) = c + j
        BY <1>1, <2>1
      <3> QED BY <3>1, Apart
    <2> QED BY <1>1, <2>1, <2>2 DEF Put
  <1> QED BY <1>2, <1>3

\* The places of a message of one tag that its packet covers.
LEMMA OwnPacket ==
  ASSUME NEW b \in Buffers, NEW i \in 0 .. Size[b] - 1
  PROVE  OfPacket(b + i, b, 2) = IF i = 0 THEN (Wrap \div 4) - 2
                                 ELSE IF i = 1 THEN (Wrap \div 4) - 1 ELSE i - 2
  <1>1. b \in Nat /\ Size[b] \in Nat /\ Size[b] + 16 <= Wrap \div 4
    BY Places
  <1>2. (b + i) - b - 2 = i - 2
    BY <1>1
  <1>3. i = 0 => i - 2 = 0 - 2
    OBVIOUS
  <1>4. i = 1 => i - 2 = 0 - 1
    OBVIOUS
  <1>5. i \notin {0, 1} => i - 2 \in 0 .. (Wrap \div 4) - 1
    BY <1>1, Division
  <1>6. OfPacket(b + i, b, 2) = (i - 2) % (Wrap \div 4)
    BY <1>2 DEF OfPacket
  <1> QED BY <1>3, <1>4, <1>5, <1>6, Division

-----------------------------------------------------------------------------
(* The mailboxes.                                                            *)

\* What these two theorems rest on: the words, where the VPU has a request in hand
\* it is one, and between write_word's look at the FULL flag and its write the
\* mailbox still has room, since the VPU only takes words out of it.
\* The ARM is off until it is started.
Inv ==
  /\ vpu \in {"startArm", "ei", "monitor", "sleep", "irq", "ack", "tags", "post", "hung"}
  /\ resume \in {"monitor", "sleep"}
  /\ msg \in Words /\ word \in Words
  /\ mail1 \in Seq(Words) /\ mail0 \in Seq(Words)
  /\ vpu \in {"tags", "post"} => msg \in Requests
  /\ arm = "write" => Len(mail1) < Depth
  /\ vpu = "startArm" => arm = "off"

USE DEF PropertyChannel, memVars, loopVars

\* At reset nothing is in hand and the mailboxes are empty.
LEMMA InitInv == Init => Inv
  <1>1. Words # {}
    <2>0. Channels # {} /\ Buffers # {}
      BY Basics
    <2>1. PICK c \in Channels, b \in Buffers : TRUE
      BY <2>0
    <2>2. [chan |-> c, buf |-> b] \in Words
      BY DEF Words
    <2> QED BY <2>2
  <1>2. (CHOOSE w \in Words : TRUE) \in Words
    BY <1>1
  <1> QED BY <1>2 DEF Init, Inv

\* The end of _main and monitor_start: no word moves.
LEMMA StartupInv == Inv /\ Startup => Inv'
  BY DEF Inv, Startup, StartArm, EnableInterrupts, EnableMailIrq, armVars

\* Taking the word at the head of the mailbox.
LEMMA ReadMailInv == Inv /\ ReadMail => Inv'
  <1> SUFFICES ASSUME Inv, ReadMail PROVE Inv'
    OBVIOUS
  <1>1. mail1 \in Seq(Words) /\ mail1 # <<>>
    BY DEF Inv, ReadMail, MailIrq
  <1>2. msg' \in Words /\ mail1' \in Seq(Words) /\ Len(mail1') = Len(mail1) - 1
    BY <1>1 DEF ReadMail
  <1>3. Len(mail1) \in Nat
    BY <1>1
  <1>4. msg'.chan = 8 => msg' \in Requests
    BY <1>2 DEF Words, Requests
  <1>5. vpu' \in {"tags", "post"} => msg' \in Requests
    BY <1>4 DEF ReadMail, Inv
  <1>6. arm' = "write" => Len(mail1') < Depth
    BY <1>2, <1>3, Basics DEF Inv, ReadMail, armVars
  <1> QED BY <1>2, <1>5, <1>6 DEF Inv, ReadMail, armVars

\* The interrupt handler holds at most one request, one it has read.
LEMMA HandlerInv == Inv /\ Handler => Inv'
  <1> SUFFICES ASSUME Inv, Handler PROVE Inv'
    OBVIOUS
  <1>1. CASE TakeIrq \/ DispatchTimer \/ AckTimer \/ DispatchStranger \/ HandleTag \/ EndTags
    BY <1>1 DEF Inv, TakeIrq, DispatchTimer, AckTimer, DispatchStranger, HandleTag, EndTags, armVars
  <1>2. CASE ReadMail
    BY <1>2, ReadMailInv
  <1>3. CASE Post
    BY <1>3 DEF Inv, Post, armVars
  <1> QED BY <1>1, <1>2, <1>3 DEF Handler

\* write_word stores a word only while it is being called; replies only leave MAIL0.
LEMMA ArmInv == Inv /\ (Sender \/ Client) => Inv'
  <1> SUFFICES ASSUME Inv, Sender \/ Client PROVE Inv'
    OBVIOUS
  <1>1. CASE PollFull
    BY <1>1 DEF Inv, PollFull, vpuVars
  <1>2. CASE WriteWord
    BY <1>2 DEF Inv, WriteWord, vpuVars
  <1>3. CASE CollectReply
    BY <1>3 DEF Inv, CollectReply, vpuVars
  <1>4. CASE \E w \in Words, m \in Messages : BeginWrite(w, m)
    BY <1>4 DEF Inv, BeginWrite, vpuVars
  <1> QED BY <1>1, <1>2, <1>3, <1>4 DEF Sender, Client

\* The four kinds of step together.
LEMMA NextInv == Inv /\ [Next]_vars => Inv'
  <1> SUFFICES ASSUME Inv, [Next]_vars PROVE Inv'
    OBVIOUS
  <1>1. CASE Tick \/ RaiseStranger
    BY <1>1 DEF Inv, Tick, RaiseStranger, vpuVars, armVars
  <1>2. CASE UNCHANGED vars
    BY <1>2 DEF Inv, vars, vpuVars, armVars
  <1> QED BY <1>1, <1>2, StartupInv, HandlerInv, ArmInv DEF Next

\* The invariant holds throughout.
LEMMA Invariant == Spec => []Inv
  BY InitInv, NextInv, PTL DEF Spec

-----------------------------------------------------------------------------

\* write_word returns true only for a word that is in the mailbox.
THEOREM WriteWordIsHonest == Spec => WrittenIsSent
  <1>1. Inv /\ [Next]_vars =>
          [arm = "write" /\ arm' # "write" => mail1' = Append(mail1, word)]_vars
    <2> SUFFICES ASSUME Inv, Next, arm = "write", arm' # "write"
                 PROVE  mail1' = Append(mail1, word)
      OBVIOUS
    <2>1. WriteWord
      BY DEF Inv, Next, Startup, StartArm, EnableInterrupts, EnableMailIrq, Handler, TakeIrq,
             DispatchTimer, AckTimer, DispatchStranger, ReadMail, HandleTag, EndTags, Post, Sender,
             PollFull, Client, CollectReply, BeginWrite, Tick, RaiseStranger, armVars
    <2> QED BY <2>1 DEF WriteWord, Inv
  <1> QED BY <1>1, Invariant, PTL DEF Spec, WrittenIsSent

-----------------------------------------------------------------------------
(* The refinement, one lemma per kind of step.                              *)

Waiting == InHand \o mail1

\* Empty mailboxes are a service with nothing to answer.
LEMMA InitWaiting == Init => Service!Init
  BY DEF Init, Service!Init, InHand

\* While nothing is in hand the service waits for what is in the mailbox.
LEMMA EmptyHand == ASSUME NEW s \in Seq(Words) PROVE <<>> \o s = s
  OBVIOUS

\* A request in hand is in front of those in the mailbox.
LEMMA FullHand ==
  ASSUME NEW w \in Words, NEW s \in Seq(Words)
  PROVE  /\ <<w>> \o s # <<>>
         /\ Head(<<w>> \o s) = w
         /\ Tail(<<w>> \o s) = s
  OBVIOUS

\* Steps that move no word are stutters of the service.
LEMMA QuietSteps ==
  Inv /\ (Startup \/ TakeIrq \/ DispatchTimer \/ AckTimer \/ DispatchStranger \/ HandleTag \/ EndTags
          \/ PollFull \/ Tick \/ RaiseStranger \/ UNCHANGED vars
          \/ \E w \in Words, m \in Messages : BeginWrite(w, m))
    => UNCHANGED <<Waiting, mail0>>
  BY DEF Inv, Startup, StartArm, EnableInterrupts, EnableMailIrq, TakeIrq, DispatchTimer,
         AckTimer, DispatchStranger, HandleTag, EndTags, PollFull, Tick, RaiseStranger, BeginWrite,
         Waiting, InHand, vars, vpuVars

\* Taking a request off the mailbox keeps it waiting; another word is dropped.
LEMMA ReadSteps == Inv /\ ReadMail => Service!Ignore \/ UNCHANGED <<Waiting, mail0>>
  <1> SUFFICES ASSUME Inv, ReadMail PROVE Service!Ignore \/ UNCHANGED <<Waiting, mail0>>
    OBVIOUS
  <1>1. /\ mail1 \in Seq(Words) /\ mail1 # <<>> /\ mail0' = mail0
        /\ msg' = Head(mail1) /\ mail1' = Tail(mail1)
    BY DEF Inv, ReadMail, MailIrq
  <1>2. Waiting = mail1
    <2>1. InHand = <<>>
      BY DEF InHand, ReadMail
    <2> QED BY <2>1, <1>1, EmptyHand DEF Waiting
  <1>3. mail1' \in Seq(Words) /\ Head(mail1) \in Words
    BY <1>1
  <1>4. CASE msg'.chan = 8
    <2>1. InHand' = <<Head(mail1)>>
      BY <1>4, <1>1 DEF InHand, ReadMail
    <2>2. <<Head(mail1)>> \o Tail(mail1) = mail1
      BY <1>1
    <2> QED BY <2>1, <2>2, <1>1, <1>2 DEF Waiting
  <1>5. CASE msg'.chan # 8
    <2>1. InHand' = <<>>
      BY <1>5 DEF InHand, ReadMail, Inv
    <2>2. Waiting' = Tail(mail1)
      BY <2>1, <1>1, <1>3, EmptyHand DEF Waiting
    <2>3. Head(mail1) \notin Requests
      BY <1>1, <1>5 DEF Requests
    <2> QED BY <2>2, <2>3, <1>1, <1>2 DEF Service!Ignore, Waiting
  <1> QED BY <1>4, <1>5

\* A reply, kept or lost.
LEMMA PostSteps == Inv /\ Post => Service!Answer
  <1> SUFFICES ASSUME Inv, Post PROVE Service!Answer
    OBVIOUS
  <1>1. InHand = <<msg>> /\ InHand' = <<>> /\ mail1' = mail1
    BY DEF Post, InHand, Inv
  <1>2. msg \in Words /\ msg \in Requests /\ mail1 \in Seq(Words)
    BY DEF Inv, Post
  <1>3. Waiting' = mail1 /\ Waiting = <<msg>> \o mail1
    BY <1>1, <1>2, EmptyHand DEF Waiting
  <1>4. Waiting # <<>> /\ Head(Waiting) = msg /\ Tail(Waiting) = mail1
    BY <1>2, <1>3, FullHand
  <1> QED BY <1>2, <1>3, <1>4 DEF Service!Answer, Waiting, Post

\* write_word's write is the service being asked.
LEMMA WriteSteps == Inv /\ WriteWord => \E w \in Words : Service!Ask(w)
  <1> SUFFICES ASSUME Inv, WriteWord PROVE Service!Ask(word)
    BY DEF Inv
  <1>1. mail1' = Append(mail1, word) /\ mail0' = mail0 /\ InHand' = InHand
    BY DEF Inv, WriteWord, InHand, vpuVars
  <1>2. mail1 \in Seq(Words) /\ word \in Words /\ InHand \in Seq(Words)
    BY DEF Inv, InHand
  <1>3. InHand \o Append(mail1, word) = Append(InHand \o mail1, word)
    BY <1>2
  <1> QED BY <1>1, <1>3 DEF Service!Ask

\* Every step of the monitor is a step of the service or a stutter.
LEMMA StepSimulation == Inv /\ [Next]_vars => [Service!Next]_<<Waiting, mail0>>
  <1> SUFFICES ASSUME Inv, [Next]_vars PROVE [Service!Next]_<<Waiting, mail0>>
    OBVIOUS
  <1>1. CASE CollectReply
    BY <1>1 DEF CollectReply, Service!Next, Service!Collect, InHand, vpuVars
  <1>2. CASE ReadMail
    BY <1>2, ReadSteps DEF Service!Next
  <1>3. CASE Post
    BY <1>3, PostSteps DEF Service!Next
  <1>4. CASE WriteWord
    BY <1>4, WriteSteps DEF Service!Next
  <1> QED BY <1>1, <1>2, <1>3, <1>4, QuietSteps DEF Next, Handler, Sender, Client

\* The monitor implements the service.
THEOREM MonitorImplementsService == Spec => ImplementsService
  <1>1. Inv /\ [Next]_vars => [Service!Next]_<<InHand \o mail1, mail0>>
    BY StepSimulation DEF Waiting
  <1> QED BY <1>1, Invariant, InitWaiting, PTL DEF Spec, Service!Spec, ImplementsService

-----------------------------------------------------------------------------
(* Types.                                                                    *)

\* A word's buffer is one of the ARM's, and a request is on the property channel.
LEMMA WordParts ==
  /\ \A w \in Words : w.buf \in Buffers
  /\ Requests \subseteq Words
  /\ \A w \in Requests : w = [chan |-> 8, buf |-> w.buf]
  BY DEF Words, Requests

\* The tag loop's position stays a word of 32 bits.
LEMMA NextTagType == ASSUME NEW p \in Word32, NEW size \in Word32 PROVE NextTag(p, size) \in Word32
  <1>1. p \in Nat /\ size \in Nat /\ Wrap \in Nat /\ Wrap > 0
    BY Basics DEF Word32
  <1>2. p + 12 + size + (4 - (size % 4)) \in Int
    BY <1>1
  <1>3. ASSUME NEW x \in Int, NEW w \in Nat, w > 0 PROVE x % w \in 0 .. w - 1
    BY <1>3
  <1> QED BY <1>1, <1>2, <1>3 DEF NextTag, Word32

\* What the loop reads are words.
LEMMA FoundType == TypeOK => \A a : Found(a) \subseteq Word32
  <1>1. Foreign \subseteq Word32
    BY MonitorAssumption
  <1> QED BY <1>1 DEF TypeOK, Found

\* A turn of the tag loop keeps the types ...
LEMMA HandleTagTypes == Inv /\ TypeOK /\ HandleTag => TypeOK'
  <1> SUFFICES ASSUME Inv, TypeOK, HandleTag PROVE TypeOK'
    OBVIOUS
  <1>1. PICK tag \in Found(At(msg.buf, position)), size \in Found(At(msg.buf, position + 1)) :
          /\ position' = NextTag(position, size)
          /\ IF Known(tag)
               THEN /\ mem' = WriteHash(mem, msg.buf, position) /\ spoilt' = spoilt \cup Reached
                    /\ UNCHANGED error
               ELSE error' = TRUE /\ UNCHANGED memVars
    BY DEF HandleTag
  <1>2. size \in Word32
    BY FoundType
  <1>3. position' \in Word32
    BY <1>1, <1>2, NextTagType DEF TypeOK
  <1>4. msg.buf \in Buffers /\ mem \in [Memory -> Word32]
    BY WordParts DEF TypeOK
  <1>5. mem' \in [Memory -> Word32] /\ spoilt' \in SUBSET Buffers
    <2>1. WriteHash(mem, msg.buf, position) \in [Memory -> Word32]
      BY <1>4, MemoryTypes
    <2>2. spoilt \cup Reached \in SUBSET Buffers
      BY DEF TypeOK, Reached
    <2> QED BY <1>1, <1>4, <2>1, <2>2 DEF TypeOK
  <1>6. error' \in BOOLEAN
    BY <1>1 DEF TypeOK
  <1> QED BY <1>3, <1>5, <1>6 DEF HandleTag, TypeOK, irqVars, armVars

\* ... and so does its end.
LEMMA EndTagsTypes == Inv /\ TypeOK /\ EndTags => TypeOK'
  <1> SUFFICES ASSUME Inv, TypeOK, EndTags PROVE TypeOK'
    OBVIOUS
  <1>1. mem \in [Memory -> Word32] /\ Error \in Word32 /\ Success \in Word32
    BY Basics DEF TypeOK, Error, Success, Word32
  <1>2. mem' = [mem EXCEPT ![msg.buf + 1] = IF error THEN Error ELSE Success]
    BY DEF EndTags
  <1>3. mem' \in [Memory -> Word32]
    <2> HIDE DEF Word32
    <2> QED BY <1>1, <1>2
  <1> QED BY <1>3 DEF EndTags, TypeOK, irqVars, armVars

\* The VPU's steps keep the types.
LEMMA VpuTypes == Inv /\ TypeOK /\ (Startup \/ Handler) => TypeOK'
  <1> SUFFICES ASSUME Inv, TypeOK, Startup \/ Handler PROVE TypeOK'
    OBVIOUS
  <1> USE DEF irqVars, armVars
  <1>1. CASE Startup \/ TakeIrq \/ DispatchTimer \/ AckTimer \/ DispatchStranger
    BY <1>1 DEF Startup, StartArm, EnableInterrupts, EnableMailIrq, TakeIrq, DispatchTimer, AckTimer,
                DispatchStranger, TypeOK
  <1>2. CASE ReadMail
    <2>1. mail1 \in Seq(Words) /\ mail1 # <<>>
      BY <1>2 DEF ReadMail, MailIrq, TypeOK
    <2>2. Head(mail1) \in Words /\ Tail(mail1) \in Seq(Words) /\ Len(Tail(mail1)) = Len(mail1) - 1
      BY <2>1
    <2>3. Len(mail1') <= Depth
      BY <1>2, <2>1, <2>2, Basics DEF ReadMail, TypeOK
    <2>4. position' \in Word32 /\ error' \in BOOLEAN
      <3>1. 2 \in Word32 /\ position \in Word32 /\ error \in BOOLEAN
        BY Basics DEF TypeOK, Word32
      <3>2. (position' = 2 /\ error' = FALSE) \/ (position' = position /\ error' = error)
        BY <1>2 DEF ReadMail
      <3> QED BY <3>1, <3>2
    <2> QED BY <1>2, <2>2, <2>3, <2>4 DEF ReadMail, TypeOK
  <1>3. CASE HandleTag \/ EndTags
    BY <1>3, HandleTagTypes, EndTagsTypes
  <1>4. CASE Post
    <2>1. msg \in Requests /\ mail0 \in Seq(Requests) /\ Len(mail0) \in Nat
      BY <1>4 DEF Post, Inv, TypeOK
    <2>2. mail0' \in Seq(Requests) /\ Len(mail0') <= Depth
      BY <1>4, <2>1, Basics DEF Post, TypeOK
    <2> QED BY <1>4, <2>2 DEF Post, TypeOK
  <1> QED BY <1>1, <1>2, <1>3, <1>4 DEF Handler

\* So do the ARM's.
LEMMA ArmTypes == Inv /\ TypeOK /\ (Sender \/ Client) => TypeOK'
  <1> SUFFICES ASSUME Inv, TypeOK, Sender \/ Client PROVE TypeOK'
    OBVIOUS
  <1> USE DEF irqVars, vpuVars
  <1>1. CASE PollFull
    <2>1. polls' \in 0 .. Timeout /\ arm' \in {"off", "idle", "poll", "write"}
      BY <1>1, Basics DEF PollFull, TypeOK
    <2> QED BY <1>1, <2>1 DEF PollFull, TypeOK
  <1>2. CASE WriteWord
    <2>1. mail1 \in Seq(Words) /\ word \in Words /\ Len(mail1) \in Nat
      BY DEF TypeOK
    <2>2. mail1' \in Seq(Words) /\ Len(mail1') <= Depth
      BY <1>2, <2>1, Basics DEF WriteWord, TypeOK
    <2>3. inUse' \in SUBSET Buffers
      BY <1>2, <2>1, WordParts DEF WriteWord, TypeOK
    <2> QED BY <1>2, <2>2, <2>3 DEF WriteWord, TypeOK
  <1>3. CASE CollectReply
    <2>1. mail0 \in Seq(Requests) /\ mail0 # <<>>
      BY <1>3 DEF CollectReply, TypeOK
    <2>2. Tail(mail0) \in Seq(Requests) /\ Len(Tail(mail0)) = Len(mail0) - 1
      BY <2>1
    <2>3. mail0' \in Seq(Requests) /\ Len(mail0') <= Depth
      BY <1>3, <2>1, <2>2, Basics DEF CollectReply, TypeOK
    <2> QED BY <1>3, <2>3 DEF CollectReply, TypeOK
  <1>4. ASSUME NEW w \in Words, NEW m \in Messages, BeginWrite(w, m) PROVE TypeOK'
    <2>1. w.buf \in Buffers
      BY WordParts
    <2>2. asked' \in [Buffers -> Messages] /\ mem' \in [Memory -> Word32] /\ spoilt' \in SUBSET Buffers
      <3>1. CASE w \in Requests
        <4>1. Len(Layout(m)) <= Size[w.buf] /\ mem' = Put(mem, w.buf, Layout(m))
          BY <1>4, <3>1 DEF BeginWrite
        <4>2. Layout(m) \in Seq(Word32)
          BY <2>1, <4>1, LayoutType
        <4>3. mem' \in [Memory -> Word32]
          BY <2>1, <4>1, <4>2, MemoryTypes DEF TypeOK
        <4> QED BY <1>4, <2>1, <3>1, <4>3 DEF BeginWrite, TypeOK
      <3>2. CASE w \notin Requests
        BY <1>4, <3>2 DEF BeginWrite, TypeOK
      <3> QED BY <3>1, <3>2
    <2>3. polls' \in 0 .. Timeout
      BY <1>4, Basics DEF BeginWrite
    <2> QED BY <1>4, <2>2, <2>3 DEF BeginWrite, TypeOK
  <1> QED BY <1>1, <1>2, <1>3, <1>4 DEF Sender, Client

\* Every step keeps them.
LEMMA TypeStep == Inv /\ TypeOK /\ [Next]_vars => TypeOK'
  <1>1. Inv /\ TypeOK /\ (Tick \/ RaiseStranger) => TypeOK'
    <2>1. TypeOK /\ Tick => ticks' \in 0 .. MaxTicks
      BY Basics DEF TypeOK, Tick
    <2>2. TypeOK /\ Tick => TypeOK'
      BY <2>1 DEF TypeOK, Tick, vpuVars, armVars
    <2>3. TypeOK /\ RaiseStranger => TypeOK'
      BY DEF TypeOK, RaiseStranger, vpuVars, armVars
    <2> QED BY <2>2, <2>3
  <1>2. Inv /\ TypeOK /\ UNCHANGED vars => TypeOK'
    BY DEF TypeOK, vars, vpuVars, irqVars, armVars
  <1> QED BY <1>1, <1>2, VpuTypes, ArmTypes DEF Next

\* At reset nothing is asked for and memory is empty.
LEMMA InitTypes == Init => TypeOK
  <1> SUFFICES ASSUME Init PROVE TypeOK
    OBVIOUS
  <1>1. msg \in Words /\ word \in Words
    BY InitInv DEF Inv
  <1>2. asked \in [Buffers -> Messages]
    <2>1. (CHOOSE m \in Messages : TRUE) \in Messages
      BY Basics
    <2> QED BY <2>1 DEF Init
  <1>3. mem \in [Memory -> Word32] /\ spoilt \in SUBSET Buffers /\ position \in Word32 /\ error \in BOOLEAN
    <2>1. 0 \in Word32 /\ 2 \in Word32
      BY Basics DEF Word32
    <2> QED BY <2>1 DEF Init
  <1>4. Len(mail1) <= Depth /\ Len(mail0) <= Depth
    <2>1. Len(mail1) = 0 /\ Len(mail0) = 0
      BY DEF Init
    <2> QED BY <2>1, Basics
  <1>5. mail1 \in Seq(Words) /\ mail0 \in Seq(Requests) /\ inUse \in SUBSET Buffers
    BY DEF Init
  <1>6. ticks \in 0 .. MaxTicks /\ polls \in 0 .. Timeout
    BY Basics DEF Init
  <1>7. irqEn \in BOOLEAN /\ timer \in BOOLEAN /\ stranger \in BOOLEAN
    BY DEF Init
  <1>8. /\ vpu \in {"startArm", "ei", "monitor", "sleep", "irq", "ack", "tags", "post", "hung"}
        /\ resume \in {"monitor", "sleep"} /\ arm \in {"off", "idle", "poll", "write"}
    BY DEF Init
  <1> QED BY <1>1, <1>2, <1>3, <1>4, <1>5, <1>6, <1>7, <1>8 DEF TypeOK

\* The variables keep their types: in particular the tag loop, whatever the tags and
\* their sizes, stays at a position of 32 bits and leaves words of 32 bits in memory, and
\* neither mailbox holds more than it can.
THEOREM MonitorTypes == Spec => []TypeOK
  <1>1. Spec => [](Inv /\ TypeOK)
    BY Invariant, InitTypes, TypeStep, PTL DEF Spec
  <1> QED BY <1>1, PTL

-----------------------------------------------------------------------------
(* Who has a buffer.  A request is in MAIL1, in the VPU's hand or in MAIL0, once, *)
(* and its buffer is not the ARM's until it is back: so the words the monitor     *)
(* reads are those the ARM asked with, and nobody touches its reply -- but for    *)
(* the VPU itself, when another message has no room for the hash.                 *)

\* The word of a request.
Req(b) == [chan |-> PropertyChannel, buf |-> b]

\* w is in the mailbox s; each request of s is there once.
Has(s, w) == \E i \in 1 .. Len(s) : s[i] = w
Once(s)   == \A i, j \in 1 .. Len(s) : s[i] = s[j] /\ s[i] \in Requests => i = j

\* Where the request of buffer b is.
Waits(b) == Has(mail1, Req(b))
Held(b)  == vpu \in {"tags", "post"} /\ msg = Req(b)
Back(b)  == Has(mail0, Req(b))

\* It is in one place, and where it is the ARM has sent it and not seen it back.
Owned ==
  /\ Once(mail1) /\ Once(mail0)
  /\ \A b \in Buffers : /\ Waits(b) => ~Held(b) /\ ~Back(b)
                        /\ Held(b)  => ~Back(b)
                        /\ Waits(b) \/ Held(b) \/ Back(b) => b \in inUse
  /\ arm \in {"poll", "write"} /\ word \in Requests => word.buf \notin inUse

\* The buffer holds what was asked, unless the VPU wrote into it from another message;
Asks(b) == b \in spoilt \/ LaidOut(b)

\* for a tag that has room: its one turn of the tag loop is to come or is over;
Turned(b) ==
  /\ position >= Len(Layout(asked[b])) /\ error = ~IsKnown(b)
  /\ mem[b] = 4 * Len(Layout(asked[b])) /\ Done(b)
Turns(b) ==
  b \in spoilt \/ ~Modest(b) \/ (position = 2 /\ ~error /\ LaidOut(b)) \/ Turned(b)

\* the reply is there.
Tells(b) ==
  \/ b \in spoilt \/ ~Modest(b)
  \/ mem[b + 1] = (IF IsKnown(b) THEN Success ELSE Error) /\ Done(b)

\* Until the VPU reads the message it is the first, then the second, then the third.
Content ==
  /\ arm \in {"poll", "write"} /\ word \in Requests => Asks(word.buf)
  /\ \A b \in Buffers : /\ Waits(b) => Asks(b)
                        /\ Held(b) /\ vpu = "tags" => Turns(b)
                        /\ Held(b) /\ vpu = "post" => Tells(b)
                        /\ Back(b) => Tells(b)

\* What a buffer holds depends on nothing else.
LEMMA SameContent ==
  ASSUME NEW b, UNCHANGED <<mem, spoilt, asked>>
  PROVE  /\ Asks(b)' <=> Asks(b)
         /\ Tells(b)' <=> Tells(b)
         /\ UNCHANGED <<position, error>> => (Turns(b)' <=> Turns(b))
  <1>1. /\ LaidOut(b)' <=> LaidOut(b)
        /\ Modest(b)' <=> Modest(b)
        /\ IsKnown(b)' <=> IsKnown(b)
        /\ Done(b)' <=> Done(b)
    BY DEF LaidOut, Fits, Modest, IsKnown, Done
  <1> QED BY <1>1 DEF Asks, Tells, Turns, Turned

\* A request of one tag that has room: its length, and that it is enough for the hash.
LEMMA ModestLayout ==
  ASSUME NEW m \in Messages, Len(m) = 1, Roomy(m[1])
  PROVE  /\ m[1].words \in Nat /\ m[1].size \in Nat /\ Len(Layout(m)) = 6 + m[1].words
         /\ m[1].tag = FirmwareHash => m[1].words >= 5
  BY TheTag, OneTagLayout DEF Roomy, Word32

\* Nor on any words but those of the message.
LEMMA Untouched ==
  ASSUME TypeOK, NEW b \in Buffers, asked'[b] = asked[b], b \in spoilt => b \in spoilt',
         b \notin spoilt' /\ Fits(b) =>
           \A i \in 0 .. Len(Layout(asked[b])) - 1 : mem'[b + i] = mem[b + i]
  PROVE  /\ Asks(b) => Asks(b)'
         /\ Tells(b) => Tells(b)'
         /\ UNCHANGED loopVars /\ Turns(b) => Turns(b)'
  <1>1. CASE b \in spoilt'
    BY <1>1 DEF Asks, Tells, Turns
  <1>2. CASE b \notin spoilt' /\ ~Fits(b)
    <2>1. b \notin spoilt /\ (Modest(b)' <=> Modest(b)) /\ ~LaidOut(b) /\ ~Done(b)
      BY <1>2 DEF LaidOut, Done, Modest
    <2> QED BY <2>1 DEF Asks, Tells, Turns, Turned
  <1>3. CASE b \notin spoilt' /\ Fits(b)
    <2> DEFINE m == asked[b]
               n == Len(Layout(m))
    <2>1. m \in Messages /\ b \in Nat /\ b \notin spoilt
      <3>1. b \in Nat
        BY Places
      <3> QED BY <3>1, <1>3 DEF TypeOK
    <2>2. \A i \in 0 .. n - 1 : mem'[b + i] = mem[b + i]
      BY <1>3
    <2>3. (Fits(b)' <=> Fits(b)) /\ (Modest(b)' <=> Modest(b)) /\ (IsKnown(b)' <=> IsKnown(b))
      BY DEF Fits, Modest, IsKnown
    <2>4. LaidOut(b) => LaidOut(b)'
      <3> SUFFICES ASSUME LaidOut(b) PROVE LaidOut(b)'
        OBVIOUS
      <3>1. ASSUME NEW i \in 1 .. n PROVE mem'[b + i - 1] = Layout(m)[i]
        <4>1. n \in Nat
          BY <2>1, LayoutType, <1>3 DEF Fits
        <4>2. i - 1 \in 0 .. n - 1 /\ b + (i - 1) = b + i - 1
          BY <2>1, <4>1
        <4>3. mem[b + i - 1] = Layout(m)[i]
          BY DEF LaidOut
        <4> HIDE DEF m, n
        <4> QED BY <2>2, <4>2, <4>3
      <3> QED BY <3>1, <2>3, <1>3 DEF LaidOut
    <2>5. Modest(b) => n = 6 + m[1].words /\ m[1].words \in Nat /\ (IsKnown(b) => m[1].words >= 5)
      <3> HIDE DEF n
      <3> QED BY <2>1, ModestLayout DEF Modest, IsKnown, n
    <2>6. Modest(b) => /\ mem'[b] = mem[b] /\ mem'[b + 1] = mem[b + 1]
                       /\ Done(b) => Done(b)'
      <3> SUFFICES ASSUME Modest(b)
                   PROVE  mem'[b] = mem[b] /\ mem'[b + 1] = mem[b + 1] /\ (Done(b) => Done(b)')
        OBVIOUS
      <3>1. n \in Nat /\ n >= 6 /\ (IsKnown(b) => n >= 11)
        <4> HIDE DEF n, m
        <4> QED BY <2>5
      <3>2. mem'[b] = mem[b] /\ mem'[b + 1] = mem[b + 1] /\ mem'[b + 4] = mem[b + 4]
        <4> HIDE DEF n, m
        <4>1. b + 0 = b /\ 0 \in 0 .. n - 1 /\ 1 \in 0 .. n - 1 /\ 4 \in 0 .. n - 1
          BY <3>1, <2>1
        <4> QED BY <4>1, <2>2
      <3>3. IsKnown(b) => \A i \in 1 .. 5 : mem'[b + 4 + i] = mem[b + 4 + i]
        <4> SUFFICES ASSUME IsKnown(b), NEW i \in 1 .. 5 PROVE mem'[b + 4 + i] = mem[b + 4 + i]
          OBVIOUS
        <4> HIDE DEF n, m
        <4>1. 4 + i \in 0 .. n - 1 /\ b + (4 + i) = b + 4 + i
          BY <3>1, <2>1
        <4> QED BY <4>1, <2>2
      <3>4. mem'[b + n - 1] = mem[b + n - 1]
        <4> HIDE DEF n, m
        <4>1. n - 1 \in 0 .. n - 1 /\ b + (n - 1) = b + n - 1
          BY <3>1, <2>1
        <4> QED BY <4>1, <2>2
      <3> QED BY <3>2, <3>3, <3>4, <2>3, <1>3 DEF Done
    <2>7. UNCHANGED loopVars /\ Modest(b) /\ Turned(b) => Turned(b)'
      BY <2>3, <2>6 DEF Turned
    <2> QED BY <2>1, <2>3, <2>4, <2>6, <2>7, <1>3 DEF Asks, Tells, Turns
  <1> QED BY <1>1, <1>2, <1>3

\* Putting a word into a mailbox.
LEMMA HasAppend ==
  ASSUME NEW s \in Seq(Words), NEW x \in Words, NEW w
  PROVE  Has(Append(s, x), w) <=> Has(s, w) \/ x = w
  <1>1. Len(s) \in Nat /\ Len(Append(s, x)) = Len(s) + 1 /\ Append(s, x)[Len(s) + 1] = x
    OBVIOUS
  <1>2. \A i \in 1 .. Len(s) : Append(s, x)[i] = s[i]
    OBVIOUS
  <1>3. ASSUME Has(s, w) PROVE Has(Append(s, x), w)
    <2>1. PICK i \in 1 .. Len(s) : s[i] = w
      BY <1>3 DEF Has
    <2>2. i \in 1 .. Len(Append(s, x)) /\ Append(s, x)[i] = w
      BY <2>1, <1>1, <1>2
    <2> QED BY <2>2 DEF Has
  <1>4. ASSUME x = w PROVE Has(Append(s, x), w)
    <2>1. Len(s) + 1 \in 1 .. Len(Append(s, x)) /\ Append(s, x)[Len(s) + 1] = w
      BY <1>4, <1>1
    <2> QED BY <2>1 DEF Has
  <1>5. ASSUME Has(Append(s, x), w), x # w PROVE Has(s, w)
    <2>1. PICK i \in 1 .. Len(Append(s, x)) : Append(s, x)[i] = w
      BY <1>5 DEF Has
    <2>2. i \in 1 .. Len(s)
      BY <2>1, <1>1, <1>5
    <2> QED BY <2>1, <2>2, <1>2 DEF Has
  <1> QED BY <1>3, <1>4, <1>5

\* A request that is not there yet is there once.
LEMMA OnceAppend ==
  ASSUME NEW s \in Seq(Words), NEW x \in Words, Once(s), x \in Requests => ~Has(s, x)
  PROVE  Once(Append(s, x))
  <1>1. Len(s) \in Nat /\ Len(Append(s, x)) = Len(s) + 1 /\ Append(s, x)[Len(s) + 1] = x
    OBVIOUS
  <1>2. \A i \in 1 .. Len(s) : Append(s, x)[i] = s[i]
    OBVIOUS
  <1> SUFFICES ASSUME NEW i \in 1 .. Len(Append(s, x)), NEW j \in 1 .. Len(Append(s, x)),
                      Append(s, x)[i] = Append(s, x)[j], Append(s, x)[i] \in Requests
               PROVE  i = j
    BY DEF Once
  <1>3. (i \in 1 .. Len(s) \/ i = Len(s) + 1) /\ (j \in 1 .. Len(s) \/ j = Len(s) + 1)
    BY <1>1
  <1>4. CASE i \in 1 .. Len(s) /\ j \in 1 .. Len(s)
    BY <1>2, <1>4 DEF Once
  <1>5. CASE i \in 1 .. Len(s) /\ j = Len(s) + 1
    <2>1. s[i] = x /\ x \in Requests
      BY <1>1, <1>2, <1>5
    <2> QED BY <2>1, <1>5 DEF Has
  <1>6. CASE i = Len(s) + 1 /\ j \in 1 .. Len(s)
    <2>1. s[j] = x /\ x \in Requests
      BY <1>1, <1>2, <1>6
    <2> QED BY <2>1, <1>6 DEF Has
  <1> QED BY <1>3, <1>4, <1>5, <1>6

\* Taking a word out: the others stay, and a request is gone.
LEMMA TakeOut ==
  ASSUME NEW s \in Seq(Words), s # <<>>, Once(s)
  PROVE  /\ Has(s, Head(s)) /\ Once(Tail(s))
         /\ \A w \in Words : Has(Tail(s), w) => Has(s, w)
         /\ Head(s) \in Requests => ~Has(Tail(s), Head(s))
  <1>1. Len(s) \in Nat \ {0} /\ Len(Tail(s)) = Len(s) - 1 /\ Head(s) = s[1]
    OBVIOUS
  <1>2. \A i \in 1 .. Len(Tail(s)) : Tail(s)[i] = s[i + 1]
    BY <1>1
  <1>3. \A i \in 1 .. Len(Tail(s)) : i + 1 \in 1 .. Len(s) /\ i + 1 # 1
    BY <1>1
  <1>4. Has(s, Head(s))
    BY <1>1 DEF Has
  <1>5. Once(Tail(s))
    <2> SUFFICES ASSUME NEW i \in 1 .. Len(Tail(s)), NEW j \in 1 .. Len(Tail(s)),
                        Tail(s)[i] = Tail(s)[j], Tail(s)[i] \in Requests
                 PROVE  i = j
      BY DEF Once
    <2>1. s[i + 1] = s[j + 1] /\ s[i + 1] \in Requests /\ i + 1 \in 1 .. Len(s) /\ j + 1 \in 1 .. Len(s)
      BY <1>2, <1>3
    <2>2. i + 1 = j + 1
      BY <2>1 DEF Once
    <2>3. i \in Int /\ j \in Int
      OBVIOUS
    <2> QED BY <2>2, <2>3
  <1>6. ASSUME NEW w \in Words, Has(Tail(s), w) PROVE Has(s, w)
    <2>1. PICK i \in 1 .. Len(Tail(s)) : Tail(s)[i] = w
      BY <1>6 DEF Has
    <2> QED BY <2>1, <1>2, <1>3 DEF Has
  <1>7. ASSUME Head(s) \in Requests, Has(Tail(s), Head(s)) PROVE FALSE
    <2>1. PICK i \in 1 .. Len(Tail(s)) : Tail(s)[i] = Head(s)
      BY <1>7 DEF Has
    <2>2. s[i + 1] = s[1] /\ s[i + 1] \in Requests /\ i + 1 \in 1 .. Len(s) /\ 1 \in 1 .. Len(s)
      BY <2>1, <1>1, <1>2, <1>3, <1>7
    <2>3. i + 1 = 1
      BY <2>2 DEF Once
    <2> QED BY <2>3, <1>3
  <1> QED BY <1>4, <1>5, <1>6, <1>7

\* What else was there is still there.
LEMMA HasTail ==
  ASSUME NEW s \in Seq(Words), s # <<>>, NEW w, Has(s, w)
  PROVE  Has(Tail(s), w) \/ Head(s) = w
  <1>1. Len(s) \in Nat \ {0} /\ Len(Tail(s)) = Len(s) - 1 /\ Head(s) = s[1]
    OBVIOUS
  <1>2. \A i \in 1 .. Len(Tail(s)) : Tail(s)[i] = s[i + 1]
    BY <1>1
  <1>3. PICK i \in 1 .. Len(s) : s[i] = w
    BY DEF Has
  <1>4. CASE i = 1
    BY <1>1, <1>3, <1>4
  <1>5. CASE i # 1
    <2>1. i - 1 \in 1 .. Len(Tail(s)) /\ (i - 1) + 1 = i
      BY <1>1, <1>5
    <2>2. Tail(s)[i - 1] = w
      BY <2>1, <1>2, <1>3
    <2> QED BY <2>1, <2>2 DEF Has
  <1> QED BY <1>4, <1>5


\* Words, requests and buffers.
LEMMA ReqWords ==
  /\ \A w \in Requests : w.buf \in Buffers /\ w = Req(w.buf)
  /\ \A b \in Buffers : Req(b).buf = b /\ (Req(b) \in Words => Req(b) \in Requests)
  /\ \A b, c \in Buffers : Req(b) = Req(c) => b = c
  <1>1. \A w \in Requests : w.buf \in Buffers /\ w = Req(w.buf)
    BY DEF Requests, Req
  <1>2. \A b \in Buffers : Req(b).buf = b /\ (Req(b) \in Words => Req(b) \in Requests)
    BY DEF Words, Requests, Req
  <1>3. \A b, c \in Buffers : Req(b) = Req(c) => b = c
    BY <1>2
  <1> QED BY <1>1, <1>2, <1>3

\* What is in a mailbox is a word.
LEMMA HasWord == ASSUME NEW s \in Seq(Words), NEW w, Has(s, w) PROVE w \in Words
  BY DEF Has

\* The mailboxes' types, as the following lemmas use them.
LEMMA MailTypes ==
  TypeOK => /\ mail1 \in Seq(Words) /\ mail0 \in Seq(Requests) /\ mail0 \in Seq(Words)
            /\ msg \in Words /\ word \in Words
  <1>1. Requests \subseteq Words
    BY WordParts
  <1>2. \A s \in Seq(Requests) : s \in Seq(Words)
    BY <1>1
  <1> QED BY <1>2 DEF TypeOK

\* Steps that move no request, and change no buffer.
LEMMA QuietKeeps ==
  ASSUME Owned, Content,
         UNCHANGED <<mail1, mail0, mem, spoilt, position, error, msg, word, asked, inUse>>,
         vpu' = vpu \/ (vpu \notin {"tags", "post"} /\ vpu' \notin {"tags", "post"}),
         arm' \in {"poll", "write"} => arm \in {"poll", "write"}
  PROVE  Owned' /\ Content'
  <1>1. \A b \in Buffers : /\ Waits(b)' <=> Waits(b)
                           /\ Held(b)' <=> Held(b)
                           /\ Back(b)' <=> Back(b)
                           /\ Asks(b)' <=> Asks(b)
                           /\ Turns(b)' <=> Turns(b)
                           /\ Tells(b)' <=> Tells(b)
    BY SameContent DEF Waits, Held, Back
  <1>2. Asks(word.buf)' <=> Asks(word.buf)
    BY DEF Asks, LaidOut, Fits
  <1>3. Owned'
    BY <1>1 DEF Owned
  <1>4. Content'
    BY <1>1, <1>2 DEF Content
  <1> QED BY <1>3, <1>4

\* Most steps are of this kind.
LEMMA QuietOwned ==
  Inv /\ Owned /\ Content
  /\ (Startup \/ TakeIrq \/ DispatchTimer \/ AckTimer \/ DispatchStranger
      \/ PollFull \/ Tick \/ RaiseStranger \/ UNCHANGED vars)
    => Owned' /\ Content'
  <1> SUFFICES ASSUME Inv, Owned, Content,
                      Startup \/ TakeIrq \/ DispatchTimer \/ AckTimer \/ DispatchStranger
                      \/ PollFull \/ Tick \/ RaiseStranger \/ UNCHANGED vars
               PROVE  Owned' /\ Content'
    OBVIOUS
  <1> HIDE DEF Owned, Content
  <1> USE DEF vpuVars, irqVars, armVars
  <1>1. CASE Startup
    BY <1>1, QuietKeeps DEF Startup, StartArm, EnableInterrupts, EnableMailIrq
  <1>2. CASE TakeIrq \/ DispatchTimer \/ DispatchStranger
    BY <1>2, QuietKeeps DEF TakeIrq, DispatchTimer, DispatchStranger
  <1>3. CASE AckTimer
    BY <1>3, QuietKeeps DEF AckTimer, Inv
  <1>4. CASE PollFull
    BY <1>4, QuietKeeps DEF PollFull
  <1>5. CASE Tick \/ RaiseStranger
    BY <1>5, QuietKeeps DEF Tick, RaiseStranger
  <1>6. CASE UNCHANGED vars
    BY <1>6, QuietKeeps DEF vars
  <1> QED BY <1>1, <1>2, <1>3, <1>4, <1>5, <1>6

\* The VPU takes a request into its hand.
LEMMA ReadOwned == TypeOK /\ Inv /\ Owned /\ Content /\ ReadMail => Owned' /\ Content'
  <1> SUFFICES ASSUME TypeOK, Inv, Owned, Content, ReadMail PROVE Owned' /\ Content'
    OBVIOUS
  <1>1. /\ mail1 \in Seq(Words) /\ mail1 # <<>> /\ msg' = Head(mail1) /\ mail1' = Tail(mail1)
        /\ vpu = "irq" /\ vpu' \notin {"post"}
        /\ msg'.chan = 8 => position' = 2 /\ error' = FALSE
        /\ UNCHANGED <<mail0, mem, spoilt, arm, word, asked, inUse>>
    BY MailTypes DEF ReadMail, MailIrq, Inv, armVars
  <1>2. /\ Has(mail1, msg') /\ Once(mail1')
        /\ \A w \in Words : Has(mail1', w) => Has(mail1, w)
        /\ msg' \in Requests => ~Has(mail1', msg')
    BY <1>1, TakeOut DEF Owned
  <1>3. mail1' \in Seq(Words)
    BY <1>1
  <1>4. ASSUME NEW b \in Buffers
        PROVE  /\ Waits(b)' => Waits(b)
               /\ ~Held(b)
               /\ Held(b)' => Waits(b) /\ ~Waits(b)' /\ (Asks(b) => Turns(b)')
               /\ Back(b)' <=> Back(b)
               /\ Asks(b)' <=> Asks(b)
               /\ Tells(b)' <=> Tells(b)
    <2>1. Waits(b)' => Waits(b)
      BY <1>2, <1>3, HasWord DEF Waits
    <2>2. ~Held(b) /\ (Back(b)' <=> Back(b)) /\ (Asks(b)' <=> Asks(b)) /\ (Tells(b)' <=> Tells(b))
      BY <1>1, SameContent DEF Held, Back
    <2>3. ASSUME Held(b)' PROVE Waits(b) /\ ~Waits(b)' /\ (Asks(b) => Turns(b)')
      <3>1. msg' = Req(b)
        BY <2>3 DEF Held
      <3>2. Waits(b)
        BY <3>1, <1>2 DEF Waits
      <3>3. msg' \in Requests
        BY <3>1, <3>2, <1>1, HasWord, ReqWords DEF Waits
      <3>4. position' = 2 /\ ~error'
        BY <3>1, <1>1 DEF Req
      <3>5. Asks(b)' => Turns(b)'
        BY <3>4 DEF Asks, Turns
      <3>6. Asks(b) => Turns(b)'
        BY <3>5, <1>1, SameContent
      <3> QED BY <3>1, <3>2, <3>3, <3>6, <1>2 DEF Waits
    <2> QED BY <2>1, <2>2, <2>3
  <1>5. Owned'
    BY <1>1, <1>2, <1>4 DEF Owned
  <1>6. Content'
    <2>1. Asks(word.buf)' <=> Asks(word.buf)
      BY <1>1 DEF Asks, LaidOut, Fits
    <2> QED BY <2>1, <1>1, <1>4 DEF Content
  <1> QED BY <1>5, <1>6

\* Its turns leave the mailboxes alone.
LEMMA LoopMail ==
  ASSUME Inv, HandleTag \/ EndTags, Owned
  PROVE  /\ vpu = "tags" /\ vpu' \in {"tags", "post"}
         /\ UNCHANGED <<msg, mail1, mail0, arm, word, asked, inUse>>
         /\ msg.buf \in Buffers /\ msg = Req(msg.buf) /\ Held(msg.buf) /\ msg.buf \in inUse
         /\ \A b \in Buffers : /\ Waits(b)' <=> Waits(b)
                               /\ Held(b)' <=> Held(b)
                               /\ Back(b)' <=> Back(b)
                               /\ Held(b) => b = msg.buf
         /\ ~Waits(msg.buf) /\ ~Back(msg.buf)
  <1>1. /\ vpu = "tags" /\ vpu' \in {"tags", "post"}
        /\ UNCHANGED <<msg, mail1, mail0, arm, word, asked, inUse>>
    BY DEF HandleTag, EndTags, armVars
  <1>2. msg.buf \in Buffers /\ msg = Req(msg.buf) /\ Held(msg.buf)
    BY <1>1, ReqWords DEF Inv, Held
  <1>3. ASSUME NEW b \in Buffers
        PROVE  /\ Waits(b)' <=> Waits(b)
               /\ Held(b)' <=> Held(b)
               /\ Back(b)' <=> Back(b)
               /\ Held(b) => b = msg.buf
    <2>1. (Waits(b)' <=> Waits(b)) /\ (Held(b)' <=> Held(b)) /\ (Back(b)' <=> Back(b))
      BY <1>1 DEF Waits, Held, Back
    <2>2. Held(b) => b = msg.buf
      BY <1>2, ReqWords DEF Held
    <2> QED BY <2>1, <2>2
  <1>4. msg.buf \in inUse /\ ~Waits(msg.buf) /\ ~Back(msg.buf)
    BY <1>2 DEF Owned
  <1> QED BY <1>1, <1>2, <1>3, <1>4

\* So what has to be shown of one is what it leaves in memory.
LEMMA LoopOwned ==
  ASSUME TypeOK, Inv, Owned, Content, HandleTag \/ EndTags,
         \A b \in Buffers \ {msg.buf} : (Asks(b) => Asks(b)') /\ (Tells(b) => Tells(b)'),
         vpu' = "tags" => \A b \in Buffers : b = msg.buf => Turns(b)',
         vpu' = "post" => \A b \in Buffers : b = msg.buf => Tells(b)'
  PROVE  Owned' /\ Content'
  <1>1. /\ vpu = "tags" /\ vpu' \in {"tags", "post"}
        /\ UNCHANGED <<msg, mail1, mail0, arm, word, asked, inUse>>
        /\ msg.buf \in inUse
    BY LoopMail
  <1>2. ASSUME NEW b \in Buffers
        PROVE  /\ Waits(b)' <=> Waits(b)
               /\ Held(b)' <=> Held(b)
               /\ Back(b)' <=> Back(b)
               /\ Held(b) => b = msg.buf
               /\ b = msg.buf => ~Waits(b) /\ ~Back(b)
    BY LoopMail
  <1>3. Owned'
    BY <1>1, <1>2 DEF Owned
  <1>4. arm \in {"poll", "write"} /\ word \in Requests => Asks(word.buf)'
    <2> SUFFICES ASSUME arm \in {"poll", "write"}, word \in Requests PROVE Asks(word.buf)'
      OBVIOUS
    <2>1. word.buf \in Buffers /\ word.buf # msg.buf /\ Asks(word.buf)
      BY <1>1, ReqWords DEF Owned, Content
    <2>2. word'.buf = word.buf
      BY <1>1
    <2>3. PICK b \in Buffers : b = word.buf /\ b # msg.buf
      BY <2>1
    <2>4. Asks(b)
      BY <2>1, <2>3
    <2>5. Asks(b)'
      BY <2>3, <2>4
    <2>6. word'.buf = b
      BY <2>2, <2>3
    <2> QED BY <2>5, <2>6
  <1>5. ASSUME NEW b \in Buffers
        PROVE  /\ Waits(b)' => Asks(b)'
               /\ Held(b)' /\ vpu' = "tags" => Turns(b)'
               /\ Held(b)' /\ vpu' = "post" => Tells(b)'
               /\ Back(b)' => Tells(b)'
    <2>1. CASE b = msg.buf
      BY <2>1, <1>2
    <2>2. CASE b # msg.buf
      BY <2>2, <1>2 DEF Content
    <2> QED BY <2>1, <2>2
  <1>6. Content'
    BY <1>1, <1>4, <1>5 DEF Content
  <1> QED BY <1>3, <1>6

\* A turn of the tag loop writes into no message but its own and those it spoils.
LEMMA HandleOthers ==
  ASSUME TypeOK, HandleTag, NEW b \in Buffers, b # msg.buf
  PROVE  (Asks(b) => Asks(b)') /\ (Tells(b) => Tells(b)')
  <1>1. asked' = asked
    BY DEF HandleTag, armVars
  <1>2. CASE UNCHANGED memVars
    BY <1>1, <1>2, SameContent
  <1>3. CASE mem' = WriteHash(mem, msg.buf, position) /\ spoilt' = spoilt \cup Reached
    <2>1. ASSUME b \notin spoilt', Fits(b), NEW i \in 0 .. Len(Layout(asked[b])) - 1
          PROVE  mem'[b + i] = mem[b + i]
      <3> DEFINE n == Len(Layout(asked[b]))
      <3>1. b \in Nat /\ Size[b] \in Nat /\ n <= Size[b]
        BY <2>1, Places DEF Fits
      <3>2. n \in Nat
        BY <2>1, LayoutType DEF Fits, TypeOK
      <3> HIDE DEF n
      <3>3. i \in 0 .. n - 1
        BY <2>1 DEF n
      <3>4. i \in 0 .. Size[b] - 1 /\ b + i \in b .. b + Size[b] - 1 /\ b + i < b + n
        BY <3>1, <3>2, <3>3
      <3>5. b + i \in Memory
        BY <3>4, Places
      <3>6. OfPacket(b + i, msg.buf, position) \notin 2 .. 7
        BY <1>3, <2>1, <3>4 DEF Reached, WordsOf, n
      <3>7. OfPacket(b + i, msg.buf, position) # 2 /\ OfPacket(b + i, msg.buf, position) \notin 3 .. 7
        <4>1. 2 \in 2 .. 7 /\ 3 .. 7 \subseteq 2 .. 7
          OBVIOUS
        <4> QED BY <3>6, <4>1
      <3> QED BY <1>3, <3>5, <3>7 DEF WriteHash
    <2>2. asked'[b] = asked[b] /\ (b \in spoilt => b \in spoilt')
      BY <1>1, <1>3
    <2> QED BY <2>1, <2>2, Untouched
  <1> QED BY <1>2, <1>3 DEF HandleTag

\* The end of the tags changes the response code of the message in hand only.
LEMMA EndOthers ==
  ASSUME TypeOK, EndTags, NEW b \in Buffers, b # msg.buf
  PROVE  (Asks(b) => Asks(b)') /\ (Tells(b) => Tells(b)')
  <1>1. asked' = asked /\ spoilt' = spoilt /\ msg.buf \in Buffers /\ mem \in [Memory -> Word32]
    BY WordParts DEF EndTags, armVars, TypeOK
  <1>2. ASSUME Fits(b), NEW i \in 0 .. Len(Layout(asked[b])) - 1 PROVE mem'[b + i] = mem[b + i]
    <2>1. Len(Layout(asked[b])) \in Nat /\ Len(Layout(asked[b])) <= Size[b] /\ Size[b] \in Nat
      BY <1>2, LayoutType, Places DEF Fits, TypeOK
    <2>2. i \in 0 .. Size[b] - 1
      BY <2>1
    <2>3. Size[msg.buf] \in Nat /\ Size[msg.buf] >= 2
      BY <1>1, Places
    <2>4. 1 \in 0 .. Size[msg.buf] - 1
      BY <2>3
    <2>5. b + i # msg.buf + 1
      BY <1>1, <2>2, <2>4, Apart
    <2>6. b + i \in Memory
      BY <2>2, Places
    <2> QED BY <1>1, <2>5, <2>6 DEF EndTags
  <1> QED BY <1>1, <1>2, Untouched

\* A tag that has the room it tells of is followed by nothing: the loop is past the end.
LEMMA OneTurn ==
  ASSUME NEW size \in Nat, NEW words \in Nat, words = (size + 3) \div 4, words + 22 <= Wrap \div 4
  PROVE  NextTag(2, size) >= 6 + words
  <1>1. Wrap \in Nat /\ Wrap \div 4 \in Nat /\ 4 * (Wrap \div 4) = Wrap
    BY Basics, Division
  <1>2. ASSUME NEW s \in Nat, NEW w \in Nat, w = (s + 3) \div 4
        PROVE  s <= 4 * w /\ w <= s /\ s % 4 \in 0 .. 3
    BY <1>2
  <1>3. size <= 4 * words /\ words <= size /\ size % 4 \in 0 .. 3
    BY <1>2
  <1> DEFINE r == size % 4
             x == 2 + 12 + size + (4 - r)
  <1>4. x \in Nat /\ x >= 6 + words /\ x < Wrap
    <2>1. r \in 0 .. 3
      BY <1>3
    <2> HIDE DEF r
    <2>2. ASSUME NEW d \in Nat, 4 * d = Wrap, words + 22 <= d PROVE x < Wrap
      BY <2>1, <2>2, <1>3
    <2> QED BY <1>1, <1>3, <2>1, <2>2
  <1>5. ASSUME NEW y \in Nat, NEW w \in Nat, y < w PROVE y % w = y
    BY <1>5
  <1>6. NextTag(2, size) = x % Wrap
    BY DEF NextTag
  <1> HIDE DEF x
  <1> QED BY <1>1, <1>4, <1>5, <1>6

\* The turn of a tag that has room is its only one, and leaves the reply in place.
LEMMA HandleOwn ==
  ASSUME TypeOK, HandleTag, NEW b \in Buffers, b = msg.buf, Turns(b)
  PROVE  Turns(b)'
  <1> DEFINE m == asked[b]
             n == Len(Layout(m))
  <1>1. /\ asked' = asked /\ msg' = msg /\ spoilt \subseteq spoilt' /\ m \in Messages
        /\ mem \in [Memory -> Word32] /\ b \in Nat
        /\ position < mem[b] \div 4
    <2>1. asked' = asked /\ msg' = msg /\ spoilt \subseteq spoilt' /\ position < mem[b] \div 4
      BY DEF HandleTag, InMessage, armVars
    <2>2. m \in Messages /\ mem \in [Memory -> Word32]
      BY DEF TypeOK
    <2>3. b \in Nat
      BY Places
    <2> QED BY <2>1, <2>2, <2>3
  <1>2. (Modest(b)' <=> Modest(b)) /\ (IsKnown(b)' <=> IsKnown(b)) /\ (Fits(b)' <=> Fits(b))
    BY <1>1 DEF Modest, IsKnown, Fits
  <1>3. CASE b \in spoilt \/ ~Modest(b)
    BY <1>1, <1>2, <1>3 DEF Turns
  <1>4. ASSUME Turned(b), Modest(b) PROVE FALSE
    <2>1. n \in Nat /\ mem[b] = 4 * n /\ position >= n
      BY <1>1, <1>4, LayoutType DEF Turned, Done, Fits
    <2>2. position < n
      <3> HIDE DEF m, n
      <3> QED BY <1>1, <2>1, Division
    <2> HIDE DEF n, m
    <2>3. position \in Nat
      BY Basics DEF TypeOK, Word32
    <2> QED BY <2>1, <2>2, <2>3
  <1>5. ASSUME Modest(b), position = 2, ~error, LaidOut(b) PROVE Turned(b)'
    <2> DEFINE words == m[1].words
               size  == m[1].size
    <2>1. /\ words \in Nat /\ size \in Nat /\ n = 6 + words /\ words = (size + 3) \div 4
          /\ IsKnown(b) => words >= 5
      BY <1>1, <1>5, ModestLayout DEF Modest, Roomy, IsKnown
    <2>2. /\ Layout(m)[1] = 4 * n /\ Layout(m)[3] = m[1].tag /\ Layout(m)[4] = size
          /\ Layout(m)[5] = 0 /\ Layout(m)[6 + words] = 0
      BY <1>1, <1>5, OneTagLayout, LayoutType DEF Modest, LaidOut, Fits
    <2>3. n <= Size[b] /\ Size[b] \in Nat /\ b + Size[b] + 16 <= Wrap \div 4 /\ Size[b] + 16 <= Wrap \div 4
      BY <1>5, Places DEF LaidOut, Fits
    <2>4. \A i \in 1 .. n : mem[b + i - 1] = Layout(m)[i]
      BY <1>5 DEF LaidOut
    <2> HIDE DEF n, words, size
    <2>5. /\ mem[b] = 4 * n /\ mem[b + 2] = m[1].tag /\ mem[b + 3] = size /\ mem[b + 4] = 0
          /\ mem[b + n - 1] = 0
      <3> HIDE DEF m
      <3>1. 1 \in 1 .. n /\ 3 \in 1 .. n /\ 4 \in 1 .. n /\ 5 \in 1 .. n /\ 6 + words \in 1 .. n
        BY <2>1
      <3>2. b + 1 - 1 = b /\ b + 3 - 1 = b + 2 /\ b + 4 - 1 = b + 3 /\ b + 5 - 1 = b + 4
            /\ b + (6 + words) - 1 = b + n - 1
        BY <1>1, <2>1
      <3> QED BY <2>2, <2>4, <3>1, <3>2
    <2>6. \A i \in 0 .. n - 1 : b + i \in Memory /\ OfPacket(b + i, b, 2) =
             (IF i = 0 THEN (Wrap \div 4) - 2 ELSE IF i = 1 THEN (Wrap \div 4) - 1 ELSE i - 2)
      <3>1. ASSUME NEW i \in 0 .. n - 1 PROVE i \in 0 .. Size[b] - 1
        BY <2>1, <2>3
      <3> QED BY <3>1, OwnPacket, Places
    <2>7. At(b, 2) = b + 2 /\ At(b, 3) = b + 3 /\ b + 2 \in Memory /\ b + 3 \in Memory
      <3>1. 2 \in 0 .. n - 1 /\ 3 \in 0 .. n - 1
        BY <2>1
      <3>2. b + 2 \in 0 .. (Wrap \div 4) - 1 /\ b + 3 \in 0 .. (Wrap \div 4) - 1
        BY <1>1, <2>1, <2>3, Division
      <3>3. \A x \in 0 .. (Wrap \div 4) - 1 : x % (Wrap \div 4) = x
        BY Division
      <3> QED BY <2>6, <3>1, <3>2, <3>3 DEF At
    <2>8. /\ position' = NextTag(2, size)
          /\ IF Known(m[1].tag)
               THEN mem' = WriteHash(mem, b, 2) /\ error' = error
               ELSE error' = TRUE /\ mem' = mem
      <3>1. At(msg.buf, position) = b + 2 /\ At(msg.buf, position + 1) = b + 3
        <4>1. position + 1 = 3
          BY <1>5
        <4> QED BY <4>1, <1>5, <2>7
      <3>2. Found(b + 2) = {m[1].tag} /\ Found(b + 3) = {size}
        BY <2>5, <2>7 DEF Found
      <3> QED BY <3>1, <3>2, <1>5 DEF HandleTag
    <2>9. position' >= n
      <3>1. words + 22 <= Wrap \div 4
        BY <2>1, <2>3, Division
      <3> QED BY <2>1, <2>8, <3>1, OneTurn
    <2>10. CASE IsKnown(b)
      <3>1. mem' = WriteHash(mem, b, 2) /\ error' = FALSE
        <4>1. error = FALSE
          BY <1>5 DEF TypeOK
        <4> QED BY <4>1, <2>8, <2>10 DEF IsKnown, Known
      <3>2. n >= 11 /\ n \in Nat
        BY <2>1, <2>10
      <3>3. ASSUME NEW i \in 0 .. n - 1
            PROVE  mem'[b + i] = IF i = 4 THEN Handled ELSE IF i \in 5 .. 9 THEN Hash[i - 4]
                                 ELSE mem[b + i]
        <4> DEFINE k == OfPacket(b + i, b, 2)
        <4>1. b + i \in Memory
          BY <2>6
        <4>2. mem'[b + i] = CASE k = 2 -> Handled [] k \in 3 .. 7 -> Hash[k - 2] [] OTHER -> mem[b + i]
          BY <3>1, <4>1 DEF WriteHash
        <4>3. Wrap \div 4 \in Nat /\ Wrap \div 4 > 500 - 1
          BY Division
        <4>4. k = IF i = 0 THEN (Wrap \div 4) - 2 ELSE IF i = 1 THEN (Wrap \div 4) - 1 ELSE i - 2
          BY <2>6
        <4>5. CASE i = 4
          <5>1. k = 2
            BY <4>4, <4>5
          <5> QED BY <4>2, <4>5, <5>1
        <4>6. CASE i \in 5 .. 9
          <5>1. k = i - 2 /\ k \in 3 .. 7 /\ k # 2 /\ k - 2 = i - 4
            BY <4>4, <4>6
          <5> HIDE DEF k
          <5> QED BY <4>2, <4>6, <5>1
        <4>7. CASE i # 4 /\ i \notin 5 .. 9
          <5>1. k # 2 /\ k \notin 3 .. 7
            <6> HIDE DEF k
            <6> QED BY <4>3, <4>4, <4>7, <3>2
          <5> HIDE DEF k
          <5> QED BY <4>2, <4>7, <5>1
        <4> QED BY <4>5, <4>6, <4>7
      <3> HIDE DEF m
      <3>4. mem'[b] = mem[b] /\ mem'[b + 4] = Handled
        <4>1. 0 \in 0 .. n - 1 /\ 4 \in 0 .. n - 1 /\ b + 0 = b
          BY <1>1, <3>2
        <4> QED BY <3>3, <4>1
      <3>5. ASSUME NEW i \in 1 .. 5 PROVE mem'[b + 4 + i] = Hash[i]
        <4>1. 4 + i \in 0 .. n - 1 /\ 4 + i \in 5 .. 9 /\ 4 + i # 4 /\ (4 + i) - 4 = i
              /\ b + (4 + i) = b + 4 + i
          BY <1>1, <3>2
        <4> QED BY <3>3, <4>1
      <3>6. mem'[b + n - 1] = mem[b + n - 1]
        <4>1. n - 1 \in 0 .. n - 1 /\ n - 1 # 4 /\ n - 1 \notin 5 .. 9 /\ b + (n - 1) = b + n - 1
          BY <1>1, <3>2
        <4> QED BY <3>3, <4>1
      <3>7. Done(b)'
        <4>1. Len(Layout(asked'[b])) = n
          BY <1>1 DEF n, m
        <4>2. mem'[b + n - 1] = 0
          BY <3>6, <2>5
        <4> QED BY <4>1, <4>2, <3>4, <3>5, <1>2, <1>5, <2>10 DEF Done, LaidOut
      <3>8. mem'[b] = 4 * n
        BY <3>4, <2>5
      <3> QED BY <3>1, <3>7, <3>8, <2>9, <2>10, <1>1, <1>2 DEF Turned, n, m
    <2>11. CASE ~IsKnown(b)
      <3>1. mem' = mem /\ error' = TRUE
        BY <2>8, <2>11 DEF IsKnown, Known
      <3>2. Done(b)'
        <4>1. Len(Layout(asked'[b])) = n
          BY <1>1 DEF n, m
        <4> QED BY <4>1, <3>1, <2>5, <1>2, <1>5, <2>11 DEF Done, LaidOut
      <3> QED BY <3>1, <3>2, <2>5, <2>9, <2>11, <1>1, <1>2 DEF Turned, n, m
    <2> QED BY <2>10, <2>11
  <1> QED BY <1>3, <1>4, <1>5 DEF Turns

\* Then the response code is written, and the reply is complete.
LEMMA EndOwn ==
  ASSUME TypeOK, EndTags, NEW b \in Buffers, b = msg.buf, Turns(b)
  PROVE  Tells(b)'
  <1>1. /\ asked' = asked /\ spoilt' = spoilt /\ asked[b] \in Messages /\ b \in Nat
        /\ mem \in [Memory -> Word32] /\ ~(position < mem[b] \div 4)
        /\ mem' = [mem EXCEPT ![b + 1] = IF error THEN Error ELSE Success]
    <2>1. b \in Nat
      BY Places
    <2> QED BY <2>1 DEF EndTags, InMessage, armVars, TypeOK
  <1>2. (Modest(b)' <=> Modest(b)) /\ (IsKnown(b)' <=> IsKnown(b)) /\ (Fits(b)' <=> Fits(b))
    BY <1>1 DEF Modest, IsKnown, Fits
  <1>3. CASE b \in spoilt \/ ~Modest(b)
    BY <1>1, <1>2, <1>3 DEF Tells
  <1> DEFINE n == Len(Layout(asked[b]))
  <1>4. Modest(b) => n \in Nat /\ n >= 6 /\ (IsKnown(b) => n >= 11)
    <2> SUFFICES ASSUME Modest(b) PROVE n \in Nat /\ n >= 6 /\ (IsKnown(b) => n >= 11)
      OBVIOUS
    <2>1. /\ asked[b][1].words \in Nat /\ n = 6 + asked[b][1].words
          /\ IsKnown(b) => asked[b][1].words >= 5
      <3> HIDE DEF n
      <3> QED BY <1>1, ModestLayout DEF Modest, IsKnown, n
    <2> HIDE DEF n
    <2> QED BY <2>1
  <1>5. ASSUME Modest(b), position = 2, LaidOut(b) PROVE FALSE
    <2>1. mem[b] = 4 * n
      <3>1. Layout(asked[b])[1] = 4 * n
        BY <1>1, <1>5, LayoutType DEF LaidOut, Fits
      <3>2. mem[b + 1 - 1] = Layout(asked[b])[1]
        <4>1. 1 \in 1 .. n
          <5> HIDE DEF n
          <5> QED BY <1>4, <1>5
        <4> QED BY <4>1, <1>5 DEF LaidOut
      <3>3. b + 1 - 1 = b
        BY <1>1
      <3> QED BY <3>1, <3>2, <3>3
    <2> HIDE DEF n
    <2> QED BY <1>1, <1>4, <1>5, <2>1, Division
  <1>6. ASSUME Modest(b), Turned(b) PROVE Tells(b)'
    <2>1. n - 1 \in 0 .. Size[b] - 1 /\ n <= Size[b] /\ Size[b] \in Nat
      <3>1. n <= Size[b] /\ Size[b] \in Nat
        BY <1>6, Places DEF Turned, Done, Fits
      <3> HIDE DEF n
      <3> QED BY <3>1, <1>4, <1>6
    <2> HIDE DEF n
    <2>2. b + 1 \in Memory
      <3>1. 1 \in 0 .. Size[b] - 1
        BY <1>4, <1>6, <2>1
      <3> QED BY <3>1, Places
    <2>3. mem'[b + 1] = IF IsKnown(b) THEN Success ELSE Error
      BY <1>1, <1>6, <2>2 DEF Turned
    <2>4. \A a : a # b + 1 => mem'[a] = mem[a]
      BY <1>1
    <2>5. mem'[b + 4] = mem[b + 4] /\ mem'[b + n - 1] = mem[b + n - 1]
      <3>1. b + 4 # b + 1 /\ b + n - 1 # b + 1
        BY <1>1, <1>4, <1>6
      <3> QED BY <3>1, <2>4
    <2>6. ASSUME NEW i \in 1 .. 5 PROVE mem'[b + 4 + i] = mem[b + 4 + i]
      <3>1. b + 4 + i # b + 1
        BY <1>1
      <3> QED BY <3>1, <2>4
    <2>7. Done(b)'
      <3>1. Len(Layout(asked'[b])) = n
        BY <1>1 DEF n
      <3> QED BY <3>1, <1>2, <1>6, <2>5, <2>6 DEF Turned, Done, n
    <2> QED BY <2>3, <2>7, <1>2 DEF Tells
  <1> QED BY <1>3, <1>5, <1>6 DEF Turns

\* The VPU writes where it may.
LEMMA HandleOwned ==
  TypeOK /\ Inv /\ Owned /\ Content /\ (HandleTag \/ EndTags) => Owned' /\ Content'
  <1> SUFFICES ASSUME TypeOK, Inv, Owned, Content, HandleTag \/ EndTags PROVE Owned' /\ Content'
    OBVIOUS
  <1>1. \A b \in Buffers \ {msg.buf} : (Asks(b) => Asks(b)') /\ (Tells(b) => Tells(b)')
    BY HandleOthers, EndOthers
  <1>2. \A b \in Buffers : b = msg.buf => Turns(b)
    BY LoopMail DEF Content
  <1>3. vpu' = "tags" => HandleTag
    BY DEF EndTags
  <1>4. vpu' = "post" => EndTags
    BY DEF HandleTag
  <1> QED BY <1>1, <1>2, <1>3, <1>4, HandleOwn, EndOwn, LoopOwned

\* The reply goes to MAIL0, or is lost.
LEMMA PostOwned == TypeOK /\ Inv /\ Owned /\ Content /\ Post => Owned' /\ Content'
  <1> SUFFICES ASSUME TypeOK, Inv, Owned, Content, Post PROVE Owned' /\ Content'
    OBVIOUS
  <1>1. /\ vpu = "post" /\ vpu' \notin {"tags", "post"}
        /\ mail0' = Append(mail0, msg) \/ mail0' = mail0
        /\ UNCHANGED <<msg, mail1, mem, spoilt, arm, word, asked, inUse>>
    BY DEF Post, Inv, armVars
  <1>2. msg \in Requests /\ msg.buf \in Buffers /\ msg = Req(msg.buf) /\ Held(msg.buf)
    BY <1>1, ReqWords DEF Inv, Held
  <1>3. mail0 \in Seq(Words) /\ msg \in Words
    BY MailTypes
  <1>4. Once(mail0')
    <2>1. ~Has(mail0, msg)
      BY <1>2 DEF Owned, Back
    <2>2. Once(Append(mail0, msg))
      BY <2>1, <1>3, OnceAppend DEF Owned
    <2> QED BY <2>2, <1>1 DEF Owned
  <1>5. ASSUME NEW b \in Buffers
        PROVE  /\ Waits(b)' <=> Waits(b)
               /\ ~Held(b)'
               /\ Back(b)' => Back(b) \/ Held(b)
               /\ Asks(b)' <=> Asks(b)
               /\ Tells(b)' <=> Tells(b)
    <2>1. (Waits(b)' <=> Waits(b)) /\ ~Held(b)' /\ (Asks(b)' <=> Asks(b)) /\ (Tells(b)' <=> Tells(b))
      BY <1>1, SameContent DEF Waits, Held
    <2>2. Back(b)' => Back(b) \/ Held(b)
      <3>1. Has(Append(mail0, msg), Req(b)) => Has(mail0, Req(b)) \/ msg = Req(b)
        BY <1>3, HasAppend
      <3> QED BY <3>1, <1>1 DEF Back, Held
    <2> QED BY <2>1, <2>2
  <1>6. Owned'
    BY <1>1, <1>4, <1>5 DEF Owned
  <1>7. Content'
    <2>1. Asks(word.buf)' <=> Asks(word.buf)
      BY <1>1 DEF Asks, LaidOut, Fits
    <2> QED BY <2>1, <1>1, <1>5 DEF Content
  <1> QED BY <1>6, <1>7

\* The ARM's word goes to MAIL1, and its buffer is in use.
LEMMA WriteOwned == TypeOK /\ Inv /\ Owned /\ Content /\ WriteWord => Owned' /\ Content'
  <1> SUFFICES ASSUME TypeOK, Inv, Owned, Content, WriteWord PROVE Owned' /\ Content'
    OBVIOUS
  <1>1. /\ arm = "write" /\ arm' = "idle" /\ mail1' = Append(mail1, word)
        /\ inUse' = IF word \in Requests THEN inUse \cup {word.buf} ELSE inUse
        /\ UNCHANGED <<vpu, msg, mail0, mem, spoilt, position, error, word, asked>>
    BY DEF WriteWord, Inv, vpuVars
  <1>2. mail1 \in Seq(Words) /\ word \in Words
    BY MailTypes
  <1>3. word \in Requests => word.buf \in Buffers /\ word = Req(word.buf)
    BY ReqWords
  <1>4. word \in Requests => ~Waits(word.buf) /\ ~Held(word.buf) /\ ~Back(word.buf) /\ Asks(word.buf)
    BY <1>1, <1>3 DEF Owned, Content
  <1>5. Once(mail1')
    <2>1. word \in Requests => ~Has(mail1, word)
      BY <1>3, <1>4 DEF Waits
    <2>2. Once(Append(mail1, word))
      BY <2>1, <1>2, OnceAppend DEF Owned
    <2> QED BY <2>2, <1>1
  <1>6. ASSUME NEW b \in Buffers
        PROVE  /\ Waits(b)' => Waits(b) \/ (word \in Requests /\ b = word.buf)
               /\ Held(b)' <=> Held(b)
               /\ Back(b)' <=> Back(b)
               /\ Asks(b)' <=> Asks(b)
               /\ Turns(b)' <=> Turns(b)
               /\ Tells(b)' <=> Tells(b)
    <2>1. /\ Held(b)' <=> Held(b)
          /\ Back(b)' <=> Back(b)
          /\ Asks(b)' <=> Asks(b)
          /\ Turns(b)' <=> Turns(b)
          /\ Tells(b)' <=> Tells(b)
      BY <1>1, SameContent DEF Held, Back
    <2>2. Has(mail1', Req(b)) => Has(mail1, Req(b)) \/ word = Req(b)
      BY <1>1, <1>2, HasAppend
    <2>3. word = Req(b) => word \in Requests /\ b = word.buf
      BY <1>2, ReqWords
    <2> QED BY <2>1, <2>2, <2>3 DEF Waits
  <1>7. Owned'
    BY <1>1, <1>4, <1>5, <1>6 DEF Owned
  <1>8. Content'
    BY <1>1, <1>4, <1>6 DEF Content
  <1> QED BY <1>7, <1>8

\* The ARM has a reply, and its buffer back.
LEMMA CollectOwned == TypeOK /\ Inv /\ Owned /\ Content /\ CollectReply => Owned' /\ Content'
  <1> SUFFICES ASSUME TypeOK, Inv, Owned, Content, CollectReply PROVE Owned' /\ Content'
    OBVIOUS
  <1>1. /\ mail0 # <<>> /\ mail0' = Tail(mail0) /\ inUse' = inUse \ {Head(mail0).buf}
        /\ UNCHANGED <<vpu, msg, mail1, mem, spoilt, position, error, arm, word, asked>>
    BY DEF CollectReply, vpuVars
  <1>2. mail0 \in Seq(Words) /\ mail0 \in Seq(Requests)
    BY MailTypes
  <1>3. Head(mail0) \in Requests
    BY <1>1, <1>2
  <1>4. PICK c \in Buffers : Head(mail0) = Req(c) /\ Head(mail0).buf = c
    BY <1>3, ReqWords
  <1>5. /\ Has(mail0, Head(mail0)) /\ Once(mail0')
        /\ \A w \in Words : Has(mail0', w) => Has(mail0, w)
        /\ ~Has(mail0', Head(mail0))
    BY <1>1, <1>2, <1>3, TakeOut DEF Owned
  <1>6. mail0' \in Seq(Words)
    BY <1>1, <1>2
  <1>7. ASSUME NEW b \in Buffers
        PROVE  /\ Waits(b)' <=> Waits(b)
               /\ Held(b)' <=> Held(b)
               /\ Back(b)' => Back(b)
               /\ Asks(b)' <=> Asks(b)
               /\ Turns(b)' <=> Turns(b)
               /\ Tells(b)' <=> Tells(b)
    <2>1. /\ Waits(b)' <=> Waits(b)
          /\ Held(b)' <=> Held(b)
          /\ Asks(b)' <=> Asks(b)
          /\ Turns(b)' <=> Turns(b)
          /\ Tells(b)' <=> Tells(b)
      BY <1>1, SameContent DEF Waits, Held
    <2>2. Back(b)' => Back(b)
      BY <1>5, <1>6, HasWord DEF Back
    <2> QED BY <2>1, <2>2
  <1>8. Back(c) /\ ~Back(c)' /\ ~Waits(c) /\ ~Held(c)
    BY <1>4, <1>5 DEF Back, Owned
  <1>9. Owned'
    <2>1. ASSUME NEW b \in Buffers, Waits(b)' \/ Held(b)' \/ Back(b)' PROVE b \in inUse'
      <3>1. b # c
        BY <2>1, <1>7, <1>8
      <3>2. b \in inUse
        BY <2>1, <1>7 DEF Owned
      <3> QED BY <3>1, <3>2, <1>1, <1>4
    <2>2. arm' \in {"poll", "write"} /\ word' \in Requests => word'.buf \notin inUse'
      BY <1>1 DEF Owned
    <2>3. Once(mail1')
      BY <1>1 DEF Owned
    <2>4. \A b \in Buffers : (Waits(b)' => ~Held(b)' /\ ~Back(b)') /\ (Held(b)' => ~Back(b)')
      BY <1>7 DEF Owned
    <2> QED BY <2>1, <2>2, <2>3, <2>4, <1>5 DEF Owned
  <1>10. Content'
    <2>1. Asks(word.buf)' <=> Asks(word.buf)
      BY <1>1 DEF Asks, LaidOut, Fits
    <2> QED BY <2>1, <1>1, <1>7 DEF Content
  <1> QED BY <1>9, <1>10

\* A request is laid out in a buffer that is the ARM's.
LEMMA BeginOwned ==
  ASSUME NEW w \in Words, NEW m \in Messages, TypeOK, Inv, Owned, Content, BeginWrite(w, m)
  PROVE  Owned' /\ Content'
  <1>1. /\ arm' = "poll" /\ word' = w
        /\ UNCHANGED <<vpu, msg, mail1, mail0, position, error, inUse>>
        /\ w \notin Requests => UNCHANGED <<asked, mem, spoilt>>
    BY DEF BeginWrite, vpuVars
  <1>2. ASSUME w \in Requests
        PROVE  /\ w.buf \in Buffers /\ w.buf \notin inUse /\ Len(Layout(m)) <= Size[w.buf]
               /\ asked' = [asked EXCEPT ![w.buf] = m] /\ spoilt' = spoilt \ {w.buf}
               /\ mem' = Put(mem, w.buf, Layout(m))
    BY <1>2, ReqWords DEF BeginWrite
  <1>3. ASSUME NEW b \in Buffers
        PROVE  (Waits(b)' <=> Waits(b)) /\ (Held(b)' <=> Held(b)) /\ (Back(b)' <=> Back(b))
    BY <1>1 DEF Waits, Held, Back
  <1>4. Owned'
    BY <1>1, <1>2, <1>3 DEF Owned
  <1>5. w \in Requests => Asks(w.buf)'
    <2> SUFFICES ASSUME w \in Requests PROVE Asks(w.buf)'
      OBVIOUS
    <2>1. w.buf \in Buffers /\ Layout(m) \in Seq(Word32) /\ mem \in [Memory -> Word32]
      BY <1>2, LayoutType DEF TypeOK
    <2>2. asked'[w.buf] = m
      BY <1>2 DEF TypeOK
    <2>3. \A i \in 1 .. Len(Layout(m)) : mem'[w.buf + i - 1] = Layout(m)[i]
      BY <1>2, <2>1, PutReads
    <2> QED BY <1>2, <2>2, <2>3 DEF Asks, LaidOut, Fits
  <1>6. ASSUME NEW b \in Buffers, b \in inUse
        PROVE  (Asks(b) => Asks(b)') /\ (Turns(b) => Turns(b)') /\ (Tells(b) => Tells(b)')
    <2>1. CASE w \in Requests
      <3>1. b # w.buf /\ asked'[b] = asked[b] /\ (b \in spoilt => b \in spoilt')
        BY <1>2, <1>6, <2>1 DEF TypeOK
      <3>2. Layout(m) \in Seq(Word32) /\ mem \in [Memory -> Word32]
        BY <1>2, <2>1, LayoutType DEF TypeOK
      <3>3. \A j \in 0 .. Size[b] - 1 : mem'[b + j] = mem[b + j]
        BY <1>2, <2>1, <3>1, <3>2, PutReads
      <3>4. ASSUME Fits(b), NEW i \in 0 .. Len(Layout(asked[b])) - 1 PROVE mem'[b + i] = mem[b + i]
        <4>1. Len(Layout(asked[b])) \in Nat /\ Len(Layout(asked[b])) <= Size[b] /\ Size[b] \in Nat
          BY <3>4, LayoutType, Places DEF Fits, TypeOK
        <4>2. i \in 0 .. Size[b] - 1
          BY <4>1
        <4> QED BY <3>3, <4>2
      <3>5. UNCHANGED loopVars
        BY <1>1
      <3> QED BY <3>1, <3>4, <3>5, Untouched
    <2>2. CASE w \notin Requests
      BY <1>1, <2>2, SameContent
    <2> QED BY <2>1, <2>2
  <1>7. Content'
    <2>1. ASSUME NEW b \in Buffers
          PROVE  /\ Waits(b)' => Asks(b)'
                 /\ Held(b)' /\ vpu' = "tags" => Turns(b)'
                 /\ Held(b)' /\ vpu' = "post" => Tells(b)'
                 /\ Back(b)' => Tells(b)'
      BY <1>1, <1>3, <1>6 DEF Owned, Content
    <2> QED BY <2>1, <1>1, <1>5 DEF Content
  <1> QED BY <1>4, <1>7


\* Every step keeps the two.
LEMMA OwnedStep == TypeOK /\ Inv /\ Owned /\ Content /\ [Next]_vars => Owned' /\ Content'
  <1> SUFFICES ASSUME TypeOK, Inv, Owned, Content, [Next]_vars PROVE Owned' /\ Content'
    OBVIOUS
  <1> HIDE DEF TypeOK, Inv, Owned, Content
  <1>1. CASE \E w \in Words, m \in Messages : BeginWrite(w, m)
    BY <1>1, BeginOwned
  <1> QED BY <1>1, QuietOwned, ReadOwned, HandleOwned, PostOwned, WriteOwned, CollectOwned
          DEF Next, Handler, Sender, Client

\* At reset no request is anywhere.
LEMMA InitOwned == Init => Owned /\ Content
  <1> SUFFICES ASSUME Init PROVE Owned /\ Content
    OBVIOUS
  <1>1. Len(mail1) = 0 /\ Len(mail0) = 0 /\ vpu = "startArm" /\ arm = "off"
    BY DEF Init
  <1>2. \A b \in Buffers : ~Waits(b) /\ ~Held(b) /\ ~Back(b)
    BY <1>1 DEF Waits, Held, Back, Has
  <1>3. Once(mail1) /\ Once(mail0)
    BY <1>1 DEF Once
  <1> QED BY <1>1, <1>2, <1>3 DEF Owned, Content

\* All of it holds throughout.
LEMMA OwnedInvariant == Spec => [](TypeOK /\ Inv /\ Owned /\ Content)
  <1>1. Spec => [](Inv /\ TypeOK)
    BY Invariant, MonitorTypes, PTL
  <1> QED BY <1>1, InitOwned, OwnedStep, PTL DEF Spec

\* A request is in one place, MAIL1, the VPU's hand or MAIL0, and there once; and its
\* buffer is not the ARM's to write before it is back.
THEOREM OneOwner == Spec => []Owned
  BY OwnedInvariant, PTL

\* The words of a request that waits are those the ARM laid out, unless the VPU wrote into
\* them from another message: nothing else does, in whatever order the buffers are used.
THEOREM WordsKept == Spec => [](\A b \in Buffers \ spoilt : Waits(b) => LaidOut(b))
  <1>1. Content => \A b \in Buffers \ spoilt : Waits(b) => LaidOut(b)
    BY DEF Content, Asks
  <1> QED BY <1>1, OwnedInvariant, PTL

\* A reply to one tag that has room tells the truth, for any mailbox, any buffers one behind
\* the other, any tags in the other requests and any number of requests under way, as long
\* as none of those others was written over into its message.
THEOREM SingleTagTruthful == Spec => []SingleTagReply
  <1>1. TypeOK /\ Content => SingleTagReply
    <2> SUFFICES ASSUME TypeOK, Content, NEW b \in Buffers, b \notin spoilt, Replied(b), Modest(b)
                 PROVE  /\ mem[b + 1] = (IF IsKnown(b) THEN Success ELSE Error)
                        /\ mem[b + 4] = (IF IsKnown(b) THEN Handled ELSE 0)
                        /\ IsKnown(b) => \A i \in 1 .. 5 : mem[b + 4 + i] = Hash[i]
                        /\ mem[b + Len(Layout(asked[b])) - 1] = 0
      BY DEF SingleTagReply, Modest, IsKnown
    <2>1. Back(b)
      <3>1. mail0 \in Seq(Words)
        BY MailTypes
      <3>2. Req(b) \in ToSet(mail0)
        BY DEF Replied, Req
      <3>3. \E i \in 1 .. Len(mail0) : mail0[i] = Req(b)
        BY <3>1, <3>2 DEF ToSet
      <3> QED BY <3>3 DEF Back, Has
    <2>2. Tells(b)
      BY <2>1 DEF Content
    <2> QED BY <2>2 DEF Tells, Done
  <1> QED BY <1>1, OwnedInvariant, PTL

\* A request of one tag that has room never makes the VPU write into another message,
\* unless its own words were written over before.
THEOREM RoomyStaysInside == Spec => RoomyKeepsOut
  <1> DEFINE Out == \/ spoilt' \subseteq spoilt \/ msg.buf \in spoilt
                    \/ Len(asked[msg.buf]) # 1 \/ ~Roomy(asked[msg.buf][1])
  <1>1. ASSUME TypeOK, Inv, Owned, Content, HandleTag, NEW b \in Buffers, b = msg.buf,
               b \notin spoilt, Modest(b)
        PROVE  spoilt' = spoilt
    <2>1. Turns(b)
      BY <1>1, LoopMail DEF Content
    <2> DEFINE m == asked[b]
               n == Len(Layout(m))
    <2>2. m \in Messages /\ b \in Nat /\ position < mem[b] \div 4 /\ position \in Nat
      <3>1. position \in Nat
        BY <1>1, Basics DEF TypeOK, Word32
      <3>2. b \in Nat
        BY Places
      <3> QED BY <3>1, <3>2, <1>1 DEF HandleTag, InMessage, TypeOK
    <2>3. ~Turned(b)
      <3> SUFFICES ASSUME Turned(b) PROVE FALSE
        OBVIOUS
      <3>1. n \in Nat /\ mem[b] = 4 * n /\ position >= n
        BY <2>2, LayoutType DEF Turned, Done, Fits
      <3> HIDE DEF n
      <3> QED BY <2>2, <3>1, Division
    <2>4. position = 2 /\ LaidOut(b)
      BY <1>1, <2>1, <2>3 DEF Turns
    <2>5. CASE ~IsKnown(b)
      <3>1. n = 6 + m[1].words /\ m[1].words \in Nat
        <4> HIDE DEF n
        <4> QED BY <2>2, <1>1, ModestLayout DEF Modest, n
      <3>2. n <= Size[b] /\ Size[b] \in Nat /\ Size[b] + 16 <= Wrap \div 4
            /\ b + Size[b] + 16 <= Wrap \div 4
        BY <2>4, Places DEF LaidOut, Fits
      <3>3. mem[b + 2] = m[1].tag
        <4>1. Layout(m)[3] = m[1].tag
          BY <2>2, <1>1, OneTagLayout DEF Modest
        <4>2. 3 \in 1 .. n /\ b + 3 - 1 = b + 2
          <5> HIDE DEF n, m
          <5> QED BY <3>1, <2>2
        <4> QED BY <4>1, <4>2, <2>4 DEF LaidOut
      <3>4. b + 2 \in Memory /\ b + 2 \in 0 .. (Wrap \div 4) - 1
        <4> HIDE DEF n, m
        <4>1. 2 \in 0 .. Size[b] - 1
          BY <3>1, <3>2
        <4>2. b + 2 \in 0 .. (Wrap \div 4) - 1
          BY <3>1, <3>2, <2>2, Division
        <4> QED BY <4>1, <4>2, Places
      <3>5. At(b, 2) = b + 2
        BY <3>4, Division DEF At
      <3>6. Found(At(msg.buf, position)) = {m[1].tag}
        BY <1>1, <2>4, <3>3, <3>4, <3>5 DEF Found
      <3>7. ~Known(m[1].tag)
        BY <2>5 DEF Known, IsKnown
      <3> QED BY <1>1, <3>6, <3>7 DEF HandleTag
    <2>6. CASE IsKnown(b)
      <3>1. Reached = {}
        <4> SUFFICES ASSUME NEW c \in Buffers, c # b, NEW a \in c .. c + Size[c] - 1,
                            OfPacket(a, b, 2) \in 2 .. 7
                     PROVE  FALSE
          BY <1>1, <2>4 DEF Reached, WordsOf
        <4>1. 11 <= Size[b] /\ Size[b] \in Nat /\ b + Size[b] + 16 <= Wrap \div 4
          <5>1. n = 6 + m[1].words /\ m[1].words \in Nat /\ m[1].words >= 5
            <6> HIDE DEF n
            <6> QED BY <2>2, <2>6, <1>1, ModestLayout DEF Modest, IsKnown, n
          <5>2. n <= Size[b] /\ Size[b] \in Nat /\ b + Size[b] + 16 <= Wrap \div 4
            BY <2>4, Places DEF LaidOut, Fits
          <5> HIDE DEF n, m
          <5> QED BY <5>1, <5>2
        <4>2. c \in Nat /\ Size[c] \in Nat /\ c + Size[c] + 16 <= Wrap \div 4
          BY Places
        <4> DEFINE M == Wrap \div 4
                   j == a - c
        <4>3. M \in Nat /\ M > 500 - 1
          BY Division
        <4>4. OfPacket(a, b, 2) = (a - b - 2) % M
          BY DEF OfPacket
        <4> HIDE DEF M, n, m
        <4>5. a \in Nat /\ j \in 0 .. Size[c] - 1 /\ a = c + j /\ a < M /\ b + Size[b] + 16 <= M
          <5>1. ASSUME NEW z \in Nat, NEW x \in c .. c + z - 1
                PROVE  x \in Nat /\ x - c \in 0 .. z - 1 /\ x = c + (x - c) /\ x < c + z
            BY <4>2
          <5>2. a \in Nat /\ j \in 0 .. Size[c] - 1 /\ a = c + j /\ a < c + Size[c]
            BY <4>2, <5>1
          <5>3. c + Size[c] + 16 <= M /\ b + Size[b] + 16 <= M
            BY <4>1, <4>2 DEF M
          <5> HIDE DEF j
          <5> QED BY <4>2, <4>3, <5>2, <5>3
        <4>6. CASE a - b - 2 >= 0
          <5>1. ASSUME NEW x \in 0 .. M - 1 PROVE x % M = x
            BY <5>1, <4>3
          <5>2. a - b - 2 \in 0 .. M - 1
            BY <4>5, <4>6, <2>2, <4>3
          <5>3. a - b - 2 \in 2 .. 7
            BY <5>1, <5>2, <4>4
          <5>4. a - b \in 0 .. Size[b] - 1 /\ b + (a - b) = c + j
            BY <5>3, <4>1, <4>5, <2>2
          <5> HIDE DEF j
          <5> QED BY <5>4, <4>5, Apart
        <4>7. CASE a - b - 2 < 0
          <5>1. ASSUME NEW x \in Int, 0 - M < x, x < 0 PROVE x % M = x + M
            BY <5>1, <4>3
          <5>2. a - b - 2 \in Int /\ 0 - M < a - b - 2 /\ (a - b - 2) + M > 7
            BY <4>1, <4>5, <2>2, <4>3
          <5>3. (a - b - 2) % M = (a - b - 2) + M
            BY <5>1, <5>2, <4>7
          <5> QED BY <5>2, <5>3, <4>4
        <4> QED BY <4>5, <4>6, <4>7, <2>2
      <3> QED BY <1>1, <3>1 DEF HandleTag
    <2> QED BY <2>5, <2>6
  <1>2. ASSUME TypeOK, Inv, Owned, Content, [Next]_vars PROVE Out
    <2>1. CASE HandleTag
      <3>1. PICK b \in Buffers : b = msg.buf
        <4>1. msg \in Words
          BY <1>2 DEF TypeOK
        <4> QED BY <4>1, WordParts
      <3> QED BY <1>1, <1>2, <2>1, <3>1 DEF Modest
    <2>2. CASE \E w \in Words, x \in Messages : BeginWrite(w, x)
      BY <2>2 DEF BeginWrite
    <2>3. CASE ~HandleTag /\ ~(\E w \in Words, x \in Messages : BeginWrite(w, x))
      <3>1. spoilt' = spoilt
        BY <1>2, <2>3 DEF Next, Startup, StartArm, EnableInterrupts, EnableMailIrq, Handler, TakeIrq,
             DispatchTimer, AckTimer, DispatchStranger, ReadMail, EndTags, Post, Sender, PollFull,
             WriteWord, Client, CollectReply, Tick, RaiseStranger, vars
      <3> QED BY <3>1
    <2> QED BY <2>1, <2>2, <2>3
  <1>3. TypeOK /\ Inv /\ Owned /\ Content /\ [Next]_vars => [Out]_vars
    BY <1>2
  <1> QED BY <1>3, OwnedInvariant, PTL DEF Spec, RoomyKeepsOut

-----------------------------------------------------------------------------
(* No reply is lost where MAIL0 has room for all the buffers: the safety half of *)
(* Answered.                                                                      *)

\* A buffer in use has its request somewhere.
Accounted == \A b \in inUse : Waits(b) \/ Held(b) \/ Back(b)

\* Requests that are all different, and different from r, leave room for r.
LEMMA RoomForReply ==
  ASSUME NEW s \in Seq(Requests), Once(s), NEW r \in Requests, ~Has(s, r),
         IsFiniteSet(Buffers), Cardinality(Buffers) <= Depth
  PROVE  Len(s) < Depth
  <1> DEFINE f == [i \in 1 .. Len(s) |-> s[i].buf]
             T == Buffers \ {r.buf}
  <1>1. Len(s) \in Nat /\ \A i \in 1 .. Len(s) : s[i] \in Requests
    OBVIOUS
  <1>2. ASSUME NEW i \in 1 .. Len(s) PROVE s[i].buf \in T
    <2>1. s[i] = Req(s[i].buf) /\ s[i].buf \in Buffers /\ r = Req(r.buf)
      BY <1>1, ReqWords
    <2>2. s[i] # r
      BY DEF Has
    <2> QED BY <2>1, <2>2
  <1>3. ASSUME NEW i \in 1 .. Len(s), NEW j \in 1 .. Len(s), s[i].buf = s[j].buf PROVE i = j
    <2>1. s[i] = Req(s[i].buf) /\ s[j] = Req(s[j].buf) /\ s[i] \in Requests
      BY <1>1, ReqWords
    <2>2. s[i] = s[j]
      BY <2>1, <1>3
    <2> QED BY <2>1, <2>2 DEF Once
  <1>4. f \in Injection(1 .. Len(s), T)
    <2>1. f \in [1 .. Len(s) -> T]
      <3> HIDE DEF T
      <3> QED BY <1>2
    <2>2. IsInjective(f)
      BY <1>3 DEF IsInjective
    <2> QED BY <2>1, <2>2 DEF Injection
  <1>5. r.buf \in Buffers
    BY ReqWords
  <1>6. IsFiniteSet(T) /\ Cardinality(T) = Cardinality(Buffers) - 1
    BY <1>5, FS_RemoveElement
  <1> HIDE DEF f, T
  <1>7. Cardinality(1 .. Len(s)) <= Cardinality(T)
    BY <1>4, <1>6, FS_Injection
  <1>8. Cardinality(1 .. Len(s)) = Len(s)
    <2>1. 1 \in Int /\ Len(s) \in Int
      BY <1>1
    <2>2. Cardinality(1 .. Len(s)) = IF 1 > Len(s) THEN 0 ELSE Len(s) - 1 + 1
      BY <2>1, FS_Interval
    <2> QED BY <2>2, <1>1
  <1>9. Cardinality(Buffers) \in Nat /\ Depth \in Nat
    BY Basics, FS_CardinalityType
  <1> QED BY <1>1, <1>6, <1>7, <1>8, <1>9



\* Steps of a kind: no request leaves its place.
LEMMA QuietAccounted ==
  ASSUME Accounted, UNCHANGED <<mail1, mail0, msg>>, inUse' \subseteq inUse,
         vpu \in {"tags", "post"} => vpu' \in {"tags", "post"}
  PROVE  Accounted'
  BY DEF Accounted, Waits, Held, Back

\* With room for every reply no step loses a request.
LEMMA AccountedStep ==
  ASSUME IsFiniteSet(Buffers), Cardinality(Buffers) <= Depth,
         TypeOK, Inv, Owned, Accounted, [Next]_vars
  PROVE  Accounted'
  <1> HIDE DEF Owned, TypeOK, Inv, Accounted
  <1> USE DEF vpuVars, irqVars, armVars
  <1>1. inUse \subseteq Buffers
    BY DEF TypeOK
  <1>2. CASE Startup
    BY <1>2, QuietAccounted DEF Startup, StartArm, EnableInterrupts, EnableMailIrq
  <1>3. CASE TakeIrq \/ DispatchTimer \/ AckTimer \/ DispatchStranger \/ HandleTag \/ EndTags
    BY <1>3, QuietAccounted DEF TakeIrq, DispatchTimer, AckTimer, DispatchStranger, HandleTag, EndTags
  <1>4. CASE PollFull \/ Tick \/ RaiseStranger \/ UNCHANGED vars
    BY <1>4, QuietAccounted DEF PollFull, Tick, RaiseStranger, vars
  <1>5. CASE \E w \in Words, m \in Messages : BeginWrite(w, m)
    BY <1>5, QuietAccounted DEF BeginWrite
  <1>6. CASE ReadMail
    <2>1. /\ mail1 \in Seq(Words) /\ mail1 # <<>> /\ msg' = Head(mail1) /\ mail1' = Tail(mail1)
          /\ vpu = "irq" /\ (msg'.chan = 8 => vpu' = "tags")
          /\ UNCHANGED <<mail0, inUse>>
      BY <1>6, MailTypes DEF ReadMail, MailIrq
    <2>2. ASSUME NEW b \in Buffers, Waits(b) PROVE Waits(b)' \/ Held(b)'
      <3>1. Has(Tail(mail1), Req(b)) \/ Head(mail1) = Req(b)
        BY <2>1, <2>2, HasTail DEF Waits
      <3>2. Req(b).chan = 8
        BY DEF Req
      <3> QED BY <3>1, <3>2, <2>1 DEF Waits, Held
    <2>3. ASSUME NEW b \in Buffers PROVE ~Held(b) /\ (Back(b)' <=> Back(b))
      BY <2>1 DEF Held, Back
    <2> QED BY <1>1, <2>1, <2>2, <2>3 DEF Accounted
  <1>7. CASE Post
    <2>1. vpu = "post" /\ msg \in Requests /\ msg.buf \in Buffers /\ msg = Req(msg.buf)
      BY <1>7, ReqWords DEF Post, Inv
    <2>2. mail0 \in Seq(Requests) /\ mail0 \in Seq(Words) /\ msg \in Words
      BY MailTypes
    <2>3. ~Has(mail0, msg) /\ Once(mail0)
      BY <2>1 DEF Owned, Held, Back
    <2>4. Len(mail0) < Depth
      BY <2>1, <2>2, <2>3, RoomForReply
    <2>5. mail0' = Append(mail0, msg) /\ UNCHANGED <<mail1, inUse>>
      BY <1>7, <2>4 DEF Post
    <2>6. ASSUME NEW b \in Buffers
          PROVE  (Waits(b)' <=> Waits(b)) /\ (Held(b) => Back(b)') /\ (Back(b) => Back(b)')
      <3>1. Has(mail0', Req(b)) <=> Has(mail0, Req(b)) \/ msg = Req(b)
        BY <2>2, <2>5, HasAppend
      <3> QED BY <3>1, <2>5 DEF Waits, Held, Back
    <2> QED BY <1>1, <2>5, <2>6 DEF Accounted
  <1>8. CASE WriteWord
    <2>1. /\ mail1' = Append(mail1, word) /\ UNCHANGED <<mail0, msg, vpu>>
          /\ inUse' = IF word \in Requests THEN inUse \cup {word.buf} ELSE inUse
      BY <1>8 DEF WriteWord, Inv
    <2>2. mail1 \in Seq(Words) /\ word \in Words
      BY MailTypes
    <2>3. ASSUME NEW b \in Buffers
          PROVE  (Waits(b) => Waits(b)') /\ (Held(b)' <=> Held(b)) /\ (Back(b)' <=> Back(b))
      <3>1. Has(mail1', Req(b)) <=> Has(mail1, Req(b)) \/ word = Req(b)
        BY <2>1, <2>2, HasAppend
      <3> QED BY <3>1, <2>1 DEF Waits, Held, Back
    <2>4. ASSUME word \in Requests, NEW b, b = word.buf PROVE Waits(b)'
      <3>1. word = Req(b)
        BY <2>4, ReqWords
      <3>2. Has(mail1', Req(b))
        BY <3>1, <2>1, <2>2, HasAppend
      <3> QED BY <3>2 DEF Waits
    <2> QED BY <1>1, <2>1, <2>3, <2>4 DEF Accounted
  <1>9. CASE CollectReply
    <2>1. /\ mail0 # <<>> /\ mail0' = Tail(mail0) /\ inUse' = inUse \ {Head(mail0).buf}
          /\ UNCHANGED <<vpu, msg, mail1>>
      BY <1>9 DEF CollectReply
    <2>2. mail0 \in Seq(Words)
      BY MailTypes
    <2>3. ASSUME NEW b \in Buffers, b # Head(mail0).buf
          PROVE  (Waits(b)' <=> Waits(b)) /\ (Held(b)' <=> Held(b)) /\ (Back(b) => Back(b)')
      <3>1. Head(mail0) # Req(b)
        BY <2>3, ReqWords
      <3>2. Has(mail0, Req(b)) => Has(Tail(mail0), Req(b))
        BY <3>1, <2>1, <2>2, HasTail
      <3> QED BY <3>2, <2>1 DEF Waits, Held, Back
    <2> QED BY <1>1, <2>1, <2>3 DEF Accounted
  <1> QED BY <1>2, <1>3, <1>4, <1>5, <1>6, <1>7, <1>8, <1>9 DEF Next, Handler, Sender, Client

\* Where MAIL0 has room for a reply of every buffer, no reply is lost: a request that
\* write_word has sent is in a mailbox or in the VPU's hand until its reply is collected.
THEOREM NoReplyLost ==
  ASSUME IsFiniteSet(Buffers), Cardinality(Buffers) <= Depth
  PROVE  Spec => []Accounted
  <1>1. Init => Accounted
    BY DEF Init, Accounted
  <1>2. TypeOK /\ Inv /\ Owned /\ Accounted /\ [Next]_vars => Accounted'
    BY AccountedStep
  <1> QED BY <1>1, <1>2, OwnedInvariant, PTL DEF Spec
=============================================================================
