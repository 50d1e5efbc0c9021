-------------------------- MODULE RecvWindowProofs --------------------------
(***************************************************************************)
(* Proofs about the receive reordering buffer (RecvReorder.tla).           *)
(*                                                                         *)
(* Type correctness holds with every event.  The rest is about a session   *)
(* that nothing disturbs (Events = {}), which is where the code promises   *)
(* order: for every even M, every window and every gap with                *)
(* 2 * W + Gap <= M \div 2, and numbers that wrap any number of times.     *)
(*                                                                         *)
(* The code sees sequence numbers, the properties speak of frames.  The    *)
(* argument has three layers:                                              *)
(*   - arithmetic: on frames less than half the sequence space apart,      *)
(*     SN_LESS, Minus and check_indicate_seq do what <, - and a sliding    *)
(*     window do on the frames' numbers (LessIsBefore .. CheckIsWindow);   *)
(*   - loops: on a sorted list of such frames, enqueue_reorder_recvframe   *)
(*     inserts and recv_indicatepkts_in_order splits at a window start     *)
(*     (InsertSorted, IndicateSorted, Deliver);                            *)
(*   - the invariant WindowInv: WinStart stands for a frame v, everything  *)
(*     passed on is before v and everything pending after it, and what     *)
(*     the peer may still send is close enough to v for the arithmetic.    *)
(*                                                                         *)
(* The loops are recursive functions.  Induction along them is by the      *)
(* least element of a set (LeastNat of FiniteSums).                        *)
(***************************************************************************)
EXTENDS RecvReorder, FiniteSums, TLAPS

-----------------------------------------------------------------------------
(* Sequence numbers                                                        *)

Half == M \div 2

\* What the assumptions on the constants say about half the sequence space.
LEMMA Constants ==
    /\ M \in Nat \ {0} /\ Half \in Nat /\ M = 2 * Half
    /\ W \in Nat \ {0} /\ Gap \in Nat /\ 2 * W + Gap <= Half
    /\ Start \in Nat /\ Last \in Nat
    /\ Unset \in Nat /\ Unset >= M
<1>1. M \in Nat /\ M % 2 = 0 /\ W \in Nat \ {0} /\ Gap \in Nat
      /\ 2 * W + Gap <= M \div 2 /\ Start \in Nat /\ Last \in Nat
    BY RecvReorderAssumption
<1>2. Half \in Nat /\ M = 2 * Half
    BY <1>1 DEF Half
<1>3. M # 0
    BY <1>1, <1>2 DEF Half
<1> QED BY <1>1, <1>2, <1>3 DEF Half, Unset

\* A sequence number is below M.
LEMMA SNType ==
    ASSUME NEW n \in Nat PROVE SN(n) \in 0 .. M - 1
BY Constants DEF SN

\* Quotient and remainder determine each other.
LEMMA SNUnique ==
    ASSUME NEW n \in Nat, NEW k \in Int, NEW r \in 0 .. M - 1, n = M * k + r
    PROVE  SN(n) = r
<1> DEFINE x == n \div M
<1>1. /\ n = M * x + (n % M) /\ x \in Int /\ n % M \in 0 .. M - 1
      /\ M \in Nat \ {0}
    BY Constants
<1> HIDE DEF x
<1>2. CASE x = k
    BY <1>1, <1>2 DEF SN
<1>3. CASE x >= k + 1
  <2>1. M * x >= M * (k + 1) /\ M * (k + 1) = M * k + M
      BY <1>1, <1>3
  <2> QED BY <1>1, <2>1
<1>4. CASE k >= x + 1
  <2>1. M * k >= M * (x + 1) /\ M * (x + 1) = M * x + M
      BY <1>1, <1>4
  <2> QED BY <1>1, <2>1
<1> QED BY <1>1, <1>2, <1>3, <1>4

\* The distance of two sequence numbers is that of the frames, if those are
\* less than the sequence space apart.
LEMMA MinusIsDistance ==
    ASSUME NEW a \in Nat, NEW b \in Nat, a - b < M, b - a < M
    PROVE  Minus(SN(a), SN(b)) = IF a >= b THEN a - b ELSE a - b + M
<1> DEFINE x == a \div M
           y == b \div M
<1>1. /\ a = M * x + (a % M) /\ b = M * y + (b % M)
      /\ x \in Nat /\ y \in Nat /\ M \in Nat \ {0}
      /\ a % M \in 0 .. M - 1 /\ b % M \in 0 .. M - 1
    BY Constants
<1> HIDE DEF x, y
<1>2. CASE x = y
    BY <1>1, <1>2 DEF Minus, SN
<1>3. CASE x = y + 1
    BY <1>1, <1>3 DEF Minus, SN
<1>4. CASE y = x + 1
    BY <1>1, <1>4 DEF Minus, SN
<1>5. CASE x >= y + 2
  <2>1. M * x >= M * (y + 2) /\ M * (y + 2) = M * y + 2 * M
      BY <1>5, <1>1
  <2> QED BY <2>1, <1>1
<1>6. CASE y >= x + 2
  <2>1. M * y >= M * (x + 2) /\ M * (x + 2) = M * x + 2 * M
      BY <1>6, <1>1
  <2> QED BY <2>1, <1>1
<1> QED BY <1>1, <1>2, <1>3, <1>4, <1>5, <1>6

\* SN_LESS compares frames that are less than half the sequence space apart.
LEMMA LessIsBefore ==
    ASSUME NEW a \in Nat, NEW b \in Nat, a - b < Half, b - a <= Half
    PROVE  SN_LESS(SN(a), SN(b)) <=> a < b
<1>1. a - b < M /\ b - a < M
    BY Constants
<1> QED BY <1>1, Constants, MinusIsDistance DEF SN_LESS, Half

\* Frames of one window have different sequence numbers.
LEMMA SNInjective ==
    ASSUME NEW a \in Nat, NEW b \in Nat, a - b < M, b - a < M
    PROVE  SN(a) = SN(b) <=> a = b
<1>1. SN(a) = SN(b) => Minus(SN(a), SN(b)) = 0
    BY SNType, Constants DEF Minus
<1> QED BY <1>1, MinusIsDistance, Constants

\* Adding to a sequence number, with the wrap.
LEMMA SNPlus ==
    ASSUME NEW a \in Nat, NEW d \in Nat
    PROVE  (SN(a) + d) % M = SN(a + d)
<1> DEFINE x == a \div M
           y == (SN(a) + d) \div M
           r == (SN(a) + d) % M
<1>1. a = M * x + SN(a) /\ x \in Int /\ M \in Nat \ {0}
    BY Constants DEF SN
<1>2. SN(a) \in Nat
    BY SNType, Constants
<1>3. SN(a) + d = M * y + r /\ y \in Int /\ r \in 0 .. M - 1
  <2>1. ASSUME NEW b \in Nat
        PROVE  /\ b = M * (b \div M) + (b % M) /\ b \div M \in Int
               /\ b % M \in 0 .. M - 1
      BY <1>1
  <2>2. SN(a) + d \in Nat
      BY <1>2
  <2> QED BY <2>1, <2>2
<1> HIDE DEF x, y, r
<1>4. M * (x + y) = M * x + M * y /\ x + y \in Int
    BY <1>1, <1>3
<1>5. a + d = M * (x + y) + r
    BY <1>1, <1>2, <1>3, <1>4
<1>6. SN(a + d) = r
    BY <1>3, <1>4, <1>5, SNUnique
<1> QED BY <1>6 DEF r

\* (seq + 1) & 0xFFF
LEMMA SNNext ==
    ASSUME NEW a \in Nat PROVE Next_seq(SN(a)) = SN(a + 1)
<1> DEFINE x == a \div M
<1>1. a = M * x + SN(a) /\ x \in Int /\ M \in Nat \ {0}
    BY Constants DEF SN
<1>2. SN(a) \in 0 .. M - 1
    BY SNType
<1> HIDE DEF x
<1>3. CASE SN(a) + 1 = M
  <2>1. M * (x + 1) = M * x + M /\ x + 1 \in Int
      BY <1>1
  <2>2. a + 1 = M * (x + 1) + 0 /\ 0 \in 0 .. M - 1
      BY <1>1, <1>2, <1>3, <2>1
  <2>3. SN(a + 1) = 0
      BY <2>1, <2>2, SNUnique
  <2> QED BY <1>3, <2>3 DEF Next_seq
<1>4. CASE SN(a) + 1 # M
  <2>1. a + 1 = M * x + (SN(a) + 1) /\ SN(a) + 1 \in 0 .. M - 1
      BY <1>1, <1>2, <1>4
  <2>2. a + 1 \in Nat
      OBVIOUS
  <2>3. SN(a + 1) = SN(a) + 1
      BY <1>1, <2>1, <2>2, SNUnique
  <2> QED BY <1>4, <2>3 DEF Next_seq
<1> QED BY <1>3, <1>4

\* Where the window starts whose last frame is a.
LEMMA SNMinus ==
    ASSUME NEW a \in Nat, NEW d \in 0 .. M - 1, d <= a
    PROVE  Minus(SN(a), d) = SN(a - d)
<1> DEFINE x == a \div M
<1>1. a = M * x + SN(a) /\ x \in Int /\ M \in Nat \ {0}
    BY Constants DEF SN
<1>2. SN(a) \in 0 .. M - 1
    BY SNType
<1> HIDE DEF x
<1>3. CASE SN(a) >= d
  <2>1. a - d = M * x + (SN(a) - d) /\ SN(a) - d \in 0 .. M - 1
      BY <1>1, <1>2, <1>3
  <2>2. SN(a - d) = SN(a) - d
      BY <1>1, <2>1, SNUnique
  <2> QED BY <1>3, <2>2 DEF Minus
<1>4. CASE ~(SN(a) >= d)
  <2>1. M * (x - 1) = M * x - M /\ x - 1 \in Int
      BY <1>1
  <2>2. a - d = M * (x - 1) + (SN(a) - d + M) /\ SN(a) - d + M \in 0 .. M - 1
      BY <1>1, <1>2, <1>4, <2>1
  <2>3. SN(a - d) = SN(a) - d + M
      BY <2>1, <2>2, SNUnique
  <2> QED BY <1>4, <2>3 DEF Minus
<1> QED BY <1>3, <1>4

-----------------------------------------------------------------------------
(* The loops over the pending list                                         *)

\* One turn of the loop of recv_indicatepkts_in_order: WinStart w meets frame n.
Turn(w, n) == IF w = SN(n) THEN Next_seq(w) ELSE w

\* WinAfter is what its recursive definition says: by induction on the length,
\* a function that satisfies it on 0 .. m exists, and extends to m + 1.
LEMMA WinAfterDef ==
    ASSUME NEW q, NEW w, Len(q) \in Nat
    PROVE  WinAfter(q, w) = [i \in 0 .. Len(q) |->
               IF i = 0 THEN w ELSE Turn(WinAfter(q, w)[i - 1], q[i])]
<1> DEFINE Solves(f, m) ==
              f = [i \in 0 .. m |-> IF i = 0 THEN w ELSE Turn(f[i - 1], q[i])]
           Good == {m \in Nat : \E f : Solves(f, m)}
<1>1. \E f : Solves(f, 0)
  <2>1. Solves([i \in 0 .. 0 |-> w], 0)
      OBVIOUS
  <2> QED BY <2>1
<1>2. ASSUME NEW m \in Nat, NEW f, Solves(f, m) PROVE \E g : Solves(g, m + 1)
  <2> DEFINE g == [i \in 0 .. m + 1 |->
                     IF i = m + 1 THEN Turn(f[m], q[m + 1]) ELSE f[i]]
  <2>1. \A i \in 0 .. m : g[i] = f[i]
      OBVIOUS
  <2>2. ASSUME NEW i \in 0 .. m + 1
        PROVE  g[i] = IF i = 0 THEN w ELSE Turn(g[i - 1], q[i])
    <3>1. CASE i = m + 1
      <4>1. g[m] = f[m] /\ i - 1 = m /\ i # 0
          BY <3>1
      <4> QED BY <3>1, <4>1
    <3>2. CASE i \in 0 .. m
      <4>1. f[i] = IF i = 0 THEN w ELSE Turn(f[i - 1], q[i])
          BY <1>2, <3>2
      <4>2. i # 0 => g[i - 1] = f[i - 1]
          BY <3>2
      <4> QED BY <2>1, <3>2, <4>1, <4>2
    <3> QED BY <3>1, <3>2
  <2>3. Solves(g, m + 1)
    <3> DEFINE h == [i \in 0 .. m + 1 |->
                       IF i = 0 THEN w ELSE Turn(g[i - 1], q[i])]
    <3>1. \A i \in 0 .. m + 1 : g[i] = h[i]
        BY <2>2
    <3>2. g = h
        BY <3>1
    <3> QED BY <3>2
  <2> QED BY <2>3
<1> HIDE DEF Solves
<1>3. 0 \in Good
    BY <1>1
<1>4. \E f : Solves(f, Len(q))
  <2>1. \A i \in 0 .. Len(q) - 1 : i \in Good => i + 1 \in Good
      BY <1>2
  <2> HIDE DEF Good
  <2>2. \A i \in 0 .. Len(q) : i \in Good
      BY <1>3, <2>1, SetInduction
  <2>3. Len(q) \in Good
      BY <2>2
  <2> QED BY <2>3 DEF Good
<1>5. WinAfter(q, w) = CHOOSE g : Solves(g, Len(q))
    BY DEF WinAfter, Turn, Solves
<1>6. Solves(WinAfter(q, w), Len(q))
    BY <1>4, <1>5
<1> QED BY <1>6 DEF Solves

\* The first value of WinAfter, and how each follows from the one before.
LEMMA WinAfterStep ==
    ASSUME NEW q, NEW w, Len(q) \in Nat
    PROVE  /\ WinAfter(q, w)[0] = w
           /\ \A i \in 0 .. Len(q) - 1 :
                 WinAfter(q, w)[i + 1] = Turn(WinAfter(q, w)[i], q[i + 1])
<1> DEFINE f == WinAfter(q, w)
<1>1. f = [i \in 0 .. Len(q) |-> IF i = 0 THEN w ELSE Turn(f[i - 1], q[i])]
    BY WinAfterDef
<1> HIDE DEF f
<1>2. f[0] = w
    BY <1>1
<1>3. ASSUME NEW i \in 0 .. Len(q) - 1 PROVE f[i + 1] = Turn(f[i], q[i + 1])
  <2>1. i + 1 \in 0 .. Len(q) /\ i + 1 # 0 /\ (i + 1) - 1 = i
      OBVIOUS
  <2> QED BY <1>1, <2>1
<1> QED BY <1>2, <1>3 DEF f

\* WinStart stays a sequence number.
LEMMA WinAfterType ==
    ASSUME NEW q \in Seq(Nat), NEW w \in 0 .. M - 1
    PROVE  \A i \in 0 .. Len(q) : WinAfter(q, w)[i] \in 0 .. M - 1
<1> DEFINE S == {i \in 0 .. Len(q) : WinAfter(q, w)[i] \in 0 .. M - 1}
<1>1. Len(q) \in Nat
    OBVIOUS
<1>2. 0 \in S
    BY <1>1, WinAfterStep
<1>3. ASSUME NEW i \in 0 .. Len(q) - 1, i \in S PROVE i + 1 \in S
  <2>1. WinAfter(q, w)[i + 1] = Turn(WinAfter(q, w)[i], q[i + 1])
      BY <1>1, WinAfterStep
  <2>2. WinAfter(q, w)[i] \in 0 .. M - 1
      BY <1>3
  <2>3. ASSUME NEW x \in 0 .. M - 1, NEW n PROVE Turn(x, n) \in 0 .. M - 1
      BY Constants DEF Turn, Next_seq
  <2> QED BY <1>1, <2>1, <2>2, <2>3
<1> HIDE DEF S
<1>4. \A i \in 0 .. Len(q) : i \in S
    BY <1>1, <1>2, <1>3, SetInduction
<1> QED BY <1>4 DEF S

\* The loop stops at the first frame ahead of WinStart, or at the end.
LEMMA IndicatedSpec ==
    ASSUME NEW q, NEW w, Len(q) \in Nat
    PROVE  LET k == Indicated(q, w) IN
           /\ k \in 0 .. Len(q)
           /\ \A i \in 1 .. k : ~SN_LESS(WinAfter(q, w)[i - 1], SN(q[i]))
           /\ k < Len(q) => SN_LESS(WinAfter(q, w)[k], SN(q[k + 1]))
<1> DEFINE S == {i \in 1 .. Len(q) : ~SN_LESS(WinAfter(q, w)[i - 1], SN(q[i]))}
           P(k) == /\ \A i \in 1 .. k :
                         ~SN_LESS(WinAfter(q, w)[i - 1], SN(q[i]))
                   /\ k < Len(q) => SN_LESS(WinAfter(q, w)[k], SN(q[k + 1]))
<1>1. PICK k \in 0 .. Len(q) : (\A i \in 1 .. k : i \in S)
                               /\ (k < Len(q) => k + 1 \notin S)
    BY FirstOutside
<1>2. P(k)
  <2>1. \A i \in 1 .. k : ~SN_LESS(WinAfter(q, w)[i - 1], SN(q[i]))
      BY <1>1
  <2>2. ASSUME k < Len(q) PROVE SN_LESS(WinAfter(q, w)[k], SN(q[k + 1]))
    <3>1. k + 1 \in 1 .. Len(q) /\ (k + 1) - 1 = k
        BY <2>2
    <3> QED BY <1>1, <2>2, <3>1
  <2> QED BY <2>1, <2>2
<1>3. Indicated(q, w) = CHOOSE i \in 0 .. Len(q) : P(i)
    BY DEF Indicated
<1> HIDE DEF P
<1>4. Indicated(q, w) \in 0 .. Len(q) /\ P(Indicated(q, w))
    BY <1>2, <1>3
<1> QED BY <1>4 DEF P

\* A frame is inserted before the first pending frame that is not behind it.
LEMMA BeforeSpec ==
    ASSUME NEW q, NEW n, Len(q) \in Nat
    PROVE  LET k == Before(q, n) IN
           /\ k \in 0 .. Len(q)
           /\ \A i \in 1 .. k : SN_LESS(SN(q[i]), SN(n))
           /\ k < Len(q) => ~SN_LESS(SN(q[k + 1]), SN(n))
<1> DEFINE S == {i \in 1 .. Len(q) : SN_LESS(SN(q[i]), SN(n))}
           P(k) == /\ \A i \in 1 .. k : SN_LESS(SN(q[i]), SN(n))
                   /\ k < Len(q) => ~SN_LESS(SN(q[k + 1]), SN(n))
<1>1. PICK k \in 0 .. Len(q) : (\A i \in 1 .. k : i \in S)
                               /\ (k < Len(q) => k + 1 \notin S)
    BY FirstOutside
<1>2. P(k)
    BY <1>1
<1>3. Before(q, n) = CHOOSE i \in 0 .. Len(q) : P(i)
    BY DEF Before
<1> HIDE DEF P
<1>4. Before(q, n) \in 0 .. Len(q) /\ P(Before(q, n))
    BY <1>2, <1>3
<1> QED BY <1>4 DEF P

\* Two sequences, one after the other, place by place.
LEMMA Concatenated ==
    ASSUME NEW s \in Seq(Nat), NEW t \in Seq(Nat)
    PROVE  /\ s \o t \in Seq(Nat) /\ Len(s \o t) = Len(s) + Len(t)
           /\ \A i \in 1 .. Len(s) : (s \o t)[i] = s[i]
           /\ \A i \in 1 .. Len(t) : (s \o t)[Len(s) + i] = t[i]
<1>1. s \o t \in Seq(Nat) /\ Len(s \o t) = Len(s) + Len(t)
    OBVIOUS
<1>2. \A i \in 1 .. Len(s) : (s \o t)[i] = s[i]
    OBVIOUS
<1>3. ASSUME NEW i \in 1 .. Len(t) PROVE (s \o t)[Len(s) + i] = t[i]
    OBVIOUS
<1> QED BY <1>1, <1>2, <1>3

\* The list after an insertion, place by place.
LEMMA InsertedAt ==
    ASSUME NEW q \in Seq(Nat), NEW n \in Nat
    PROVE  LET k == Before(q, n)
               r == Inserted(q, n) IN
           /\ k \in 0 .. Len(q) /\ Len(q) \in Nat
           /\ r \in Seq(Nat) /\ Len(r) = Len(q) + 1
           /\ \A i \in 1 .. Len(q) + 1 :
                 r[i] = IF i <= k THEN q[i] ELSE IF i = k + 1 THEN n ELSE q[i - 1]
<1> DEFINE k == Before(q, n)
           a == SubSeq(q, 1, k)
           b == SubSeq(q, k + 1, Len(q))
<1>1. k \in 0 .. Len(q) /\ Len(q) \in Nat
    BY BeforeSpec
<1> HIDE DEF k
<1>2. a \in Seq(Nat) /\ Len(a) = k /\ \A i \in 1 .. k : a[i] = q[i]
    BY <1>1
<1>3. b \in Seq(Nat) /\ Len(b) = Len(q) - k
      /\ \A i \in 1 .. Len(q) - k : b[i] = q[i + k]
    BY <1>1
<1> HIDE DEF a, b
<1>4. /\ a \o <<n>> \in Seq(Nat) /\ Len(a \o <<n>>) = k + 1
      /\ \A i \in 1 .. k + 1 : (a \o <<n>>)[i] = IF i <= k THEN q[i] ELSE n
    BY <1>1, <1>2
<1> DEFINE c == a \o <<n>>
           r == c \o b
<1>5. c \in Seq(Nat) /\ Len(c) = k + 1
      /\ \A i \in 1 .. k + 1 : c[i] = IF i <= k THEN q[i] ELSE n
    BY <1>4
<1> HIDE DEF c
<1>6. /\ r \in Seq(Nat) /\ Len(r) = Len(c) + Len(b)
      /\ \A i \in 1 .. Len(c) : r[i] = c[i]
      /\ \A i \in 1 .. Len(b) : r[Len(c) + i] = b[i]
    BY <1>3, <1>5, Concatenated
<1> HIDE DEF r
<1>7. Len(r) = Len(q) + 1
    BY <1>1, <1>3, <1>5, <1>6
<1>8. ASSUME NEW i \in 1 .. Len(q) + 1
      PROVE  r[i] = IF i <= k THEN q[i] ELSE IF i = k + 1 THEN n ELSE q[i - 1]
  <2>1. CASE i <= k + 1
      BY <1>1, <1>5, <1>6, <2>1
  <2>2. CASE i > k + 1
    <3> DEFINE j == i - (k + 1)
    <3>1. j \in 1 .. Len(b) /\ Len(c) + j = i /\ j + k = i - 1
        BY <1>1, <1>3, <1>5, <2>2
    <3> HIDE DEF j
    <3>2. r[i] = b[j] /\ b[j] = q[j + k]
        BY <1>3, <1>6, <3>1
    <3> QED BY <1>1, <2>2, <3>1, <3>2
  <2> QED BY <1>1, <2>1, <2>2
<1>9. r = Inserted(q, n)
    BY DEF Inserted, a, b, c, k, r
<1> QED BY <1>1, <1>6, <1>7, <1>8, <1>9 DEF k

-----------------------------------------------------------------------------
(* Type correctness                                                        *)

\* WinStart after check_indicate_seq is a sequence number.
LEMMA CheckType ==
    ASSUME NEW s \in 0 .. M - 1, NEW w \in 0 .. M - 1
    PROVE  check_indicate_seq(s, w) \in 0 .. M - 1
<1>1. Next_seq(w) \in 0 .. M - 1
    BY Constants DEF Next_seq
<1>2. Minus(s, W - 1) \in 0 .. M - 1
    BY Constants DEF Minus
<1> QED BY <1>1, <1>2 DEF check_indicate_seq

\* recv_indicatepkts_in_order splits the list and leaves a sequence number.
LEMMA IndicateType ==
    ASSUME NEW q \in Seq(Nat), NEW w \in 0 .. M - 1, log \in Seq(Nat),
           recv_indicatepkts_in_order(q, w)
    PROVE  log' \in Seq(Nat) /\ pending' \in Seq(Nat)
           /\ indicate_seq' \in 0 .. M - 1
<1> DEFINE k == Indicated(q, w)
<1>1. k \in 0 .. Len(q) /\ Len(q) \in Nat
    BY IndicatedSpec
<1>2. WinAfter(q, w)[k] \in 0 .. M - 1
    BY <1>1, WinAfterType
<1>3. /\ log' = log \o SubSeq(q, 1, k) /\ pending' = SubSeq(q, k + 1, Len(q))
      /\ indicate_seq' = WinAfter(q, w)[k]
    BY DEF recv_indicatepkts_in_order
<1> HIDE DEF k
<1>4. SubSeq(q, 1, k) \in Seq(Nat) /\ SubSeq(q, k + 1, Len(q)) \in Seq(Nat)
    BY <1>1
<1> QED BY <1>2, <1>3, <1>4, Concatenated

\* The part of TypeOK the receive path and the timer have to argue for.
Numbers ==
    /\ una \in Nat /\ top \in Int /\ rxf \in Nat
    /\ indicate_seq \in (0 .. M - 1) \cup {Unset}
    /\ rxseq \in (0 .. M - 1) \cup {Unset}
    /\ pending \in Seq(Nat) /\ log \in Seq(Nat)
    /\ loss \in Int /\ inputs \in Nat

Flags ==
    /\ peerBA \in BOOLEAN /\ enable \in BOOLEAN /\ bReorderWaiting \in BOOLEAN
    /\ rec_abba_rsp_ack \in BOOLEAN
    /\ timer \in BOOLEAN /\ handler \in BOOLEAN

Points ==
    /\ rpc \in {"idle", "post", "reorder", "direct", "after", "cancel"}
    /\ addba \in {"none", "accept", "unheard", "reject"}
    /\ sta \in {"used", "freeing", "free"}

\* What the receive path leaves of a frame's numbers.
LEMMA NumbersReorder ==
    ASSUME Numbers, RxReorder PROVE Numbers'
<1> DEFINE s == SN(rxf)
           w == IF rec_abba_rsp_ack \/ indicate_seq = Unset
                THEN s ELSE indicate_seq
           v == check_indicate_seq(s, w)
<1>1. UNCHANGED <<una, top, rxf, rxseq, loss, inputs>>
    BY DEF RxReorder, peer
<1>2. s \in 0 .. M - 1 /\ w \in 0 .. M - 1
    BY SNType DEF Numbers
<1>3. v \in 0 .. M - 1
    BY <1>2, CheckType
<1>4. \/ indicate_seq' = w /\ UNCHANGED <<pending, log>>
      \/ indicate_seq' = v /\ UNCHANGED <<pending, log>>
      \/ recv_indicatepkts_in_order(Inserted(pending, rxf), v)
    BY DEF RxReorder
<1> HIDE DEF s, w, v
<1>5. Inserted(pending, rxf) \in Seq(Nat)
    BY InsertedAt DEF Numbers
<1>6. /\ indicate_seq' \in 0 .. M - 1
      /\ pending' \in Seq(Nat) /\ log' \in Seq(Nat)
  <2>1. CASE indicate_seq' \in {v, w} /\ UNCHANGED <<pending, log>>
      BY <2>1, <1>2, <1>3 DEF Numbers
  <2>2. CASE recv_indicatepkts_in_order(Inserted(pending, rxf), v)
      BY <2>2, <1>3, <1>5, IndicateType DEF Numbers
  <2> QED BY <1>4, <2>1, <2>2
<1> QED BY <1>1, <1>6 DEF Numbers

\* The timeout handler; Lost is the difference of two sequence numbers.
LEMMA NumbersTimeout ==
    ASSUME Numbers, timeout_handler PROVE Numbers'
<1>1. UNCHANGED <<una, top, rxf, rxseq, inputs>>
    BY DEF timeout_handler, peer, recv
<1>2. CASE pending = <<>>
    BY <1>1, <1>2 DEF timeout_handler, Numbers
<1>3. CASE pending # <<>>
  <2>1. pending[1] \in Nat
      BY <1>3 DEF Numbers
  <2>2. SN(pending[1]) \in 0 .. M - 1
      BY <2>1, SNType
  <2>3. recv_indicatepkts_in_order(pending, SN(pending[1]))
        /\ loss' = loss + Lost(indicate_seq, SN(pending[1]))
      BY <1>3 DEF timeout_handler
  <2>4. /\ indicate_seq' \in 0 .. M - 1
        /\ pending' \in Seq(Nat) /\ log' \in Seq(Nat)
      BY <2>2, <2>3, IndicateType DEF Numbers
  <2>5. Lost(indicate_seq, SN(pending[1])) \in Int
      BY <2>2, Constants DEF Numbers, Lost
  <2> QED BY <1>1, <2>3, <2>4, <2>5 DEF Numbers
<1> QED BY <1>2, <1>3

\* Every step keeps the numbers in their ranges.
LEMMA NumbersStep ==
    ASSUME Numbers, [Next]_vars PROVE Numbers'
<1>1. CASE PeerAdvances
    BY <1>1 DEF PeerAdvances, Numbers, ctrl, recv
<1>2. ASSUME NEW n \in una .. una + W - 1, RxFrame(n) PROVE Numbers'
  <2>1. n \in Nat
      BY Constants DEF Numbers
  <2>2. SN(n) \in 0 .. M - 1
      BY <2>1, SNType
  <2> QED BY <1>2, <2>1, <2>2 DEF RxFrame, Input, Numbers, peer, ctrl
<1>3. CASE rtw_process_bar_frame
  <2>1. SN(una) \in 0 .. M - 1
      BY SNType DEF Numbers
  <2> QED BY <1>3, <2>1 DEF rtw_process_bar_frame, Input, Numbers, peer, recv
<1>4. ASSUME NEW heard \in BOOLEAN, OnDelba(heard) PROVE Numbers'
    BY <1>4 DEF OnDelba, Input, Numbers, recv
<1>5. CASE Receive
  <2>1. CASE RxCheckEnable
      BY <2>1 DEF RxCheckEnable, Numbers, peer, ctrl
  <2>2. CASE RxDirect
    <3>1. SN(rxf) \in 0 .. M - 1
        BY SNType DEF Numbers
    <3> QED BY <2>2, <3>1 DEF RxDirect, Numbers, peer
  <2>3. CASE RxDirectDone
    <3>1. (indicate_seq + 1) % M \in 0 .. M - 1
      <4>1. indicate_seq + 1 \in Nat
          BY Constants DEF Numbers
      <4> QED BY <4>1, SNType DEF SN
    <3> QED BY <2>3, <3>1 DEF RxDirectDone, Numbers, peer
  <2>4. CASE RxReorder
      BY <2>4, NumbersReorder
  <2>5. CASE RxCancelTimer
      BY <2>5 DEF RxCancelTimer, Numbers, peer, ctrl
  <2> QED BY <1>5, <2>1, <2>2, <2>3, <2>4, <2>5 DEF Receive
<1>6. CASE TimerFires
    BY <1>6 DEF TimerFires, Numbers, peer, ctrl, recv
<1>7. CASE timeout_handler
    BY <1>7, NumbersTimeout
<1>8. CASE Command
  <2>1. ASSUME NEW accept \in BOOLEAN, NEW acked \in BOOLEAN,
               issue_addba_rsp(accept, acked)
        PROVE  Numbers'
      BY <2>1 DEF issue_addba_rsp, Input, Numbers, ctrl, recv
  <2>2. CASE add_ba_rsp_hdl
      BY <2>2 DEF add_ba_rsp_hdl, Numbers, recv
  <2>3. ASSUME NEW heard \in BOOLEAN, send_delba_sta_tid(heard) PROVE Numbers'
      BY <2>3 DEF send_delba_sta_tid, Input, Numbers, recv
  <2>4. CASE rtw_joinbss_update_stainfo
      BY <2>4 DEF rtw_joinbss_update_stainfo, Input, Numbers, recv
  <2>5. CASE FreeCancel
      BY <2>5 DEF FreeCancel, Input, Numbers, recv
  <2>6. CASE FreePending
      BY <2>6 DEF FreePending, Numbers, peer, recv
  <2>7. CASE rtw_alloc_stainfo
      BY <2>7 DEF rtw_alloc_stainfo, Numbers, peer
  <2> QED BY <1>8, <2>1, <2>2, <2>3, <2>4, <2>5, <2>6, <2>7 DEF Command
<1>9. CASE UNCHANGED vars
    BY <1>9 DEF vars, Numbers, peer, ctrl, recv
<1> QED BY <1>1, <1>2, <1>3, <1>4, <1>5, <1>6, <1>7, <1>8, <1>9 DEF Next

\* Every step keeps the flags Boolean and the program points known.
LEMMA FlagsStep ==
    ASSUME Flags, Points, [Next]_vars PROVE Flags' /\ Points'
<1> USE DEF Flags, Points
<1>1. CASE PeerAdvances
    BY <1>1 DEF PeerAdvances, ctrl, tmr, recv
<1>2. ASSUME NEW n \in una .. una + W - 1, RxFrame(n) PROVE Flags' /\ Points'
    BY <1>2 DEF RxFrame, peer, ctrl, tmr
<1>3. CASE rtw_process_bar_frame
    BY <1>3 DEF rtw_process_bar_frame, peer, tmr, recv
<1>4. ASSUME NEW heard \in BOOLEAN, OnDelba(heard) PROVE Flags' /\ Points'
    BY <1>4 DEF OnDelba, tmr, recv
<1>5. CASE Receive
  <2>1. CASE RxCheckEnable
      BY <2>1 DEF RxCheckEnable, peer, ctrl, tmr
  <2>2. CASE RxDirect
      BY <2>2 DEF RxDirect, peer, tmr
  <2>3. CASE RxDirectDone
      BY <2>3 DEF RxDirectDone, peer, tmr
  <2>4. CASE RxReorder
    <3>1. UNCHANGED <<peerBA, enable, handler, addba, sta>>
          /\ rec_abba_rsp_ack' = FALSE
        BY <2>4 DEF RxReorder, peer
    <3>2. bReorderWaiting' \in BOOLEAN /\ timer' \in BOOLEAN
        BY <2>4, Zenon DEF RxReorder
    <3>3. rpc' \in {"idle", "cancel"}
        BY <2>4 DEF RxReorder
    <3> QED BY <3>1, <3>2, <3>3
  <2>5. CASE RxCancelTimer
      BY <2>5 DEF RxCancelTimer, peer, ctrl
  <2> QED BY <1>5, <2>1, <2>2, <2>3, <2>4, <2>5 DEF Receive
<1>6. CASE TimerFires
    BY <1>6 DEF TimerFires, peer, ctrl, recv
<1>7. CASE timeout_handler
  <2>1. /\ UNCHANGED <<peerBA, enable, rec_abba_rsp_ack, rpc, addba, sta>>
        /\ handler' = FALSE /\ bReorderWaiting' = FALSE
      BY <1>7 DEF timeout_handler, peer, recv
  <2>2. timer' \in BOOLEAN
      BY <1>7, Zenon DEF timeout_handler
  <2> QED BY <2>1, <2>2
<1>8. CASE Command
  <2>1. ASSUME NEW accept \in BOOLEAN, NEW acked \in BOOLEAN,
               issue_addba_rsp(accept, acked)
        PROVE  Flags' /\ Points'
      BY <2>1 DEF issue_addba_rsp, ctrl, tmr, recv
  <2>2. CASE add_ba_rsp_hdl
      BY <2>2 DEF add_ba_rsp_hdl, tmr, recv
  <2>3. ASSUME NEW heard \in BOOLEAN, send_delba_sta_tid(heard)
        PROVE  Flags' /\ Points'
      BY <2>3 DEF send_delba_sta_tid, tmr, recv
  <2>4. CASE rtw_joinbss_update_stainfo
      BY <2>4 DEF rtw_joinbss_update_stainfo, tmr, recv
  <2>5. CASE FreeCancel
      BY <2>5 DEF FreeCancel, recv
  <2>6. CASE FreePending
      BY <2>6 DEF FreePending, peer, tmr, recv
  <2>7. CASE rtw_alloc_stainfo
      BY <2>7 DEF rtw_alloc_stainfo, peer
  <2> QED BY <1>8, <2>1, <2>2, <2>3, <2>4, <2>5, <2>6, <2>7 DEF Command
<1>9. CASE UNCHANGED vars
    BY <1>9 DEF vars, peer, ctrl, tmr, recv
<1> QED BY <1>1, <1>2, <1>3, <1>4, <1>5, <1>6, <1>7, <1>8, <1>9 DEF Next

\* TypeOK is inductive once its three parts are.
LEMMA TypeStep == TypeOK /\ [Next]_vars => TypeOK'
<1>1. TypeOK <=> Numbers /\ Flags /\ Points
    BY DEF TypeOK, Numbers, Flags, Points
<1>2. TypeOK' <=> Numbers' /\ Flags' /\ Points'
    BY DEF TypeOK, Numbers, Flags, Points
<1> QED BY <1>1, <1>2, NumbersStep, FlagsStep

\* Init is typed.
LEMMA TypeInit == Init => TypeOK
<1> SUFFICES ASSUME Init PROVE TypeOK
    OBVIOUS
<1>1. Numbers
    BY Constants DEF Init, Numbers
<1>2. Flags /\ Points
    BY DEF Init, Flags, Points
<1> QED BY <1>1, <1>2 DEF TypeOK, Numbers, Flags, Points

\* Type correctness of the reorder buffer with every event: whoever writes
\* indicate_seq without the lock, it is a sequence number or 0xFFFF, and the
\* lists hold frames.
THEOREM RecvTypeCorrect == Spec => []TypeOK
BY TypeInit, TypeStep, PTL DEF Spec

-----------------------------------------------------------------------------
(* What the loops do to a sorted list of frames that are close together    *)

Elements(q) == {q[i] : i \in DOMAIN q}

Increasing(q) == \A i, j \in DOMAIN q : i < j => q[i] < q[j]

\* The frames are within half the sequence space of n, so that SN_LESS orders
\* them and n as their numbers do.
Near(q, n) == \A x \in Elements(q) : x - n < Half /\ n - x < Half

\* Increasing, by places.
LEMMA IncreasingAt ==
    ASSUME NEW q \in Seq(Nat), Increasing(q)
    PROVE  /\ Len(q) \in Nat /\ \A i \in 1 .. Len(q) : q[i] \in Nat
           /\ \A i, j \in 1 .. Len(q) : i < j => q[i] < q[j]
           /\ \A x : x \in Elements(q) <=> \E i \in 1 .. Len(q) : q[i] = x
<1>1. DOMAIN q = 1 .. Len(q)
    OBVIOUS
<1>2. \A i, j \in 1 .. Len(q) : i < j => q[i] < q[j]
    BY <1>1 DEF Increasing
<1>3. \A x : x \in Elements(q) <=> \E i \in 1 .. Len(q) : q[i] = x
    BY <1>1 DEF Elements
<1> QED BY <1>1, <1>2, <1>3

\* enqueue_reorder_recvframe finds the place of the frame: it is refused only if
\* it is pending already, and else the list stays sorted.
LEMMA InsertSorted ==
    ASSUME NEW q \in Seq(Nat), NEW n \in Nat, Increasing(q), Near(q, n)
    PROVE  /\ Duplicate(q, n) <=> n \in Elements(q)
           /\ Inserted(q, n) \in Seq(Nat)
           /\ Elements(Inserted(q, n)) = Elements(q) \cup {n}
           /\ ~Duplicate(q, n) => Increasing(Inserted(q, n))
<1> DEFINE k == Before(q, n)
           r == Inserted(q, n)
<1>1. k \in 0 .. Len(q) /\ Len(q) \in Nat
    BY InsertedAt
<1>11. /\ r \in Seq(Nat) /\ Len(r) = Len(q) + 1
       /\ \A i \in 1 .. Len(q) + 1 :
            r[i] = IF i <= k THEN q[i] ELSE IF i = k + 1 THEN n ELSE q[i - 1]
    BY InsertedAt
<1>2. /\ \A i \in 1 .. k : SN_LESS(SN(q[i]), SN(n))
      /\ k < Len(q) => ~SN_LESS(SN(q[k + 1]), SN(n))
    BY <1>1, BeforeSpec
<1>3. Duplicate(q, n) <=> k < Len(q) /\ SN(q[k + 1]) = SN(n)
    BY DEF Duplicate
<1>4. DOMAIN q = 1 .. Len(q) /\ DOMAIN r = 1 .. Len(q) + 1
    BY <1>11
<1>0. /\ \A i \in 1 .. Len(q) : q[i] \in Nat
      /\ \A i, j \in 1 .. Len(q) : i < j => q[i] < q[j]
    BY IncreasingAt
<1> HIDE DEF k, r
<1>5. ASSUME NEW i \in 1 .. Len(q)
      PROVE  /\ q[i] \in Nat
             /\ SN_LESS(SN(q[i]), SN(n)) <=> q[i] < n
             /\ SN(q[i]) = SN(n) <=> q[i] = n
  <2>1. q[i] \in Nat /\ q[i] \in Elements(q)
      BY <1>4 DEF Elements
  <2>2. q[i] - n < Half /\ n - q[i] <= Half /\ q[i] - n < M /\ n - q[i] < M
      BY <2>1, Constants DEF Near
  <2> QED BY <2>1, <2>2, LessIsBefore, SNInjective
<1>6. \A i \in 1 .. k : q[i] < n
    BY <1>1, <1>2, <1>5
<1>7. \A i \in k + 1 .. Len(q) : q[i] >= n
  <2> SUFFICES ASSUME NEW i \in k + 1 .. Len(q) PROVE q[i] >= n
      OBVIOUS
  <2>1. k < Len(q) /\ k + 1 \in 1 .. Len(q) /\ i \in 1 .. Len(q)
      BY <1>1
  <2>2. q[k + 1] >= n
      BY <1>2, <1>5, <2>1
  <2>3. i = k + 1 \/ q[k + 1] < q[i]
      BY <1>0, <1>1, <2>1
  <2> QED BY <1>5, <2>1, <2>2, <2>3
<1>8. Duplicate(q, n) <=> n \in Elements(q)
  <2>1. ASSUME Duplicate(q, n) PROVE n \in Elements(q)
    <3>1. k + 1 \in 1 .. Len(q) /\ q[k + 1] = n
        BY <1>1, <1>3, <1>5, <2>1
    <3> QED BY <1>4, <3>1 DEF Elements
  <2>2. ASSUME n \in Elements(q) PROVE Duplicate(q, n)
    <3>1. PICK i \in 1 .. Len(q) : q[i] = n
        BY <1>4, <2>2 DEF Elements
    <3>2. i >= k + 1 /\ k < Len(q) /\ k + 1 \in 1 .. Len(q)
      <4>1. i \notin 1 .. k
          BY <1>6, <3>1
      <4> QED BY <1>1, <4>1
    <3>3. q[k + 1] >= n /\ (i = k + 1 \/ q[k + 1] < q[i])
        BY <1>0, <1>1, <1>7, <3>1, <3>2
    <3>4. q[k + 1] = n
        BY <1>5, <3>1, <3>2, <3>3
    <3> QED BY <1>3, <3>2, <3>4
  <2> QED BY <2>1, <2>2
<1>9. Elements(r) = Elements(q) \cup {n}
  <2>1. ASSUME NEW x \in Elements(r) PROVE x \in Elements(q) \cup {n}
    <3>1. PICK i \in 1 .. Len(q) + 1 : x = r[i]
        BY <1>4 DEF Elements
    <3>2. CASE i <= k
      <4>1. x = q[i] /\ i \in 1 .. Len(q)
          BY <1>1, <1>11, <3>1, <3>2
      <4> QED BY <1>4, <4>1 DEF Elements
    <3>3. CASE i = k + 1
        BY <1>1, <1>11, <3>1, <3>3
    <3>4. CASE i > k + 1
      <4>1. x = q[i - 1] /\ i - 1 \in 1 .. Len(q)
          BY <1>1, <1>11, <3>1, <3>4
      <4> QED BY <1>4, <4>1 DEF Elements
    <3> QED BY <1>1, <3>2, <3>3, <3>4
  <2>2. n \in Elements(r)
    <3>1. k + 1 \in 1 .. Len(q) + 1 /\ r[k + 1] = n
        BY <1>1, <1>11
    <3> QED BY <1>4, <3>1 DEF Elements
  <2>3. ASSUME NEW x \in Elements(q) PROVE x \in Elements(r)
    <3>1. PICK i \in 1 .. Len(q) : x = q[i]
        BY <1>4 DEF Elements
    <3>2. CASE i <= k
      <4>1. i \in 1 .. Len(q) + 1 /\ r[i] = x
          BY <1>1, <1>11, <3>1, <3>2
      <4> QED BY <1>4, <4>1 DEF Elements
    <3>3. CASE i > k
      <4>1. i + 1 \in 1 .. Len(q) + 1 /\ (i + 1) - 1 = i
          OBVIOUS
      <4>2. r[i + 1] = x
          BY <1>1, <1>11, <3>1, <3>3, <4>1
      <4> QED BY <1>4, <4>1, <4>2 DEF Elements
    <3> QED BY <1>1, <3>2, <3>3
  <2> QED BY <2>1, <2>2, <2>3
<1>10. ASSUME ~Duplicate(q, n) PROVE Increasing(r)
  <2>1. \A i \in k + 1 .. Len(q) : q[i] > n
    <3> SUFFICES ASSUME NEW i \in k + 1 .. Len(q) PROVE q[i] > n
        OBVIOUS
    <3>1. i \in 1 .. Len(q) /\ q[i] >= n
        BY <1>1, <1>7
    <3>2. q[i] # n
        BY <1>4, <1>8, <1>10, <3>1 DEF Elements
    <3> QED BY <1>5, <3>1, <3>2
  <2> SUFFICES ASSUME NEW i \in 1 .. Len(q) + 1, NEW j \in 1 .. Len(q) + 1,
                      i < j
               PROVE  r[i] < r[j]
      BY <1>4 DEF Increasing
  <2>2. \A a, b \in 1 .. Len(q) : a < b => q[a] < q[b]
      BY <1>0
  <2>3. CASE j <= k
    <3>1. i \in 1 .. Len(q) /\ j \in 1 .. Len(q) /\ i <= k
        BY <1>1, <2>3
    <3>2. r[i] = q[i]
        BY <1>1, <1>11, <3>1
    <3>3. r[j] = q[j]
        BY <1>1, <1>11, <2>3, <3>1
    <3> QED BY <2>2, <3>1, <3>2, <3>3
  <2>4. CASE j = k + 1
    <3>1. r[i] = q[i] /\ i \in 1 .. k /\ r[j] = n
        BY <1>1, <1>11, <2>4
    <3> QED BY <1>6, <3>1
  <2>5. CASE j > k + 1
    <3>1. r[j] = q[j - 1] /\ j - 1 \in k + 1 .. Len(q) /\ j - 1 \in 1 .. Len(q)
        BY <1>1, <1>11, <2>5
    <3>2. CASE i <= k
      <4>1. r[i] = q[i] /\ i \in 1 .. Len(q) /\ i < j - 1
          BY <1>1, <1>11, <2>5, <3>2
      <4> QED BY <2>2, <3>1, <4>1
    <3>3. CASE i = k + 1
      <4>1. r[i] = n
          BY <1>1, <1>11, <3>3
      <4> QED BY <2>1, <3>1, <4>1
    <3>4. CASE i > k + 1
      <4>1. r[i] = q[i - 1] /\ i - 1 \in 1 .. Len(q) /\ i - 1 < j - 1
          BY <1>1, <1>11, <2>5, <3>4
      <4> QED BY <2>2, <3>1, <4>1
    <3> QED BY <1>1, <3>2, <3>3, <3>4
  <2> QED BY <1>1, <2>3, <2>4, <2>5
<1> QED BY <1>8, <1>9, <1>10, <1>11 DEF r

\* recv_indicatepkts_in_order on a sorted list, from the window start v: it stops
\* at a window start t that is after every frame it has passed on and before
\* every frame it has left, and t is v or follows the last frame passed on.
LEMMA IndicateSorted ==
    ASSUME NEW q \in Seq(Nat), NEW v \in Nat, Increasing(q), Near(q, v)
    PROVE  LET k == Indicated(q, SN(v)) IN
           /\ k \in 0 .. Len(q)
           /\ \E t \in Nat :
                 /\ t >= v /\ WinAfter(q, SN(v))[k] = SN(t)
                 /\ \A i \in 1 .. k : q[i] < t
                 /\ \A i \in k + 1 .. Len(q) : t < q[i]
                 /\ t = v \/ (k >= 1 /\ t = q[k] + 1)
<1> DEFINE k == Indicated(q, SN(v))
           win == WinAfter(q, SN(v))
           At(i, t) == /\ t >= v /\ win[i] = SN(t)
                       /\ \A j \in 1 .. i : q[j] < t
                       /\ t = v \/ (i >= 1 /\ t = q[i] + 1)
           S == {i \in 0 .. k : \E t \in Nat : At(i, t)}
<1>1. /\ k \in 0 .. Len(q) /\ Len(q) \in Nat
      /\ \A i \in 1 .. k : ~SN_LESS(win[i - 1], SN(q[i]))
      /\ k < Len(q) => SN_LESS(win[k], SN(q[k + 1]))
    BY IndicatedSpec
<1>2. /\ win[0] = SN(v)
      /\ \A i \in 0 .. Len(q) - 1 : win[i + 1] = Turn(win[i], q[i + 1])
    BY <1>1, WinAfterStep
<1>3. /\ \A i \in 1 .. Len(q) : q[i] \in Nat /\ q[i] \in Elements(q)
      /\ \A i, j \in 1 .. Len(q) : i < j => q[i] < q[j]
    BY IncreasingAt
<1> HIDE DEF k, win
<1>4. ASSUME NEW i \in 0 .. Len(q) - 1, NEW t \in Nat, At(i, t)
      PROVE  /\ q[i + 1] \in Nat /\ t - q[i + 1] < Half /\ q[i + 1] - t < Half
             /\ SN_LESS(SN(t), SN(q[i + 1])) <=> t < q[i + 1]
             /\ SN(t) = SN(q[i + 1]) <=> t = q[i + 1]
  <2>1. i + 1 \in 1 .. Len(q)
      BY <1>1
  <2>2. q[i + 1] \in Nat /\ q[i + 1] \in Elements(q)
      BY <1>3, <2>1
  <2>3. q[i + 1] - v < Half /\ v - q[i + 1] < Half
      BY <2>2 DEF Near
  <2>4. t = v \/ t <= q[i + 1]
    <3>1. i >= 1 => i \in 1 .. Len(q) /\ i < i + 1
        BY <1>1
    <3>2. i >= 1 => q[i] < q[i + 1] /\ q[i] \in Nat
        BY <1>3, <2>1, <3>1
    <3> QED BY <1>4, <2>2, <3>2
  <2>5. t - q[i + 1] < Half /\ q[i + 1] - t < Half
      BY <1>4, <2>2, <2>3, <2>4, Constants
  <2>6. t - q[i + 1] < M /\ q[i + 1] - t < M /\ q[i + 1] - t <= Half
      BY <2>2, <2>5, Constants
  <2> QED BY <2>2, <2>5, <2>6, LessIsBefore, SNInjective
<1>5. 0 \in S
  <2>1. At(0, v)
      BY <1>2
  <2> QED BY <1>1, <2>1
<1>6. ASSUME NEW i \in 0 .. k - 1, i \in S PROVE i + 1 \in S
  <2>1. PICK t \in Nat : At(i, t)
      BY <1>6
  <2>2. i \in 0 .. Len(q) - 1 /\ i + 1 \in 1 .. k /\ (i + 1) - 1 = i
        /\ i + 1 \in 0 .. k
      BY <1>1
  <2>3. /\ q[i + 1] \in Nat
        /\ SN_LESS(SN(t), SN(q[i + 1])) <=> t < q[i + 1]
        /\ SN(t) = SN(q[i + 1]) <=> t = q[i + 1]
      BY <1>4, <2>1, <2>2
  <2>4. q[i + 1] <= t
    <3>1. ~SN_LESS(win[i], SN(q[i + 1]))
        BY <1>1, <2>2
    <3> QED BY <2>1, <2>3, <3>1
  <2>5. win[i + 1] = Turn(SN(t), q[i + 1])
      BY <1>2, <2>1, <2>2
  <2>6. CASE q[i + 1] = t
    <3>1. win[i + 1] = SN(t + 1)
        BY <2>3, <2>5, <2>6, SNNext DEF Turn
    <3>2. \A j \in 1 .. i + 1 : q[j] < t + 1
      <4>0. \A j \in 1 .. i : j \in 1 .. Len(q)
          BY <1>1
      <4>1. \A j \in 1 .. i : q[j] < t /\ q[j] \in Nat
          BY <2>1, <4>0, <1>3
      <4> QED BY <2>2, <2>6, <4>1
    <3>3. At(i + 1, t + 1)
        BY <2>1, <2>2, <2>6, <3>1, <3>2
    <3> QED BY <2>2, <3>3
  <2>7. CASE q[i + 1] < t
    <3>1. win[i + 1] = SN(t)
        BY <2>3, <2>5, <2>7 DEF Turn
    <3>2. \A j \in 1 .. i + 1 : q[j] < t
        BY <2>1, <2>2, <2>7
    <3>3. t = v
      <4>1. i + 1 \in 1 .. Len(q) /\ (i >= 1 => i \in 1 .. Len(q) /\ i < i + 1)
          BY <1>1
      <4>2. i >= 1 => q[i] < q[i + 1] /\ q[i] \in Nat
          BY <1>3, <4>1
      <4> QED BY <2>1, <2>3, <2>7, <4>2
    <3>4. At(i + 1, t)
        BY <2>1, <3>1, <3>2, <3>3
    <3> QED BY <2>2, <3>4
  <2> QED BY <2>3, <2>4, <2>6, <2>7
<1>7. k \in S
  <2> HIDE DEF S
  <2>1. k \in Nat
      BY <1>1
  <2>2. \A i \in 0 .. k : i \in S
      BY <1>5, <1>6, <2>1, SetInduction
  <2> QED BY <2>1, <2>2
<1>8. PICK t \in Nat : At(k, t)
    BY <1>7
<1>9. \A i \in k + 1 .. Len(q) : t < q[i]
  <2> SUFFICES ASSUME NEW i \in k + 1 .. Len(q) PROVE t < q[i]
      OBVIOUS
  <2>1. k < Len(q) /\ k \in 0 .. Len(q) - 1 /\ k + 1 \in 1 .. Len(q)
        /\ i \in 1 .. Len(q)
      BY <1>1
  <2>2. q[k + 1] \in Nat /\ t < q[k + 1]
      BY <1>1, <1>4, <1>8, <2>1
  <2>3. i = k + 1 \/ q[k + 1] < q[i]
      BY <1>1, <1>3, <2>1
  <2>4. q[i] \in Nat
      BY <1>3, <2>1
  <2> QED BY <2>2, <2>3, <2>4
<1> QED BY <1>1, <1>8, <1>9 DEF k, win

-----------------------------------------------------------------------------
(* The inductive invariant without Events                                  *)

\* A frame was received and recv_func_posthandle is not through with it.
InHand == rpc \in {"post", "reorder", "direct"}

\* Until the first frame of the peer's session is handled, frames arrive in
\* order: the peer has no session, or WinStart is to follow the next frame.
Fresh == ~peerBA \/ rec_abba_rsp_ack

\* No frame of the peer's session has been received.
Quiet == ~peerBA \/ (rec_abba_rsp_ack /\ rpc \notin {"post", "reorder"})

Session ==
    /\ sta = "used"
    /\ peerBA => enable /\ addba = "none"
    /\ addba = "reject" => ~enable
    /\ ~enable => pending = <<>>
    /\ rpc = "reorder" => enable
    /\ rpc \in {"direct", "after"} => Fresh /\ pending = <<>>

\* How far what the peer may send and what was received are apart.
PeerInv ==
    /\ una >= Start /\ top >= Start - 1
    /\ una <= top + Gap + 1 /\ top < una + W
    /\ Quiet => top <= una /\ (top = una => rxseq = SN(top))
    /\ InHand \/ rpc = "after" => Start <= rxf /\ rxf <= top /\ top < rxf + W
    /\ Fresh /\ (InHand \/ rpc = "after") => rxf = top

Received ==
    /\ Increasing(log) /\ Increasing(pending)
    /\ \A n \in Elements(log) \cup Elements(pending) :
          Start <= n /\ n <= top /\ (Fresh /\ InHand => n < rxf)

\* The frames before v that were not passed on.
Gone(l, v) == {n \in Start .. v - 1 : n \notin Elements(l)}

\* WinStart stands for frame v: what was passed on is before it, what is pending
\* is in its window, what was received is before the window's end, and it got
\* where it is by a frame passed on or by one at the window's end.
WindowAt(v) ==
    /\ indicate_seq = SN(v)
    /\ Start <= v /\ v <= top + 1
    /\ \A n \in Elements(log) : n < v \/ (rpc = "after" /\ n = v)
    /\ \A n \in Elements(pending) : v < n /\ n < v + W
    /\ top < v + W \/ (InHand /\ rxf = top)
    /\ InHand => rxf < v + 2 * W + Gap
    /\ Fresh /\ InHand => v <= rxf
    /\ rpc = "after" => v = rxf /\ v \in Elements(log)
    /\ v + W <= top + 1 \/ \E n \in Elements(log) : v <= n + 1
    /\ 0 <= loss /\ loss <= Cardinality(Gone(log, v))

Unstarted ==
    /\ indicate_seq = Unset
    /\ log = <<>> /\ pending = <<>> /\ loss = 0
    /\ Fresh /\ rpc # "after"

Window == Unstarted \/ \E v \in Nat : WindowAt(v)

WindowInv == TypeOK /\ Session /\ PeerInv /\ Received /\ Window

\* A frame before the window start that was not passed on never will be.
LEMMA GoneStays ==
    ASSUME NEW l, NEW m, NEW b \in Nat, NEW t \in Nat, b <= t,
           \A x \in Elements(m) : x \in Nat,
           \A x \in Elements(m) : x \in Elements(l) \/ x >= b
    PROVE  /\ Cardinality(Gone(l, b)) \in Nat /\ Cardinality(Gone(m, t)) \in Nat
           /\ Cardinality(Gone(l, b)) <= Cardinality(Gone(m, t))
<1> DEFINE A == Gone(l, b)
           C == Gone(m, t)
<1>1. IsFiniteSet(Start .. t - 1)
  <2>1. Start \in Int /\ t - 1 \in Int
      BY Constants
  <2> QED BY <2>1, FS_Interval
<1>2. C \in SUBSET (Start .. t - 1) /\ A \in SUBSET C
    BY Constants DEF Gone
<1>3. IsFiniteSet(C)
    BY <1>1, <1>2, FS_Subset
<1>4. IsFiniteSet(A) /\ Cardinality(A) <= Cardinality(C)
    BY <1>2, <1>3, FS_Subset
<1> QED BY <1>3, <1>4, FS_CardinalityType

\* The frames given up on are counted: p - b more when the window start goes from
\* b to t over a gap b .. p - 1, and what is passed on is not before b.
LEMMA GoneGrows ==
    ASSUME NEW l, NEW m, NEW b \in Nat, NEW p \in Nat, NEW t \in Nat,
           Start <= b, b <= p, p <= t,
           \A x \in Elements(m) : x \in Nat,
           \A x \in Elements(m) : x \in Elements(l) \/ x >= p,
           \A x \in Elements(l) : x < b
    PROVE  /\ Cardinality(Gone(l, b)) \in Nat /\ Cardinality(Gone(m, t)) \in Nat
           /\ Cardinality(Gone(l, b)) + (p - b) <= Cardinality(Gone(m, t))
<1> DEFINE A == Gone(l, b)
           B == b .. p - 1
           C == Gone(m, t)
<1>1. IsFiniteSet(A) /\ IsFiniteSet(C)
  <2>1. IsFiniteSet(Start .. b - 1) /\ IsFiniteSet(Start .. t - 1)
    <3>1. Start \in Int /\ b - 1 \in Int /\ t - 1 \in Int
        BY Constants
    <3> QED BY <3>1, FS_Interval
  <2>2. A \in SUBSET (Start .. b - 1) /\ C \in SUBSET (Start .. t - 1)
      BY DEF Gone
  <2> QED BY <2>1, <2>2, FS_Subset
<1>2. IsFiniteSet(B) /\ Cardinality(B) = p - b
  <2>1. b \in Int /\ p - 1 \in Int
      OBVIOUS
  <2>2. IsFiniteSet(B) /\ Cardinality(B) = IF b > p - 1 THEN 0 ELSE p - 1 - b + 1
      BY <2>1, FS_Interval
  <2> QED BY <2>2
<1>3. A \cap B = {} /\ A \cup B \in SUBSET C
    BY Constants DEF Gone
<1>4. /\ Cardinality(A) \in Nat /\ Cardinality(C) \in Nat
      /\ Cardinality(A \cap B) = 0
    BY <1>1, <1>3, FS_CardinalityType, FS_EmptySet
<1>5. /\ IsFiniteSet(A \cup B)
      /\ Cardinality(A \cup B) = Cardinality(A) + Cardinality(B) - Cardinality(A \cap B)
    BY <1>1, <1>2, FS_Union
<1>6. Cardinality(A \cup B) <= Cardinality(C)
    BY <1>1, <1>3, FS_Subset
<1> HIDE DEF A, B, C
<1>7. Cardinality(A) + (p - b) <= Cardinality(C)
    BY <1>2, <1>4, <1>5, <1>6
<1> QED BY <1>4, <1>7 DEF A, C

\* recv_indicatepkts_in_order in terms of the frames in the two lists.
LEMMA Deliver ==
    ASSUME NEW q \in Seq(Nat), NEW u \in Nat, Increasing(q), Near(q, u),
           log \in Seq(Nat), Increasing(log),
           \A x \in Elements(log), y \in Elements(q) : x < y,
           recv_indicatepkts_in_order(q, SN(u))
    PROVE  /\ Increasing(log') /\ Increasing(pending')
           /\ \E t \in Nat :
                 /\ t >= u /\ indicate_seq' = SN(t)
                 /\ t \notin Elements(q)
                 /\ Elements(log') = Elements(log)
                                       \cup {x \in Elements(q) : x < t}
                 /\ Elements(pending') = {x \in Elements(q) : t < x}
                 /\ t = u \/ t - 1 \in Elements(q)
<1> DEFINE k == Indicated(q, SN(u))
           a == SubSeq(q, 1, k)
           b == SubSeq(q, k + 1, Len(q))
<1>1. k \in 0 .. Len(q)
    BY IndicateSorted
<1>2. PICK t \in Nat :
                 /\ t >= u /\ WinAfter(q, SN(u))[k] = SN(t)
                 /\ \A i \in 1 .. k : q[i] < t
                 /\ \A i \in k + 1 .. Len(q) : t < q[i]
                 /\ t = u \/ (k >= 1 /\ t = q[k] + 1)
    BY IndicateSorted
<1>3. /\ Len(q) \in Nat /\ \A i \in 1 .. Len(q) : q[i] \in Nat
      /\ \A i, j \in 1 .. Len(q) : i < j => q[i] < q[j]
      /\ \A x : x \in Elements(q) <=> \E i \in 1 .. Len(q) : q[i] = x
    BY IncreasingAt
<1>4. /\ Len(log) \in Nat /\ \A i \in 1 .. Len(log) : log[i] \in Nat
      /\ \A i, j \in 1 .. Len(log) : i < j => log[i] < log[j]
      /\ \A x : x \in Elements(log) <=> \E i \in 1 .. Len(log) : log[i] = x
    BY IncreasingAt
<1>5. log' = log \o a /\ pending' = b /\ indicate_seq' = SN(t)
    BY <1>2 DEF recv_indicatepkts_in_order
<1> HIDE DEF k
<1>6. a \in Seq(Nat) /\ Len(a) = k /\ \A i \in 1 .. k : a[i] = q[i]
    BY <1>1
<1>7. b \in Seq(Nat) /\ Len(b) = Len(q) - k
      /\ \A i \in 1 .. Len(q) - k : b[i] = q[i + k]
    BY <1>1
<1> HIDE DEF a, b
<1>8. /\ log' \in Seq(Nat) /\ Len(log') = Len(log) + k
      /\ \A i \in 1 .. Len(log) : log'[i] = log[i]
      /\ \A i \in 1 .. k : log'[Len(log) + i] = q[i]
    BY <1>1, <1>5, <1>6, Concatenated
<1>9. DOMAIN log' = 1 .. Len(log) + k /\ DOMAIN b = 1 .. Len(q) - k
    BY <1>1, <1>4, <1>7, <1>8
<1>10. Increasing(b)
  <2> SUFFICES ASSUME NEW i \in 1 .. Len(q) - k, NEW j \in 1 .. Len(q) - k, i < j
               PROVE  b[i] < b[j]
      BY <1>9 DEF Increasing
  <2>1. i + k \in 1 .. Len(q) /\ j + k \in 1 .. Len(q) /\ i + k < j + k
      BY <1>1, <1>3
  <2> QED BY <1>3, <1>7, <2>1
<1>11. Increasing(log')
  <2> SUFFICES ASSUME NEW i \in 1 .. Len(log) + k, NEW j \in 1 .. Len(log) + k,
                      i < j
               PROVE  log'[i] < log'[j]
      BY <1>9 DEF Increasing
  <2>1. CASE j <= Len(log)
    <3>1. i \in 1 .. Len(log) /\ j \in 1 .. Len(log)
        BY <1>1, <1>4, <2>1
    <3> QED BY <1>4, <1>8, <3>1
  <2>2. CASE j > Len(log)
    <3> DEFINE d == j - Len(log)
    <3>1. d \in 1 .. k /\ d \in 1 .. Len(q) /\ Len(log) + d = j
        BY <1>1, <1>3, <1>4, <2>2
    <3>2. log'[j] = q[d]
        BY <1>8, <3>1
    <3> HIDE DEF d
    <3>3. CASE i <= Len(log)
      <4>1. i \in 1 .. Len(log)
          BY <1>1, <1>4, <3>3
      <4>2. log'[i] \in Elements(log) /\ q[d] \in Elements(q)
          BY <1>3, <1>4, <1>8, <3>1, <4>1
      <4> QED BY <3>2, <4>2
    <3>4. CASE i > Len(log)
      <4> DEFINE e == i - Len(log)
      <4>1. e \in 1 .. k /\ e \in 1 .. Len(q) /\ Len(log) + e = i /\ e < d
          BY <1>1, <1>3, <1>4, <3>1, <3>4
      <4> HIDE DEF e
      <4>2. log'[i] = q[e]
          BY <1>8, <4>1
      <4> QED BY <1>3, <3>1, <3>2, <4>1, <4>2
    <3> QED BY <1>1, <1>4, <3>3, <3>4
  <2> QED BY <1>1, <1>4, <2>1, <2>2
<1>12. Elements(b) = {x \in Elements(q) : t < x}
  <2>1. ASSUME NEW x \in Elements(b) PROVE x \in Elements(q) /\ t < x
    <3>1. PICK i \in 1 .. Len(q) - k : x = b[i]
        BY <1>9 DEF Elements
    <3>2. i + k \in k + 1 .. Len(q) /\ i + k \in 1 .. Len(q) /\ x = q[i + k]
        BY <1>1, <1>3, <1>7, <3>1
    <3> QED BY <1>2, <1>3, <3>2
  <2>2. ASSUME NEW x \in Elements(q), t < x PROVE x \in Elements(b)
    <3>1. PICK i \in 1 .. Len(q) : x = q[i]
        BY <1>3
    <3>2. i > k
      <4>1. i <= k => i \in 1 .. k /\ q[i] \in Nat
          BY <1>1, <1>3
      <4> QED BY <1>1, <1>2, <1>3, <2>2, <3>1, <4>1
    <3>3. i - k \in 1 .. Len(q) - k /\ (i - k) + k = i
        BY <1>1, <1>3, <3>2
    <3>4. b[i - k] = x
        BY <1>7, <3>1, <3>3
    <3> QED BY <1>9, <3>3, <3>4 DEF Elements
  <2> QED BY <2>1, <2>2
<1>13. Elements(log') = Elements(log) \cup {x \in Elements(q) : x < t}
  <2>1. ASSUME NEW x \in Elements(log')
        PROVE  x \in Elements(log) \/ (x \in Elements(q) /\ x < t)
    <3>1. PICK i \in 1 .. Len(log) + k : x = log'[i]
        BY <1>9 DEF Elements
    <3>2. CASE i <= Len(log)
      <4>1. i \in 1 .. Len(log)
          BY <1>1, <1>4, <3>2
      <4> QED BY <1>4, <1>8, <3>1, <4>1
    <3>3. CASE i > Len(log)
      <4>1. i - Len(log) \in 1 .. k /\ i - Len(log) \in 1 .. Len(q)
            /\ Len(log) + (i - Len(log)) = i
          BY <1>1, <1>3, <1>4, <3>3
      <4>2. x = q[i - Len(log)]
          BY <1>8, <3>1, <4>1
      <4> QED BY <1>2, <1>3, <4>1, <4>2
    <3> QED BY <1>1, <1>4, <3>2, <3>3
  <2>2. ASSUME NEW x \in Elements(log) PROVE x \in Elements(log')
    <3>1. PICK i \in 1 .. Len(log) : x = log[i]
        BY <1>4
    <3>2. i \in 1 .. Len(log) + k /\ log'[i] = x
        BY <1>1, <1>4, <1>8, <3>1
    <3> QED BY <1>9, <3>2 DEF Elements
  <2>3. ASSUME NEW x \in Elements(q), x < t PROVE x \in Elements(log')
    <3>1. PICK i \in 1 .. Len(q) : x = q[i]
        BY <1>3
    <3>2. i <= k
      <4>1. i > k => i \in k + 1 .. Len(q)
          BY <1>1, <1>3
      <4> QED BY <1>1, <1>2, <1>3, <2>3, <3>1, <4>1
    <3>3. Len(log) + i \in 1 .. Len(log) + k /\ i \in 1 .. k
        BY <1>1, <1>4, <3>2
    <3>4. log'[Len(log) + i] = x
        BY <1>8, <3>1, <3>3
    <3> QED BY <1>9, <3>3, <3>4 DEF Elements
  <2> QED BY <2>1, <2>2, <2>3
<1>14. t \notin Elements(q)
  <2> SUFFICES ASSUME NEW i \in 1 .. Len(q), q[i] = t PROVE FALSE
      BY <1>3
  <2>1. i \in 1 .. k \/ i \in k + 1 .. Len(q)
      BY <1>1, <1>3
  <2> QED BY <1>2, <2>1
<1>15. t = u \/ t - 1 \in Elements(q)
  <2>1. CASE k >= 1 /\ t = q[k] + 1
    <3>1. k \in 1 .. Len(q) /\ q[k] \in Nat
        BY <1>1, <1>3, <2>1
    <3>2. t - 1 = q[k]
        BY <2>1, <3>1
    <3> QED BY <1>3, <3>1, <3>2
  <2> QED BY <1>2, <2>1
<1> QED BY <1>2, <1>5, <1>10, <1>11, <1>12, <1>13, <1>14, <1>15

-----------------------------------------------------------------------------
(* The steps that move no frame                                            *)

contents == <<indicate_seq, top, log, pending, rxf, loss>>

\* The lists and the window are as good after a step that changes neither them
\* nor how far the frame at hand has come.
LEMMA SameWindow ==
    ASSUME Received, Window, UNCHANGED contents,
           InHand' <=> InHand, Fresh' <=> Fresh,
           rpc' = "after" <=> rpc = "after"
    PROVE  Received' /\ Window'
<1> USE DEF contents
<1>1. Received'
    BY DEF Received, Elements, Increasing
<1>2. Unstarted => Unstarted'
    BY DEF Unstarted
<1>3. ASSUME NEW v \in Nat, WindowAt(v) PROVE WindowAt(v)'
    BY <1>3 DEF WindowAt, Elements, Gone
<1> QED BY <1>1, <1>2, <1>3 DEF Window

\* The types the arithmetic below rests on.
LEMMA Typed ==
    ASSUME TypeOK
    PROVE  /\ una \in Nat /\ top \in Int /\ rxf \in Nat /\ loss \in Int
           /\ pending \in Seq(Nat) /\ log \in Seq(Nat)
           /\ \A x \in Elements(log) \cup Elements(pending) : x \in Nat
<1>1. pending \in Seq(Nat) /\ log \in Seq(Nat)
    BY DEF TypeOK
<1>2. \A x \in Elements(log) : x \in Nat
    BY <1>1 DEF Elements
<1>3. \A x \in Elements(pending) : x \in Nat
    BY <1>1 DEF Elements
<1>4. una \in Nat /\ top \in Int /\ rxf \in Nat /\ loss \in Int
    BY DEF TypeOK
<1> QED BY <1>1, <1>2, <1>3, <1>4

\* The peer moves its window.
LEMMA PeerAdvancesStep ==
    ASSUME WindowInv, PeerAdvances
    PROVE  Session' /\ PeerInv' /\ Received' /\ Window'
<1>1. /\ una' = una + 1 /\ una <= top + Gap
      /\ UNCHANGED <<peerBA, top, rpc, rxf, rxseq, addba, sta, log, loss,
                     indicate_seq, enable, rec_abba_rsp_ack, pending>>
    BY DEF PeerAdvances, ctrl, recv
<1>2. (InHand' <=> InHand) /\ (Fresh' <=> Fresh) /\ (Quiet' <=> Quiet)
    BY <1>1 DEF InHand, Fresh, Quiet
<1>3. Session'
    BY <1>1, <1>2 DEF WindowInv, Session
<1>4. una \in Nat /\ top \in Int
    BY Typed DEF WindowInv
<1>5. PeerInv'
    BY <1>1, <1>2, <1>4, Constants DEF WindowInv, PeerInv
<1> QED BY <1>1, <1>2, <1>3, <1>5, SameWindow DEF WindowInv, contents

\* The receive path looks at enable.
LEMMA CheckEnableStep ==
    ASSUME WindowInv, RxCheckEnable
    PROVE  Session' /\ PeerInv' /\ Received' /\ Window'
<1>1. /\ rpc = "post" /\ rpc' = IF enable THEN "reorder" ELSE "direct"
      /\ UNCHANGED <<una, peerBA, top, rxf, rxseq, addba, sta, log, loss,
                     indicate_seq, enable, rec_abba_rsp_ack, pending>>
    BY DEF RxCheckEnable, peer, ctrl
<1>2. (InHand' <=> InHand) /\ (Fresh' <=> Fresh)
    BY <1>1 DEF InHand, Fresh
<1>3. ~enable => ~peerBA /\ pending = <<>>
    BY DEF WindowInv, Session
<1>4. Quiet' => Quiet
    BY <1>1, <1>3 DEF Quiet
<1>5. Session'
  <2>1. rpc' = "direct" => Fresh' /\ pending' = <<>>
      BY <1>1, <1>2, <1>3 DEF Fresh
  <2> QED BY <1>1, <2>1 DEF WindowInv, Session
<1>6. PeerInv'
    BY <1>1, <1>2, <1>4 DEF WindowInv, PeerInv, InHand
<1> QED BY <1>1, <1>2, <1>5, <1>6, SameWindow DEF WindowInv, contents

\* The timer, its cancellation and steps of something else.
LEMMA QuietStep ==
    ASSUME WindowInv,
           UNCHANGED <<una, peerBA, top, rxf, rxseq, addba, sta, log, loss,
                       indicate_seq, enable, rec_abba_rsp_ack, pending>>,
           UNCHANGED rpc \/ (rpc = "cancel" /\ rpc' = "idle")
    PROVE  Session' /\ PeerInv' /\ Received' /\ Window'
<1>1. /\ InHand' <=> InHand
      /\ Fresh' <=> Fresh
      /\ Quiet' <=> Quiet
      /\ rpc' = "after" <=> rpc = "after"
    BY DEF InHand, Fresh, Quiet
<1>2. Session'
    BY <1>1 DEF WindowInv, Session
<1>3. PeerInv'
    BY <1>1 DEF WindowInv, PeerInv
<1> QED BY <1>1, <1>2, <1>3, SameWindow DEF WindowInv, contents

\* An ADDBA response goes out; the peer has no session yet, so without "early" it
\* still sends frame after frame.
LEMMA IssueStep ==
    ASSUME WindowInv, Events = {}, NEW accept \in BOOLEAN, NEW acked \in BOOLEAN,
           issue_addba_rsp(accept, acked)
    PROVE  Session' /\ PeerInv' /\ Received' /\ Window'
<1>1. /\ ~peerBA /\ ~peerBA'
      /\ addba' = "reject" => ~enable
      /\ UNCHANGED <<una, top, rpc, rxf, rxseq, sta, log, loss, indicate_seq,
                     enable, rec_abba_rsp_ack, pending>>
    BY DEF issue_addba_rsp, ctrl, recv
<1>2. (InHand' <=> InHand) /\ (Fresh' <=> Fresh) /\ (Quiet' <=> Quiet)
    BY <1>1 DEF InHand, Fresh, Quiet
<1>3. Session'
    BY <1>1, <1>2 DEF WindowInv, Session
<1>4. PeerInv'
    BY <1>1, <1>2 DEF WindowInv, PeerInv
<1> QED BY <1>1, <1>2, <1>3, <1>4, SameWindow DEF WindowInv, contents

\* The session is switched on at both ends, and WinStart is to follow the next
\* frame.
LEMMA AddbaStep ==
    ASSUME WindowInv, add_ba_rsp_hdl
    PROVE  Session' /\ PeerInv' /\ Received' /\ Window'
<1>1. /\ addba # "none" /\ addba' = "none" /\ rec_abba_rsp_ack'
      /\ enable' <=> addba # "reject"
      /\ peerBA' <=> peerBA \/ addba = "accept"
      /\ UNCHANGED <<una, top, rpc, rxf, rxseq, sta, log, loss, indicate_seq,
                     pending>>
    BY DEF add_ba_rsp_hdl, recv
<1>2. ~peerBA
    BY <1>1 DEF WindowInv, Session
<1>3. Fresh /\ Fresh' /\ Quiet /\ (InHand' <=> InHand)
    BY <1>1, <1>2 DEF InHand, Fresh, Quiet
<1>4. Session'
  <2>1. addba = "reject" => ~enable /\ pending = <<>>
      BY DEF WindowInv, Session
  <2> QED BY <1>1, <1>2, <1>3, <2>1 DEF WindowInv, Session
<1>5. PeerInv'
    BY <1>1, <1>3 DEF WindowInv, PeerInv
<1> QED BY <1>1, <1>3, <1>4, <1>5, SameWindow DEF WindowInv, contents

-----------------------------------------------------------------------------
(* The steps that move a frame                                             *)

\* A frame comes in.  Until the session is used it is later than every frame
\* before it: the only one that could come twice is the last, and recv_decache
\* refuses that.
LEMMA RxFrameStep ==
    ASSUME WindowInv, NEW n \in una .. una + W - 1, RxFrame(n)
    PROVE  Session' /\ PeerInv' /\ Received' /\ Window'
<1>1. /\ rpc = "idle" /\ rpc' = "post" /\ rxf' = n /\ rxseq' = SN(n)
      /\ SN(n) # rxseq /\ n \in Sendable
      /\ top' = IF n > top THEN n ELSE top
      /\ UNCHANGED <<una, peerBA, addba, sta, log, loss, indicate_seq, enable,
                     rec_abba_rsp_ack, pending>>
    BY DEF RxFrame, peer, ctrl
<1>2. ~InHand /\ InHand' /\ (Fresh' <=> Fresh) /\ (Fresh <=> Quiet)
      /\ (Quiet' <=> ~peerBA)
    BY <1>1 DEF InHand, Fresh, Quiet
<1>3. /\ una \in Nat /\ top \in Int /\ n \in Nat /\ W \in Nat /\ Gap \in Nat
      /\ Start \in Nat
    BY Typed, Constants DEF WindowInv
<1>4. /\ una >= Start /\ una <= top + Gap + 1 /\ top < una + W
      /\ top >= Start - 1
    BY DEF WindowInv, PeerInv
<1>5. Fresh => n > top
  <2> SUFFICES ASSUME Fresh PROVE n > top
      OBVIOUS
  <2>1. top <= una /\ (top = una => rxseq = SN(top))
      BY <1>2 DEF WindowInv, PeerInv
  <2>2. n # top
      BY <1>1, <1>3, <2>1
  <2> QED BY <1>3, <2>1, <2>2
<1>6. ~peerBA => n = una /\ Fresh
    BY <1>1 DEF Sendable, Fresh
<1>7. Session'
    BY <1>1 DEF WindowInv, Session
<1>8. /\ top' \in Int /\ top' >= top /\ top' >= n /\ (top' = top \/ top' = n)
      /\ Fresh => top' = n
    BY <1>1, <1>3, <1>5
<1>9. PeerInv'
  <2>1. una' >= Start /\ top' >= Start - 1 /\ una' <= top' + Gap + 1
        /\ top' < una' + W
      BY <1>1, <1>3, <1>4, <1>8
  <2>2. Quiet' => top' <= una' /\ (top' = una' => rxseq' = SN(top'))
      BY <1>1, <1>2, <1>3, <1>6, <1>8
  <2>3. Start <= rxf' /\ rxf' <= top' /\ top' < rxf' + W
      BY <1>1, <1>3, <1>4, <1>8
  <2>4. Fresh' => rxf' = top'
      BY <1>1, <1>2, <1>8
  <2> QED BY <2>1, <2>2, <2>3, <2>4 DEF PeerInv
<1>10. Received'
  <2>1. Increasing(log)' /\ Increasing(pending)'
      BY <1>1 DEF WindowInv, Received, Increasing
  <2>2. ASSUME NEW x \in Elements(log) \cup Elements(pending)
        PROVE  Start <= x /\ x <= top' /\ (Fresh => x < n)
    <3>1. Start <= x /\ x <= top /\ x \in Nat
        BY Typed DEF WindowInv, Received
    <3> QED BY <1>3, <1>5, <1>8, <3>1
  <2>3. Elements(log)' = Elements(log) /\ Elements(pending)' = Elements(pending)
      BY <1>1 DEF Elements
  <2> QED BY <1>1, <1>2, <2>1, <2>2, <2>3 DEF Received
<1>11. Window'
  <2>1. CASE Unstarted
      BY <1>1, <1>2, <2>1 DEF Unstarted, Window
  <2>2. ASSUME NEW v \in Nat, WindowAt(v) PROVE WindowAt(v)'
    <3>1. Elements(log)' = Elements(log) /\ Elements(pending)' = Elements(pending)
          /\ Gone(log, v)' = Gone(log, v)
        BY <1>1 DEF Elements, Gone
    <3>2. v <= top + 1 /\ top < v + W
        BY <1>2, <2>2 DEF WindowAt
    <3>3. v <= top' + 1 /\ (top' < v + W \/ rxf' = top')
        BY <1>1, <1>3, <1>8, <3>2
    <3>4. rxf' < v + 2 * W + Gap /\ (Fresh' => v <= rxf')
        BY <1>1, <1>2, <1>3, <1>4, <1>5, <3>2
    <3>5. v + W <= top' + 1 \/ \E x \in Elements(log) : v <= x + 1
      <4>1. v + W <= top + 1 \/ \E x \in Elements(log) : v <= x + 1
          BY <2>2 DEF WindowAt
      <4>2. v + W <= top + 1 => v + W <= top' + 1
        <5>1. \A a, b, c \in Int : a <= b /\ c <= a + 1 => c <= b + 1
            OBVIOUS
        <5>2. top \in Int /\ top' \in Int /\ top <= top' /\ v + W \in Int
            BY <1>3, <1>8
        <5> QED BY <5>1, <5>2
      <4> QED BY <4>1, <4>2
    <3>6. \A x \in Elements(log) : x < v
        BY <1>1, <2>2 DEF WindowAt
    <3> QED BY <1>1, <1>2, <2>2, <3>1, <3>3, <3>4, <3>5, <3>6 DEF WindowAt
  <2> QED BY <2>1, <2>2 DEF WindowInv, Window
<1> QED BY <1>7, <1>9, <1>10, <1>11

\* Without a session the frame is passed on at once.
LEMMA RxDirectStep ==
    ASSUME WindowInv, RxDirect
    PROVE  Session' /\ PeerInv' /\ Received' /\ Window'
<1>1. /\ rpc = "direct" /\ rpc' = "after"
      /\ indicate_seq' = SN(rxf) /\ log' = Append(log, rxf)
      /\ UNCHANGED <<una, peerBA, top, rxf, rxseq, addba, sta, loss, enable,
                     rec_abba_rsp_ack, pending>>
    BY DEF RxDirect, peer
<1>2. InHand /\ ~InHand' /\ (Fresh' <=> Fresh) /\ (Quiet' <=> Quiet)
    BY <1>1 DEF InHand, Fresh, Quiet
<1>3. Fresh /\ pending = <<>>
    BY <1>1 DEF WindowInv, Session
<1>4. rxf \in Nat /\ top \in Int /\ log \in Seq(Nat)
      /\ \A x \in Elements(log) : x \in Nat
    BY Typed DEF WindowInv
<1>5. rxf = top /\ Start <= rxf /\ rxf <= top /\ top < rxf + W
    BY <1>2, <1>3 DEF WindowInv, PeerInv
<1>6. \A x \in Elements(log) : Start <= x /\ x <= top /\ x < rxf
    BY <1>2, <1>3 DEF WindowInv, Received
<1>7. Elements(log') = Elements(log) \cup {rxf} /\ Increasing(log')
  <2>1. /\ DOMAIN log = 1 .. Len(log) /\ DOMAIN log' = 1 .. Len(log) + 1
        /\ Len(log) \in Nat
        /\ \A i \in 1 .. Len(log) : log'[i] = log[i]
        /\ log'[Len(log) + 1] = rxf
      BY <1>1, <1>4
  <2>2. Elements(log') = Elements(log) \cup {rxf}
    <3>1. ASSUME NEW x \in Elements(log') PROVE x \in Elements(log) \cup {rxf}
      <4>1. PICK i \in 1 .. Len(log) + 1 : x = log'[i]
          BY <2>1 DEF Elements
      <4>2. i \in 1 .. Len(log) \/ i = Len(log) + 1
          BY <2>1
      <4> QED BY <2>1, <4>1, <4>2 DEF Elements
    <3>2. ASSUME NEW x \in Elements(log) PROVE x \in Elements(log')
      <4>1. PICK i \in 1 .. Len(log) : x = log[i]
          BY <2>1 DEF Elements
      <4>2. i \in 1 .. Len(log) + 1
          BY <2>1
      <4> QED BY <2>1, <4>1, <4>2 DEF Elements
    <3>3. rxf \in Elements(log')
      <4>1. Len(log) + 1 \in 1 .. Len(log) + 1
          BY <2>1
      <4> QED BY <2>1, <4>1 DEF Elements
    <3> QED BY <3>1, <3>2, <3>3
  <2>3. Increasing(log')
    <3> SUFFICES ASSUME NEW i \in 1 .. Len(log) + 1, NEW j \in 1 .. Len(log) + 1,
                        i < j
                 PROVE  log'[i] < log'[j]
        BY <2>1 DEF Increasing
    <3>1. i \in 1 .. Len(log) /\ (j \in 1 .. Len(log) \/ j = Len(log) + 1)
        BY <2>1
    <3>2. j \in 1 .. Len(log) => log[i] < log[j]
      <4>1. Increasing(log)
          BY DEF WindowInv, Received
      <4> QED BY <1>4, <3>1, <4>1, IncreasingAt
    <3>3. log[i] < rxf
        BY <1>6, <2>1, <3>1 DEF Elements
    <3> QED BY <2>1, <3>1, <3>2, <3>3
  <2> QED BY <2>2, <2>3
<1>8. Elements(pending') = {} /\ Increasing(pending')
    BY <1>1, <1>3 DEF Elements, Increasing
<1>9. Session'
    BY <1>1, <1>2, <1>3 DEF WindowInv, Session
<1>10. PeerInv'
    BY <1>1, <1>2, <1>3, <1>5 DEF WindowInv, PeerInv
<1>11. Received'
    BY <1>1, <1>2, <1>5, <1>6, <1>7, <1>8 DEF Received
<1>12. 0 <= loss /\ loss <= Cardinality(Gone(log', rxf))
  <2>1. \A x \in Elements(log') : x \in Nat
      BY <1>4, <1>7
  <2>2. CASE Unstarted
    <3>1. loss = 0
        BY <2>2 DEF Unstarted
    <3>2. Cardinality(Gone(log', rxf)) \in Nat
      <4>1. \A x \in Elements(log') : x \in Elements(log') \/ x >= rxf
          OBVIOUS
      <4>2. rxf <= rxf
          BY <1>4
      <4> QED BY <1>4, <2>1, <4>1, <4>2, GoneStays
    <3> QED BY <3>1, <3>2
  <2>3. ASSUME NEW v \in Nat, WindowAt(v)
        PROVE  0 <= loss /\ loss <= Cardinality(Gone(log', rxf))
    <3>1. /\ Start <= v /\ v <= rxf /\ \A x \in Elements(log) : x < v
          /\ 0 <= loss /\ loss <= Cardinality(Gone(log, v))
        BY <1>1, <1>2, <1>3, <2>3 DEF WindowAt
    <3>2. \A x \in Elements(log') : x \in Elements(log) \/ x >= v
        BY <1>7, <3>1
    <3>3. /\ Cardinality(Gone(log, v)) \in Nat
          /\ Cardinality(Gone(log', rxf)) \in Nat
          /\ Cardinality(Gone(log, v)) <= Cardinality(Gone(log', rxf))
        BY <1>4, <2>1, <3>1, <3>2, GoneStays
    <3>4. loss \in Int
        BY Typed DEF WindowInv
    <3> QED BY <3>1, <3>3, <3>4
  <2> QED BY <2>2, <2>3 DEF WindowInv, Window
<1>13. WindowAt(rxf)'
  <2>1. rxf' \in Nat /\ rxf' = rxf /\ top' = top /\ loss' = loss
      BY <1>1, <1>4
  <2>2. rxf <= top + 1 /\ top < rxf + W /\ rxf <= rxf + 1
      BY <1>4, <1>5, Constants
  <2>3. \A x \in Elements(log') : x < rxf \/ x = rxf
      BY <1>6, <1>7
  <2>4. rxf \in Elements(log')
      BY <1>7
  <2> QED BY <1>1, <1>2, <1>5, <1>8, <1>12, <2>1, <2>2, <2>3, <2>4
          DEF WindowAt
<1>14. Window'
    BY <1>4, <1>13, <1>1 DEF Window
<1> QED BY <1>9, <1>10, <1>11, <1>14

\* ... and WinStart follows it.
LEMMA RxDirectDoneStep ==
    ASSUME WindowInv, RxDirectDone
    PROVE  Session' /\ PeerInv' /\ Received' /\ Window'
<1>1. /\ rpc = "after" /\ rpc' = "idle"
      /\ indicate_seq' = (indicate_seq + 1) % M
      /\ UNCHANGED <<una, peerBA, top, rxf, rxseq, addba, sta, log, loss, enable,
                     rec_abba_rsp_ack, pending>>
    BY DEF RxDirectDone, peer
<1>2. ~InHand /\ ~InHand' /\ (Fresh' <=> Fresh) /\ (Quiet' <=> Quiet)
    BY <1>1 DEF InHand, Fresh, Quiet
<1>3. Fresh /\ pending = <<>>
    BY <1>1 DEF WindowInv, Session
<1>4. rxf = top /\ Start <= rxf
    BY <1>1, <1>3 DEF WindowInv, PeerInv
<1>5. Session'
    BY <1>1, <1>2 DEF WindowInv, Session
<1>6. PeerInv'
    BY <1>1, <1>2 DEF WindowInv, PeerInv
<1>7. Elements(log)' = Elements(log) /\ Elements(pending)' = {}
    BY <1>1, <1>3 DEF Elements
<1>8. Received'
    BY <1>1, <1>2, <1>7 DEF WindowInv, Received, Increasing
<1>9. PICK v \in Nat : WindowAt(v)
    BY <1>1 DEF WindowInv, Window, Unstarted
<1>10. /\ indicate_seq = SN(v) /\ v = rxf /\ v \in Elements(log)
       /\ \A x \in Elements(log) : x < v \/ x = v
       /\ 0 <= loss /\ loss <= Cardinality(Gone(log, v))
    BY <1>1, <1>9 DEF WindowAt
<1>11. indicate_seq' = SN(v + 1)
    BY <1>1, <1>10, SNPlus
<1>12. /\ top \in Int /\ W \in Nat /\ Start \in Nat /\ W > 0 /\ loss \in Int
       /\ \A x \in Elements(log) : x \in Nat
    BY Typed, Constants DEF WindowInv
<1>13. Cardinality(Gone(log, v)) <= Cardinality(Gone(log, v + 1))
       /\ Cardinality(Gone(log, v)) \in Nat
       /\ Cardinality(Gone(log, v + 1)) \in Nat
  <2>1. v + 1 \in Nat /\ v <= v + 1
        /\ \A x \in Elements(log) : x \in Elements(log) \/ x >= v
      OBVIOUS
  <2> QED BY <1>12, <2>1, GoneStays
<1>14. WindowAt(v + 1)'
  <2>1. \A x \in Elements(log) : x < v + 1
      BY <1>10, <1>12
  <2>2. Start <= v + 1 /\ v + 1 <= top + 1 /\ top < v + 1 + W
      BY <1>4, <1>10, <1>12
  <2>3. \E x \in Elements(log) : v + 1 <= x + 1
      BY <1>10
  <2>4. Gone(log, v + 1)' = Gone(log, v + 1)
      BY <1>1 DEF Gone, Elements
  <2>5. loss <= Cardinality(Gone(log, v + 1))
      BY <1>10, <1>12, <1>13
  <2> QED BY <1>1, <1>2, <1>7, <1>10, <1>11, <2>1, <2>2, <2>3, <2>4, <2>5
          DEF WindowAt
<1>15. Window'
    BY <1>14 DEF Window
<1> QED BY <1>5, <1>6, <1>8, <1>15

\* check_indicate_seq in frame numbers: the window start u after frame n.
LEMMA CheckIsWindow ==
    ASSUME NEW n \in Nat, NEW v \in Nat, n < v + 2 * W + Gap, v <= n
    PROVE  \E u \in Nat :
              /\ check_indicate_seq(SN(n), SN(v)) = SN(u)
              /\ \/ n = v /\ u = v + 1
                 \/ v < n /\ n < v + W /\ u = v
                 \/ v + W <= n /\ u = n - (W - 1)
<1>1. /\ W \in Nat /\ W > 0 /\ Gap \in Nat /\ Half \in Nat /\ M = 2 * Half
      /\ 2 * W + Gap <= Half /\ M \in Nat
    BY Constants
<1>2. SN(n) = SN(v) <=> n = v
  <2>1. n - v < M /\ v - n < M
      BY <1>1
  <2> QED BY <2>1, SNInjective
<1> DEFINE e == v + (W - 1)
<1>3. (SN(v) + W - 1) % M = SN(e) /\ e \in Nat
  <2>1. SN(v) \in Nat
      BY <1>1, SNType
  <2>2. PICK d \in Nat : d = W - 1
      BY <1>1
  <2>3. (SN(v) + d) % M = SN(v + d)
      BY SNPlus
  <2>4. SN(v) + d = SN(v) + W - 1 /\ v + d = e /\ v + d \in Nat
      BY <1>1, <2>1, <2>2
  <2> QED BY <2>3, <2>4
<1>4. SN_LESS(SN(e), SN(n)) <=> e < n
  <2>1. e - n < Half /\ n - e <= Half
      BY <1>1
  <2> HIDE DEF e
  <2> QED BY <1>3, <2>1, LessIsBefore
<1>5. CASE n = v
  <2>1. check_indicate_seq(SN(n), SN(v)) = SN(v + 1)
      BY <1>5, SNNext DEF check_indicate_seq
  <2> QED BY <1>5, <2>1
<1>6. CASE v < n /\ n < v + W
  <2>1. ~(e < n) /\ n # v
      BY <1>1, <1>6
  <2>2. check_indicate_seq(SN(n), SN(v)) = SN(v)
      BY <1>2, <1>3, <1>4, <2>1 DEF check_indicate_seq
  <2> QED BY <1>6, <2>2
<1>7. CASE v + W <= n
  <2>1. e < n /\ n # v /\ W - 1 \in 0 .. M - 1 /\ W - 1 <= n
        /\ n - (W - 1) \in Nat
      BY <1>1, <1>7
  <2>2. check_indicate_seq(SN(n), SN(v)) = Minus(SN(n), W - 1)
      BY <1>2, <1>3, <1>4, <2>1 DEF check_indicate_seq
  <2>3. Minus(SN(n), W - 1) = SN(n - (W - 1))
      BY <2>1, SNMinus
  <2> QED BY <1>7, <2>1, <2>2, <2>3
<1> QED BY <1>1, <1>5, <1>6, <1>7

\* The loop may run from window start u over the pending frames and the one in
\* hand: they are at or after b and before the end of the window at u.
Ready(u, b) ==
    /\ Start <= b /\ b <= u /\ u <= top + 1 /\ top < u + W
    /\ \A x \in Elements(pending) \cup {rxf} :
          b <= x /\ x < u + W /\ u - x < Half
    /\ \A x \in Elements(log) : x < b
    /\ \/ u = rxf + 1 \/ u + W <= top + 1
       \/ \E x \in Elements(log) : u <= x + 1
    /\ 0 <= loss /\ loss <= Cardinality(Gone(log, b))

Dropped == /\ \E v \in Nat : WindowAt(v) /\ rxf < v
           /\ peerBA /\ UNCHANGED <<indicate_seq, pending, log>>

Repeated == /\ \E v \in Nat : WindowAt(v)
            /\ peerBA /\ rxf \in Elements(pending)
            /\ UNCHANGED <<indicate_seq, pending, log>>

Taken == /\ rxf \notin Elements(pending) /\ Near(pending, rxf)
         /\ \E u, b \in Nat :
               /\ Ready(u, b)
               /\ recv_indicatepkts_in_order(Inserted(pending, rxf), SN(u))

\* recv_indicatepkt_reorder, whose comparisons are all of sequence numbers, does
\* one of three things in terms of frames: it drops one that is before the
\* window start, or one that is pending, or takes it.
LEMMA ReorderCases ==
    ASSUME WindowInv, RxReorder PROVE Dropped \/ Repeated \/ Taken
<1> DEFINE s == SN(rxf)
           w == IF rec_abba_rsp_ack \/ indicate_seq = Unset
                THEN s ELSE indicate_seq
           v == check_indicate_seq(s, w)
<1>1. /\ rpc = "reorder"
      /\ \/ Behind(s, w) /\ indicate_seq' = w /\ UNCHANGED <<pending, log>>
         \/ /\ ~Behind(s, w) /\ Duplicate(pending, rxf)
            /\ indicate_seq' = v /\ UNCHANGED <<pending, log>>
         \/ /\ ~Behind(s, w) /\ ~Duplicate(pending, rxf)
            /\ recv_indicatepkts_in_order(Inserted(pending, rxf), v)
    BY DEF RxReorder
<1>2. InHand
    BY <1>1 DEF InHand
<1>3. /\ rxf \in Nat /\ top \in Int /\ loss \in Int /\ pending \in Seq(Nat)
      /\ \A x \in Elements(log) \cup Elements(pending) : x \in Nat
    BY Typed DEF WindowInv
<1>4. /\ W \in Nat /\ W > 0 /\ Gap \in Nat /\ Half \in Nat /\ Start \in Nat
      /\ 2 * W + Gap <= Half /\ M = 2 * Half
    BY Constants
<1>5. Start <= rxf /\ rxf <= top /\ top < rxf + W /\ (Fresh => rxf = top)
    BY <1>2 DEF WindowInv, PeerInv
<1>6. Increasing(pending)
    BY DEF WindowInv, Received
<1>7. Fresh => \A x \in Elements(log) \cup Elements(pending) : x < rxf
    BY <1>2 DEF WindowInv, Received
<1>8. \A x \in Elements(log) \cup Elements(pending) : Start <= x /\ x <= top
    BY DEF WindowInv, Received
<1> HIDE DEF s, w, v
<1>9. CASE rec_abba_rsp_ack \/ indicate_seq = Unset
  <2>1. Fresh
    <3>1. ASSUME indicate_seq = Unset PROVE Unstarted
      <4>1. ASSUME NEW x \in Nat, WindowAt(x) PROVE FALSE
        <5>1. SN(x) = Unset
            BY <3>1, <4>1 DEF WindowAt
        <5> QED BY <5>1, SNType, Constants
      <4> QED BY <4>1 DEF WindowInv, Window
    <3> QED BY <1>9, <3>1 DEF Fresh, Unstarted
  <2>2. rxf = top /\ \A x \in Elements(log) \cup Elements(pending) : x < rxf
      BY <1>5, <1>7, <2>1
  <2>3. w = SN(rxf)
      BY <1>9 DEF w, s
  <2>4. ~Behind(s, w)
    <3>1. SN(rxf) \in Nat
        BY <1>3, SNType, Constants
    <3> QED BY <1>4, <2>3, <3>1 DEF Behind, SN_LESS, Minus, s, Half
  <2>5. v = SN(rxf + 1)
      BY <1>3, <2>3, SNNext DEF v, s, check_indicate_seq
  <2>6. rxf \notin Elements(pending)
      BY <1>3, <2>2
  \* A bound from below for everything that may be passed on now.
  <2>7. \E b \in Nat :
           /\ Start <= b /\ b <= rxf /\ \A x \in Elements(log) : x < b
           /\ \A x \in Elements(pending) : b <= x
           /\ 0 <= loss /\ loss <= Cardinality(Gone(log, b))
           /\ \A x \in Elements(pending) : rxf + 1 - x < Half
    <3>1. CASE Unstarted
      <4>1. Elements(log) = {} /\ Elements(pending) = {} /\ loss = 0
          BY <3>1 DEF Unstarted, Elements
      <4>2. Cardinality(Gone(log, Start)) \in Nat
          BY <1>4, <4>1, GoneStays
      <4> QED BY <1>4, <1>5, <4>1, <4>2
    <3>2. ASSUME NEW x0 \in Nat, WindowAt(x0)
          PROVE  /\ Start <= x0 /\ x0 <= rxf /\ \A x \in Elements(log) : x < x0
                 /\ \A x \in Elements(pending) : x0 <= x
                 /\ 0 <= loss /\ loss <= Cardinality(Gone(log, x0))
                 /\ \A x \in Elements(pending) : rxf + 1 - x < Half
      <4>1. /\ Start <= x0 /\ x0 <= rxf /\ \A x \in Elements(log) : x < x0
            /\ \A x \in Elements(pending) : x0 < x /\ x < x0 + W
            /\ 0 <= loss /\ loss <= Cardinality(Gone(log, x0))
            /\ rxf < x0 + 2 * W + Gap
          BY <1>1, <1>2, <2>1, <3>2 DEF WindowAt
      <4>2. ASSUME NEW x \in Elements(pending)
            PROVE  x0 <= x /\ rxf + 1 - x < Half
        <5>1. x \in Nat /\ x0 < x
            BY <1>3, <4>1
        <5> QED BY <1>3, <1>4, <4>1, <5>1
      <4> QED BY <4>1, <4>2
    <3> QED BY <3>1, <3>2 DEF WindowInv, Window
  <2>8. PICK b \in Nat :
           /\ Start <= b /\ b <= rxf /\ \A x \in Elements(log) : x < b
           /\ \A x \in Elements(pending) : b <= x
           /\ 0 <= loss /\ loss <= Cardinality(Gone(log, b))
           /\ \A x \in Elements(pending) : rxf + 1 - x < Half
      BY <2>7
  <2>9. Near(pending, rxf)
    <3> SUFFICES ASSUME NEW x \in Elements(pending)
                 PROVE  x - rxf < Half /\ rxf - x < Half
        BY DEF Near
    <3>1. x \in Nat /\ x < rxf /\ rxf + 1 - x < Half
        BY <1>3, <2>2, <2>8
    <3> QED BY <1>3, <1>4, <3>1
  <2>10. Ready(rxf + 1, b)
    <3>1. PICK u \in Nat : u = rxf + 1
        BY <1>3
    <3>2. ASSUME NEW x \in Elements(pending) \cup {rxf}
          PROVE  b <= x /\ x < u + W /\ u - x < Half
      <4>1. CASE x = rxf
          BY <1>3, <1>4, <2>8, <3>1, <4>1
      <4>2. CASE x \in Elements(pending)
        <5>1. x \in Nat /\ x < rxf /\ rxf + 1 - x < Half /\ b <= x
            BY <1>3, <2>2, <2>8, <4>2
        <5> QED BY <1>3, <1>4, <3>1, <5>1
      <4> QED BY <4>1, <4>2
    <3>3. b <= u /\ u <= top + 1 /\ top < u + W
        BY <1>3, <1>4, <2>2, <2>8, <3>1
    <3>4. Ready(u, b)
        BY <2>8, <3>1, <3>2, <3>3 DEF Ready
    <3> QED BY <3>1, <3>4
  <2>11. rxf + 1 \in Nat
      BY <1>3
  <2>12. ~Duplicate(pending, rxf)
      BY <1>3, <1>6, <2>6, <2>9, InsertSorted
  <2> QED BY <1>1, <2>4, <2>5, <2>6, <2>8, <2>9, <2>10, <2>11, <2>12 DEF Taken
<1>10. CASE ~(rec_abba_rsp_ack \/ indicate_seq = Unset)
  <2>1. PICK y \in Nat : WindowAt(y)
      BY <1>10 DEF WindowInv, Window, Unstarted
  <2>2. w = SN(y)
      BY <1>10, <2>1 DEF w, WindowAt
  <2>3. /\ Start <= y /\ y <= top + 1 /\ \A x \in Elements(log) : x < y
        /\ \A x \in Elements(pending) : y < x /\ x < y + W
        /\ top < y + W \/ rxf = top
        /\ rxf < y + 2 * W + Gap /\ (Fresh => y <= rxf)
        /\ 0 <= loss /\ loss <= Cardinality(Gone(log, y))
        /\ y + W <= top + 1 \/ \E x \in Elements(log) : y <= x + 1
      BY <1>1, <1>2, <2>1 DEF WindowAt
  <2>4. Behind(s, w) <=> rxf < y
    <3>1. rxf - y < Half /\ y - rxf <= Half
        BY <1>3, <1>4, <1>5, <2>3
    <3> QED BY <1>3, <2>2, <3>1, LessIsBefore DEF Behind, s
  <2>5. ~peerBA => Fresh
      BY DEF Fresh
  <2>6. CASE rxf < y
    <3>1. peerBA
        BY <1>3, <2>3, <2>5, <2>6
    <3>2. indicate_seq' = indicate_seq /\ UNCHANGED <<pending, log>>
        BY <1>1, <1>10, <2>4, <2>6 DEF w
    <3> QED BY <2>1, <2>6, <3>1, <3>2 DEF Dropped
  <2>7. CASE y <= rxf
    <3>1. ~Behind(s, w)
        BY <1>3, <2>4, <2>7
    <3>2. PICK u \in Nat :
              /\ v = SN(u)
              /\ \/ rxf = y /\ u = y + 1
                 \/ y < rxf /\ rxf < y + W /\ u = y
                 \/ y + W <= rxf /\ u = rxf - (W - 1)
        BY <1>3, <2>2, <2>3, <2>7, CheckIsWindow DEF v, s
    <3>3. Near(pending, rxf)
      <4> SUFFICES ASSUME NEW x \in Elements(pending)
                   PROVE  x - rxf < Half /\ rxf - x < Half
          BY DEF Near
      <4>1. x \in Nat /\ y < x /\ x < y + W
          BY <1>3, <2>3
      <4> QED BY <1>3, <1>4, <2>3, <2>7, <4>1
    <3>4. Duplicate(pending, rxf) <=> rxf \in Elements(pending)
        BY <1>3, <1>6, <3>3, InsertSorted
    <3>5. CASE rxf \in Elements(pending)
      <4>1. y < rxf /\ rxf < y + W
          BY <2>3, <3>5
      <4>2. u = y
          BY <1>3, <1>4, <3>2, <4>1
      <4>3. peerBA
          BY <1>3, <1>7, <2>5, <3>5
      <4>4. indicate_seq' = indicate_seq /\ UNCHANGED <<pending, log>>
          BY <1>1, <1>10, <2>2, <3>1, <3>2, <3>4, <3>5, <4>2 DEF w
      <4> QED BY <2>1, <3>5, <4>3, <4>4 DEF Repeated
    <3>6. CASE rxf \notin Elements(pending)
      <4>1. Ready(u, y)
        <5>1. y <= u /\ u <= top + 1 /\ top < u + W
            BY <1>3, <1>4, <1>5, <2>3, <3>2
        <5>2. ASSUME NEW x \in Elements(pending) \cup {rxf}
              PROVE  y <= x /\ x < u + W /\ u - x < Half
          <6>1. CASE x = rxf
              BY <1>3, <1>4, <2>3, <2>7, <3>2, <6>1
          <6>2. CASE x \in Elements(pending)
            <7>1. x \in Nat /\ y < x /\ x < y + W
                BY <1>3, <2>3, <6>2
            <7> QED BY <1>3, <1>4, <2>3, <2>7, <3>2, <7>1
          <6> QED BY <6>1, <6>2
        <5>3. \/ u = rxf + 1 \/ u + W <= top + 1
              \/ \E x \in Elements(log) : u <= x + 1
          <6>1. CASE u = y
              BY <2>3, <6>1
          <6>2. CASE u = y + 1 /\ rxf = y
              BY <6>2
          <6>3. CASE u = rxf - (W - 1)
              BY <1>3, <1>4, <1>5, <6>3
          <6> QED BY <3>2, <6>1, <6>2, <6>3
        <5> QED BY <2>3, <5>1, <5>2, <5>3 DEF Ready
      <4>2. recv_indicatepkts_in_order(Inserted(pending, rxf), SN(u))
          BY <1>1, <3>1, <3>2, <3>4, <3>6
      <4> QED BY <3>3, <3>6, <4>1, <4>2 DEF Taken
    <3> QED BY <3>5, <3>6
  <2> QED BY <1>3, <2>6, <2>7
<1> QED BY <1>9, <1>10

\* A frame that is taken joins the pending ones, and the loop passes on those
\* before a new window start t, which none of them has.
LEMMA TakenDelivers ==
    ASSUME WindowInv, NEW u \in Nat, NEW b \in Nat, Ready(u, b),
           rxf \notin Elements(pending), Near(pending, rxf),
           recv_indicatepkts_in_order(Inserted(pending, rxf), SN(u))
    PROVE  LET Q == Elements(pending) \cup {rxf} IN
           /\ Increasing(log') /\ Increasing(pending')
           /\ \E t \in Nat :
                 /\ t >= u /\ indicate_seq' = SN(t)
                 /\ t \notin Q
                 /\ Elements(log') = Elements(log) \cup {x \in Q : x < t}
                 /\ Elements(pending') = {x \in Q : t < x}
                 /\ t = u \/ t - 1 \in Q
<1> DEFINE q == Inserted(pending, rxf)
<1>1. /\ rxf \in Nat /\ pending \in Seq(Nat) /\ log \in Seq(Nat)
      /\ \A x \in Elements(log) \cup Elements(pending) : x \in Nat
    BY Typed DEF WindowInv
<1>2. W \in Nat /\ Half \in Nat /\ W <= Half
    BY Constants
<1>3. Increasing(log) /\ Increasing(pending)
    BY DEF WindowInv, Received
<1>4. /\ Increasing(q) /\ q \in Seq(Nat)
      /\ Elements(q) = Elements(pending) \cup {rxf}
    BY <1>1, <1>3, InsertSorted
<1>5. /\ \A x \in Elements(pending) \cup {rxf} :
            b <= x /\ x < u + W /\ u - x < Half
      /\ \A x \in Elements(log) : x < b
    BY DEF Ready
<1>6. Near(q, u)
  <2> SUFFICES ASSUME NEW x \in Elements(q)
               PROVE  x - u < Half /\ u - x < Half
      BY DEF Near
  <2>1. x \in Nat /\ x < u + W /\ u - x < Half
      BY <1>1, <1>4, <1>5
  <2> QED BY <1>2, <2>1
<1>7. ASSUME NEW x \in Elements(log), NEW y \in Elements(q) PROVE x < y
  <2>1. x \in Nat /\ y \in Nat /\ x < b /\ b <= y
      BY <1>1, <1>4, <1>5
  <2> QED BY <2>1
<1> HIDE DEF q
<1>8. recv_indicatepkts_in_order(q, SN(u))
    BY DEF q
<1>9. /\ Increasing(log') /\ Increasing(pending')
      /\ \E t \in Nat :
            /\ t >= u /\ indicate_seq' = SN(t)
            /\ t \notin Elements(q)
            /\ Elements(log') = Elements(log) \cup {x \in Elements(q) : x < t}
            /\ Elements(pending') = {x \in Elements(q) : t < x}
            /\ t = u \/ t - 1 \in Elements(q)
    BY <1>1, <1>3, <1>4, <1>6, <1>7, <1>8, Deliver
<1> QED BY <1>4, <1>9

\* The step that handles a frame of the session keeps the invariant.
LEMMA ReorderStep ==
    ASSUME WindowInv, RxReorder
    PROVE  Session' /\ PeerInv' /\ Received' /\ Window'
<1>1. /\ rpc = "reorder" /\ rpc' \in {"idle", "cancel"}
      /\ rec_abba_rsp_ack' = FALSE
      /\ UNCHANGED <<una, peerBA, top, rxf, rxseq, addba, sta, loss, enable>>
  <2>1. rpc = "reorder" /\ rpc' \in {"idle", "cancel"}
      BY DEF RxReorder
  <2>2. /\ rec_abba_rsp_ack' = FALSE
        /\ UNCHANGED <<una, peerBA, top, rxf, rxseq, addba, sta, loss, enable>>
      BY DEF RxReorder, peer
  <2> QED BY <2>1, <2>2
<1>2. InHand /\ ~InHand' /\ rpc' # "after" /\ (Quiet' => Quiet)
    BY <1>1 DEF InHand, Quiet
<1>3. Session'
  <2>1. enable
      BY <1>1 DEF WindowInv, Session
  <2> QED BY <1>1, <2>1 DEF WindowInv, Session
<1>4. PeerInv'
    BY <1>1, <1>2 DEF WindowInv, PeerInv
<1>5. /\ rxf \in Nat /\ top \in Int /\ loss \in Int /\ pending \in Seq(Nat)
      /\ log \in Seq(Nat)
      /\ \A x \in Elements(log) \cup Elements(pending) : x \in Nat
    BY Typed DEF WindowInv
<1>6. /\ W \in Nat /\ W > 0 /\ Gap \in Nat /\ Half \in Nat /\ Start \in Nat
      /\ 2 * W + Gap <= Half
    BY Constants
<1>7. Start <= rxf /\ rxf <= top
    BY <1>2 DEF WindowInv, PeerInv
<1>8. /\ Increasing(log) /\ Increasing(pending)
      /\ \A x \in Elements(log) \cup Elements(pending) : Start <= x /\ x <= top
    BY DEF WindowInv, Received
<1>9. ASSUME NEW v \in Nat, WindowAt(v), UNCHANGED <<indicate_seq, pending, log>>,
             rxf < v + W
      PROVE  Received' /\ Window'
  <2>1. Elements(log)' = Elements(log) /\ Elements(pending)' = Elements(pending)
        /\ Gone(log, v)' = Gone(log, v)
      BY <1>9 DEF Elements, Gone
  <2>2. Received'
      BY <1>1, <1>2, <1>8, <1>9, <2>1 DEF Received, Increasing
  <2>3. top < v + W
      BY <1>5, <1>9 DEF WindowAt
  <2>4. WindowAt(v)'
      BY <1>1, <1>2, <1>9, <2>1, <2>3 DEF WindowAt
  <2> QED BY <2>2, <2>4 DEF Window
<1>10. CASE Dropped
  <2>1. PICK v \in Nat : WindowAt(v) /\ rxf < v
      BY <1>10 DEF Dropped
  <2>2. rxf < v + W
      BY <1>5, <1>6, <2>1
  <2>3. UNCHANGED <<indicate_seq, pending, log>>
      BY <1>10 DEF Dropped
  <2> QED BY <1>3, <1>4, <1>9, <2>1, <2>2, <2>3
<1>11. CASE Repeated
  <2>1. PICK v \in Nat : WindowAt(v)
      BY <1>11 DEF Repeated
  <2>2. UNCHANGED <<indicate_seq, pending, log>> /\ rxf \in Elements(pending)
      BY <1>11 DEF Repeated
  <2>3. rxf < v + W
      BY <2>1, <2>2 DEF WindowAt
  <2> QED BY <1>3, <1>4, <1>9, <2>1, <2>2, <2>3
<1>12. CASE Taken
  <2>1. PICK u, b \in Nat :
           /\ Ready(u, b)
           /\ recv_indicatepkts_in_order(Inserted(pending, rxf), SN(u))
      BY <1>12 DEF Taken
  <2>2. /\ Start <= b /\ b <= u /\ u <= top + 1 /\ top < u + W
        /\ \A x \in Elements(pending) \cup {rxf} :
              b <= x /\ x < u + W /\ u - x < Half
        /\ \A x \in Elements(log) : x < b
        /\ \/ u = rxf + 1 \/ u + W <= top + 1
           \/ \E x \in Elements(log) : u <= x + 1
        /\ 0 <= loss /\ loss <= Cardinality(Gone(log, b))
      BY <2>1 DEF Ready
  <2> DEFINE Q == Elements(pending) \cup {rxf}
  <2>3. /\ Increasing(log') /\ Increasing(pending')
        /\ \E t \in Nat :
              /\ t >= u /\ indicate_seq' = SN(t)
              /\ t \notin Q
              /\ Elements(log') = Elements(log) \cup {x \in Q : x < t}
              /\ Elements(pending') = {x \in Q : t < x}
              /\ t = u \/ t - 1 \in Q
      BY <1>12, <2>1, TakenDelivers DEF Taken
  <2>4. PICK t \in Nat :
              /\ t >= u /\ indicate_seq' = SN(t)
              /\ t \notin Q
              /\ Elements(log') = Elements(log) \cup {x \in Q : x < t}
              /\ Elements(pending') = {x \in Q : t < x}
              /\ t = u \/ t - 1 \in Q
      BY <2>3
  <2>5. \A x \in Q :
           /\ x \in Nat /\ Start <= x /\ x <= top /\ b <= x /\ x < u + W
      BY <1>5, <1>7, <1>8, <2>2
  <2>6. Received'
    <3>1. \A x \in Elements(log') \cup Elements(pending') : Start <= x /\ x <= top
        BY <1>8, <2>4, <2>5
    <3> QED BY <1>1, <1>2, <2>3, <3>1 DEF Received
  <2>7. Start <= t /\ t <= top + 1 /\ top < t + W
    <3>1. t - 1 \in Q => t - 1 <= top
        BY <2>5
    <3> QED BY <1>5, <1>6, <2>2, <2>4, <3>1
  <2>8. ASSUME NEW x \in Elements(log') PROVE x \in Nat /\ x < t
    <3>1. CASE x \in Elements(log)
        BY <1>5, <2>2, <2>4, <3>1
    <3>2. CASE x \in Q /\ x < t
        BY <2>5, <3>2
    <3> QED BY <2>4, <3>1, <3>2
  <2>9. ASSUME NEW x \in Elements(pending') PROVE t < x /\ x < t + W
    <3>1. x \in Nat /\ t < x /\ x < u + W
        BY <2>4, <2>5
    <3> QED BY <1>6, <2>4, <3>1
  <2>10. t + W <= top + 1 \/ \E x \in Elements(log') : t <= x + 1
    <3>1. CASE t # u
      <4>1. t - 1 \in Q /\ t - 1 < t /\ t <= t - 1 + 1
          BY <2>4, <3>1
      <4> QED BY <2>4, <4>1
    <3>2. CASE t = u /\ u = rxf + 1
      <4>1. rxf \in Q /\ rxf < t /\ t <= rxf + 1
          BY <1>5, <3>2
      <4> QED BY <2>4, <4>1
    <3>3. CASE t = u /\ u # rxf + 1
        BY <2>2, <2>4, <3>3
    <3> QED BY <3>1, <3>2, <3>3
  <2>11. 0 <= loss /\ loss <= Cardinality(Gone(log', t))
    <3>1. b <= t
        BY <2>2, <2>4
    <3>2. \A x \in Elements(log') : x \in Elements(log) \/ x >= b
        BY <2>4, <2>5
    <3>3. /\ Cardinality(Gone(log, b)) \in Nat
          /\ Cardinality(Gone(log', t)) \in Nat
          /\ Cardinality(Gone(log, b)) <= Cardinality(Gone(log', t))
        BY <2>8, <3>1, <3>2, GoneStays
    <3> QED BY <1>5, <2>2, <3>3
  <2>12. WindowAt(t)'
      BY <1>1, <1>2, <2>4, <2>7, <2>8, <2>9, <2>10, <2>11 DEF WindowAt
  <2> QED BY <1>3, <1>4, <2>6, <2>12 DEF Window
<1> QED BY <1>10, <1>11, <1>12, ReorderCases

\* The timer gives up on the frames before the first pending one: it counts them
\* as lost, and passes on what follows without a gap.
LEMMA TimeoutStep ==
    ASSUME WindowInv, timeout_handler
    PROVE  Session' /\ PeerInv' /\ Received' /\ Window'
<1>1. UNCHANGED <<una, peerBA, top, rxf, rxseq, addba, sta, enable,
                  rec_abba_rsp_ack, rpc>>
    BY DEF timeout_handler, peer, recv
<1>2. CASE pending = <<>>
  <2>1. UNCHANGED <<indicate_seq, pending, log, loss>>
      BY <1>2 DEF timeout_handler
  <2> QED BY <1>1, <2>1, QuietStep
<1>3. CASE pending # <<>>
  <2> DEFINE p == pending[1]
  <2>1. /\ recv_indicatepkts_in_order(pending, SN(p))
        /\ loss' = loss + Lost(indicate_seq, SN(p))
      BY <1>3 DEF timeout_handler
  <2>2. /\ InHand' <=> InHand
        /\ Fresh' <=> Fresh
        /\ Quiet' <=> Quiet
      BY <1>1 DEF InHand, Fresh, Quiet
  <2>3. enable /\ rpc \notin {"direct", "after"}
      BY <1>3 DEF WindowInv, Session
  <2>4. Session'
      BY <1>1, <2>2, <2>3 DEF WindowInv, Session
  <2>5. PeerInv'
      BY <1>1, <2>2 DEF WindowInv, PeerInv
  <2>6. /\ rxf \in Nat /\ top \in Int /\ loss \in Int /\ pending \in Seq(Nat)
        /\ log \in Seq(Nat)
        /\ \A x \in Elements(log) \cup Elements(pending) : x \in Nat
      BY Typed DEF WindowInv
  <2>7. /\ W \in Nat /\ W > 0 /\ Gap \in Nat /\ Half \in Nat /\ Start \in Nat
        /\ 2 * W + Gap <= Half /\ M = 2 * Half
      BY Constants
  <2>8. /\ Increasing(log) /\ Increasing(pending)
        /\ \A x \in Elements(log) \cup Elements(pending) :
              Start <= x /\ x <= top /\ (Fresh /\ InHand => x < rxf)
      BY DEF WindowInv, Received
  <2>9. PICK v \in Nat : WindowAt(v)
      BY <1>3 DEF WindowInv, Window, Unstarted
  <2>10. /\ indicate_seq = SN(v) /\ Start <= v
         /\ \A x \in Elements(log) : x < v
         /\ \A x \in Elements(pending) : v < x /\ x < v + W
         /\ top < v + W \/ (InHand /\ rxf = top)
         /\ InHand => rxf < v + 2 * W + Gap
         /\ 0 <= loss /\ loss <= Cardinality(Gone(log, v))
      BY <2>3, <2>9 DEF WindowAt
  <2>11. p \in Elements(pending) /\ \A x \in Elements(pending) : p <= x
    <3>1. /\ Len(pending) \in Nat /\ \A i \in 1 .. Len(pending) : pending[i] \in Nat
          /\ \A i, j \in 1 .. Len(pending) : i < j => pending[i] < pending[j]
          /\ \A x : x \in Elements(pending)
                       <=> \E i \in 1 .. Len(pending) : pending[i] = x
        BY <2>6, <2>8, IncreasingAt
    <3>2. 1 \in 1 .. Len(pending)
        BY <1>3, <2>6
    <3>3. ASSUME NEW x \in Elements(pending) PROVE p <= x
      <4>1. PICK i \in 1 .. Len(pending) : pending[i] = x
          BY <3>1
      <4>2. i = 1 \/ 1 < i
          OBVIOUS
      <4> QED BY <3>1, <3>2, <4>1, <4>2
    <3> QED BY <3>1, <3>2, <3>3
  <2> HIDE DEF p
  <2>12. p \in Nat /\ v < p /\ p < v + W
      BY <2>6, <2>10, <2>11
  <2>13. Near(pending, p)
    <3> SUFFICES ASSUME NEW x \in Elements(pending)
                 PROVE  x - p < Half /\ p - x < Half
        BY DEF Near
    <3>1. x \in Nat /\ v < x /\ x < v + W
        BY <2>6, <2>10
    <3> QED BY <2>7, <2>12, <3>1
  <2>14. ASSUME NEW x \in Elements(log), NEW y \in Elements(pending) PROVE x < y
    <3>1. x \in Nat /\ y \in Nat /\ x < v /\ v < y
        BY <2>6, <2>10
    <3> QED BY <3>1
  <2>15. /\ Increasing(log') /\ Increasing(pending')
         /\ \E t \in Nat :
               /\ t >= p /\ indicate_seq' = SN(t)
               /\ t \notin Elements(pending)
               /\ Elements(log') = Elements(log)
                                     \cup {x \in Elements(pending) : x < t}
               /\ Elements(pending') = {x \in Elements(pending) : t < x}
               /\ t = p \/ t - 1 \in Elements(pending)
      BY <2>1, <2>6, <2>8, <2>12, <2>13, <2>14, Deliver
  <2>16. PICK t \in Nat :
               /\ t >= p /\ indicate_seq' = SN(t)
               /\ t \notin Elements(pending)
               /\ Elements(log') = Elements(log)
                                     \cup {x \in Elements(pending) : x < t}
               /\ Elements(pending') = {x \in Elements(pending) : t < x}
               /\ t = p \/ t - 1 \in Elements(pending)
      BY <2>15
  <2>17. /\ t - 1 \in Elements(pending) /\ p < t /\ v < t /\ t <= top + 1
         /\ Fresh /\ InHand => t <= rxf
    <3>1. t - 1 \in Elements(pending) /\ p < t
        BY <2>11, <2>12, <2>16
    <3>2. t - 1 <= top /\ (Fresh /\ InHand => t - 1 < rxf)
        BY <2>8, <3>1
    <3>3. v < t /\ t <= top + 1
        BY <2>6, <2>12, <3>1, <3>2
    <3>4. Fresh /\ InHand => t <= rxf
        BY <2>6, <3>2
    <3> QED BY <3>1, <3>3, <3>4
  <2>18. Received'
    <3>1. \A x \in Elements(log') \cup Elements(pending') :
             Start <= x /\ x <= top /\ (Fresh /\ InHand => x < rxf)
        BY <2>8, <2>16
    <3> QED BY <1>1, <2>2, <2>15, <3>1 DEF Received
  <2>19. ASSUME NEW x \in Elements(log') PROVE x \in Nat /\ x < t
    <3>1. CASE x \in Elements(log)
        BY <2>6, <2>10, <2>17, <3>1
    <3>2. CASE x \in Elements(pending) /\ x < t
        BY <2>6, <3>2
    <3> QED BY <2>16, <3>1, <3>2
  <2>20. ASSUME NEW x \in Elements(pending') PROVE t < x /\ x < t + W
    <3>1. x \in Nat /\ t < x /\ x < v + W
        BY <2>6, <2>10, <2>16
    <3> QED BY <2>7, <2>17, <3>1
  <2>21. \E x \in Elements(log') : t <= x + 1
    <3>1. t - 1 < t /\ t <= t - 1 + 1
        OBVIOUS
    <3> QED BY <2>16, <2>17, <3>1
  <2>22. 0 <= loss' /\ loss' <= Cardinality(Gone(log', t))
    <3>1. Lost(indicate_seq, SN(p)) = p - v
      <4>1. p >= v /\ p - v < M /\ v - p < M
          BY <2>7, <2>12
      <4>2. Minus(SN(p), SN(v)) = p - v
          BY <2>12, <4>1, MinusIsDistance
      <4>3. SN(p) \in Nat /\ SN(v) \in Nat /\ M \in Nat
          BY <2>12, SNType, Constants
      <4> QED BY <2>10, <4>2, <4>3 DEF Lost, Minus
    <3>2. v <= p /\ p <= t
        BY <2>12, <2>17
    <3>3. \A x \in Elements(log') : x \in Elements(log) \/ x >= p
        BY <2>6, <2>11, <2>12, <2>16
    <3>4. /\ Cardinality(Gone(log, v)) \in Nat
          /\ Cardinality(Gone(log', t)) \in Nat
          /\ Cardinality(Gone(log, v)) + (p - v) <= Cardinality(Gone(log', t))
        BY <2>10, <2>12, <2>19, <3>2, <3>3, GoneGrows
    <3> QED BY <2>1, <2>6, <2>10, <2>12, <3>1, <3>4
  <2>23. /\ Start <= t
         /\ top < t + W \/ (InHand /\ rxf = top)
         /\ InHand => rxf < t + 2 * W + Gap
      BY <2>6, <2>7, <2>10, <2>17
  <2>24. WindowAt(t)'
      BY <1>1, <2>2, <2>3, <2>16, <2>17, <2>19, <2>20, <2>21, <2>22, <2>23
      DEF WindowAt
  <2> QED BY <2>4, <2>5, <2>18, <2>24 DEF Window
<1> QED BY <1>2, <1>3

-----------------------------------------------------------------------------
(* The theorems                                                            *)

\* The invariant holds at the start: nothing was received, and WinStart is unset.
LEMMA WindowInit == Init => WindowInv
<1> SUFFICES ASSUME Init PROVE WindowInv
    OBVIOUS
<1>1. TypeOK
    BY TypeInit
<1>2. ~peerBA /\ rpc = "idle" /\ pending = <<>> /\ log = <<>> /\ addba = "none"
      /\ sta = "used" /\ una = Start /\ top = Start - 1 /\ loss = 0
      /\ indicate_seq = Unset
    BY DEF Init
<1>3. Elements(pending) = {} /\ Elements(log) = {}
    BY <1>2 DEF Elements
<1>4. Fresh /\ ~InHand
    BY <1>2 DEF Fresh, InHand
<1>5. Session
    BY <1>2 DEF Session
<1>6. PeerInv
    BY <1>2, <1>4, Constants DEF PeerInv
<1>7. Received
    BY <1>2, <1>3 DEF Received, Increasing
<1>8. Window
    BY <1>2, <1>4 DEF Window, Unstarted
<1> QED BY <1>1, <1>5, <1>6, <1>7, <1>8 DEF WindowInv

\* Every step keeps it, as long as the session is not ended, reset or moved from
\* outside and the peer waits for it (no Events).
LEMMA WindowStep ==
    ASSUME Events = {}
    PROVE  WindowInv /\ [Next]_vars => WindowInv'
<1> SUFFICES ASSUME WindowInv, [Next]_vars PROVE WindowInv'
    OBVIOUS
<1>1. TypeOK'
    BY TypeStep DEF WindowInv
<1>2. sta = "used"
    BY DEF WindowInv, Session
<1> DEFINE Kept == Session' /\ PeerInv' /\ Received' /\ Window'
<1> SUFFICES Kept
    BY <1>1 DEF WindowInv
<1>3. CASE PeerAdvances
    BY <1>3, PeerAdvancesStep
<1>4. ASSUME NEW n \in una .. una + W - 1, RxFrame(n) PROVE Kept
    BY <1>4, RxFrameStep
<1>5. CASE rtw_process_bar_frame
    BY <1>5 DEF rtw_process_bar_frame
<1>6. ASSUME NEW heard \in BOOLEAN, OnDelba(heard) PROVE Kept
    BY <1>6 DEF OnDelba
<1>7. CASE RxCheckEnable
    BY <1>7, CheckEnableStep
<1>8. CASE RxDirect
    BY <1>8, RxDirectStep
<1>9. CASE RxDirectDone
    BY <1>9, RxDirectDoneStep
<1>10. CASE RxReorder
    BY <1>10, ReorderStep
<1>11. CASE RxCancelTimer
    BY <1>11, QuietStep DEF RxCancelTimer, peer, ctrl
<1>12. CASE TimerFires
    BY <1>12, QuietStep DEF TimerFires, peer, ctrl, recv
<1>13. CASE timeout_handler
    BY <1>13, TimeoutStep
<1>14. ASSUME NEW accept \in BOOLEAN, NEW acked \in BOOLEAN,
              issue_addba_rsp(accept, acked)
       PROVE  Kept
    BY <1>14, IssueStep
<1>15. CASE add_ba_rsp_hdl
    BY <1>15, AddbaStep
<1>16. ASSUME NEW heard \in BOOLEAN, send_delba_sta_tid(heard) PROVE Kept
    BY <1>16 DEF send_delba_sta_tid
<1>17. CASE rtw_joinbss_update_stainfo
    BY <1>17 DEF rtw_joinbss_update_stainfo
<1>18. CASE FreeCancel
    BY <1>18 DEF FreeCancel
<1>19. CASE FreePending \/ rtw_alloc_stainfo
    BY <1>2, <1>19 DEF FreePending, rtw_alloc_stainfo
<1>20. CASE UNCHANGED vars
    BY <1>20, QuietStep DEF vars, peer, ctrl, recv
<1> HIDE DEF Kept
<1> QED BY <1>3, <1>4, <1>5, <1>6, <1>7, <1>8, <1>9, <1>10, <1>11, <1>12,
           <1>13, <1>14, <1>15, <1>16, <1>17, <1>18, <1>19, <1>20
        DEF Next, Receive, Command

\* What the invariant says of the lists.
LEMMA WindowSafe == WindowInv => InOrder /\ PendingInWindow /\ LossBounded
<1> SUFFICES ASSUME WindowInv PROVE InOrder /\ PendingInWindow /\ LossBounded
    OBVIOUS
<1>1. /\ top \in Int /\ loss \in Int /\ pending \in Seq(Nat) /\ log \in Seq(Nat)
      /\ \A x \in Elements(log) \cup Elements(pending) : x \in Nat
    BY Typed DEF WindowInv
<1>2. Increasing(log) /\ Increasing(pending)
    BY DEF WindowInv, Received
<1>3. /\ W \in Nat /\ Half \in Nat /\ Start \in Nat
      /\ 2 * W <= Half /\ M = 2 * Half /\ M > W
    BY Constants
<1>4. /\ Len(log) \in Nat
      /\ \A i, j \in 1 .. Len(log) : i < j => log[i] < log[j]
      /\ \A x : x \in Elements(log) <=> \E i \in 1 .. Len(log) : log[i] = x
    BY <1>1, <1>2, IncreasingAt
<1>5. /\ Len(pending) \in Nat
      /\ \A i, j \in 1 .. Len(pending) : i < j => pending[i] < pending[j]
      /\ \A x : x \in Elements(pending)
                   <=> \E i \in 1 .. Len(pending) : pending[i] = x
    BY <1>1, <1>2, IncreasingAt
<1>6. InOrder
  <2> SUFFICES ASSUME NEW i \in 1 .. Len(log) - 1 PROVE log[i] < log[i + 1]
      BY DEF InOrder
  <2>1. i \in 1 .. Len(log) /\ i + 1 \in 1 .. Len(log) /\ i < i + 1
      BY <1>4
  <2> QED BY <1>4, <2>1
<1>7. PendingInWindow
  <2> SUFFICES ASSUME NEW i \in 1 .. Len(pending)
               PROVE  /\ Minus(SN(pending[i]), indicate_seq) \in 1 .. W - 1
                      /\ i > 1 => pending[i - 1] < pending[i]
      BY DEF PendingInWindow
  <2> DEFINE x == pending[i]
  <2>1. x \in Elements(pending) /\ x \in Nat
      BY <1>1, <1>5
  <2>2. PICK v \in Nat : WindowAt(v)
    <3>1. pending # <<>>
        BY <1>1
    <3> QED BY <3>1 DEF WindowInv, Window, Unstarted
  <2>3. indicate_seq = SN(v) /\ v < x /\ x < v + W
      BY <2>1, <2>2 DEF WindowAt
  <2> HIDE DEF x
  <2>4. Minus(SN(x), SN(v)) = x - v
    <3>1. x >= v /\ x - v < M /\ v - x < M
        BY <1>3, <2>1, <2>3
    <3> QED BY <2>1, <3>1, MinusIsDistance
  <2>5. Minus(SN(x), indicate_seq) \in 1 .. W - 1
      BY <1>3, <2>1, <2>3, <2>4
  <2>6. i > 1 => pending[i - 1] < pending[i]
    <3>1. i > 1 => i - 1 \in 1 .. Len(pending) /\ i - 1 < i
        BY <1>5
    <3> QED BY <1>5, <3>1
  <2> QED BY <2>5, <2>6 DEF x
<1>8. LossBounded
  <2> DEFINE Miss == {n \in Start .. top :
                        /\ n \notin {log[i] : i \in 1 .. Len(log)}
                        /\ n \notin {pending[i] : i \in 1 .. Len(pending)}}
  <2>1. IsFiniteSet(Miss)
    <3>1. IsFiniteSet(Start .. top)
        BY <1>1, <1>3, FS_Interval
    <3>2. Miss \in SUBSET (Start .. top)
        OBVIOUS
    <3> QED BY <3>1, <3>2, FS_Subset
  <2>2. Cardinality(Miss) \in Nat
      BY <2>1, FS_CardinalityType
  <2>3. CASE Unstarted
      BY <2>2, <2>3 DEF Unstarted, LossBounded
  <2>4. ASSUME NEW v \in Nat, WindowAt(v) PROVE LossBounded
    <3>1. /\ v <= top + 1 /\ \A x \in Elements(pending) : v < x
          /\ 0 <= loss /\ loss <= Cardinality(Gone(log, v))
        BY <2>4 DEF WindowAt
    <3>2. ASSUME NEW n \in Gone(log, v) PROVE n \in Miss
      <4>1. n \in Int /\ Start <= n /\ n < v /\ n \notin Elements(log)
          BY <1>3 DEF Gone
      <4>2. n \in Start .. top
          BY <1>1, <1>3, <3>1, <4>1
      <4>3. n \notin Elements(pending)
          BY <1>1, <3>1, <4>1
      <4> QED BY <1>4, <1>5, <4>1, <4>2, <4>3
    <3>3. Gone(log, v) \in SUBSET Miss
        BY <3>2
    <3>4. /\ Cardinality(Gone(log, v)) <= Cardinality(Miss)
          /\ Cardinality(Gone(log, v)) \in Nat
        BY <2>1, <3>3, FS_Subset, FS_CardinalityType
    <3> HIDE DEF Miss
    <3>5. loss \in 0 .. Cardinality(Miss)
        BY <1>1, <2>2, <3>1, <3>4
    <3> QED BY <3>5 DEF LossBounded, Miss
  <2> QED BY <2>3, <2>4 DEF WindowInv, Window
<1> QED BY <1>6, <1>7, <1>8

\* recv_indicatepkt_reorder refuses a frame only if a later one was passed on or
\* is a window ahead, or if it is pending.
LEMMA StaleStep ==
    ASSUME WindowInv, RxReorder,
           rxf \notin {log'[i] : i \in 1 .. Len(log')},
           rxf \notin {pending'[i] : i \in 1 .. Len(pending')}
    PROVE  rxf + W <= top \/ \E i \in 1 .. Len(log) : rxf < log[i]
<1>1. /\ rxf \in Nat /\ top \in Int /\ pending \in Seq(Nat) /\ log \in Seq(Nat)
      /\ \A x \in Elements(log) \cup Elements(pending) : x \in Nat
    BY Typed DEF WindowInv
<1>2. pending' \in Seq(Nat) /\ log' \in Seq(Nat)
  <2>1. TypeOK'
      BY TypeStep DEF WindowInv, Next, Receive
  <2> QED BY <2>1 DEF TypeOK
<1>3. rxf \notin Elements(log') /\ rxf \notin Elements(pending')
    BY <1>2 DEF Elements
<1>4. CASE Dropped
  <2>1. PICK v \in Nat : WindowAt(v) /\ rxf < v
      BY <1>4 DEF Dropped
  <2>2. v + W <= top + 1 \/ \E x \in Elements(log) : v <= x + 1
      BY <2>1 DEF WindowAt
  <2>3. rpc # "after"
      BY DEF RxReorder
  <2>4. CASE v + W <= top + 1
      BY <1>1, <2>1, <2>4, Constants
  <2>5. ASSUME NEW x \in Elements(log), v <= x + 1
        PROVE  \E i \in 1 .. Len(log) : rxf < log[i]
    <3>1. PICK i \in 1 .. Len(log) : x = log[i]
        BY <1>1 DEF Elements
    <3>2. rxf # x
        BY <1>3, <1>4 DEF Dropped, Elements
    <3>3. rxf < x
        BY <1>1, <2>1, <2>5, <3>2
    <3> QED BY <3>1, <3>3
  <2> QED BY <2>2, <2>4, <2>5
<1>5. CASE Repeated
  <2>1. rxf \in Elements(pending')
      BY <1>5 DEF Repeated, Elements
  <2> QED BY <1>3, <2>1
<1>6. CASE Taken
  <2>1. PICK u, b \in Nat :
           /\ Ready(u, b)
           /\ recv_indicatepkts_in_order(Inserted(pending, rxf), SN(u))
      BY <1>6 DEF Taken
  <2>2. PICK t \in Nat :
           /\ t # rxf
           /\ rxf < t => rxf \in Elements(log')
           /\ t < rxf => rxf \in Elements(pending')
      BY <1>6, <2>1, TakenDelivers DEF Taken
  <2> QED BY <1>1, <1>3, <2>2
<1> QED BY <1>4, <1>5, <1>6, ReorderCases

\* Without Events, the frames reach the stack in order and each once, the pending
\* list stays sorted and inside the window, and the loss counter reports no more
\* than what is missing: for every window size, every run of lost frames that
\* fits the sequence space, and however often the numbers wrap.
THEOREM WindowCorrect ==
    ASSUME Events = {}
    PROVE  Spec => [](InOrder /\ PendingInWindow /\ LossBounded)
<1>1. WindowInv /\ [Next]_vars => WindowInv'
    BY WindowStep
<1> QED BY <1>1, WindowInit, WindowSafe, PTL DEF Spec

\* Without Events, the frames reach recv_process_mpdu in the peer's order.
THEOREM FramesInOrder ==
    ASSUME Events = {} PROVE Spec => []InOrder
BY WindowCorrect, PTL

\* Without Events, what is pending is sorted and ahead of WinStart by less than
\* the window.
THEOREM PendingStaysInWindow ==
    ASSUME Events = {} PROVE Spec => []PendingInWindow
BY WindowCorrect, PTL

\* Without Events, dbg_rx_ampdu_loss_count never exceeds the frames missing.
THEOREM LossIsBounded ==
    ASSUME Events = {} PROVE Spec => []LossBounded
BY WindowCorrect, PTL

\* Without Events, the receive path refuses only frames that are stale.
THEOREM OnlyStaleDropped ==
    ASSUME Events = {} PROVE Spec => DroppedIsStale
<1>1. WindowInv /\ [Next]_vars => WindowInv'
    BY WindowStep
<1>2. WindowInv =>
        [RxReorder /\ rxf \notin {log'[i] : i \in 1 .. Len(log')}
                   /\ rxf \notin {pending'[i] : i \in 1 .. Len(pending')}
           => \/ rxf + W <= top
              \/ \E i \in 1 .. Len(log) : rxf < log[i]]_vars
    BY StaleStep
<1> QED BY <1>1, <1>2, WindowInit, PTL DEF Spec, DroppedIsStale
=============================================================================
