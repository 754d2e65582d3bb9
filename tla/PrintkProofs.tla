---------------------------- MODULE PrintkProofs ----------------------------
(***************************************************************************)
(* printk for every set of directives, every set of characters and every   *)
(* width of int, long, long long and pointers:                             *)
(*                                                                         *)
(*   DivisionHelpersDivide  __udivdi3 and __umoddi3 are \div and %;        *)
(*   ParserStaysInFormat    the parser leaves the format only when it      *)
(*                          ends inside its directive;                     *)
(*   NewlinesAlwaysReturn   a newline on the wire follows a carriage       *)
(*                          return;                                        *)
(*   TypeCorrect            the type invariant: a NUL is sent only when a  *)
(*                          %c or such an end of the format asks for it;   *)
(*   PrintkFormatsAsISO     a directive of the common part of printk and   *)
(*                          the C standard is printed as the standard      *)
(*                          asks.                                          *)
(*                                                                         *)
(* The last one goes from the bottom up.  The loops (the bits of a         *)
(* division, the digits of a number, the characters of a field) are        *)
(* recursive functions, and what they compute follows by induction         *)
(* (Recursion.tla).  From them, what print_number and print_str lay out    *)
(* is what the standard asks of the same directive (ConversionAgrees).     *)
(* PrintkInv then carries it through the parser, the adapter for newlines  *)
(* and the UART: what has been read of the directive (SpecInv), and what   *)
(* has been handed on and is on the wire, in the holding register or still *)
(* to be written (ShownInv).                                               *)
(***************************************************************************)
EXTENDS Printk, Recursion, SequenceTheorems, TLAPS

-----------------------------------------------------------------------------
(* Arithmetic *)

\* Quotient and remainder, by what they add up to.
LEMMA DivMod ==
  ASSUME NEW a \in Nat, NEW b \in Nat, b > 0
  PROVE  /\ a \div b \in Nat /\ a % b \in Nat /\ a % b < b
         /\ a = b * (a \div b) + (a % b)
OBVIOUS

\* Multiplying keeps the order.
LEMMA TimesMono ==
  ASSUME NEW a \in Nat, NEW b \in Nat, NEW c \in Nat, a <= b
  PROVE  a * c \in Nat /\ b * c \in Nat /\ a * c <= b * c
<1>1. PICK d \in Nat : b = a + d
  <2>1. b - a \in Nat /\ b = a + (b - a)
    OBVIOUS
  <2> QED
    BY <2>1
<1>2. b * c = a * c + d * c /\ a * c \in Nat /\ d * c \in Nat
  BY <1>1
<1> QED
  BY <1>2

\* They are the only ones.
LEMMA DivModUnique ==
  ASSUME NEW a \in Nat, NEW b \in Nat, b > 0, NEW q \in Nat, NEW r \in Nat, r < b, a = q * b + r
  PROVE  a \div b = q /\ a % b = r
<1> DEFINE Q == a \div b
           R == a % b
<1>1. Q \in Nat /\ R \in Nat /\ R < b /\ a = b * Q + R
  BY DivMod
<1> HIDE DEF Q, R
<1>2. b * Q = Q * b
  BY <1>1
<1>3. CASE Q < q
  <2>1. Q + 1 <= q /\ Q + 1 \in Nat
    BY <1>1, <1>3
  <2>2. (Q + 1) * b <= q * b /\ (Q + 1) * b \in Nat /\ q * b \in Nat
    BY <2>1, TimesMono
  <2>3. (Q + 1) * b = Q * b + b /\ Q * b \in Nat
    BY <1>1
  <2> QED
    BY <1>1, <1>2, <2>2, <2>3
<1>4. CASE q < Q
  <2>1. q + 1 <= Q /\ q + 1 \in Nat
    BY <1>1, <1>4
  <2>2. (q + 1) * b <= Q * b /\ (q + 1) * b \in Nat /\ Q * b \in Nat
    BY <1>1, <2>1, TimesMono
  <2>3. (q + 1) * b = q * b + b /\ q * b \in Nat
    OBVIOUS
  <2> QED
    BY <1>1, <1>2, <2>2, <2>3
<1>5. CASE Q = q
  <2>1. q * b \in Nat /\ a = q * b + R
    BY <1>1, <1>2, <1>5
  <2> QED
    BY <1>1, <1>5, <2>1 DEF Q, R
<1> QED
  BY <1>1, <1>3, <1>4, <1>5

\* Dividing twice.
LEMMA DivDiv ==
  ASSUME NEW a \in Nat, NEW b \in Nat, b > 0, NEW c \in Nat, c > 0
  PROVE  b * c \in Nat /\ b * c > 0 /\ (a \div b) \div c = a \div (b * c)
<1> DEFINE q == a \div b
           r == a % b
           u == q \div c
           v == q % c
<1>1. q \in Nat /\ r \in Nat /\ r < b /\ a = b * q + r
  BY DivMod
<1>2. u \in Nat /\ v \in Nat /\ v < c /\ q = c * u + v
  <2> HIDE DEF q
  <2> QED
    BY <1>1, DivMod
<1> HIDE DEF q, r, u, v
<1>3. b * c \in Nat /\ b * c > 0
  <2>1. 1 * c <= b * c /\ 1 * c = c /\ b * c \in Nat
    BY TimesMono
  <2> QED
    BY <2>1
<1>4. a = u * (b * c) + (v * b + r)
  BY <1>1, <1>2
<1>5. v * b + r \in Nat /\ v * b + r < b * c
  <2>1. v + 1 <= c /\ v + 1 \in Nat
    BY <1>2
  <2>2. (v + 1) * b <= c * b /\ c * b \in Nat
    BY <2>1, TimesMono
  <2>3. (v + 1) * b = v * b + b /\ v * b \in Nat /\ c * b = b * c
    BY <1>2
  <2> QED
    BY <1>1, <2>2, <2>3
<1> DEFINE m == b * c
           s == v * b + r
<1>6. a \div m = u
  <2>1. m \in Nat /\ m > 0 /\ s \in Nat /\ s < m /\ a = u * m + s
    BY <1>3, <1>4, <1>5
  <2> HIDE DEF m, s
  <2> QED
    BY <1>2, <2>1, DivModUnique
<1> QED
  BY <1>3, <1>6 DEF u, q

\* Powers, by their recursion.
LEMMA PowFacts ==
  ASSUME NEW b \in Nat, b > 0
  PROVE  /\ Pow(b, 0) = 1
         /\ \A n \in Nat : /\ Pow(b, n) \in Nat /\ Pow(b, n) > 0
                           /\ Pow(b, n + 1) = b * Pow(b, n)
<1> DEFINE Is(f) == f = [i \in Nat |-> IF i = 0 THEN 1 ELSE b * f[i - 1]]
           f == CHOOSE f : Is(f)
<1>1. \E g : Is(g)
  <2> DEFINE D == [k \in Nat |-> [v \in Nat |-> b * v]]
  <2>1. D \in [Nat -> [Nat -> Nat]]
    OBVIOUS
  <2>2. PICK g \in [Nat -> Nat] : Follows(g, 1, D)
    <3>1. 1 \in Nat
      OBVIOUS
    <3> HIDE DEF D
    <3> QED
      BY <2>1, <3>1, Recursion
  <2>3. ASSUME NEW k \in Nat PROVE g[k] = IF k = 0 THEN 1 ELSE b * g[k - 1]
    <3>1. CASE k = 0
      BY <2>2, <3>1 DEF Follows
    <3>2. CASE k # 0
      <4>1. k - 1 \in Nat /\ (k - 1) + 1 = k
        BY <3>2
      <4>2. g[k] = D[k - 1][g[k - 1]] /\ g[k - 1] \in Nat
        BY <2>2, <4>1 DEF Follows
      <4> QED
        BY <3>2, <4>1, <4>2
    <3> QED
      BY <3>1, <3>2
  <2>4. g = [k \in Nat |-> g[k]]
    OBVIOUS
  <2>5. Is(g)
    BY <2>3, <2>4
  <2> QED
    BY <2>5
<1>2. Is(f)
  <2> HIDE DEF Is
  <2> QED
    BY <1>1
<1>3. \A n \in Nat : Pow(b, n) = f[n]
  BY DEF Pow
<1> HIDE DEF f
<1>4. f[0] = 1
  BY <1>2
<1>5. ASSUME NEW k \in Nat PROVE f[k + 1] = b * f[k]
  <2>1. k + 1 \in Nat /\ k + 1 # 0 /\ (k + 1) - 1 = k
    OBVIOUS
  <2> QED
    BY <1>2, <2>1
<1> DEFINE P == {k \in Nat : f[k] \in Nat /\ f[k] > 0}
<1>6. \A k \in Nat : k \in P
  <2>1. 0 \in P
    BY <1>4
  <2>2. ASSUME NEW k \in Nat, k \in P PROVE k + 1 \in P
    <3> DEFINE v == f[k]
    <3>1. v \in Nat /\ v > 0 /\ f[k + 1] = b * v
      BY <1>5, <2>2
    <3> HIDE DEF v
    <3>2. 1 * v <= b * v /\ b * v \in Nat /\ 1 * v = v
      BY <3>1, TimesMono
    <3> QED
      BY <3>1, <3>2
  <2> HIDE DEF P
  <2> QED
    BY <2>1, <2>2, Induct
<1> QED
  BY <1>3, <1>4, <1>5, <1>6

\* 2^w is even.
LEMMA LLModFacts ==
  /\ LLMod \in Nat /\ LLMod > 1 /\ LLMod % 2 = 0
  /\ LLBits \in Nat /\ LLBits > 0
<1>1. LLBits \in Nat /\ LLBits > 0
  BY PrintkAssumption
<1>2. LLBits - 1 \in Nat /\ (LLBits - 1) + 1 = LLBits
  BY <1>1
<1>3. /\ Pow(2, LLBits) = 2 * Pow(2, LLBits - 1)
      /\ Pow(2, LLBits - 1) \in Nat /\ Pow(2, LLBits - 1) > 0
  BY <1>2, PowFacts
<1> QED
  BY <1>1, <1>3 DEF LLMod

-----------------------------------------------------------------------------
(* The division helpers *)

\* An iteration of __udivdi3, with the bit of weight w.
Iterated(a, b, w, s) ==
  LET r == ((2 * s.r) % LLMod) + ((a \div w) % 2)
  IN  IF r >= b THEN [q |-> s.q + w, r |-> r - b] ELSE [q |-> s.q, r |-> r]

QR == [q : Nat, r : Nat]

\* An iteration makes a quotient and a remainder.
LEMMA IteratedType ==
  ASSUME NEW a \in Nat, NEW b \in Nat, NEW w \in Nat, w > 0, NEW s \in QR
  PROVE  Iterated(a, b, w, s) \in QR
<1> DEFINE r == ((2 * s.r) % LLMod) + ((a \div w) % 2)
<1>1. s.q \in Nat /\ s.r \in Nat
  BY DEF QR
<1>2. r \in Nat
  <2>1. (2 * s.r) % LLMod \in Nat
    BY <1>1, LLModFacts, DivMod
  <2>2. a \div w \in Nat
    BY DivMod
  <2>3. (a \div w) % 2 \in Nat
    BY <2>2
  <2> QED
    BY <2>1, <2>3
<1>3. Iterated(a, b, w, s) = IF r >= b THEN [q |-> s.q + w, r |-> r - b] ELSE [q |-> s.q, r |-> r]
  BY DEF Iterated
<1> HIDE DEF r
<1> QED
  BY <1>1, <1>2, <1>3 DEF QR

\* The loop of __udivdi3, as the function it is computed by.
LEMMA LoopFunction ==
  ASSUME NEW a \in Nat, NEW b \in Nat, b > 0
  PROVE  \E loop \in [0 .. LLBits -> QR] :
           /\ loop[0] = [q |-> 0, r |-> 0]
           /\ \A n \in 1 .. LLBits : loop[n] = Iterated(a, b, Pow(2, LLBits - n), loop[n - 1])
           /\ udivdi3(a, b) = loop[LLBits].q
<1> DEFINE start == [q |-> 0, r |-> 0]
           Is(f) == f = [n \in 0 .. LLBits |->
                           IF n = 0 THEN start ELSE Iteration(a, b, LLBits - n)[f[n - 1]]]
           f == CHOOSE f : Is(f)
<1>1. /\ LLBits \in Nat /\ start \in QR
      /\ \A n \in 1 .. LLBits : LLBits - n \in Nat /\ n - 1 \in 0 .. LLBits
  BY LLModFacts DEF QR
<1>2. ASSUME NEW i \in Nat, NEW s \in QR
      PROVE  /\ Iteration(a, b, i)[s] = Iterated(a, b, Pow(2, i), s)
             /\ Iteration(a, b, i)[s] \in QR
  <2>1. Pow(2, i) \in Nat /\ Pow(2, i) > 0
    BY PowFacts
  <2>2. Iteration(a, b, i)[s] = Iterated(a, b, Pow(2, i), s)
    BY DEF QR, Iterated, Iteration
  <2> QED
    BY <2>1, <2>2, IteratedType
<1>3. ASSUME NEW i \in Nat PROVE Iteration(a, b, i) \in [QR -> QR]
  <2>1. Iteration(a, b, i) = [s \in QR |-> Iteration(a, b, i)[s]]
    BY DEF QR, Iteration
  <2> QED
    BY <1>2, <2>1
<1>4. udivdi3(a, b) = f[LLBits].q
  BY DEF udivdi3
<1> HIDE DEF start
<1>5. \E g : Is(g)
  <2> DEFINE D == [n \in 1 .. LLBits |-> Iteration(a, b, LLBits - n)]
  <2>1. D \in [1 .. LLBits -> [QR -> QR]]
    BY <1>1, <1>3
  <2>2. PICK g \in [0 .. LLBits -> QR] : FollowsTo(g, start, D, LLBits)
    <3> HIDE DEF D
    <3> QED
      BY <1>1, <2>1, RecursionTo
  <2>3. ASSUME NEW n \in 0 .. LLBits
        PROVE  g[n] = IF n = 0 THEN start ELSE Iteration(a, b, LLBits - n)[g[n - 1]]
    <3>1. CASE n = 0
      BY <2>2, <3>1 DEF FollowsTo
    <3>2. CASE n # 0
      <4>1. n \in 1 .. LLBits
        BY <1>1, <3>2
      <4>2. g[n] = D[n][g[n - 1]]
        BY <2>2, <4>1 DEF FollowsTo
      <4> QED
        BY <3>2, <4>1, <4>2
    <3> QED
      BY <3>1, <3>2
  <2>4. g = [n \in 0 .. LLBits |-> g[n]]
    OBVIOUS
  <2>5. Is(g)
    BY <2>3, <2>4
  <2> QED
    BY <2>5
<1>6. Is(f)
  <2> HIDE DEF Is
  <2> QED
    BY <1>5
<1> HIDE DEF f
<1>7. f[0] = start /\ f = [n \in 0 .. LLBits |-> f[n]]
  BY <1>1, <1>6
<1>8. ASSUME NEW n \in 1 .. LLBits PROVE f[n] = Iteration(a, b, LLBits - n)[f[n - 1]]
  <2>1. n \in 0 .. LLBits /\ n # 0
    BY <1>1
  <2> QED
    BY <1>6, <2>1
<1> DEFINE P == {n \in Nat : n <= LLBits => f[n] \in QR}
<1>9. \A n \in Nat : n \in P
  <2>1. 0 \in P
    BY <1>1, <1>7
  <2>2. ASSUME NEW n \in Nat, n \in P PROVE n + 1 \in P
    <3>1. SUFFICES ASSUME n + 1 <= LLBits PROVE f[n + 1] \in QR
      OBVIOUS
    <3>2. n + 1 \in 1 .. LLBits /\ (n + 1) - 1 = n /\ n <= LLBits
      BY <1>1, <3>1
    <3>3. f[n] \in QR /\ LLBits - (n + 1) \in Nat
      BY <1>1, <2>2, <3>2
    <3>4. f[n + 1] = Iteration(a, b, LLBits - (n + 1))[f[n]]
      BY <1>8, <3>2
    <3> QED
      BY <1>2, <3>3, <3>4
  <2> HIDE DEF P
  <2> QED
    BY <2>1, <2>2, Induct
<1>10. f \in [0 .. LLBits -> QR]
  BY <1>1, <1>7, <1>9
<1>11. ASSUME NEW n \in 1 .. LLBits
       PROVE  f[n] = Iterated(a, b, Pow(2, LLBits - n), f[n - 1])
  BY <1>1, <1>2, <1>8, <1>10
<1> HIDE DEF Is
<1> QED
  BY <1>4, <1>7, <1>10, <1>11 DEF start

(***************************************************************************)
(* What is left after n iterations, with w the weight of the last bit      *)
(* looked at: A, the bits of a looked at so far, divided by b.             *)
(***************************************************************************)
LEMMA IteratedDivides ==
  ASSUME NEW a \in Nat, a < LLMod, NEW b \in Nat, b > 0, NEW w \in Nat, w > 0,
         NEW s \in QR,
         s.r = (a \div (2 * w)) % b,
         s.q = ((a \div (2 * w)) \div b) * (2 * w)
  PROVE  /\ Iterated(a, b, w, s).r = (a \div w) % b
         /\ Iterated(a, b, w, s).q = ((a \div w) \div b) * w
<1> DEFINE A == a \div (2 * w)
           B == a \div w
           bit == B % 2
           Q == A \div b
           R == A % b
<1>1. B \in Nat /\ A \in Nat /\ A = B \div 2
  <2>1. w * 2 = 2 * w /\ 2 * w > 0 /\ 2 * w \in Nat
    OBVIOUS
  <2>2. (a \div w) \div 2 = a \div (w * 2)
    BY DivDiv
  <2> QED
    BY <2>1, <2>2, DivMod
<1>2. Q \in Nat /\ R \in Nat /\ R < b /\ A = b * Q + R
  <2> HIDE DEF A
  <2> QED
    BY <1>1, DivMod
<1>3. bit \in Nat /\ bit < 2 /\ B = 2 * A + bit
  <2> HIDE DEF B, A
  <2> QED
    BY <1>1
<1>4. 2 * R < LLMod
  <2>1. R <= A
    <3>1. b * Q \in Nat
      BY <1>2
    <3> HIDE DEF A, Q, R
    <3> QED
      BY <1>1, <1>2, <3>1
  <2>2. 2 * A <= a
    <3>1. /\ a = w * B + (a % w) /\ a % w \in Nat
      BY DivMod
    <3> HIDE DEF B, A, bit
    <3>2. 1 * B <= w * B /\ w * B \in Nat /\ 1 * B = B
      BY <1>1, TimesMono
    <3> QED
      BY <1>1, <1>3, <3>1, <3>2
  <2> HIDE DEF A, R
  <2> QED
    BY <1>1, <1>2, <2>1, <2>2, LLModFacts
<1> DEFINE r == 2 * R + bit
<1>5. Iterated(a, b, w, s) = IF r >= b THEN [q |-> s.q + w, r |-> r - b] ELSE [q |-> s.q, r |-> r]
  <2>1. s.r = R
    OBVIOUS
  <2>2. (2 * R) % LLMod = 2 * R
    <3> HIDE DEF R
    <3> QED
      BY <1>2, <1>4, LLModFacts
  <2> HIDE DEF R
  <2> QED
    BY <2>1, <2>2 DEF Iterated
<1>6. s.q = Q * (2 * w)
  OBVIOUS
<1> HIDE DEF A, B, bit, Q, R
<1>7. B = b * (2 * Q) + r /\ r \in Nat /\ r < 2 * b
  BY <1>1, <1>2, <1>3
<1> HIDE DEF r
<1>8. Q * (2 * w) = (2 * Q) * w
  BY <1>2
<1>9. CASE r >= b
  <2>1. B = (2 * Q + 1) * b + (r - b) /\ r - b \in Nat /\ r - b < b /\ 2 * Q + 1 \in Nat
    BY <1>2, <1>7, <1>9
  <2>2. B \div b = 2 * Q + 1 /\ B % b = r - b
    <3> DEFINE u == 2 * Q + 1
               v == r - b
    <3>1. u \in Nat /\ v \in Nat /\ v < b /\ B = u * b + v
      BY <2>1
    <3> HIDE DEF u, v
    <3>2. B \div b = u /\ B % b = v
      BY <1>1, <3>1, DivModUnique
    <3> QED
      BY <3>2 DEF u, v
  <2>3. (2 * Q + 1) * w = (2 * Q) * w + w
    BY <1>2
  <2>4. Iterated(a, b, w, s) = [q |-> s.q + w, r |-> r - b]
    BY <1>5, <1>9
  <2> QED
    BY <1>6, <1>8, <2>2, <2>3, <2>4 DEF B
<1>10. CASE ~(r >= b)
  <2>1. B = (2 * Q) * b + r /\ r < b /\ 2 * Q \in Nat
    BY <1>2, <1>7, <1>10
  <2>2. B \div b = 2 * Q /\ B % b = r
    BY <1>1, <1>7, <2>1, DivModUnique, SMTT(60)
  <2>3. Iterated(a, b, w, s) = [q |-> s.q, r |-> r]
    BY <1>5, <1>10
  <2> QED
    BY <1>6, <1>8, <2>2, <2>3 DEF B
<1> QED
  BY <1>9, <1>10

(***************************************************************************)
(* __udivdi3 divides and __umoddi3 is the remainder, for all operands of   *)
(* 64 bits: no shift of the remainder loses a bit.                         *)
(***************************************************************************)
THEOREM DivisionHelpersDivide ==
  ASSUME NEW a \in Nat, a < LLMod, NEW b \in Nat, b > 0
  PROVE  udivdi3(a, b) = a \div b /\ umoddi3(a, b) = a % b
<1>1. PICK loop \in [0 .. LLBits -> QR] :
        /\ loop[0] = [q |-> 0, r |-> 0]
        /\ \A n \in 1 .. LLBits : loop[n] = Iterated(a, b, Pow(2, LLBits - n), loop[n - 1])
        /\ udivdi3(a, b) = loop[LLBits].q
  BY LoopFunction
<1> DEFINE A(n) == a \div Pow(2, LLBits - n)
           P == {n \in Nat : n <= LLBits =>
                   /\ loop[n].r = A(n) % b
                   /\ loop[n].q = (A(n) \div b) * Pow(2, LLBits - n)}
<1>2. LLBits \in Nat /\ LLBits - 0 = LLBits /\ LLBits - LLBits = 0
  BY LLModFacts
<1>3. 0 \in P
  <2>1. A(0) = 0
    <3>1. a = 0 * LLMod + a /\ LLMod > 0 /\ LLMod \in Nat
      BY LLModFacts
    <3> QED
      BY <1>2, <3>1, DivModUnique DEF LLMod
  <2>2. 0 = 0 * b + 0
    OBVIOUS
  <2>3. 0 % b = 0 /\ 0 \div b = 0
    BY <2>2, DivModUnique
  <2>4. Pow(2, LLBits - 0) \in Nat
    BY <1>2, PowFacts
  <2>5. 0 * Pow(2, LLBits - 0) = 0
    BY <2>4
  <2> QED
    BY <1>1, <2>1, <2>3, <2>5
<1>4. ASSUME NEW n \in Nat, n \in P PROVE n + 1 \in P
  <2>1. SUFFICES ASSUME n + 1 <= LLBits
                 PROVE  /\ loop[n + 1].r = A(n + 1) % b
                        /\ loop[n + 1].q = (A(n + 1) \div b) * Pow(2, LLBits - (n + 1))
    OBVIOUS
  <2> DEFINE i == LLBits - (n + 1)
             w == Pow(2, i)
             s == loop[n]
  <2>2. /\ i \in Nat /\ LLBits - n = i + 1 /\ n <= LLBits
        /\ n + 1 \in 1 .. LLBits /\ (n + 1) - 1 = n /\ n \in 0 .. LLBits
    BY <1>2, <2>1
  <2>3. w \in Nat /\ w > 0 /\ Pow(2, LLBits - n) = 2 * w
    <3> HIDE DEF i
    <3> QED
      BY <2>2, PowFacts
  <2>4. s \in QR
    BY <2>2
  <2>5. s.r = (a \div (2 * w)) % b /\ s.q = ((a \div (2 * w)) \div b) * (2 * w)
    BY <1>4, <2>2, <2>3
  <2>6. loop[n + 1] = Iterated(a, b, w, s)
    BY <1>1, <2>2
  <2> HIDE DEF w, s
  <2>7. /\ loop[n + 1].r = (a \div w) % b
        /\ loop[n + 1].q = ((a \div w) \div b) * w
    BY <2>3, <2>4, <2>5, <2>6, IteratedDivides
  <2> QED
    BY <2>7 DEF w
<1>5. \A n \in Nat : n \in P
  <2> HIDE DEF P
  <2> QED
    BY <1>3, <1>4, Induct
<1>6. udivdi3(a, b) = a \div b
  <2>1. Pow(2, 0) = 1
    BY PowFacts
  <2>2. a \div 1 = a
    OBVIOUS
  <2>3. a \div b \in Nat
    BY DivMod
  <2>4. loop[LLBits].q = (a \div b) * 1
    BY <1>2, <1>5, <2>1, <2>2
  <2>5. (a \div b) * 1 = a \div b
    BY <2>3
  <2> QED
    BY <1>1, <2>4, <2>5
<1>7. umoddi3(a, b) = a % b
  <2>1. /\ a \div b \in Nat /\ a % b \in Nat /\ a % b < b /\ a = b * (a \div b) + (a % b)
    BY DivMod
  <2> DEFINE q == a \div b
             m == a % b
  <2>2. umoddi3(a, b) = (a - q * b) % LLMod
    BY <1>6 DEF umoddi3
  <2> HIDE DEF q, m
  <2>3. a - q * b = m /\ m <= a
    <3>1. q * b \in Nat /\ b * q = q * b
      BY <2>1 DEF q
    <3> QED
      BY <2>1, <3>1 DEF q, m
  <2>4. m % LLMod = m
    BY <2>1, <2>3, LLModFacts DEF m
  <2> QED
    BY <2>2, <2>3, <2>4 DEF m
<1> QED
  BY <1>6, <1>7

-----------------------------------------------------------------------------
(* The digits of a number *)

\* The number of digits of v in base b is k.
HasDigits(v, b, k) == Pow(b, k) > v /\ \A j \in 0 .. k - 1 : Pow(b, j) <= v

\* Powers of a base are at least the powers of two.
LEMMA PowAtLeast ==
  ASSUME NEW b \in Nat, b >= 2
  PROVE  \A n \in Nat : Pow(2, n) <= Pow(b, n)
<1> DEFINE P == {n \in Nat : Pow(2, n) <= Pow(b, n)}
<1>8. b > 0 /\ 2 \in Nat /\ 2 > 0
  OBVIOUS
<1>1. 0 \in P
  BY <1>8, PowFacts
<1>2. ASSUME NEW n \in Nat, n \in P PROVE n + 1 \in P
  <2> DEFINE u == Pow(2, n)
             v == Pow(b, n)
  <2>1. /\ u \in Nat /\ v \in Nat /\ u <= v
        /\ Pow(2, n + 1) = 2 * u /\ Pow(b, n + 1) = b * v
    BY <1>8, <1>2, PowFacts
  <2> HIDE DEF u, v
  <2>2. 2 * v <= b * v /\ 2 * v \in Nat /\ b * v \in Nat
    BY <2>1, TimesMono
  <2> QED
    BY <2>1, <2>2
<1>3. \A n \in Nat : n \in P
  <2> HIDE DEF P
  <2> QED
    BY <1>1, <1>2, Induct
<1> QED
  BY <1>3

\* A value of long long has at most as many digits as bits.
LEMMA DigitCountFacts ==
  ASSUME NEW v \in Nat, v < LLMod, NEW b \in Nat, b >= 2
  PROVE  /\ DigitCount(v, b) \in 0 .. LLBits
         /\ HasDigits(v, b, DigitCount(v, b))
         /\ \A k \in 0 .. LLBits : HasDigits(v, b, k) => k = DigitCount(v, b)
<1>8. b > 0
  OBVIOUS
<1> DEFINE T == {k \in Nat : Pow(b, k) > v}
<1>1. LLBits \in Nat /\ LLBits \in T
  <2>1. LLBits \in Nat /\ Pow(2, LLBits) = LLMod
    BY LLModFacts DEF LLMod
  <2>2. Pow(2, LLBits) <= Pow(b, LLBits) /\ Pow(b, LLBits) \in Nat
    BY <1>8, <2>1, PowAtLeast, PowFacts
  <2> QED
    BY <2>1, <2>2, LLModFacts
<1>2. PICK m \in T : \A k \in T : m <= k
  <2> HIDE DEF T
  <2>1. T \subseteq Nat
    BY DEF T
  <2> QED
    BY <1>1, <2>1, Least
<1>3. m \in 0 .. LLBits
  BY <1>1, <1>2
<1>4. HasDigits(v, b, m)
  <2>1. ASSUME NEW j \in 0 .. m - 1 PROVE Pow(b, j) <= v
    <3>1. j \in Nat /\ ~(m <= j)
      OBVIOUS
    <3>2. j \notin T
      BY <1>2, <3>1
    <3>3. Pow(b, j) \in Nat
      BY <1>8, <3>1, PowFacts
    <3> QED
      BY <3>1, <3>2, <3>3
  <2> QED
    BY <2>1 DEF HasDigits
<1>5. /\ DigitCount(v, b) \in 0 .. LLBits
      /\ HasDigits(v, b, DigitCount(v, b))
  BY <1>3, <1>4 DEF DigitCount, HasDigits
<1>6. ASSUME NEW k \in 0 .. LLBits, NEW l \in 0 .. LLBits,
             HasDigits(v, b, k), HasDigits(v, b, l)
      PROVE  ~(k < l)
  <2> SUFFICES ASSUME k < l PROVE FALSE
    OBVIOUS
  <2>1. k \in 0 .. l - 1 /\ k \in Nat
    BY <1>1
  <2>2. Pow(b, k) <= v /\ Pow(b, k) > v /\ Pow(b, k) \in Nat
    BY <1>8, <1>6, <2>1, PowFacts DEF HasDigits
  <2> QED
    BY <2>2
<1>7. ASSUME NEW k \in 0 .. LLBits, HasDigits(v, b, k) PROVE k = DigitCount(v, b)
  <2> DEFINE l == DigitCount(v, b)
  <2>1. l \in 0 .. LLBits /\ HasDigits(v, b, l)
    BY <1>5
  <2> HIDE DEF l
  <2>2. ~(k < l) /\ ~(l < k)
    BY <1>6, <1>7, <2>1
  <2>3. k = l
    BY <1>1, <2>1, <2>2
  <2> QED
    BY <2>3 DEF l
<1> QED
  BY <1>5, <1>7

\* i divisions by the base divide by its i-th power.
LEMMA RestFacts ==
  ASSUME NEW num \in Nat, num < LLMod, NEW base \in Nat, base >= 2
  PROVE  \A i \in Nat : Divided(num, base)[i] = num \div Pow(base, i)
<1> DEFINE V == {n \in Nat : n < LLMod}
           Q == Quotient(base)
           Is(f) == f = [i \in Nat |-> IF i = 0 THEN num ELSE Q[f[i - 1]]]
           f == CHOOSE f : Is(f)
<1>1. ASSUME NEW n \in V PROVE Q[n] = n \div base /\ Q[n] \in V
  <2>1. n \in Nat /\ n < LLMod /\ base > 0
    OBVIOUS
  <2>2. Q[n] = n \div base
    BY <2>1, DivisionHelpersDivide DEF Quotient
  <2>3. n \div base \in Nat /\ n \div base <= n
    <3> DEFINE q == n \div base
               r == n % base
    <3>1. q \in Nat /\ r \in Nat /\ n = base * q + r
      BY <2>1, DivMod
    <3> HIDE DEF q, r
    <3>2. 1 * q <= base * q /\ base * q \in Nat /\ 1 * q = q
      BY <3>1, TimesMono
    <3>3. q \in Nat /\ q <= n
      BY <3>1, <3>2
    <3> QED
      BY <3>3 DEF q
  <2> QED
    BY <2>1, <2>2, <2>3, LLModFacts
<1>2. Divided(num, base) = f
  BY DEF Divided
<1> HIDE DEF Q
<1>3. \E g : Is(g)
  <2> DEFINE D == [k \in Nat |-> [v \in V |-> Q[v]]]
  <2>1. D \in [Nat -> [V -> V]]
    <3> HIDE DEF V
    <3> QED
      BY <1>1
  <2>2. PICK g \in [Nat -> V] : Follows(g, num, D)
    <3>1. num \in V
      OBVIOUS
    <3> HIDE DEF D, V
    <3> QED
      BY <2>1, <3>1, Recursion
  <2>3. ASSUME NEW k \in Nat PROVE g[k] = IF k = 0 THEN num ELSE Q[g[k - 1]]
    <3> HIDE DEF V
    <3>1. CASE k = 0
      BY <2>2, <3>1 DEF Follows
    <3>2. CASE k # 0
      <4>1. k - 1 \in Nat /\ (k - 1) + 1 = k
        BY <3>2
      <4>2. g[k] = D[k - 1][g[k - 1]] /\ g[k - 1] \in V
        BY <2>2, <4>1 DEF Follows
      <4> QED
        BY <3>2, <4>1, <4>2
    <3> QED
      BY <3>1, <3>2
  <2>4. g = [k \in Nat |-> g[k]]
    OBVIOUS
  <2>5. Is(g)
    BY <2>3, <2>4
  <2> QED
    BY <2>5
<1>4. Is(f)
  <2> HIDE DEF Is
  <2> QED
    BY <1>3
<1> HIDE DEF f
<1>5. f[0] = num
  BY <1>4
<1>6. ASSUME NEW k \in Nat PROVE f[k + 1] = Q[f[k]]
  <2>1. k + 1 \in Nat /\ k + 1 # 0 /\ (k + 1) - 1 = k
    OBVIOUS
  <2> QED
    BY <1>4, <2>1
<1> DEFINE P == {k \in Nat : f[k] = num \div Pow(base, k) /\ f[k] \in V}
<1> HIDE DEF Is
<1>7. 0 \in P
  <2>1. Pow(base, 0) = 1
    BY PowFacts
  <2> QED
    BY <1>5, <2>1
<1>8. ASSUME NEW k \in Nat, k \in P PROVE k + 1 \in P
  <2> DEFINE w == Pow(base, k)
  <2>9. base > 0
    OBVIOUS
  <2>1. w \in Nat /\ w > 0 /\ Pow(base, k + 1) = base * w
    BY <2>9, PowFacts
  <2>2. f[k] = num \div w /\ f[k] \in V
    BY <1>8
  <2>3. f[k + 1] = f[k] \div base /\ f[k + 1] \in V
    <3> HIDE DEF V
    <3> QED
      BY <1>1, <1>6, <2>2
  <2> HIDE DEF w, V
  <2>4. (num \div w) \div base = num \div (w * base) /\ w * base = base * w
    BY <2>1, DivDiv
  <2> QED
    BY <2>1, <2>2, <2>3, <2>4
<1>9. \A k \in Nat : k \in P
  <2> HIDE DEF P
  <2> QED
    BY <1>7, <1>8, Induct
<1> QED
  BY <1>2, <1>9

\* Step 2 of print_number leaves the digits of num in the buffer, last one first.
LEMMA NumBufFacts ==
  ASSUME NEW num \in Nat, num < LLMod, NEW base \in Nat, base >= 2, NEW chars
  PROVE  NumBuf(num, base, chars)
           = [i \in 1 .. DigitCount(num, base) |->
                chars[((num \div Pow(base, i - 1)) % base) + 1]]
<1> DEFINE rest == Divided(num, base)
           digit == [n \in Nat |-> chars[umoddi3(n, base) + 1]]
           Is(i) == rest[i] = 0 /\ \A j \in 0 .. i - 1 : rest[j] # 0
           len == CHOOSE i \in 0 .. LLBits : Is(i)
<1>1. LLBits \in Nat
  BY LLModFacts
<1>2. \A i \in Nat : rest[i] = num \div Pow(base, i) /\ rest[i] \in Nat /\ rest[i] < LLMod
  <2>1. ASSUME NEW i \in Nat PROVE rest[i] = num \div Pow(base, i) /\ rest[i] \in Nat /\ rest[i] < LLMod
    <3> DEFINE w == Pow(base, i)
    <3>1. w \in Nat /\ w > 0 /\ rest[i] = num \div w
      BY PowFacts, RestFacts
    <3> DEFINE q == num \div w
               r == num % w
    <3> HIDE DEF w
    <3>2. q \in Nat /\ r \in Nat /\ num = w * q + r
      BY <3>1, DivMod
    <3> HIDE DEF q, r
    <3>3. 1 * q <= w * q /\ w * q \in Nat /\ 1 * q = q
      BY <3>1, <3>2, TimesMono
    <3>4. q \in Nat /\ q < LLMod
      BY <3>2, <3>3, LLModFacts
    <3> QED
      BY <3>1, <3>4 DEF q, w
  <2> QED
    BY <2>1
<1>3. ASSUME NEW i \in Nat PROVE rest[i] = 0 <=> Pow(base, i) > num
  <2> DEFINE w == Pow(base, i)
             q == num \div w
             r == num % w
  <2>9. base > 0
    OBVIOUS
  <2>1. w \in Nat /\ w > 0
    BY <2>9, PowFacts
  <2>2. q \in Nat /\ r \in Nat /\ r < w /\ num = w * q + r
    <3> HIDE DEF w
    <3> QED
      BY <2>1, DivMod
  <2>3. rest[i] = q
    BY <1>2
  <2> HIDE DEF w, q, r
  <2>4. CASE q = 0
    <3>1. w * q = 0
      BY <2>1, <2>4
    <3> QED
      BY <2>1, <2>2, <2>3, <2>4, <3>1 DEF w
  <2>5. CASE q # 0
    <3>1. 1 <= q /\ 1 \in Nat
      BY <2>2, <2>5
    <3>2. 1 * w <= q * w /\ q * w = w * q /\ 1 * w = w /\ q * w \in Nat
      BY <2>1, <2>2, <3>1, TimesMono
    <3> QED
      BY <2>1, <2>2, <2>3, <2>5, <3>2 DEF w
  <2> QED
    BY <2>4, <2>5
<1> DEFINE n == DigitCount(num, base)
<1>4. /\ n \in 0 .. LLBits /\ HasDigits(num, base, n)
      /\ \A k \in 0 .. LLBits : HasDigits(num, base, k) => k = n
  BY DigitCountFacts
<1>5. ASSUME NEW i \in 0 .. LLBits PROVE Is(i) <=> HasDigits(num, base, i)
  <2>1. i \in Nat /\ \A j \in 0 .. i - 1 : j \in Nat
    BY <1>1
  <2>2. \A j \in Nat : Pow(base, j) \in Nat
    BY PowFacts
  <2>3. \A j \in 0 .. i - 1 : rest[j] # 0 <=> Pow(base, j) <= num
    BY <1>3, <2>1, <2>2
  <2> HIDE DEF rest
  <2> QED
    BY <1>3, <2>1, <2>3 DEF HasDigits
<1>6. NumBuf(num, base, chars) = [i \in 1 .. len |-> digit[rest[i - 1]]]
  BY DEF NumBuf
<1>7. len = n
  <2> HIDE DEF Is, n
  <2>1. len \in 0 .. LLBits /\ Is(len)
    BY <1>4, <1>5
  <2> HIDE DEF len
  <2> QED
    BY <1>4, <1>5, <2>1
<1>8. ASSUME NEW i \in 1 .. n
      PROVE  digit[rest[i - 1]] = chars[((num \div Pow(base, i - 1)) % base) + 1]
  <2> HIDE DEF n
  <2>1. i - 1 \in Nat
    BY <1>1, <1>4
  <2>2. rest[i - 1] = num \div Pow(base, i - 1) /\ rest[i - 1] \in Nat /\ rest[i - 1] < LLMod
    BY <1>2, <2>1
  <2> HIDE DEF rest
  <2>3. umoddi3(rest[i - 1], base) = rest[i - 1] % base
    BY <2>2, DivisionHelpersDivide
  <2> QED
    BY <2>2, <2>3
<1> HIDE DEF len, n, digit, rest
<1> QED
  BY <1>6, <1>7, <1>8 DEF n

-----------------------------------------------------------------------------
(* Sequences and characters *)

\* A function on 1 .. n is a sequence of length n.
LEMMA FunSeq ==
  ASSUME NEW n \in Nat, NEW S, NEW f \in [1 .. n -> S]
  PROVE  f \in Seq(S) /\ Len(f) = n
<1>1. f \in Seq(S)
  BY SeqDef
<1>2. Len(f) \in Nat /\ DOMAIN f = 1 .. Len(f) /\ DOMAIN f = 1 .. n
  BY <1>1, LenProperties
<1>3. ~(n < Len(f))
  <2> SUFFICES ASSUME n < Len(f) PROVE FALSE
    OBVIOUS
  <2>1. Len(f) \in 1 .. Len(f) /\ Len(f) \notin 1 .. n
    BY <1>2
  <2> QED
    BY <1>2, <2>1
<1>4. ~(Len(f) < n)
  <2> SUFFICES ASSUME Len(f) < n PROVE FALSE
    OBVIOUS
  <2>1. n \in 1 .. n /\ n \notin 1 .. Len(f)
    BY <1>2
  <2> QED
    BY <1>2, <2>1
<1> QED
  BY <1>1, <1>2, <1>3, <1>4

\* A run of one character.
LEMMA RepFacts ==
  ASSUME NEW c \in Char, NEW n \in Int
  PROVE  /\ Rep(c, n) \in Seq(Char)
         /\ Len(Rep(c, n)) = (IF n > 0 THEN n ELSE 0)
         /\ n <= 0 => Rep(c, n) = << >>
         /\ \A i \in 1 .. n : Rep(c, n)[i] = c
<1>1. CASE n > 0
  <2> DEFINE f == [i \in 1 .. n |-> c]
  <2>1. n \in Nat /\ f \in [1 .. n -> Char] /\ Rep(c, n) = f
    BY <1>1 DEF Rep
  <2>2. \A i \in 1 .. n : f[i] = c
    OBVIOUS
  <2> HIDE DEF f
  <2>3. f \in Seq(Char) /\ Len(f) = n
    BY <2>1, FunSeq
  <2> QED
    BY <1>1, <2>1, <2>2, <2>3
<1>2. CASE ~(n > 0)
  <2>1. Rep(c, n) = << >> /\ ~(n > 0) /\ 1 .. n = {}
    BY <1>2 DEF Rep
  <2> QED
    BY <2>1, EmptySeq
<1> QED
  BY <1>1, <1>2

\* The characters that printk prints by itself.
LEMMA OwnChars ==
  /\ "0" \in Char /\ "1" \in Char /\ "2" \in Char /\ "3" \in Char /\ "4" \in Char
  /\ "5" \in Char /\ "6" \in Char /\ "7" \in Char /\ "8" \in Char /\ "9" \in Char
  /\ "a" \in Char /\ "b" \in Char /\ "c" \in Char /\ "d" \in Char /\ "e" \in Char /\ "f" \in Char
  /\ "A" \in Char /\ "B" \in Char /\ "C" \in Char /\ "D" \in Char /\ "E" \in Char /\ "F" \in Char
  /\ "x" \in Char /\ "X" \in Char /\ "-" \in Char /\ "+" \in Char /\ " " \in Char /\ "%" \in Char
  /\ "\n" \in Char /\ "t" \in Char
  /\ "(" \in Char /\ "n" \in Char /\ "u" \in Char /\ "l" \in Char /\ ")" \in Char
BY CharAssumption, ZenonT(90)

\* Six elements are a sequence, and so are ten.
LEMMA Tuples ==
  ASSUME NEW C, NEW a \in C, NEW b \in C, NEW c \in C, NEW d \in C, NEW e \in C, NEW f \in C
  PROVE  /\ <<a, b, c, d, e, f>> \in Seq(C)
         /\ \A g, h, i, j \in C : <<a, b, c, d, e, f, g, h, i, j>> \in Seq(C)
OBVIOUS

\* The digits are characters, sixteen of either case.
LEMMA DigitSets ==
  ASSUME NEW chars \in {LowerChars, UpperChars}
  PROVE  \A i \in 1 .. 16 : chars[i] \in Char
<1>1. DigitChars \in Seq(Char) /\ Len(DigitChars) = 10
  <2>1. DigitChars \in Seq(Char)
    BY OwnChars, Tuples DEF DigitChars
  <2>2. Len(DigitChars) = 10
    BY DEF DigitChars
  <2> QED
    BY <2>1, <2>2
<1>2. ASSUME NEW t \in Seq(Char), Len(t) = 6
      PROVE  \A i \in 1 .. 16 : (DigitChars \o t)[i] \in Char
  <2> DEFINE w == DigitChars \o t
  <2>1. w \in Seq(Char) /\ Len(w) = Len(DigitChars) + Len(t)
    BY <1>1, ConcatProperties
  <2> HIDE DEF w
  <2>2. Len(w) = 16
    BY <1>1, <1>2, <2>1
  <2>3. \A i \in 1 .. 16 : w[i] \in Char
    BY <2>1, <2>2, ElementOfSeq
  <2> QED
    BY <2>3 DEF w
<1> DEFINE lo == <<"a", "b", "c", "d", "e", "f">>
           up == <<"A", "B", "C", "D", "E", "F">>
<1>3. lo \in Seq(Char) /\ up \in Seq(Char)
  BY OwnChars, Tuples
<1>4. Len(lo) = 6 /\ Len(up) = 6
  OBVIOUS
<1>5. LowerChars = DigitChars \o lo /\ UpperChars = DigitChars \o up
  BY DEF LowerChars, UpperChars
<1> HIDE DEF lo, up
<1> QED
  BY <1>2, <1>3, <1>4, <1>5

-----------------------------------------------------------------------------
(* Numbers read and text shown *)

\* The digits have values.
LEMMA DigitValue ==
  /\ Digits = {"0", "1", "2", "3", "4", "5", "6", "7", "8", "9"}
  /\ \A c \in Digits : DigitOf(c) \in Nat
<1>1. Digits = {"0", "1", "2", "3", "4", "5", "6", "7", "8", "9"}
  BY DEF Digits, DigitChars, Range
<1>2. \A c \in Digits : \E i \in 1 .. 10 : DigitChars[i] = c
  BY <1>1 DEF DigitChars
<1>3. ASSUME NEW c \in Digits PROVE DigitOf(c) \in Nat
  <2> DEFINE i == CHOOSE i \in 1 .. 10 : DigitChars[i] = c
  <2>1. i \in 1 .. 10
    BY <1>2
  <2> HIDE DEF i
  <2>2. DigitOf(c) = i - 1
    BY DEF DigitOf, i
  <2> QED
    BY <2>1, <2>2
<1> QED
  BY <1>1, <1>3

\* val[i] is the number the first i digits of s are.
Values(val, s) ==
  /\ val[0] = 0
  /\ \A i \in 1 .. Len(s) : val[i] = 10 * val[i - 1] + DigitOf(s[i])
  /\ NumberOf(s) = val[Len(s)]

\* The value of a sequence of digits, as the function it is computed by.
LEMMA NumberFunction ==
  ASSUME NEW s \in Seq(Digits)
  PROVE  \E val \in [0 .. Len(s) -> Nat] : Values(val, s)
<1> DEFINE N == Len(s)
           Is(f) == f = [i \in 0 .. N |-> IF i = 0 THEN 0 ELSE 10 * f[i - 1] + DigitOf(s[i])]
           f == CHOOSE f : Is(f)
<1>1. N \in Nat /\ \A i \in 1 .. N : DigitOf(s[i]) \in Nat
  BY LenProperties, ElementOfSeq, DigitValue
<1>2. NumberOf(s) = f[N]
  BY DEF NumberOf
<1> HIDE DEF N
<1>3. \E g \in [0 .. N -> Nat] : Is(g)
  <2> DEFINE D == [i \in 1 .. N |-> [v \in Nat |-> 10 * v + DigitOf(s[i])]]
  <2>1. D \in [1 .. N -> [Nat -> Nat]]
    BY <1>1
  <2>2. PICK g \in [0 .. N -> Nat] : FollowsTo(g, 0, D, N)
    <3>1. 0 \in Nat
      OBVIOUS
    <3> HIDE DEF D
    <3> QED
      BY <1>1, <2>1, <3>1, RecursionTo
  <2>3. ASSUME NEW i \in 0 .. N
        PROVE  g[i] = IF i = 0 THEN 0 ELSE 10 * g[i - 1] + DigitOf(s[i])
    <3>1. CASE i = 0
      BY <2>2, <3>1 DEF FollowsTo
    <3>2. CASE i # 0
      <4>1. i \in 1 .. N /\ i - 1 \in 0 .. N
        BY <1>1, <3>2
      <4>2. g[i] = D[i][g[i - 1]] /\ g[i - 1] \in Nat
        BY <2>2, <4>1 DEF FollowsTo
      <4> QED
        BY <3>2, <4>1, <4>2
    <3> QED
      BY <3>1, <3>2
  <2>4. g = [i \in 0 .. N |-> g[i]]
    OBVIOUS
  <2>5. Is(g)
    BY <2>3, <2>4
  <2> QED
    BY <2>5
<1>4. Is(f)
  <2> HIDE DEF Is
  <2> QED
    BY <1>3
<1> HIDE DEF f
<1>5. f[0] = 0 /\ f = [i \in 0 .. N |-> f[i]]
  BY <1>1, <1>4
<1>6. ASSUME NEW i \in 1 .. N PROVE f[i] = 10 * f[i - 1] + DigitOf(s[i])
  <2>1. i \in 0 .. N /\ i # 0
    BY <1>1
  <2> QED
    BY <1>4, <2>1
<1> DEFINE P == {i \in Nat : i <= N => f[i] \in Nat}
<1>7. \A i \in Nat : i \in P
  <2>1. 0 \in P
    BY <1>5
  <2>2. ASSUME NEW i \in Nat, i \in P PROVE i + 1 \in P
    <3>1. SUFFICES ASSUME i + 1 <= N PROVE f[i + 1] \in Nat
      OBVIOUS
    <3>2. i + 1 \in 1 .. N /\ (i + 1) - 1 = i /\ i <= N
      BY <1>1, <3>1
    <3>3. f[i + 1] = 10 * f[i] + DigitOf(s[i + 1]) /\ f[i] \in Nat /\ DigitOf(s[i + 1]) \in Nat
      BY <1>1, <1>6, <2>2, <3>2
    <3> QED
      BY <3>3
  <2> HIDE DEF P
  <2> QED
    BY <2>1, <2>2, Induct
<1>8. f \in [0 .. N -> Nat]
  BY <1>1, <1>5, <1>7
<1> HIDE DEF Is
<1> QED
  BY <1>2, <1>5, <1>6, <1>8 DEF N, Values

\* No digits make zero, and one digit more ten times the number and the digit.
LEMMA NumberFacts ==
  /\ NumberOf(<< >>) = 0
  /\ \A s \in Seq(Digits) : NumberOf(s) \in Nat
  /\ \A s \in Seq(Digits), c \in Digits :
       NumberOf(Append(s, c)) = 10 * NumberOf(s) + DigitOf(c)
<1>1. NumberOf(<< >>) = 0
  <2>1. << >> \in Seq(Digits) /\ Len(<< >>) = 0
    BY EmptySeq
  <2>2. \E val \in [0 .. Len(<< >>) -> Nat] : Values(val, << >>)
    BY <2>1, NumberFunction
  <2> QED
    BY <2>1, <2>2 DEF Values
<1>2. ASSUME NEW s \in Seq(Digits) PROVE NumberOf(s) \in Nat
  <2>1. PICK val \in [0 .. Len(s) -> Nat] : Values(val, s)
    BY NumberFunction
  <2>2. Len(s) \in Nat /\ Len(s) \in 0 .. Len(s)
    BY LenProperties
  <2> QED
    BY <2>1, <2>2 DEF Values
<1>3. ASSUME NEW s \in Seq(Digits), NEW c \in Digits
      PROVE  NumberOf(Append(s, c)) = 10 * NumberOf(s) + DigitOf(c)
  <2> DEFINE t == Append(s, c)
             N == Len(s)
  <2>1. /\ t \in Seq(Digits) /\ Len(t) = N + 1 /\ N \in Nat
        /\ \A i \in 1 .. N : t[i] = s[i]
        /\ t[N + 1] = c
    BY AppendProperties, LenProperties
  <2> HIDE DEF t
  <2>2. PICK f \in [0 .. Len(s) -> Nat] : Values(f, s)
    BY NumberFunction
  <2>3. PICK g \in [0 .. Len(t) -> Nat] : Values(g, t)
    BY <2>1, NumberFunction
  <2>4. /\ f[0] = 0 /\ g[0] = 0
        /\ \A i \in 1 .. N : f[i] = 10 * f[i - 1] + DigitOf(s[i])
        /\ \A i \in 1 .. N + 1 : g[i] = 10 * g[i - 1] + DigitOf(t[i])
        /\ NumberOf(s) = f[N] /\ NumberOf(t) = g[N + 1]
    BY <2>1, <2>2, <2>3 DEF Values
  <2> HIDE DEF N
  <2> DEFINE P == {i \in Nat : i <= N => g[i] = f[i]}
  <2>5. 0 \in P
    BY <2>4
  <2>6. ASSUME NEW i \in Nat, i \in P PROVE i + 1 \in P
    <3>1. SUFFICES ASSUME i + 1 <= N PROVE g[i + 1] = f[i + 1]
      OBVIOUS
    <3>2. i + 1 \in 1 .. N /\ i + 1 \in 1 .. N + 1 /\ (i + 1) - 1 = i /\ i <= N
      BY <2>1, <3>1
    <3>3. g[i] = f[i] /\ t[i + 1] = s[i + 1]
      BY <2>1, <2>6, <3>2
    <3> QED
      BY <2>4, <3>2, <3>3
  <2>7. \A i \in Nat : i \in P
    <3> HIDE DEF P
    <3> QED
      BY <2>5, <2>6, Induct
  <2>8. g[N] = f[N] /\ N + 1 \in 1 .. N + 1 /\ (N + 1) - 1 = N
    BY <2>1, <2>7
  <2>9. g[N + 1] = 10 * f[N] + DigitOf(c)
    BY <2>1, <2>4, <2>8
  <2> QED
    BY <2>4, <2>9 DEF t
<1> QED
  BY <1>1, <1>2, <1>3

\* shown[i] is what a terminal shows of the first i characters of s.
Shows(shown, s) ==
  /\ shown[0] = << >>
  /\ \A i \in 1 .. Len(s) :
       shown[i] = IF s[i] = "\r" THEN shown[i - 1] ELSE Append(shown[i - 1], s[i])
  /\ Shown(s) = shown[Len(s)]

\* What is shown of a sequence, as the function it is computed by.
LEMMA ShownFunction ==
  ASSUME NEW C, NEW s \in Seq(C)
  PROVE  \E shown \in [0 .. Len(s) -> Seq(C)] : Shows(shown, s)
<1> DEFINE N == Len(s)
           V == Seq(C)
           E == << >>
           Is(f) == f = [i \in 0 .. N |->
                           IF i = 0 THEN E
                           ELSE IF s[i] = "\r" THEN f[i - 1] ELSE Append(f[i - 1], s[i])]
           f == CHOOSE f : Is(f)
<1>1. N \in Nat /\ E \in V /\ \A i \in 1 .. N : s[i] \in C
  BY LenProperties, ElementOfSeq, EmptySeq
<1>2. \A v \in V : \A i \in 1 .. N : Append(v, s[i]) \in V
  BY <1>1, AppendProperties
<1>3. Shown(s) = f[N]
  BY DEF Shown
<1> HIDE DEF N, E, V
<1>4. \E g \in [0 .. N -> V] : Is(g)
  <2> DEFINE D == [i \in 1 .. N |-> [v \in V |-> IF s[i] = "\r" THEN v ELSE Append(v, s[i])]]
  <2>1. D \in [1 .. N -> [V -> V]]
    BY <1>2
  <2>2. PICK g \in [0 .. N -> V] : FollowsTo(g, E, D, N)
    <3> HIDE DEF D
    <3> QED
      BY <1>1, <2>1, RecursionTo
  <2>3. ASSUME NEW i \in 0 .. N
        PROVE  g[i] = IF i = 0 THEN E
                      ELSE IF s[i] = "\r" THEN g[i - 1] ELSE Append(g[i - 1], s[i])
    <3>1. CASE i = 0
      BY <2>2, <3>1 DEF FollowsTo
    <3>2. CASE i # 0
      <4>1. i \in 1 .. N /\ i - 1 \in 0 .. N
        BY <1>1, <3>2
      <4>2. g[i] = D[i][g[i - 1]] /\ g[i - 1] \in V
        BY <2>2, <4>1 DEF FollowsTo
      <4> QED
        BY <3>2, <4>1, <4>2
    <3> QED
      BY <3>1, <3>2
  <2>4. g = [i \in 0 .. N |-> g[i]]
    OBVIOUS
  <2>5. Is(g)
    BY <2>3, <2>4
  <2> QED
    BY <2>5
<1>5. Is(f)
  <2> HIDE DEF Is
  <2> QED
    BY <1>4
<1> HIDE DEF f
<1>6. f[0] = E /\ f = [i \in 0 .. N |-> f[i]]
  BY <1>1, <1>5
<1>7. ASSUME NEW i \in 1 .. N
      PROVE  f[i] = IF s[i] = "\r" THEN f[i - 1] ELSE Append(f[i - 1], s[i])
  <2>1. i \in 0 .. N /\ i # 0
    BY <1>1
  <2> QED
    BY <1>5, <2>1
<1> DEFINE P == {i \in Nat : i <= N => f[i] \in V}
<1>8. \A i \in Nat : i \in P
  <2>1. 0 \in P
    BY <1>1, <1>6
  <2>2. ASSUME NEW i \in Nat, i \in P PROVE i + 1 \in P
    <3>1. SUFFICES ASSUME i + 1 <= N PROVE f[i + 1] \in V
      OBVIOUS
    <3>2. i + 1 \in 1 .. N /\ (i + 1) - 1 = i /\ i <= N
      BY <1>1, <3>1
    <3>3. f[i] \in V
      BY <2>2, <3>2
    <3>4. f[i + 1] = IF s[i + 1] = "\r" THEN f[i] ELSE Append(f[i], s[i + 1])
      BY <1>7, <3>2
    <3> QED
      BY <1>2, <3>2, <3>3, <3>4
  <2> HIDE DEF P
  <2> QED
    BY <2>1, <2>2, Induct
<1>9. f \in [0 .. N -> V]
  BY <1>1, <1>6, <1>8
<1> HIDE DEF Is
<1> QED
  BY <1>3, <1>6, <1>7, <1>9 DEF N, Shows, V, E

\* A terminal shows what it is sent, carriage returns aside.
LEMMA ShownFacts ==
  ASSUME NEW C
  PROVE  /\ Shown(<< >>) = << >>
         /\ \A s \in Seq(C) : Shown(s) \in Seq(C)
         /\ \A s \in Seq(C), c \in C :
              Shown(Append(s, c)) = IF c = "\r" THEN Shown(s) ELSE Append(Shown(s), c)
<1>1. Shown(<< >>) = << >>
  <2>1. << >> \in Seq(C) /\ Len(<< >>) = 0
    BY EmptySeq
  <2>2. \E f \in [0 .. Len(<< >>) -> Seq(C)] : Shows(f, << >>)
    BY <2>1, ShownFunction
  <2> QED
    BY <2>1, <2>2 DEF Shows
<1>2. ASSUME NEW s \in Seq(C) PROVE Shown(s) \in Seq(C)
  <2>1. PICK f \in [0 .. Len(s) -> Seq(C)] : Shows(f, s)
    BY ShownFunction
  <2>2. Len(s) \in Nat /\ Len(s) \in 0 .. Len(s)
    BY LenProperties
  <2> QED
    BY <2>1, <2>2 DEF Shows
<1>3. ASSUME NEW s \in Seq(C), NEW c \in C
      PROVE  Shown(Append(s, c)) = IF c = "\r" THEN Shown(s) ELSE Append(Shown(s), c)
  <2> DEFINE t == Append(s, c)
             N == Len(s)
             V == Seq(C)
  <2>1. /\ t \in Seq(C) /\ Len(t) = N + 1 /\ N \in Nat
        /\ \A i \in 1 .. N : t[i] = s[i]
        /\ t[N + 1] = c
    BY AppendProperties, LenProperties
  <2> HIDE DEF t
  <2>2. PICK f \in [0 .. Len(s) -> V] : Shows(f, s)
    BY ShownFunction
  <2>3. PICK g \in [0 .. Len(t) -> V] : Shows(g, t)
    BY <2>1, ShownFunction
  <2>4. /\ f[0] = << >> /\ g[0] = << >>
        /\ \A i \in 1 .. N : f[i] = IF s[i] = "\r" THEN f[i - 1] ELSE Append(f[i - 1], s[i])
        /\ \A i \in 1 .. N + 1 : g[i] = IF t[i] = "\r" THEN g[i - 1] ELSE Append(g[i - 1], t[i])
        /\ Shown(s) = f[N] /\ Shown(t) = g[N + 1]
    BY <2>1, <2>2, <2>3 DEF Shows
  <2> HIDE DEF N, V
  <2> DEFINE P == {i \in Nat : i <= N => g[i] = f[i]}
  <2>5. 0 \in P
    BY <2>4
  <2>6. ASSUME NEW i \in Nat, i \in P PROVE i + 1 \in P
    <3>1. SUFFICES ASSUME i + 1 <= N PROVE g[i + 1] = f[i + 1]
      OBVIOUS
    <3>2. i + 1 \in 1 .. N /\ i + 1 \in 1 .. N + 1 /\ (i + 1) - 1 = i /\ i <= N
      BY <2>1, <3>1
    <3>3. g[i] = f[i] /\ t[i + 1] = s[i + 1]
      BY <2>1, <2>6, <3>2
    <3> QED
      BY <2>4, <3>2, <3>3
  <2>7. \A i \in Nat : i \in P
    <3> HIDE DEF P
    <3> QED
      BY <2>5, <2>6, Induct
  <2>8. g[N] = f[N] /\ N + 1 \in 1 .. N + 1 /\ (N + 1) - 1 = N
    BY <2>1, <2>7
  <2>9. g[N + 1] = IF c = "\r" THEN f[N] ELSE Append(f[N], c)
    BY <2>1, <2>4, <2>8
  <2> QED
    BY <2>4, <2>9 DEF t
<1> QED
  BY <1>1, <1>2, <1>3

-----------------------------------------------------------------------------
(* The argument of a conversion *)

\* What printk has read of d when it comes to the conversion.
FinalSpec(d) ==
  [flags     |-> Range(d.flags),
   width     |-> NumberOf(d.width),
   precision |-> IF d.dot THEN NumberOf(d.precision) ELSE -1,
   is_long   |-> IF d.size = <<"l">> THEN 1 ELSE IF d.size = <<"l", "l">> THEN 2 ELSE 0,
   is_size_t |-> d.size = <<"z">>]

IsNumber(d) == d.conv \in {"d", "i", "u", "x", "X"}

Abs(v) == IF v < 0 THEN -v ELSE v

\* The widths of the types.
LEMMA TypeFacts ==
  ASSUME NEW d \in Directives, d.size \in {<< >>, <<"l">>, <<"z">>, <<"l", "l">>}
  PROVE  /\ ArgMod(FinalSpec(d)) = TypeMod(d)
         /\ TypeMod(d) \in Nat /\ TypeMod(d) > 0 /\ TypeMod(d) <= LLMod
         /\ d.size = <<"z">> => TypeMod(d) = LongMod
<1>1. /\ IntMod \in Nat /\ LongMod \in Nat /\ LLMod \in Nat
      /\ 0 < IntMod /\ IntMod <= LongMod /\ LongMod <= LLMod
  BY PrintkAssumption, LLModFacts
<1>2. /\ << >> # <<"l">> /\ << >> # <<"z">> /\ << >> # <<"l", "l">>
      /\ <<"l">> # <<"z">> /\ <<"l">> # <<"l", "l">> /\ <<"z">> # <<"l", "l">>
  <2>1. Len(<< >>) = 0 /\ Len(<<"l">>) = 1 /\ Len(<<"z">>) = 1 /\ Len(<<"l", "l">>) = 2
    OBVIOUS
  <2>2. <<"l">>[1] = "l" /\ <<"z">>[1] = "z"
    OBVIOUS
  <2> QED
    BY <2>1, <2>2
<1>3. CASE d.size = << >>
  <2>1. TypeMod(d) = IntMod
    BY <1>3 DEF TypeMod
  <2>2. ArgMod(FinalSpec(d)) = IntMod
    <3>1. ~FinalSpec(d).is_size_t
      BY <1>2, <1>3 DEF FinalSpec
    <3>2. FinalSpec(d).is_long = 0
      BY <1>2, <1>3 DEF FinalSpec
    <3> HIDE DEF FinalSpec
    <3> QED
      BY <3>1, <3>2 DEF ArgMod
  <2> QED
    BY <1>1, <1>2, <1>3, <2>1, <2>2
<1>4. CASE d.size = <<"l">>
  <2>1. TypeMod(d) = LongMod
    BY <1>2, <1>4 DEF TypeMod
  <2>2. ArgMod(FinalSpec(d)) = LongMod
    <3>1. ~FinalSpec(d).is_size_t
      BY <1>2, <1>4 DEF FinalSpec
    <3>2. FinalSpec(d).is_long = 1
      BY <1>2, <1>4 DEF FinalSpec
    <3> HIDE DEF FinalSpec
    <3> QED
      BY <3>1, <3>2 DEF ArgMod
  <2> QED
    BY <1>1, <1>2, <1>4, <2>1, <2>2
<1>5. CASE d.size = <<"z">>
  <2>1. TypeMod(d) = LongMod
    BY <1>2, <1>5 DEF TypeMod
  <2>2. ArgMod(FinalSpec(d)) = LongMod
    BY <1>2, <1>5 DEF FinalSpec, ArgMod
  <2> QED
    BY <1>1, <2>1, <2>2
<1>6. CASE d.size = <<"l", "l">>
  <2>1. TypeMod(d) = LLMod
    BY <1>2, <1>6 DEF TypeMod
  <2>2. ArgMod(FinalSpec(d)) = LLMod
    <3>1. ~FinalSpec(d).is_size_t
      BY <1>2, <1>6 DEF FinalSpec
    <3>2. FinalSpec(d).is_long = 2
      BY <1>2, <1>6 DEF FinalSpec
    <3> HIDE DEF FinalSpec
    <3> QED
      BY <3>1, <3>2 DEF ArgMod
  <2> QED
    BY <1>1, <1>2, <1>6, <2>1, <2>2
<1> QED
  BY <1>3, <1>4, <1>5, <1>6

\* The magnitude step 1 of print_number makes of num.
Magnitude(num, signed) == IF signed /\ Negative(num) THEN (LLMod - num) % LLMod ELSE num

\* Reading as a signed type of modulus m: step 1 finds the value's sign and size.
LEMMA SignedFacts ==
  ASSUME NEW bits \in Nat, NEW m \in Nat, m > 0, m <= LLMod
  PROVE  LET n   == bits % m
             val == IF n >= m \div 2 THEN n - m ELSE n
             num == Signed(bits, m)
         IN  /\ num \in Nat /\ num < LLMod /\ val \in Int
             /\ Negative(num) <=> val < 0
             /\ Magnitude(num, TRUE) = Abs(val)
             /\ Abs(val) \in Nat /\ Abs(val) < LLMod
<1> DEFINE n == bits % m
           M == LLMod
           h == M \div 2
           k == m \div 2
<1>1. n \in Nat /\ n < m
  BY DivMod
<1>2. M \in Nat /\ h \in Nat /\ M = 2 * h /\ h > 0
  BY LLModFacts
<1>3. k \in Nat /\ 2 * k <= m /\ m <= 2 * k + 1
  OBVIOUS
<1>4. Signed(bits, m) = IF n >= k THEN (n - m) % M ELSE n
  BY DEF Signed
<1>5. \A x : Negative(x) <=> x >= h
  BY DEF Negative
<1>6. m <= M
  OBVIOUS
<1> HIDE DEF n, k, h, M
<1>7. CASE n >= k
  <2> DEFINE num == (n - m) % M
             u == n - m
  <2>1. u \in Int /\ u < 0 /\ -u \in Nat /\ -u <= h /\ -u < M
    BY <1>1, <1>2, <1>3, <1>6, <1>7
  <2>2. num = M + u
    <3>1. u % M = M + u
      <4> HIDE DEF u
      <4>1. M + u \in 0 .. M - 1 /\ M > 0
        BY <1>2, <2>1
      <4>2. (M + u) % M = M + u
        BY <1>2, <4>1
      <4>3. (M + u) % M = u % M
        BY <1>2, <2>1, <4>1
      <4> QED
        BY <4>2, <4>3
    <3> QED
      BY <3>1
  <2> HIDE DEF u
  <2>3. num \in Nat /\ num < M /\ num >= h
    <3> HIDE DEF num
    <3> QED
      BY <1>2, <2>1, <2>2
  <2>4. M - num = -u
    <3> HIDE DEF num
    <3> QED
      BY <1>2, <2>1, <2>2
  <2>5. (M - num) % M = -u
    <3> DEFINE y == -u
    <3>1. y \in Nat /\ y < M /\ M - num = y
      BY <2>1, <2>4
    <3> HIDE DEF y, num
    <3>2. y % M = y
      BY <1>2, <3>1
    <3> QED
      BY <3>1, <3>2 DEF y
  <2>6. Signed(bits, m) = num
    BY <1>4, <1>7
  <2> HIDE DEF num
  <2>7. /\ Magnitude(num, TRUE) = -u /\ Negative(num)
    BY <1>5, <2>3, <2>5 DEF Magnitude, M
  <2>8. Abs(u) = -u
    BY <2>1 DEF Abs
  <2> QED
    BY <1>7, <2>1, <2>3, <2>6, <2>7, <2>8 DEF n, k, M, u
<1>8. CASE ~(n >= k)
  <2>1. n < h /\ n < M
    BY <1>1, <1>2, <1>3, <1>6, <1>8
  <2>2. ~Negative(n) /\ ~(n < 0)
    BY <1>1, <1>2, <1>5, <2>1
  <2>3. Signed(bits, m) = n
    BY <1>4, <1>8
  <2>4. Magnitude(n, TRUE) = n /\ Abs(n) = n
    BY <2>2 DEF Magnitude, Abs
  <2> DEFINE val == IF n >= k THEN n - m ELSE n
             num == Signed(bits, m)
  <2>5. val = n /\ num = n
    BY <1>8, <2>3
  <2> HIDE DEF val, num
  <2>6. /\ num \in Nat /\ num < M /\ val \in Int
        /\ Negative(num) <=> val < 0
        /\ Magnitude(num, TRUE) = Abs(val)
        /\ Abs(val) \in Nat /\ Abs(val) < M
    <3>1. num \in Nat /\ num < M /\ val \in Int
      BY <1>1, <2>1, <2>5
    <3>2. ~Negative(num) /\ ~(val < 0)
      BY <2>2, <2>5, Zenon
    <3>3. Magnitude(num, TRUE) = n /\ Abs(val) = n
      BY <2>4, <2>5, Zenon
    <3> QED
      BY <1>1, <2>1, <3>1, <3>2, <3>3
  <2> QED
    BY <2>6 DEF n, k, M, val, num
<1> QED
  BY <1>7, <1>8

\* The number handed to print_number for d.
NumberArg(d) ==
  IF IsSigned(d) THEN SignedArg(FinalSpec(d), d.arg.bits)
  ELSE Unsigned(d.arg.bits, ArgMod(FinalSpec(d)))

(***************************************************************************)
(* The argument is read in the width the size modifiers say, and step 1 of *)
(* print_number finds its sign and its magnitude.                          *)
(***************************************************************************)
LEMMA ArgumentFacts ==
  ASSUME NEW d \in Directives, Agreed(d), IsNumber(d)
  PROVE  /\ ValueOf(d) \in Int
         /\ IsSigned(d) => (Negative(NumberArg(d)) <=> ValueOf(d) < 0)
         /\ ~IsSigned(d) => ValueOf(d) >= 0
         /\ Magnitude(NumberArg(d), IsSigned(d)) = Abs(ValueOf(d))
         /\ Abs(ValueOf(d)) \in Nat /\ Abs(ValueOf(d)) < LLMod
<1> DEFINE m == TypeMod(d)
           bits == d.arg.bits
           n == bits % m
<1>1. /\ d.size \in {<< >>, <<"l">>, <<"z">>, <<"l", "l">>}
      /\ d.size = <<"z">> => ValueOf(d) >= 0 \/ LongMod = LLMod
  BY DEF Agreed, IsNumber
<1>2. /\ ArgMod(FinalSpec(d)) = m /\ m \in Nat /\ m > 0 /\ m <= LLMod
      /\ d.size = <<"z">> => m = LongMod
  BY <1>1, TypeFacts
<1>3. bits \in Nat
  BY DirectiveAssumption
<1>4. ValueOf(d) = IF IsSigned(d) /\ n >= m \div 2 THEN n - m ELSE n
  BY DEF ValueOf
<1>5. FinalSpec(d).is_size_t <=> d.size = <<"z">>
  BY DEF FinalSpec
<1> HIDE DEF m, bits
<1>6. n \in Nat /\ n < m
  BY <1>2, <1>3, DivMod
<1>7. CASE ~IsSigned(d)
  <2>1. NumberArg(d) = n /\ ValueOf(d) = n
    BY <1>2, <1>4, <1>7 DEF NumberArg, Unsigned, bits
  <2>2. Magnitude(n, IsSigned(d)) = n /\ Abs(n) = n
    BY <1>6, <1>7 DEF Magnitude, Abs
  <2> HIDE DEF n
  <2> QED
    BY <1>2, <1>6, <1>7, <2>1, <2>2, LLModFacts
<1>8. CASE IsSigned(d) /\ d.size # <<"z">>
  <2>1. NumberArg(d) = Signed(bits, m)
    BY <1>2, <1>5, <1>8 DEF NumberArg, SignedArg, bits
  <2>2. ValueOf(d) = IF n >= m \div 2 THEN n - m ELSE n
    BY <1>4, <1>8
  <2>3. Magnitude(NumberArg(d), IsSigned(d)) = Magnitude(NumberArg(d), TRUE)
    BY <1>8 DEF Magnitude
  <2> QED
    BY <1>2, <1>3, <1>8, <2>1, <2>2, <2>3, SignedFacts
\* A size_t is not sign-extended: that is the same where long is long long.
<1>9. CASE IsSigned(d) /\ d.size = <<"z">>
  <2>1. NumberArg(d) = n
    BY <1>2, <1>5, <1>9 DEF NumberArg, SignedArg, Unsigned, bits
  <2>2. ValueOf(d) = IF n >= m \div 2 THEN n - m ELSE n
    BY <1>4, <1>9
  <2>3. Magnitude(n, IsSigned(d)) = Magnitude(n, TRUE)
    BY <1>9 DEF Magnitude
  <2>4. CASE ~(n >= m \div 2)
    <3>1. ValueOf(d) = n
      BY <2>2, <2>4
    <3>2. Signed(bits, m) = n
      BY <2>4 DEF Signed
    <3> QED
      BY <1>2, <1>3, <1>9, <2>1, <2>2, <2>3, <3>2, SignedFacts
  <2>5. CASE n >= m \div 2
    <3>1. ValueOf(d) = n - m
      BY <2>2, <2>5
    <3>2. ValueOf(d) < 0
      <4> HIDE DEF n
      <4> QED
        BY <1>2, <1>6, <3>1
    <3>3. m = LLMod
      <4>1. n - m \in Int
        BY <1>2, <1>6
      <4> HIDE DEF n
      <4> QED
        BY <1>1, <1>2, <1>9, <3>1, <3>2, <4>1
    <3>4. Signed(bits, m) = n
      <4>1. Signed(bits, m) = (n - m) % LLMod
        BY <2>5 DEF Signed
      <4>2. (n - m) % m = n
        <5> HIDE DEF n
        <5>1. n % m = n
          BY <1>2, <1>6
        <5>2. (n - m) % m = n % m
          BY <1>2, <1>6
        <5> QED
          BY <5>1, <5>2
      <4> QED
        BY <3>3, <4>1, <4>2
    <3> QED
      BY <1>2, <1>3, <1>9, <2>1, <2>2, <2>3, <3>4, SignedFacts
  <2> QED
    BY <2>4, <2>5
<1> QED
  BY <1>7, <1>8, <1>9

-----------------------------------------------------------------------------
(* What print_number lays out *)

\* The buffer of print_number, and what its steps 4 to 6 lay out.
Buf(mag, base, upper) ==
  IF mag = 0 THEN <<"0">> ELSE NumBuf(mag, base, IF upper THEN UpperChars ELSE LowerChars)

Zeros(precision, len) == IF precision > len THEN precision - len ELSE 0

ZeroPads(flags, precision, gap) == "0" \in flags /\ precision < 0 /\ "-" \notin flags /\ gap > 0

Laid(A, R, z, g, zp, left) ==
  (IF left THEN << >> ELSE Rep(" ", IF zp THEN 0 ELSE g)) \o A
    \o Rep("0", IF zp THEN z + g ELSE z) \o R
    \o (IF left THEN Rep(" ", IF zp THEN 0 ELSE g) ELSE << >>)

\* One character is a sequence, and so are none and two.
LEMMA Singles ==
  ASSUME NEW C, NEW a \in C
  PROVE  /\ << >> \in Seq(C) /\ Len(<< >>) = 0
         /\ <<a>> \in Seq(C) /\ Len(<<a>>) = 1 /\ <<a>>[1] = a
OBVIOUS

\* The digits of a number, read from the last to the first.
LEMMA BufFacts ==
  ASSUME NEW v \in Nat, v < LLMod, NEW b \in {10, 16}, NEW upper \in BOOLEAN
  PROVE  LET buf   == Buf(v, b, upper)
             n     == DigitCount(v, b)
             chars == IF upper THEN UpperChars ELSE LowerChars
         IN  /\ buf \in Seq(Char) /\ Len(buf) \in Nat /\ Len(buf) >= 1
             /\ Reverse(buf) \in Seq(Char) /\ Len(Reverse(buf)) = Len(buf)
             /\ v = 0 => n = 0 /\ Reverse(buf) = <<"0">> /\ Len(buf) = 1
             /\ v # 0 => /\ Len(buf) = n
                         /\ Reverse(buf) = [i \in 1 .. n |-> chars[((v \div Pow(b, n - i)) % b) + 1]]
<1> DEFINE buf == Buf(v, b, upper)
           n == DigitCount(v, b)
           chars == IF upper THEN UpperChars ELSE LowerChars
<1>1. b \in Nat /\ b >= 2 /\ b > 0 /\ b <= 16
  OBVIOUS
<1>2. /\ n \in 0 .. LLBits /\ HasDigits(v, b, n)
      /\ \A k \in 0 .. LLBits : HasDigits(v, b, k) => k = n
  BY <1>1, DigitCountFacts
<1>3. LLBits \in Nat /\ n \in Nat
  BY <1>2, LLModFacts
<1>4. /\ Pow(b, 0) = 1 /\ \A k \in Nat : Pow(b, k) \in Nat /\ Pow(b, k) > 0
  BY <1>1, PowFacts
<1>5. CASE v = 0
  <2>1. HasDigits(v, b, 0)
    BY <1>4, <1>5 DEF HasDigits
  <2>2. n = 0
    BY <1>2, <1>3, <2>1
  <2> DEFINE w == <<"0">>
  <2>3. buf = w
    BY <1>5 DEF Buf
  <2>4. w \in Seq(Char) /\ Len(w) = 1 /\ w[1] = "0"
    BY OwnChars, Singles
  <2>5. Reverse(w) = w
    <3> HIDE DEF w
    <3>1. w \in [1 .. 1 -> Char]
      BY <2>4, LenProperties
    <3>2. Reverse(w) = [i \in 1 .. 1 |-> w[(1 - i) + 1]]
      BY <2>4 DEF Reverse
    <3>3. ASSUME NEW i \in 1 .. 1 PROVE w[(1 - i) + 1] = w[i]
      <4>1. i = 1 /\ (1 - i) + 1 = 1
        OBVIOUS
      <4> QED
        BY <4>1
    <3>4. w = [i \in 1 .. 1 |-> w[i]]
      BY <3>1
    <3>5. [i \in 1 .. 1 |-> w[(1 - i) + 1]] = [i \in 1 .. 1 |-> w[i]]
      BY <3>3
    <3> QED
      BY <3>2, <3>4, <3>5
  <2> HIDE DEF w, buf, n
  <2>6. /\ buf \in Seq(Char) /\ Len(buf) \in Nat /\ Len(buf) >= 1
        /\ Reverse(buf) \in Seq(Char) /\ Len(Reverse(buf)) = Len(buf)
        /\ n = 0 /\ Reverse(buf) = w /\ Len(buf) = 1
    BY <2>2, <2>3, <2>4, <2>5
  <2> QED
    BY <1>5, <2>6 DEF w, buf, n
<1>6. CASE v # 0
  <2>1. buf = [i \in 1 .. n |-> chars[((v \div Pow(b, i - 1)) % b) + 1]]
    <3> HIDE DEF chars
    <3>1. NumBuf(v, b, chars) = [i \in 1 .. n |-> chars[((v \div Pow(b, i - 1)) % b) + 1]]
      BY <1>1, NumBufFacts
    <3>2. buf = NumBuf(v, b, chars)
      BY <1>6 DEF Buf, chars
    <3> QED
      BY <3>1, <3>2
  <2>2. chars \in {LowerChars, UpperChars}
    OBVIOUS
  <2>3. \A i \in 1 .. 16 : chars[i] \in Char
    BY <2>2, DigitSets
  <2> HIDE DEF chars
  <2>4. ASSUME NEW k \in Nat PROVE chars[((v \div Pow(b, k)) % b) + 1] \in Char
    <3> DEFINE w == Pow(b, k)
               q == v \div w
               r == q % b
    <3>1. w \in Nat /\ w > 0
      BY <1>4
    <3> HIDE DEF w
    <3>2. q \in Nat
      BY <3>1, DivMod
    <3> HIDE DEF q
    <3>3. r \in Nat /\ r < b
      BY <1>1, <3>2, DivMod
    <3> HIDE DEF r
    <3>4. r + 1 \in 1 .. 16
      BY <1>1, <3>3
    <3> QED
      BY <2>3, <3>4 DEF r, q, w
  <2> DEFINE f == [i \in 1 .. n |-> chars[((v \div Pow(b, i - 1)) % b) + 1]]
             g == [i \in 1 .. n |-> chars[((v \div Pow(b, n - i)) % b) + 1]]
  <2>5. f \in [1 .. n -> Char] /\ g \in [1 .. n -> Char]
    <3>1. \A i \in 1 .. n : i - 1 \in Nat /\ n - i \in Nat
      BY <1>3
    <3> HIDE DEF n
    <3> QED
      BY <2>4, <3>1
  <2>6. \A i \in 1 .. n : f[(n - i) + 1] = g[i]
    <3> SUFFICES ASSUME NEW i \in 1 .. n PROVE f[(n - i) + 1] = g[i]
      OBVIOUS
    <3>1. (n - i) + 1 \in 1 .. n /\ ((n - i) + 1) - 1 = n - i
      BY <1>3
    <3> HIDE DEF n
    <3>2. f[(n - i) + 1] = chars[((v \div Pow(b, ((n - i) + 1) - 1)) % b) + 1]
      BY <3>1
    <3> QED
      BY <3>1, <3>2
  <2>7. buf = f
    BY <2>1
  <2>8. n >= 1
    <3>1. n # 0
      <4> SUFFICES ASSUME n = 0 PROVE FALSE
        OBVIOUS
      <4>1. Pow(b, n) > v
        BY <1>2 DEF HasDigits
      <4> HIDE DEF n
      <4> QED
        BY <1>4, <1>6, <4>1
    <3> HIDE DEF n
    <3> QED
      BY <1>3, <3>1
  <2>9. g = [i \in 1 .. n |-> chars[((v \div Pow(b, n - i)) % b) + 1]]
    OBVIOUS
  <2> HIDE DEF f, g, n
  <2>10. f \in Seq(Char) /\ Len(f) = n /\ g \in Seq(Char) /\ Len(g) = n
    BY <1>3, <2>5, FunSeq
  <2>11. Reverse(f) = g
    <3>1. Reverse(f) = [i \in 1 .. n |-> f[(n - i) + 1]]
      BY <2>10 DEF Reverse
    <3> QED
      BY <2>5, <2>6, <3>1
  <2> HIDE DEF buf
  <2> QED
    BY <1>3, <1>6, <2>7, <2>8, <2>9, <2>10, <2>11 DEF buf, n, chars
<1> QED
  BY <1>5, <1>6

\* The magnitude of a number is one of long long.
LEMMA MagnitudeFacts ==
  ASSUME NEW num \in Nat, num < LLMod, NEW signed \in BOOLEAN
  PROVE  Magnitude(num, signed) \in Nat /\ Magnitude(num, signed) < LLMod
<1> DEFINE k == LLMod - num
           M == LLMod
<1>1. M \in Nat /\ M > 0 /\ k \in Nat
  BY LLModFacts
<1> HIDE DEF k, M
<1>2. k % M \in Nat /\ k % M < M
  BY <1>1, DivMod
<1> QED
  BY <1>2 DEF Magnitude, k, M

\* The sign of a number, when it is printed as a signed one.
Signs(num, flags, signed) == IF signed THEN Sign(num, flags) ELSE << >>

\* A sign is at most one character.
LEMMA SignFacts ==
  ASSUME NEW num, NEW flags, NEW signed \in BOOLEAN
  PROVE  Signs(num, flags, signed) \in Seq(Char) /\ Len(Signs(num, flags, signed)) \in Nat
<1>1. \A c \in Char : <<c>> \in Seq(Char)
  BY Singles
<1>2. << >> \in Seq(Char)
  BY EmptySeq
<1>3. <<"-">> \in Seq(Char) /\ <<"+">> \in Seq(Char) /\ <<" ">> \in Seq(Char)
  BY <1>1, OwnChars
<1>4. Signs(num, flags, signed) \in Seq(Char)
  BY <1>2, <1>3 DEF Signs, Sign
<1> QED
  BY <1>4, LenProperties

\* Steps 3 to 6 of print_number lay out the sign, the zeros and the digits.
LEMMA PrintNumberLays ==
  ASSUME NEW num \in Nat, num < LLMod, NEW base \in {10, 16}, NEW width \in Int,
         NEW precision \in Int, NEW flags, NEW signed \in BOOLEAN, NEW upper \in BOOLEAN
  PROVE  LET A   == Signs(num, flags, signed)
             buf == Buf(Magnitude(num, signed), base, upper)
             z   == Zeros(precision, Len(buf))
             g   == width - (Len(buf) + z + Len(A))
         IN  print_number(num, base, width, precision, flags, signed, upper)
               = Laid(A, Reverse(buf), z, g, ZeroPads(flags, precision, g), "-" \in flags)
<1> DEFINE A == Signs(num, flags, signed)
           buf == Buf(Magnitude(num, signed), base, upper)
           z == Zeros(precision, Len(buf))
           g == width - (Len(buf) + z + Len(A))
           P == A \o << >>
<1>1. A \in Seq(Char)
  BY SignFacts
<1>2. P = A
  <2> HIDE DEF A
  <2> QED
    BY <1>1, ConcatEmptySeq
<1>3. HashPrefix(0, base, flags, upper) = << >>
  BY DEF HashPrefix
<1> DEFINE gP == width - (Len(buf) + z + Len(P))
<1>4. print_number(num, base, width, precision, flags, signed, upper)
        = Laid(P, Reverse(buf), z, gP, ZeroPads(flags, precision, gP), "-" \in flags)
  BY <1>3, ZenonT(90) DEF print_number, Laid, Buf, Magnitude, Zeros, Signs, ZeroPads, Pad
<1> HIDE DEF A, buf, z, P
<1> QED
  BY <1>2, <1>4 DEF A, buf, z

-----------------------------------------------------------------------------
(* Laid out in the field *)

\* Concatenation of sequences of characters.
LEMMA Concats ==
  /\ << >> \in Seq(Char)
  /\ \A s \in Seq(Char) : s \o << >> = s /\ << >> \o s = s /\ Len(s) \in Nat
  /\ \A s, t \in Seq(Char) : s \o t \in Seq(Char) /\ Len(s \o t) = Len(s) + Len(t)
  /\ \A s, t, u \in Seq(Char) : (s \o t) \o u = s \o (t \o u)
<1>1. << >> \in Seq(Char)
  BY EmptySeq
<1>2. \A s \in Seq(Char) : s \o << >> = s /\ << >> \o s = s /\ Len(s) \in Nat
  BY ConcatEmptySeq, LenProperties
<1>3. \A s, t \in Seq(Char) : s \o t \in Seq(Char) /\ Len(s \o t) = Len(s) + Len(t)
  BY ConcatProperties
<1>4. \A s, t, u \in Seq(Char) : (s \o t) \o u = s \o (t \o u)
  BY ConcatAssociative
<1> QED
  BY <1>1, <1>2, <1>3, <1>4

\* What is laid out is characters.
LEMMA LaidChars ==
  ASSUME NEW A \in Seq(Char), NEW R \in Seq(Char), NEW z \in Int, NEW g \in Int,
         NEW zp \in BOOLEAN, NEW left \in BOOLEAN
  PROVE  Laid(A, R, z, g, zp, left) \in Seq(Char)
<1> DEFINE pad == IF zp THEN 0 ELSE g
           zs == IF zp THEN z + g ELSE z
           X == IF left THEN << >> ELSE Rep(" ", pad)
           Z == Rep("0", zs)
           Y == IF left THEN Rep(" ", pad) ELSE << >>
<1>1. pad \in Int /\ zs \in Int
  OBVIOUS
<1> HIDE DEF pad, zs
<1>2. X \in Seq(Char) /\ Z \in Seq(Char) /\ Y \in Seq(Char)
  BY <1>1, RepFacts, OwnChars, Concats
<1>3. Laid(A, R, z, g, zp, left) = X \o A \o Z \o R \o Y
  BY DEF Laid, pad, zs
<1> HIDE DEF X, Y, Z
<1>4. X \o A \in Seq(Char)
  BY <1>2, Concats
<1>5. (X \o A) \o Z \in Seq(Char)
  BY <1>2, <1>4, Concats
<1>6. (X \o A \o Z) \o R \in Seq(Char)
  BY <1>2, <1>5, Concats
<1>7. (X \o A \o Z \o R) \o Y \in Seq(Char)
  BY <1>2, <1>6, Concats
<1> QED
  BY <1>3, <1>7

\* The three ways to lay a number out: to the left, to the right, with zeros.
Lays(A, R, z, g, B) ==
  /\ B \in Seq(Char) /\ Len(B) = z + Len(R)
  /\ A \o B \in Seq(Char) /\ Len(A \o B) = Len(A) + (z + Len(R))
  /\ Laid(A, R, z, g, FALSE, TRUE) = (A \o B) \o Rep(" ", g)
  /\ Laid(A, R, z, g, FALSE, FALSE) = Rep(" ", g) \o (A \o B)
  /\ z = 0 => Laid(A, R, z, g, TRUE, FALSE) = (A \o Rep("0", g)) \o B
  /\ g <= 0 => Rep(" ", g) \o (A \o B) = (A \o Rep("0", g)) \o B

\* Steps 4 to 6 of print_number lay it out in one of them.
LEMMA LaidOut ==
  ASSUME NEW A \in Seq(Char), NEW R \in Seq(Char), NEW z \in Nat, NEW g \in Int
  PROVE  Lays(A, R, z, g, Rep("0", z) \o R)
<1> DEFINE Z == Rep("0", z)
           G == Rep(" ", g)
           N == Rep("0", g)
           E == << >>
           B == Z \o R
<1>1. /\ Z \in Seq(Char) /\ G \in Seq(Char) /\ N \in Seq(Char) /\ E \in Seq(Char)
      /\ Len(Z) = z /\ (z = 0 => Z = E) /\ (g <= 0 => G = E /\ N = E)
      /\ Rep(" ", 0) = E
  <2>1. "0" \in Char /\ " " \in Char
    BY OwnChars
  <2>2. 0 \in Int /\ 0 <= 0 /\ z \in Int /\ ~(z < 0)
    OBVIOUS
  <2>3. Z \in Seq(Char) /\ G \in Seq(Char) /\ N \in Seq(Char) /\ E \in Seq(Char)
    BY <2>1, <2>2, RepFacts, Concats
  <2>4. Len(Z) = z /\ (z = 0 => Z = E)
    <3>1. Len(Z) = (IF z > 0 THEN z ELSE 0) /\ (z <= 0 => Z = E)
      BY <2>1, <2>2, RepFacts
    <3> HIDE DEF Z, E
    <3> QED
      BY <3>1
  <2>5. g <= 0 => G = E /\ N = E
    BY <2>1, RepFacts
  <2>6. Rep(" ", 0) = E
    BY <2>1, <2>2, RepFacts, Zenon
  <2> QED
    BY <2>3, <2>4, <2>5, <2>6
<1>2. /\ Laid(A, R, z, g, FALSE, TRUE) = E \o A \o Z \o R \o G
      /\ Laid(A, R, z, g, FALSE, FALSE) = G \o A \o Z \o R \o E
      /\ z = 0 => Laid(A, R, z, g, TRUE, FALSE) = Rep(" ", 0) \o A \o N \o R \o E
  <2>1. Laid(A, R, z, g, FALSE, TRUE) = E \o A \o Z \o R \o G
    BY DEF Laid
  <2>2. Laid(A, R, z, g, FALSE, FALSE) = G \o A \o Z \o R \o E
    BY DEF Laid
  <2>3. Laid(A, R, z, g, TRUE, FALSE) = Rep(" ", 0) \o A \o Rep("0", z + g) \o R \o E
    BY DEF Laid
  <2>4. z = 0 => z + g = g
    OBVIOUS
  <2> QED
    BY <2>1, <2>2, <2>3, <2>4
<1> HIDE DEF Z, G, N, E
<1>3. Z \in Seq(Char) /\ G \in Seq(Char) /\ N \in Seq(Char) /\ E \in Seq(Char)
  BY <1>1
<1>4. \A s \in Seq(Char) : s \o E = s /\ E \o s = s /\ Len(s) \in Nat
  BY Concats DEF E
<1>5. \A s, t \in Seq(Char) : s \o t \in Seq(Char)
  BY Concats
<1>6. \A s, t, u \in Seq(Char) : (s \o t) \o u = s \o (t \o u)
  BY Concats
<1>7. \A s, t \in Seq(Char) : Len(s \o t) = Len(s) + Len(t)
  BY Concats
<1>8. B \in Seq(Char) /\ Len(B) = z + Len(R)
  <2>1. B \in Seq(Char)
    BY <1>3, <1>5, Zenon
  <2>2. Len(B) = Len(Z) + Len(R)
    BY <1>3, <1>7, Zenon
  <2> QED
    BY <1>1, <2>1, <2>2, Zenon
<1>9. /\ A \o Z \in Seq(Char) /\ (A \o Z) \o R = A \o B
      /\ A \o B \in Seq(Char) /\ A \o N \in Seq(Char)
  <2>1. A \o Z \in Seq(Char) /\ A \o B \in Seq(Char) /\ A \o N \in Seq(Char)
    <3> HIDE DEF B
    <3> QED
      BY <1>3, <1>5, <1>8
  <2>2. (A \o Z) \o R = A \o (Z \o R)
    BY <1>3, <1>6, ZenonT(90)
  <2> QED
    BY <2>1, <2>2, Zenon
<1>10. z = 0 => B = R
  BY <1>1, <1>4
<1> HIDE DEF B
<1>11. Len(A \o B) = Len(A) + (z + Len(R))
  BY <1>7, <1>8
<1>12. E \o A \o Z \o R \o G = (A \o B) \o G
  BY <1>4, <1>9, Zenon
<1>13. G \o A \o Z \o R \o E = G \o (A \o B)
  <2> DEFINE AZ == A \o Z
  <2>1. (G \o A) \o Z = G \o AZ
    BY <1>3, <1>6, ZenonT(90)
  <2>2. AZ \in Seq(Char) /\ AZ \o R = A \o B
    BY <1>9
  <2> HIDE DEF AZ
  <2>3. (G \o AZ) \o R = G \o (AZ \o R)
    <3>1. AZ \in Seq(Char)
      BY <2>2
    <3>2. \A t, u \in Seq(Char) : (G \o t) \o u = G \o (t \o u)
      BY <1>3, <1>6, Zenon
    <3>3. \A u \in Seq(Char) : (G \o AZ) \o u = G \o (AZ \o u)
      BY <3>1, <3>2, Zenon
    <3> QED
      BY <3>3, Zenon
  <2>4. G \o (A \o B) \in Seq(Char)
    BY <1>3, <1>5, <1>9
  <2> QED
    BY <1>4, <2>1, <2>2, <2>3, <2>4, Zenon
<1>14. z = 0 => Rep(" ", 0) \o A \o N \o R \o E = (A \o N) \o B
  <2> SUFFICES ASSUME z = 0 PROVE Rep(" ", 0) \o A \o N \o R \o E = (A \o N) \o B
    OBVIOUS
  <2>1. B = R /\ Rep(" ", 0) = E
    BY <1>1, <1>10
  <2>2. (A \o N) \o R \in Seq(Char)
    BY <1>5, <1>9
  <2> QED
    BY <1>4, <2>1, <2>2, Zenon
<1>15. g <= 0 => G \o (A \o B) = (A \o N) \o B
  BY <1>1, <1>4, <1>9
<1>16. /\ Laid(A, R, z, g, FALSE, TRUE) = (A \o B) \o G
       /\ Laid(A, R, z, g, FALSE, FALSE) = G \o (A \o B)
       /\ z = 0 => Laid(A, R, z, g, TRUE, FALSE) = (A \o N) \o B
  <2>1. Laid(A, R, z, g, FALSE, TRUE) = (A \o B) \o G
    BY <1>2, <1>12
  <2>2. Laid(A, R, z, g, FALSE, FALSE) = G \o (A \o B)
    BY <1>2, <1>13
  <2>3. z = 0 => Laid(A, R, z, g, TRUE, FALSE) = (A \o N) \o B
    BY <1>2, <1>14
  <2> QED
    BY <2>1, <2>2, <2>3
<1>17. /\ B \in Seq(Char) /\ Len(B) = z + Len(R)
       /\ A \o B \in Seq(Char) /\ Len(A \o B) = Len(A) + (z + Len(R))
  BY <1>8, <1>9, <1>11, Zenon
<1> QED
  <2>1. Lays(A, R, z, g, B)
    BY <1>15, <1>16, <1>17, Zenon DEF Lays, G, N
  <2> QED
    BY <2>1 DEF B, Z

-----------------------------------------------------------------------------
(* The digits and the prefix of the standard *)

\* The fields of what printk has read when it comes to the conversion.
LEMMA FinalFields ==
  ASSUME NEW d \in Directives
  PROVE  /\ FinalSpec(d).flags = Range(d.flags)
         /\ FinalSpec(d).width = NumberOf(d.width)
         /\ FinalSpec(d).precision = (IF d.dot THEN NumberOf(d.precision) ELSE -1)
         /\ NumberOf(d.width) \in Nat /\ NumberOf(d.precision) \in Nat /\ d.dot \in BOOLEAN
<1>1. d.width \in Seq(Digits) /\ d.precision \in Seq(Digits) /\ d.dot \in BOOLEAN
  BY DirectiveAssumption
<1>2. NumberOf(d.width) \in Nat /\ NumberOf(d.precision) \in Nat
  BY <1>1, NumberFacts
<1> QED
  BY <1>1, <1>2 DEF FinalSpec

\* A zero more before zeros.
LEMMA ZerosAppend ==
  ASSUME NEW n \in Nat, n >= 1
  PROVE  Rep("0", n) = Rep("0", n - 1) \o <<"0">>
<1> DEFINE u == Rep("0", n)
           v == Rep("0", n - 1)
           one == <<"0">>
           w == v \o one
<1>1. "0" \in Char
  BY OwnChars
<1>2. n \in Int /\ n > 0 /\ n - 1 \in Int /\ n - 1 \in Nat
  OBVIOUS
<1>3. /\ u \in Seq(Char) /\ Len(u) = n /\ \A i \in 1 .. n : u[i] = "0"
  BY <1>1, <1>2, RepFacts
<1>4. /\ v \in Seq(Char) /\ Len(v) = n - 1 /\ \A i \in 1 .. n - 1 : v[i] = "0"
  <2>1. /\ v \in Seq(Char) /\ Len(v) = (IF n - 1 > 0 THEN n - 1 ELSE 0)
        /\ \A i \in 1 .. n - 1 : v[i] = "0"
    BY <1>1, <1>2, RepFacts
  <2> HIDE DEF v
  <2> QED
    BY <1>2, <2>1
<1>5. one \in Seq(Char) /\ Len(one) = 1 /\ one[1] = "0"
  BY <1>1, Singles
<1> HIDE DEF u, v, one
<1>6. /\ w \in Seq(Char) /\ Len(w) = Len(v) + Len(one)
      /\ \A i \in 1 .. Len(v) + Len(one) : w[i] = IF i <= Len(v) THEN v[i] ELSE one[i - Len(v)]
  BY <1>4, <1>5, ConcatProperties
<1> HIDE DEF w
<1>7. Len(w) = n
  BY <1>4, <1>5, <1>6
<1>8. ASSUME NEW i \in 1 .. n PROVE w[i] = "0"
  <2>1. CASE i <= n - 1
    BY <1>4, <1>5, <1>6, <2>1
  <2>2. CASE ~(i <= n - 1)
    <3>1. i = n /\ i - (n - 1) = 1 /\ i \in 1 .. Len(v) + Len(one)
      BY <1>4, <1>5, <2>2
    <3>2. w[i] = one[i - Len(v)]
      BY <1>4, <1>6, <2>2, <3>1
    <3> QED
      BY <1>4, <1>5, <3>1, <3>2
  <2> QED
    BY <2>1, <2>2
<1>9. u = w
  BY <1>3, <1>6, <1>7, <1>8, SeqEqual
<1> QED
  BY <1>9 DEF u, v, w, one

\* The digits of print_number, with the zeros that the precision asks for, are
\* those of ISO C.
LEMMA DigitsAgree ==
  ASSUME NEW d \in Directives, Agreed(d), IsNumber(d)
  PROVE  LET buf == Buf(Abs(ValueOf(d)), Base(d), d.conv = "X")
             z   == Zeros(FinalSpec(d).precision, Len(buf))
         IN  /\ IsoDigits(d) = Rep("0", z) \o Reverse(buf)
             /\ z \in Nat
<1> DEFINE v == Abs(ValueOf(d))
           b == Base(d)
           upper == d.conv = "X"
           buf == Buf(v, b, upper)
           n == DigitCount(v, b)
           chars == IF upper THEN UpperChars ELSE LowerChars
           least == IF d.dot THEN NumberOf(d.precision) ELSE 1
           prec == FinalSpec(d).precision
           z == Zeros(prec, Len(buf))
           R == [i \in 1 .. n |-> chars[((v \div Pow(b, n - i)) % b) + 1]]
<1>1. ValueOf(d) \in Int /\ v \in Nat /\ v < LLMod
  BY ArgumentFacts
<1>2. b \in {10, 16} /\ upper \in BOOLEAN
  BY DEF Base
<1>3. IsoDigits(d) = Rep("0", least - n) \o R
  BY DEF IsoDigits, Abs
<1>4. ~(d.dot /\ NumberOf(d.precision) = 0 /\ ValueOf(d) = 0)
  BY DEF Agreed, IsNumber
<1>5. /\ prec = (IF d.dot THEN NumberOf(d.precision) ELSE -1)
      /\ NumberOf(d.precision) \in Nat /\ d.dot \in BOOLEAN
  BY FinalFields
<1>6. v = 0 <=> ValueOf(d) = 0
  BY <1>1 DEF Abs
<1>7. z = IF prec > Len(buf) THEN prec - Len(buf) ELSE 0
  BY DEF Zeros
<1>8. /\ buf \in Seq(Char) /\ Len(buf) \in Nat /\ Len(buf) >= 1
      /\ Reverse(buf) \in Seq(Char)
      /\ v = 0 => n = 0 /\ Reverse(buf) = <<"0">> /\ Len(buf) = 1
      /\ v # 0 => Len(buf) = n /\ Reverse(buf) = R
  <2> HIDE DEF v, b, upper
  <2> QED
    BY <1>1, <1>2, BufFacts
<1>9. v = 0 => R = << >>
  <2> SUFFICES ASSUME v = 0 PROVE R = << >>
    OBVIOUS
  <2>1. n = 0
    BY <1>8
  <2> HIDE DEF n
  <2> QED
    BY <2>1
<1> HIDE DEF R, buf, n, v, prec, z, least
<1>10. z \in Nat
  BY <1>5, <1>7, <1>8
<1>11. CASE v = 0
  <2>1. R = << >> /\ Reverse(buf) = <<"0">> /\ n = 0 /\ Len(buf) = 1
    BY <1>8, <1>9, <1>11
  <2>2. least \in Nat /\ least >= 1 /\ z = least - 1 /\ least - n = least
    <3>1. CASE d.dot
      <4>1. least = NumberOf(d.precision) /\ prec = least
        BY <1>5, <3>1 DEF least
      <4>2. least # 0
        BY <1>4, <1>6, <1>11, <3>1, <4>1
      <4> QED
        BY <1>5, <1>7, <2>1, <4>1, <4>2
    <3>2. CASE ~d.dot
      <4>1. least = 1 /\ prec = -1
        BY <1>5, <3>2 DEF least
      <4> QED
        BY <1>7, <2>1, <4>1
    <3> QED
      BY <3>1, <3>2
  <2>3. Rep("0", least) \in Seq(Char)
    <3>1. "0" \in Char
      BY OwnChars
    <3>2. least \in Int
      BY <2>2
    <3> QED
      BY <3>1, <3>2, RepFacts
  <2>4. Rep("0", least) \o << >> = Rep("0", least)
    <3> DEFINE s == Rep("0", least)
    <3>1. s \in Seq(Char)
      BY <2>3
    <3> HIDE DEF s
    <3>2. s \o << >> = s
      BY <3>1, ConcatEmptySeq
    <3> QED
      BY <3>2 DEF s
  <2>5. Rep("0", least) = Rep("0", least - 1) \o <<"0">>
    BY <2>2, ZerosAppend
  <2> QED
    BY <1>3, <1>10, <2>1, <2>2, <2>4, <2>5 DEF buf, z, v, prec
<1>12. CASE v # 0
  <2>1. R = Reverse(buf) /\ Len(buf) = n /\ n \in Nat /\ n >= 1
    BY <1>8, <1>12
  <2>2. Rep("0", least - n) = Rep("0", z)
    <3>1. CASE d.dot /\ NumberOf(d.precision) > n
      BY <1>5, <1>7, <2>1, <3>1 DEF least
    <3>2. CASE ~(d.dot /\ NumberOf(d.precision) > n)
      <4>1. z = 0 /\ least - n \in Int /\ least - n <= 0 /\ 0 \in Int /\ 0 <= 0
        BY <1>5, <1>7, <2>1, <3>2 DEF least
      <4>2. "0" \in Char
        BY OwnChars
      <4>3. \A k \in Int : k <= 0 => Rep("0", k) = << >>
        BY <4>2, RepFacts
      <4> QED
        BY <4>1, <4>3
    <3> QED
      BY <3>1, <3>2
  <2> QED
    BY <1>3, <1>10, <2>1, <2>2 DEF buf, z, v, prec
<1> QED
  BY <1>11, <1>12

\* The sign of print_number is the prefix of ISO C.
LEMMA PrefixAgrees ==
  ASSUME NEW d \in Directives, Agreed(d), IsNumber(d)
  PROVE  IsoPrefix(d) = Signs(NumberArg(d), FinalSpec(d).flags, IsSigned(d))
<1>1. /\ ValueOf(d) \in Int
      /\ IsSigned(d) => (Negative(NumberArg(d)) <=> ValueOf(d) < 0)
      /\ ~IsSigned(d) => ValueOf(d) >= 0
  BY ArgumentFacts
<1>2. FinalSpec(d).flags = Range(d.flags)
  BY FinalFields
<1>3. \A f : Has(d, f) <=> f \in FinalSpec(d).flags
  BY <1>2 DEF Has
<1>4. ~(Has(d, "#") /\ Base(d) = 16 /\ ValueOf(d) # 0)
  BY DEF Agreed, IsNumber
<1>5. d.conv \in {"x", "X"} => Base(d) = 16 /\ ~IsSigned(d)
  BY DEF Base, IsSigned
<1>6. ~(d.conv \in {"x", "X"} /\ Has(d, "#") /\ ValueOf(d) # 0)
  BY <1>4, <1>5
<1>7. CASE ~IsSigned(d)
  BY <1>6, <1>7 DEF IsoPrefix, Signs
<1>8. CASE IsSigned(d)
  <2>1. d.conv \notin {"x", "X"}
    BY <1>5, <1>8
  <2>2. Signs(NumberArg(d), FinalSpec(d).flags, IsSigned(d)) = Sign(NumberArg(d), FinalSpec(d).flags)
    BY <1>8 DEF Signs
  <2>3. CASE ValueOf(d) < 0
    <3>1. Negative(NumberArg(d)) /\ ~(ValueOf(d) >= 0)
      BY <1>1, <1>8, <2>3
    <3>2. IsoPrefix(d) = <<"-">>
      BY <1>8, <2>1, <2>3, <3>1, Zenon DEF IsoPrefix
    <3> QED
      BY <2>2, <3>1, <3>2 DEF Sign
  <2>4. CASE ~(ValueOf(d) < 0)
    <3>1. ~Negative(NumberArg(d)) /\ ValueOf(d) >= 0
      BY <1>1, <1>8, <2>4
    <3>2. CASE Has(d, "+")
      <4>1. IsoPrefix(d) = <<"+">>
        BY <1>8, <2>1, <2>4, <3>1, <3>2, Zenon DEF IsoPrefix
      <4> QED
        BY <1>3, <2>2, <3>1, <3>2, <4>1 DEF Sign
    <3>3. CASE ~Has(d, "+") /\ Has(d, " ")
      <4>1. IsoPrefix(d) = <<" ">>
        BY <1>8, <2>1, <2>4, <3>1, <3>3, Zenon DEF IsoPrefix
      <4> QED
        BY <1>3, <2>2, <3>1, <3>3, <4>1 DEF Sign
    <3>4. CASE ~Has(d, "+") /\ ~Has(d, " ")
      <4>1. IsoPrefix(d) = << >>
        BY <1>8, <2>1, <2>4, <3>1, <3>4 DEF IsoPrefix
      <4> QED
        BY <1>3, <2>2, <3>1, <3>4, <4>1 DEF Sign
    <3> QED
      BY <3>2, <3>3, <3>4
  <2> QED
    BY <2>3, <2>4
<1> QED
  BY <1>7, <1>8

-----------------------------------------------------------------------------
(* Numbers *)

\* An argument is read as a number of long long.
LEMMA NumberArgFacts ==
  ASSUME NEW bits \in Nat, NEW m \in {IntMod, LongMod, LLMod}
  PROVE  /\ Unsigned(bits, m) \in Nat /\ Unsigned(bits, m) < LLMod
         /\ Signed(bits, m) \in Nat /\ Signed(bits, m) < LLMod
<1>1. m \in Nat /\ m > 0 /\ m <= LLMod /\ LLMod \in Nat
  BY PrintkAssumption, LLModFacts
<1>2. Signed(bits, m) \in Nat /\ Signed(bits, m) < LLMod
  BY <1>1, SignedFacts
<1> DEFINE n == bits % m
<1>3. n \in Nat /\ n < m
  BY <1>1, DivMod
<1>4. Unsigned(bits, m) = n
  BY DEF Unsigned
<1> HIDE DEF n
<1> QED
  BY <1>1, <1>2, <1>3, <1>4

\* So is the one of a directive.
LEMMA SpecArgFacts ==
  ASSUME NEW bits \in Nat, NEW s
  PROVE  /\ Unsigned(bits, ArgMod(s)) \in Nat /\ Unsigned(bits, ArgMod(s)) < LLMod
         /\ SignedArg(s, bits) \in Nat /\ SignedArg(s, bits) < LLMod
<1>1. ArgMod(s) \in {IntMod, LongMod, LLMod}
  BY DEF ArgMod
<1> QED
  BY <1>1, NumberArgFacts DEF SignedArg

(***************************************************************************)
(* print_number with the argument and the fields printk has read is ISO C: *)
(* to the left, to the right or with zeros, the sign before the zeros.     *)
(***************************************************************************)
LEMMA NumbersAgree ==
  ASSUME NEW d \in Directives, Agreed(d), IsNumber(d)
  PROVE  print_number(NumberArg(d), Base(d), FinalSpec(d).width, FinalSpec(d).precision,
                      FinalSpec(d).flags, IsSigned(d), d.conv = "X") = IsoNumber(d)
<1> DEFINE num == NumberArg(d)
           b == Base(d)
           w == FinalSpec(d).width
           prec == FinalSpec(d).precision
           flags == FinalSpec(d).flags
           signed == IsSigned(d)
           upper == d.conv = "X"
           A == Signs(num, flags, signed)
           buf == Buf(Magnitude(num, signed), b, upper)
           R == Reverse(buf)
           z == Zeros(prec, Len(buf))
           g == w - (Len(buf) + z + Len(A))
           B == Rep("0", z) \o R
           gap == NumberOf(d.width) - Len(A \o B)
           zp == ZeroPads(flags, prec, g)
<1>1. /\ Magnitude(num, signed) = Abs(ValueOf(d))
      /\ Abs(ValueOf(d)) \in Nat /\ Abs(ValueOf(d)) < LLMod
  BY ArgumentFacts
<1>2. num \in Nat /\ num < LLMod
  <2>1. d.arg.bits \in Nat
    BY DirectiveAssumption
  <2> QED
    BY <2>1, SpecArgFacts DEF NumberArg
<1>3. b \in {10, 16} /\ upper \in BOOLEAN /\ signed \in BOOLEAN
  BY DEF Base, IsSigned
<1>4. /\ flags = Range(d.flags) /\ w = NumberOf(d.width) /\ w \in Nat
      /\ prec = (IF d.dot THEN NumberOf(d.precision) ELSE -1)
      /\ prec \in Int /\ d.dot \in BOOLEAN /\ (prec < 0 <=> ~d.dot)
  BY FinalFields
<1>5. buf = Buf(Abs(ValueOf(d)), b, upper)
  BY <1>1
<1>6. /\ buf \in Seq(Char) /\ Len(buf) \in Nat /\ Len(buf) >= 1
      /\ R \in Seq(Char) /\ Len(R) = Len(buf)
  <2> HIDE DEF b, upper
  <2> QED
    BY <1>1, <1>3, <1>5, BufFacts
<1>7. IsoDigits(d) = B /\ z \in Nat
  BY <1>5, DigitsAgree
<1>8. IsoPrefix(d) = A
  BY PrefixAgrees
<1>9. A \in Seq(Char) /\ Len(A) \in Nat
  BY <1>3, SignFacts
<1>10. print_number(num, b, w, prec, flags, signed, upper)
         = Laid(A, R, z, g, zp, "-" \in flags)
  <2> HIDE DEF num, b, w, prec, flags, signed, upper
  <2> QED
    BY <1>2, <1>3, <1>4, PrintNumberLays, SMTT(60)
<1>11. \A f : Has(d, f) <=> f \in flags
  BY <1>4 DEF Has
<1>12. IsoNumber(d) = IF Has(d, "-") THEN (A \o B) \o Rep(" ", gap)
                      ELSE IF Has(d, "0") /\ ~d.dot THEN (A \o Rep("0", gap)) \o B
                      ELSE Rep(" ", gap) \o (A \o B)
  BY <1>7, <1>8 DEF IsoNumber
<1>13. zp <=> "0" \in flags /\ ~d.dot /\ "-" \notin flags /\ g > 0
  BY <1>4 DEF ZeroPads
<1>14. ~d.dot => z = 0
  <2>1. z = IF prec > Len(buf) THEN prec - Len(buf) ELSE 0
    BY DEF Zeros
  <2> HIDE DEF prec, z, buf
  <2> QED
    BY <1>4, <1>6, <2>1
<1> HIDE DEF A, R, z, B, buf, flags, prec, w, zp
<1>15. g \in Int
  BY <1>4, <1>6, <1>7, <1>9
<1>16. /\ Len(A \o B) = Len(A) + (z + Len(R))
       /\ Laid(A, R, z, g, FALSE, TRUE) = (A \o B) \o Rep(" ", g)
       /\ Laid(A, R, z, g, FALSE, FALSE) = Rep(" ", g) \o (A \o B)
       /\ z = 0 => Laid(A, R, z, g, TRUE, FALSE) = (A \o Rep("0", g)) \o B
       /\ g <= 0 => Rep(" ", g) \o (A \o B) = (A \o Rep("0", g)) \o B
  <2> HIDE DEF g
  <2> QED
    <3>1. A \in Seq(Char) /\ R \in Seq(Char) /\ z \in Nat /\ g \in Int
      BY <1>6, <1>7, <1>9, <1>15
    <3>2. Lays(A, R, z, g, B)
      BY <3>1, LaidOut DEF B
    <3> QED
      BY <3>2 DEF Lays
<1>17. gap = g
  <2> DEFINE k == Len(A \o B)
  <2>1. k = Len(A) + (z + Len(buf))
    BY <1>6, <1>16
  <2> HIDE DEF k
  <2>2. NumberOf(d.width) - k = w - (Len(buf) + z + Len(A))
    BY <1>4, <1>6, <1>7, <1>9, <2>1
  <2> QED
    BY <2>2 DEF k
<1> HIDE DEF gap, g
<1>18. Laid(A, R, z, g, zp, "-" \in flags) = IsoNumber(d)
  <2>1. CASE Has(d, "-")
    <3>1. zp = FALSE /\ ("-" \in flags) = TRUE
      BY <1>11, <1>13, <2>1 DEF zp, ZeroPads
    <3>2. IsoNumber(d) = (A \o B) \o Rep(" ", g)
      BY <1>12, <1>17, <2>1
    <3> QED
      BY <1>16, <3>1, <3>2
  <2>2. CASE ~Has(d, "-") /\ Has(d, "0") /\ ~d.dot
    <3>1. IsoNumber(d) = (A \o Rep("0", g)) \o B
      BY <1>12, <1>17, <2>2
    <3>2. ("-" \in flags) = FALSE
      BY <1>11, <2>2
    <3>3. CASE g > 0
      <4>1. zp = TRUE
        BY <1>11, <1>13, <2>2, <3>3 DEF zp, ZeroPads
      <4> QED
        BY <1>14, <1>16, <2>2, <3>1, <3>2, <4>1
    <3>4. CASE ~(g > 0)
      <4>1. zp = FALSE
        BY <1>13, <3>4 DEF zp, ZeroPads
      <4>2. g <= 0
        BY <1>15, <3>4
      <4> QED
        BY <1>16, <3>1, <3>2, <4>1, <4>2
    <3> QED
      BY <3>3, <3>4
  <2>3. CASE ~Has(d, "-") /\ ~(Has(d, "0") /\ ~d.dot)
    <3>1. IsoNumber(d) = Rep(" ", g) \o (A \o B)
      BY <1>12, <1>17, <2>3
    <3>2. zp = FALSE /\ ("-" \in flags) = FALSE
      BY <1>11, <1>13, <2>3 DEF zp, ZeroPads
    <3> QED
      BY <1>16, <3>1, <3>2
  <2> QED
    BY <2>1, <2>2, <2>3
<1> QED
  BY <1>10, <1>18 DEF num, b, w, prec, flags, signed, upper

-----------------------------------------------------------------------------
(* Strings, characters and every conversion *)

\* A string argument is characters.
LEMMA TextFacts ==
  ASSUME NEW d \in Directives
  PROVE  TextOf(d.arg) \in Seq(Char)
<1>1. <<"(", "n", "u", "l", "l", ")">> \in Seq(Char)
  BY OwnChars, Tuples
<1>2. d.arg.str \in Seq(Char)
  BY DirectiveAssumption
<1> QED
  BY <1>1, <1>2 DEF TextOf

\* The part of a string that is printed.
LEMMA CutFacts ==
  ASSUME NEW s \in Seq(Char), NEW n \in Nat, n <= Len(s)
  PROVE  /\ SubSeq(s, 1, n) \in Seq(Char) /\ Len(SubSeq(s, 1, n)) = n
         /\ n = Len(s) => SubSeq(s, 1, n) = s
<1>1. \A i \in 1 .. n : s[i] \in Char
  BY ElementOfSeq, LenProperties
<1>2. 1 \in Int /\ n \in Int
  OBVIOUS
<1>3. SubSeq(s, 1, n) \in Seq(Char) /\ Len(SubSeq(s, 1, n)) = IF 1 <= n THEN n - 1 + 1 ELSE 0
  BY <1>1, <1>2, SubSeqProperties
<1>4. (IF 1 <= n THEN n - 1 + 1 ELSE 0) = n
  OBVIOUS
<1>5. n = Len(s) => SubSeq(s, 1, n) = s
  BY SubSeqFull
<1> QED
  BY <1>3, <1>4, <1>5

\* print_string_fmt prints characters.
LEMMA StringChars ==
  ASSUME NEW s \in Seq(Char), NEW width \in Nat, NEW precision \in Nat \cup {-1}, NEW flags
  PROVE  print_string_fmt(s, width, precision, flags) \in Seq(Char)
<1> DEFINE len == IF precision = -1 \/ Len(s) < precision THEN Len(s) ELSE precision
           gap == Rep(" ", width - len)
           t == SubSeq(s, 1, len)
<1>1. Len(s) \in Nat
  BY LenProperties
<1>2. len \in Nat /\ len <= Len(s)
  BY <1>1
<1>3. print_string_fmt(s, width, precision, flags)
        = (IF "-" \in flags THEN << >> ELSE gap) \o t \o (IF "-" \in flags THEN gap ELSE << >>)
  BY DEF print_string_fmt
<1> HIDE DEF len
<1>4. " " \in Char /\ width - len \in Int
  <2>1. " " \in Char
    BY OwnChars
  <2>2. width - len \in Int
    BY <1>2
  <2> QED
    BY <2>1, <2>2
<1>5. gap \in Seq(Char) /\ t \in Seq(Char)
  BY <1>2, <1>4, RepFacts, CutFacts
<1> HIDE DEF gap, t
<1>6. << >> \in Seq(Char) /\ \A u, v \in Seq(Char) : u \o v \in Seq(Char)
  BY Concats
<1>7. CASE "-" \in flags
  <2>1. << >> \o t \in Seq(Char)
    BY <1>5, <1>6
  <2>2. (<< >> \o t) \o gap \in Seq(Char)
    BY <1>5, <1>6, <2>1
  <2> QED
    BY <1>3, <1>7, <2>2
<1>8. CASE "-" \notin flags
  <2>1. gap \o t \in Seq(Char)
    BY <1>5, <1>6
  <2>2. (gap \o t) \o << >> \in Seq(Char)
    BY <1>6, <2>1
  <2> QED
    BY <1>3, <1>8, <2>2
<1> QED
  BY <1>7, <1>8

\* print_string_fmt cuts a string at its precision and pads it as ISO C says.
LEMMA StringsAgree ==
  ASSUME NEW d \in Directives
  PROVE  print_string_fmt(TextOf(d.arg), FinalSpec(d).width, FinalSpec(d).precision,
                          FinalSpec(d).flags) = IsoString(d)
<1> DEFINE s == TextOf(d.arg)
           P == NumberOf(d.precision)
           W == NumberOf(d.width)
           prec == FinalSpec(d).precision
           flags == FinalSpec(d).flags
           len == IF prec = -1 \/ Len(s) < prec THEN Len(s) ELSE prec
           t == SubSeq(s, 1, len)
           gap == Rep(" ", W - len)
           cut == IF d.dot /\ P < Len(s) THEN SubSeq(s, 1, P) ELSE s
<1>1. /\ flags = Range(d.flags) /\ FinalSpec(d).width = W
      /\ prec = (IF d.dot THEN P ELSE -1) /\ W \in Nat /\ P \in Nat /\ d.dot \in BOOLEAN
  BY FinalFields
<1>2. s \in Seq(Char) /\ Len(s) \in Nat
  BY TextFacts, LenProperties
<1>3. print_string_fmt(s, W, prec, flags)
        = (IF "-" \in flags THEN << >> ELSE gap) \o t \o (IF "-" \in flags THEN gap ELSE << >>)
  BY DEF print_string_fmt
<1>4. IsoString(d) = IF Has(d, "-") THEN cut \o Rep(" ", W - Len(cut)) ELSE Rep(" ", W - Len(cut)) \o cut
  BY DEF IsoString
<1>5. Has(d, "-") <=> "-" \in flags
  BY <1>1 DEF Has
<1> HIDE DEF s, P, W, prec, flags
<1>6. len \in Nat /\ len <= Len(s)
  BY <1>1, <1>2
<1>7. cut = t
  <2>1. CASE d.dot /\ P < Len(s)
    <3>1. len = P
      BY <1>1, <1>2, <2>1
    <3> QED
      BY <2>1, <3>1
  <2>2. CASE ~(d.dot /\ P < Len(s))
    <3>1. len = Len(s)
      BY <1>1, <1>2, <2>2
    <3> HIDE DEF len
    <3>2. SubSeq(s, 1, len) = s
      BY <1>2, <1>6, <3>1, CutFacts
    <3> QED
      BY <2>2, <3>2
  <2> QED
    BY <2>1, <2>2
<1> HIDE DEF len, cut
<1>8. t \in Seq(Char) /\ Len(t) = len
  BY <1>2, <1>6, CutFacts
<1>9. gap = Rep(" ", W - Len(cut))
  BY <1>7, <1>8
<1>10. " " \in Char /\ W - len \in Int
  <2>1. " " \in Char
    BY OwnChars
  <2>2. W - len \in Int
    BY <1>1, <1>6
  <2> QED
    BY <2>1, <2>2
<1>11. gap \in Seq(Char)
  BY <1>10, RepFacts
<1> HIDE DEF t, gap
<1>12. << >> \o t = t /\ gap \o t \in Seq(Char)
  BY <1>8, <1>11, Concats
<1>13. (gap \o t) \o << >> = gap \o t
  BY <1>12, Concats
<1>14. CASE "-" \in flags
  <2>1. IsoString(d) = t \o gap
    BY <1>4, <1>5, <1>7, <1>9, <1>14
  <2>2. print_string_fmt(s, W, prec, flags) = (<< >> \o t) \o gap
    BY <1>3, <1>14
  <2> QED
    BY <1>1, <1>12, <2>1, <2>2 DEF s, prec, flags
<1>15. CASE "-" \notin flags
  <2>1. IsoString(d) = gap \o t
    BY <1>4, <1>5, <1>7, <1>9, <1>15
  <2>2. print_string_fmt(s, W, prec, flags) = (gap \o t) \o << >>
    BY <1>3, <1>15
  <2> QED
    BY <1>1, <1>13, <2>1, <2>2 DEF s, prec, flags
<1> QED
  BY <1>14, <1>15

\* print_number prints characters.
LEMMA NumberChars ==
  ASSUME NEW num \in Nat, num < LLMod, NEW base \in {10, 16}, NEW width \in Int,
         NEW precision \in Int, NEW flags, NEW signed \in BOOLEAN, NEW upper \in BOOLEAN
  PROVE  print_number(num, base, width, precision, flags, signed, upper) \in Seq(Char)
<1> DEFINE mag == Magnitude(num, signed)
           A == Signs(num, flags, signed)
           buf == Buf(mag, base, upper)
           R == Reverse(buf)
           z == Zeros(precision, Len(buf))
           g == width - (Len(buf) + z + Len(A))
           zp == ZeroPads(flags, precision, g)
           left == "-" \in flags
<1>1. print_number(num, base, width, precision, flags, signed, upper) = Laid(A, R, z, g, zp, left)
  BY PrintNumberLays
<1>2. mag \in Nat /\ mag < LLMod
  BY MagnitudeFacts
<1> HIDE DEF mag
<1>3. Len(buf) \in Nat /\ R \in Seq(Char)
  BY <1>2, BufFacts
<1>4. A \in Seq(Char) /\ Len(A) \in Nat
  BY SignFacts
<1> HIDE DEF A, R, buf
<1>5. z \in Int
  BY <1>3 DEF Zeros
<1> HIDE DEF z
<1>6. g \in Int
  BY <1>3, <1>4, <1>5
<1>7. zp \in BOOLEAN /\ left \in BOOLEAN
  BY DEF ZeroPads
<1> HIDE DEF g, zp, left
<1> QED
  BY <1>1, <1>3, <1>4, <1>5, <1>6, <1>7, LaidChars

\* The characters a directive may print.
CharsOf(d) == IF PrintsNUL(d) THEN Char \cup {NUL} ELSE Char

\* Every conversion prints characters, whatever printk has read before it, and
\* NUL only where a %c or the end of the format asks for it.
LEMMA ConvertedChars ==
  ASSUME NEW d \in Directives, NEW s \in Spec_t
  PROVE  Converted(d.conv, s, d.arg) \in Seq(CharsOf(d))
<1> DEFINE c == d.conv
           bits == d.arg.bits
<1>1. /\ bits \in Nat /\ d.arg.char \in Char \cup {NUL} /\ c \in Char \cup {NUL} /\ "%" \in Char
  BY DirectiveAssumption, OwnChars
<1>2. s.width \in Nat /\ s.precision \in Nat \cup {-1} /\ s.width \in Int /\ s.precision \in Int
  BY DEF Spec_t
<1>3. /\ Unsigned(bits, ArgMod(s)) \in Nat /\ Unsigned(bits, ArgMod(s)) < LLMod
      /\ SignedArg(s, bits) \in Nat /\ SignedArg(s, bits) < LLMod
      /\ Unsigned(bits, LongMod) \in Nat /\ Unsigned(bits, LongMod) < LLMod
  BY <1>1, SpecArgFacts, NumberArgFacts
<1>4. ASSUME c \in {"d", "i"} PROVE Converted(c, s, d.arg) \in Seq(Char)
  <2>1. Converted(c, s, d.arg)
          = print_number(SignedArg(s, bits), 10, s.width, s.precision, s.flags, TRUE, FALSE)
    BY <1>4 DEF Converted
  <2> QED
    BY <1>2, <1>3, <2>1, NumberChars
<1>5. ASSUME c \in {"u", "x", "X"} PROVE Converted(c, s, d.arg) \in Seq(Char)
  <2> DEFINE base == IF c = "u" THEN 10 ELSE 16
             upper == c = "X"
  <2>1. Converted(c, s, d.arg)
          = print_number(Unsigned(bits, ArgMod(s)), base, s.width, s.precision, s.flags, FALSE, upper)
    <3>1. c \notin {"d", "i"}
      BY <1>5
    <3> QED
      BY <1>5, <3>1 DEF Converted
  <2>2. base \in {10, 16} /\ upper \in BOOLEAN
    OBVIOUS
  <2> DEFINE num == Unsigned(bits, ArgMod(s))
  <2>3. num \in Nat /\ num < LLMod /\ FALSE \in BOOLEAN
    BY <1>3
  <2> HIDE DEF base, upper, num
  <2>4. print_number(num, base, s.width, s.precision, s.flags, FALSE, upper) \in Seq(Char)
    BY <1>2, <2>2, <2>3, NumberChars
  <2> QED
    BY <2>1, <2>4 DEF num
<1>6. ASSUME c = "p" PROVE Converted(c, s, d.arg) \in Seq(Char)
  <2> DEFINE fl == (s.flags \cap {"-"}) \cup {"#", "0"}
             w == PtrWidth + 2
  <2>1. Converted(c, s, d.arg) = print_number(Unsigned(bits, LongMod), 16, w, -1, fl, FALSE, FALSE)
    BY <1>6 DEF Converted
  <2>2. w \in Int /\ -1 \in Int
    BY PrintkAssumption
  <2> HIDE DEF fl, w
  <2> QED
    BY <1>3, <2>1, <2>2, NumberChars
<1>7. ASSUME c = "s" PROVE Converted(c, s, d.arg) \in Seq(Char)
  <2>1. Converted(c, s, d.arg) = print_string_fmt(TextOf(d.arg), s.width, s.precision, s.flags)
    BY <1>7 DEF Converted
  <2> QED
    BY <1>2, <2>1, TextFacts, StringChars
<1>8. CASE c = "c"
  <2>1. Converted(c, s, d.arg) = <<d.arg.char>>
    BY <1>8 DEF Converted
  <2>2. d.arg.char \in CharsOf(d)
    BY <1>1, <1>8 DEF CharsOf, PrintsNUL
  <2> QED
    BY <2>1, <2>2, Singles
<1>9. ASSUME c = "%" PROVE Converted(c, s, d.arg) \in Seq(Char)
  <2>1. Converted(c, s, d.arg) = <<"%">>
    BY <1>9 DEF Converted
  <2> QED
    BY <1>1, <2>1, Singles
<1>10. CASE c \notin {"d", "i", "u", "x", "X", "p", "s", "c", "%"}
  <2>1. Converted(c, s, d.arg) = <<"%", c>>
    BY <1>10 DEF Converted
  <2>2. "%" \in CharsOf(d) /\ c \in CharsOf(d)
    BY <1>1 DEF CharsOf, PrintsNUL
  <2>3. <<"%", c>> \in Seq(CharsOf(d))
    BY <2>2
  <2> QED
    BY <2>1, <2>3
<1>11. Seq(Char) \subseteq Seq(CharsOf(d))
  <2>1. Char \subseteq CharsOf(d)
    BY DEF CharsOf
  <2> QED
    BY <2>1, SeqMonotonic
<1> QED
  BY <1>4, <1>5, <1>6, <1>7, <1>8, <1>9, <1>10, <1>11

(***************************************************************************)
(* What State 5 prints of a directive it has read in full is what ISO C    *)
(* says of it.                                                             *)
(***************************************************************************)
LEMMA ConversionAgrees ==
  ASSUME NEW d \in Directives, Agreed(d)
  PROVE  Converted(d.conv, FinalSpec(d), d.arg) = IsoConversion(d)
<1> DEFINE c == d.conv
           S == FinalSpec(d)
           X == Converted(c, S, d.arg)
<1>1. IsNumber(d) \/ c \in {"s", "c", "%"}
  BY DEF Agreed, IsNumber
<1>2. CASE IsNumber(d)
  <2>1. IsoConversion(d) = IsoNumber(d)
    BY <1>2 DEF IsoConversion, IsNumber
  <2>2. X = print_number(NumberArg(d), Base(d), S.width, S.precision, S.flags, IsSigned(d), c = "X")
    <3>1. CASE c \in {"d", "i"}
      <4>1. IsSigned(d) = TRUE /\ (c = "X") = FALSE /\ Base(d) = 10
        BY <3>1 DEF IsSigned, Base
      <4>2. NumberArg(d) = SignedArg(S, d.arg.bits)
        BY <4>1 DEF NumberArg
      <4>3. X = print_number(SignedArg(S, d.arg.bits), 10, S.width, S.precision, S.flags, TRUE, FALSE)
        BY <3>1 DEF Converted
      <4> QED
        BY <4>1, <4>2, <4>3
    <3>2. CASE c \in {"u", "x", "X"}
      <4>1. IsSigned(d) = FALSE /\ Base(d) = IF c = "u" THEN 10 ELSE 16
        BY <3>2 DEF IsSigned, Base
      <4>2. NumberArg(d) = Unsigned(d.arg.bits, ArgMod(S))
        BY <4>1 DEF NumberArg
      <4>3. X = print_number(Unsigned(d.arg.bits, ArgMod(S)), IF c = "u" THEN 10 ELSE 16,
                             S.width, S.precision, S.flags, FALSE, c = "X")
        BY <3>2 DEF Converted
      <4> QED
        BY <4>1, <4>2, <4>3
    <3> QED
      BY <1>2, <3>1, <3>2 DEF IsNumber
  <2>3. X = IsoNumber(d)
    BY <1>2, <2>2, NumbersAgree
  <2> QED
    BY <2>1, <2>3
<1>3. CASE c = "s"
  <2>1. IsoConversion(d) = IsoString(d)
    BY <1>3 DEF IsoConversion
  <2>2. X = print_string_fmt(TextOf(d.arg), S.width, S.precision, S.flags)
    BY <1>3 DEF Converted
  <2> QED
    BY <2>1, <2>2, StringsAgree
<1>4. CASE c = "c"
  BY <1>4 DEF IsoConversion, Converted
<1>5. CASE c = "%"
  BY <1>5 DEF IsoConversion, Converted
<1> QED
  BY <1>1, <1>2, <1>3, <1>4, <1>5

-----------------------------------------------------------------------------
(* The format *)

\* What w has of u, and then of a sequence v over V.
Joined(w, u, v, V, T) ==
  /\ w \in Seq(T)
  /\ Len(u) \in Nat /\ Len(v) \in Nat /\ Len(w) = Len(u) + Len(v)
  /\ \A i \in 1 .. Len(u) : w[i] = u[i]
  /\ \A i \in Len(u) + 1 .. Len(u) + Len(v) : w[i] \in V /\ w[i] = v[i - Len(u)]

\* Where the characters of two sequences are in their concatenation.
LEMMA Layer ==
  ASSUME NEW T, NEW V, V \subseteq T, NEW u, u \in Seq(T), NEW v, v \in Seq(V)
  PROVE  Joined(u \o v, u, v, V, T)
<1>1. v \in Seq(T)
  BY SeqMonotonic
<1>2. /\ Len(u) \in Nat /\ Len(v) \in Nat
      /\ \A i \in 1 .. Len(v) : v[i] \in V
  BY LenProperties, ElementOfSeq
<1>3. /\ u \o v \in Seq(T) /\ Len(u \o v) = Len(u) + Len(v)
      /\ \A i \in 1 .. Len(u) + Len(v) :
           (u \o v)[i] = IF i <= Len(u) THEN u[i] ELSE v[i - Len(u)]
  BY <1>1, ConcatProperties
<1>4. \A i \in 1 .. Len(u) : (u \o v)[i] = u[i]
  BY <1>2, <1>3
<1>5. ASSUME NEW i \in Len(u) + 1 .. Len(u) + Len(v)
      PROVE  (u \o v)[i] \in V /\ (u \o v)[i] = v[i - Len(u)]
  <2>1. i \in 1 .. Len(u) + Len(v) /\ ~(i <= Len(u)) /\ i - Len(u) \in 1 .. Len(v)
    BY <1>2
  <2>2. (u \o v)[i] = v[i - Len(u)]
    BY <1>3, <2>1
  <2> QED
    BY <1>2, <2>1, <2>2
<1> QED
  BY <1>2, <1>3, <1>4, <1>5 DEF Joined

\* The characters of a format.
FormatChars(d) == FlagChars \cup Digits \cup {"t", "\n", "%", ".", "l", "z", d.conv}

\* Where the fields of a directive are in its format.
LEMMA RenderShape ==
  ASSUME NEW d \in Directives
  PROVE  LET r == Render(d)
         IN  /\ FlagsTo(d) \in Nat /\ WidthTo(d) \in Nat
             /\ PrecisionTo(d) \in Nat /\ SizeTo(d) \in Nat
             /\ 3 <= FlagsTo(d) /\ FlagsTo(d) <= WidthTo(d)
             /\ WidthTo(d) <= PrecisionTo(d) /\ PrecisionTo(d) <= SizeTo(d)
             /\ r \in Seq(FormatChars(d)) /\ Len(r) = SizeTo(d) + 1
             /\ r[1] = "t" /\ r[2] = "\n" /\ r[3] = "%"
             /\ \A i \in 4 .. FlagsTo(d) : r[i] \in FlagChars /\ r[i] = d.flags[i - 3]
             /\ \A i \in FlagsTo(d) + 1 .. WidthTo(d) :
                  r[i] \in Digits /\ r[i] = d.width[i - FlagsTo(d)]
             /\ d.dot => /\ WidthTo(d) + 1 <= PrecisionTo(d) /\ r[WidthTo(d) + 1] = "."
                         /\ \A i \in WidthTo(d) + 2 .. PrecisionTo(d) :
                              r[i] \in Digits /\ r[i] = d.precision[i - (WidthTo(d) + 1)]
             /\ ~d.dot => PrecisionTo(d) = WidthTo(d)
             /\ \A i \in PrecisionTo(d) + 1 .. SizeTo(d) :
                  r[i] \in {"l", "z"} /\ r[i] = d.size[i - PrecisionTo(d)]
             /\ r[SizeTo(d) + 1] = d.conv
<1> DEFINE T == FormatChars(d)
           a == <<"t", "\n", "%">>
           dot == IF d.dot THEN <<".">> ELSE << >>
           pre == IF d.dot THEN d.precision ELSE << >>
           b == a \o d.flags
           c == b \o d.width
           e == c \o dot
           f == e \o pre
           g == f \o d.size
           r == g \o <<d.conv>>
<1>1. /\ d.flags \in Seq(FlagChars) /\ d.width \in Seq(Digits) /\ d.dot \in BOOLEAN
      /\ d.precision \in Seq(Digits) /\ d.size \in Seq({"l", "z"})
  BY DirectiveAssumption
<1>2. /\ FlagChars \subseteq T /\ Digits \subseteq T /\ {"l", "z"} \subseteq T
      /\ {"."} \subseteq T /\ {d.conv} \subseteq T
  BY DEF FormatChars
<1>3. a \in Seq(T) /\ Len(a) = 3 /\ a[1] = "t" /\ a[2] = "\n" /\ a[3] = "%"
  BY DEF FormatChars
<1>4. /\ dot \in Seq({"."}) /\ pre \in Seq(Digits)
      /\ d.dot => Len(dot) = 1 /\ Len(pre) = Len(d.precision)
      /\ ~d.dot => Len(dot) = 0 /\ Len(pre) = 0
      /\ <<d.conv>> \in Seq({d.conv}) /\ Len(<<d.conv>>) = 1
  <2>1. << >> \in Seq({"."}) /\ << >> \in Seq(Digits) /\ <<".">> \in Seq({"."})
        /\ Len(<<".">>) = 1 /\ Len(<< >>) = 0
    OBVIOUS
  <2>2. CASE d.dot
    BY <1>1, <2>1, <2>2
  <2>3. CASE ~d.dot
    BY <1>1, <2>1, <2>3
  <2> QED
    BY <2>2, <2>3
<1> HIDE DEF T, a, dot, pre
<1>5. Render(d) = r
  <2>1. (c \o (IF d.dot THEN <<".">> \o d.precision ELSE << >>)) = f
    <3>1. /\ c \in Seq(T) /\ <<".">> \in Seq(T) /\ d.precision \in Seq(T) /\ << >> \in Seq(T)
      <4>1. b \in Seq(T)
        BY <1>1, <1>2, <1>3, Layer DEF Joined
      <4> HIDE DEF b
      <4>2. c \in Seq(T)
        BY <1>1, <1>2, <4>1, Layer DEF Joined
      <4>3. <<".">> \in Seq(T) /\ << >> \in Seq(T)
        BY <1>2
      <4>4. d.precision \in Seq(T)
        BY <1>1, <1>2, SeqMonotonic
      <4> QED
        BY <4>2, <4>3, <4>4
    <3> HIDE DEF c
    <3>2. CASE d.dot
      <4>1. (c \o <<".">>) \o d.precision = c \o (<<".">> \o d.precision)
        <5> DEFINE one == <<".">>
        <5>1. one \in Seq(T)
          BY <3>1
        <5> HIDE DEF one
        <5>2. (c \o one) \o d.precision = c \o (one \o d.precision)
          <6>1. \A s, t, v \in Seq(T) : (s \o t) \o v = s \o (t \o v)
            BY ConcatAssociative
          <6> QED
            BY <3>1, <5>1, <6>1, ZenonT(90)
        <5> QED
          BY <5>2 DEF one
      <4> QED
        BY <3>2, <4>1 DEF dot, pre
    <3>3. CASE ~d.dot
      <4>1. c \o << >> = c
        BY <3>1, ConcatEmptySeq
      <4> QED
        BY <3>3, <4>1 DEF dot, pre
    <3> QED
      BY <3>2, <3>3
  <2> QED
    BY <2>1 DEF Render, a
<1>6. /\ b \in Seq(T) /\ Len(b) = FlagsTo(d) /\ FlagsTo(d) \in Nat /\ 3 <= FlagsTo(d)
      /\ \A i \in 1 .. 3 : b[i] = a[i]
      /\ \A i \in 4 .. FlagsTo(d) : b[i] \in FlagChars /\ b[i] = d.flags[i - 3]
  <2>1. Joined(b, a, d.flags, FlagChars, T)
    BY <1>1, <1>2, <1>3, Layer
  <2> HIDE DEF b
  <2> QED
    BY <1>3, <2>1 DEF FlagsTo, Joined
<1> HIDE DEF b
<1>7. /\ c \in Seq(T) /\ Len(c) = WidthTo(d) /\ WidthTo(d) \in Nat /\ FlagsTo(d) <= WidthTo(d)
      /\ \A i \in 1 .. FlagsTo(d) : c[i] = b[i]
      /\ \A i \in FlagsTo(d) + 1 .. WidthTo(d) : c[i] \in Digits /\ c[i] = d.width[i - FlagsTo(d)]
  <2>1. Joined(c, b, d.width, Digits, T)
    BY <1>1, <1>2, <1>6, Layer
  <2> HIDE DEF c
  <2> QED
    BY <1>6, <2>1 DEF WidthTo, Joined
<1> HIDE DEF c
<1>8. /\ e \in Seq(T) /\ Len(e) = WidthTo(d) + Len(dot)
      /\ \A i \in 1 .. WidthTo(d) : e[i] = c[i]
      /\ \A i \in WidthTo(d) + 1 .. WidthTo(d) + Len(dot) : e[i] \in {"."}
  <2>1. Joined(e, c, dot, {"."}, T)
    BY <1>2, <1>4, <1>7, Layer
  <2> HIDE DEF e
  <2> QED
    BY <1>7, <2>1 DEF Joined
<1> HIDE DEF e
<1>9. /\ f \in Seq(T) /\ Len(f) = PrecisionTo(d) /\ PrecisionTo(d) \in Nat
      /\ WidthTo(d) + Len(dot) <= PrecisionTo(d)
      /\ ~d.dot => PrecisionTo(d) = WidthTo(d)
      /\ \A i \in 1 .. WidthTo(d) + Len(dot) : f[i] = e[i]
      /\ \A i \in WidthTo(d) + Len(dot) + 1 .. PrecisionTo(d) :
           f[i] \in Digits /\ f[i] = pre[i - (WidthTo(d) + Len(dot))]
  <2>1. Joined(f, e, pre, Digits, T)
    BY <1>2, <1>4, <1>8, Layer
  <2> HIDE DEF f
  <2>2. Len(dot) \in Nat /\ PrecisionTo(d) = WidthTo(d) + Len(dot) + Len(pre)
    <3>1. Len(pre) \in Nat
      BY <2>1 DEF Joined
    <3>2. CASE d.dot
      <4>1. PrecisionTo(d) = WidthTo(d) + (1 + Len(d.precision))
        BY <3>2 DEF PrecisionTo
      <4> QED
        <5>1. Len(dot) = 1 /\ Len(pre) = Len(d.precision)
          BY <1>4, <3>2
        <5> QED
          BY <1>7, <3>1, <4>1, <5>1
    <3>3. CASE ~d.dot
      <4>1. PrecisionTo(d) = WidthTo(d) + 0
        BY <3>3 DEF PrecisionTo
      <4> QED
        BY <1>4, <1>7, <3>1, <3>3, <4>1
    <3> QED
      BY <3>2, <3>3
  <2>3. ~d.dot => PrecisionTo(d) = WidthTo(d)
    BY <1>7 DEF PrecisionTo
  <2> QED
    BY <1>7, <1>8, <2>1, <2>2, <2>3 DEF Joined
<1> HIDE DEF f
<1>10. /\ g \in Seq(T) /\ Len(g) = SizeTo(d) /\ SizeTo(d) \in Nat /\ PrecisionTo(d) <= SizeTo(d)
       /\ \A i \in 1 .. PrecisionTo(d) : g[i] = f[i]
       /\ \A i \in PrecisionTo(d) + 1 .. SizeTo(d) :
            g[i] \in {"l", "z"} /\ g[i] = d.size[i - PrecisionTo(d)]
  <2>1. Joined(g, f, d.size, {"l", "z"}, T)
    BY <1>1, <1>2, <1>9, Layer
  <2> HIDE DEF g
  <2> QED
    BY <1>9, <2>1 DEF SizeTo, Joined
<1> HIDE DEF g
<1>11. /\ r \in Seq(T) /\ Len(r) = SizeTo(d) + 1
       /\ \A i \in 1 .. SizeTo(d) : r[i] = g[i]
       /\ r[SizeTo(d) + 1] = d.conv
  <2>1. Joined(r, g, <<d.conv>>, {d.conv}, T)
    BY <1>2, <1>4, <1>10, Layer
  <2> HIDE DEF r
  <2>2. SizeTo(d) + 1 \in SizeTo(d) + 1 .. SizeTo(d) + 1
    BY <1>10
  <2>3. Len(<<d.conv>>) = 1
    OBVIOUS
  <2> QED
    BY <1>10, <2>1, <2>2, <2>3 DEF Joined
<1> HIDE DEF r
<1>12. Len(dot) \in Nat
  BY <1>4
<1>13. r[1] = "t" /\ r[2] = "\n" /\ r[3] = "%"
  <2>1. \A i \in 1 .. 3 : r[i] = a[i]
    <3> SUFFICES ASSUME NEW i \in 1 .. 3 PROVE r[i] = a[i]
      OBVIOUS
    <3>1. /\ i \in 1 .. FlagsTo(d) /\ i \in 1 .. WidthTo(d) /\ i \in 1 .. PrecisionTo(d)
          /\ i \in 1 .. SizeTo(d) /\ i \in 1 .. WidthTo(d) + Len(dot)
      BY <1>6, <1>7, <1>8, <1>9, <1>10, <1>12, SMTT(60)
    <3> QED
      BY <1>6, <1>7, <1>8, <1>9, <1>10, <1>11, <3>1, SMTT(60)
  <2> QED
    BY <1>3, <2>1
<1>14. /\ \A i \in 4 .. FlagsTo(d) : r[i] \in FlagChars /\ r[i] = d.flags[i - 3]
       /\ \A i \in FlagsTo(d) + 1 .. WidthTo(d) :
            r[i] \in Digits /\ r[i] = d.width[i - FlagsTo(d)]
  <2>1. \A i \in 1 .. WidthTo(d) : r[i] = c[i]
    <3> SUFFICES ASSUME NEW i \in 1 .. WidthTo(d) PROVE r[i] = c[i]
      OBVIOUS
    <3>1. /\ i \in 1 .. PrecisionTo(d) /\ i \in 1 .. SizeTo(d)
          /\ i \in 1 .. WidthTo(d) + Len(dot)
      BY <1>7, <1>8, <1>9, <1>10, <1>12
    <3> QED
      BY <1>8, <1>9, <1>10, <1>11, <3>1
  <2>2. ASSUME NEW i \in 4 .. FlagsTo(d) PROVE r[i] \in FlagChars /\ r[i] = d.flags[i - 3]
    <3>1. i \in 1 .. WidthTo(d) /\ i \in 1 .. FlagsTo(d)
      BY <1>6, <1>7
    <3>2. r[i] = b[i]
      BY <1>7, <2>1, <3>1
    <3> QED
      BY <1>6, <3>2
  <2>3. ASSUME NEW i \in FlagsTo(d) + 1 .. WidthTo(d)
        PROVE  r[i] \in Digits /\ r[i] = d.width[i - FlagsTo(d)]
    <3>1. i \in 1 .. WidthTo(d)
      BY <1>6, <1>7
    <3> QED
      BY <1>7, <2>1, <3>1
  <2> QED
    BY <2>2, <2>3
<1>15. ASSUME d.dot
       PROVE  /\ WidthTo(d) + 1 <= PrecisionTo(d) /\ r[WidthTo(d) + 1] = "."
              /\ \A i \in WidthTo(d) + 2 .. PrecisionTo(d) :
                   r[i] \in Digits /\ r[i] = d.precision[i - (WidthTo(d) + 1)]
  <2>1. Len(dot) = 1 /\ pre = d.precision
    BY <1>4, <1>15 DEF pre
  <2>2. r[WidthTo(d) + 1] = e[WidthTo(d) + 1]
    BY <1>7, <1>9, <1>10, <1>11, <2>1
  <2>3. \A i \in WidthTo(d) + 2 .. PrecisionTo(d) :
          r[i] = f[i] /\ f[i] \in Digits /\ f[i] = d.precision[i - (WidthTo(d) + 1)]
    BY <1>7, <1>9, <1>10, <1>11, <2>1
  <2> QED
    BY <1>7, <1>8, <1>9, <2>1, <2>2, <2>3
<1>16. \A i \in PrecisionTo(d) + 1 .. SizeTo(d) :
         r[i] \in {"l", "z"} /\ r[i] = d.size[i - PrecisionTo(d)]
  BY <1>9, <1>10, <1>11
<1>17. r \in Seq(FormatChars(d))
  BY <1>11 DEF T
<1> QED
  BY <1>5, <1>6, <1>7, <1>9, <1>10, <1>11, <1>13, <1>14, <1>15, <1>16, <1>17, <1>4, SMTT(60)

\* What the parser may read: the format up to the conversion and then the text
\* behind it, which has no '%' and no NUL.
LEMMA MemoryShape ==
  ASSUME NEW d \in Directives
  PROVE  LET S == SizeTo(d)
             E == AfterTo(d)
         IN  /\ S \in Nat /\ E \in Nat /\ S + 1 <= E
             /\ d.after \in Seq(Char) /\ Len(d.after) \in Nat /\ E = S + 1 + Len(d.after)
             /\ Len(Memory(d)) = E
             /\ \A i \in 1 .. S + 1 : Memory(d)[i] = Render(d)[i]
             /\ \A i \in S + 2 .. E :
                  /\ Memory(d)[i] = d.after[i - (S + 1)]
                  /\ Memory(d)[i] \in Char /\ Memory(d)[i] # "%" /\ Memory(d)[i] # NUL
             /\ Terminator(d) + (IF d.conv = NUL THEN 1 + Len(d.after) ELSE 0) = E + 1
<1> DEFINE S == SizeTo(d)
           E == AfterTo(d)
           V == Char \ {"%"}
           T == FormatChars(d) \cup V
           r == Render(d)
           a == d.after
           m == Memory(d)
<1>1. S \in Nat /\ r \in Seq(FormatChars(d)) /\ Len(r) = S + 1
  BY RenderShape
<1>2. a \in Seq(V)
  BY DirectiveAssumption
<1>3. V \subseteq T /\ V \subseteq Char /\ r \in Seq(T)
  BY <1>1, SeqMonotonic
<1>4. Joined(m, r, a, V, T)
  BY <1>2, <1>3, Layer DEF Memory
<1>5. E = S + 1 + Len(a)
  BY DEF AfterTo
<1>6. Terminator(d) = IF d.conv = NUL THEN Len(r) ELSE Len(m) + 1
  BY DEF Terminator
<1>7. d.after \in Seq(Char)
  BY <1>2, <1>3, SeqMonotonic
<1>8. \A c \in V : c \in Char /\ c # "%" /\ c # NUL
  BY CharAssumption
<1> HIDE DEF S, E, V, T, r, a, m
<1>9. /\ Len(a) \in Nat /\ Len(m) = Len(r) + Len(a)
      /\ \A i \in 1 .. Len(r) : m[i] = r[i]
      /\ \A i \in Len(r) + 1 .. Len(r) + Len(a) : m[i] \in V /\ m[i] = a[i - Len(r)]
  BY <1>4 DEF Joined
<1>10. E \in Nat /\ S + 1 <= E /\ Len(m) = E
  BY <1>1, <1>5, <1>9
<1>11. \A i \in S + 2 .. E : i \in Len(r) + 1 .. Len(r) + Len(a) /\ i - Len(r) = i - (S + 1)
  BY <1>1, <1>5, <1>9
<1>12. \A i \in S + 2 .. E : /\ m[i] = a[i - (S + 1)]
                            /\ m[i] \in Char /\ m[i] # "%" /\ m[i] # NUL
  BY <1>8, <1>9, <1>11
<1>13. \A i \in 1 .. S + 1 : m[i] = r[i]
  BY <1>1, <1>9
<1>14. Terminator(d) + (IF d.conv = NUL THEN 1 + Len(a) ELSE 0) = E + 1
  BY <1>1, <1>5, <1>6, <1>9
<1> QED
  BY <1>1, <1>5, <1>7, <1>9, <1>10, <1>12, <1>13, <1>14 DEF S, E, r, a, m

-----------------------------------------------------------------------------
(* The parser *)

ParserInv == ParserOK /\ InFormat

\* The places where the fields of the format end, and the character the parser
\* looks at, by its place.
LEMMA AtFacts ==
  ASSUME ParserInv
  PROVE  LET F == FlagsTo(dir)
             W == WidthTo(dir)
             D == PrecisionTo(dir)
             S == SizeTo(dir)
             E == AfterTo(dir)
         IN  /\ F \in Nat /\ W \in Nat /\ D \in Nat /\ S \in Nat /\ p \in Nat
             /\ E \in Nat /\ 3 <= F /\ F <= W /\ W <= D /\ D <= S /\ S + 1 <= E
             /\ 1 <= p /\ p <= E + 1
             /\ (dir.dot => W + 1 <= D) /\ (~dir.dot => D = W)
             /\ p = 1 => At = "t"
             /\ p = 2 => At = "\n"
             /\ p = 3 => At = "%"
             /\ p \in 4 .. F => At \in FlagChars /\ At = dir.flags[p - 3]
             /\ p \in F + 1 .. W => At \in Digits /\ At = dir.width[p - F]
             /\ dir.dot /\ p = W + 1 => At = "."
             /\ dir.dot /\ p \in W + 2 .. D => At \in Digits /\ At = dir.precision[p - (W + 1)]
             /\ p \in D + 1 .. S => At \in {"l", "z"} /\ At = dir.size[p - D]
             /\ p = S + 1 => At = dir.conv
             /\ p = S + 1 => At \notin FlagChars \cup Digits \cup {".", "l", "z"}
             /\ p \in S + 2 .. E => At \in Char /\ At # "%" /\ At # NUL
             /\ p \in S + 2 .. E => At = dir.after[p - (S + 1)]
             /\ p = E + 1 => At = NUL
<1> DEFINE r == Render(dir)
           m == Memory(dir)
           E == AfterTo(dir)
           F == FlagsTo(dir)
           W == WidthTo(dir)
           D == PrecisionTo(dir)
           S == SizeTo(dir)
<1>1. /\ dir \in Directives
      /\ p \in 1 .. Terminator(dir) + (IF dir.conv = NUL THEN 1 + Len(dir.after) ELSE 0)
  BY DEF ParserInv, ParserOK, InFormat
<1>2. /\ F \in Nat /\ W \in Nat /\ D \in Nat /\ S \in Nat
      /\ 3 <= F /\ F <= W /\ W <= D /\ D <= S
      /\ r[1] = "t" /\ r[2] = "\n" /\ r[3] = "%"
      /\ \A i \in 4 .. F : r[i] \in FlagChars /\ r[i] = dir.flags[i - 3]
      /\ \A i \in F + 1 .. W : r[i] \in Digits /\ r[i] = dir.width[i - F]
      /\ dir.dot => /\ W + 1 <= D /\ r[W + 1] = "."
                    /\ \A i \in W + 2 .. D : r[i] \in Digits /\ r[i] = dir.precision[i - (W + 1)]
      /\ ~dir.dot => D = W
      /\ \A i \in D + 1 .. S : r[i] \in {"l", "z"} /\ r[i] = dir.size[i - D]
      /\ r[S + 1] = dir.conv
  BY <1>1, RenderShape
<1>3. dir.conv \notin FlagChars \cup Digits \cup {".", "l", "z"}
  BY <1>1, DirectiveAssumption
<1>4. At = IF p <= Len(m) THEN m[p] ELSE NUL
  BY DEF At
<1>12. /\ E \in Nat /\ S + 1 <= E /\ Len(m) = E
       /\ \A i \in 1 .. S + 1 : m[i] = r[i]
       /\ \A i \in S + 2 .. E : /\ m[i] = dir.after[i - (S + 1)]
                               /\ m[i] \in Char /\ m[i] # "%" /\ m[i] # NUL
       /\ p \in 1 .. E + 1
  BY <1>1, MemoryShape
<1> HIDE DEF r, m, F, W, D, S, E
<1>5. p \in Nat /\ 1 <= p /\ p <= E + 1
  BY <1>12
<1>6. p <= S + 1 => At = r[p]
  BY <1>2, <1>4, <1>5, <1>12
<1>13. /\ p \in S + 2 .. E => At \in Char /\ At # "%" /\ At # NUL
       /\ p \in S + 2 .. E => At = dir.after[p - (S + 1)]
       /\ p = E + 1 => At = NUL
  BY <1>2, <1>4, <1>5, <1>12
<1>7. /\ p = 1 => At = "t"
      /\ p = 2 => At = "\n"
      /\ p = 3 => At = "%"
      /\ p \in 4 .. F => At \in FlagChars /\ At = dir.flags[p - 3]
      /\ p \in F + 1 .. W => At \in Digits /\ At = dir.width[p - F]
  BY <1>2, <1>5, <1>6
<1>8. /\ dir.dot /\ p = W + 1 => At = "."
      /\ dir.dot /\ p \in W + 2 .. D => At \in Digits /\ At = dir.precision[p - (W + 1)]
  BY <1>2, <1>5, <1>6
<1>9. /\ p \in D + 1 .. S => At \in {"l", "z"} /\ At = dir.size[p - D]
      /\ p = S + 1 => At = dir.conv
  BY <1>2, <1>5, <1>6
<1>10. p = S + 1 => At \notin FlagChars \cup Digits \cup {".", "l", "z"}
  BY <1>3, <1>9
<1>11. /\ F \in Nat /\ W \in Nat /\ D \in Nat /\ S \in Nat
       /\ 3 <= F /\ F <= W /\ W <= D /\ D <= S
       /\ (dir.dot => W + 1 <= D) /\ (~dir.dot => D = W)
       /\ E \in Nat /\ S + 1 <= E
  BY <1>2, <1>12
<1> QED
  BY <1>5, <1>7, <1>8, <1>9, <1>10, <1>11, <1>13 DEF F, W, D, S, E

\* A step of the parser to state s and place q.
LEMMA Arrives ==
  ASSUME ParserInv, NEW s, NEW q, dir' = dir, console' = console, st' = s, p' = q,
         s \in {"text", "flags", "width", "precision", "size", "spec", "done"},
         q \in Places(dir, s), q \in Nat, 1 <= q, q <= AfterTo(dir) + 1,
         spec' \in Spec_t, s = "precision" => dir.dot /\ spec'.precision \in Nat
  PROVE  ParserInv'
<1> DEFINE last == Terminator(dir) + (IF dir.conv = NUL THEN 1 + Len(dir.after) ELSE 0)
<1>3. dir \in Directives /\ console \in {"none", "ns16550", "pl011"}
  BY DEF ParserInv, ParserOK, InFormat
<1>1. AfterTo(dir) \in Nat /\ last = AfterTo(dir) + 1
  BY <1>3, MemoryShape
<1> HIDE DEF last
<1>2. q \in 1 .. last
  BY <1>1
<1> USE DEF last
<1> QED
  BY <1>2, <1>3 DEF ParserInv, ParserOK, InFormat

\* Where the parser is, from its state.
LEMMA PlaceFacts ==
  ASSUME ParserInv
  PROVE  /\ spec \in Spec_t
         /\ st = "text" => p \in {1, 2, 3} \/ p \in SizeTo(dir) + 2 .. AfterTo(dir) + 1
         /\ st = "flags" => p \in 4 .. WidthTo(dir) + 1
         /\ st = "width" => p \in FlagsTo(dir) + 1 .. WidthTo(dir) + 1
         /\ st = "precision" => /\ p \in WidthTo(dir) + 2 .. PrecisionTo(dir) + 1
                                /\ dir.dot /\ spec.precision \in Nat
         /\ st = "size" => p \in PrecisionTo(dir) + 1 .. SizeTo(dir) + 1
         /\ st = "spec" => p = SizeTo(dir) + 1
         /\ st = "done" => p = AfterTo(dir) + 1
BY DEF ParserInv, ParserOK, InFormat, Places

\* The classes of characters the loops test do not overlap, but for the zero.
LEMMA Classes ==
  /\ "t" \notin {"%", NUL} /\ "\n" \notin {"%", NUL} /\ "%" # NUL
  /\ NUL \notin FlagChars /\ NUL \notin Digits /\ NUL \notin {".", "l", "z"}
  /\ "." \notin FlagChars /\ "." \notin Digits
  /\ \A c \in {"l", "z"} : c \notin FlagChars /\ c \notin Digits /\ c # "."
  /\ \A c \in Digits : c # "." /\ c \notin {"l", "z"}
BY DigitValue DEF FlagChars, NUL

\* What follows the width is the dot, or a modifier or the conversion.
LEMMA WidthEnds ==
  ASSUME ParserInv, p = WidthTo(dir) + 1
  PROVE  At \notin FlagChars /\ At \notin Digits /\ (dir.dot \/ At # ".")
<1> DEFINE W == WidthTo(dir)
           D == PrecisionTo(dir)
           S == SizeTo(dir)
<1>1. /\ W \in Nat /\ D \in Nat /\ S \in Nat /\ D <= S /\ (~dir.dot => D = W)
      /\ dir.dot /\ p = W + 1 => At = "."
      /\ p \in D + 1 .. S => At \in {"l", "z"}
      /\ p = S + 1 => At \notin FlagChars \cup Digits \cup {".", "l", "z"}
  BY AtFacts
<1>2. p = W + 1
  OBVIOUS
<1> HIDE DEF W, D, S
<1>3. CASE dir.dot
  BY <1>1, <1>2, <1>3, Classes
<1>4. CASE ~dir.dot
  <2>1. p \in D + 1 .. S \/ p = S + 1
    BY <1>1, <1>2, <1>4
  <2> QED
    BY <1>1, <2>1, Classes
<1> QED
  BY <1>3, <1>4

\* The steps in the text: State 1, up to the '%' and after the conversion.
LEMMA TextSteps ==
  ASSUME ParserInv, Text \/ Percent \/ Convert \/ Finish
  PROVE  ParserInv'
<1> DEFINE S == SizeTo(dir)
           W == WidthTo(dir)
           E == AfterTo(dir)
<1>1. /\ S \in Nat /\ W \in Nat /\ E \in Nat /\ p \in Nat
      /\ 3 <= W /\ W <= S /\ S + 1 <= E /\ 1 <= p /\ p <= E + 1
      /\ (p = 1 => At = "t") /\ (p = 2 => At = "\n") /\ (p = 3 => At = "%")
      /\ p \in S + 2 .. E => At # "%" /\ At # NUL
      /\ p = E + 1 => At = NUL
  BY AtFacts
<1>2. /\ spec \in Spec_t /\ (st = "text" => p \in {1, 2, 3} \/ p \in S + 2 .. E + 1)
      /\ st = "spec" => p = S + 1
  BY PlaceFacts
<1> HIDE DEF S, W, E
<1>3. CASE Text
  <2>1. At \notin {"%", NUL} /\ (p \in {1, 2, 3} \/ p \in S + 2 .. E + 1)
    BY <1>2, <1>3 DEF Text, Parsing
  <2>2. p \in {1, 2} \/ p \in S + 2 .. E
    BY <1>1, <2>1
  <2>5. /\ p + 1 \in {1, 2, 3} \/ p + 1 \in S + 2 .. E + 1
        /\ p + 1 \in Nat /\ 1 <= p + 1 /\ p + 1 <= E + 1
    BY <1>1, <2>2
  <2>3. p + 1 \in Places(dir, "text") /\ p + 1 \in Nat /\ 1 <= p + 1 /\ p + 1 <= E + 1
    BY <2>5 DEF Places, S, E
  <2>4. dir' = dir /\ console' = console /\ st' = "text" /\ p' = p + 1 /\ spec' = spec
    BY <1>3 DEF Text, Step
  <2> QED
    BY <1>2, <2>3, <2>4, Arrives DEF E
<1>4. CASE Percent
  <2>1. At = "%" /\ (p \in {1, 2, 3} \/ p \in S + 2 .. E + 1)
    BY <1>2, <1>4 DEF Percent, Parsing
  <2>2. p = 3
    BY <1>1, <2>1, Classes
  <2>3. p + 1 \in Nat /\ 1 <= p + 1 /\ p + 1 <= E + 1 /\ p + 1 \in 4 .. W + 1
    BY <1>1, <2>2
  <2>4. p + 1 \in Places(dir, "flags")
    BY <2>3 DEF Places, W
  <2>5. dir' = dir /\ console' = console /\ st' = "flags" /\ p' = p + 1 /\ spec' = NoSpec
    BY <1>4 DEF Percent, Step
  <2>6. NoSpec \in Spec_t
    BY DEF NoSpec, Spec_t
  <2> QED
    BY <2>3, <2>4, <2>5, <2>6, Arrives DEF E
<1>5. CASE Convert
  <2>1. p = S + 1
    BY <1>2, <1>5 DEF Convert, Parsing
  <2>2. p + 1 \in S + 2 .. E + 1 /\ p + 1 \in Nat /\ 1 <= p + 1 /\ p + 1 <= E + 1
    BY <1>1, <2>1
  <2>3. p + 1 \in Places(dir, "text")
    BY <2>2 DEF Places, S, E
  <2>4. dir' = dir /\ console' = console /\ st' = "text" /\ p' = p + 1 /\ spec' = spec
    BY <1>5 DEF Convert, Step
  <2> QED
    BY <1>2, <2>2, <2>3, <2>4, Arrives DEF E
<1>6. CASE Finish
  <2>1. At = NUL /\ (p \in {1, 2, 3} \/ p \in S + 2 .. E + 1)
    BY <1>2, <1>6 DEF Finish, Parsing
  <2>2. p = E + 1
    BY <1>1, <2>1, Classes
  <2>3. p \in Places(dir, "done")
    BY <2>2 DEF Places, E
  <2>4. dir' = dir /\ console' = console /\ st' = "done" /\ p' = p /\ spec' = spec
    BY <1>6 DEF Finish
  <2> QED
    BY <1>1, <1>2, <2>3, <2>4, Arrives DEF E
<1> QED
  BY <1>3, <1>4, <1>5, <1>6

\* The steps over the flags and the width: States 2 and 3.
LEMMA WidthSteps ==
  ASSUME ParserInv, Flag \/ FlagsEnd \/ Width \/ Dot \/ NoDot
  PROVE  ParserInv'
<1> DEFINE F == FlagsTo(dir)
           W == WidthTo(dir)
           D == PrecisionTo(dir)
           S == SizeTo(dir)
           E == AfterTo(dir)
<1>1. /\ F \in Nat /\ W \in Nat /\ D \in Nat /\ S \in Nat /\ E \in Nat /\ p \in Nat
      /\ 3 <= F /\ F <= W /\ W <= D /\ D <= S /\ S + 1 <= E /\ 1 <= p /\ p <= E + 1
      /\ (dir.dot => W + 1 <= D) /\ (~dir.dot => D = W)
  BY AtFacts
<1>2. /\ p \in 4 .. F => At \in FlagChars
      /\ p \in F + 1 .. W => At \in Digits
      /\ dir.dot /\ p = W + 1 => At = "."
      /\ p \in D + 1 .. S => At \in {"l", "z"}
      /\ p = S + 1 => At \notin FlagChars \cup Digits \cup {".", "l", "z"}
  BY AtFacts
<1>3. /\ spec \in Spec_t /\ (st = "flags" => p \in 4 .. W + 1)
      /\ st = "width" => p \in F + 1 .. W + 1
  BY PlaceFacts
<1> HIDE DEF F, W, D, S, E
<1>4. p = W + 1 => At \notin FlagChars /\ At \notin Digits /\ (dir.dot \/ At # ".")
  BY WidthEnds DEF W
<1>5. CASE Flag
  <2>1. At \in FlagChars /\ p \in 4 .. W + 1
    BY <1>3, <1>5 DEF Flag, Parsing
  <2>2. p # W + 1
    BY <1>4, <2>1
  <2>3. p + 1 \in Nat /\ 1 <= p + 1 /\ p + 1 <= E + 1 /\ p + 1 \in 4 .. W + 1
    BY <1>1, <2>1, <2>2
  <2>4. p + 1 \in Places(dir, "flags")
    BY <2>3 DEF Places, W
  <2>5. dir' = dir /\ console' = console /\ st' = "flags" /\ p' = p + 1
    BY <1>5 DEF Flag, Step
  <2>6. spec' \in Spec_t
    BY <1>3, <1>5, <2>1 DEF Flag, Spec_t
  <2> QED
    BY <2>3, <2>4, <2>5, <2>6, Arrives DEF E
<1>6. CASE FlagsEnd
  <2>1. At \notin FlagChars /\ p \in 4 .. W + 1
    BY <1>3, <1>6 DEF FlagsEnd, Parsing
  <2>2. p \in F + 1 .. W + 1
    BY <1>1, <1>2, <2>1
  <2>3. p \in Places(dir, "width")
    BY <2>2 DEF Places, F, W
  <2>4. dir' = dir /\ console' = console /\ st' = "width" /\ p' = p /\ spec' = spec
    BY <1>6 DEF FlagsEnd, Stay
  <2> QED
    BY <1>1, <1>3, <2>3, <2>4, Arrives DEF E
<1>7. CASE Width
  <2>1. At \in Digits /\ p \in F + 1 .. W + 1
    BY <1>3, <1>7 DEF Width, Parsing
  <2>2. p # W + 1
    BY <1>4, <2>1
  <2>3. p + 1 \in Nat /\ 1 <= p + 1 /\ p + 1 <= E + 1 /\ p + 1 \in F + 1 .. W + 1
    BY <1>1, <2>1, <2>2
  <2>4. p + 1 \in Places(dir, "width")
    BY <2>3 DEF Places, F, W
  <2>5. dir' = dir /\ console' = console /\ st' = "width" /\ p' = p + 1
    BY <1>7 DEF Width, Step
  <2>6. spec' \in Spec_t
    <3>1. spec.width \in Nat /\ DigitOf(At) \in Nat
      BY <1>3, <2>1, DigitValue DEF Spec_t
    <3>2. 10 * spec.width + DigitOf(At) \in Nat
      BY <3>1
    <3> QED
      BY <1>3, <1>7, <3>2 DEF Width, Spec_t
  <2> QED
    BY <2>3, <2>4, <2>5, <2>6, Arrives DEF E
<1>8. CASE Dot
  <2>1. At = "." /\ p \in F + 1 .. W + 1
    BY <1>3, <1>8 DEF Dot, Parsing
  <2>2. p = W + 1
    <3>1. p \notin F + 1 .. W
      BY <1>2, <2>1, Classes
    <3> QED
      BY <1>1, <2>1, <3>1
  <2>3. dir.dot
    BY <1>4, <2>1, <2>2
  <2>4. p + 1 \in Nat /\ 1 <= p + 1 /\ p + 1 <= E + 1 /\ p + 1 \in W + 2 .. D + 1
    BY <1>1, <2>2, <2>3
  <2>5. p + 1 \in Places(dir, "precision")
    BY <2>4 DEF Places, W, D
  <2>6. dir' = dir /\ console' = console /\ st' = "precision" /\ p' = p + 1
    BY <1>8 DEF Dot, Step
  <2>7. spec' \in Spec_t /\ spec'.precision \in Nat
    BY <1>3, <1>8 DEF Dot, Spec_t
  <2> QED
    BY <2>3, <2>4, <2>5, <2>6, <2>7, Arrives DEF E
<1>9. CASE NoDot
  <2>1. At \notin Digits \cup {"."} /\ p \in F + 1 .. W + 1
    BY <1>3, <1>9 DEF NoDot, Parsing
  <2>2. p = W + 1
    BY <1>1, <1>2, <2>1
  <2>3. ~dir.dot
    BY <1>2, <2>1, <2>2
  <2>4. p \in D + 1 .. S + 1
    BY <1>1, <2>2, <2>3
  <2>5. p \in Places(dir, "size")
    BY <2>4 DEF Places, D, S
  <2>6. dir' = dir /\ console' = console /\ st' = "size" /\ p' = p /\ spec' = spec
    BY <1>9 DEF NoDot, Stay
  <2> QED
    BY <1>1, <1>3, <2>5, <2>6, Arrives DEF E
<1> QED
  BY <1>5, <1>6, <1>7, <1>8, <1>9

\* The steps over the precision and the size modifiers: State 4 and the rest of 3.
LEMMA SizeSteps ==
  ASSUME ParserInv, Precision \/ PrecisionEnd \/ Size \/ SizeEnd
  PROVE  ParserInv'
<1> DEFINE W == WidthTo(dir)
           D == PrecisionTo(dir)
           S == SizeTo(dir)
           E == AfterTo(dir)
<1>1. /\ W \in Nat /\ D \in Nat /\ S \in Nat /\ E \in Nat /\ p \in Nat
      /\ W <= D /\ D <= S /\ S + 1 <= E /\ 1 <= p /\ p <= E + 1
  BY AtFacts
<1>2. /\ dir.dot /\ p \in W + 2 .. D => At \in Digits
      /\ p \in D + 1 .. S => At \in {"l", "z"}
      /\ p = S + 1 => At \notin FlagChars \cup Digits \cup {".", "l", "z"}
  BY AtFacts
<1>3. /\ spec \in Spec_t
      /\ st = "precision" => p \in W + 2 .. D + 1 /\ dir.dot /\ spec.precision \in Nat
      /\ st = "size" => p \in D + 1 .. S + 1
  BY PlaceFacts
<1> HIDE DEF W, D, S, E
<1>4. CASE Precision
  <2>1. At \in Digits /\ p \in W + 2 .. D + 1 /\ dir.dot /\ spec.precision \in Nat
    BY <1>3, <1>4 DEF Precision, Parsing
  <2>2. p # D + 1
    <3>1. p = D + 1 => p \in D + 1 .. S \/ p = S + 1
      BY <1>1
    <3> QED
      BY <1>2, <2>1, <3>1, Classes
  <2>3. p + 1 \in Nat /\ 1 <= p + 1 /\ p + 1 <= E + 1 /\ p + 1 \in W + 2 .. D + 1
    BY <1>1, <2>1, <2>2
  <2>4. p + 1 \in Places(dir, "precision")
    BY <2>3 DEF Places, W, D
  <2>5. dir' = dir /\ console' = console /\ st' = "precision" /\ p' = p + 1
    BY <1>4 DEF Precision, Step
  <2>6. spec' \in Spec_t /\ spec'.precision \in Nat
    <3>1. DigitOf(At) \in Nat
      BY <2>1, DigitValue
    <3>2. 10 * spec.precision + DigitOf(At) \in Nat
      BY <2>1, <3>1
    <3> QED
      BY <1>3, <1>4, <3>2 DEF Precision, Spec_t
  <2> QED
    BY <2>1, <2>3, <2>4, <2>5, <2>6, Arrives DEF E
<1>5. CASE PrecisionEnd
  <2>1. At \notin Digits /\ p \in W + 2 .. D + 1 /\ dir.dot
    BY <1>3, <1>5 DEF PrecisionEnd, Parsing
  <2>2. p \in D + 1 .. S + 1
    BY <1>1, <1>2, <2>1
  <2>3. p \in Places(dir, "size")
    BY <2>2 DEF Places, D, S
  <2>4. dir' = dir /\ console' = console /\ st' = "size" /\ p' = p /\ spec' = spec
    BY <1>5 DEF PrecisionEnd, Stay
  <2> QED
    BY <1>1, <1>3, <2>3, <2>4, Arrives DEF E
<1>6. CASE Size
  <2>1. At \in {"l", "z"} /\ p \in D + 1 .. S + 1
    BY <1>3, <1>6 DEF Size, Parsing
  <2>2. p # S + 1
    BY <1>2, <2>1
  <2>3. p + 1 \in Nat /\ 1 <= p + 1 /\ p + 1 <= E + 1 /\ p + 1 \in D + 1 .. S + 1
    BY <1>1, <2>1, <2>2
  <2>4. p + 1 \in Places(dir, "size")
    BY <2>3 DEF Places, D, S
  <2>5. dir' = dir /\ console' = console /\ st' = "size" /\ p' = p + 1
    BY <1>6 DEF Size, Step
  <2>6. spec' \in Spec_t
    <3>1. spec.is_long + 1 \in Nat
      BY <1>3 DEF Spec_t
    <3>2. CASE At = "l"
      BY <1>3, <1>6, <3>1, <3>2 DEF Size, Spec_t
    <3>3. CASE At # "l"
      BY <1>3, <1>6, <3>3 DEF Size, Spec_t
    <3> QED
      BY <3>2, <3>3
  <2> QED
    BY <2>3, <2>4, <2>5, <2>6, Arrives DEF E
<1>7. CASE SizeEnd
  <2>1. At \notin {"l", "z"} /\ p \in D + 1 .. S + 1
    BY <1>3, <1>7 DEF SizeEnd, Parsing
  <2>2. p = S + 1
    BY <1>1, <1>2, <2>1
  <2>3. p \in Places(dir, "spec")
    BY <2>2 DEF Places, S
  <2>4. dir' = dir /\ console' = console /\ st' = "spec" /\ p' = p /\ spec' = spec
    BY <1>7 DEF SizeEnd, Stay
  <2> QED
    BY <1>1, <1>3, <2>3, <2>4, Arrives DEF E
<1> QED
  BY <1>4, <1>5, <1>6, <1>7

\* The parser starts at the start of the format,
LEMMA ParserInit ==
  ASSUME Init
  PROVE  ParserInv
<1>1. dir \in Directives /\ console \in {"none", "ns16550", "pl011"}
      /\ p = 1 /\ st = "text" /\ spec = NoSpec
  BY DEF Init
<1> DEFINE last == Terminator(dir) + (IF dir.conv = NUL THEN 1 + Len(dir.after) ELSE 0)
<1>2. AfterTo(dir) \in Nat /\ last = AfterTo(dir) + 1
  BY <1>1, MemoryShape
<1> HIDE DEF last
<1>3. 1 \in 1 .. last
  BY <1>2
<1> USE DEF last
<1>4. NoSpec \in Spec_t
  BY DEF NoSpec, Spec_t
<1> QED
  BY <1>1, <1>3, <1>4 DEF ParserInv, ParserOK, InFormat, Places

\* and every step keeps it in place.
LEMMA ParserNext ==
  ASSUME ParserInv, [Next]_vars
  PROVE  ParserInv'
<1>1. CASE Text \/ Percent \/ Convert \/ Finish
  BY <1>1, TextSteps
<1>2. CASE Flag \/ FlagsEnd \/ Width \/ Dot \/ NoDot
  BY <1>2, WidthSteps
<1>3. CASE Precision \/ PrecisionEnd \/ Size \/ SizeEnd
  BY <1>3, SizeSteps
<1>4. CASE UNCHANGED <<dir, console, p, st, spec>>
  BY <1>4 DEF ParserInv, ParserOK, InFormat
<1>5. PutChar \/ Send \/ Drain \/ Rest \/ UNCHANGED vars
        => UNCHANGED <<dir, console, p, st, spec>>
  BY DEF PutChar, Send, Drain, Rest, vars
<1> QED
  BY <1>1, <1>2, <1>3, <1>4, <1>5 DEF Next, PrintkStep

\* The parser never passes the terminating NUL of the format, unless the format
\* ends inside the directive, and then it stops at the next NUL behind it; its
\* fields keep their ranges, and each of its loops stops where the directive's
\* field ends, so that State 5 of printk reads the conversion, or the NUL in
\* its place.
THEOREM ParserStaysInFormat == Spec => [](ParserOK /\ InFormat)
<1>1. Init => ParserInv
  BY ParserInit
<1>2. ParserInv /\ [Next]_vars => ParserInv'
  BY ParserNext
<1> QED
  BY <1>1, <1>2, PTL DEF Spec, ParserInv

-----------------------------------------------------------------------------
(* The wire *)

IsSeq(s) == \E S : s \in Seq(S)

WireInv == IsSeq(todo) /\ IsSeq(wire) /\ ReturnsPending /\ NewlinesReturn

\* console_putc hands a newline over behind a carriage return.
LEMMA PutFacts ==
  ASSUME NEW c
  PROVE  /\ IsSeq(console_putc(c))
         /\ \A i \in DOMAIN console_putc(c) :
              console_putc(c)[i] = "\n" => i > 1 /\ console_putc(c)[i - 1] = "\r"
<1>1. put_char("\r") = <<"\r">>
  BY DEF put_char
<1>2. CASE c # "\n"
  <2>1. console_putc(c) = << >> \o <<c>>
    BY <1>2 DEF console_putc, put_char
  <2>2. << >> \o <<c>> = <<c>>
    OBVIOUS
  <2> DEFINE w == <<c>>
  <2>3. w \in Seq({c}) /\ DOMAIN w = 1 .. 1 /\ w[1] = c
    OBVIOUS
  <2>4. console_putc(c) = w
    BY <2>1, <2>2
  <2> HIDE DEF w
  <2>5. IsSeq(w) /\ \A i \in DOMAIN w : w[i] # "\n"
    BY <1>2, <2>3 DEF IsSeq
  <2> QED
    BY <2>4, <2>5
<1>3. CASE c = "\n" /\ console # "pl011"
  <2>1. console_putc(c) = <<"\r">> \o <<"\n">>
    BY <1>1, <1>3 DEF console_putc, put_char
  <2> DEFINE w == <<"\r">> \o <<"\n">>
  <2>2. w \in Seq({"\r", "\n"}) /\ Len(w) = 2 /\ w[1] = "\r" /\ w[2] = "\n"
    OBVIOUS
  <2>3. console_putc(c) = w
    BY <2>1
  <2> HIDE DEF w
  <2>4. DOMAIN w = 1 .. Len(w)
    BY <2>2, LenProperties
  <2>5. IsSeq(w) /\ \A i \in DOMAIN w : w[i] = "\n" => i > 1 /\ w[i - 1] = "\r"
    BY <2>2, <2>4 DEF IsSeq
  <2> QED
    BY <2>3, <2>5
<1>4. CASE c = "\n" /\ console = "pl011"
  <2>1. console_putc(c) = <<"\r">> \o <<"\r", "\n">>
    BY <1>1, <1>4 DEF console_putc, put_char
  <2> DEFINE w == <<"\r">> \o <<"\r", "\n">>
  <2>2. /\ w \in Seq({"\r", "\n"}) /\ Len(w) = 3
        /\ w[1] = "\r" /\ w[2] = "\r" /\ w[3] = "\n"
    OBVIOUS
  <2>3. console_putc(c) = w
    BY <2>1
  <2> HIDE DEF w
  <2>4. DOMAIN w = 1 .. Len(w)
    BY <2>2, LenProperties
  <2>5. IsSeq(w) /\ \A i \in DOMAIN w : w[i] = "\n" => i > 1 /\ w[i - 1] = "\r"
    BY <2>2, <2>4 DEF IsSeq
  <2> QED
    BY <2>3, <2>5
<1> QED
  BY <1>2, <1>3, <1>4

\* The wait of put_char ends: the first character goes to the holding register.
LEMMA SendStep ==
  ASSUME WireInv, Send
  PROVE  WireInv'
<1>1. PICK S : todo \in Seq(S)
  BY DEF WireInv, IsSeq
<1>2. /\ thr = Idle /\ todo # << >> /\ thr' = Head(todo) /\ todo' = Tail(todo) /\ wire' = wire
  BY DEF Send
<1>3. /\ Len(todo) \in Nat /\ Len(todo) >= 1 /\ DOMAIN todo = 1 .. Len(todo)
      /\ Head(todo) = todo[1] /\ Tail(todo) \in Seq(S)
      /\ DOMAIN Tail(todo) = 1 .. Len(todo) - 1
      /\ \A i \in 1 .. Len(todo) - 1 : Tail(todo)[i] = todo[i + 1]
  BY <1>1, <1>2, HeadTailProperties, LenProperties, EmptySeq
<1>4. \A i \in DOMAIN todo : todo[i] = "\n" =>
        IF i > 1 THEN todo[i - 1] = "\r" ELSE LastIs(wire, "\r")
  BY <1>2 DEF WireInv, ReturnsPending
<1>5. thr' = "\n" => LastIs(wire, "\r")
  <2>1. 1 \in DOMAIN todo /\ ~(1 > 1)
    BY <1>3
  <2>2. todo[1] = "\n" => LastIs(wire, "\r")
    BY <1>4, <2>1
  <2> QED
    BY <1>2, <1>3, <2>2
<1>6. ASSUME NEW i \in DOMAIN todo', todo'[i] = "\n"
      PROVE  IF i > 1 THEN todo'[i - 1] = "\r" ELSE thr' = "\r"
  <2>1. i \in 1 .. Len(todo) - 1 /\ todo[i + 1] = "\n"
    BY <1>2, <1>3, <1>6
  <2>2. i + 1 \in DOMAIN todo /\ i + 1 > 1 /\ (i + 1) - 1 = i
    BY <1>3, <2>1
  <2>3. todo[i] = "\r"
    BY <1>4, <2>1, <2>2
  <2>4. CASE i > 1
    <3>1. i - 1 \in 1 .. Len(todo) - 1 /\ (i - 1) + 1 = i
      BY <1>3, <2>1, <2>4
    <3>2. todo'[i - 1] = todo[(i - 1) + 1]
      BY <1>2, <1>3, <3>1
    <3> QED
      BY <2>3, <2>4, <3>1, <3>2
  <2>5. CASE ~(i > 1)
    <3>1. i = 1
      BY <2>1, <2>5
    <3> QED
      BY <1>2, <1>3, <2>3, <2>5, <3>1
  <2> QED
    BY <2>4, <2>5
<1>7. "\r" # Idle
  BY DEF Idle
<1>8. ReturnsPending'
  <2>1. (thr = "\n" => LastIs(wire, "\r"))'
    BY <1>2, <1>5 DEF LastIs
  <2>2. ASSUME NEW i \in DOMAIN todo', todo'[i] = "\n"
        PROVE  IF i > 1 THEN todo'[i - 1] = "\r"
               ELSE IF thr' # Idle THEN thr' = "\r" ELSE LastIs(wire', "\r")
    BY <1>6, <1>7, <2>2
  <2> QED
    BY <2>1, <2>2 DEF ReturnsPending
<1>9. IsSeq(todo') /\ IsSeq(wire') /\ NewlinesReturn'
  BY <1>2, <1>3 DEF WireInv, IsSeq, NewlinesReturn
<1> QED
  BY <1>8, <1>9 DEF WireInv

\* The UART sends the character of the holding register.
LEMMA DrainStep ==
  ASSUME WireInv, Drain
  PROVE  WireInv'
<1>1. PICK S : wire \in Seq(S)
  BY DEF WireInv, IsSeq
<1>2. thr # Idle /\ wire' = Append(wire, thr) /\ thr' = Idle /\ todo' = todo
  BY DEF Drain
<1> DEFINE U == S \cup {thr}
<1>3. wire \in Seq(U) /\ thr \in U
  <2>1. S \subseteq U /\ thr \in U
    OBVIOUS
  <2> QED
    BY <1>1, <2>1, SeqMonotonic
<1> HIDE DEF U
<1>4. /\ Len(wire) \in Nat /\ DOMAIN wire = 1 .. Len(wire)
      /\ wire' \in Seq(U) /\ Len(wire') = Len(wire) + 1
      /\ DOMAIN wire' = 1 .. Len(wire) + 1
      /\ \A i \in 1 .. Len(wire) : wire'[i] = wire[i]
      /\ wire'[Len(wire) + 1] = thr
  BY <1>2, <1>3, AppendProperties, LenProperties
<1>5. wire' # << >> /\ wire'[Len(wire')] = thr
  BY <1>4, EmptySeq
<1>6. ASSUME NEW i \in DOMAIN wire', wire'[i] = "\n"
      PROVE  i > 1 /\ wire'[i - 1] = "\r"
  <2>1. CASE i \in 1 .. Len(wire)
    <3>1. wire[i] = "\n" /\ i \in DOMAIN wire
      BY <1>4, <1>6, <2>1
    <3>2. i > 1 /\ wire[i - 1] = "\r"
      BY <3>1 DEF WireInv, NewlinesReturn
    <3>3. i - 1 \in 1 .. Len(wire)
      BY <1>4, <2>1, <3>2
    <3> QED
      BY <1>4, <3>2, <3>3
  <2>2. CASE i = Len(wire) + 1
    <3>1. thr = "\n"
      BY <1>4, <1>6, <2>2
    <3>2. wire # << >> /\ wire[Len(wire)] = "\r"
      BY <3>1 DEF WireInv, ReturnsPending, LastIs
    <3>3. Len(wire) >= 1
      BY <1>1, <1>4, <3>2, EmptySeq
    <3>4. Len(wire) \in 1 .. Len(wire) /\ i > 1 /\ i - 1 = Len(wire)
      BY <1>4, <2>2, <3>3
    <3> QED
      BY <1>4, <3>2, <3>4
  <2> QED
    BY <1>4, <2>1, <2>2
<1>7. ReturnsPending'
  <2>1. Idle # "\n"
    BY DEF Idle
  <2>2. ASSUME NEW i \in DOMAIN todo', todo'[i] = "\n"
        PROVE  IF i > 1 THEN todo'[i - 1] = "\r"
               ELSE IF thr' # Idle THEN thr' = "\r" ELSE LastIs(wire', "\r")
    <3>1. IF i > 1 THEN todo[i - 1] = "\r" ELSE thr = "\r"
      BY <1>2, <2>2 DEF WireInv, ReturnsPending
    <3> QED
      BY <1>2, <1>5, <3>1 DEF LastIs
  <2> QED
    BY <1>2, <2>1, <2>2 DEF ReturnsPending
<1>8. IsSeq(todo') /\ IsSeq(wire')
  BY <1>2, <1>4 DEF WireInv, IsSeq
<1> QED
  BY <1>6, <1>7, <1>8 DEF WireInv, NewlinesReturn

\* console_putc and the drivers: whatever the format, the arguments and the
\* driver, a newline on the wire follows a carriage return.
THEOREM NewlinesAlwaysReturn == Spec => []NewlinesReturn
<1>1. Init => WireInv
  <2>1. << >> \in Seq({}) /\ DOMAIN << >> = {} /\ Idle # "\n"
    BY DEF Idle
  <2> QED
    BY <2>1 DEF Init, WireInv, IsSeq, ReturnsPending, NewlinesReturn
<1>2. WireInv /\ [Next]_vars => WireInv'
  <2> SUFFICES ASSUME WireInv, [Next]_vars PROVE WireInv'
    OBVIOUS
  <2>1. CASE PutChar
    <3>1. /\ thr' = thr /\ wire' = wire /\ IsSeq(todo')
          /\ \A i \in DOMAIN todo' : todo'[i] = "\n" => i > 1 /\ todo'[i - 1] = "\r"
      BY <2>1, PutFacts DEF PutChar
    <3> QED
      BY <3>1 DEF WireInv, ReturnsPending, NewlinesReturn, LastIs
  <2>2. CASE Send
    BY <2>2, SendStep
  <2>3. CASE Drain
    BY <2>3, DrainStep
  <2>4. CASE UNCHANGED <<todo, thr, wire>>
    BY <2>4 DEF WireInv, ReturnsPending, NewlinesReturn, LastIs
  <2>5. Text \/ Percent \/ Flag \/ FlagsEnd \/ Width \/ Dot \/ NoDot
          => UNCHANGED <<todo, thr, wire>>
    BY DEF Text, Percent, Flag, FlagsEnd, Width, Dot, NoDot, Step, Stay
  <2>6. Precision \/ PrecisionEnd \/ Size \/ SizeEnd \/ Convert \/ Finish \/ Rest
          \/ UNCHANGED vars => UNCHANGED <<todo, thr, wire>>
    BY DEF Precision, PrecisionEnd, Size, SizeEnd, Convert, Finish, Rest, vars, Step, Stay
  <2> QED
    BY <2>1, <2>2, <2>3, <2>4, <2>5, <2>6 DEF Next, PrintkStep
<1>3. WireInv => NewlinesReturn
  BY DEF WireInv
<1> QED
  BY <1>1, <1>2, <1>3, PTL DEF Spec

-----------------------------------------------------------------------------
(* What the parser reads *)

Fields(f, w, q, l, z) ==
  [flags |-> f, width |-> w, precision |-> q, is_long |-> l, is_size_t |-> z]

\* The first k characters of a field, as the parser keeps them.
FlagsRead(d, k)  == {d.flags[i] : i \in 1 .. k}
DigitsRead(s, k) == NumberOf(SubSeq(s, 1, k))
LongRead(d, k)   == IF k > 0 /\ d.size[1] = "l" THEN k ELSE 0
SizetRead(d, k)  == k > 0 /\ d.size[1] = "z"
PrecisionOf(d)   == IF d.dot THEN NumberOf(d.precision) ELSE -1

\* What spec is in a state of the parser and at a place of the format.
Reads(d, s, q, v) ==
  /\ s = "flags" => q <= FlagsTo(d) + 1 /\ v = Fields(FlagsRead(d, q - 4), 0, -1, 0, FALSE)
  /\ s = "width" =>
       v = Fields(Range(d.flags), DigitsRead(d.width, q - (FlagsTo(d) + 1)), -1, 0, FALSE)
  /\ s = "precision" =>
       v = Fields(Range(d.flags), NumberOf(d.width),
                  DigitsRead(d.precision, q - (WidthTo(d) + 2)), 0, FALSE)
  /\ s = "size" =>
       v = Fields(Range(d.flags), NumberOf(d.width), PrecisionOf(d),
                  LongRead(d, q - (PrecisionTo(d) + 1)), SizetRead(d, q - (PrecisionTo(d) + 1)))
  /\ s = "spec" => v = FinalSpec(d)

SpecInv == Agreed(dir) => Reads(dir, st, p, spec)

\* The fields of a directive ISO C defines.
LEMMA AgreedFields ==
  ASSUME NEW d \in Directives, Agreed(d)
  PROVE  /\ d.width # << >> => d.width[1] # "0"
         /\ Len(d.size) \in Nat
         /\ \A j \in 1 .. Len(d.size) : d.size[j] = d.size[1] /\ d.size[j] \in {"l", "z"}
         /\ Len(d.size) > 0 /\ d.size[1] = "z" => Len(d.size) = 1
         /\ FinalSpec(d) = Fields(Range(d.flags), NumberOf(d.width), PrecisionOf(d),
                                  LongRead(d, Len(d.size)), SizetRead(d, Len(d.size)))
<1>1. /\ d.width # << >> => d.width[1] # "0"
      /\ d.size \in {<< >>, <<"l">>, <<"z">>, <<"l", "l">>}
  BY DEF Agreed
<1>2. FinalSpec(d) = Fields(Range(d.flags), NumberOf(d.width), PrecisionOf(d),
                            IF d.size = <<"l">> THEN 1 ELSE IF d.size = <<"l", "l">> THEN 2 ELSE 0,
                            d.size = <<"z">>)
  BY DEF FinalSpec, Fields, PrecisionOf
<1>3. Len(<< >>) = 0 /\ Len(<<"l">>) = 1 /\ Len(<<"z">>) = 1 /\ Len(<<"l", "l">>) = 2
  OBVIOUS
<1>4. <<"l">>[1] = "l" /\ <<"z">>[1] = "z" /\ <<"l", "l">>[1] = "l" /\ <<"l", "l">>[2] = "l"
  OBVIOUS
<1>5. /\ << >> # <<"l">> /\ << >> # <<"z">> /\ << >> # <<"l", "l">>
      /\ <<"l">> # <<"z">> /\ <<"l">> # <<"l", "l">> /\ <<"z">> # <<"l", "l">>
  BY <1>3, <1>4
<1> DEFINE L == IF d.size = <<"l">> THEN 1 ELSE IF d.size = <<"l", "l">> THEN 2 ELSE 0
           n == Len(d.size)
           R == /\ n \in Nat
                /\ \A j \in 1 .. n : d.size[j] = d.size[1] /\ d.size[j] \in {"l", "z"}
                /\ n > 0 /\ d.size[1] = "z" => n = 1
                /\ L = LongRead(d, n)
                /\ d.size = <<"z">> <=> SizetRead(d, n)
<1>6. R
  <2>1. CASE d.size = << >>
    <3>1. n = 0 /\ L = 0
      BY <1>3, <1>4, <1>5, <2>1
    <3>2. d.size # <<"z">>
      BY <1>5, <2>1
    <3> HIDE DEF n, L
    <3>3. LongRead(d, n) = L /\ n \in Nat
      BY <3>1 DEF LongRead
    <3>4. ~SizetRead(d, n)
      BY <3>1 DEF SizetRead
    <3>5. \A j \in 1 .. n : d.size[j] = d.size[1] /\ d.size[j] \in {"l", "z"}
      BY <3>1
    <3>6. n > 0 /\ d.size[1] = "z" => n = 1
      BY <3>1
    <3> QED
      BY <3>2, <3>3, <3>4, <3>5, <3>6
  <2>2. CASE d.size = <<"l">>
    <3>1. n = 1 /\ L = 1 /\ d.size[1] = "l"
      BY <1>3, <1>4, <1>5, <2>2
    <3>2. d.size # <<"z">>
      BY <1>5, <2>2
    <3> HIDE DEF n, L
    <3>3. LongRead(d, n) = L /\ n \in Nat
      BY <3>1 DEF LongRead
    <3>4. ~SizetRead(d, n)
      BY <3>1 DEF SizetRead
    <3>5. \A j \in 1 .. n : d.size[j] = d.size[1] /\ d.size[j] \in {"l", "z"}
      BY <3>1
    <3>6. n > 0 /\ d.size[1] = "z" => n = 1
      BY <3>1
    <3> QED
      BY <3>2, <3>3, <3>4, <3>5, <3>6
  <2>3. CASE d.size = <<"z">>
    <3>1. n = 1 /\ L = 0 /\ d.size[1] = "z"
      BY <1>3, <1>4, <1>5, <2>3
    <3>2. d.size = <<"z">>
      BY <1>5, <2>3
    <3> HIDE DEF n, L
    <3>3. LongRead(d, n) = L /\ n \in Nat
      BY <3>1 DEF LongRead
    <3>4. SizetRead(d, n)
      BY <3>1 DEF SizetRead
    <3>5. \A j \in 1 .. n : d.size[j] = d.size[1] /\ d.size[j] \in {"l", "z"}
      BY <3>1
    <3>6. n > 0 /\ d.size[1] = "z" => n = 1
      BY <3>1
    <3> QED
      BY <3>2, <3>3, <3>4, <3>5, <3>6
  <2>4. CASE d.size = <<"l", "l">>
    <3>1. n = 2 /\ L = 2 /\ d.size[1] = "l" /\ d.size[2] = "l"
      BY <1>3, <1>4, <1>5, <2>4
    <3>2. d.size # <<"z">>
      BY <1>5, <2>4
    <3> HIDE DEF n, L
    <3>3. LongRead(d, n) = L /\ n \in Nat
      BY <3>1 DEF LongRead
    <3>4. ~SizetRead(d, n)
      BY <3>1 DEF SizetRead
    <3>5. \A j \in 1 .. n : d.size[j] = d.size[1] /\ d.size[j] \in {"l", "z"}
      BY <3>1
    <3>6. n > 0 /\ d.size[1] = "z" => n = 1
      BY <3>1
    <3> QED
      BY <3>2, <3>3, <3>4, <3>5, <3>6
  <2> HIDE DEF R
  <2> QED
    BY <1>1, <2>1, <2>2, <2>3, <2>4
<1>7. (d.size = <<"z">>) = SizetRead(d, n)
  BY <1>6 DEF SizetRead
<1> HIDE DEF L
<1>8. FinalSpec(d) = Fields(Range(d.flags), NumberOf(d.width), PrecisionOf(d),
                            LongRead(d, n), SizetRead(d, n))
  BY <1>2, <1>6, <1>7, Zenon DEF L
<1> QED
  BY <1>1, <1>6, <1>8

\* One digit more, no digits, and all of them.
LEMMA DigitsNext ==
  ASSUME NEW s \in Seq(Digits)
  PROVE  /\ DigitsRead(s, 0) = 0
         /\ DigitsRead(s, Len(s)) = NumberOf(s)
         /\ \A k \in Nat : k < Len(s) =>
              DigitsRead(s, k + 1) = 10 * DigitsRead(s, k) + DigitOf(s[k + 1])
<1>1. DigitsRead(s, 0) = 0
  <2>1. SubSeq(s, 1, 0) = << >>
    BY SubSeqEmpty
  <2> QED
    BY <2>1, NumberFacts DEF DigitsRead
<1>2. DigitsRead(s, Len(s)) = NumberOf(s)
  <2>1. SubSeq(s, 1, Len(s)) = s
    BY SubSeqFull
  <2> QED
    BY <2>1 DEF DigitsRead
<1>3. ASSUME NEW k \in Nat, k < Len(s)
      PROVE  DigitsRead(s, k + 1) = 10 * DigitsRead(s, k) + DigitOf(s[k + 1])
  <2> DEFINE t == SubSeq(s, 1, k)
             c == s[k + 1]
  <2>1. Len(s) \in Nat /\ k + 1 \in 1 .. Len(s) /\ 1 \in 1 .. Len(s) /\ k + 1 \in 1 .. Len(s)
        /\ (k + 1) - 1 = k
    BY <1>3, LenProperties
  <2>2. SubSeq(s, 1, k + 1) = SubSeq(s, 1, (k + 1) - 1) \o <<s[k + 1]>>
    BY <2>1, SubSeqRecursiveSecond
  <2>3. \A i \in 1 .. k : s[i] \in Digits
    BY <2>1, ElementOfSeq
  <2>4. t \in Seq(Digits)
    BY <2>3, SubSeqProperties
  <2>5. c \in Digits
    BY <2>1, ElementOfSeq
  <2>6. SubSeq(s, 1, k + 1) = t \o <<c>>
    BY <2>1, <2>2
  <2> HIDE DEF t, c
  <2>7. Append(t, c) = t \o <<c>>
    BY <2>4, <2>5, AppendIsConcat
  <2>8. NumberOf(Append(t, c)) = 10 * NumberOf(t) + DigitOf(c)
    BY <2>4, <2>5, NumberFacts
  <2>9. DigitsRead(s, k + 1) = NumberOf(Append(t, c)) /\ DigitsRead(s, k) = NumberOf(t)
    BY <2>6, <2>7 DEF DigitsRead, t
  <2> QED
    BY <2>8, <2>9 DEF c
<1> QED
  BY <1>1, <1>2, <1>3

\* One flag more, none, and all of them.
LEMMA FlagsNext ==
  ASSUME NEW d \in Directives
  PROVE  /\ Len(d.flags) \in Nat
         /\ FlagsRead(d, 0) = {}
         /\ FlagsRead(d, Len(d.flags)) = Range(d.flags)
         /\ \A k \in Nat : FlagsRead(d, k + 1) = FlagsRead(d, k) \cup {d.flags[k + 1]}
<1>1. Len(d.flags) \in Nat /\ DOMAIN d.flags = 1 .. Len(d.flags)
  BY DirectiveAssumption, LenProperties
<1>2. FlagsRead(d, 0) = {}
  BY DEF FlagsRead
<1>3. FlagsRead(d, Len(d.flags)) = Range(d.flags)
  BY <1>1 DEF FlagsRead, Range
<1>4. ASSUME NEW k \in Nat PROVE FlagsRead(d, k + 1) = FlagsRead(d, k) \cup {d.flags[k + 1]}
  <2>1. 1 .. k + 1 = (1 .. k) \cup {k + 1}
    OBVIOUS
  <2> QED
    BY <2>1 DEF FlagsRead
<1> QED
  BY <1>1, <1>2, <1>3, <1>4

\* A field of the record, and the record with one of them changed.
LEMMA FieldsFacts ==
  ASSUME NEW f, NEW w, NEW q, NEW l, NEW z, NEW x
  PROVE  LET s == Fields(f, w, q, l, z)
         IN  /\ s.flags = f /\ s.width = w /\ s.precision = q /\ s.is_long = l /\ s.is_size_t = z
             /\ [s EXCEPT !.flags = x] = Fields(x, w, q, l, z)
             /\ [s EXCEPT !.width = x] = Fields(f, x, q, l, z)
             /\ [s EXCEPT !.precision = x] = Fields(f, w, x, l, z)
             /\ [s EXCEPT !.is_long = x] = Fields(f, w, q, x, z)
             /\ [s EXCEPT !.is_size_t = x] = Fields(f, w, q, l, x)
BY DEF Fields

\* The directive does not change.
LEMMA ReadsNext ==
  ASSUME dir' = dir, Agreed(dir) => Reads(dir, st', p', spec')
  PROVE  SpecInv'
BY DEF SpecInv

\* Outside the directive nothing is read.
LEMMA ReadsNothing ==
  ASSUME NEW d, NEW s, NEW q, NEW v, s \in {"text", "done"}
  PROVE  Reads(d, s, q, v)
BY DEF Reads

\* The steps in the text, and over the flags.
LEMMA ReadsFlags ==
  ASSUME ParserInv, SpecInv, Text \/ Percent \/ Convert \/ Finish \/ Flag \/ FlagsEnd
  PROVE  SpecInv'
<1> DEFINE F == FlagsTo(dir)
           W == WidthTo(dir)
           E == AfterTo(dir)
<1>1. /\ F \in Nat /\ W \in Nat /\ p \in Nat /\ 3 <= F /\ F <= W
      /\ (p = 1 => At = "t") /\ (p = 2 => At = "\n")
      /\ p \in SizeTo(dir) + 2 .. E => At # "%"
      /\ (p = E + 1 => At = NUL) /\ SizeTo(dir) \in Nat /\ E \in Nat
      /\ p \in 4 .. F => At \in FlagChars /\ At = dir.flags[p - 3]
      /\ p \in F + 1 .. W => At \in Digits /\ At = dir.width[p - F]
  BY AtFacts
<1>2. /\ st = "text" => p \in {1, 2, 3} \/ p \in SizeTo(dir) + 2 .. E + 1
      /\ st = "flags" => p \in 4 .. W + 1
  BY PlaceFacts
<1>3. dir \in Directives
  BY DEF ParserInv, InFormat
<1>4. F = 3 + Len(dir.flags) /\ W = F + Len(dir.width)
  BY DEF FlagsTo, WidthTo
<1>5. /\ Len(dir.flags) \in Nat /\ FlagsRead(dir, 0) = {}
      /\ FlagsRead(dir, Len(dir.flags)) = Range(dir.flags)
      /\ \A k \in Nat : FlagsRead(dir, k + 1) = FlagsRead(dir, k) \cup {dir.flags[k + 1]}
  BY <1>3, FlagsNext
<1> HIDE DEF F, W, E
<1>6. CASE Text \/ Convert \/ Finish
  <2>1. dir' = dir /\ st' \in {"text", "done"}
    BY <1>6 DEF Text, Convert, Finish, Step
  <2> QED
    BY <2>1, ReadsNext, ReadsNothing
<1>7. CASE Percent
  <2>1. dir' = dir /\ st' = "flags" /\ p' = p + 1 /\ spec' = NoSpec
    BY <1>7 DEF Percent, Step
  <2>2. At = "%" /\ (p \in {1, 2, 3} \/ p \in SizeTo(dir) + 2 .. E + 1)
    BY <1>2, <1>7 DEF Percent, Parsing
  <2>3. p = 3
    BY <1>1, <2>2, Classes
  <2>4. p' <= F + 1 /\ p' - 4 = 0
    BY <1>1, <2>1, <2>3
  <2>5. NoSpec = Fields(FlagsRead(dir, 0), 0, -1, 0, FALSE)
    BY <1>5 DEF NoSpec, Fields
  <2>6. Reads(dir, st', p', spec')
    BY <2>1, <2>4, <2>5 DEF Reads, F
  <2> QED
    BY <2>1, <2>6, ReadsNext
<1>8. ASSUME Agreed(dir), st = "flags"
      PROVE  /\ p \in 4 .. F + 1 /\ spec = Fields(FlagsRead(dir, p - 4), 0, -1, 0, FALSE)
             /\ p = F + 1 => At \notin FlagChars
  <2>1. p <= F + 1 /\ spec = Fields(FlagsRead(dir, p - 4), 0, -1, 0, FALSE)
    BY <1>8 DEF SpecInv, Reads, F
  <2>2. p \in 4 .. F + 1
    BY <1>1, <1>2, <1>8, <2>1
  <2>3. ASSUME p = F + 1 PROVE At \notin FlagChars
    <3>1. CASE F = W
      BY <2>3, <3>1, WidthEnds DEF W
    <3>2. CASE F # W
      <4>1. p \in F + 1 .. W /\ p - F = 1
        BY <1>1, <2>3, <3>2
      <4>2. At \in Digits /\ At = dir.width[1]
        BY <1>1, <4>1
      <4>3. dir.width # << >>
        <5> SUFFICES ASSUME dir.width = << >> PROVE FALSE
          OBVIOUS
        <5>1. Len(dir.width) = 0
          OBVIOUS
        <5>2. W = F + 0
          BY <1>4, <5>1
        <5> QED
          BY <1>1, <3>2, <5>2
      <4>4. At # "0"
        BY <1>3, <1>8, <4>2, <4>3, AgreedFields
      <4> QED
        BY <4>2, <4>4, DigitValue DEF FlagChars
    <3> QED
      BY <3>1, <3>2
  <2> QED
    BY <2>1, <2>2, <2>3
<1>9. CASE Flag
  <2>1. /\ dir' = dir /\ st' = "flags" /\ p' = p + 1 /\ st = "flags" /\ At \in FlagChars
        /\ spec' = [spec EXCEPT !.flags = spec.flags \cup {At}]
    BY <1>9 DEF Flag, Step, Parsing
  <2>2. ASSUME Agreed(dir) PROVE Reads(dir, st', p', spec')
    <3>1. p \in 4 .. F /\ spec = Fields(FlagsRead(dir, p - 4), 0, -1, 0, FALSE)
      BY <1>1, <1>8, <2>1, <2>2
    <3>2. At = dir.flags[p - 3] /\ p - 4 \in Nat /\ (p - 4) + 1 = p - 3 /\ p' - 4 = p - 3
      BY <1>1, <2>1, <3>1
    <3>3. FlagsRead(dir, p - 3) = FlagsRead(dir, p - 4) \cup {At}
      BY <1>5, <3>2
    <3>4. spec' = Fields(FlagsRead(dir, p - 3), 0, -1, 0, FALSE)
      BY <2>1, <3>1, <3>3 DEF Fields
    <3>5. p' <= F + 1
      BY <1>1, <2>1, <3>1
    <3> QED
      BY <2>1, <3>2, <3>4, <3>5 DEF Reads, F
  <2> QED
    BY <2>1, <2>2, ReadsNext
<1>10. CASE FlagsEnd
  <2>1. dir' = dir /\ st' = "width" /\ p' = p /\ spec' = spec /\ st = "flags" /\ At \notin FlagChars
    BY <1>10 DEF FlagsEnd, Stay, Parsing
  <2>2. ASSUME Agreed(dir) PROVE Reads(dir, st', p', spec')
    <3>1. p \in 4 .. F + 1 /\ spec = Fields(FlagsRead(dir, p - 4), 0, -1, 0, FALSE)
      BY <1>8, <2>1, <2>2
    <3>2. p = F + 1
      BY <1>1, <2>1, <3>1
    <3>3. p - 4 = Len(dir.flags) /\ p - (F + 1) = 0
      BY <1>1, <1>4, <1>5, <3>2
    <3>4. DigitsRead(dir.width, 0) = 0
      <4>1. dir.width \in Seq(Digits)
        BY <1>3, DirectiveAssumption
      <4> QED
        BY <4>1, DigitsNext
    <3>5. spec' = Fields(Range(dir.flags), DigitsRead(dir.width, p - (F + 1)), -1, 0, FALSE)
      BY <1>5, <2>1, <3>1, <3>3, <3>4
    <3> QED
      BY <2>1, <3>5 DEF Reads, F
  <2> QED
    BY <2>1, <2>2, ReadsNext
<1> QED
  BY <1>6, <1>7, <1>9, <1>10

\* The steps over the width and the dot.
LEMMA ReadsWidth ==
  ASSUME ParserInv, SpecInv, Width \/ Dot \/ NoDot
  PROVE  SpecInv'
<1> DEFINE F == FlagsTo(dir)
           W == WidthTo(dir)
           D == PrecisionTo(dir)
<1>1. /\ F \in Nat /\ W \in Nat /\ D \in Nat /\ p \in Nat /\ F <= W
      /\ p \in F + 1 .. W => At \in Digits /\ At = dir.width[p - F]
      /\ dir.dot /\ p = W + 1 => At = "."
      /\ ~dir.dot => D = W
  BY AtFacts
<1>2. st = "width" => p \in F + 1 .. W + 1
  BY PlaceFacts
<1>3. dir \in Directives
  BY DEF ParserInv, InFormat
<1>4. W = F + Len(dir.width)
  BY DEF WidthTo
<1>5. dir.width \in Seq(Digits) /\ dir.precision \in Seq(Digits)
  BY <1>3, DirectiveAssumption
<1>6. /\ Len(dir.width) \in Nat
      /\ DigitsRead(dir.width, Len(dir.width)) = NumberOf(dir.width)
      /\ \A k \in Nat : k < Len(dir.width) =>
           DigitsRead(dir.width, k + 1) = 10 * DigitsRead(dir.width, k) + DigitOf(dir.width[k + 1])
      /\ DigitsRead(dir.precision, 0) = 0
  BY <1>5, DigitsNext, LenProperties
<1>7. p = W + 1 => At \notin Digits
  BY WidthEnds DEF W
<1>8. (Agreed(dir) /\ st = "width") =>
        spec = Fields(Range(dir.flags), DigitsRead(dir.width, p - (F + 1)), -1, 0, FALSE)
  BY DEF SpecInv, Reads, F
<1> HIDE DEF F, W, D
<1>9. CASE Width
  <2>1. /\ dir' = dir /\ st' = "width" /\ p' = p + 1 /\ st = "width" /\ At \in Digits
        /\ spec' = [spec EXCEPT !.width = 10 * spec.width + DigitOf(At)]
    BY <1>9 DEF Width, Step, Parsing
  <2>2. ASSUME Agreed(dir) PROVE Reads(dir, st', p', spec')
    <3> DEFINE k == p - (F + 1)
    <3>1. p \in F + 1 .. W
      BY <1>1, <1>2, <1>7, <2>1
    <3>2. k \in Nat /\ k < Len(dir.width) /\ p' - (F + 1) = k + 1 /\ p - F = k + 1
      BY <1>1, <1>4, <1>6, <2>1, <3>1, SMTT(60)
    <3>3. At = dir.width[k + 1]
      BY <1>1, <3>1, <3>2
    <3> HIDE DEF k
    <3>4. DigitsRead(dir.width, k + 1) = 10 * DigitsRead(dir.width, k) + DigitOf(At)
      BY <1>6, <3>2, <3>3
    <3>5. spec = Fields(Range(dir.flags), DigitsRead(dir.width, k), -1, 0, FALSE)
      BY <1>8, <2>1, <2>2 DEF k
    <3>6. spec.width = DigitsRead(dir.width, k)
      BY <3>5 DEF Fields
    <3>7. spec' = Fields(Range(dir.flags), DigitsRead(dir.width, k + 1), -1, 0, FALSE)
      BY <2>1, <3>4, <3>5, <3>6 DEF Fields
    <3> QED
      BY <2>1, <3>2, <3>7 DEF Reads, F
  <2> QED
    BY <2>1, <2>2, ReadsNext
<1>10. ASSUME Agreed(dir), st = "width", p = W + 1
       PROVE  spec = Fields(Range(dir.flags), NumberOf(dir.width), -1, 0, FALSE)
  <2>1. p - (F + 1) = Len(dir.width)
    BY <1>1, <1>4, <1>6, <1>10
  <2> QED
    BY <1>6, <1>8, <1>10, <2>1
<1>11. CASE Dot
  <2>1. /\ dir' = dir /\ st' = "precision" /\ p' = p + 1 /\ st = "width" /\ At = "."
        /\ spec' = [spec EXCEPT !.precision = 0]
    BY <1>11 DEF Dot, Step, Parsing
  <2>2. ASSUME Agreed(dir) PROVE Reads(dir, st', p', spec')
    <3>1. p = W + 1
      <4>1. p \notin F + 1 .. W
        BY <1>1, <2>1, Classes
      <4> QED
        BY <1>1, <1>2, <2>1, <4>1
    <3>2. p' - (W + 2) = 0
      BY <1>1, <2>1, <3>1
    <3>3. spec' = Fields(Range(dir.flags), NumberOf(dir.width), 0, 0, FALSE)
      <4>1. spec = Fields(Range(dir.flags), NumberOf(dir.width), -1, 0, FALSE)
        BY <1>10, <2>1, <2>2, <3>1
      <4> QED
        BY <2>1, <4>1 DEF Fields
    <3> QED
      BY <1>6, <2>1, <3>2, <3>3 DEF Reads, W
  <2> QED
    BY <2>1, <2>2, ReadsNext
<1>12. CASE NoDot
  <2>1. /\ dir' = dir /\ st' = "size" /\ p' = p /\ spec' = spec /\ st = "width"
        /\ At \notin Digits /\ At # "."
    BY <1>12 DEF NoDot, Stay, Parsing
  <2>2. ASSUME Agreed(dir) PROVE Reads(dir, st', p', spec')
    <3>1. p = W + 1
      BY <1>1, <1>2, <2>1
    <3>2. ~dir.dot /\ D = W
      BY <1>1, <2>1, <3>1
    <3>3. p' - (D + 1) = 0
      BY <1>1, <2>1, <3>1, <3>2
    <3>4. PrecisionOf(dir) = -1
      BY <3>2 DEF PrecisionOf
    <3>5. LongRead(dir, 0) = 0
      BY DEF LongRead
    <3>6. SizetRead(dir, 0) = FALSE
      BY DEF SizetRead
    <3>7. spec' = Fields(Range(dir.flags), NumberOf(dir.width), PrecisionOf(dir),
                         LongRead(dir, 0), SizetRead(dir, 0))
      BY <1>10, <2>1, <2>2, <3>1, <3>4, <3>5, <3>6, Zenon
    <3> QED
      BY <2>1, <3>3, <3>7 DEF Reads, D
  <2> QED
    BY <2>1, <2>2, ReadsNext
<1> QED
  BY <1>9, <1>11, <1>12

\* The steps over the precision and the size modifiers.
LEMMA ReadsSize ==
  ASSUME ParserInv, SpecInv, Precision \/ PrecisionEnd \/ Size \/ SizeEnd
  PROVE  SpecInv'
<1> DEFINE W == WidthTo(dir)
           D == PrecisionTo(dir)
           S == SizeTo(dir)
           P == dir.precision
           n == Len(dir.size)
<1>1. /\ W \in Nat /\ D \in Nat /\ S \in Nat /\ p \in Nat /\ D <= S
      /\ dir.dot /\ p \in W + 2 .. D => At \in Digits /\ At = P[p - (W + 1)]
      /\ p \in D + 1 .. S => At \in {"l", "z"} /\ At = dir.size[p - D]
      /\ p = S + 1 => At \notin FlagChars \cup Digits \cup {".", "l", "z"}
  BY AtFacts
<1>2. /\ st = "precision" => p \in W + 2 .. D + 1 /\ dir.dot
      /\ st = "size" => p \in D + 1 .. S + 1
  BY PlaceFacts
<1>3. dir \in Directives
  BY DEF ParserInv, InFormat
<1>4. (dir.dot => D = W + (1 + Len(P))) /\ S = D + n
  BY DEF PrecisionTo, SizeTo
<1>5. P \in Seq(Digits) /\ Len(P) \in Nat
  <2>1. P \in Seq(Digits)
    BY <1>3, DirectiveAssumption
  <2> QED
    BY <2>1, LenProperties
<1>6. /\ DigitsRead(P, Len(P)) = NumberOf(P)
      /\ \A k \in Nat : k < Len(P) =>
           DigitsRead(P, k + 1) = 10 * DigitsRead(P, k) + DigitOf(P[k + 1])
  BY <1>5, DigitsNext
<1>7. /\ (Agreed(dir) /\ st = "precision") =>
           spec = Fields(Range(dir.flags), NumberOf(dir.width), DigitsRead(P, p - (W + 2)), 0, FALSE)
      /\ (Agreed(dir) /\ st = "size") =>
           spec = Fields(Range(dir.flags), NumberOf(dir.width), PrecisionOf(dir),
                         LongRead(dir, p - (D + 1)), SizetRead(dir, p - (D + 1)))
  BY DEF SpecInv, Reads, W, D
<1>8. Agreed(dir) =>
        /\ n \in Nat
        /\ \A j \in 1 .. n : dir.size[j] = dir.size[1] /\ dir.size[j] \in {"l", "z"}
        /\ n > 0 /\ dir.size[1] = "z" => n = 1
        /\ FinalSpec(dir) = Fields(Range(dir.flags), NumberOf(dir.width), PrecisionOf(dir),
                                   LongRead(dir, n), SizetRead(dir, n))
  BY <1>3, AgreedFields
<1> HIDE DEF W, D, S, P, n
<1>9. CASE Precision
  <2>1. /\ dir' = dir /\ st' = "precision" /\ p' = p + 1 /\ st = "precision" /\ At \in Digits
        /\ spec' = [spec EXCEPT !.precision = 10 * spec.precision + DigitOf(At)]
    BY <1>9 DEF Precision, Step, Parsing
  <2>2. ASSUME Agreed(dir) PROVE Reads(dir, st', p', spec')
    <3> DEFINE k == p - (W + 2)
    <3>1. p \in W + 2 .. D
      <4>1. p # D + 1
        <5>1. p = D + 1 => p \in D + 1 .. S \/ p = S + 1
          BY <1>1
        <5> QED
          BY <1>1, <2>1, <5>1, Classes
      <4> QED
        BY <1>1, <1>2, <2>1, <4>1
    <3>2. k \in Nat /\ k < Len(P) /\ p' - (W + 2) = k + 1 /\ p - (W + 1) = k + 1
      BY <1>1, <1>2, <1>4, <1>5, <2>1, <3>1, SMTT(60)
    <3>3. At = P[k + 1]
      BY <1>1, <1>2, <2>1, <3>1, <3>2
    <3> HIDE DEF k
    <3>4. DigitsRead(P, k + 1) = 10 * DigitsRead(P, k) + DigitOf(At)
      BY <1>6, <3>2, <3>3
    <3>5. spec = Fields(Range(dir.flags), NumberOf(dir.width), DigitsRead(P, k), 0, FALSE)
      BY <1>7, <2>1, <2>2 DEF k
    <3>6. spec.precision = DigitsRead(P, k)
      BY <3>5 DEF Fields
    <3>7. spec' = Fields(Range(dir.flags), NumberOf(dir.width), DigitsRead(P, k + 1), 0, FALSE)
      BY <2>1, <3>4, <3>5, <3>6 DEF Fields
    <3> QED
      BY <2>1, <3>2, <3>7 DEF Reads, W, P
  <2> QED
    BY <2>1, <2>2, ReadsNext
<1>10. CASE PrecisionEnd
  <2>1. /\ dir' = dir /\ st' = "size" /\ p' = p /\ spec' = spec /\ st = "precision" /\ At \notin Digits
    BY <1>10 DEF PrecisionEnd, Stay, Parsing
  <2>2. ASSUME Agreed(dir) PROVE Reads(dir, st', p', spec')
    <3>1. p = D + 1 /\ dir.dot
      BY <1>1, <1>2, <2>1
    <3>2. p - (W + 2) = Len(P) /\ p' - (D + 1) = 0
      BY <1>1, <1>4, <1>5, <2>1, <3>1
    <3>3. PrecisionOf(dir) = NumberOf(P)
      BY <3>1 DEF PrecisionOf, P
    <3>4. LongRead(dir, 0) = 0
      BY DEF LongRead
    <3>5. SizetRead(dir, 0) = FALSE
      BY DEF SizetRead
    <3>6. spec = Fields(Range(dir.flags), NumberOf(dir.width), NumberOf(P), 0, FALSE)
      BY <1>6, <1>7, <2>1, <2>2, <3>2
    <3>7. spec' = Fields(Range(dir.flags), NumberOf(dir.width), PrecisionOf(dir),
                         LongRead(dir, 0), SizetRead(dir, 0))
      BY <2>1, <3>3, <3>4, <3>5, <3>6, Zenon
    <3> QED
      BY <2>1, <3>2, <3>7 DEF Reads, D
  <2> QED
    BY <2>1, <2>2, ReadsNext
<1>11. CASE Size
  <2>1. /\ dir' = dir /\ st' = "size" /\ p' = p + 1 /\ st = "size" /\ At \in {"l", "z"}
        /\ spec' = IF At = "l" THEN [spec EXCEPT !.is_long = spec.is_long + 1]
                   ELSE [spec EXCEPT !.is_size_t = TRUE]
    BY <1>11 DEF Size, Step, Parsing
  <2>2. ASSUME Agreed(dir) PROVE Reads(dir, st', p', spec')
    <3> DEFINE k == p - (D + 1)
    <3>1. p \in D + 1 .. S
      BY <1>1, <1>2, <2>1
    <3>2. k \in Nat /\ k + 1 \in 1 .. n /\ p' - (D + 1) = k + 1 /\ p - D = k + 1
      BY <1>1, <1>4, <1>8, <2>1, <2>2, <3>1, SMTT(60)
    <3>3. At = dir.size[k + 1]
      BY <1>1, <3>1, <3>2
    <3> HIDE DEF k
    <3>4. At = dir.size[1] /\ (At = "z" => k = 0)
      BY <1>8, <2>2, <3>2, <3>3
    <3>5. spec = Fields(Range(dir.flags), NumberOf(dir.width), PrecisionOf(dir),
                        LongRead(dir, k), SizetRead(dir, k))
      BY <1>7, <2>1, <2>2 DEF k
    <3>6. spec.is_long = LongRead(dir, k)
      BY <3>5, FieldsFacts
    <3>7. spec' = Fields(Range(dir.flags), NumberOf(dir.width), PrecisionOf(dir),
                         LongRead(dir, k + 1), SizetRead(dir, k + 1))
      <4>1. CASE At = "l"
        <5>1. LongRead(dir, k) = k /\ LongRead(dir, k + 1) = k + 1
          BY <3>2, <3>4, <4>1 DEF LongRead
        <5>2. SizetRead(dir, k) = FALSE /\ SizetRead(dir, k + 1) = FALSE
          BY <3>4, <4>1 DEF SizetRead
        <5>3. spec' = [spec EXCEPT !.is_long = k + 1]
          BY <2>1, <3>6, <4>1, <5>1
        <5>4. spec' = Fields(Range(dir.flags), NumberOf(dir.width), PrecisionOf(dir),
                             k + 1, SizetRead(dir, k))
          BY <3>5, <5>3, FieldsFacts
        <5> QED
          BY <5>1, <5>2, <5>4, Zenon
      <4>2. CASE At = "z"
        <5>1. k = 0 /\ k + 1 = 1
          BY <3>4, <4>2
        <5>2. LongRead(dir, k) = 0 /\ LongRead(dir, k + 1) = 0
          BY <3>4, <4>2 DEF LongRead
        <5>3. SizetRead(dir, k + 1) = TRUE
          BY <3>4, <4>2, <5>1 DEF SizetRead
        <5>4. spec' = [spec EXCEPT !.is_size_t = TRUE]
          BY <2>1, <4>2
        <5>5. spec' = Fields(Range(dir.flags), NumberOf(dir.width), PrecisionOf(dir),
                             LongRead(dir, k), TRUE)
          BY <3>5, <5>4 DEF Fields
        <5> QED
          BY <5>2, <5>3, <5>5, Zenon
      <4> QED
        BY <2>1, <4>1, <4>2
    <3> QED
      BY <2>1, <3>2, <3>7 DEF Reads, D
  <2> QED
    BY <2>1, <2>2, ReadsNext
<1>12. CASE SizeEnd
  <2>1. /\ dir' = dir /\ st' = "spec" /\ p' = p /\ spec' = spec /\ st = "size" /\ At \notin {"l", "z"}
    BY <1>12 DEF SizeEnd, Stay, Parsing
  <2>2. ASSUME Agreed(dir) PROVE Reads(dir, st', p', spec')
    <3>1. p = S + 1
      BY <1>1, <1>2, <2>1
    <3>2. p - (D + 1) = n
      BY <1>1, <1>4, <1>8, <2>2, <3>1
    <3>3. spec = FinalSpec(dir)
      BY <1>7, <1>8, <2>1, <2>2, <3>2
    <3> QED
      BY <2>1, <3>3 DEF Reads
  <2> QED
    BY <2>1, <2>2, ReadsNext
<1> QED
  BY <1>9, <1>10, <1>11, <1>12

-----------------------------------------------------------------------------
(* From the parser to the wire *)

\* What print_char may be given, what the UART may be handed for it, and what it
\* has been handed.
Given == CharsOf(dir)

Sent == Given \cup {"\r"}

Held(c) == IF c = Idle THEN << >> ELSE <<c>>

Stream == (wire \o Held(thr)) \o todo

\* What printk has handed to print_char of d's format, in a state and at a place.
Handed(d, s, q) ==
  IF s = "done" THEN IsoText(d)
  ELSE IF s = "text" /\ q > 3
  THEN (<<"t", "\n">> \o IsoConversion(d)) \o SubSeq(d.after, 1, q - (SizeTo(d) + 2))
  ELSE IF s = "text" /\ q = 1 THEN << >>
  ELSE IF s = "text" /\ q = 2 THEN <<"t">>
  ELSE <<"t", "\n">>

CharsInv ==
  /\ text \in Seq(Given) /\ todo \in Seq(Sent) /\ wire \in Seq(Sent) /\ thr \in Sent \cup {Idle}
  /\ console = "none" => text = << >> /\ todo = << >> /\ wire = << >> /\ thr = Idle
  /\ st = "done" => text = << >> /\ todo = << >>

ShownInv == console # "none" /\ Agreed(dir) => Shown(Stream) \o text = Handed(dir, st, p)

\* A sequence is its first element and the rest of it.
LEMMA FirstAndRest ==
  ASSUME NEW C, NEW t \in Seq(C), t # << >>
  PROVE  /\ Head(t) \in C /\ Tail(t) \in Seq(C) /\ <<Head(t)>> \in Seq(C)
         /\ <<Head(t)>> \o Tail(t) = t
<1>1. Head(t) \in C /\ Tail(t) \in Seq(C) /\ Tail(t) = SubSeq(t, 2, Len(t))
  BY HeadTailProperties, TailIsSubSeq
<1>2. Len(t) \in Nat /\ Len(t) # 0
  BY EmptySeq, LenProperties
<1>3. 1 \in 1 .. Len(t) /\ Len(t) \in 1 .. Len(t) /\ 1 + 1 = 2
  BY <1>2
<1>4. SubSeq(t, 1, Len(t)) = <<t[1]>> \o SubSeq(t, 1 + 1, Len(t))
  BY <1>3, SubSeqRecursiveFirst
<1>5. SubSeq(t, 1, Len(t)) = t
  BY SubSeqFull
<1>6. Head(t) = t[1]
  OBVIOUS
<1>7. <<Head(t)>> \in Seq(C)
  BY <1>1
<1> QED
  BY <1>1, <1>3, <1>4, <1>5, <1>6, <1>7

\* The characters that go over the wire.
LEMMA SentFacts ==
  /\ Char \subseteq Given /\ Given \subseteq Sent /\ "\r" \in Sent /\ Idle \notin Sent
  /\ "\r" \notin Given
  /\ ~PrintsNUL(dir) => NUL \notin Sent
<1>1. NUL \notin Char /\ Idle \notin Char /\ "\r" \notin Char
  BY CharAssumption
<1>2. NUL # "\r" /\ Idle # "\r" /\ NUL # Idle
  BY DEF NUL, Idle
<1> QED
  BY <1>1, <1>2 DEF Sent, Given, CharsOf

\* The directive stays, and so do the characters it may print.
LEMMA SentStays ==
  ASSUME dir' = dir
  PROVE  Given' = Given /\ Sent' = Sent
BY DEF Given, Sent

\* console_putc adds what a terminal does not show, and the character.
LEMMA PutShows ==
  ASSUME NEW s \in Seq(Sent), NEW c \in Given
  PROVE  /\ console_putc(c) \in Seq(Sent)
         /\ Shown(s) \in Seq(Sent)
         /\ Shown(s \o console_putc(c)) = Append(Shown(s), c)
<1> DEFINE r == "\r"
           a == Append(s, r)
           b == Append(a, r)
<1>1. c \in Sent /\ r \in Sent /\ c # r
  BY SentFacts
<1>2. put_char(r) = <<r>> /\ (c # "\n" => console_putc(c) = << >> \o <<c>>)
  BY DEF put_char, console_putc
<1>3. \A t \in Seq(Sent), x \in Sent :
        Shown(Append(t, x)) = IF x = r THEN Shown(t) ELSE Append(Shown(t), x)
  BY ShownFacts
<1>4. \A t \in Seq(Sent) : Shown(t) \in Seq(Sent)
  BY ShownFacts
<1>5. \A t \in Seq(Sent), x \in Sent : Append(t, x) \in Seq(Sent) /\ Append(t, x) = t \o <<x>>
  BY AppendProperties, AppendIsConcat
<1>6. \A t, u, v \in Seq(Sent) : (t \o u) \o v = t \o (u \o v)
  BY ConcatAssociative, SMTT(60)
<1>7. \A t, u \in Seq(Sent) : t \o u \in Seq(Sent)
  BY ConcatProperties
<1>8. \A x \in Sent : <<x>> \in Seq(Sent) /\ << >> \o <<x>> = <<x>>
  BY Singles, ConcatEmptySeq
<1>9. CASE c # "\n"
  <2>1. console_putc(c) = <<c>>
    BY <1>1, <1>2, <1>8, <1>9
  <2>2. Shown(Append(s, c)) = Append(Shown(s), c)
    BY <1>1, <1>3
  <2> QED
    BY <1>1, <1>4, <1>5, <1>8, <2>1, <2>2
<1>10. CASE c = "\n" /\ console # "pl011"
  <2> DEFINE u == <<r>>
             v == <<c>>
  <2>1. console_putc(c) = u \o v
    BY <1>10, <1>2 DEF console_putc, put_char
  <2>2. u \in Seq(Sent) /\ v \in Seq(Sent)
    BY <1>1, <1>8
  <2>3. s \o u = Append(s, r) /\ Append(s, r) \in Seq(Sent)
    BY <1>1, <1>5
  <2>4. Append(s, r) \o v = Append(Append(s, r), c)
    BY <1>1, <1>5, <2>3
  <2> HIDE DEF u, v
  <2>5. s \o (u \o v) = Append(Append(s, r), c) /\ u \o v \in Seq(Sent)
    <3>1. (s \o u) \o v = s \o (u \o v)
      BY <1>6, <2>2, Zenon
    <3>2. u \o v \in Seq(Sent)
      BY <1>7, <2>2, Zenon
    <3> QED
      BY <2>3, <2>4, <3>1, <3>2, Zenon
  <2>6. Shown(Append(Append(s, r), c)) = Append(Shown(Append(s, r)), c)
    BY <1>1, <1>3, <2>3
  <2>7. Shown(Append(s, r)) = Shown(s)
    BY <1>1, <1>3
  <2> QED
    BY <1>4, <2>1, <2>5, <2>6, <2>7
<1>11. CASE c = "\n" /\ console = "pl011"
  <2> DEFINE u == <<r>>
             v == <<r, c>>
             w == <<c>>
  <2>1. console_putc(c) = u \o v
    BY <1>11, <1>2 DEF console_putc, put_char
  <2>2. u \in Seq(Sent) /\ w \in Seq(Sent)
    BY <1>1, <1>8
  <2>3. v = u \o w
    OBVIOUS
  <2>4. s \o u = a /\ a \in Seq(Sent)
    BY <1>1, <1>5
  <2> HIDE DEF a
  <2>5. a \o u = b /\ b \in Seq(Sent)
    BY <1>1, <1>5, <2>4
  <2> HIDE DEF b
  <2>6. b \o w = Append(b, c)
    BY <1>1, <1>5, <2>5
  <2> HIDE DEF u, v, w
  <2>7. s \o (u \o v) = Append(b, c) /\ u \o v \in Seq(Sent)
    <3>1. v \in Seq(Sent) /\ u \o v \in Seq(Sent)
      BY <1>7, <2>2, <2>3
    <3>2. (s \o u) \o v = s \o (u \o v)
      BY <1>6, <2>2, <3>1, Zenon
    <3>3. (a \o u) \o w = a \o (u \o w)
      BY <1>6, <2>2, <2>4, Zenon
    <3> QED
      BY <2>3, <2>4, <2>5, <2>6, <3>1, <3>2, <3>3, Zenon
  <2>8. Shown(Append(b, c)) = Append(Shown(b), c)
    BY <1>1, <1>3, <2>5
  <2>9. Shown(b) = Shown(a)
    BY <1>1, <1>3, <2>4 DEF b
  <2>10. Shown(a) = Shown(s)
    BY <1>1, <1>3 DEF a
  <2> QED
    BY <1>4, <2>1, <2>7, <2>8, <2>9, <2>10
<1> QED
  BY <1>9, <1>10, <1>11

\* The holding register has a character or none.
LEMMA HeldFacts ==
  ASSUME CharsInv
  PROVE  /\ Held(thr) \in Seq(Sent) /\ wire \o Held(thr) \in Seq(Sent) /\ Stream \in Seq(Sent)
         /\ Shown(Stream) \in Seq(Sent)
         /\ todo = << >> => Stream = wire \o Held(thr)
<1>1. todo \in Seq(Sent) /\ wire \in Seq(Sent) /\ thr \in Sent \cup {Idle}
  BY DEF CharsInv
<1> DEFINE h == Held(thr)
           u == wire \o h
<1>2. h \in Seq(Sent)
  <2>1. CASE thr = Idle
    BY <2>1, EmptySeq DEF Held
  <2>2. CASE thr # Idle
    <3>1. thr \in Sent /\ h = <<thr>>
      BY <1>1, <2>2 DEF Held
    <3> QED
      BY <3>1, Singles
  <2> QED
    BY <2>1, <2>2
<1> HIDE DEF h
<1>3. u \in Seq(Sent)
  BY <1>1, <1>2, ConcatProperties
<1> HIDE DEF u
<1>4. u \o todo \in Seq(Sent)
  BY <1>1, <1>3, ConcatProperties
<1>5. Stream = u \o todo
  BY DEF Stream, u, h
<1>6. Shown(Stream) \in Seq(Sent)
  BY <1>4, <1>5, ShownFacts
<1>7. todo = << >> => u \o todo = u
  BY <1>3, ConcatEmptySeq
<1> QED
  BY <1>2, <1>3, <1>4, <1>5, <1>6, <1>7 DEF u, h

\* print_char hands the next character to the driver.
LEMMA PutCharShows ==
  ASSUME CharsInv, ShownInv, PutChar
  PROVE  CharsInv' /\ ShownInv'
<1>1. /\ todo = << >> /\ text # << >> /\ todo' = console_putc(Head(text)) /\ text' = Tail(text)
      /\ dir' = dir /\ console' = console /\ p' = p /\ st' = st /\ thr' = thr /\ wire' = wire
  BY DEF PutChar
<1> DEFINE c == Head(text)
           rest == Tail(text)
           one == <<c>>
           u == wire \o Held(thr)
           out == console_putc(c)
<1>2. text \in Seq(Given) /\ wire \in Seq(Sent) /\ thr \in Sent \cup {Idle}
  BY DEF CharsInv
<1>3. c \in Given /\ rest \in Seq(Given) /\ one \in Seq(Given) /\ one \o rest = text
  BY <1>1, <1>2, FirstAndRest
<1>4. u \in Seq(Sent) /\ Stream = u
  BY <1>1, HeldFacts
<1>5. Stream' = u \o out
  BY <1>1 DEF Stream
<1> HIDE DEF c, rest, u
<1>6. out \in Seq(Sent) /\ Shown(u) \in Seq(Sent) /\ Shown(u \o out) = Append(Shown(u), c)
  BY <1>3, <1>4, PutShows
<1>7. CharsInv'
  <2>1. text' \in Seq(Given) /\ todo' \in Seq(Sent)
    BY <1>1, <1>3, <1>6 DEF c, rest
  <2>2. console # "none" /\ st # "done"
    BY <1>1 DEF CharsInv
  <2>3. Given' = Given /\ Sent' = Sent
    BY <1>1, SentStays
  <2> QED
    BY <1>1, <1>2, <2>1, <2>2, <2>3 DEF CharsInv
<1>8. Shown(Stream') \o text' = Shown(Stream) \o text
  <2> DEFINE v == Shown(u)
  <2>1. v \in Seq(Sent) /\ one \in Seq(Sent) /\ rest \in Seq(Sent) /\ c \in Sent
    BY <1>3, <1>6, SentFacts, SeqMonotonic
  <2>2. Append(v, c) = v \o one
    BY <2>1, AppendIsConcat
  <2> HIDE DEF v, one
  <2>3. \A x, y, z \in Seq(Sent) : (x \o y) \o z = x \o (y \o z)
    BY ConcatAssociative
  <2>4. (v \o one) \o rest = v \o (one \o rest)
    <3>1. v \in Seq(Sent) /\ one \in Seq(Sent) /\ rest \in Seq(Sent)
      BY <2>1
    <3> QED
      BY <2>3, <3>1, Zenon
  <2>5. Shown(Stream') = v \o one /\ Shown(Stream) = v /\ text' = rest
    BY <1>1, <1>4, <1>5, <1>6, <2>2 DEF v, rest
  <2> QED
    BY <1>3, <2>4, <2>5
<1>9. ShownInv'
  BY <1>1, <1>8 DEF ShownInv
<1> QED
  BY <1>7, <1>9

\* The driver's wait ends, or the UART sends: nothing is lost or turned around.
LEMMA UartShows ==
  ASSUME CharsInv, ShownInv, Send \/ Drain
  PROVE  CharsInv' /\ ShownInv'
<1>1. /\ text \in Seq(Given) /\ todo \in Seq(Sent) /\ wire \in Seq(Sent) /\ thr \in Sent \cup {Idle}
  BY DEF CharsInv
<1>2. Idle \notin Sent
  BY SentFacts
<1>3. \A x, y, z \in Seq(Sent) : (x \o y) \o z = x \o (y \o z)
  BY ConcatAssociative
<1>4. \A x \in Seq(Sent) : x \o << >> = x
  BY ConcatEmptySeq
<1>5. CASE Send
  <2>1. /\ todo # << >> /\ thr = Idle /\ thr' = Head(todo) /\ todo' = Tail(todo)
        /\ dir' = dir /\ console' = console /\ p' = p /\ st' = st /\ text' = text /\ wire' = wire
    BY <1>5 DEF Send
  <2> DEFINE one == <<Head(todo)>>
             rest == Tail(todo)
  <2>2. Head(todo) \in Sent /\ rest \in Seq(Sent) /\ one \in Seq(Sent) /\ one \o rest = todo
    BY <1>1, <2>1, FirstAndRest
  <2>3. Held(thr) = << >> /\ Held(thr') = one
    BY <1>2, <2>1, <2>2 DEF Held
  <2>4. Stream' = (wire \o one) \o rest
    BY <2>1, <2>3 DEF Stream
  <2>5. Stream = wire \o todo
    BY <1>1, <1>4, <2>3 DEF Stream
  <2>6. text' \in Seq(Given) /\ todo' \in Seq(Sent) /\ wire' \in Seq(Sent) /\ thr' \in Sent
    BY <1>1, <2>1, <2>2
  <2> HIDE DEF one, rest
  <2>7. (wire \o one) \o rest = wire \o (one \o rest)
    <3>1. wire \in Seq(Sent) /\ one \in Seq(Sent) /\ rest \in Seq(Sent)
      BY <1>1, <2>2
    <3> QED
      BY <1>3, <3>1, Zenon
  <2>8. Stream' = Stream
    BY <2>2, <2>4, <2>5, <2>7
  <2>9. console # "none" /\ st # "done"
    BY <2>1 DEF CharsInv
  <2>10. Given' = Given /\ Sent' = Sent
    BY <2>1, SentStays
  <2> QED
    BY <2>1, <2>6, <2>8, <2>9, <2>10 DEF CharsInv, ShownInv
<1>6. CASE Drain
  <2>1. /\ thr # Idle /\ wire' = Append(wire, thr) /\ thr' = Idle
        /\ dir' = dir /\ console' = console /\ p' = p /\ st' = st /\ text' = text /\ todo' = todo
    BY <1>6 DEF Drain
  <2>2. thr \in Sent
    BY <1>1, <2>1
  <2>3. wire' \in Seq(Sent) /\ wire' = wire \o <<thr>>
    BY <1>1, <2>1, <2>2, AppendProperties, AppendIsConcat
  <2>4. Held(thr) = <<thr>> /\ Held(thr') = << >>
    BY <2>1 DEF Held
  <2>5. wire' \o Held(thr') = wire \o Held(thr)
    <3>1. wire' \o << >> = wire'
      BY <1>4, <2>3
    <3> QED
      BY <2>3, <2>4, <3>1
  <2>6. Stream' = Stream
    BY <2>1, <2>5 DEF Stream
  <2>7. console # "none"
    BY <2>1 DEF CharsInv
  <2>8. Given' = Given /\ Sent' = Sent
    BY <2>1, SentStays
  <2> QED
    BY <1>1, <2>1, <2>3, <2>6, <2>7, <2>8 DEF CharsInv, ShownInv
<1> QED
  BY <1>5, <1>6

\* A step of the parser that prints nothing, and changes nothing of what it has printed.
LEMMA QuietShows ==
  ASSUME CharsInv, ShownInv, UNCHANGED <<dir, console, text, todo, thr, wire>>,
         Agreed(dir) => Handed(dir, st', p') = Handed(dir, st, p),
         st' = "done" => text = << >> /\ todo = << >>
  PROVE  CharsInv' /\ ShownInv'
<1>1. Stream' = Stream
  BY DEF Stream
<1>2. Given' = Given /\ Sent' = Sent
  BY SentStays
<1> QED
  BY <1>1, <1>2 DEF CharsInv, ShownInv

\* A step of the parser that prints s.
LEMMA EmitShows ==
  ASSUME CharsInv, ShownInv, NEW s \in Seq(Given), Emit(s), text = << >>, todo = << >>,
         UNCHANGED <<dir, console, todo, thr, wire>>, st' # "done",
         Agreed(dir) => Handed(dir, st', p') = Handed(dir, st, p) \o s
  PROVE  CharsInv' /\ ShownInv'
<1>1. text' = IF console # "none" THEN s ELSE << >>
  BY DEF Emit
<1>2. << >> \in Seq(Given) /\ Given' = Given /\ Sent' = Sent
  BY EmptySeq, SentStays
<1>3. CharsInv'
  BY <1>1, <1>2 DEF CharsInv
<1>4. ASSUME console # "none", Agreed(dir)
      PROVE  Shown(Stream') \o text' = Handed(dir, st', p')
  <2> DEFINE v == Shown(Stream)
  <2>1. v \in Seq(Sent)
    BY HeldFacts
  <2>2. v \o << >> = Handed(dir, st, p)
    BY <1>4 DEF ShownInv
  <2>3. Stream' = Stream
    BY DEF Stream
  <2> HIDE DEF v
  <2>4. v \o << >> = v
    BY <2>1, ConcatEmptySeq
  <2>5. text' = s
    BY <1>1, <1>4
  <2>6. Handed(dir, st', p') = v \o s
    BY <1>4, <2>2, <2>4
  <2> QED
    BY <2>3, <2>5, <2>6 DEF v
<1>5. ShownInv'
  BY <1>4 DEF ShownInv
<1> QED
  BY <1>3, <1>5

\* What the plain text before the directive prints, character by character.
LEMMA OwnPair == <<"t">> \o <<"\n">> = <<"t", "\n">>
<1>1. \A C : \A a, b \in C : <<a>> \o <<b>> = <<a, b>>
  <2> SUFFICES ASSUME NEW C, NEW a \in C, NEW b \in C PROVE <<a>> \o <<b>> = <<a, b>>
    OBVIOUS
  <2>1. <<a>> \in Seq(C) /\ <<b>> \in Seq(C) /\ <<a, b>> \in Seq(C)
    OBVIOUS
  <2>2. Len(<<a>> \o <<b>>) = 2 /\ Len(<<a, b>>) = 2 /\ <<a>> \o <<b>> \in Seq(C)
    BY <2>1
  <2>3. (<<a>> \o <<b>>)[1] = a /\ (<<a>> \o <<b>>)[2] = b
    BY <2>1
  <2>4. <<a, b>>[1] = a /\ <<a, b>>[2] = b
    OBVIOUS
  <2> DEFINE s == <<a>> \o <<b>>
             t == <<a, b>>
  <2>5. /\ s \in Seq(C) /\ t \in Seq(C) /\ Len(s) = 2 /\ Len(t) = 2
        /\ s[1] = t[1] /\ s[2] = t[2]
    BY <2>1, <2>2, <2>3, <2>4
  <2> HIDE DEF s, t
  <2>6. Len(s) = Len(t) /\ \A i \in 1 .. Len(s) : s[i] = t[i]
    BY <2>5
  <2>7. s = t
    BY <2>5, <2>6, SeqEqual
  <2> QED
    BY <2>7 DEF s, t
<1>2. "t" \in Char /\ "\n" \in Char
  BY OwnChars
<1> QED
  BY <1>1, <1>2

\* What printk has read in full has its type.
LEMMA FinalSpecType ==
  ASSUME NEW d \in Directives
  PROVE  FinalSpec(d) \in Spec_t
<1>1. Range(d.flags) \subseteq FlagChars
  <2>1. d.flags \in Seq(FlagChars)
    BY DirectiveAssumption
  <2> QED
    BY <2>1, ElementOfSeq, LenProperties DEF Range
<1>2. NumberOf(d.width) \in Nat /\ NumberOf(d.precision) \in Nat
  BY FinalFields
<1> QED
  BY <1>1, <1>2 DEF FinalSpec, Spec_t

\* One character more of the text behind the directive, none of it, and all.
LEMMA HandedNext ==
  ASSUME NEW d \in Directives, Agreed(d)
  PROVE  LET S == SizeTo(d)
             B == <<"t", "\n">> \o IsoConversion(d)
         IN  /\ Handed(d, "text", S + 2) = B
             /\ Handed(d, "text", AfterTo(d) + 1) = IsoText(d)
             /\ \A q \in S + 2 .. AfterTo(d) :
                  Handed(d, "text", q + 1) = Handed(d, "text", q) \o <<d.after[q - (S + 1)]>>
<1> DEFINE S == SizeTo(d)
           C == CharsOf(d)
           X == IsoConversion(d)
           a == d.after
           B == <<"t", "\n">> \o X
<1>1. /\ S \in Nat /\ 3 <= S /\ a \in Seq(C) /\ Len(a) \in Nat /\ AfterTo(d) = S + 1 + Len(a)
  <2>1. Char \subseteq C
    BY DEF CharsOf
  <2> QED
    BY <2>1, RenderShape, MemoryShape, SeqMonotonic
<1>2. B \in Seq(C)
  <2>1. X \in Seq(C)
    BY FinalSpecType, ConvertedChars, ConversionAgrees
  <2> DEFINE t == <<"t", "\n">>
  <2>2. t \in Seq(C)
    <3>1. "t" \in C /\ "\n" \in C
      BY OwnChars DEF CharsOf
    <3> QED
      BY <3>1
  <2> HIDE DEF t, X, C
  <2>3. t \o X \in Seq(C)
    BY <2>1, <2>2, ConcatProperties
  <2> QED
    BY <2>3 DEF t
<1>8. \A x, y, z \in Seq(C) : (x \o y) \o z = x \o (y \o z)
  BY ConcatAssociative, SMTT(60)
<1>3. \A q \in Int : q > 3 => Handed(d, "text", q) = B \o SubSeq(a, 1, q - (S + 2))
  BY DEF Handed
<1>4. IsoText(d) = B \o a
  BY DEF IsoText
<1> HIDE DEF S, C, X, a, B
<1>5. Handed(d, "text", S + 2) = B
  <2>1. S + 2 \in Int /\ S + 2 > 3 /\ (S + 2) - (S + 2) = 0
    BY <1>1
  <2>2. SubSeq(a, 1, 0) = << >>
    BY SubSeqEmpty
  <2>3. B \o << >> = B
    BY <1>2, ConcatEmptySeq
  <2> QED
    BY <1>3, <2>1, <2>2, <2>3
<1>6. Handed(d, "text", AfterTo(d) + 1) = IsoText(d)
  <2> DEFINE q == AfterTo(d) + 1
  <2>1. q \in Int /\ q > 3 /\ q - (S + 2) = Len(a)
    BY <1>1
  <2> HIDE DEF q
  <2>2. SubSeq(a, 1, Len(a)) = a
    BY <1>1, SubSeqFull
  <2>3. Handed(d, "text", q) = B \o a
    BY <1>3, <2>1, <2>2
  <2> QED
    BY <1>4, <2>3 DEF q
<1>7. ASSUME NEW q \in S + 2 .. AfterTo(d)
      PROVE  Handed(d, "text", q + 1) = Handed(d, "text", q) \o <<a[q - (S + 1)]>>
  <2> DEFINE k == q - (S + 2)
             t == SubSeq(a, 1, k)
             one == <<a[k + 1]>>
  <2>1. /\ q \in Int /\ q + 1 \in Int /\ q > 3 /\ q + 1 > 3
        /\ k \in Nat /\ k < Len(a) /\ (q + 1) - (S + 2) = k + 1 /\ q - (S + 1) = k + 1
    BY <1>1, <1>7
  <2> HIDE DEF k
  <2>2. /\ 1 \in 1 .. Len(a) /\ k + 1 \in 1 .. Len(a) /\ (k + 1) - 1 = k
        /\ k \in Int /\ 1 \in Int /\ \A i \in 1 .. k : i \in 1 .. Len(a)
    BY <1>1, <2>1
  <2>3. SubSeq(a, 1, k + 1) = SubSeq(a, 1, (k + 1) - 1) \o <<a[k + 1]>>
    BY <1>1, <2>2, SubSeqRecursiveSecond
  <2>4. \A i \in 1 .. k : a[i] \in C
    BY <1>1, <2>2, ElementOfSeq
  <2>5. t \in Seq(C)
    BY <2>2, <2>4, SubSeqProperties
  <2>6. a[k + 1] \in C
    BY <1>1, <2>2, ElementOfSeq
  <2>7. one \in Seq(C)
    BY <2>6, Singles
  <2>8. SubSeq(a, 1, k + 1) = t \o one
    BY <2>2, <2>3
  <2>9. Handed(d, "text", q + 1) = B \o SubSeq(a, 1, k + 1)
    BY <1>3, <2>1
  <2>10. Handed(d, "text", q) = B \o t
    BY <1>3, <2>1 DEF k
  <2>11. <<a[q - (S + 1)]>> = one
    BY <2>1
  <2> HIDE DEF t, one
  <2>12. (B \o t) \o one = B \o (t \o one)
    <3>1. B \in Seq(C) /\ t \in Seq(C) /\ one \in Seq(C)
      BY <1>2, <2>5, <2>7
    <3> QED
      BY <1>8, <3>1, Zenon
  <2> QED
    BY <2>8, <2>9, <2>10, <2>11, <2>12
<1> QED
  BY <1>5, <1>6, <1>7 DEF S, X, a, B

\* The parser prints the text before the directive, the conversion, and the text
\* behind it.
LEMMA ParserShows ==
  ASSUME ParserInv, SpecInv, CharsInv, ShownInv, Text \/ Convert
  PROVE  CharsInv' /\ ShownInv'
<1> DEFINE S == SizeTo(dir)
           E == AfterTo(dir)
<1>1. /\ S \in Nat /\ E \in Nat /\ 3 <= S
      /\ (p = 1 => At = "t") /\ (p = 2 => At = "\n") /\ (p = 3 => At = "%")
      /\ p \in S + 2 .. E => At \in Char /\ At = dir.after[p - (S + 1)]
      /\ (p = E + 1 => At = NUL) /\ (p = S + 1 => At = dir.conv)
  BY AtFacts
<1>2. /\ spec \in Spec_t /\ (st = "text" => p \in {1, 2, 3} \/ p \in S + 2 .. E + 1)
      /\ st = "spec" => p = S + 1
  BY PlaceFacts
<1>3. dir \in Directives
  BY DEF ParserInv, InFormat
<1> HIDE DEF S, E
<1>4. CASE Text
  <2>1. /\ st = "text" /\ text = << >> /\ todo = << >> /\ At \notin {"%", NUL} /\ Emit(<<At>>)
        /\ UNCHANGED <<dir, console, todo, thr, wire>> /\ st' = "text" /\ p' = p + 1
    BY <1>4 DEF Text, Parsing, Step
  <2>2. p = 1 \/ p = 2 \/ p \in S + 2 .. E
    BY <1>1, <1>2, <2>1
  <2>3. <<At>> \in Seq(Given)
    <3>1. "t" \in Char /\ "\n" \in Char
      BY OwnChars
    <3>2. At \in Char
      BY <1>1, <2>2, <3>1
    <3>3. At \in Given
      BY <3>2, SentFacts
    <3> QED
      BY <3>3, Singles
  <2>4. ASSUME Agreed(dir) PROVE Handed(dir, st', p') = Handed(dir, st, p) \o <<At>>
    <3>1. CASE p = 1
      <4>1. Handed(dir, st, p) = << >> /\ Handed(dir, st', p') = <<"t">> /\ At = "t"
        BY <1>1, <2>1, <3>1 DEF Handed
      <4>2. << >> \o <<"t">> = <<"t">>
        OBVIOUS
      <4> QED
        BY <4>1, <4>2
    <3>2. CASE p = 2
      <4>1. Handed(dir, st, p) = <<"t">> /\ Handed(dir, st', p') = <<"t", "\n">> /\ At = "\n"
        BY <1>1, <2>1, <3>2 DEF Handed
      <4>2. <<"t">> \o <<"\n">> = <<"t", "\n">>
        BY OwnPair
      <4> QED
        BY <4>1, <4>2
    <3>3. CASE p \in S + 2 .. E
      BY <1>1, <1>3, <2>1, <2>4, <3>3, HandedNext DEF S, E
    <3> QED
      BY <2>2, <3>1, <3>2, <3>3
  <2> QED
    BY <2>1, <2>3, <2>4, EmitShows
<1>5. CASE Convert
  <2> DEFINE X == Converted(At, spec, dir.arg)
  <2>1. /\ st = "spec" /\ text = << >> /\ todo = << >> /\ Emit(X)
        /\ UNCHANGED <<dir, console, todo, thr, wire>> /\ st' = "text" /\ p' = p + 1
    BY <1>5 DEF Convert, Parsing, Step
  <2>2. p = S + 1 /\ At = dir.conv
    BY <1>1, <1>2, <2>1
  <2>3. X \in Seq(Given)
    BY <1>2, <1>3, <2>2, ConvertedChars DEF Given
  <2>4. ASSUME Agreed(dir) PROVE Handed(dir, st', p') = Handed(dir, st, p) \o X
    <3>1. spec = FinalSpec(dir)
      BY <2>1, <2>4 DEF SpecInv, Reads
    <3>2. X = IsoConversion(dir)
      BY <1>3, <2>2, <2>4, <3>1, ConversionAgrees
    <3>3. p' = S + 2
      BY <1>1, <2>1, <2>2
    <3>4. Handed(dir, st, p) = <<"t", "\n">>
      BY <2>1 DEF Handed
    <3>5. Handed(dir, st', p') = <<"t", "\n">> \o IsoConversion(dir)
      BY <1>3, <2>1, <2>4, <3>3, HandedNext DEF S
    <3> QED
      BY <3>2, <3>4, <3>5
  <2> HIDE DEF X
  <2> QED
    BY <2>1, <2>3, <2>4, EmitShows
<1> QED
  BY <1>4, <1>5

\* The other steps of the parser print nothing.
LEMMA ParserQuiet ==
  ASSUME ParserInv, CharsInv, ShownInv,
         \/ Percent \/ Flag \/ FlagsEnd \/ Width \/ Dot \/ NoDot
         \/ Precision \/ PrecisionEnd \/ Size \/ SizeEnd \/ Finish
  PROVE  CharsInv' /\ ShownInv'
<1> DEFINE S == SizeTo(dir)
           E == AfterTo(dir)
<1>1. /\ S \in Nat /\ E \in Nat /\ 3 <= S /\ S + 1 <= E
      /\ (p = 1 => At = "t") /\ (p = 2 => At = "\n") /\ (p = 3 => At = "%")
      /\ p \in S + 2 .. E => At # "%" /\ At # NUL
      /\ (p = E + 1 => At = NUL)
  BY AtFacts
<1>2. st = "text" => p \in {1, 2, 3} \/ p \in S + 2 .. E + 1
  BY PlaceFacts
<1>8. dir \in Directives
  BY DEF ParserInv, InFormat
<1> HIDE DEF S, E
<1>3. CASE Percent
  <2>1. /\ st = "text" /\ At = "%" /\ st' = "flags"
        /\ UNCHANGED <<dir, console, text, todo, thr, wire>>
    BY <1>3 DEF Percent, Parsing, Step
  <2>2. p = 3
    BY <1>1, <1>2, <2>1, Classes
  <2>3. Handed(dir, st', p') = Handed(dir, st, p)
    BY <2>1, <2>2 DEF Handed
  <2> QED
    BY <2>1, <2>3, QuietShows
<1>4. CASE Finish
  <2>1. /\ st = "text" /\ At = NUL /\ st' = "done" /\ p' = p /\ text = << >> /\ todo = << >>
        /\ UNCHANGED <<dir, console, text, todo, thr, wire>>
    BY <1>4 DEF Finish, Parsing
  <2>2. p = E + 1
    BY <1>1, <1>2, <2>1, Classes
  <2>3. ASSUME Agreed(dir) PROVE Handed(dir, st', p') = Handed(dir, st, p)
    <3>1. Handed(dir, "text", p) = IsoText(dir)
      BY <1>8, <2>2, <2>3, HandedNext DEF E
    <3>2. Handed(dir, "done", p) = IsoText(dir)
      BY DEF Handed
    <3> QED
      BY <2>1, <3>1, <3>2
  <2> QED
    BY <2>1, <2>3, QuietShows
<1> DEFINE In == {"flags", "width", "precision", "size", "spec"}
<1>5. CASE /\ st \in In /\ st' \in In
           /\ UNCHANGED <<dir, console, text, todo, thr, wire>>
  <2>1. Handed(dir, st', p') = Handed(dir, st, p)
    BY <1>5 DEF Handed
  <2> QED
    BY <1>5, <2>1, QuietShows
<1>6. Flag \/ FlagsEnd \/ Width \/ Dot \/ NoDot
        => st \in In /\ st' \in In /\ UNCHANGED <<dir, console, text, todo, thr, wire>>
  BY DEF Flag, FlagsEnd, Width, Dot, NoDot, Parsing, Step, Stay
<1>7. Precision \/ PrecisionEnd \/ Size \/ SizeEnd
        => st \in In /\ st' \in In /\ UNCHANGED <<dir, console, text, todo, thr, wire>>
  BY DEF Precision, PrecisionEnd, Size, SizeEnd, Parsing, Step, Stay
<1> QED
  BY <1>3, <1>4, <1>5, <1>6, <1>7

\* What is known of a state of printk.
PrintkInv == ParserInv /\ SpecInv /\ CharsInv /\ ShownInv

\* It holds at first,
LEMMA PrintkInit ==
  ASSUME Init
  PROVE  PrintkInv
<1>1. /\ dir \in Directives /\ p = 1 /\ st = "text" /\ text = << >> /\ todo = << >>
      /\ thr = Idle /\ wire = << >>
  BY DEF Init
<1>2. ParserInv
  BY ParserInit
<1>3. SpecInv
  BY <1>1 DEF SpecInv, Reads
<1>4. CharsInv
  BY <1>1, EmptySeq DEF CharsInv
<1>5. ShownInv
  <2>1. Handed(dir, st, p) = << >>
    BY <1>1 DEF Handed
  <2>2. << >> \o << >> = << >>
    OBVIOUS
  <2>3. Stream = << >>
    BY <1>1, <2>2 DEF Stream, Held
  <2>4. Shown(<< >>) = << >>
    BY ShownFacts
  <2> QED
    BY <1>1, <2>1, <2>2, <2>3, <2>4 DEF ShownInv
<1> QED
  BY <1>2, <1>3, <1>4, <1>5 DEF PrintkInv

\* and every step keeps it.
LEMMA PrintkNext ==
  ASSUME PrintkInv, [Next]_vars
  PROVE  PrintkInv'
<1>1. ParserInv /\ SpecInv /\ CharsInv /\ ShownInv
  BY DEF PrintkInv
<1>2. ParserInv'
  BY <1>1, ParserNext
<1>3. CASE Text \/ Convert
  BY <1>1, <1>2, <1>3, ReadsFlags, ParserShows DEF PrintkInv
<1>4. CASE Percent \/ Flag \/ FlagsEnd \/ Finish
  <2>1. SpecInv'
    BY <1>1, <1>4, ReadsFlags
  <2>2. CharsInv' /\ ShownInv'
    BY <1>1, <1>4, ParserQuiet
  <2> QED
    BY <1>2, <2>1, <2>2 DEF PrintkInv
<1>5. CASE Width \/ Dot \/ NoDot
  <2>1. SpecInv'
    BY <1>1, <1>5, ReadsWidth
  <2>2. CharsInv' /\ ShownInv'
    BY <1>1, <1>5, ParserQuiet
  <2> QED
    BY <1>2, <2>1, <2>2 DEF PrintkInv
<1>6. CASE Precision \/ PrecisionEnd \/ Size \/ SizeEnd
  <2>1. SpecInv'
    BY <1>1, <1>6, ReadsSize
  <2>2. CharsInv' /\ ShownInv'
    BY <1>1, <1>6, ParserQuiet
  <2> QED
    BY <1>2, <2>1, <2>2 DEF PrintkInv
<1>7. CASE PutChar \/ Send \/ Drain
  <2>1. UNCHANGED <<dir, st, p, spec>>
    BY <1>7 DEF PutChar, Send, Drain
  <2>2. SpecInv'
    BY <1>1, <2>1 DEF SpecInv
  <2>3. CharsInv' /\ ShownInv'
    BY <1>1, <1>7, PutCharShows, UartShows
  <2> QED
    BY <1>2, <2>2, <2>3 DEF PrintkInv
<1>8. CASE Rest \/ UNCHANGED vars
  <2>1. UNCHANGED vars
    BY <1>8 DEF Rest
  <2>2. Given' = Given /\ Sent' = Sent
    BY <2>1, SentStays DEF vars
  <2>3. SpecInv' /\ CharsInv' /\ ShownInv'
    BY <1>1, <2>1, <2>2 DEF vars, SpecInv, CharsInv, ShownInv, Stream
  <2> QED
    BY <1>2, <2>3 DEF PrintkInv
<1> QED
  BY <1>3, <1>4, <1>5, <1>6, <1>7, <1>8 DEF Next, PrintkStep

\* No NUL reaches a driver or the wire but that of a %c, or the end of a format
\* inside its directive, whatever the format, its argument and the driver.
THEOREM TypeCorrect == Spec => []TypeOK
<1>1. Init => PrintkInv
  BY PrintkInit
<1>2. PrintkInv /\ [Next]_vars => PrintkInv'
  BY PrintkNext
<1>3. PrintkInv => TypeOK
  <2> SUFFICES ASSUME PrintkInv PROVE TypeOK
    OBVIOUS
  <2>1. todo \in Seq(Sent) /\ wire \in Seq(Sent) /\ thr \in Sent \cup {Idle} /\ ParserOK
    BY DEF PrintkInv, CharsInv, ParserInv
  <2>2. (\A i \in DOMAIN todo : todo[i] \in Sent) /\ \A i \in DOMAIN wire : wire[i] \in Sent
    BY <2>1, LenProperties, ElementOfSeq
  <2>3. (~PrintsNUL(dir) => NUL \notin Sent) /\ NUL # Idle
    BY SentFacts DEF NUL, Idle
  <2> QED
    BY <2>1, <2>2, <2>3 DEF TypeOK
<1> QED
  BY <1>1, <1>2, <1>3, PTL DEF Spec

(***************************************************************************)
(* For every directive that printk and ISO C agree on, whatever its flags, *)
(* its width, its precision (below what an int holds) and its argument, in *)
(* every width of int, long and long long: when printk has returned and    *)
(* the UART is idle, what has been received is the text ISO C says,        *)
(* character for character.                                                *)
(***************************************************************************)
THEOREM PrintkFormatsAsISO == Spec => []FormatsAsISO
<1>1. Init => PrintkInv
  BY PrintkInit
<1>2. PrintkInv /\ [Next]_vars => PrintkInv'
  BY PrintkNext
<1>3. PrintkInv => FormatsAsISO
  <2> SUFFICES ASSUME PrintkInv, AllSent, Agreed(dir)
               PROVE  Shown(wire) = IF console = "none" THEN << >> ELSE IsoText(dir)
    BY DEF FormatsAsISO, Received
  <2>1. st = "done" /\ thr = Idle
    BY DEF AllSent
  <2>2. CharsInv /\ ShownInv
    BY DEF PrintkInv
  <2>3. todo = << >> /\ text = << >> /\ wire \in Seq(Sent)
    BY <2>1, <2>2 DEF CharsInv
  <2>4. CASE console = "none"
    <3>1. wire = << >> /\ Shown(<< >>) = << >>
      BY <2>2, <2>4, ShownFacts DEF CharsInv
    <3> QED
      BY <2>4, <3>1
  <2>5. CASE console # "none"
    <3>1. Shown(Stream) \o << >> = IsoText(dir)
      BY <2>1, <2>2, <2>3, <2>5 DEF ShownInv, Handed
    <3>2. Stream = wire
      <4>1. wire \o << >> = wire
        BY <2>3, ConcatEmptySeq
      <4>2. Held(thr) = << >>
        BY <2>1 DEF Held
      <4> QED
        BY <2>3, <4>1, <4>2 DEF Stream
    <3>3. Shown(wire) \in Seq(Sent)
      BY <2>3, ShownFacts
    <3>4. Shown(wire) \o << >> = Shown(wire)
      <4> DEFINE v == Shown(wire)
      <4>1. v \in Seq(Sent)
        BY <3>3
      <4> HIDE DEF v
      <4>2. v \o << >> = v
        BY <4>1, ConcatEmptySeq
      <4> QED
        BY <4>2 DEF v
    <3> QED
      BY <2>5, <3>1, <3>2, <3>4
  <2> QED
    BY <2>4, <2>5
<1> QED
  BY <1>1, <1>2, <1>3, PTL DEF Spec

=============================================================================
