-------------------------- MODULE ChunkedBody_proofs --------------------------
(***************************************************************************)
(* Proofs about the chunked transfer encoding, for every body, every size  *)
(* of the buffers and every base of the digits: no byte is lost or sent    *)
(* twice, the reader stops behind the last chunk, and writer and reader    *)
(* together implement BytePipe.                                            *)
(*                                                                         *)
(* What is on the wire is described by the place of its first and of its   *)
(* last unit: how much of which chunk has gone by.  Each unit leads from   *)
(* one place to the next (Path).  The inductive invariant says that the    *)
(* wire leads from where the ChunkedReader is to where the ChunkedWriter   *)
(* is; the properties are read off it.                                     *)
(***************************************************************************)
EXTENDS ChunkedBody, Sums_proofs

LEMMA Constants ==
    /\ Source \in Seq(Nat) /\ Len(Source) \in Nat
    /\ MaxRead \in Nat /\ MaxRead > 0
    /\ Capacity \in Nat /\ Capacity > 0
    /\ Base \in Nat /\ Base > 1
    /\ HeaderRoom \in Nat
BY ChunkedAssumption

-----------------------------------------------------------------------------
(* Digits and ParseHex. *)

\* Division by the base makes a number smaller, keeps the order, and loses the remainder.
LEMMA Division ==
    ASSUME NEW n \in Nat
    PROVE  /\ n \div Base \in Nat /\ n % Base \in Nat
           /\ Base * (n \div Base) + (n % Base) = n
<1> DEFINE b == Base
<1>1. b \in Nat /\ b > 0
  BY Constants
<1> HIDE DEF b
<1>2. n \div b \in Nat /\ n % b \in Nat
  BY <1>1
<1>3. b * (n \div b) + (n % b) = n
  BY <1>1
<1> QED
  BY <1>2, <1>3 DEF b

LEMMA DivisionLess ==
    ASSUME NEW n \in Nat, n >= Base
    PROVE  n \div Base < n
<1> DEFINE q == n \div Base
<1>1. q \in Nat /\ Base * q <= n /\ Base \in Nat /\ Base >= 2
  BY Constants, Division
<1> HIDE DEF q
<1>2. SUFFICES ASSUME q >= n PROVE FALSE
  BY <1>1 DEF q
<1>3. Base * q >= 2 * q
  BY <1>1
<1> QED
  BY <1>1, <1>2, <1>3, Constants

LEMMA DivisionMonotonic ==
    ASSUME NEW m \in Nat, NEW n \in Nat, m <= n
    PROVE  m \div Base <= n \div Base
<1> DEFINE q == m \div Base
           r == n \div Base
<1>1. /\ q \in Nat /\ r \in Nat /\ Base \in Nat /\ Base > 1
      /\ Base * q <= m /\ n < Base * r + Base
  BY Constants
<1> HIDE DEF q, r
<1>2. SUFFICES ASSUME q >= r + 1 PROVE FALSE
  BY <1>1 DEF q, r
<1>3. Base * q >= Base * (r + 1)
  BY <1>1, <1>2
<1>4. Base * (r + 1) = Base * r + Base
  BY <1>1
<1> QED
  BY <1>1, <1>3, <1>4

\* The equation of Digits up to a number.
AreDigits(f, N) ==
    /\ f \in [0..N -> Seq(Nat)]
    /\ \A n \in 0..N : f[n] = IF n < Base THEN <<n>> ELSE Append(f[n \div Base], n % Base)

\* For each number there is a function that satisfies it.
LEMMA DigitsExist == \A N \in Nat : \E f : AreDigits(f, N)
<1> DEFINE T == {N \in Nat : \E f : AreDigits(f, N)}
<1>1. 0 \in T
  <2>1. AreDigits([n \in 0..0 |-> <<n>>], 0)
    BY Constants DEF AreDigits
  <2> QED
    BY <2>1
<1>2. ASSUME NEW N \in Nat, N \in T PROVE N + 1 \in T
  <2>1. PICK f : AreDigits(f, N)
    BY <1>2
  <2> DEFINE last == IF N + 1 < Base THEN <<N + 1>> ELSE Append(f[(N + 1) \div Base], (N + 1) % Base)
             g == [n \in 0..N + 1 |-> IF n = N + 1 THEN last ELSE f[n]]
  <2>2. last \in Seq(Nat)
    <3>1. CASE N + 1 < Base
      BY <3>1
    <3>2. CASE ~(N + 1 < Base)
      <4>1. (N + 1) \div Base \in 0..N /\ (N + 1) % Base \in Nat
        BY <3>2, Constants, Division, DivisionLess
      <4>2. f[(N + 1) \div Base] \in Seq(Nat)
        BY <2>1, <4>1 DEF AreDigits
      <4> QED
        BY <3>2, <4>1, <4>2
    <3> QED
      BY <3>1, <3>2
  <2>3. g \in [0..N + 1 -> Seq(Nat)] /\ g[N + 1] = last /\ \A n \in 0..N : g[n] = f[n]
    <3> HIDE DEF last
    <3> QED
      BY <2>1, <2>2 DEF AreDigits
  <2> HIDE DEF g
  <2>4. ASSUME NEW n \in 0..N + 1
        PROVE  g[n] = IF n < Base THEN <<n>> ELSE Append(g[n \div Base], n % Base)
    <3>1. n >= Base => n \div Base \in 0..N
      BY Constants, Division, DivisionLess
    <3>2. n >= Base => g[n \div Base] = f[n \div Base]
      BY <2>3, <3>1
    <3>3. CASE n = N + 1
      BY <2>3, <3>2, <3>3, Constants
    <3>4. CASE n # N + 1
      <4>1. n \in 0..N /\ g[n] = f[n]
        BY <2>3, <3>4
      <4>2. f[n] = IF n < Base THEN <<n>> ELSE Append(f[n \div Base], n % Base)
        BY <2>1, <4>1 DEF AreDigits
      <4> QED
        BY <3>2, <4>1, <4>2, Constants
    <3> QED
      BY <3>3, <3>4
  <2>5. AreDigits(g, N + 1)
    BY <2>3, <2>4, Zenon DEF AreDigits
  <2> QED
    BY <2>5
<1> HIDE DEF T
<1>3. Nat \subseteq T
  BY <1>1, <1>2, Induction
<1> QED
  BY <1>3 DEF T

\* Two of them agree where both are defined.
LEMMA DigitsAgree ==
    ASSUME NEW M \in Nat, NEW N \in Nat, M <= N,
           NEW f, NEW g, AreDigits(f, M), AreDigits(g, N)
    PROVE  \A n \in 0..M : f[n] = g[n]
<1> DEFINE S == {n \in 0..M : f[n] # g[n]}
<1> SUFFICES ASSUME S # {} PROVE FALSE
  OBVIOUS
<1>1. PICK n \in S : \A m \in S : n <= m
  <2>1. S \in SUBSET Nat
    OBVIOUS
  <2> HIDE DEF S
  <2> QED
    BY <2>1, LeastNatural
<1>2. n \in 0..M /\ n \in 0..N /\ f[n] # g[n]
  OBVIOUS
<1>3. CASE n < Base
  BY <1>2, <1>3 DEF AreDigits
<1>4. CASE ~(n < Base)
  <2>1. n \div Base \in 0..M /\ n \div Base < n
    BY <1>2, <1>4, Constants, Division, DivisionLess
  <2>2. f[n \div Base] = g[n \div Base]
    <3>1. n \div Base \notin S
      BY <1>1, <1>2, <2>1
    <3> QED
      BY <2>1, <3>1
  <2> QED
    BY <1>2, <1>4, <2>2 DEF AreDigits
<1> QED
  BY <1>3, <1>4

\* The recursion defines a function: what its definition says of the digits.
LEMMA DigitsDefined ==
    ASSUME NEW n \in Nat
    PROVE  /\ Digits[n] \in Seq(Nat)
           /\ n < Base => Digits[n] = <<n>>
           /\ n >= Base => Digits[n] = Append(Digits[n \div Base], n % Base)
<1> DEFINE h == [N \in Nat |-> CHOOSE f : AreDigits(f, N)]
           f == [m \in Nat |-> h[m][m]]
           Is(g) == g = [m \in Nat |-> IF m < Base THEN <<m>> ELSE Append(g[m \div Base], m % Base)]
<1>1. \A N \in Nat : AreDigits(h[N], N)
  BY DigitsExist
<1> HIDE DEF h
<1>2. ASSUME NEW m \in Nat
      PROVE  /\ f[m] \in Seq(Nat)
             /\ f[m] = IF m < Base THEN <<m>> ELSE Append(f[m \div Base], m % Base)
  <2>1. /\ h[m][m] \in Seq(Nat)
        /\ h[m][m] = IF m < Base THEN <<m>> ELSE Append(h[m][m \div Base], m % Base)
    BY <1>1 DEF AreDigits
  <2>2. CASE m < Base
    BY <2>1, <2>2
  <2>3. CASE ~(m < Base)
    <3>1. m \div Base \in Nat /\ m \div Base < m
      BY <2>3, Constants, Division, DivisionLess
    <3>2. h[m][m \div Base] = h[m \div Base][m \div Base]
      BY <1>1, <3>1, DigitsAgree
    <3> QED
      BY <2>1, <2>3, <3>1, <3>2
  <2> QED
    BY <2>2, <2>3
<1>3. Is(f)
  <2>1. DOMAIN f = Nat /\ f = [m \in Nat |-> f[m]]
    OBVIOUS
  <2> HIDE DEF f
  <2> QED
    BY <1>2, <2>1
<1>4. Is(Digits)
  BY <1>3 DEF Digits
<1> HIDE DEF f
<1>5. \A m \in Nat : Digits[m] = IF m < Base THEN <<m>> ELSE Append(Digits[m \div Base], m % Base)
  BY <1>4
<1> DEFINE S == {m \in Nat : Digits[m] \notin Seq(Nat)}
<1>6. S = {}
  <2> SUFFICES ASSUME S # {} PROVE FALSE
    OBVIOUS
  <2>1. PICK m \in S : \A k \in S : m <= k
    <3>1. S \in SUBSET Nat
      OBVIOUS
    <3> HIDE DEF S
    <3> QED
      BY <3>1, LeastNatural
  <2>4. /\ m \in Nat /\ Digits[m] \notin Seq(Nat)
        /\ Digits[m] = IF m < Base THEN <<m>> ELSE Append(Digits[m \div Base], m % Base)
    BY <1>5
  <2>2. CASE m < Base
    BY <2>2, <2>4
  <2>3. CASE ~(m < Base)
    <3>1. m \div Base \in Nat /\ m \div Base < m /\ m % Base \in Nat
      BY <2>3, <2>4, Constants, Division, DivisionLess
    <3>2. m \div Base \notin S
      BY <2>1, <3>1
    <3>3. Digits[m \div Base] \in Seq(Nat)
      BY <3>1, <3>2
    <3> QED
      BY <2>3, <2>4, <3>1, <3>3
  <2> QED
    BY <2>2, <2>3
<1>7. Digits[n] \in Seq(Nat)
  BY <1>6
<1>8. n < Base => Digits[n] = <<n>>
  BY <1>5
<1>9. n >= Base => Digits[n] = Append(Digits[n \div Base], n % Base)
  <2>1. n >= Base => ~(n < Base)
    BY Constants
  <2>2. Digits[n] = IF n < Base THEN <<n>> ELSE Append(Digits[n \div Base], n % Base)
    BY <1>5
  <2> QED
    BY <2>1, <2>2
<1> QED
  BY <1>7, <1>8, <1>9

\* A number of more than one digit.
LEMMA MoreDigits ==
    ASSUME NEW n \in Nat, ~(n < Base)
    PROVE  /\ n \div Base \in Nat /\ n % Base \in Nat /\ n \div Base < n
           /\ Base * (n \div Base) + (n % Base) = n
           /\ Digits[n] = Append(Digits[n \div Base], n % Base)
           /\ Digits[n \div Base] \in Seq(Nat)
<1>1. n >= Base
  BY Constants
<1>2. /\ n \div Base \in Nat /\ n % Base \in Nat
      /\ Base * (n \div Base) + (n % Base) = n
  BY Division
<1>3. n \div Base < n
  BY <1>1, DivisionLess
<1>4. Digits[n] = Append(Digits[n \div Base], n % Base)
  BY <1>1, DigitsDefined
<1>5. Digits[n \div Base] \in Seq(Nat)
  BY <1>2, DigitsDefined
<1> QED
  BY <1>2, <1>3, <1>4, <1>5

\* What the value of digits is worked out by.
AreValues(u, s) ==
    /\ u \in [0..Len(s) -> Nat] /\ u[0] = 0
    /\ \A i \in 1..Len(s) : u[i] = Base * u[i - 1] + s[i]

LEMMA ParseHexDefined ==
    ASSUME NEW s \in Seq(Nat)
    PROVE  \E u : AreValues(u, s) /\ ParseHex(s) = u[Len(s)]
<1> DEFINE N == Len(s)
           V == Nat
           base == 0
           next(i, v) == Base * v + s[i]
           step == [i \in 1..N |-> [v \in V |-> next(i, v)]]
           Rec(u) == u = [i \in 0..N |-> IF i = 0 THEN base ELSE next(i, u[i - 1])]
<1>1. N \in Nat /\ (\A i \in 1..N : s[i] \in Nat) /\ base \in V
  OBVIOUS
<1>2. \A i \in 1..N, v \in V : next(i, v) \in V
  BY <1>1, Constants
<1>3. step \in [1..N -> [V -> V]] /\ \A i \in 1..N, v \in V : step[i][v] = next(i, v)
  BY <1>2
<1>4. ParseHex(s) = (CHOOSE u : Rec(u))[N]
  BY Zenon DEF ParseHex
<1> HIDE DEF N, V, base, next, step
<1>5. PICK f : IsRecursion(f, N, V, base, step)
  BY <1>1, <1>3, Recursion
<1>6. ASSUME NEW i \in 1..N PROVE f[i] = next(i, f[i - 1])
  <2>1. i - 1 \in 0..N /\ f[i] = step[i][f[i - 1]]
    BY <1>1, <1>5 DEF IsRecursion
  <2>2. f[i - 1] \in V
    BY <1>5, <2>1 DEF IsRecursion
  <2> QED
    BY <1>3, <2>1, <2>2
<1>7. Rec(f)
  <2>1. ASSUME NEW i \in 0..N PROVE f[i] = IF i = 0 THEN base ELSE next(i, f[i - 1])
    <3>1. i # 0 => i \in 1..N
      BY <1>1
    <3> QED
      BY <1>5, <1>6, <3>1 DEF IsRecursion
  <2>2. f = [i \in 0..N |-> f[i]]
    BY <1>5 DEF IsRecursion
  <2> QED
    BY <2>1, <2>2
<1> DEFINE u == CHOOSE w : Rec(w)
<1>8. Rec(u)
  BY <1>7
<1> HIDE DEF u
<1>9. /\ u = [i \in 0..N |-> u[i]]
      /\ \A i \in 0..N : u[i] = IF i = 0 THEN base ELSE next(i, u[i - 1])
  BY <1>8
<1>10. u[0] = base /\ \A i \in 1..N : u[i] = next(i, u[i - 1])
  <2>1. 0 \in 0..N /\ \A i \in 1..N : i \in 0..N /\ i # 0
    BY <1>1
  <2> QED
    BY <1>9, <2>1, Zenon
<1>11. \A i \in 0..N : u[i] = f[i]
  <2>1. u[0] = f[0]
    BY <1>5, <1>10 DEF IsRecursion
  <2>2. \A i \in 1..N : u[i - 1] = f[i - 1] => u[i] = f[i]
    BY <1>6, <1>10
  <2> QED
    BY <1>1, <2>1, <2>2, RecursionAgrees, ZenonT(60)
<1>12. u \in [0..N -> V]
  BY <1>5, <1>9, <1>11 DEF IsRecursion
<1>13. AreValues(u, s)
  BY <1>10, <1>12 DEF AreValues, N, V, base, next
<1> QED
  BY <1>4, <1>13 DEF N, u

\* One more digit.
LEMMA ParseHexAppend ==
    ASSUME NEW s \in Seq(Nat), NEW d \in Nat
    PROVE  ParseHex(s) \in Nat /\ ParseHex(Append(s, d)) = Base * ParseHex(s) + d
<1> DEFINE t == Append(s, d)
           N == Len(s)
<1>1. /\ t \in Seq(Nat) /\ Len(t) = N + 1 /\ t[N + 1] = d /\ N \in Nat
      /\ \A i \in 1..N : t[i] = s[i]
  OBVIOUS
<1> HIDE DEF t
<1>2. PICK u : AreValues(u, s) /\ ParseHex(s) = u[N]
  BY ParseHexDefined
<1>3. PICK v : AreValues(v, t) /\ ParseHex(t) = v[N + 1]
  BY <1>1, ParseHexDefined
<1> HIDE DEF N
<1>4. /\ u[0] = v[0]
      /\ \A i \in 1..N : u[i - 1] = v[i - 1] => u[i] = v[i]
  <2>1. u[0] = v[0]
    BY <1>2, <1>3 DEF AreValues
  <2>2. ASSUME NEW i \in 1..N, u[i - 1] = v[i - 1] PROVE u[i] = v[i]
    <3>1. u[i] = Base * u[i - 1] + s[i]
      BY <1>2 DEF AreValues, N
    <3>2. v[i] = Base * v[i - 1] + t[i]
      BY <1>1, <1>3 DEF AreValues
    <3> QED
      BY <1>1, <2>2, <3>1, <3>2
  <2> QED
    BY <2>1, <2>2
<1>5. \A i \in 0..N : u[i] = v[i]
  <2>1. N \in Nat /\ u[0] = v[0]
    BY <1>1, <1>4
  <2>2. \A i \in 1..N : u[i - 1] = v[i - 1] => u[i] = v[i]
    BY <1>4
  <2> QED
    BY <2>1, <2>2, RecursionAgrees, ZenonT(60)
<1>6. u[N] = v[N] /\ u[N] \in Nat
  BY <1>1, <1>2, <1>5 DEF AreValues, N
<1>7. v[N + 1] = Base * v[(N + 1) - 1] + t[N + 1]
  BY <1>1, <1>3 DEF AreValues
<1>8. (N + 1) - 1 = N
  BY <1>1
<1> QED
  BY <1>1, <1>2, <1>3, <1>6, <1>7, <1>8 DEF t

LEMMA ParseHexEmpty == ParseHex(<< >>) = 0
<1>1. << >> \in Seq(Nat) /\ Len(<< >>) = 0
  OBVIOUS
<1>2. PICK u : AreValues(u, << >>) /\ ParseHex(<< >>) = u[Len(<< >>)]
  BY <1>1, ParseHexDefined
<1> QED
  BY <1>1, <1>2 DEF AreValues

\* How many digits a number has.
Wide(n) == Len(Digits[n])

LEMMA DigitsParsed ==
    ASSUME NEW n \in Nat
    PROVE  ParseHex(Digits[n]) = n /\ Wide(n) \in Nat /\ Wide(n) >= 1
<1> DEFINE Good(m) == ParseHex(Digits[m]) = m /\ Wide(m) \in Nat /\ Wide(m) >= 1
           S == {m \in Nat : ~Good(m)}
<1> SUFFICES ASSUME S # {} PROVE FALSE
  OBVIOUS
<1>1. PICK m \in S : \A k \in S : m <= k
  <2>1. S \in SUBSET Nat
    OBVIOUS
  <2> HIDE DEF S
  <2> QED
    BY <2>1, LeastNatural
<1>2. m \in Nat /\ ~Good(m)
  OBVIOUS
<1>3. CASE m < Base
  <2>1. Digits[m] = <<m>> /\ <<m>> = Append(<< >>, m) /\ << >> \in Seq(Nat)
    BY <1>2, <1>3, DigitsDefined
  <2>2. ParseHex(Append(<< >>, m)) = Base * ParseHex(<< >>) + m
    BY <1>2, <2>1, ParseHexAppend
  <2>3. ParseHex(Digits[m]) = m
    BY <1>2, <2>1, <2>2, ParseHexEmpty, Constants
  <2>4. Wide(m) = 1
    BY <2>1 DEF Wide
  <2> QED
    BY <1>2, <2>3, <2>4
<1>4. CASE ~(m < Base)
  <2> DEFINE q == m \div Base
             x == m % Base
  <2>1. /\ q \in Nat /\ x \in Nat /\ q < m /\ Base * q + x = m
        /\ Digits[m] = Append(Digits[q], x) /\ Digits[q] \in Seq(Nat)
    BY <1>2, <1>4, MoreDigits
  <2> HIDE DEF q, x
  <2>2. Good(q)
    <3>1. q \notin S
      BY <1>1, <1>2, <2>1
    <3> QED
      BY <2>1, <3>1
  <2>3. ParseHex(Digits[m]) = m
    BY <2>1, <2>2, ParseHexAppend
  <2>4. Wide(m) = Wide(q) + 1
    BY <2>1 DEF Wide
  <2> QED
    BY <1>2, <2>2, <2>3, <2>4
<1> QED
  BY <1>3, <1>4

\* A larger number has no fewer digits.
LEMMA WideMonotonic ==
    ASSUME NEW m \in Nat, NEW n \in Nat, m <= n
    PROVE  Wide(m) <= Wide(n)
<1> DEFINE Good(k) == \A j \in 0..k : Wide(j) <= Wide(k)
           S == {k \in Nat : ~Good(k)}
<1> SUFFICES ASSUME S # {} PROVE FALSE
  OBVIOUS
<1>1. PICK k \in S : \A i \in S : k <= i
  <2>1. S \in SUBSET Nat
    OBVIOUS
  <2> HIDE DEF S
  <2> QED
    BY <2>1, LeastNatural
<1>2. PICK j \in 0..k : ~(Wide(j) <= Wide(k))
  OBVIOUS
<1>3. k \in Nat /\ j \in Nat /\ j <= k
  OBVIOUS
<1>4. Wide(j) \in Nat /\ Wide(k) \in Nat /\ Wide(k) >= 1
  BY <1>3, DigitsParsed
<1>5. CASE j < Base
  <2>1. Digits[j] = <<j>>
    BY <1>3, <1>5, DigitsDefined
  <2>3. Wide(j) = 1
    BY <2>1 DEF Wide
  <2> QED
    BY <1>2, <1>4, <2>3
<1>6. CASE ~(j < Base)
  <2> DEFINE p == j \div Base
             q == k \div Base
  <2>1. ~(k < Base)
    BY <1>3, <1>6, Constants
  <2>7. /\ p \in Nat
        /\ Digits[j] = Append(Digits[p], j % Base) /\ Digits[p] \in Seq(Nat)
    BY <1>3, <1>6, MoreDigits
  <2>8. /\ q \in Nat /\ q < k
        /\ Digits[k] = Append(Digits[q], k % Base) /\ Digits[q] \in Seq(Nat)
    BY <1>3, <2>1, MoreDigits
  <2>2. p <= q
    BY <1>3, DivisionMonotonic
  <2>3. j % Base \in Nat /\ k % Base \in Nat
    BY <1>3, Division
  <2> HIDE DEF p, q
  <2>4. Wide(j) = Wide(p) + 1 /\ Wide(k) = Wide(q) + 1
    BY <2>3, <2>7, <2>8 DEF Wide
  <2>5. Wide(p) <= Wide(q)
    <3>1. q \notin S
      BY <1>1, <1>3, <2>8
    <3> QED
      BY <2>2, <2>7, <2>8, <3>1
  <2>6. Wide(p) \in Nat /\ Wide(q) \in Nat
    BY <2>7, <2>8, DigitsParsed
  <2> QED
    BY <1>2, <2>4, <2>5, <2>6
<1> QED
  BY <1>5, <1>6

-----------------------------------------------------------------------------
(* What is on the wire: the chunks one after the other. *)

Units == [kind : {"byte", "digit", "cr", "nl", "next"}, n : Nat]

\* The length of a chunk's header, and of a chunk, of so many bytes.
Intro(n) == Wide(n) + 2
Full(n) == Intro(n) + n + 2

\* So many bytes of the body, from behind the p-th; a chunk of them.
Part(p, n) == [i \in 1..n |-> Byte(Source[p + i])]
Chunk(n, p) == Header(n) \o (Part(p, n) \o CRLF)

LEMMA UnitTypes ==
    /\ \A b \in Nat : Byte(b) \in Units /\ Byte(b).kind = "byte" /\ Byte(b).n = b
    /\ \A d \in Nat : Digit(d) \in Units /\ Digit(d).kind = "digit" /\ Digit(d).n = d
    /\ CR \in Units /\ CR.kind = "cr"
    /\ NL \in Units /\ NL.kind = "nl"
    /\ NextMessage \in Units /\ NextMessage.kind = "next"
<1>1. \A b \in Nat : Byte(b) \in Units /\ Byte(b).kind = "byte" /\ Byte(b).n = b
  BY DEF Units, Byte
<1>2. \A d \in Nat : Digit(d) \in Units /\ Digit(d).kind = "digit" /\ Digit(d).n = d
  BY DEF Units, Digit
<1>3. CR \in Units /\ CR.kind = "cr" /\ NL \in Units /\ NL.kind = "nl"
  BY DEF Units, CR, NL
<1>4. NextMessage \in Units /\ NextMessage.kind = "next"
  BY DEF Units, NextMessage
<1> QED
  BY <1>1, <1>2, <1>3, <1>4

\* The elements of two sequences put together.
LEMMA Joined ==
    ASSUME NEW s \in Seq(Units), NEW t \in Seq(Units)
    PROVE  /\ s \o t \in Seq(Units) /\ Len(s) \in Nat /\ Len(t) \in Nat
           /\ Len(s \o t) = Len(s) + Len(t)
           /\ \A i \in 1..Len(s) : (s \o t)[i] = s[i]
           /\ \A i \in 1..Len(t) : (s \o t)[Len(s) + i] = t[i]
OBVIOUS

LEMMA Lengths ==
    ASSUME NEW n \in Nat
    PROVE  /\ Wide(n) \in Nat /\ Wide(n) >= 1
           /\ Intro(n) = Wide(n) + 2 /\ Intro(n) \in Nat
           /\ Full(n) = Wide(n) + n + 4 /\ Full(n) \in Nat
BY DigitsParsed DEF Intro, Full

LEMMA CrlfUnits ==
    CRLF \in Seq(Units) /\ Len(CRLF) = 2 /\ CRLF[1] = CR /\ CRLF[2] = NL
BY UnitTypes DEF CRLF

LEMMA HeaderUnits ==
    ASSUME NEW n \in Nat
    PROVE  /\ Header(n) \in Seq(Units) /\ Len(Header(n)) = Intro(n)
           /\ \A i \in 1..Wide(n) : /\ Digits[n][i] \in Nat
                                    /\ Header(n)[i] = Digit(Digits[n][i])
           /\ Header(n)[Wide(n) + 1] = CR /\ Header(n)[Wide(n) + 2] = NL
<1> DEFINE ds == Digits[n]
           w == Len(ds)
           h == [i \in DOMAIN ds |-> Digit(ds[i])]
           e == CRLF
<1>1. ds \in Seq(Nat) /\ w \in Nat /\ w = Wide(n) /\ \A i \in 1..w : ds[i] \in Nat
  BY DigitsDefined DEF Wide
<1>2. DOMAIN ds = 1..w
  BY <1>1
<1>3. h \in Seq(Units) /\ Len(h) = w /\ \A i \in 1..w : h[i] = Digit(ds[i])
  <2>1. h = [i \in 1..w |-> Digit(ds[i])]
    BY <1>2
  <2> HIDE DEF ds, h, w
  <2> QED
    BY <1>1, <2>1, UnitTypes
<1>4. e \in Seq(Units) /\ Len(e) = 2 /\ e[1] = CR /\ e[2] = NL
  BY CrlfUnits
<1>5. Header(n) = h \o e
  BY DEF Header
<1> HIDE DEF ds, w, h, e
<1>6. /\ h \o e \in Seq(Units) /\ Len(h \o e) = w + 2
      /\ \A i \in 1..w : (h \o e)[i] = h[i]
      /\ (h \o e)[w + 1] = e[1] /\ (h \o e)[w + 2] = e[2]
  <2>1. /\ h \o e \in Seq(Units) /\ Len(h \o e) = Len(h) + Len(e)
        /\ \A i \in 1..Len(h) : (h \o e)[i] = h[i]
        /\ \A i \in 1..Len(e) : (h \o e)[Len(h) + i] = e[i]
    BY <1>3, <1>4, Joined
  <2>2. 1 \in 1..2 /\ 2 \in 1..2
    OBVIOUS
  <2> QED
    BY <1>1, <1>3, <1>4, <2>1, <2>2
<1> QED
  BY <1>1, <1>3, <1>4, <1>5, <1>6 DEF Intro, ds

LEMMA PartUnits ==
    ASSUME NEW p \in Nat, NEW n \in Nat, p + n <= Len(Source)
    PROVE  /\ Part(p, n) \in Seq(Units) /\ Len(Part(p, n)) = n
           /\ \A i \in 1..n : Source[p + i] \in Nat /\ Part(p, n)[i] = Byte(Source[p + i])
<1>1. \A i \in 1..n : p + i \in 1..Len(Source)
  BY Constants
<1>2. \A i \in 1..n : Source[p + i] \in Nat
  BY <1>1, Constants
<1>3. \A i \in 1..n : Byte(Source[p + i]) \in Units
  BY <1>2, UnitTypes
<1> QED
  BY <1>2, <1>3 DEF Part

\* A chunk, unit by unit.
LEMMA ChunkUnits ==
    ASSUME NEW n \in Nat, NEW p \in Nat, p + n <= Len(Source)
    PROVE  /\ Chunk(n, p) \in Seq(Units) /\ Len(Chunk(n, p)) = Full(n)
           /\ \A i \in 1..Intro(n) : Chunk(n, p)[i] = Header(n)[i]
           /\ \A i \in 1..n : Chunk(n, p)[Intro(n) + i] = Byte(Source[p + i])
           /\ Chunk(n, p)[Intro(n) + n + 1] = CR /\ Chunk(n, p)[Intro(n) + n + 2] = NL
<1> DEFINE h == Header(n)
           b == Part(p, n)
           e == CRLF
           w == Intro(n)
<1>1. h \in Seq(Units) /\ Len(h) = w /\ w \in Nat
  <2>1. Header(n) \in Seq(Units) /\ Len(Header(n)) = Intro(n)
    BY HeaderUnits
  <2>2. Intro(n) \in Nat
    BY Lengths
  <2> QED
    BY <2>1, <2>2
<1>2. b \in Seq(Units) /\ Len(b) = n /\ \A i \in 1..n : b[i] = Byte(Source[p + i])
  BY PartUnits
<1>3. e \in Seq(Units) /\ Len(e) = 2 /\ e[1] = CR /\ e[2] = NL
  BY CrlfUnits
<1>4. Chunk(n, p) = h \o (b \o e) /\ Full(n) = w + n + 2
  BY DEF Chunk, Full
<1> HIDE DEF h, b, e, w
<1> DEFINE r == b \o e
<1>5. /\ r \in Seq(Units) /\ Len(r) = n + 2 /\ \A i \in 1..n : r[i] = b[i]
      /\ r[n + 1] = CR /\ r[n + 2] = NL
  <2>1. /\ r \in Seq(Units) /\ Len(r) = Len(b) + Len(e)
        /\ \A i \in 1..Len(b) : r[i] = b[i]
        /\ \A i \in 1..Len(e) : r[Len(b) + i] = e[i]
    BY <1>2, <1>3, Joined DEF r
  <2>2. 1 \in 1..2 /\ 2 \in 1..2
    OBVIOUS
  <2> HIDE DEF r
  <2> QED
    BY <1>2, <1>3, <2>1, <2>2
<1> HIDE DEF r
<1>6. /\ h \o r \in Seq(Units) /\ Len(h \o r) = w + (n + 2)
      /\ \A i \in 1..w : (h \o r)[i] = h[i]
      /\ \A i \in 1..(n + 2) : (h \o r)[w + i] = r[i]
  <2>1. /\ h \o r \in Seq(Units) /\ Len(h \o r) = Len(h) + Len(r)
        /\ \A i \in 1..Len(h) : (h \o r)[i] = h[i]
        /\ \A i \in 1..Len(r) : (h \o r)[Len(h) + i] = r[i]
    BY <1>1, <1>5, Joined
  <2> QED
    BY <1>1, <1>5, <2>1
<1>7. \A i \in 1..n : (h \o r)[w + i] = Byte(Source[p + i])
  <2>1. \A i \in 1..n : i \in 1..(n + 2)
    OBVIOUS
  <2> QED
    BY <1>2, <1>5, <1>6, <2>1
<1>8. (h \o r)[w + (n + 1)] = CR /\ (h \o r)[w + (n + 2)] = NL
  <2>1. n + 1 \in 1..(n + 2) /\ n + 2 \in 1..(n + 2)
    OBVIOUS
  <2> QED
    BY <1>5, <1>6, <2>1
<1>9. w + (n + 1) = w + n + 1 /\ w + (n + 2) = w + n + 2
  BY <1>1
<1> QED
  BY <1>4, <1>6, <1>7, <1>8, <1>9 DEF h, w, r

-----------------------------------------------------------------------------
(* Places on the wire. *)

\* k units of the chunk of n bytes from behind the p-th have gone by; a unit of the
\* next message is counted with the last chunk.  Nothing has gone by in the first place.
Labels ==
    {l \in [n : 0..Capacity, p : 0..Len(Source), k : Nat] :
        /\ l.p + l.n <= Len(Source)
        /\ l.k <= IF l.n = 0 THEN Full(0) + 1 ELSE Full(l.n)
        /\ l.k = 0 => l.n = 0 /\ l.p = 0
        /\ l.k > 0 /\ l.n = 0 => l.p = Len(Source)}

\* A chunk may begin.
Between(l) == l.k = 0 \/ (l.n > 0 /\ l.k = Full(l.n))

Follows(l, m) ==
    \/ l.k > 0 /\ m.n = l.n /\ m.p = l.p /\ m.k = l.k + 1
    \/ Between(l) /\ m.k = 1 /\ m.p = l.p + l.n

\* The last unit that has gone by.
Unit(l) == IF l.k <= Full(l.n) THEN Chunk(l.n, l.p)[l.k] ELSE NextMessage

IsPath(f, u, l, m) ==
    /\ f \in [0..Len(u) -> Labels] /\ f[0] = l /\ f[Len(u)] = m
    /\ \A i \in 1..Len(u) : Follows(f[i - 1], f[i]) /\ u[i] = Unit(f[i])

\* What lies between two places.
Path(u, l, m) == \E f : IsPath(f, u, l, m)

LEMMA LabelFacts ==
    ASSUME NEW l \in Labels
    PROVE  /\ l.n \in Nat /\ l.n <= Capacity /\ l.p \in Nat /\ l.p + l.n <= Len(Source)
           /\ l.k \in Nat
           /\ l.n = 0 => l.k <= Full(0) + 1
           /\ l.n > 0 => l.k <= Full(l.n)
           /\ l.k = 0 => l.n = 0 /\ l.p = 0
           /\ l.k > 0 /\ l.n = 0 => l.p = Len(Source)
BY Constants DEF Labels

LEMMA LabelEqual ==
    ASSUME NEW l \in Labels, NEW m \in Labels, l.n = m.n, l.p = m.p, l.k = m.k
    PROVE  l = m
<1>1. /\ l = [n |-> l.n, p |-> l.p, k |-> l.k]
      /\ m = [n |-> m.n, p |-> m.p, k |-> m.k]
  BY DEF Labels
<1> QED
  BY <1>1

LEMMA PathEnds ==
    ASSUME NEW u \in Seq(Units), NEW l, NEW m, Path(u, l, m)
    PROVE  l \in Labels /\ m \in Labels
<1>1. PICK f : IsPath(f, u, l, m)
  BY DEF Path
<1> QED
  BY <1>1 DEF IsPath

LEMMA PathEmpty ==
    ASSUME NEW l \in Labels
    PROVE  Path(<< >>, l, l)
<1>1. IsPath([i \in 0..0 |-> l], << >>, l, l)
  BY DEF IsPath
<1> QED
  BY <1>1 DEF Path

LEMMA PathNothing ==
    ASSUME NEW l, NEW m, Path(<< >>, l, m)
    PROVE  l = m
<1>1. PICK f : IsPath(f, << >>, l, m)
  BY DEF Path
<1> QED
  BY <1>1 DEF IsPath

LEMMA PathJoin ==
    ASSUME NEW u \in Seq(Units), NEW v \in Seq(Units), NEW l, NEW m, NEW o,
           Path(u, l, m), Path(v, m, o)
    PROVE  Path(u \o v, l, o)
<1>1. PICK f : IsPath(f, u, l, m)
  BY DEF Path
<1>2. PICK g : IsPath(g, v, m, o)
  BY DEF Path
<1> DEFINE a == Len(u)
           b == Len(v)
           w == u \o v
           h == [i \in 0..a + b |-> IF i <= a THEN f[i] ELSE g[i - a]]
<1>3. /\ a \in Nat /\ b \in Nat /\ Len(w) = a + b
      /\ \A i \in 1..a : w[i] = u[i]
      /\ \A i \in 1..(a + b) : i > a => w[i] = v[i - a]
  OBVIOUS
<1>4. /\ f \in [0..a -> Labels] /\ f[0] = l /\ f[a] = m
      /\ \A i \in 1..a : Follows(f[i - 1], f[i]) /\ u[i] = Unit(f[i])
  BY <1>1 DEF IsPath
<1>5. /\ g \in [0..b -> Labels] /\ g[0] = m /\ g[b] = o
      /\ \A i \in 1..b : Follows(g[i - 1], g[i]) /\ v[i] = Unit(g[i])
  BY <1>2 DEF IsPath
<1> HIDE DEF a, b, w
<1>6. h \in [0..a + b -> Labels]
  BY <1>3, <1>4, <1>5
<1>7. \A i \in 0..a : h[i] = f[i]
  BY <1>3
<1>8. \A i \in 0..b : h[a + i] = g[i]
  BY <1>3, <1>4, <1>5
<1> HIDE DEF h
<1>9. h[0] = l /\ h[a + b] = o
  BY <1>3, <1>4, <1>5, <1>7, <1>8
<1>10. ASSUME NEW i \in 1..(a + b) PROVE Follows(h[i - 1], h[i]) /\ w[i] = Unit(h[i])
  <2>1. CASE i <= a
    <3>1. i \in 1..a /\ i - 1 \in 0..a /\ i \in 0..a
      BY <1>3, <2>1
    <3> QED
      BY <1>3, <1>4, <1>7, <3>1
  <2>2. CASE ~(i <= a)
    <3>1. PICK j \in 1..b : i = a + j /\ i - 1 = a + (j - 1) /\ j - 1 \in 0..b /\ j \in 0..b
      <4>1. i - a \in 1..b /\ i = a + (i - a) /\ i - 1 = a + ((i - a) - 1)
        BY <1>3, <2>2
      <4> QED
        BY <1>3, <4>1
    <3>2. w[i] = v[j]
      BY <1>3, <2>2, <3>1
    <3> QED
      BY <1>5, <1>8, <3>1, <3>2
  <2> QED
    BY <2>1, <2>2
<1>11. IsPath(h, w, l, o)
  BY <1>3, <1>6, <1>9, <1>10 DEF IsPath
<1> QED
  BY <1>11 DEF Path, w

LEMMA PathSplit ==
    ASSUME NEW u \in Seq(Units), NEW l, NEW m, Path(u, l, m), NEW n \in 0..Len(u)
    PROVE  \E o \in Labels : Path(SubSeq(u, 1, n), l, o) /\ Path(SubSeq(u, n + 1, Len(u)), o, m)
<1>1. PICK f : IsPath(f, u, l, m)
  BY DEF Path
<1> DEFINE a == Len(u)
           v == SubSeq(u, 1, n)
           w == SubSeq(u, n + 1, a)
           g == [i \in 0..n |-> f[i]]
           h == [i \in 0..a - n |-> f[n + i]]
<1>2. /\ a \in Nat /\ n \in Nat /\ n <= a
      /\ Len(v) = n /\ \A i \in 1..n : v[i] = u[i]
  OBVIOUS
<1>3. Len(w) = a - n /\ \A i \in 1..(a - n) : w[i] = u[n + i]
  OBVIOUS
<1>4. /\ f \in [0..a -> Labels] /\ f[0] = l /\ f[a] = m
      /\ \A i \in 1..a : Follows(f[i - 1], f[i]) /\ u[i] = Unit(f[i])
  BY <1>1 DEF IsPath
<1> HIDE DEF a, v, w
<1>5. IsPath(g, v, l, f[n])
  <2>1. g \in [0..n -> Labels] /\ \A i \in 0..n : g[i] = f[i]
    BY <1>2, <1>4
  <2> HIDE DEF g
  <2>2. \A i \in 1..n : i \in 1..a /\ i - 1 \in 0..n /\ i \in 0..n
    BY <1>2
  <2>3. g[0] = l /\ g[n] = f[n]
    BY <1>2, <1>4, <2>1
  <2>4. \A i \in 1..n : Follows(g[i - 1], g[i]) /\ v[i] = Unit(g[i])
    BY <1>2, <1>4, <2>1, <2>2
  <2> QED
    BY <1>2, <2>1, <2>3, <2>4 DEF IsPath
<1>6. IsPath(h, w, f[n], m)
  <2>1. h \in [0..a - n -> Labels] /\ \A i \in 0..a - n : h[i] = f[n + i]
    BY <1>2, <1>4
  <2> HIDE DEF h
  <2>2. h[0] = f[n] /\ h[a - n] = m
    <3>1. 0 \in 0..a - n /\ a - n \in 0..a - n /\ n + 0 = n /\ n + (a - n) = a
      BY <1>2
    <3> QED
      BY <1>4, <2>1, <3>1
  <2>3. ASSUME NEW i \in 1..(a - n) PROVE Follows(h[i - 1], h[i]) /\ w[i] = Unit(h[i])
    <3>1. n + i \in 1..a /\ i - 1 \in 0..a - n /\ i \in 0..a - n /\ n + (i - 1) = (n + i) - 1
      BY <1>2
    <3>2. h[i] = f[n + i] /\ h[i - 1] = f[(n + i) - 1]
      BY <2>1, <3>1
    <3>3. Follows(f[(n + i) - 1], f[n + i]) /\ u[n + i] = Unit(f[n + i])
      BY <1>4, <3>1
    <3> QED
      BY <1>3, <3>2, <3>3
  <2> QED
    BY <1>3, <2>1, <2>2, <2>3 DEF IsPath
<1>7. f[n] \in Labels
  BY <1>2, <1>4
<1> QED
  BY <1>5, <1>6, <1>7 DEF Path, v, w, a

\* j units of the chunk of n bytes from behind the p-th have gone by, perhaps none yet.
At(l, n, p, j) ==
    \/ j = 0 /\ Between(l) /\ l.p + l.n = p
    \/ j > 0 /\ l.n = n /\ l.p = p /\ l.k = j

\* What may be the chunk behind a place.
IsChunk(n, p) ==
    /\ n \in Nat /\ n <= Capacity /\ p \in Nat /\ p + n <= Len(Source)
    /\ n = 0 => p = Len(Source)

\* A chunk that has begun to go by goes on.
LEMMA PathAlong ==
    ASSUME NEW m \in Labels, NEW n, NEW p, IsChunk(n, p), NEW j \in Nat, NEW i \in Nat,
           j <= i, i <= Full(n), At(m, n, p, j)
    PROVE  \E o \in Labels : At(o, n, p, i) /\ Path(SubSeq(Chunk(n, p), j + 1, i), m, o)
<1> DEFINE c == Chunk(n, p)
           u == SubSeq(c, j + 1, i)
           L(t) == [n |-> n, p |-> p, k |-> t]
           f == [t \in 0..i - j |-> IF t = 0 THEN m ELSE L(j + t)]
<1>1. /\ c \in Seq(Units) /\ Len(c) = Full(n) /\ n \in Nat /\ p \in Nat /\ Full(n) \in Nat
  BY ChunkUnits, Lengths DEF IsChunk
<1>2. CASE i = j
  <2>1. u = << >>
    <3> HIDE DEF c
    <3> QED
      BY <1>1, <1>2
  <2> QED
    BY <1>2, <2>1, PathEmpty
<1>3. CASE i > j
  <2>1. Len(u) = i - j /\ \A t \in 1..(i - j) : u[t] = c[j + t]
    <3> HIDE DEF c
    <3> QED
      BY <1>1, <1>3
  <2>2. \A t \in 1..Full(n) : L(t) \in Labels
    <3> SUFFICES ASSUME NEW t \in 1..Full(n) PROVE L(t) \in Labels
      OBVIOUS
    <3>1. n \in 0..Capacity /\ p \in 0..Len(Source) /\ t \in Nat /\ t > 0 /\ t <= Full(n)
      BY <1>1, Constants DEF IsChunk
    <3>2. L(t) \in [n : 0..Capacity, p : 0..Len(Source), k : Nat]
      BY <3>1
    <3>3. L(t).n = n /\ L(t).p = p /\ L(t).k = t
      OBVIOUS
    <3>4. t <= IF n = 0 THEN Full(0) + 1 ELSE Full(n)
      BY <1>1, <3>1
    <3>5. p + n <= Len(Source) /\ (n = 0 => p = Len(Source))
      BY DEF IsChunk
    <3> HIDE DEF L
    <3> QED
      BY <3>1, <3>2, <3>3, <3>4, <3>5 DEF Labels
  <2>3. /\ f \in [0..i - j -> Labels] /\ f[0] = m /\ f[i - j] = L(i)
        /\ \A t \in 1..(i - j) : f[t] = L(j + t)
    <3>1. \A t \in 1..(i - j) : L(j + t) \in Labels
      BY <1>1, <1>3, <2>2
    <3>2. 0 \in 0..i - j /\ i - j \in 0..i - j /\ i - j # 0 /\ j + (i - j) = i
      BY <1>3
    <3> HIDE DEF L
    <3> QED
      BY <3>1, <3>2
  <2>4. ASSUME NEW t \in 1..(i - j) PROVE Follows(f[t - 1], f[t]) /\ u[t] = Unit(f[t])
    <3>1. j + t <= Full(n) /\ j + t \in Nat
      BY <1>1, <1>3
    <3>2. u[t] = Unit(f[t])
      BY <2>1, <2>3, <3>1 DEF Unit
    <3>3. CASE t = 1
      <4>1. f[t - 1] = m /\ f[t] = L(j + 1)
        BY <2>3, <3>3
      <4> QED
        BY <3>2, <4>1 DEF Follows, At
    <3>4. CASE t # 1
      <4>1. t - 1 \in 1..(i - j) /\ j + (t - 1) > 0 /\ j + t = (j + (t - 1)) + 1
        BY <3>4
      <4>2. f[t - 1] = L(j + (t - 1)) /\ f[t] = L(j + t)
        BY <2>3, <4>1
      <4> QED
        BY <3>2, <4>1, <4>2 DEF Follows
    <3> QED
      BY <3>3, <3>4
  <2> HIDE DEF f
  <2>5. IsPath(f, u, m, L(i))
    BY <2>1, <2>3, <2>4 DEF IsPath
  <2>6. L(i) \in Labels /\ At(L(i), n, p, i)
    BY <1>3, <2>2 DEF At
  <2> QED
    BY <2>5, <2>6 DEF Path
<1> QED
  BY <1>2, <1>3

\* A chunk that has gone by: another may begin.
LEMMA Passed ==
    ASSUME NEW o \in Labels, NEW n \in Nat, NEW p, n > 0, At(o, n, p, Full(n))
    PROVE  Between(o) /\ o.p + o.n = p + n
BY Lengths DEF At, Between

\* The next unit of a path.
LEMMA PathFirst ==
    ASSUME NEW u \in Seq(Units), NEW l, NEW m, Path(u, l, m), Len(u) > 0
    PROVE  \E o \in Labels : /\ Follows(l, o) /\ u[1] = Unit(o)
                             /\ Path(SubSeq(u, 2, Len(u)), o, m)
<1>1. 1 \in 0..Len(u)
  OBVIOUS
<1>2. PICK o \in Labels : Path(SubSeq(u, 1, 1), l, o) /\ Path(SubSeq(u, 1 + 1, Len(u)), o, m)
  BY <1>1, PathSplit
<1>3. Len(SubSeq(u, 1, 1)) = 1 /\ SubSeq(u, 1, 1)[1] = u[1]
  OBVIOUS
<1> DEFINE v == SubSeq(u, 1, 1)
<1>4. Len(v) = 1 /\ v[1] = u[1] /\ Path(v, l, o)
  BY <1>2, <1>3
<1> HIDE DEF v
<1>5. PICK f : IsPath(f, v, l, o)
  BY <1>4 DEF Path
<1>6. f[0] = l /\ f[1] = o /\ Follows(f[1 - 1], f[1]) /\ v[1] = Unit(f[1])
  BY <1>4, <1>5 DEF IsPath
<1> QED
  BY <1>2, <1>4, <1>6

\* The next units, within a chunk.
LEMMA PathInside ==
    ASSUME NEW u \in Seq(Units), NEW l, NEW m, Path(u, l, m), NEW j \in 0..Len(u),
           l.k > 0, l.k + j <= Full(l.n)
    PROVE  \E o \in Labels : /\ o.n = l.n /\ o.p = l.p /\ o.k = l.k + j
                             /\ \A i \in 1..j : u[i] = Chunk(l.n, l.p)[l.k + i]
                             /\ Path(SubSeq(u, j + 1, Len(u)), o, m)
<1>0. l \in Labels /\ l.n \in Nat /\ l.k \in Nat /\ Full(l.n) \in Nat
  BY PathEnds, LabelFacts, Lengths
<1>1. PICK o \in Labels : Path(SubSeq(u, 1, j), l, o) /\ Path(SubSeq(u, j + 1, Len(u)), o, m)
  BY PathSplit
<1> DEFINE v == SubSeq(u, 1, j)
<1>2. Len(v) = j /\ \A i \in 1..j : v[i] = u[i]
  OBVIOUS
<1>3. PICK f : IsPath(f, v, l, o)
  BY <1>1 DEF Path
<1> HIDE DEF v
<1>4. /\ f \in [0..j -> Labels] /\ f[0] = l /\ f[j] = o
      /\ \A i \in 1..j : Follows(f[i - 1], f[i]) /\ v[i] = Unit(f[i])
  BY <1>2, <1>3 DEF IsPath
<1> DEFINE Good(i) == f[i].n = l.n /\ f[i].p = l.p /\ f[i].k = l.k + i
           T == {i \in Nat : i <= j => Good(i)}
<1>5. 0 \in T
  BY <1>0, <1>4
<1>6. ASSUME NEW i \in Nat, i \in T PROVE i + 1 \in T
  <2> SUFFICES ASSUME i + 1 <= j PROVE Good(i + 1)
    OBVIOUS
  <2>1. i \in 0..j /\ i + 1 \in 1..j /\ (i + 1) - 1 = i
    OBVIOUS
  <2>2. Good(i)
    BY <1>6, <2>1
  <2>3. Follows(f[i], f[i + 1])
    BY <1>4, <2>1
  <2>4. ~Between(f[i])
    BY <1>0, <2>1, <2>2 DEF Between
  <2>5. f[i + 1].n = f[i].n /\ f[i + 1].p = f[i].p /\ f[i + 1].k = f[i].k + 1
    BY <2>3, <2>4 DEF Follows
  <2>6. f[i + 1].k = l.k + (i + 1)
    <3> DEFINE k == l.k
    <3>1. f[i + 1].k = (k + i) + 1 /\ k \in Nat
      BY <1>0, <2>2, <2>5
    <3> HIDE DEF k
    <3>2. (k + i) + 1 = k + (i + 1)
      BY <3>1
    <3> QED
      BY <3>1, <3>2 DEF k
  <2> QED
    BY <2>2, <2>5, <2>6
<1> HIDE DEF T
<1>7. Nat \subseteq T
  BY <1>5, <1>6, Induction
<1>8. \A i \in 0..j : Good(i)
  <2>1. \A i \in 0..j : i \in T /\ i <= j
    BY <1>7
  <2> QED
    BY <2>1 DEF T
<1> HIDE DEF Good
<1>9. ASSUME NEW i \in 1..j PROVE u[i] = Chunk(l.n, l.p)[l.k + i]
  <2>1. Good(i) /\ i \in 0..j
    BY <1>8
  <2>2. v[i] = Unit(f[i])
    BY <1>4
  <2>3. l.k + i <= Full(l.n)
    BY <1>0
  <2> QED
    BY <1>2, <2>1, <2>2, <2>3 DEF Unit, Good
<1>10. o.n = l.n /\ o.p = l.p /\ o.k = l.k + j
  BY <1>4, <1>8 DEF Good
<1> QED
  BY <1>1, <1>9, <1>10

\* Behind the last chunk.
LEMMA PathNext ==
    ASSUME NEW m \in Labels, m.n = 0, m.k = Full(0)
    PROVE  \E o \in Labels : /\ o.n = 0 /\ o.p = Len(Source) /\ o.k = Full(0) + 1
                             /\ Path(<<NextMessage>>, m, o)
<1> DEFINE o == [n |-> 0, p |-> Len(Source), k |-> Full(0) + 1]
           u == <<NextMessage>>
           f == [i \in 0..1 |-> IF i = 0 THEN m ELSE o]
<1>1. Full(0) \in Nat /\ Full(0) > 0 /\ m.p = Len(Source) /\ m.k > 0
  <2>1. Full(0) \in Nat /\ Wide(0) \in Nat /\ Full(0) = Wide(0) + 0 + 4
    BY Lengths
  <2>2. m.k > 0 /\ Full(0) > 0
    BY <2>1
  <2> QED
    BY <2>1, <2>2, LabelFacts
<1>2. o \in Labels /\ o.n = 0 /\ o.p = Len(Source) /\ o.k = Full(0) + 1
  <2>1. o \in [n : 0..Capacity, p : 0..Len(Source), k : Nat]
    BY <1>1, Constants
  <2>2. o.n = 0 /\ o.p = Len(Source) /\ o.k = Full(0) + 1
    OBVIOUS
  <2> HIDE DEF o
  <2> QED
    BY <1>1, <2>1, <2>2, Constants DEF Labels
<1> HIDE DEF o
<1>3. f \in [0..1 -> Labels] /\ f[0] = m /\ f[1] = o
  BY <1>2
<1> HIDE DEF f
<1>4. Len(u) = 1 /\ u[1] = NextMessage
  OBVIOUS
<1> HIDE DEF u
<1>5. Follows(m, o) /\ Unit(o) = NextMessage
  BY <1>1, <1>2 DEF Follows, Unit
<1>6. \A i \in 1..1 : i = 1 /\ i - 1 = 0
  OBVIOUS
<1>7. IsPath(f, u, m, o)
  BY <1>3, <1>4, <1>5, <1>6 DEF IsPath
<1> QED
  BY <1>2, <1>7 DEF Path, u

-----------------------------------------------------------------------------
(* The bytes among what is on the wire. *)

\* How much of the body has gone by.
Position(l) ==
    IF l.k <= Intro(l.n) THEN l.p
    ELSE IF l.k <= Intro(l.n) + l.n THEN l.p + (l.k - Intro(l.n)) ELSE l.p + l.n

\* The bytes among some units are those of the body between two positions.
AreCounted(g, u, a, b) ==
    /\ g \in [0..Len(u) -> Nat] /\ g[0] = a /\ g[Len(u)] = b
    /\ \A i \in 1..Len(u) :
           IF u[i].kind = "byte"
           THEN g[i] = g[i - 1] + 1 /\ u[i] = Byte(Source[g[i]]) ELSE g[i] = g[i - 1]

Counted(u, a, b) == \E g : AreCounted(g, u, a, b)

LEMMA CountedEmpty ==
    ASSUME NEW a \in Nat
    PROVE  Counted(<< >>, a, a)
<1>1. AreCounted([i \in 0..0 |-> a], << >>, a, a)
  BY DEF AreCounted
<1> QED
  BY <1>1 DEF Counted

LEMMA CountedJoin ==
    ASSUME NEW u \in Seq(Units), NEW v \in Seq(Units), NEW l, NEW m, NEW o,
           Counted(u, l, m), Counted(v, m, o)
    PROVE  Counted(u \o v, l, o)
<1>1. PICK f : AreCounted(f, u, l, m)
  BY DEF Counted
<1>2. PICK g : AreCounted(g, v, m, o)
  BY DEF Counted
<1> DEFINE a == Len(u)
           b == Len(v)
           w == u \o v
           h == [i \in 0..a + b |-> IF i <= a THEN f[i] ELSE g[i - a]]
           One(x, y, z) == IF x.kind = "byte" THEN z = y + 1 /\ x = Byte(Source[z]) ELSE z = y
<1>3. /\ a \in Nat /\ b \in Nat /\ Len(w) = a + b
      /\ \A i \in 1..a : w[i] = u[i]
      /\ \A i \in 1..(a + b) : i > a => w[i] = v[i - a]
  OBVIOUS
<1>4. /\ f \in [0..a -> Nat] /\ f[0] = l /\ f[a] = m
      /\ \A i \in 1..a : One(u[i], f[i - 1], f[i])
  BY <1>1 DEF AreCounted
<1>5. /\ g \in [0..b -> Nat] /\ g[0] = m /\ g[b] = o
      /\ \A i \in 1..b : One(v[i], g[i - 1], g[i])
  BY <1>2 DEF AreCounted
<1> HIDE DEF a, b, w, One
<1>6. h \in [0..a + b -> Nat]
  BY <1>3, <1>4, <1>5
<1>7. \A i \in 0..a : h[i] = f[i]
  BY <1>3
<1>8. ASSUME NEW i \in 0..b PROVE h[a + i] = g[i]
  <2>1. a + i \in 0..a + b /\ (a + i) - a = i /\ (a + i <= a <=> i = 0) /\ a + 0 = a
    BY <1>3
  <2> QED
    BY <1>4, <1>5, <2>1
<1> HIDE DEF h
<1>9. h[0] = l /\ h[a + b] = o
  BY <1>3, <1>4, <1>5, <1>7, <1>8
<1>10. ASSUME NEW i \in 1..(a + b) PROVE One(w[i], h[i - 1], h[i])
  <2>1. CASE i <= a
    <3>1. i \in 1..a /\ i - 1 \in 0..a /\ i \in 0..a
      BY <1>3, <2>1
    <3> QED
      BY <1>3, <1>4, <1>7, <3>1
  <2>2. CASE ~(i <= a)
    <3>1. PICK j \in 1..b : i = a + j /\ i - 1 = a + (j - 1) /\ j - 1 \in 0..b /\ j \in 0..b
      <4>1. i - a \in 1..b /\ i = a + (i - a) /\ i - 1 = a + ((i - a) - 1)
        BY <1>3, <2>2
      <4> QED
        BY <1>3, <4>1
    <3>2. w[i] = v[j]
      BY <1>3, <2>2, <3>1
    <3> QED
      BY <1>5, <1>8, <3>1, <3>2
  <2> QED
    BY <2>1, <2>2
<1>11. AreCounted(h, w, l, o)
  BY <1>3, <1>6, <1>9, <1>10 DEF AreCounted, One
<1> QED
  BY <1>11 DEF Counted, w

LEMMA CountedPart ==
    ASSUME NEW p \in Nat, NEW n \in Nat, p + n <= Len(Source)
    PROVE  Counted(Part(p, n), p, p + n)
<1> DEFINE u == Part(p, n)
           g == [i \in 0..n |-> p + i]
<1>1. Len(u) = n /\ \A i \in 1..n : Source[p + i] \in Nat /\ u[i] = Byte(Source[p + i])
  BY PartUnits
<1> HIDE DEF u
<1>2. g \in [0..n -> Nat] /\ g[0] = p /\ g[n] = p + n /\ \A i \in 0..n : g[i] = p + i
  OBVIOUS
<1> HIDE DEF g
<1>3. ASSUME NEW i \in 1..n
      PROVE  u[i].kind = "byte" /\ g[i] = g[i - 1] + 1 /\ u[i] = Byte(Source[g[i]])
  BY <1>1, <1>2, UnitTypes
<1>4. AreCounted(g, u, p, p + n)
  BY <1>1, <1>2, <1>3 DEF AreCounted
<1> QED
  BY <1>4 DEF Counted, u

LEMMA PositionNatural ==
    ASSUME NEW l \in Labels
    PROVE  Position(l) \in Nat
<1> DEFINE w == Intro(l.n)
           n == l.n
           p == l.p
           k == l.k
<1>1. n \in Nat /\ p \in Nat /\ k \in Nat /\ w \in Nat
  BY LabelFacts, Lengths
<1>2. Position(l) = IF k <= w THEN p ELSE IF k <= w + n THEN p + (k - w) ELSE p + n
  BY DEF Position
<1> HIDE DEF w, n, p, k
<1> QED
  BY <1>1, <1>2

\* A unit more is a byte more, or none.
LEMMA UnitCounts ==
    ASSUME NEW l \in Labels, NEW m \in Labels, Follows(l, m)
    PROVE  /\ Position(l) \in Nat /\ Position(m) \in Nat
           /\ IF Unit(m).kind = "byte"
              THEN Position(m) = Position(l) + 1 /\ Unit(m) = Byte(Source[Position(m)])
              ELSE Position(m) = Position(l)
<1> DEFINE n == m.n
           p == m.p
           k == m.k
           w == Wide(n)
           c == Chunk(n, p)
<1>1. /\ n \in Nat /\ p \in Nat /\ k \in Nat /\ p + n <= Len(Source) /\ w \in Nat /\ w >= 1
      /\ Intro(n) = w + 2 /\ Full(n) = w + n + 4
      /\ n > 0 => k <= Full(n)
      /\ n = 0 => k <= Full(n) + 1
  BY LabelFacts, Lengths
<1>2. /\ l.n \in Nat /\ l.p \in Nat /\ l.k \in Nat /\ Wide(l.n) \in Nat
      /\ Intro(l.n) = Wide(l.n) + 2 /\ Full(l.n) = Wide(l.n) + l.n + 4
      /\ l.k = 0 => l.n = 0
  BY LabelFacts, Lengths
<1>3. Position(l) \in Nat /\ Position(m) \in Nat
  BY PositionNatural
\* Where the place before is, in the chunk of the unit.
<1>4. k >= 1 /\ Position(l) = IF k - 1 <= w + 2 THEN p
                              ELSE IF k - 1 <= w + 2 + n THEN p + (k - 1 - (w + 2)) ELSE p + n
  <2>1. CASE l.k > 0 /\ n = l.n /\ p = l.p /\ k = l.k + 1
    <3>1. l.k = k - 1 /\ k >= 1
      BY <1>1, <1>2, <2>1
    <3>2. Position(l) = IF l.k <= Intro(n) THEN p
                        ELSE IF l.k <= Intro(n) + n THEN p + (l.k - Intro(n)) ELSE p + n
      BY <2>1 DEF Position
    <3>3. Intro(n) = w + 2
      BY <1>1
    <3> QED
      BY <3>1, <3>2, <3>3
  <2>2. CASE Between(l) /\ k = 1 /\ p = l.p + l.n
    BY <1>1, <1>2, <2>2 DEF Position, Between
  <2> QED
    BY <2>1, <2>2 DEF Follows
<1>5. Position(m) = IF k <= w + 2 THEN p ELSE IF k <= w + 2 + n THEN p + (k - (w + 2)) ELSE p + n
  BY <1>1 DEF Position
<1>6. /\ \A i \in 1..(w + 2) : c[i] = Header(n)[i]
      /\ \A i \in 1..n : c[w + 2 + i] = Byte(Source[p + i])
      /\ c[w + 2 + n + 1] = CR /\ c[w + 2 + n + 2] = NL
  <2> DEFINE x == Intro(n)
  <2>1. /\ \A i \in 1..x : c[i] = Header(n)[i]
        /\ \A i \in 1..n : c[x + i] = Byte(Source[p + i])
        /\ c[x + n + 1] = CR /\ c[x + n + 2] = NL
    BY <1>1, ChunkUnits
  <2>2. x = w + 2
    BY <1>1
  <2> HIDE DEF x, c, w, n, p
  <2> QED
    BY <2>1, <2>2
<1>7. /\ \A i \in 1..w : Digits[n][i] \in Nat /\ Header(n)[i] = Digit(Digits[n][i])
      /\ Header(n)[w + 1] = CR /\ Header(n)[w + 2] = NL
  BY <1>1, HeaderUnits
<1>8. Unit(m) = IF k <= w + n + 4 THEN c[k] ELSE NextMessage
  BY <1>1 DEF Unit
<1> HIDE DEF n, p, k, w, c
<1>9. CASE k <= w
  <2>1. k \in 1..w /\ k \in 1..(w + 2)
    BY <1>1, <1>4, <1>9
  <2>2. Unit(m) = Digit(Digits[n][k]) /\ Digits[n][k] \in Nat
    BY <1>1, <1>6, <1>7, <1>8, <1>9, <2>1
  <2>3. Unit(m).kind = "digit"
    BY <2>2, UnitTypes
  <2> QED
    BY <1>1, <1>3, <1>4, <1>5, <1>9, <2>3
<1>10. CASE k = w + 1 \/ k = w + 2
  <2>1. k \in 1..(w + 2)
    BY <1>1, <1>4, <1>10
  <2>2. Unit(m) \in {CR, NL}
    BY <1>1, <1>6, <1>7, <1>8, <1>10, <2>1
  <2>3. Unit(m).kind # "byte"
    BY <2>2, UnitTypes
  <2> QED
    BY <1>1, <1>3, <1>4, <1>5, <1>10, <2>3
<1>11. CASE k > w + 2 /\ k <= w + 2 + n
  <2>1. k - (w + 2) \in 1..n /\ w + 2 + (k - (w + 2)) = k
    BY <1>1, <1>11
  <2>2. Unit(m) = Byte(Source[p + (k - (w + 2))])
    BY <1>1, <1>6, <1>8, <1>11, <2>1
  <2>3. p + (k - (w + 2)) \in 1..Len(Source)
    BY <1>1, <2>1, Constants
  <2>4. Unit(m).kind = "byte"
    BY <2>2, <2>3, UnitTypes, Constants
  <2> QED
    BY <1>1, <1>3, <1>4, <1>5, <1>11, <2>2, <2>4
<1>12. CASE k > w + 2 + n
  <2>1. k = w + 2 + n + 1 \/ k = w + 2 + n + 2 \/ k > w + n + 4
    BY <1>1, <1>12
  <2>2. Unit(m) \in {CR, NL, NextMessage}
    BY <1>1, <1>6, <1>8, <1>12, <2>1
  <2>3. Unit(m).kind # "byte"
    BY <2>2, UnitTypes
  <2> QED
    BY <1>1, <1>3, <1>4, <1>5, <1>12, <2>3
<1> QED
  BY <1>1, <1>9, <1>10, <1>11, <1>12

\* The bytes of a path are those of the body between its ends.
LEMMA PathCounted ==
    ASSUME NEW u \in Seq(Units), NEW l, NEW m, Path(u, l, m)
    PROVE  Counted(u, Position(l), Position(m))
<1>1. PICK f : IsPath(f, u, l, m)
  BY DEF Path
<1> DEFINE N == Len(u)
           g == [i \in 0..N |-> Position(f[i])]
<1>2. /\ N \in Nat /\ f \in [0..N -> Labels] /\ f[0] = l /\ f[N] = m
      /\ \A i \in 1..N : Follows(f[i - 1], f[i]) /\ u[i] = Unit(f[i])
  BY <1>1 DEF IsPath
<1> HIDE DEF N
<1>3. ASSUME NEW i \in 0..N PROVE Position(f[i]) \in Nat
  <2>1. f[i] \in Labels
    BY <1>2
  <2> QED
    BY <2>1, PositionNatural
<1>4. g \in [0..N -> Nat] /\ g[0] = Position(l) /\ g[N] = Position(m)
  BY <1>2, <1>3
<1>5. \A i \in 0..N : g[i] = Position(f[i])
  OBVIOUS
<1> HIDE DEF g
<1>6. ASSUME NEW i \in 1..N
      PROVE  IF u[i].kind = "byte"
             THEN g[i] = g[i - 1] + 1 /\ u[i] = Byte(Source[g[i]]) ELSE g[i] = g[i - 1]
  <2>1. i \in 0..N /\ i - 1 \in 0..N
    BY <1>2
  <2>2. f[i - 1] \in Labels /\ f[i] \in Labels /\ Follows(f[i - 1], f[i]) /\ u[i] = Unit(f[i])
    BY <1>2, <2>1
  <2>3. IF Unit(f[i]).kind = "byte"
        THEN Position(f[i]) = Position(f[i - 1]) + 1 /\ Unit(f[i]) = Byte(Source[Position(f[i])])
        ELSE Position(f[i]) = Position(f[i - 1])
    BY <2>2, UnitCounts
  <2>4. g[i] = Position(f[i]) /\ g[i - 1] = Position(f[i - 1])
    BY <1>5, <2>1
  <2> QED
    BY <2>2, <2>3, <2>4
<1>7. AreCounted(g, u, Position(l), Position(m))
  BY <1>4, <1>6 DEF AreCounted, N
<1> QED
  BY <1>7 DEF Counted

\* What the bytes among some units are worked out by.
AreBytes(f, u) ==
    /\ f[0] = << >>
    /\ \A i \in 1..Len(u) :
           f[i] = IF u[i].kind = "byte" THEN Append(f[i - 1], u[i]) ELSE f[i - 1]

LEMMA BytesDefined ==
    ASSUME NEW u \in Seq(Units)
    PROVE  \E f : AreBytes(f, u) /\ Bytes(u) = f[Len(u)]
<1> DEFINE N == Len(u)
           V == Seq(Units)
           base == << >>
           next(i, v) == IF u[i].kind = "byte" THEN Append(v, u[i]) ELSE v
           step == [i \in 1..N |-> [v \in V |-> next(i, v)]]
           Rec(w) == w = [i \in 0..N |-> IF i = 0 THEN base ELSE next(i, w[i - 1])]
<1>1. N \in Nat /\ (\A i \in 1..N : u[i] \in Units) /\ base \in V
  OBVIOUS
<1>2. \A i \in 1..N, v \in V : next(i, v) \in V
  BY <1>1
<1>3. step \in [1..N -> [V -> V]] /\ \A i \in 1..N, v \in V : step[i][v] = next(i, v)
  BY <1>2
<1>4. Bytes(u) = (CHOOSE w : Rec(w))[N]
  BY Zenon DEF Bytes
<1> HIDE DEF N, V, base, next, step
<1>5. PICK f : IsRecursion(f, N, V, base, step)
  BY <1>1, <1>3, Recursion
<1>6. ASSUME NEW i \in 1..N PROVE f[i] = next(i, f[i - 1])
  <2>1. i - 1 \in 0..N /\ f[i] = step[i][f[i - 1]]
    BY <1>1, <1>5 DEF IsRecursion
  <2>2. f[i - 1] \in V
    BY <1>5, <2>1 DEF IsRecursion
  <2> QED
    BY <1>3, <2>1, <2>2
<1>7. Rec(f)
  <2>1. ASSUME NEW i \in 0..N PROVE f[i] = IF i = 0 THEN base ELSE next(i, f[i - 1])
    <3>1. i # 0 => i \in 1..N
      BY <1>1
    <3> QED
      BY <1>5, <1>6, <3>1 DEF IsRecursion
  <2>2. f = [i \in 0..N |-> f[i]]
    BY <1>5 DEF IsRecursion
  <2> QED
    BY <2>1, <2>2
<1> DEFINE g == CHOOSE w : Rec(w)
<1>8. Rec(g)
  BY <1>7
<1> HIDE DEF g
<1>9. \A i \in 0..N : g[i] = IF i = 0 THEN base ELSE next(i, g[i - 1])
  BY <1>8
<1>10. g[0] = base /\ \A i \in 1..N : g[i] = next(i, g[i - 1])
  <2>1. 0 \in 0..N /\ \A i \in 1..N : i \in 0..N /\ i # 0
    BY <1>1
  <2> QED
    BY <1>9, <2>1, Zenon
<1>11. AreBytes(g, u)
  BY <1>10 DEF AreBytes, N, base, next
<1> QED
  BY <1>4, <1>11 DEF N, g

\* So many bytes from the beginning are the beginning of the body.
LEMMA BytesCounted ==
    ASSUME NEW u \in Seq(Units), NEW b \in Nat, Counted(u, 0, b)
    PROVE  Bytes(u) = Part(0, b)
<1>1. PICK f : AreBytes(f, u) /\ Bytes(u) = f[Len(u)]
  BY BytesDefined
<1>2. PICK g : AreCounted(g, u, 0, b)
  BY DEF Counted
<1> DEFINE N == Len(u)
           h == [i \in 0..N |-> Part(0, g[i])]
<1>3. /\ N \in Nat /\ g \in [0..N -> Nat] /\ g[0] = 0 /\ g[N] = b
      /\ \A i \in 1..N :
             IF u[i].kind = "byte"
             THEN g[i] = g[i - 1] + 1 /\ u[i] = Byte(Source[g[i]]) ELSE g[i] = g[i - 1]
  BY <1>2 DEF AreCounted
<1>4. /\ f[0] = << >> /\ Bytes(u) = f[N]
      /\ \A i \in 1..N : f[i] = IF u[i].kind = "byte" THEN Append(f[i - 1], u[i]) ELSE f[i - 1]
  BY <1>1 DEF AreBytes
<1>5. \A i \in 0..N : h[i] = Part(0, g[i])
  OBVIOUS
<1> HIDE DEF N, h
<1>6. Part(0, 0) = << >>
  BY DEF Part
<1>7. \A n \in Nat : Part(0, n + 1) = Append(Part(0, n), Byte(Source[n + 1]))
  BY DEF Part
<1>8. f[0] = h[0]
  BY <1>3, <1>4, <1>5, <1>6
<1>9. ASSUME NEW i \in 1..N, f[i - 1] = h[i - 1] PROVE f[i] = h[i]
  <2>1. i \in 0..N /\ i - 1 \in 0..N
    BY <1>3
  <2>2. h[i] = Part(0, g[i]) /\ h[i - 1] = Part(0, g[i - 1]) /\ g[i - 1] \in Nat
    BY <1>3, <1>5, <2>1
  <2>3. CASE u[i].kind = "byte"
    <3>1. g[i] = g[i - 1] + 1 /\ u[i] = Byte(Source[g[i]]) /\ f[i] = Append(f[i - 1], u[i])
      BY <1>3, <1>4, <2>3
    <3>2. Part(0, g[i - 1] + 1) = Append(Part(0, g[i - 1]), Byte(Source[g[i - 1] + 1]))
      BY <1>7, <2>2
    <3> QED
      BY <1>9, <2>2, <3>1, <3>2
  <2>4. CASE u[i].kind # "byte"
    <3>1. g[i] = g[i - 1] /\ f[i] = f[i - 1]
      BY <1>3, <1>4, <2>4
    <3> QED
      BY <1>9, <2>2, <3>1
  <2> QED
    BY <2>3, <2>4
<1>10. \A i \in 0..N : f[i] = h[i]
  <2>1. N \in Nat /\ f[0] = h[0]
    BY <1>3, <1>8
  <2>2. \A i \in 1..N : f[i - 1] = h[i - 1] => f[i] = h[i]
    BY <1>9
  <2> QED
    BY <2>1, <2>2, RecursionAgrees, ZenonT(60)
<1> QED
  BY <1>3, <1>4, <1>5, <1>10

-----------------------------------------------------------------------------
(* Sequences of units. *)

LEMMA UnitsEqual ==
    ASSUME NEW s \in Seq(Units), NEW t \in Seq(Units), Len(s) = Len(t),
           \A i \in 1..Len(s) : s[i] = t[i]
    PROVE  s = t
OBVIOUS

LEMMA JoinEmpty ==
    ASSUME NEW s \in Seq(Units)
    PROVE  s \o << >> = s /\ << >> \o s = s /\ << >> \in Seq(Units)
<1>1. << >> \in Seq(Units) /\ Len(<< >>) = 0
  OBVIOUS
<1>2. s \o << >> = s
  <2>1. /\ s \o << >> \in Seq(Units) /\ Len(s \o << >>) = Len(s)
        /\ \A i \in 1..Len(s) : (s \o << >>)[i] = s[i]
    BY <1>1, Joined
  <2> QED
    BY <2>1, UnitsEqual
<1>3. << >> \o s = s
  <2>1. /\ << >> \o s \in Seq(Units) /\ Len(<< >> \o s) = Len(s)
        /\ \A i \in 1..Len(s) : (<< >> \o s)[i] = s[i]
    OBVIOUS
  <2> QED
    BY <2>1, UnitsEqual
<1> QED
  BY <1>1, <1>2, <1>3

LEMMA JoinAssociative ==
    ASSUME NEW s \in Seq(Units), NEW t \in Seq(Units), NEW u \in Seq(Units)
    PROVE  (s \o t) \o u = s \o (t \o u)
<1> DEFINE a == Len(s)
           b == Len(t)
           c == Len(u)
           x == (s \o t) \o u
           y == s \o (t \o u)
           st == s \o t
           tu == t \o u
<1>1. /\ st \in Seq(Units) /\ Len(st) = a + b /\ a \in Nat /\ b \in Nat /\ c \in Nat
      /\ \A i \in 1..a : st[i] = s[i]
      /\ \A i \in 1..b : st[a + i] = t[i]
  BY Joined
<1>2. /\ tu \in Seq(Units) /\ Len(tu) = b + c
      /\ \A i \in 1..b : tu[i] = t[i]
      /\ \A i \in 1..c : tu[b + i] = u[i]
  BY Joined
<1>3. /\ x \in Seq(Units) /\ Len(x) = Len(st) + c
      /\ \A i \in 1..Len(st) : x[i] = st[i]
      /\ \A i \in 1..c : x[Len(st) + i] = u[i]
  <2> HIDE DEF st
  <2> QED
    BY <1>1, Joined DEF st
<1>4. /\ y \in Seq(Units) /\ Len(y) = a + Len(tu)
      /\ \A i \in 1..a : y[i] = s[i]
      /\ \A i \in 1..Len(tu) : y[a + i] = tu[i]
  <2> HIDE DEF tu
  <2> QED
    BY <1>2, Joined DEF tu
<1> HIDE DEF a, b, c, x, y, st, tu
<1>5. ASSUME NEW i \in 1..Len(x) PROVE x[i] = y[i]
  <2>0. i \in Nat /\ i >= 1 /\ i <= a + b + c
    BY <1>1, <1>3
  <2>1. CASE i <= a
    <3>1. i \in 1..a /\ i \in 1..Len(st)
      BY <1>1, <2>0, <2>1
    <3> QED
      BY <1>1, <1>3, <1>4, <3>1
  <2>2. CASE i > a /\ i <= a + b
    <3>1. i - a \in 1..b /\ i - a \in 1..Len(tu) /\ i \in 1..Len(st) /\ a + (i - a) = i
      BY <1>1, <1>2, <2>0, <2>2
    <3>2. x[i] = st[i] /\ st[a + (i - a)] = t[i - a]
      BY <1>1, <1>3, <3>1
    <3>3. y[a + (i - a)] = tu[i - a] /\ tu[i - a] = t[i - a]
      BY <1>2, <1>4, <3>1
    <3> QED
      BY <3>1, <3>2, <3>3
  <2>3. CASE i > a + b
    <3>0. i - (a + b) \in 1..c /\ i - a \in 1..(b + c) /\ a + (i - a) = i
      BY <1>1, <2>0, <2>3
    <3>4. (a + b) + (i - (a + b)) = i /\ b + (i - (a + b)) = i - a
      BY <1>1, <2>0
    <3>1. /\ i - (a + b) \in 1..c /\ i - a \in 1..Len(tu) /\ a + (i - a) = i
          /\ Len(st) + (i - (a + b)) = i /\ b + (i - (a + b)) = i - a
      BY <1>1, <1>2, <3>0, <3>4
    <3>2. x[i] = u[i - (a + b)]
      BY <1>3, <3>1
    <3>3. y[i] = tu[i - a] /\ tu[i - a] = u[i - (a + b)]
      BY <1>2, <1>4, <3>1
    <3> QED
      BY <3>2, <3>3
  <2> QED
    BY <1>1, <2>0, <2>1, <2>2, <2>3
<1>6. Len(x) = Len(y)
  <2>1. Len(x) = (a + b) + c /\ Len(y) = a + (b + c) /\ a \in Nat /\ b \in Nat /\ c \in Nat
    BY <1>1, <1>2, <1>3, <1>4
  <2>2. (a + b) + c = a + (b + c)
    BY <2>1
  <2> QED
    BY <2>1, <2>2
<1>7. x = y
  BY <1>3, <1>4, <1>5, <1>6, UnitsEqual
<1> QED
  BY <1>7 DEF x, y, st, tu

\* The elements of a part of a sequence.
LEMMA PartOf ==
    ASSUME NEW s \in Seq(Units), NEW i \in Nat, NEW j \in Nat, i <= j, j <= Len(s)
    PROVE  /\ SubSeq(s, i + 1, j) \in Seq(Units) /\ Len(SubSeq(s, i + 1, j)) = j - i
           /\ \A x \in 1..(j - i) : SubSeq(s, i + 1, j)[x] = s[i + x]
OBVIOUS

\* A sequence cut in two.
LEMMA CutInTwo ==
    ASSUME NEW s \in Seq(Units), NEW n \in Nat, n <= Len(s)
    PROVE  /\ SubSeq(s, 1, n) \in Seq(Units) /\ SubSeq(s, n + 1, Len(s)) \in Seq(Units)
           /\ Len(SubSeq(s, 1, n)) = n
           /\ SubSeq(s, 1, n) \o SubSeq(s, n + 1, Len(s)) = s
<1> DEFINE a == SubSeq(s, 1, n)
           b == SubSeq(s, n + 1, Len(s))
           x == a \o b
<1>1. a \in Seq(Units) /\ Len(a) = n /\ \A i \in 1..n : a[i] = s[i]
  OBVIOUS
<1>2. b \in Seq(Units) /\ Len(b) = Len(s) - n /\ \A i \in 1..(Len(s) - n) : b[i] = s[n + i]
  BY PartOf
<1> HIDE DEF a, b
<1>3. /\ x \in Seq(Units) /\ Len(x) = Len(a) + Len(b)
      /\ \A i \in 1..Len(a) : x[i] = a[i]
      /\ \A i \in 1..Len(b) : x[Len(a) + i] = b[i]
  BY <1>1, <1>2, Joined
<1> HIDE DEF x
<1>4. ASSUME NEW i \in 1..Len(x) PROVE x[i] = s[i]
  <2>1. CASE i <= n
    BY <1>1, <1>3, <2>1
  <2>2. CASE ~(i <= n)
    <3>1. i - n \in 1..(Len(s) - n) /\ n + (i - n) = i
      BY <1>1, <1>2, <1>3, <2>2
    <3>2. x[n + (i - n)] = b[i - n] /\ b[i - n] = s[n + (i - n)]
      BY <1>1, <1>2, <1>3, <3>1
    <3> QED
      BY <3>1, <3>2
  <2> QED
    BY <2>1, <2>2
<1>5. x = s
  BY <1>1, <1>2, <1>3, <1>4, UnitsEqual
<1> QED
  BY <1>1, <1>2, <1>5 DEF a, b, x

\* The rest of two sequences put together.
LEMMA DropJoined ==
    ASSUME NEW s \in Seq(Units), NEW t \in Seq(Units), NEW n \in Nat, n <= Len(s)
    PROVE  SubSeq(s \o t, n + 1, Len(s \o t)) = SubSeq(s, n + 1, Len(s)) \o t
<1> DEFINE a == SubSeq(s, n + 1, Len(s))
           st == s \o t
           x == SubSeq(st, n + 1, Len(st))
           y == a \o t
           N == Len(s)
           M == Len(t)
<1>1. /\ st \in Seq(Units) /\ Len(st) = N + M /\ N \in Nat /\ M \in Nat
      /\ \A i \in 1..N : st[i] = s[i]
      /\ \A i \in 1..M : st[N + i] = t[i]
  BY Joined
<1>2. a \in Seq(Units) /\ Len(a) = N - n /\ \A i \in 1..(N - n) : a[i] = s[n + i]
  BY PartOf
<1>3. /\ x \in Seq(Units) /\ Len(x) = N + M - n /\ \A i \in 1..(N + M - n) : x[i] = st[n + i]
  <2> HIDE DEF st, N, M
  <2>1. n <= Len(st) /\ Len(st) \in Nat
    BY <1>1 DEF N
  <2> QED
    BY <1>1, <2>1, PartOf
<1>4. /\ y \in Seq(Units) /\ Len(y) = Len(a) + M
      /\ \A i \in 1..Len(a) : y[i] = a[i]
      /\ \A i \in 1..M : y[Len(a) + i] = t[i]
  <2> HIDE DEF a
  <2> QED
    BY <1>2, Joined
<1>5. n <= N
  OBVIOUS
<1> HIDE DEF a, st, x, y, N, M
<1>6. ASSUME NEW i \in 1..Len(x) PROVE x[i] = y[i]
  <2>0. i \in Nat /\ i >= 1 /\ i <= N + M - n /\ x[i] = st[n + i]
    BY <1>1, <1>3
  <2>1. CASE i <= N - n
    <3>1. i \in 1..(N - n) /\ n + i \in 1..N
      BY <1>1, <1>5, <2>0, <2>1
    <3> QED
      BY <1>1, <1>2, <1>4, <2>0, <3>1
  <2>2. CASE ~(i <= N - n)
    <3> DEFINE j == (n + i) - N
    <3>1. j \in 1..M /\ N + j = n + i /\ (N - n) + j = i
      BY <1>1, <1>5, <2>0, <2>2
    <3> HIDE DEF j
    <3>2. st[N + j] = t[j]
      <4>1. \A k \in 1..M : st[N + k] = t[k]
        BY <1>1
      <4> QED
        BY <3>1, <4>1
    <3>3. y[(N - n) + j] = t[j]
      <4>1. \A k \in 1..M : y[(N - n) + k] = t[k]
        BY <1>2, <1>4
      <4> QED
        BY <3>1, <4>1
    <3> QED
      BY <2>0, <3>1, <3>2, <3>3
  <2> QED
    BY <2>1, <2>2
<1>7. x = y
  <2>1. Len(x) = N + M - n /\ Len(y) = (N - n) + M /\ N \in Nat /\ M \in Nat /\ n \in Nat
    BY <1>1, <1>2, <1>3, <1>4
  <2>3. N + M - n = (N - n) + M
    BY <2>1
  <2>2. Len(x) = Len(y)
    BY <2>1, <2>3
  <2> QED
    BY <1>3, <1>4, <1>6, <2>2, UnitsEqual
<1> QED
  BY <1>7 DEF x, y, a, st

\* Parts of the body.
LEMMA PartCut ==
    ASSUME NEW p \in Nat, NEW n \in Nat, p + n <= Len(Source), NEW x \in 0..n
    PROVE  /\ SubSeq(Part(p, n), 1, x) = Part(p, x)
           /\ SubSeq(Part(p, n), x + 1, n) = Part(p + x, n - x)
           /\ Part(p, x) \o Part(p + x, n - x) = Part(p, n)
<1> DEFINE s == Part(p, n)
           a == Part(p, x)
           b == Part(p + x, n - x)
<1>0. x \in Nat /\ x <= n /\ p + x \in Nat /\ n - x \in Nat /\ Len(Source) \in Nat
  BY Constants
<1>1. s \in Seq(Units) /\ Len(s) = n /\ \A i \in 1..n : s[i] = Byte(Source[p + i])
  BY PartUnits
<1>2. a \in Seq(Units) /\ Len(a) = x /\ \A i \in 1..x : a[i] = Byte(Source[p + i])
  BY <1>0, PartUnits
<1>3. /\ b \in Seq(Units) /\ Len(b) = n - x
      /\ \A i \in 1..(n - x) : b[i] = Byte(Source[(p + x) + i])
  <2>1. (p + x) + (n - x) <= Len(Source)
    BY <1>0
  <2> QED
    BY <1>0, <2>1, PartUnits
<1> HIDE DEF s, a, b
<1>4. SubSeq(s, 1, x) = a
  <2>1. SubSeq(s, 1, x) \in Seq(Units) /\ Len(SubSeq(s, 1, x)) = x
        /\ \A i \in 1..x : SubSeq(s, 1, x)[i] = s[i]
    BY <1>0, <1>1
  <2>2. \A i \in 1..x : s[i] = a[i]
    BY <1>0, <1>1, <1>2
  <2> QED
    BY <1>2, <2>1, <2>2, UnitsEqual
<1>5. SubSeq(s, x + 1, n) = b
  <2> DEFINE r == SubSeq(s, x + 1, n)
  <2>1. r \in Seq(Units) /\ Len(r) = n - x /\ \A i \in 1..(n - x) : r[i] = s[x + i]
    BY <1>0, <1>1, PartOf
  <2> HIDE DEF r
  <2>2. \A i \in 1..(n - x) : x + i \in 1..n /\ p + (x + i) = (p + x) + i
    BY <1>0
  <2>3. \A i \in 1..(n - x) : r[i] = b[i]
    BY <1>1, <1>3, <2>1, <2>2
  <2> QED
    BY <1>3, <2>1, <2>3, UnitsEqual DEF r
<1>6. a \o b = s
  BY <1>0, <1>1, <1>4, <1>5, CutInTwo
<1> QED
  BY <1>4, <1>5, <1>6 DEF s, a, b

LEMMA PartEmpty == \A p : Part(p, 0) = << >>
BY DEF Part

-----------------------------------------------------------------------------
(* The invariant. *)

TypeInv ==
    /\ at \in {"reading", "writing", "shutdown", "done", "failed"}
    /\ read \in Nat /\ read <= Len(Source)
    /\ todo \in Seq(Units)
    /\ buffer \in Seq(Units) /\ header \in Seq(Units) /\ sent \in Nat
    /\ held \in Seq(Units) /\ wire \in Seq(Units)
    /\ line \in Seq(Units) /\ status \in {"WaitingForChunk", "ReadingChunk", "Done"}
    /\ current_chunk_size \in Nat /\ current_chunk_count \in Nat
    /\ result \in {"open", "end", "error"}

\* What write_all still has is the last that was read.
BodyInv ==
    /\ Len(todo) <= read /\ todo = Part(read - Len(todo), Len(todo))
    /\ at \in {"reading", "shutdown", "done"} => todo = << >>
    /\ at \in {"shutdown", "done"} => read = Len(Source)

\* Where the ChunkedWriter is: a chunk is being filled, or is on its way, or the
\* last one is, or all is done.
Idle(m) ==
    /\ header = << >> /\ sent = 0 /\ at # "done" /\ Between(m)
    /\ Len(buffer) <= Capacity /\ m.p + m.n + Len(buffer) + Len(todo) = read
    /\ buffer = Part(m.p + m.n, Len(buffer))

Busy(m) ==
    /\ at \in {"writing", "shutdown"}
    /\ \E n, p : /\ IsChunk(n, p) /\ n > 0
                 /\ header = Header(n) /\ buffer = Part(p, n) \o CRLF
                 /\ p + n + Len(todo) = read
                 /\ sent <= Full(n) /\ At(m, n, p, sent)

Ending(m) ==
    /\ at = "shutdown" /\ buffer = << >> /\ header = LastChunk
    /\ sent <= Full(0) /\ At(m, 0, Len(Source), sent)

Ended(m) ==
    /\ at = "done" /\ buffer = << >> /\ header = LastChunk /\ sent = Full(0)
    /\ m.n = 0 /\ m.k = Full(0) + 1

WriterAt(m) == Idle(m) \/ Busy(m) \/ Ending(m) \/ Ended(m)

\* Where the ChunkedReader is: in a header, in a chunk, or behind the last header.
InHeader(l) ==
    /\ status = "WaitingForChunk" /\ result = "open"
    /\ \E n : /\ n \in Nat /\ n <= Capacity /\ Len(line) <= Wide(n) + 1
              /\ At(l, n, Len(got), Len(line))
              /\ \A i \in 1..Len(line) : line[i] = Header(n)[i]

InChunk(l) ==
    /\ status = "ReadingChunk" /\ result = "open"
    /\ l.n = current_chunk_size /\ l.n > 0
    /\ Len(got) = l.p + current_chunk_count /\ current_chunk_count <= l.n
    /\ l.k = Intro(l.n) + current_chunk_count + Len(line)
    /\ line = << >> \/ (current_chunk_count = l.n /\ line = <<CR>>)

AtEnd(l) ==
    /\ status = "Done" /\ l.n = 0 /\ Len(got) = l.p /\ l.k = Intro(0) + Len(line)
    /\ \/ result = "open" /\ line \in {<< >>, <<CR>>}
       \/ result = "end" /\ line = CRLF

ReaderAt(l) == InHeader(l) \/ InChunk(l) \/ AtEnd(l)

\* What is between the two is a path from the one to the other.
Linked ==
    \E l, m \in Labels : /\ Path(wire \o held, l, m) /\ ReaderAt(l)
                         /\ at # "failed" => WriterAt(m)

\* What the reader's user has is the beginning of the body.
GotInv == Len(got) <= Len(Source) /\ got = Part(0, Len(got))

FailInv ==
    /\ result = "error" => at = "failed"
    /\ at = "failed" => held = << >>

Inv ==
    /\ TypeInv /\ BodyInv /\ GotInv /\ FailInv
    /\ result # "error" => Linked

-----------------------------------------------------------------------------
(* The writer. *)

\* What a step of the writer adds leads from where it was to where it is.
Written(m) ==
    \E o \in Labels, w \in Seq(Units) :
        wire' \o held' = (wire \o held) \o w /\ Path(w, m, o) /\ WriterAt(o)'

\* The chunk at hand.
IsAtHand(n, p, m) ==
    /\ IsChunk(n, p) /\ n > 0 /\ p + n + Len(todo) = read
    /\ CreateChunk.header = Header(n) /\ CreateChunk.buffer = Part(p, n) \o CRLF
    /\ sent <= Full(n) /\ At(m, n, p, sent)
    /\ Unsent(CreateChunk) = SubSeq(Chunk(n, p), sent + 1, Full(n))

LEMMA HeaderNotEmpty ==
    ASSUME NEW n \in Nat
    PROVE  Header(n) # << >>
<1>1. Len(Header(n)) > 0
  <2>1. Len(Header(n)) = Intro(n)
    BY HeaderUnits
  <2>2. Intro(n) = Wide(n) + 2 /\ Wide(n) \in Nat
    BY Lengths
  <2> QED
    BY <2>1, <2>2
<1> QED
  BY <1>1

LEMMA ChunkAtHand ==
    ASSUME TypeInv, BodyInv, NEW m \in Labels, Idle(m) \/ Busy(m),
           at \in {"writing", "shutdown"}, buffer # << >>
    PROVE  \E n, p : IsAtHand(n, p, m)
<1>1. \E n, p : /\ IsChunk(n, p) /\ n > 0 /\ p + n + Len(todo) = read
                /\ CreateChunk.header = Header(n) /\ CreateChunk.buffer = Part(p, n) \o CRLF
                /\ sent <= Full(n) /\ At(m, n, p, sent)
  <2>1. CASE Idle(m)
    <3> DEFINE n == Len(buffer)
               p == m.p + m.n
    <3>1. n \in Nat /\ n > 0 /\ n <= Capacity /\ p \in Nat /\ Len(todo) \in Nat
      <4>1. buffer \in Seq(Units) /\ todo \in Seq(Units)
        BY DEF TypeInv
      <4>2. n \in Nat /\ n > 0 /\ Len(todo) \in Nat
        BY <4>1
      <4>3. n <= Capacity
        BY <2>1 DEF Idle
      <4>4. p \in Nat
        <5>1. m.p \in Nat /\ m.n \in Nat
          BY LabelFacts
        <5> QED
          BY <5>1
      <4> QED
        BY <4>2, <4>3, <4>4
    <3>2. p + n + Len(todo) = read /\ p + n <= Len(Source)
      BY <2>1, <3>1, LabelFacts, Constants DEF TypeInv, Idle
    <3>3. CreateChunk.header = Header(n) /\ CreateChunk.buffer = Part(p, n) \o CRLF
      <4>1. header = << >> /\ buffer = Part(p, n)
        BY <2>1 DEF Idle
      <4>2. CreateChunk = [header |-> Header(Len(buffer)), buffer |-> buffer \o CRLF]
        BY <4>1 DEF CreateChunk
      <4>3. CreateChunk.header = Header(Len(buffer)) /\ CreateChunk.buffer = buffer \o CRLF
        BY <4>2
      <4> QED
        BY <4>1, <4>3
    <3>4. At(m, n, p, sent) /\ sent = 0
      BY <2>1 DEF Idle, At
    <3>5. IsChunk(n, p) /\ sent <= Full(n)
      BY <3>1, <3>2, <3>4, Lengths DEF IsChunk
    <3> HIDE DEF n, p
    <3> QED
      BY <3>1, <3>2, <3>3, <3>4, <3>5
  <2>2. CASE Busy(m)
    <3>1. PICK n, p : /\ IsChunk(n, p) /\ n > 0
                      /\ header = Header(n) /\ buffer = Part(p, n) \o CRLF
                      /\ p + n + Len(todo) = read
                      /\ sent <= Full(n) /\ At(m, n, p, sent)
      BY <2>2 DEF Busy
    <3>2. header # << >>
      BY <3>1, HeaderNotEmpty DEF IsChunk
    <3>3. CreateChunk = [header |-> header, buffer |-> buffer]
      BY <3>2 DEF CreateChunk
    <3>4. CreateChunk.header = header /\ CreateChunk.buffer = buffer
      BY <3>3
    <3> QED
      BY <3>1, <3>4
  <2> QED
    BY <2>1, <2>2
<1>2. PICK n, p : /\ IsChunk(n, p) /\ n > 0 /\ p + n + Len(todo) = read
                  /\ CreateChunk.header = Header(n) /\ CreateChunk.buffer = Part(p, n) \o CRLF
                  /\ sent <= Full(n) /\ At(m, n, p, sent)
  BY <1>1
<1>3. CreateChunk.header \o CreateChunk.buffer = Chunk(n, p)
  BY <1>2 DEF Chunk
<1>4. Len(CreateChunk.header) + Len(CreateChunk.buffer) = Full(n)
  <2>1. n \in Nat /\ p \in Nat /\ p + n <= Len(Source)
    BY <1>2 DEF IsChunk
  <2>2. Len(Header(n)) = Intro(n) /\ Intro(n) \in Nat
    BY <2>1, HeaderUnits, Lengths
  <2>3. Len(Part(p, n) \o CRLF) = n + 2
    <3> DEFINE b == Part(p, n)
    <3>1. b \in Seq(Units) /\ Len(b) = n
      BY <2>1, PartUnits
    <3> HIDE DEF b
    <3> DEFINE e == CRLF
    <3>2. e \in Seq(Units) /\ Len(e) = 2
      BY CrlfUnits
    <3> HIDE DEF e
    <3>3. Len(b \o e) = Len(b) + Len(e)
      BY <3>1, <3>2, Joined
    <3> QED
      BY <3>1, <3>2, <3>3 DEF b, e
  <2>4. Full(n) = Intro(n) + n + 2
    BY DEF Full
  <2> QED
    BY <1>2, <2>1, <2>2, <2>3, <2>4
<1>5. Unsent(CreateChunk) = SubSeq(Chunk(n, p), sent + 1, Full(n))
  BY <1>3, <1>4 DEF Unsent
<1> QED
  BY <1>2, <1>5 DEF IsAtHand

\* A poll that has so many units of it accepted.
LEMMA Sending ==
    ASSUME TypeInv, NEW m \in Labels, NEW n, NEW p, IsAtHand(n, p, m),
           NEW x \in 0..Len(Unsent(CreateChunk))
    PROVE  /\ Unsent(CreateChunk) \in Seq(Units) /\ Len(Unsent(CreateChunk)) = Full(n) - sent
           /\ SubSeq(Unsent(CreateChunk), 1, x) \in Seq(Units)
           /\ SubSeq(Unsent(CreateChunk), 1, Len(Unsent(CreateChunk))) = Unsent(CreateChunk)
           /\ \E o \in Labels : /\ At(o, n, p, sent + x)
                                /\ Path(SubSeq(Unsent(CreateChunk), 1, x), m, o)
<1> DEFINE u == Unsent(CreateChunk)
           c == Chunk(n, p)
           v == SubSeq(u, 1, x)
           w == SubSeq(c, sent + 1, sent + x)
<1>1. /\ IsChunk(n, p) /\ n \in Nat /\ p \in Nat /\ p + n <= Len(Source)
      /\ sent \in Nat /\ sent <= Full(n) /\ At(m, n, p, sent) /\ u = SubSeq(c, sent + 1, Full(n))
  BY DEF IsAtHand, IsChunk, TypeInv
<1>2. c \in Seq(Units) /\ Len(c) = Full(n) /\ Full(n) \in Nat
  BY <1>1, ChunkUnits, Lengths
<1> HIDE DEF u, c
<1>3. /\ u \in Seq(Units) /\ Len(u) = Full(n) - sent
      /\ \A i \in 1..(Full(n) - sent) : u[i] = c[sent + i]
  <2> DEFINE N == Full(n)
             r == SubSeq(c, sent + 1, N)
  <2>1. N \in Nat /\ sent \in Nat /\ sent <= N /\ N <= Len(c)
    BY <1>1, <1>2
  <2>2. u = r
    BY <1>1
  <2> HIDE DEF N
  <2>3. r \in Seq(Units) /\ Len(r) = N - sent /\ \A i \in 1..(N - sent) : r[i] = c[sent + i]
    BY <1>2, <2>1, PartOf
  <2> HIDE DEF r
  <2> QED
    BY <2>2, <2>3 DEF N
<1>4. x \in Nat /\ x <= Full(n) - sent /\ sent + x \in Nat /\ sent <= sent + x /\ sent + x <= Full(n)
  BY <1>1, <1>2, <1>3 DEF u
<1>5. /\ v \in Seq(Units) /\ Len(v) = x /\ \A i \in 1..x : v[i] = u[i]
  BY <1>3, <1>4
<1>6. /\ w \in Seq(Units) /\ Len(w) = (sent + x) - sent
      /\ \A i \in 1..((sent + x) - sent) : w[i] = c[sent + i]
  BY <1>1, <1>2, <1>4, PartOf
<1> HIDE DEF v, w
<1>7. v = w
  <2>1. (sent + x) - sent = x /\ \A i \in 1..x : i \in 1..(Full(n) - sent)
    BY <1>1, <1>2, <1>4
  <2>2. \A i \in 1..x : v[i] = w[i]
    BY <1>3, <1>5, <1>6, <2>1
  <2> QED
    BY <1>5, <1>6, <2>1, <2>2, UnitsEqual
<1>8. \E o \in Labels : At(o, n, p, sent + x) /\ Path(w, m, o)
  BY <1>1, <1>4, PathAlong DEF w, c
<1>9. SubSeq(u, 1, Len(u)) = u
  BY <1>3
<1> QED
  BY <1>3, <1>5, <1>7, <1>8, <1>9 DEF u, v

\* It goes into the BufWriter, or on to the wire with what that holds.
LEMMA Sends ==
    ASSUME TypeInv, NEW m \in Labels, NEW n, NEW p, IsAtHand(n, p, m),
           NEW x \in 0..Len(Unsent(CreateChunk)), SendChunk(x) \/ (Sent(x) /\ FlushChunk)
    PROVE  /\ held' \in Seq(Units) /\ wire' \in Seq(Units)
           /\ sent + x \in Nat /\ sent + x <= Full(n)
           /\ Sent(x) => sent + x = Full(n)
           /\ \E o \in Labels, w \in Seq(Units) :
                  /\ wire' \o held' = (wire \o held) \o w
                  /\ At(o, n, p, sent + x) /\ Path(w, m, o)
<1> DEFINE u == Unsent(CreateChunk)
           w == SubSeq(u, 1, x)
<1>1. /\ u \in Seq(Units) /\ Len(u) = Full(n) - sent /\ w \in Seq(Units) /\ SubSeq(u, 1, Len(u)) = u
  BY Sending
<1>2. PICK o \in Labels : At(o, n, p, sent + x) /\ Path(w, m, o)
  BY Sending
<1>3. /\ sent \in Nat /\ sent <= Full(n) /\ Full(n) \in Nat
      /\ wire \in Seq(Units) /\ held \in Seq(Units)
  BY Lengths DEF IsAtHand, IsChunk, TypeInv
<1>4. sent + x \in Nat /\ sent + x <= Full(n) /\ (Sent(x) => sent + x = Full(n))
  BY <1>1, <1>3 DEF Sent
<1>5. CASE SendChunk(x)
  <2>1. held' = held \o w /\ wire' = wire
    BY <1>5 DEF SendChunk
  <2> HIDE DEF u, w
  <2>2. held' \in Seq(Units) /\ wire' \in Seq(Units)
    BY <1>1, <1>3, <2>1, Joined
  <2>3. wire' \o held' = (wire \o held) \o w
    BY <1>1, <1>3, <2>1, JoinAssociative
  <2> QED
    BY <1>1, <1>2, <1>4, <2>2, <2>3
<1>6. CASE Sent(x) /\ FlushChunk
  <2>1. held' = << >> /\ wire' = (wire \o held) \o u /\ x = Len(u)
    BY <1>6 DEF FlushChunk, Sent
  <2>2. w = u
    BY <1>1, <2>1
  <2> HIDE DEF u, w
  <2>3. wire \o held \in Seq(Units)
    BY <1>3, Joined
  <2>4. held' \in Seq(Units) /\ wire' \in Seq(Units)
    BY <1>1, <2>1, <2>3, Joined, JoinEmpty
  <2>5. wire' \o held' = (wire \o held) \o w
    BY <2>1, <2>2, <2>4, JoinEmpty
  <2> QED
    BY <1>1, <1>2, <1>4, <2>4, <2>5
<1> QED
  BY <1>5, <1>6

\* All of it has been sent.
LEMMA ResetIsIdle ==
    ASSUME TypeInv, NEW m \in Labels, NEW n, NEW p, IsAtHand(n, p, m),
           NEW o \in Labels, At(o, n, p, Full(n)), Reset, at \in {"writing", "shutdown"},
           UNCHANGED <<at, read, todo>>
    PROVE  Idle(o)'
<1>1. n \in Nat /\ n > 0 /\ p \in Nat /\ p + n + Len(todo) = read /\ Len(todo) \in Nat
  BY DEF IsAtHand, IsChunk, TypeInv
<1>2. Between(o) /\ o.p + o.n = p + n
  BY <1>1, Passed
<1>3. buffer' = << >> /\ Len(buffer') = 0 /\ header' = << >> /\ sent' = 0
  BY DEF Reset
<1>4. buffer' = Part(o.p + o.n, Len(buffer'))
  BY <1>3, PartEmpty
<1>5. o.p + o.n + Len(buffer') + Len(todo') = read'
  BY <1>1, <1>2, <1>3
<1> QED
  BY <1>2, <1>3, <1>4, <1>5, Constants DEF Idle

\* What there is room for has been copied.
LEMMA CopyIsIdle ==
    ASSUME TypeInv, BodyInv, NEW o \in Labels, Between(o), NEW into \in Seq(Units),
           into = Part(o.p + o.n, Len(into)), Len(into) <= Capacity,
           o.p + o.n + Len(into) + Len(todo) = read,
           Copy(into), UNCHANGED read
    PROVE  /\ Idle(o)' /\ BodyInv'
           /\ buffer' \in Seq(Units) /\ todo' \in Seq(Units) /\ header' \in Seq(Units)
           /\ sent' \in Nat /\ at' \in {"reading", "writing"}
<1> DEFINE q == o.p + o.n
           x == Len(into)
           t == Len(todo)
           n == Smaller(Capacity - x, t)
<1>1. /\ q \in Nat /\ x \in Nat /\ t \in Nat /\ q + x + t = read /\ read <= Len(Source)
      /\ Capacity \in Nat /\ Len(Source) \in Nat /\ x <= Capacity /\ read \in Nat
  <2>1. o.p \in Nat /\ o.n \in Nat
    BY LabelFacts
  <2>2. /\ x \in Nat /\ t \in Nat /\ read \in Nat /\ read <= Len(Source)
    BY DEF TypeInv
  <2> QED
    BY <2>1, <2>2, Constants
<1>2. n \in Nat /\ n <= t /\ x + n <= Capacity
  BY <1>1 DEF Smaller
<1>3. /\ buffer' = into \o SubSeq(todo, 1, n) /\ todo' = SubSeq(todo, n + 1, t)
      /\ at' = IF n = t THEN "reading" ELSE "writing"
      /\ header' = << >> /\ sent' = 0
  BY DEF Copy
<1>4. into = Part(q, x) /\ todo = Part(q + x, t)
  <2>1. todo = Part(read - t, t)
    BY DEF BodyInv
  <2>2. read - t = q + x
    BY <1>1
  <2> QED
    BY <2>1, <2>2
<1> HIDE DEF q, x, t, n
<1>5. /\ SubSeq(todo, 1, n) = Part(q + x, n)
      /\ SubSeq(todo, n + 1, t) = Part((q + x) + n, t - n)
  <2>1. q + x \in Nat /\ (q + x) + t <= Len(Source) /\ n \in 0..t
    BY <1>1, <1>2
  <2>2. /\ SubSeq(Part(q + x, t), 1, n) = Part(q + x, n)
        /\ SubSeq(Part(q + x, t), n + 1, t) = Part((q + x) + n, t - n)
    BY <1>1, <2>1, PartCut
  <2> QED
    BY <1>4, <2>2
<1>6. buffer' = Part(q, x + n)
  <2>1. x + n \in Nat /\ q + (x + n) <= Len(Source) /\ x \in 0..(x + n) /\ (x + n) - x = n
    BY <1>1, <1>2
  <2>2. Part(q, x) \o Part(q + x, (x + n) - x) = Part(q, x + n)
    BY <1>1, <2>1, PartCut
  <2> QED
    BY <1>3, <1>4, <1>5, <2>1, <2>2
<1>7. /\ buffer' \in Seq(Units) /\ Len(buffer') = x + n
  BY <1>1, <1>2, <1>6, PartUnits
<1>8. todo' = Part((q + x) + n, t - n) /\ todo' \in Seq(Units) /\ Len(todo') = t - n
  <2>1. (q + x) + n \in Nat /\ t - n \in Nat /\ ((q + x) + n) + (t - n) <= Len(Source)
    BY <1>1, <1>2
  <2> QED
    BY <1>3, <1>5, <2>1, PartUnits
<1>9. BodyInv'
  <2>1. read' - Len(todo') = (q + x) + n /\ Len(todo') <= read'
    BY <1>1, <1>2, <1>8
  <2>2. at' = "reading" => todo' = << >>
    <3>1. at' = "reading" => n = t
      BY <1>3
    <3>2. n = t => t - n = 0
      BY <1>1, <1>2
    <3> QED
      BY <1>8, <3>1, <3>2, PartEmpty
  <2>3. at' \in {"reading", "writing"}
    BY <1>3
  <2> QED
    BY <1>8, <2>1, <2>2, <2>3 DEF BodyInv
<1>10. Idle(o)'
  <2>0. read' = read /\ Len(buffer') = x + n /\ Len(todo') = t - n
    BY <1>7, <1>8
  <2>1. q + Len(buffer') + Len(todo') = read' /\ Len(buffer') <= Capacity
    <3>1. q + (x + n) + (t - n) = read
      BY <1>1, <1>2
    <3> QED
      BY <1>2, <2>0, <3>1
  <2>2. buffer' = Part(q, Len(buffer')) /\ at' # "done"
    BY <1>3, <1>6, <1>7
  <2> QED
    BY <1>3, <2>1, <2>2 DEF Idle, q
<1>11. header' \in Seq(Units) /\ sent' \in Nat /\ at' \in {"reading", "writing"}
  BY <1>3
<1> QED
  BY <1>7, <1>8, <1>9, <1>10, <1>11

-----------------------------------------------------------------------------
(* Its steps. *)

\* Nothing of the reader is touched.
Wrote(m) == TypeInv' /\ BodyInv' /\ Written(m)

LEMMA WroteNothing ==
    ASSUME TypeInv, NEW m \in Labels, UNCHANGED <<wire, held>>, WriterAt(m)'
    PROVE  Written(m)
<1>1. Path(<< >>, m, m)
  BY PathEmpty
<1>2. wire \o held \in Seq(Units)
  BY Joined DEF TypeInv
<1>3. wire' \o held' = (wire \o held) \o << >> /\ << >> \in Seq(Units)
  BY <1>2, JoinEmpty
<1> QED
  BY <1>1, <1>3 DEF Written

LEMMA ReadBodyWrites ==
    ASSUME TypeInv, BodyInv, NEW m \in Labels, WriterAt(m), ReadBody
    PROVE  Wrote(m)
<1>1. /\ at = "reading" /\ todo = << >> /\ read \in Nat /\ read <= Len(Source) /\ Len(todo) = 0
      /\ at' = "writing" /\ UNCHANGED <<writerVars, held, wire, readerVars>>
  BY DEF ReadBody, BodyInv, TypeInv
<1>2. PICK n \in 1..Smaller(MaxRead, Len(Source) - read) :
          todo' = [i \in 1..n |-> Byte(Source[read + i])] /\ read' = read + n
  BY DEF ReadBody
<1>3. n \in Nat /\ read + n <= Len(Source)
  BY <1>1, Constants DEF Smaller
<1>4. todo' = Part(read, n)
  BY <1>2 DEF Part
<1>5. todo' \in Seq(Units) /\ Len(todo') = n
  BY <1>1, <1>3, <1>4, PartUnits
<1>6. TypeInv'
  BY <1>1, <1>2, <1>3, <1>5 DEF TypeInv, writerVars, readerVars
<1>7. BodyInv'
  BY <1>1, <1>2, <1>3, <1>4, <1>5 DEF BodyInv
<1>8. Idle(m)
  BY <1>1 DEF WriterAt, Busy, Ending, Ended
<1>9. Idle(m)'
  <2>1. m.p + m.n + Len(buffer) + Len(todo) = read /\ m.p \in Nat /\ m.n \in Nat /\ Len(buffer) \in Nat
    BY <1>8, LabelFacts DEF Idle, TypeInv
  <2>2. m.p + m.n + Len(buffer') + Len(todo') = read'
    BY <1>1, <1>2, <1>3, <1>5, <2>1 DEF writerVars
  <2> QED
    BY <1>1, <1>8, <2>2 DEF Idle, writerVars
<1>10. Written(m)
  BY <1>1, <1>9, WroteNothing DEF WriterAt
<1> QED
  BY <1>6, <1>7, <1>10 DEF Wrote

LEMMA EndBodyWrites ==
    ASSUME TypeInv, BodyInv, NEW m \in Labels, WriterAt(m), EndBody
    PROVE  Wrote(m)
<1>1. /\ at = "reading" /\ todo = << >> /\ read = Len(Source) /\ at' = "shutdown"
      /\ UNCHANGED <<read, todo, writerVars, held, wire, readerVars>>
  BY DEF EndBody, BodyInv, TypeInv
<1>2. TypeInv'
  BY <1>1 DEF TypeInv, writerVars, readerVars
<1>3. BodyInv'
  BY <1>1 DEF BodyInv
<1>4. Idle(m)
  BY <1>1 DEF WriterAt, Busy, Ending, Ended
<1>5. Idle(m)'
  BY <1>1, <1>4 DEF Idle, writerVars
<1>6. Written(m)
  BY <1>1, <1>5, WroteNothing DEF WriterAt
<1> QED
  BY <1>2, <1>3, <1>6 DEF Wrote

LEMMA WriteWrites ==
    ASSUME TypeInv, BodyInv, NEW m \in Labels, WriterAt(m), Write
    PROVE  Wrote(m)
<1>1. /\ at = "writing" /\ header = << >> /\ Copy(buffer)
      /\ UNCHANGED <<read, held, wire, readerVars>>
  BY DEF Write, MustFlush
<1>2. Idle(m)
  BY <1>1, HeaderNotEmpty DEF WriterAt, Idle, Busy, Ending, Ended, IsChunk
<1>3. /\ Between(m) /\ buffer \in Seq(Units) /\ Len(buffer) <= Capacity
      /\ buffer = Part(m.p + m.n, Len(buffer))
      /\ m.p + m.n + Len(buffer) + Len(todo) = read
  BY <1>2 DEF Idle, TypeInv
<1>4. /\ Idle(m)' /\ BodyInv'
      /\ buffer' \in Seq(Units) /\ todo' \in Seq(Units) /\ header' \in Seq(Units)
      /\ sent' \in Nat /\ at' \in {"reading", "writing"}
  BY <1>1, <1>3, CopyIsIdle
<1>5. TypeInv'
  BY <1>1, <1>4 DEF TypeInv, readerVars
<1>6. Written(m)
  BY <1>1, <1>4, WroteNothing DEF WriterAt
<1> QED
  BY <1>4, <1>5, <1>6 DEF Wrote

LEMMA FlushAndWriteWrites ==
    ASSUME TypeInv, BodyInv, NEW m \in Labels, WriterAt(m),
           NEW x \in 0..Len(Unsent(CreateChunk)), FlushAndWrite(x)
    PROVE  Wrote(m)
<1>1. at = "writing" /\ MustFlush /\ UNCHANGED <<read, readerVars>>
  BY DEF FlushAndWrite
<1>2. Idle(m) \/ Busy(m)
  BY <1>1 DEF WriterAt, Ending, Ended
<1>3. buffer # << >>
  <2>1. CASE Idle(m)
    BY <1>1, <2>1, Constants DEF Idle, MustFlush
  <2>2. CASE Busy(m)
    <3>1. PICK n, p : IsChunk(n, p) /\ buffer = Part(p, n) \o CRLF
      BY <2>2 DEF Busy
    <3> DEFINE b == Part(p, n)
               e == CRLF
    <3>2. b \in Seq(Units) /\ e \in Seq(Units) /\ Len(e) = 2
      BY <3>1, PartUnits, CrlfUnits DEF IsChunk
    <3> HIDE DEF b, e
    <3>3. Len(b \o e) = Len(b) + Len(e) /\ Len(b) \in Nat
      BY <3>2, Joined
    <3> QED
      BY <3>1, <3>2, <3>3 DEF b, e
  <2> QED
    BY <1>2, <2>1, <2>2
<1>4. PICK n, p : IsAtHand(n, p, m)
  BY <1>1, <1>2, <1>3, ChunkAtHand
<1>5. SendChunk(x) \/ (Sent(x) /\ FlushChunk)
  BY DEF FlushAndWrite
<1>6. /\ held' \in Seq(Units) /\ wire' \in Seq(Units)
      /\ sent + x \in Nat /\ sent + x <= Full(n)
      /\ Sent(x) => sent + x = Full(n)
  BY <1>4, <1>5, Sends
<1>7. PICK o \in Labels, w \in Seq(Units) :
          /\ wire' \o held' = (wire \o held) \o w
          /\ At(o, n, p, sent + x) /\ Path(w, m, o)
  BY <1>4, <1>5, Sends
<1>8. /\ IsChunk(n, p) /\ n > 0 /\ p + n + Len(todo) = read /\ n \in Nat /\ p \in Nat
      /\ CreateChunk.header = Header(n) /\ CreateChunk.buffer = Part(p, n) \o CRLF
  BY <1>4 DEF IsAtHand, IsChunk
<1>9. CASE ~Sent(x) /\ KeepChunk(x) /\ UNCHANGED <<todo, at>>
  <2>1. /\ buffer' = Part(p, n) \o CRLF /\ header' = Header(n) /\ sent' = sent + x
        /\ UNCHANGED <<todo, at, read>>
    BY <1>1, <1>8, <1>9 DEF KeepChunk
  <2>2. buffer' \in Seq(Units) /\ header' \in Seq(Units)
    <3>1. Part(p, n) \in Seq(Units)
      BY <1>8, PartUnits DEF IsChunk
    <3> QED
      BY <1>8, <2>1, <3>1, CrlfUnits, HeaderUnits, Joined
  <2>3. TypeInv'
    BY <1>1, <1>6, <2>1, <2>2 DEF TypeInv, readerVars
  <2>4. BodyInv'
    BY <2>1 DEF BodyInv
  <2>5. Busy(o)'
    <3>1. at' \in {"writing", "shutdown"} /\ p + n + Len(todo') = read'
      BY <1>1, <1>8, <2>1
    <3>2. sent' <= Full(n) /\ At(o, n, p, sent')
      BY <1>6, <1>7, <2>1
    <3> QED
      BY <1>8, <2>1, <3>1, <3>2 DEF Busy
  <2> QED
    BY <1>7, <2>3, <2>4, <2>5 DEF Wrote, Written, WriterAt
<1>10. CASE Sent(x) /\ Reset /\ UNCHANGED <<todo, at>>
  <2>1. At(o, n, p, Full(n))
    BY <1>6, <1>7, <1>10
  <2>2. Idle(o)'
    BY <1>1, <1>4, <1>10, <2>1, ResetIsIdle
  <2>3. buffer' = << >> /\ header' = << >> /\ sent' = 0
    BY <1>10 DEF Reset
  <2>4. TypeInv'
    BY <1>1, <1>6, <1>10, <2>3 DEF TypeInv, readerVars
  <2>5. BodyInv'
    BY <1>1, <1>10 DEF BodyInv
  <2> QED
    BY <1>7, <2>2, <2>4, <2>5 DEF Wrote, Written, WriterAt
<1>11. CASE Sent(x) /\ Copy(<< >>)
  <2>1. At(o, n, p, Full(n))
    BY <1>6, <1>7, <1>11
  <2>2. Between(o) /\ o.p + o.n = p + n
    BY <1>8, <2>1, Passed
  <2>3. /\ << >> \in Seq(Units) /\ Len(<< >>) = 0 /\ << >> = Part(o.p + o.n, 0)
        /\ o.p + o.n + 0 + Len(todo) = read /\ 0 <= Capacity
    BY <1>8, <2>2, PartEmpty, Constants
  <2>4. /\ Idle(o)' /\ BodyInv'
        /\ buffer' \in Seq(Units) /\ todo' \in Seq(Units) /\ header' \in Seq(Units)
        /\ sent' \in Nat /\ at' \in {"reading", "writing"}
    <3> DEFINE into == << >>
    <3>1. /\ into \in Seq(Units) /\ into = Part(o.p + o.n, Len(into)) /\ Len(into) <= Capacity
          /\ o.p + o.n + Len(into) + Len(todo) = read
      BY <2>3
    <3>2. Copy(into) /\ UNCHANGED read
      BY <1>1, <1>11
    <3> HIDE DEF into
    <3> QED
      BY <2>2, <3>1, <3>2, CopyIsIdle
  <2>5. TypeInv'
    BY <1>1, <1>6, <2>4 DEF TypeInv, readerVars
  <2> QED
    BY <1>7, <2>4, <2>5 DEF Wrote, Written, WriterAt
<1> QED
  BY <1>9, <1>10, <1>11 DEF FlushAndWrite

LEMMA FlushAndShutdownWrites ==
    ASSUME TypeInv, BodyInv, NEW m \in Labels, WriterAt(m),
           NEW x \in 0..Len(Unsent(CreateChunk)), FlushAndShutdown(x)
    PROVE  Wrote(m)
<1>1. at = "shutdown" /\ buffer # << >> /\ UNCHANGED <<at, read, todo, readerVars>>
  BY DEF FlushAndShutdown, bodyVars
<1>2. Idle(m) \/ Busy(m)
  BY <1>1 DEF WriterAt, Ending, Ended
<1>4. PICK n, p : IsAtHand(n, p, m)
  BY <1>1, <1>2, ChunkAtHand
<1>5. SendChunk(x) \/ (Sent(x) /\ FlushChunk)
  BY DEF FlushAndShutdown
<1>6. /\ held' \in Seq(Units) /\ wire' \in Seq(Units)
      /\ sent + x \in Nat /\ sent + x <= Full(n)
      /\ Sent(x) => sent + x = Full(n)
  BY <1>4, <1>5, Sends
<1>7. PICK o \in Labels, w \in Seq(Units) :
          /\ wire' \o held' = (wire \o held) \o w
          /\ At(o, n, p, sent + x) /\ Path(w, m, o)
  BY <1>4, <1>5, Sends
<1>8. /\ IsChunk(n, p) /\ n > 0 /\ p + n + Len(todo) = read /\ n \in Nat /\ p \in Nat
      /\ CreateChunk.header = Header(n) /\ CreateChunk.buffer = Part(p, n) \o CRLF
  BY <1>4 DEF IsAtHand, IsChunk
<1>3. BodyInv'
  BY <1>1 DEF BodyInv
<1>9. CASE ~Sent(x) /\ KeepChunk(x)
  <2>1. buffer' = Part(p, n) \o CRLF /\ header' = Header(n) /\ sent' = sent + x
    BY <1>8, <1>9 DEF KeepChunk
  <2>2. buffer' \in Seq(Units) /\ header' \in Seq(Units)
    <3>1. Part(p, n) \in Seq(Units)
      BY <1>8, PartUnits DEF IsChunk
    <3> QED
      BY <1>8, <2>1, <3>1, CrlfUnits, HeaderUnits, Joined
  <2>3. TypeInv'
    BY <1>1, <1>6, <2>1, <2>2 DEF TypeInv, readerVars
  <2>5. Busy(o)'
    <3>1. at' \in {"writing", "shutdown"} /\ p + n + Len(todo') = read'
      BY <1>1, <1>8
    <3>2. sent' <= Full(n) /\ At(o, n, p, sent')
      BY <1>6, <1>7, <2>1
    <3> QED
      BY <1>8, <2>1, <3>1, <3>2 DEF Busy
  <2> QED
    BY <1>3, <1>7, <2>3, <2>5 DEF Wrote, Written, WriterAt
<1>10. CASE Sent(x) /\ Reset
  <2>1. At(o, n, p, Full(n))
    BY <1>6, <1>7, <1>10
  <2>2. Idle(o)'
    BY <1>1, <1>4, <1>10, <2>1, ResetIsIdle
  <2>3. buffer' = << >> /\ header' = << >> /\ sent' = 0
    BY <1>10 DEF Reset
  <2>4. TypeInv'
    BY <1>1, <1>6, <2>3 DEF TypeInv, readerVars
  <2> QED
    BY <1>3, <1>7, <2>2, <2>4 DEF Wrote, Written, WriterAt
<1> QED
  BY <1>9, <1>10 DEF FlushAndShutdown

LEMMA ShutdownWrites ==
    ASSUME TypeInv, BodyInv, NEW m \in Labels, WriterAt(m), Shutdown
    PROVE  Wrote(m)
<1> DEFINE c == LastChunk
           N == Full(0)
           S == Len(Source)
           rest == SubSeq(c, sent + 1, Len(c))
<1>1. /\ at = "shutdown" /\ buffer = << >> /\ header' = c
      /\ todo = << >> /\ Len(todo) = 0 /\ read = S /\ S \in Nat
      /\ UNCHANGED <<read, todo, buffer, readerVars>>
  BY Constants DEF Shutdown, BodyInv
<1>2. c = Chunk(0, S) /\ c \in Seq(Units) /\ Len(c) = N /\ N \in Nat
  <2>1. c = Chunk(0, S)
    <3>1. Part(S, 0) \o CRLF = CRLF
      BY PartEmpty, CrlfUnits, JoinEmpty
    <3> QED
      BY <3>1 DEF LastChunk, Chunk
  <2>2. 0 \in Nat /\ S + 0 <= Len(Source)
    BY <1>1
  <2>3. Chunk(0, S) \in Seq(Units) /\ Len(Chunk(0, S)) = Full(0)
    BY <1>1, <2>2, ChunkUnits
  <2>4. Full(0) \in Nat
    BY <2>2, Lengths
  <2> QED
    BY <2>1, <2>3, <2>4
<1>3. sent \in Nat /\ sent <= N /\ At(m, 0, S, sent)
  <2>1. CASE Idle(m)
    <3>1. sent = 0 /\ Between(m) /\ m.p + m.n = S
      <4>1. m.p + m.n + 0 + 0 = S /\ m.p \in Nat /\ m.n \in Nat
        BY <1>1, <2>1, LabelFacts DEF Idle
      <4> QED
        BY <2>1, <4>1 DEF Idle
    <3> QED
      BY <1>2, <3>1 DEF At
  <2>2. CASE Busy(m)
    <3>1. PICK n, p : IsChunk(n, p) /\ buffer = Part(p, n) \o CRLF
      BY <2>2 DEF Busy
    <3> DEFINE b == Part(p, n)
               e == CRLF
    <3>2. b \in Seq(Units) /\ e \in Seq(Units) /\ Len(e) = 2
      BY <3>1, PartUnits, CrlfUnits DEF IsChunk
    <3> HIDE DEF b, e
    <3>3. Len(b \o e) = Len(b) + Len(e) /\ Len(b) \in Nat
      BY <3>2, Joined
    <3> QED
      BY <1>1, <3>1, <3>2, <3>3 DEF b, e
  <2>3. CASE Ending(m)
    BY <2>3 DEF Ending, TypeInv
  <2>4. CASE Ended(m)
    BY <1>1, <2>4 DEF Ended
  <2> QED
    BY <2>1, <2>2, <2>3, <2>4 DEF WriterAt
<1>4. IsChunk(0, S)
  BY <1>1, Constants DEF IsChunk
<1>5. wire \in Seq(Units) /\ held \in Seq(Units) /\ wire \o held \in Seq(Units)
  BY Joined DEF TypeInv
<1>6. \/ \E n \in 0..Len(rest) : /\ sent' = sent + n
                                 /\ held' = held \o SubSeq(rest, 1, n)
                                 /\ UNCHANGED <<at, wire>>
      \/ /\ sent' = Len(c)
         /\ wire' = wire \o held \o rest \o <<NextMessage>>
         /\ held' = << >>
         /\ at' = "done"
  BY DEF Shutdown
<1> HIDE DEF c, N, S
<1>7. rest \in Seq(Units) /\ Len(rest) = N - sent /\ \A i \in 1..(N - sent) : rest[i] = c[sent + i]
  BY <1>2, <1>3, PartOf
<1> HIDE DEF rest
<1>8. ASSUME NEW n \in 0..Len(rest)
      PROVE  /\ sent + n \in Nat /\ sent + n <= N /\ SubSeq(rest, 1, n) \in Seq(Units)
             /\ \E o \in Labels : At(o, 0, S, sent + n) /\ Path(SubSeq(rest, 1, n), m, o)
  <2> DEFINE v == SubSeq(rest, 1, n)
             w == SubSeq(c, sent + 1, sent + n)
  <2>1. n \in Nat /\ n <= N - sent /\ sent + n \in Nat /\ sent <= sent + n /\ sent + n <= N
    BY <1>2, <1>3, <1>7
  <2>2. /\ v \in Seq(Units) /\ Len(v) = n /\ \A i \in 1..n : v[i] = rest[i]
    BY <1>7, <2>1
  <2>3. /\ w \in Seq(Units) /\ Len(w) = (sent + n) - sent
        /\ \A i \in 1..((sent + n) - sent) : w[i] = c[sent + i]
    BY <1>2, <1>3, <2>1, PartOf
  <2> HIDE DEF v, w
  <2>4. v = w
    <3>1. (sent + n) - sent = n /\ \A i \in 1..n : i \in 1..(N - sent)
      BY <1>2, <1>3, <2>1
    <3>2. \A i \in 1..n : v[i] = w[i]
      BY <1>7, <2>2, <2>3, <3>1
    <3> QED
      BY <2>2, <2>3, <3>1, <3>2, UnitsEqual
  <2>5. \E o \in Labels : At(o, 0, S, sent + n) /\ Path(w, m, o)
    BY <1>2, <1>3, <1>4, <2>1, PathAlong DEF w, N
  <2> QED
    BY <2>1, <2>2, <2>4, <2>5 DEF v
<1>9. CASE \E n \in 0..Len(rest) : /\ sent' = sent + n
                                   /\ held' = held \o SubSeq(rest, 1, n)
                                   /\ UNCHANGED <<at, wire>>
  <2>1. PICK n \in 0..Len(rest) : /\ sent' = sent + n
                                  /\ held' = held \o SubSeq(rest, 1, n)
                                  /\ UNCHANGED <<at, wire>>
    BY <1>9
  <2> DEFINE w == SubSeq(rest, 1, n)
  <2>2. PICK o \in Labels : At(o, 0, S, sent + n) /\ Path(w, m, o)
    BY <1>8
  <2>3. w \in Seq(Units) /\ sent + n \in Nat /\ sent + n <= N
    BY <1>8
  <2>4. held' = held \o w /\ wire' = wire /\ at' = at /\ sent' = sent + n
    BY <2>1
  <2> HIDE DEF w
  <2>5. held' \in Seq(Units) /\ wire' \o held' = (wire \o held) \o w
    <3>1. held \o w \in Seq(Units)
      BY <1>5, <2>3, Joined
    <3>2. (wire \o held) \o w = wire \o (held \o w)
      BY <1>5, <2>3, JoinAssociative
    <3> QED
      BY <2>4, <3>1, <3>2
  <2>6. TypeInv'
    BY <1>1, <1>2, <2>3, <2>4, <2>5 DEF TypeInv, readerVars
  <2>7. BodyInv'
    BY <1>1, <2>4 DEF BodyInv, S
  <2>8. Ending(o)'
    BY <1>1, <2>2, <2>3, <2>4 DEF Ending, c, N, S
  <2> QED
    BY <2>2, <2>3, <2>5, <2>6, <2>7, <2>8 DEF Wrote, Written, WriterAt
<1>10. CASE /\ sent' = Len(c)
            /\ wire' = wire \o held \o rest \o <<NextMessage>>
            /\ held' = << >>
            /\ at' = "done"
  <2> DEFINE n == Len(rest)
             e == <<NextMessage>>
             w == rest \o e
  <2>1. n \in 0..Len(rest) /\ SubSeq(rest, 1, n) = rest /\ sent + n = N
    BY <1>2, <1>3, <1>7
  <2>2. PICK o \in Labels : At(o, 0, S, N) /\ Path(rest, m, o)
    BY <1>8, <2>1
  <2>3. N > 0
    <3>1. Full(0) = Wide(0) + 0 + 4 /\ Wide(0) \in Nat
      BY Lengths
    <3> QED
      BY <3>1 DEF N
  <2>4. o.n = 0 /\ o.k = N
    BY <2>2, <2>3 DEF At
  <2>5. PICK z \in Labels : z.n = 0 /\ z.k = N + 1 /\ Path(e, o, z)
    BY <2>4, PathNext DEF N
  <2>6. e \in Seq(Units)
    BY UnitTypes
  <2> HIDE DEF e
  <2>7. w \in Seq(Units) /\ Path(w, m, z)
    BY <1>7, <2>2, <2>5, <2>6, Joined, PathJoin
  <2>8. /\ wire' = ((wire \o held) \o rest) \o e /\ held' = << >>
        /\ at' = "done" /\ sent' = N
    BY <1>2, <1>10 DEF e
  <2>9. ((wire \o held) \o rest) \o e = (wire \o held) \o w
    BY <1>5, <1>7, <2>6, JoinAssociative
  <2>10. wire' = (wire \o held) \o w /\ wire' \in Seq(Units)
    BY <1>5, <2>7, <2>8, <2>9, Joined
  <2> HIDE DEF w
  <2>11. wire' \o held' = (wire \o held) \o w /\ held' \in Seq(Units)
    BY <2>8, <2>10, JoinEmpty
  <2>12. TypeInv'
    BY <1>1, <1>2, <2>8, <2>10, <2>11 DEF TypeInv, readerVars
  <2>13. BodyInv'
    BY <1>1, <2>8 DEF BodyInv, S
  <2>14. Ended(z)'
    BY <1>1, <2>5, <2>8 DEF Ended, c, N
  <2> QED
    BY <2>7, <2>11, <2>12, <2>13, <2>14 DEF Wrote, Written, WriterAt
<1> QED
  BY <1>6, <1>9, <1>10

-----------------------------------------------------------------------------
(* The reader. *)

\* It has gone on, and has not refused what it has read.
ReadOn(m) ==
    /\ TypeInv' /\ GotInv' /\ result' # "error"
    /\ \E o \in Labels : Path(wire' \o held', o, m) /\ ReaderAt(o)'

\* One more character.
LEMMA OneMore ==
    ASSUME TypeInv, NEW l \in Labels, NEW m \in Labels, Path(wire \o held, l, m),
           wire # << >>, ReaderStep(1)
    PROVE  /\ wire' \in Seq(Units) /\ First \in Units
           /\ \E o \in Labels : /\ Follows(l, o) /\ First = Unit(o)
                                /\ Path(wire' \o held', o, m)
<1> DEFINE u == wire \o held
<1>1. wire \in Seq(Units) /\ held \in Seq(Units) /\ Len(wire) \in Nat /\ Len(wire) >= 1
  BY DEF TypeInv
<1>2. u \in Seq(Units) /\ Len(u) > 0 /\ u[1] = wire[1]
  BY <1>1, Joined
<1>3. wire' = SubSeq(wire, 1 + 1, Len(wire)) /\ held' = held
  BY DEF ReaderStep
<1>4. SubSeq(u, 1 + 1, Len(u)) = wire' \o held'
  BY <1>1, <1>3, DropJoined
<1>5. wire' \in Seq(Units) /\ First \in Units
  BY <1>1, <1>3 DEF First
<1> HIDE DEF u
<1>6. PICK o \in Labels : Follows(l, o) /\ u[1] = Unit(o) /\ Path(SubSeq(u, 2, Len(u)), o, m)
  BY <1>2, PathFirst DEF u
<1>7. 1 + 1 = 2
  OBVIOUS
<1> QED
  BY <1>2, <1>4, <1>5, <1>6, <1>7 DEF First

LEMMA LineType ==
    ASSUME TypeInv, First \in Units
    PROVE  /\ Line \in Seq(Units) /\ Len(Line) = Len(line) + 1 /\ Len(line) \in Nat
           /\ Line[Len(line) + 1] = First
           /\ \A i \in 1..Len(line) : Line[i] = line[i]
BY DEF Line, TypeInv

\* What is found in a header that has not been read to its end, and in one that has.
LEMMA EndFound ==
    ASSUME NEW n \in Nat, NEW s \in Seq(Units), Len(s) >= 1, Len(s) <= Intro(n),
           \A i \in 1..Len(s) : s[i] = Header(n)[i]
    PROVE  FindChunkHeaderEnd(s) = IF Len(s) = Intro(n) THEN Intro(n) ELSE None
<1> DEFINE others == {i \in DOMAIN s : s[i].kind # "digit"}
           w == Wide(n)
           N == Len(s)
<1>1. w \in Nat /\ w >= 1 /\ Intro(n) = w + 2 /\ N \in Nat /\ N >= 1 /\ N <= w + 2
  BY Lengths
<1>2. DOMAIN s = 1..N
  OBVIOUS
<1>0. /\ \A i \in 1..w : Digits[n][i] \in Nat /\ Header(n)[i] = Digit(Digits[n][i])
      /\ Header(n)[w + 1] = CR /\ Header(n)[w + 2] = NL
  BY HeaderUnits
<1>3. \A i \in 1..N : i <= w => s[i].kind = "digit"
  <2>1. \A i \in 1..w : Header(n)[i].kind = "digit"
    <3> HIDE DEF w
    <3> QED
      BY <1>0, UnitTypes
  <2> QED
    BY <1>1, <2>1
<1>4. N >= w + 1 => s[w + 1] = CR /\ s[w + 1].kind # "digit"
  <2>1. N >= w + 1 => w + 1 \in 1..Len(s)
    BY <1>1
  <2> QED
    BY <1>0, <2>1, UnitTypes
<1>5. N >= w + 2 => s[w + 2] = NL
  <2>1. N >= w + 2 => w + 2 \in 1..Len(s)
    BY <1>1
  <2> QED
    BY <1>0, <2>1
<1> HIDE DEF w, N
<1>6. CASE N <= w
  <2>1. others = {}
    BY <1>1, <1>2, <1>3, <1>6
  <2>2. FindChunkHeaderEnd(s) = None
    BY <2>1 DEF FindChunkHeaderEnd
  <2> QED
    BY <1>1, <1>6, <2>2 DEF N
<1>7. CASE N >= w + 1
  <2>1. w + 1 \in others /\ (\A i \in others : w + 1 <= i)
    BY <1>1, <1>2, <1>3, <1>4, <1>7
  <2>2. Min(others) = w + 1
    <3> HIDE DEF others
    <3>1. \A i, j \in others : i \in Int
      BY <1>1, <1>2 DEF others
    <3>2. Min(others) = CHOOSE i \in others : \A j \in others : i <= j
      BY DEF Min
    <3>3. Min(others) \in others /\ \A j \in others : Min(others) <= j
      BY <2>1, <3>2
    <3> QED
      BY <1>1, <2>1, <3>1, <3>3
  <2>3. others # {}
    BY <2>1
  <2>4. FindChunkHeaderEnd(s) =
            IF Min(others) = 1 \/ s[Min(others)] # CR THEN Invalid
            ELSE IF Min(others) = Len(s) THEN None
            ELSE IF s[Min(others) + 1] = NL THEN Min(others) + 1 ELSE Invalid
    BY <2>3 DEF FindChunkHeaderEnd
  <2>5. w + 1 # 1 /\ (w + 1) + 1 = w + 2
    BY <1>1
  <2>6. FindChunkHeaderEnd(s) =
            IF w + 1 = N THEN None ELSE IF s[w + 2] = NL THEN w + 2 ELSE Invalid
    BY <1>4, <1>7, <2>2, <2>4, <2>5 DEF N
  <2> HIDE DEF others
  <2>7. CASE N = w + 1
    BY <1>1, <2>6, <2>7 DEF N
  <2>8. CASE N = w + 2
    BY <1>1, <1>5, <2>6, <2>8 DEF N
  <2> QED
    BY <1>1, <1>7, <2>7, <2>8
<1> QED
  BY <1>1, <1>6, <1>7

\* A header that is being read is that of the chunk behind what the user has.
LEMMA HeaderGoesOn ==
    ASSUME TypeInv, NEW l \in Labels, InHeader(l), NEW o \in Labels, Follows(l, o),
           First \in Units, First = Unit(o)
    PROVE  /\ o.n \in Nat /\ o.n <= Capacity /\ o.p = Len(got) /\ o.k = Len(Line)
           /\ Len(line) + 1 <= Intro(o.n)
           /\ \A i \in 1..Len(Line) : Line[i] = Header(o.n)[i]
<1>1. PICK n : /\ n \in Nat /\ n <= Capacity /\ Len(line) <= Wide(n) + 1
               /\ At(l, n, Len(got), Len(line))
               /\ \A i \in 1..Len(line) : line[i] = Header(n)[i]
  BY DEF InHeader
<1>2. /\ Line \in Seq(Units) /\ Len(Line) = Len(line) + 1 /\ Len(line) \in Nat
      /\ Line[Len(line) + 1] = First
      /\ \A i \in 1..Len(line) : Line[i] = line[i]
  BY LineType
<1>3. /\ o.n \in Nat /\ o.n <= Capacity /\ o.p \in Nat /\ o.p + o.n <= Len(Source) /\ o.k \in Nat
      /\ o.n > 0 => o.k <= Full(o.n)
  BY LabelFacts
<1>4. /\ l.n \in Nat /\ l.p \in Nat /\ l.k \in Nat /\ Full(l.n) \in Nat
      /\ Full(l.n) = Wide(l.n) + l.n + 4 /\ Wide(l.n) \in Nat
  BY LabelFacts, Lengths
<1>5. /\ o.p = Len(got) /\ o.k = Len(line) + 1 /\ Len(line) <= Wide(o.n) + 1
      /\ \A i \in 1..Len(line) : line[i] = Header(o.n)[i]
  <2>1. CASE Len(line) = 0
    <3>1. Between(l) /\ l.p + l.n = Len(got)
      BY <1>1, <2>1 DEF At
    <3>2. ~(l.k > 0 /\ o.n = l.n /\ o.k = l.k + 1)
      BY <1>3, <1>4, <3>1 DEF Between
    <3>3. o.k = 1 /\ o.p = Len(got)
      BY <3>1, <3>2 DEF Follows
    <3>4. Wide(o.n) \in Nat
      BY <1>3, Lengths
    <3> QED
      BY <2>1, <3>3, <3>4
  <2>2. CASE Len(line) # 0
    <3>1. l.n = n /\ l.p = Len(got) /\ l.k = Len(line) /\ l.k > 0
      BY <1>1, <1>2, <2>2 DEF At
    <3>2. ~Between(l)
      BY <1>1, <1>4, <3>1 DEF Between
    <3>3. o.n = n /\ o.p = Len(got) /\ o.k = Len(line) + 1
      BY <3>1, <3>2 DEF Follows
    <3> QED
      BY <1>1, <3>3
  <2> QED
    BY <2>1, <2>2
<1>6. Intro(o.n) = Wide(o.n) + 2 /\ Full(o.n) = Wide(o.n) + o.n + 4 /\ Wide(o.n) \in Nat
  BY <1>3, Lengths
<1>7. Len(line) + 1 <= Intro(o.n)
  BY <1>2, <1>5, <1>6
<1>8. First = Header(o.n)[Len(line) + 1]
  <2>1. o.k \in 1..Intro(o.n) /\ o.k <= Full(o.n)
    BY <1>2, <1>3, <1>5, <1>6
  <2>2. Unit(o) = Chunk(o.n, o.p)[o.k]
    BY <2>1 DEF Unit
  <2>3. Chunk(o.n, o.p)[o.k] = Header(o.n)[o.k]
    BY <1>3, <2>1, ChunkUnits
  <2> QED
    BY <1>5, <2>2, <2>3
<1>9. ASSUME NEW i \in 1..Len(Line) PROVE Line[i] = Header(o.n)[i]
  <2>1. i \in 1..Len(line) \/ i = Len(line) + 1
    BY <1>2
  <2> QED
    BY <1>2, <1>5, <1>8, <2>1
<1> QED
  BY <1>2, <1>3, <1>5, <1>7, <1>9

\* The header of a chunk gives its size.
LEMMA SizeParsed ==
    ASSUME NEW n \in Nat, NEW s \in Seq(Units), Len(s) = Intro(n),
           \A i \in 1..Len(s) : s[i] = Header(n)[i]
    PROVE  ParseHex([i \in 1..Intro(n) - 2 |-> s[i].n]) = n
<1> DEFINE ds == Digits[n]
           t == [i \in 1..Intro(n) - 2 |-> s[i].n]
           w == Wide(n)
<1>1. w \in Nat /\ Intro(n) = w + 2 /\ Intro(n) - 2 = w
  <2>1. w \in Nat /\ Intro(n) = w + 2
    BY Lengths
  <2> HIDE DEF w
  <2> QED
    BY <2>1
<1>2. ds \in Seq(Nat) /\ Len(ds) = w
  BY DigitsDefined DEF Wide
<1>3. \A i \in 1..w : ds[i] \in Nat /\ Header(n)[i] = Digit(ds[i])
  BY HeaderUnits
<1>4. \A i \in 1..w : s[i].n = ds[i]
  <2>1. \A i \in 1..w : i \in 1..Len(s)
    BY <1>1
  <2> HIDE DEF ds, w
  <2> QED
    BY <1>3, <2>1, UnitTypes
<1>5. t = [i \in 1..w |-> s[i].n]
  BY <1>1
<1> HIDE DEF ds, t, w
<1>6. t = ds
  <2>1. ds = [i \in 1..w |-> ds[i]]
    BY <1>2
  <2> QED
    BY <1>4, <1>5, <2>1
<1> QED
  BY <1>6, DigitsParsed DEF t, ds

LEMMA ReadHeaderReads ==
    ASSUME TypeInv, GotInv, NEW l \in Labels, NEW m \in Labels, Path(wire \o held, l, m),
           ReaderAt(l), ReadHeader
    PROVE  ReadOn(m)
<1>1. /\ result = "open" /\ status = "WaitingForChunk" /\ wire # << >>
      /\ ReaderStep(1) /\ got' = got
  BY DEF ReadHeader
<1>2. InHeader(l)
  BY <1>1 DEF ReaderAt, InChunk, AtEnd
<1>3. wire' \in Seq(Units) /\ First \in Units
  BY <1>1, OneMore
<1>4. PICK o \in Labels : Follows(l, o) /\ First = Unit(o) /\ Path(wire' \o held', o, m)
  BY <1>1, OneMore
<1> DEFINE n == o.n
<1>5. /\ n \in Nat /\ n <= Capacity /\ o.p = Len(got) /\ o.k = Len(Line)
      /\ Len(line) + 1 <= Intro(n)
      /\ \A i \in 1..Len(Line) : Line[i] = Header(n)[i]
  BY <1>2, <1>3, <1>4, HeaderGoesOn
<1>6. /\ Line \in Seq(Units) /\ Len(Line) = Len(line) + 1 /\ Len(line) \in Nat
  BY <1>3, LineType
<1>7. Wide(n) \in Nat /\ Wide(n) >= 1 /\ Intro(n) = Wide(n) + 2 /\ Intro(n) \in Nat
  BY <1>5, Lengths
<1>8. Len(line) # HeaderRoom
  <2>1. Wide(n) <= Wide(Capacity) /\ Wide(Capacity) \in Nat
    BY <1>5, Constants, WideMonotonic, Lengths
  <2>2. HeaderRoom \in Nat /\ HeaderRoom >= Wide(Capacity) + 2
    BY ChunkedAssumption DEF Wide
  <2> QED
    BY <1>5, <1>6, <1>7, <2>1, <2>2
<1>9. FindChunkHeaderEnd(Line) = IF Len(Line) = Intro(n) THEN Intro(n) ELSE None
  <2>1. Len(Line) >= 1 /\ Len(Line) <= Intro(n)
    BY <1>5, <1>6
  <2> QED
    BY <1>5, <1>6, <2>1, EndFound
<1> DEFINE end == IF Len(line) = HeaderRoom THEN Invalid ELSE FindChunkHeaderEnd(Line)
<1>10. end = IF Len(Line) = Intro(n) THEN Intro(n) ELSE None
  BY <1>8, <1>9
<1>11. IF end = Invalid THEN Refuse
       ELSE IF end = None
       THEN /\ line' = Line
            /\ UNCHANGED <<status, current_chunk_size, current_chunk_count, result>>
       ELSE /\ current_chunk_size' = ParseHex([i \in 1..end - 2 |-> Line[i].n])
            /\ current_chunk_count' = 0
            /\ status' = IF current_chunk_size' > 0 THEN "ReadingChunk" ELSE "Done"
            /\ line' = << >> /\ UNCHANGED result
  BY DEF ReadHeader
<1>12. /\ UNCHANGED <<at, read, todo, buffer, header, sent, held>>
  BY <1>1 DEF ReaderStep, bodyVars, writerVars
<1>13. GotInv'
  BY <1>1 DEF GotInv
<1> HIDE DEF n, end
<1>14. CASE Len(Line) # Intro(n)
  <2>1. end = None
    BY <1>10, <1>14
  <2>2. end # Invalid
    BY <2>1 DEF None, Invalid
  <2>3. /\ line' = Line
        /\ UNCHANGED <<status, current_chunk_size, current_chunk_count, result>>
    BY <1>11, <2>1, <2>2
  <2>4. TypeInv'
    BY <1>1, <1>3, <1>6, <1>12, <2>3 DEF TypeInv
  <2>5. InHeader(o)'
    <3>1. Len(line') <= Wide(n) + 1 /\ Len(line') > 0
      BY <1>5, <1>6, <1>7, <1>14, <2>3
    <3>2. At(o, n, Len(got'), Len(line'))
      BY <1>1, <1>5, <2>3, <3>1 DEF At, n
    <3> QED
      BY <1>1, <1>5, <2>3, <3>1, <3>2 DEF InHeader
  <2> QED
    BY <1>1, <1>4, <1>13, <2>3, <2>4, <2>5 DEF ReadOn, ReaderAt
<1>15. CASE Len(Line) = Intro(n)
  <2>1. end = Intro(n) /\ end # None /\ end # Invalid
    BY <1>7, <1>10, <1>15 DEF None, Invalid
  <2>2. /\ current_chunk_size' = ParseHex([i \in 1..end - 2 |-> Line[i].n])
        /\ current_chunk_count' = 0
        /\ status' = IF current_chunk_size' > 0 THEN "ReadingChunk" ELSE "Done"
        /\ line' = << >> /\ result' = result
    BY <1>11, <2>1
  <2>3. current_chunk_size' = n
    BY <1>5, <1>6, <1>15, <2>1, <2>2, SizeParsed
  <2>4. TypeInv'
    BY <1>1, <1>3, <1>5, <1>12, <2>2, <2>3 DEF TypeInv
  <2>5. Len(line') = 0 /\ o.k = Intro(n) /\ o.p = Len(got')
    BY <1>1, <1>5, <1>15, <2>2
  <2>6. CASE n > 0
    <3>1. InChunk(o)'
      BY <1>1, <1>5, <1>7, <2>2, <2>3, <2>5, <2>6, LabelFacts DEF InChunk, n
    <3> QED
      BY <1>1, <1>4, <1>13, <2>2, <2>4, <3>1 DEF ReadOn, ReaderAt
  <2>7. CASE n = 0
    <3>1. AtEnd(o)'
      BY <1>1, <1>5, <1>7, <2>2, <2>3, <2>5, <2>7 DEF AtEnd, n
    <3> QED
      BY <1>1, <1>4, <1>13, <2>2, <2>4, <3>1 DEF ReadOn, ReaderAt
  <2> QED
    BY <1>5, <2>6, <2>7
<1> QED
  BY <1>14, <1>15

LEMMA ReadDataReads ==
    ASSUME TypeInv, GotInv, NEW l \in Labels, NEW m \in Labels, Path(wire \o held, l, m),
           ReaderAt(l), ReadData
    PROVE  ReadOn(m)
<1> DEFINE u == wire \o held
           g == Len(got)
           c == current_chunk_count
           w == Intro(l.n)
<1>1. /\ result = "open" /\ status = "ReadingChunk" /\ c < current_chunk_size
      /\ UNCHANGED <<line, status, current_chunk_size, result>>
  BY DEF ReadData
<1>2. PICK n \in 1..Smaller(MaxRead, Smaller(Remaining, Len(wire))) :
          /\ got' = got \o SubSeq(wire, 1, n)
          /\ current_chunk_count' = c + n
          /\ ReaderStep(n)
  BY DEF ReadData
<1>3. /\ l.n = current_chunk_size /\ l.n > 0 /\ g = l.p + c /\ c <= l.n
      /\ l.k = w + c + Len(line) /\ line = << >>
  <2>1. InChunk(l)
    BY <1>1 DEF ReaderAt, InHeader, AtEnd
  <2>2. /\ l.n = current_chunk_size /\ l.n > 0 /\ g = l.p + c /\ c <= l.n
        /\ l.k = w + c + Len(line) /\ (line = << >> \/ c = l.n)
    BY <2>1 DEF InChunk
  <2>3. c # l.n
    <3>1. c \in Nat /\ l.n \in Nat
      BY LabelFacts DEF TypeInv
    <3> HIDE DEF c
    <3> QED
      BY <1>1, <2>2, <3>1
  <2> QED
    BY <2>2, <2>3
<1>4. /\ l.n \in Nat /\ l.p \in Nat /\ l.p + l.n <= Len(Source) /\ l.k \in Nat /\ c \in Nat
      /\ w \in Nat /\ w > 0 /\ Full(l.n) = w + l.n + 2 /\ MaxRead \in Nat /\ Len(Source) \in Nat
      /\ wire \in Seq(Units) /\ held \in Seq(Units) /\ Len(wire) \in Nat
  <2>1. l.n \in Nat /\ l.p \in Nat /\ l.p + l.n <= Len(Source) /\ l.k \in Nat
    BY LabelFacts
  <2>2. w \in Nat /\ w > 0
    <3>1. Wide(l.n) \in Nat /\ Intro(l.n) = Wide(l.n) + 2
      BY <2>1, Lengths
    <3> QED
      BY <3>1
  <2>3. Full(l.n) = w + l.n + 2
    BY DEF Full
  <2> QED
    BY <2>1, <2>2, <2>3, Constants DEF TypeInv
<1>5. l.k = w + c /\ g = l.p + c
  BY <1>3, <1>4
<1>6. n \in Nat /\ n >= 1 /\ n <= l.n - c /\ n <= Len(wire)
  <2> DEFINE y == l.n - c
             z == Len(wire)
  <2>1. y \in Int /\ z \in Nat /\ MaxRead \in Nat
    BY <1>4
  <2>2. Remaining = y
    BY <1>3 DEF Remaining
  <2> HIDE DEF y, z
  <2>3. n \in 1..Smaller(MaxRead, Smaller(y, z))
    BY <1>2, <2>2 DEF z
  <2>4. n \in Nat /\ n >= 1 /\ n <= y /\ n <= z
    BY <2>1, <2>3 DEF Smaller
  <2> QED
    BY <2>4 DEF y, z
<1>7. u \in Seq(Units) /\ Len(u) = Len(wire) + Len(held) /\ \A i \in 1..Len(wire) : u[i] = wire[i]
  BY <1>4, Joined
<1>8. /\ wire' = SubSeq(wire, n + 1, Len(wire)) /\ held' = held
      /\ UNCHANGED <<at, read, todo, buffer, header, sent>>
  BY <1>2 DEF ReaderStep, bodyVars, writerVars
<1>9. wire' \in Seq(Units) /\ SubSeq(u, n + 1, Len(u)) = wire' \o held'
  <2>1. wire' \in Seq(Units)
    BY <1>4, <1>6, <1>8, CutInTwo
  <2> QED
    BY <1>4, <1>6, <1>8, <2>1, DropJoined
<1> HIDE DEF u, g, c, w
<1>10. n \in 0..Len(u) /\ l.k > 0 /\ l.k + n <= Full(l.n)
  <2>1. n <= Len(u)
    <3>1. Len(held) \in Nat
      BY <1>4
    <3> QED
      BY <1>4, <1>6, <1>7, <3>1
  <2> QED
    BY <1>4, <1>5, <1>6, <2>1
<1>11. PICK o \in Labels : /\ o.n = l.n /\ o.p = l.p /\ o.k = l.k + n
                           /\ \A i \in 1..n : u[i] = Chunk(l.n, l.p)[l.k + i]
                           /\ Path(SubSeq(u, n + 1, Len(u)), o, m)
  BY <1>7, <1>10, PathInside DEF u
<1> DEFINE S == Len(Source)
           ln == l.n
           lp == l.p
           lk == l.k
<1>0. /\ ln \in Nat /\ lp \in Nat /\ lp + ln <= S /\ S \in Nat /\ c \in Nat /\ w \in Nat
      /\ lk = w + c /\ g = lp + c
  BY <1>4, <1>5
<1>21. n \in Nat /\ n >= 1 /\ n <= ln - c
  BY <1>6
<1> HIDE DEF S, ln, lp, lk
<1>12. ASSUME NEW i \in 1..n PROVE u[i] = Byte(Source[g + i])
  <2>3. c + i \in 1..ln /\ lk + i = w + (c + i) /\ g + i = lp + (c + i)
    BY <1>0, <1>21
  <2>1. c + i \in 1..l.n /\ l.k + i = w + (c + i) /\ g + i = l.p + (c + i)
    BY <2>3 DEF ln, lp, lk
  <2>2. Chunk(l.n, l.p)[w + (c + i)] = Byte(Source[l.p + (c + i)])
    <3>1. \A j \in 1..l.n : Chunk(l.n, l.p)[Intro(l.n) + j] = Byte(Source[l.p + j])
      BY <1>4, ChunkUnits
    <3> QED
      BY <2>1, <3>1 DEF w
  <2> QED
    BY <1>11, <2>1, <2>2
<1>13. g \in Nat /\ g + n <= Len(Source)
  <2>1. g \in Nat /\ g + n <= S
    BY <1>0, <1>21
  <2> QED
    BY <2>1 DEF S
<1>14. SubSeq(wire, 1, n) = Part(g, n)
  <2> DEFINE v == SubSeq(wire, 1, n)
             b == Part(g, n)
  <2>1. v \in Seq(Units) /\ Len(v) = n /\ \A i \in 1..n : v[i] = wire[i]
    <3>1. wire \in Seq(Units) /\ n \in Nat /\ n <= Len(wire)
      BY <1>4, <1>6
    <3> QED
      BY <3>1
  <2>2. b \in Seq(Units) /\ Len(b) = n /\ \A i \in 1..n : b[i] = Byte(Source[g + i])
    BY <1>6, <1>13, PartUnits
  <2> HIDE DEF v, b
  <2>3. \A i \in 1..n : i \in 1..Len(wire)
    BY <1>4, <1>6
  <2>4. \A i \in 1..n : v[i] = b[i]
    BY <1>7, <1>12, <2>1, <2>2, <2>3
  <2>5. v = b
    BY <2>1, <2>2, <2>4, UnitsEqual
  <2> QED
    BY <2>5 DEF v, b
<1>15. got' = Part(0, g + n)
  <2>1. got = Part(0, g)
    BY DEF GotInv, g
  <2>2. g + n \in Nat /\ 0 + (g + n) <= Len(Source) /\ g \in 0..(g + n) /\ (g + n) - g = n /\ 0 + g = g
    BY <1>6, <1>13
  <2>3. Part(0, g) \o Part(0 + g, (g + n) - g) = Part(0, g + n)
    BY <2>2, PartCut
  <2> QED
    BY <1>2, <1>14, <2>1, <2>2, <2>3
<1>16. Len(got') = g + n
  <2>1. g + n \in Nat /\ 0 + (g + n) <= Len(Source) /\ 0 \in Nat
    BY <1>6, <1>13
  <2> QED
    BY <1>15, <2>1, PartUnits
<1>17. GotInv'
  BY <1>13, <1>15, <1>16 DEF GotInv
<1>18. current_chunk_count' = c + n /\ c + n \in Nat
  BY <1>2, <1>4, <1>6
<1>19. TypeInv'
  BY <1>1, <1>8, <1>9, <1>18 DEF TypeInv
<1>20. InChunk(o)'
  <2>1. Len(got') = o.p + current_chunk_count' /\ current_chunk_count' <= o.n
    <3>1. g + n = lp + (c + n) /\ c + n <= ln
      BY <1>0, <1>21
    <3> QED
      BY <1>11, <1>16, <1>18, <3>1 DEF ln, lp
  <2>2. o.k = Intro(o.n) + current_chunk_count' + Len(line')
    <3>1. Len(line') = 0
      BY <1>1, <1>3
    <3>2. Intro(o.n) = w
      BY <1>11 DEF w
    <3> QED
      BY <1>4, <1>5, <1>6, <1>11, <1>18, <3>1, <3>2
  <2> QED
    BY <1>1, <1>3, <1>11, <2>1, <2>2 DEF InChunk
<1> QED
  BY <1>1, <1>9, <1>11, <1>17, <1>19, <1>20 DEF ReadOn, ReaderAt

\* The CRLF behind a chunk, or behind the last header.
LEMMA CrlfGoesOn ==
    ASSUME TypeInv, NEW l \in Labels, NEW o \in Labels, Follows(l, o), NEW j \in {0, 1},
           l.k = Intro(l.n) + l.n + j
    PROVE  /\ o.n = l.n /\ o.p = l.p /\ o.k = Intro(l.n) + l.n + (j + 1)
           /\ Unit(o) = IF j = 0 THEN CR ELSE NL
<1> DEFINE n == l.n
           w == Intro(n)
<1>1. n \in Nat /\ l.p \in Nat /\ l.p + n <= Len(Source)
  BY LabelFacts
<1>2. w \in Nat /\ w > 0 /\ Full(n) = w + n + 2
  <2>1. w \in Nat /\ w > 0
    <3>1. Wide(n) \in Nat /\ Intro(n) = Wide(n) + 2
      BY <1>1, Lengths
    <3> QED
      BY <3>1
  <2> QED
    BY <2>1 DEF Full
<1> HIDE DEF w
<1>3. ~Between(l) /\ l.k > 0
  BY <1>1, <1>2 DEF Between, w
<1>4. o.n = n /\ o.p = l.p /\ o.k = w + n + (j + 1)
  BY <1>1, <1>2, <1>3 DEF Follows, w
<1>5. Chunk(n, l.p)[w + n + 1] = CR /\ Chunk(n, l.p)[w + n + 2] = NL
  BY <1>1, ChunkUnits DEF w
<1>6. Unit(o) = Chunk(n, l.p)[w + n + (j + 1)]
  BY <1>1, <1>2, <1>4 DEF Unit
<1>7. Unit(o) = IF j = 0 THEN CR ELSE NL
  <2>1. CASE j = 0
    <3>1. w + n + (j + 1) = w + n + 1
      BY <2>1
    <3> QED
      BY <1>5, <1>6, <2>1, <3>1
  <2>2. CASE j = 1
    <3>1. w + n + (j + 1) = w + n + 2
      BY <2>2
    <3> QED
      BY <1>5, <1>6, <2>2, <3>1
  <2> QED
    BY <2>1, <2>2
<1> QED
  BY <1>4, <1>7 DEF w

LEMMA CrlfLine ==
    ASSUME TypeInv, First \in Units
    PROVE  /\ line = << >> => Line = <<First>> /\ Len(Line) < 2
           /\ line = <<CR>> => Line = <<CR, First>> /\ ~(Len(Line) < 2)
<1>1. line = << >> => Line = <<First>>
  BY DEF Line
<1>2. ASSUME line = <<CR>> PROVE Line = <<CR, First>>
  <2> DEFINE s == <<CR, First>>
  <2>1. Len(line) = 1 /\ line[1] = CR
    BY <1>2
  <2>2. Line \in Seq(Units) /\ Len(Line) = 2 /\ Line[2] = First /\ Line[1] = CR
    <3>1. 1 + 1 = 2 /\ 1 \in 1..1
      OBVIOUS
    <3> QED
      BY <2>1, <3>1, LineType
  <2>3. s \in Seq(Units) /\ Len(s) = 2 /\ s[1] = CR /\ s[2] = First
    BY UnitTypes
  <2> HIDE DEF s
  <2>4. \A i \in 1..2 : Line[i] = s[i]
    <3>1. \A i \in 1..2 : i = 1 \/ i = 2
      OBVIOUS
    <3> QED
      BY <2>2, <2>3, <3>1
  <2>5. Line = s
    BY <2>2, <2>3, <2>4, UnitsEqual
  <2> QED
    BY <2>5 DEF s
<1>3. Len(<<First>>) = 1 /\ Len(<<CR, First>>) = 2
  OBVIOUS
<1>4. line = << >> => Line = <<First>> /\ Len(Line) < 2
  <2>1. line = << >> => Line = <<First>> /\ Len(Line) = 1
    BY <1>1, <1>3
  <2> QED
    BY <2>1
<1>5. line = <<CR>> => Line = <<CR, First>> /\ ~(Len(Line) < 2)
  <2>1. line = <<CR>> => Line = <<CR, First>> /\ Len(Line) = 2
    BY <1>2, <1>3
  <2> QED
    BY <2>1
<1> QED
  BY <1>4, <1>5

LEMMA EndChunkReads ==
    ASSUME TypeInv, GotInv, NEW l \in Labels, NEW m \in Labels, Path(wire \o held, l, m),
           ReaderAt(l), EndChunk
    PROVE  ReadOn(m)
<1>1. /\ result = "open" /\ status = "ReadingChunk" /\ current_chunk_count = current_chunk_size
      /\ wire # << >> /\ ReaderStep(1)
      /\ UNCHANGED <<current_chunk_size, current_chunk_count, got>>
  BY DEF EndChunk, ReadCrlf
<1>2. IF Len(Line) < 2 THEN line' = Line /\ UNCHANGED <<status, result>>
      ELSE IF Line = CRLF
      THEN line' = << >> /\ status' = "WaitingForChunk" /\ UNCHANGED result ELSE Refuse
  BY DEF EndChunk, ReadCrlf
<1>3. /\ l.n = current_chunk_size /\ l.n > 0 /\ Len(got) = l.p + l.n
      /\ l.k = Intro(l.n) + l.n + Len(line) /\ line \in {<< >>, <<CR>>}
  BY <1>1 DEF ReaderAt, InHeader, InChunk, AtEnd
<1>4. wire' \in Seq(Units) /\ First \in Units
  BY <1>1, OneMore
<1>5. PICK o \in Labels : Follows(l, o) /\ First = Unit(o) /\ Path(wire' \o held', o, m)
  BY <1>1, OneMore
<1>6. Line \in Seq(Units)
  BY <1>4, LineType
<1>7. UNCHANGED <<at, read, todo, buffer, header, sent, held>>
  BY <1>1 DEF ReaderStep, bodyVars, writerVars
<1>8. GotInv'
  BY <1>1 DEF GotInv
<1>9. CASE line = << >>
  <2>1. Len(line) = 0 /\ Len(line) \in {0, 1}
    BY <1>9
  <2>2. /\ o.n = l.n /\ o.p = l.p /\ o.k = Intro(l.n) + l.n + (0 + 1) /\ Unit(o) = CR
    BY <1>3, <1>5, <2>1, CrlfGoesOn
  <2>3. Line = <<CR>> /\ Len(Line) < 2
    BY <1>4, <1>5, <1>9, <2>2, CrlfLine
  <2>4. line' = <<CR>> /\ UNCHANGED <<status, result>> /\ line' \in Seq(Units)
    BY <1>2, <1>6, <2>3
  <2>5. TypeInv'
    BY <1>1, <1>4, <1>7, <2>4 DEF TypeInv
  <2>6. InChunk(o)'
    <3>1. Len(line') = 1 /\ o.n = current_chunk_count'
      BY <1>1, <1>3, <2>2, <2>4
    <3>2. o.k = Intro(o.n) + current_chunk_count' + Len(line')
      BY <2>2, <3>1
    <3> QED
      BY <1>1, <1>3, <2>2, <2>4, <3>1, <3>2, LabelFacts DEF InChunk
  <2> QED
    BY <1>1, <1>5, <1>8, <2>4, <2>5, <2>6 DEF ReadOn, ReaderAt
<1>10. CASE line = <<CR>>
  <2>1. Len(line) = 1 /\ Len(line) \in {0, 1} /\ Len(line) # 0
    BY <1>10
  <2>2. /\ o.n = l.n /\ o.p = l.p /\ o.k = Intro(l.n) + l.n + (1 + 1) /\ Unit(o) = NL
    BY <1>3, <1>5, <2>1, CrlfGoesOn
  <2>3. Line = CRLF /\ ~(Len(Line) < 2)
    BY <1>4, <1>5, <1>10, <2>2, CrlfLine DEF CRLF
  <2>4. line' = << >> /\ status' = "WaitingForChunk" /\ result' = result
    BY <1>2, <2>3
  <2>5. TypeInv'
    BY <1>1, <1>4, <1>7, <2>4 DEF TypeInv
  <2>6. InHeader(o)'
    <3>1. o.k = Full(o.n)
      <4>1. o.n \in Nat /\ Intro(o.n) \in Nat
        BY LabelFacts, Lengths
      <4> QED
        BY <2>2, <4>1 DEF Full
    <3>2. Between(o) /\ o.p + o.n = Len(got')
      BY <1>1, <1>3, <2>2, <3>1 DEF Between
    <3>3. At(o, 0, Len(got'), Len(line')) /\ Len(line') = 0
      BY <2>4, <3>2 DEF At
    <3>4. Wide(0) \in Nat /\ 0 <= Capacity /\ 0 \in Nat
      BY Lengths, Constants
    <3> QED
      BY <1>1, <2>4, <3>3, <3>4 DEF InHeader
  <2> QED
    BY <1>1, <1>5, <1>8, <2>4, <2>5, <2>6 DEF ReadOn, ReaderAt
<1> QED
  BY <1>3, <1>9, <1>10

LEMMA TerminateReads ==
    ASSUME TypeInv, GotInv, NEW l \in Labels, NEW m \in Labels, Path(wire \o held, l, m),
           ReaderAt(l), Terminate
    PROVE  ReadOn(m)
<1>1. /\ result = "open" /\ status = "Done" /\ wire # << >> /\ ReaderStep(1)
      /\ UNCHANGED <<current_chunk_size, current_chunk_count, got>>
  BY DEF Terminate, ReadCrlf
<1>2. IF Len(Line) < 2 THEN line' = Line /\ UNCHANGED <<status, result>>
      ELSE IF Line = CRLF
      THEN line' = Line /\ result' = "end" /\ UNCHANGED status ELSE Refuse
  BY DEF Terminate, ReadCrlf
<1>3. /\ l.n = 0 /\ Len(got) = l.p /\ l.k = Intro(0) + Len(line) /\ line \in {<< >>, <<CR>>}
  BY <1>1 DEF ReaderAt, InHeader, InChunk, AtEnd
<1>4. wire' \in Seq(Units) /\ First \in Units
  BY <1>1, OneMore
<1>5. PICK o \in Labels : Follows(l, o) /\ First = Unit(o) /\ Path(wire' \o held', o, m)
  BY <1>1, OneMore
<1>6. Line \in Seq(Units)
  BY <1>4, LineType
<1>7. UNCHANGED <<at, read, todo, buffer, header, sent, held>>
  BY <1>1 DEF ReaderStep, bodyVars, writerVars
<1>8. GotInv'
  BY <1>1 DEF GotInv
<1>0. Intro(0) \in Nat
  BY Lengths
<1>9. CASE line = << >>
  <2>1. Len(line) = 0 /\ 0 \in {0, 1} /\ l.k = Intro(l.n) + l.n + 0
    BY <1>0, <1>3, <1>9
  <2>2. /\ o.n = 0 /\ o.p = l.p /\ o.k = Intro(l.n) + l.n + (0 + 1) /\ Unit(o) = CR
    BY <1>3, <1>5, <2>1, CrlfGoesOn
  <2>3. Line = <<CR>> /\ Len(Line) < 2
    BY <1>4, <1>5, <1>9, <2>2, CrlfLine
  <2>4. line' = <<CR>> /\ UNCHANGED <<status, result>> /\ line' \in Seq(Units)
    BY <1>2, <1>6, <2>3
  <2>5. TypeInv'
    BY <1>1, <1>4, <1>7, <2>4 DEF TypeInv
  <2>6. AtEnd(o)'
    <3>1. Len(line') = 1 /\ o.k = Intro(0) + Len(line')
      BY <1>0, <1>3, <2>2, <2>4
    <3> QED
      BY <1>1, <1>3, <2>2, <2>4, <3>1 DEF AtEnd
  <2> QED
    BY <1>1, <1>5, <1>8, <2>4, <2>5, <2>6 DEF ReadOn, ReaderAt
<1>10. CASE line = <<CR>>
  <2>1. Len(line) = 1 /\ 1 \in {0, 1} /\ 1 # 0 /\ l.k = Intro(l.n) + l.n + 1
    BY <1>0, <1>3, <1>10
  <2>2. /\ o.n = 0 /\ o.p = l.p /\ o.k = Intro(l.n) + l.n + (1 + 1) /\ Unit(o) = NL
    BY <1>3, <1>5, <2>1, CrlfGoesOn
  <2>3. Line = CRLF /\ ~(Len(Line) < 2)
    BY <1>4, <1>5, <1>10, <2>2, CrlfLine DEF CRLF
  <2>4. line' = CRLF /\ result' = "end" /\ status' = status
    BY <1>2, <2>3
  <2>5. TypeInv'
    BY <1>1, <1>4, <1>7, <2>4, CrlfUnits DEF TypeInv
  <2>6. AtEnd(o)'
    <3>1. Len(line') = 2 /\ o.k = Intro(0) + Len(line')
      BY <1>0, <1>3, <2>2, <2>4, CrlfUnits
    <3> QED
      BY <1>1, <1>3, <2>2, <2>4, <3>1 DEF AtEnd
  <2> QED
    BY <1>1, <1>5, <1>8, <2>4, <2>5, <2>6 DEF ReadOn, ReaderAt
<1> QED
  BY <1>3, <1>9, <1>10

-----------------------------------------------------------------------------
(* All steps. *)

LEMMA WriterKept ==
    ASSUME NEW m, UNCHANGED <<bodyVars, writerVars>>
    PROVE  BodyInv' = BodyInv /\ WriterAt(m)' = WriterAt(m)
BY DEF bodyVars, writerVars, BodyInv, WriterAt, Idle, Busy, Ending, Ended

LEMMA ReaderKept ==
    ASSUME NEW l, UNCHANGED readerVars
    PROVE  GotInv' = GotInv /\ ReaderAt(l)' = ReaderAt(l)
BY DEF readerVars, GotInv, ReaderAt, InHeader, InChunk, AtEnd

LEMMA InvInit == Init => Inv
<1> SUFFICES ASSUME Init PROVE Inv
  OBVIOUS
<1>1. << >> \in Seq(Units) /\ Len(<< >>) = 0 /\ << >> \o << >> = << >>
  OBVIOUS
<1>2. TypeInv
  BY <1>1, Constants DEF Init, TypeInv
<1>3. Part(0, 0) = << >>
  BY PartEmpty
<1>4. BodyInv /\ GotInv /\ FailInv
  BY <1>1, <1>3, Constants DEF Init, BodyInv, GotInv, FailInv
<1> DEFINE l == [n |-> 0, p |-> 0, k |-> 0]
<1>5. l \in Labels /\ l.n = 0 /\ l.p = 0 /\ l.k = 0
  <2>1. l \in [n : 0..Capacity, p : 0..Len(Source), k : Nat]
    BY Constants
  <2>2. l.n = 0 /\ l.p = 0 /\ l.k = 0
    OBVIOUS
  <2>3. Full(0) \in Nat /\ 0 <= Len(Source) /\ Len(Source) \in Nat
    BY Lengths, Constants
  <2> HIDE DEF l
  <2> QED
    BY <2>1, <2>2, <2>3 DEF Labels
<1> HIDE DEF l
<1>6. Path(wire \o held, l, l)
  BY <1>1, <1>5, PathEmpty DEF Init
<1>7. Between(l) /\ l.p + l.n = 0
  BY <1>5 DEF Between
<1>8. InHeader(l)
  <2>1. Wide(0) \in Nat /\ 0 <= Capacity /\ 0 \in Nat
    BY Lengths, Constants
  <2>2. At(l, 0, Len(got), Len(line)) /\ Len(line) = 0
    BY <1>1, <1>7 DEF Init, At
  <2> QED
    BY <2>1, <2>2 DEF Init, InHeader
<1>9. Idle(l)
  BY <1>1, <1>3, <1>5, <1>7, Constants DEF Init, Idle
<1>10. Linked
  BY <1>5, <1>6, <1>8, <1>9 DEF Linked, ReaderAt, WriterAt
<1> QED
  BY <1>2, <1>4, <1>10 DEF Inv

LEMMA PassOnPasses ==
    ASSUME TypeInv, PassOn
    PROVE  /\ wire' \in Seq(Units) /\ held' \in Seq(Units) /\ wire' \o held' = wire \o held
           /\ at # "failed" /\ UNCHANGED <<bodyVars, writerVars, readerVars>>
<1>1. PICK n \in 1..Len(held) : /\ wire' = wire \o SubSeq(held, 1, n)
                                /\ held' = SubSeq(held, n + 1, Len(held))
  BY DEF PassOn
<1> DEFINE a == SubSeq(held, 1, n)
           b == SubSeq(held, n + 1, Len(held))
<1>2. wire \in Seq(Units) /\ held \in Seq(Units) /\ n \in Nat /\ n <= Len(held)
  BY DEF TypeInv
<1>3. a \in Seq(Units) /\ b \in Seq(Units) /\ a \o b = held
  BY <1>2, CutInTwo
<1>4. wire' = wire \o a /\ held' = b
  BY <1>1
<1> HIDE DEF a, b
<1>5. (wire \o a) \o b = wire \o (a \o b)
  BY <1>2, <1>3, JoinAssociative
<1>6. wire' \in Seq(Units)
  BY <1>2, <1>3, <1>4, Joined
<1>7. wire' \o held' = wire \o held
  BY <1>3, <1>4, <1>5
<1> QED
  BY <1>3, <1>4, <1>6, <1>7 DEF PassOn

\* What has not been passed on is lost; what has been leads somewhere.
LEMMA FailsPath ==
    ASSUME TypeInv, NEW l, NEW m, Path(wire \o held, l, m)
    PROVE  \E o \in Labels : Path(wire \o << >>, l, o)
<1> DEFINE u == wire \o held
<1>1. wire \in Seq(Units) /\ held \in Seq(Units)
  BY DEF TypeInv
<1>2. /\ u \in Seq(Units) /\ Len(wire) \in Nat /\ Len(held) \in Nat
      /\ Len(u) = Len(wire) + Len(held) /\ \A i \in 1..Len(wire) : u[i] = wire[i]
  BY <1>1, Joined
<1> HIDE DEF u
<1>3. Len(wire) \in 0..Len(u) /\ Len(wire) <= Len(u)
  BY <1>2
<1>4. PICK o \in Labels : Path(SubSeq(u, 1, Len(wire)), l, o)
  BY <1>2, <1>3, PathSplit DEF u
<1>5. SubSeq(u, 1, Len(wire)) = wire
  <2> DEFINE v == SubSeq(u, 1, Len(wire))
  <2>1. v \in Seq(Units) /\ Len(v) = Len(wire) /\ \A i \in 1..Len(wire) : v[i] = u[i]
    BY <1>2, <1>3
  <2> HIDE DEF v
  <2>2. v = wire
    BY <1>1, <1>2, <2>1, UnitsEqual
  <2> QED
    BY <2>2 DEF v
<1>6. wire \o << >> = wire
  BY <1>1, JoinEmpty
<1> QED
  BY <1>4, <1>5, <1>6

\* What a step of the writer makes of it.
LEMMA WriterKeepsInv ==
    ASSUME Inv, Writer
    PROVE  Inv'
<1>1. TypeInv /\ BodyInv /\ GotInv /\ FailInv
  BY DEF Inv
<1>2. at \in {"reading", "writing", "shutdown"}
  BY DEF Writer, ReadBody, EndBody, Write, Shutdown, FlushAndWrite, FlushAndShutdown
<1>3. result # "error"
  BY <1>1, <1>2 DEF FailInv
<1>4. PICK l \in Labels, m \in Labels : Path(wire \o held, l, m) /\ ReaderAt(l) /\ WriterAt(m)
  BY <1>2, <1>3 DEF Inv, Linked
<1>5. Wrote(m)
  <2>1. CASE ReadBody
    BY <1>1, <1>4, <2>1, ReadBodyWrites
  <2>2. CASE EndBody
    BY <1>1, <1>4, <2>2, EndBodyWrites
  <2>3. CASE Write
    BY <1>1, <1>4, <2>3, WriteWrites
  <2>4. CASE Shutdown
    BY <1>1, <1>4, <2>4, ShutdownWrites
  <2>5. ASSUME NEW n \in 0..Len(Unsent(CreateChunk)), FlushAndWrite(n) PROVE Wrote(m)
    BY <1>1, <1>4, <2>5, FlushAndWriteWrites
  <2>6. ASSUME NEW n \in 0..Len(Unsent(CreateChunk)), FlushAndShutdown(n) PROVE Wrote(m)
    BY <1>1, <1>4, <2>6, FlushAndShutdownWrites
  <2> QED
    BY <2>1, <2>2, <2>3, <2>4, <2>5, <2>6 DEF Writer
<1>6. UNCHANGED readerVars
  BY DEF Writer, ReadBody, EndBody, Write, Shutdown, FlushAndWrite, FlushAndShutdown
<1>7. GotInv' /\ ReaderAt(l)' /\ result' = result
  <2>1. result' = result
    BY <1>6 DEF readerVars
  <2> QED
    BY <1>1, <1>4, <1>6, <2>1, ReaderKept
<1>8. PICK o \in Labels, w \in Seq(Units) :
          wire' \o held' = (wire \o held) \o w /\ Path(w, m, o) /\ WriterAt(o)'
  BY <1>5 DEF Wrote, Written
<1>9. Path(wire' \o held', l, o)
  <2>1. wire \o held \in Seq(Units)
    BY <1>1, Joined DEF TypeInv
  <2>2. Path((wire \o held) \o w, l, o)
    BY <1>4, <1>8, <2>1, PathJoin
  <2> QED
    BY <1>8, <2>2
<1>10. TypeInv' /\ BodyInv'
  BY <1>5 DEF Wrote
<1>11. at' # "failed"
  BY <1>8 DEF WriterAt, Idle, Busy, Ending, Ended, Writer, ReadBody, EndBody, Write, Shutdown,
              FlushAndWrite, FlushAndShutdown, Copy, bodyVars
<1>12. FailInv'
  BY <1>3, <1>7, <1>11 DEF FailInv
<1>13. Linked'
  BY <1>7, <1>8, <1>9 DEF Linked
<1> QED
  BY <1>7, <1>10, <1>12, <1>13 DEF Inv

LEMMA PassOnKeepsInv ==
    ASSUME Inv, PassOn
    PROVE  Inv'
<1>1. TypeInv /\ BodyInv /\ GotInv /\ FailInv
  BY DEF Inv
<1>2. /\ wire' \in Seq(Units) /\ held' \in Seq(Units) /\ wire' \o held' = wire \o held
      /\ at # "failed" /\ UNCHANGED <<bodyVars, writerVars, readerVars>>
  BY <1>1, PassOnPasses
<1>3. PICK l \in Labels, m \in Labels : Path(wire \o held, l, m) /\ ReaderAt(l) /\ WriterAt(m)
  BY <1>1, <1>2 DEF Inv, Linked, FailInv
<1>4. TypeInv'
  BY <1>1, <1>2 DEF TypeInv, bodyVars, writerVars, readerVars
<1>5. BodyInv' /\ WriterAt(m)'
  BY <1>1, <1>2, <1>3, WriterKept
<1>6. GotInv' /\ ReaderAt(l)'
  BY <1>1, <1>2, <1>3, ReaderKept
<1>7. FailInv'
  BY <1>1, <1>2 DEF FailInv, bodyVars, readerVars
<1>8. Linked'
  BY <1>2, <1>3, <1>5, <1>6 DEF Linked
<1> QED
  BY <1>4, <1>5, <1>6, <1>7, <1>8 DEF Inv

LEMMA FailsKeepsInv ==
    ASSUME Inv, Fails
    PROVE  Inv'
<1>1. TypeInv /\ BodyInv /\ GotInv /\ FailInv
  BY DEF Inv
<1>2. /\ at' = "failed" /\ held' = << >>
      /\ UNCHANGED <<read, todo, writerVars, wire, readerVars>>
  BY DEF Fails
<1>3. TypeInv'
  <2>1. << >> \in Seq(Units)
    OBVIOUS
  <2> QED
    BY <1>1, <1>2, <2>1 DEF TypeInv, writerVars, readerVars
<1>4. BodyInv'
  BY <1>1, <1>2 DEF BodyInv
<1>5. GotInv' /\ FailInv'
  BY <1>1, <1>2, ReaderKept DEF FailInv
<1>6. ASSUME result' # "error" PROVE Linked'
  <2>1. result # "error"
    BY <1>2, <1>6 DEF readerVars
  <2>2. PICK l \in Labels, m \in Labels : Path(wire \o held, l, m) /\ ReaderAt(l)
    BY <2>1 DEF Inv, Linked
  <2>3. PICK o \in Labels : Path(wire \o << >>, l, o)
    BY <1>1, <2>2, FailsPath
  <2>4. ReaderAt(l)'
    BY <1>2, <2>2, ReaderKept
  <2>5. wire' \o held' = wire \o << >>
    BY <1>2
  <2> QED
    BY <1>2, <2>3, <2>4, <2>5 DEF Linked
<1> QED
  BY <1>3, <1>4, <1>5, <1>6 DEF Inv

LEMMA ReaderKeepsInv ==
    ASSUME Inv, Reader
    PROVE  Inv'
<1>1. TypeInv /\ BodyInv /\ GotInv /\ FailInv
  BY DEF Inv
<1>2. CASE CutShort
  <2>1. /\ at = "failed" /\ result' = "error"
        /\ UNCHANGED <<bodyVars, writerVars, held, wire, line, status, current_chunk_size,
                       current_chunk_count, got>>
    BY <1>2 DEF CutShort
  <2>2. TypeInv'
    BY <1>1, <2>1 DEF TypeInv, bodyVars, writerVars
  <2>3. BodyInv'
    BY <1>1, <2>1, WriterKept
  <2>4. GotInv' /\ FailInv'
    BY <1>1, <2>1 DEF GotInv, FailInv, bodyVars
  <2> QED
    BY <2>1, <2>2, <2>3, <2>4 DEF Inv
<1>3. CASE ReadHeader \/ ReadData \/ EndChunk \/ Terminate
  <2>1. result = "open" /\ UNCHANGED <<bodyVars, writerVars, held>>
    BY <1>3 DEF ReadHeader, ReadData, EndChunk, Terminate, ReadCrlf, ReaderStep
  <2>2. PICK l \in Labels, m \in Labels : /\ Path(wire \o held, l, m) /\ ReaderAt(l)
                                          /\ at # "failed" => WriterAt(m)
    BY <2>1 DEF Inv, Linked
  <2>3. ReadOn(m)
    <3>1. CASE ReadHeader
      BY <1>1, <2>2, <3>1, ReadHeaderReads
    <3>2. CASE ReadData
      BY <1>1, <2>2, <3>2, ReadDataReads
    <3>3. CASE EndChunk
      BY <1>1, <2>2, <3>3, EndChunkReads
    <3>4. CASE Terminate
      BY <1>1, <2>2, <3>4, TerminateReads
    <3> QED
      BY <1>3, <3>1, <3>2, <3>3, <3>4
  <2>4. BodyInv' = BodyInv /\ WriterAt(m)' = WriterAt(m) /\ at' = at /\ held' = held
    <3>1. at' = at /\ held' = held
      BY <2>1 DEF bodyVars
    <3> QED
      BY <2>1, <3>1, WriterKept
  <2>5. TypeInv' /\ GotInv' /\ result' # "error"
    BY <2>3 DEF ReadOn
  <2>6. FailInv'
    BY <1>1, <2>4, <2>5 DEF FailInv
  <2>7. Linked'
    BY <2>2, <2>3, <2>4 DEF Linked, ReadOn
  <2> QED
    BY <1>1, <2>4, <2>5, <2>6, <2>7 DEF Inv
<1> QED
  BY <1>2, <1>3 DEF Reader

LEMMA InvNext == Inv /\ [Next]_vars => Inv'
<1> SUFFICES ASSUME Inv, [Next]_vars PROVE Inv'
  OBVIOUS
<1>1. CASE UNCHANGED vars
  <2>1. /\ UNCHANGED <<bodyVars, writerVars>> /\ UNCHANGED readerVars
        /\ UNCHANGED <<at, wire, held, result>>
    BY <1>1 DEF vars, bodyVars, writerVars, readerVars
  <2>2. TypeInv /\ BodyInv /\ GotInv /\ FailInv
    BY DEF Inv
  <2>3. TypeInv'
    BY <2>1, <2>2 DEF TypeInv, bodyVars, writerVars, readerVars
  <2>4. BodyInv' /\ GotInv' /\ FailInv'
    BY <2>1, <2>2, WriterKept, ReaderKept DEF FailInv
  <2>5. ASSUME result' # "error" PROVE Linked'
    <3>1. PICK l \in Labels, m \in Labels :
              /\ Path(wire \o held, l, m) /\ ReaderAt(l)
              /\ at # "failed" => WriterAt(m)
      BY <2>1, <2>5 DEF Inv, Linked
    <3>2. WriterAt(m)' = WriterAt(m) /\ ReaderAt(l)' = ReaderAt(l)
      BY <2>1, WriterKept, ReaderKept
    <3> QED
      BY <2>1, <3>1, <3>2 DEF Linked
  <2> QED
    BY <2>3, <2>4, <2>5 DEF Inv
<1> QED
  BY <1>1, WriterKeepsInv, PassOnKeepsInv, FailsKeepsInv, ReaderKeepsInv DEF Next

\* What is on the wire leads from where the ChunkedReader is to where the ChunkedWriter
\* is, whatever is accepted and whatever arrives at a time: the two never lose each other.
THEOREM Invariance == Spec => []Inv
BY InvInit, InvNext, PTL DEF Spec

-----------------------------------------------------------------------------
(* What is lost, and what is not. *)

\* The position of a place, in the words of the writer and of the reader.
LEMMA PositionOf ==
    ASSUME NEW l \in Labels
    PROVE  /\ Between(l) => Position(l) = l.p + l.n
           /\ l.k <= Intro(l.n) => Position(l) = l.p
           /\ \A i \in 0..l.n : l.k = Intro(l.n) + i => Position(l) = l.p + i
           /\ l.k > Intro(l.n) + l.n => Position(l) = l.p + l.n
<1> DEFINE w == Intro(l.n)
           n == l.n
           p == l.p
           k == l.k
<1>1. n \in Nat /\ p \in Nat /\ k \in Nat /\ w \in Nat /\ (k = 0 => n = 0 /\ p = 0)
  BY LabelFacts, Lengths
<1>2. Position(l) = IF k <= w THEN p ELSE IF k <= w + n THEN p + (k - w) ELSE p + n
  BY DEF Position
<1>3. Between(l) <=> k = 0 \/ (n > 0 /\ k = w + n + 2)
  BY DEF Between, Full
<1> HIDE DEF w, n, p, k
<1>4. Between(l) => Position(l) = p + n
  BY <1>1, <1>2, <1>3
<1>5. k <= w => Position(l) = p
  BY <1>2
<1>6. ASSUME NEW i \in 0..n, k = w + i PROVE Position(l) = p + i
  BY <1>1, <1>2, <1>6
<1>7. k > w + n => Position(l) = p + n
  BY <1>1, <1>2
<1> QED
  BY <1>4, <1>5, <1>6, <1>7 DEF w, n, p, k

\* The reader is where the bytes it has handed over end.
LEMMA ReaderPosition ==
    ASSUME TypeInv, GotInv, NEW l \in Labels, ReaderAt(l)
    PROVE  Position(l) = Len(got)
<1>1. got \in Seq(Units) /\ Len(got) \in Nat /\ Len(line) \in Nat
  <2>1. Len(line) \in Nat
    BY DEF TypeInv
  <2>2. DOMAIN got = 1..Len(got) /\ Len(got) \in Nat
    <3> DEFINE g == Len(got)
    <3>1. got = [i \in 1..g |-> Byte(Source[0 + i])]
      BY DEF GotInv, Part
    <3> HIDE DEF g
    <3> QED
      BY <3>1 DEF g
  <2> QED
    BY <2>1, <2>2, PartUnits DEF GotInv
<1>2. CASE InHeader(l)
  <2>1. PICK n : n \in Nat /\ Len(line) <= Wide(n) + 1 /\ At(l, n, Len(got), Len(line))
    BY <1>2 DEF InHeader
  <2>2. CASE Between(l) /\ l.p + l.n = Len(got)
    BY <2>2, PositionOf
  <2>3. CASE l.n = n /\ l.p = Len(got) /\ l.k = Len(line)
    <3>1. Wide(n) \in Nat /\ Intro(n) = Wide(n) + 2
      BY <2>1, Lengths
    <3>2. Len(line) <= Intro(n)
      BY <1>1, <2>1, <3>1
    <3> QED
      BY <2>3, <3>2, PositionOf
  <2> QED
    BY <2>1, <2>2, <2>3 DEF At
<1>3. CASE InChunk(l)
  <2>1. /\ l.n = current_chunk_size /\ Len(got) = l.p + current_chunk_count
        /\ current_chunk_count <= l.n /\ l.k = Intro(l.n) + current_chunk_count + Len(line)
        /\ line = << >> \/ (current_chunk_count = l.n /\ line = <<CR>>)
    BY <1>3 DEF InChunk
  <2>2. current_chunk_count \in 0..l.n /\ Intro(l.n) \in Nat /\ l.n \in Nat
    BY <2>1, LabelFacts, Lengths DEF TypeInv
  <2>3. CASE line = << >>
    <3>1. l.k = Intro(l.n) + current_chunk_count
      BY <2>1, <2>2, <2>3
    <3> QED
      BY <2>1, <2>2, <3>1, PositionOf
  <2>4. CASE current_chunk_count = l.n /\ line = <<CR>>
    <3>1. Len(line) = 1
      BY <2>4
    <3>2. l.k > Intro(l.n) + l.n
      BY <2>1, <2>2, <2>4, <3>1
    <3> QED
      BY <2>1, <2>4, <3>2, PositionOf
  <2> QED
    BY <2>1, <2>3, <2>4
<1>4. CASE AtEnd(l)
  <2>1. l.n = 0 /\ Len(got) = l.p /\ l.k = Intro(0) + Len(line) /\ Intro(0) \in Nat /\ l.p \in Nat
    BY <1>4, LabelFacts, Lengths DEF AtEnd
  <2>2. CASE Len(line) = 0
    <3>1. l.k <= Intro(l.n)
      BY <2>1, <2>2
    <3> QED
      BY <2>1, <3>1, PositionOf
  <2>3. CASE Len(line) > 0
    <3>1. l.k > Intro(l.n) + l.n
      BY <1>1, <2>1, <2>3
    <3>2. Position(l) = l.p + l.n
      BY <3>1, PositionOf
    <3> QED
      BY <2>1, <3>2
  <2> QED
    BY <1>1, <2>2, <2>3
<1> QED
  BY <1>2, <1>3, <1>4 DEF ReaderAt

\* A chunk whose rest is pending.
LEMMA RestPending ==
    ASSUME TypeInv, NEW m \in Labels, NEW n, NEW p, IsChunk(n, p), sent <= Full(n),
           At(m, n, p, sent), header # << >>, header \o buffer = Chunk(n, p)
    PROVE  Pending \in Seq(Units) /\ Counted(Pending, Position(m), p + n)
<1> DEFINE c == Chunk(n, p)
<1>1. /\ n \in Nat /\ p \in Nat /\ p + n <= Len(Source) /\ sent \in Nat
      /\ header \in Seq(Units) /\ buffer \in Seq(Units)
  BY DEF IsChunk, TypeInv
<1>2. c \in Seq(Units) /\ Len(c) = Full(n) /\ Full(n) \in Nat /\ Intro(n) \in Nat
      /\ Full(n) = Intro(n) + n + 2
  BY <1>1, ChunkUnits, Lengths DEF Full
<1>3. Len(header) + Len(buffer) = Full(n)
  <2>1. Len(header \o buffer) = Len(header) + Len(buffer)
    BY <1>1, Joined
  <2> QED
    BY <1>2, <2>1
<1>4. Pending = SubSeq(c, sent + 1, Full(n))
  BY <1>3 DEF Pending
<1> HIDE DEF c
<1>5. Pending \in Seq(Units)
  BY <1>1, <1>2, <1>4, PartOf
<1>6. PICK o \in Labels : At(o, n, p, Full(n)) /\ Path(Pending, m, o)
  <2>1. \E o \in Labels : At(o, n, p, Full(n)) /\ Path(SubSeq(Chunk(n, p), sent + 1, Full(n)), m, o)
    <3>1. Full(n) <= Full(n)
      BY <1>2
    <3> QED
      BY <1>1, <1>2, <3>1, PathAlong
  <2> QED
    BY <1>4, <2>1 DEF c
<1>7. o.n = n /\ o.p = p /\ o.k = Full(n)
  <2>1. Full(n) # 0
    BY <1>1, <1>2
  <2> QED
    BY <1>6, <2>1 DEF At
<1>8. Position(o) = p + n
  <2>1. o.k > Intro(o.n) + o.n
    BY <1>1, <1>2, <1>7
  <2> QED
    BY <1>7, <2>1, PositionOf
<1>9. Counted(Pending, Position(m), Position(o))
  BY <1>5, <1>6, PathCounted
<1> QED
  BY <1>5, <1>8, <1>9

\* The bytes that the ChunkedWriter has not sent are those from where it is to where
\* write_all has come.
LEMMA PendingCounted ==
    ASSUME TypeInv, BodyInv, NEW m \in Labels, WriterAt(m)
    PROVE  Pending \in Seq(Units) /\ Counted(Pending, Position(m), read - Len(todo))
<1>1. /\ read \in Nat /\ read <= Len(Source) /\ Len(todo) \in Nat /\ Len(buffer) \in Nat
      /\ Len(Source) \in Nat /\ buffer \in Seq(Units)
      /\ m.p \in Nat /\ m.n \in Nat
  BY LabelFacts, Constants DEF TypeInv
<1>2. CASE Idle(m)
  <2>1. /\ Pending = Part(m.p + m.n, Len(buffer)) /\ Pending = buffer /\ Between(m)
        /\ m.p + m.n + Len(buffer) + Len(todo) = read
    BY <1>2 DEF Idle, Pending
  <2>2. Position(m) = m.p + m.n
    BY <2>1, PositionOf
  <2>3. /\ m.p + m.n \in Nat /\ (m.p + m.n) + Len(buffer) <= Len(Source)
        /\ (m.p + m.n) + Len(buffer) = read - Len(todo)
    <3> DEFINE q == m.p + m.n
               x == Len(buffer)
               t == Len(todo)
               S == Len(Source)
    <3>1. /\ q \in Nat /\ x \in Nat /\ t \in Nat /\ S \in Nat
          /\ q + x + t = read /\ read <= S /\ read \in Nat
      BY <1>1, <2>1
    <3> HIDE DEF q, x, t, S
    <3>2. q + x <= S /\ q + x = read - t
      BY <3>1
    <3> QED
      BY <3>1, <3>2 DEF q, x, t, S
  <2>4. Counted(Part(m.p + m.n, Len(buffer)), m.p + m.n, (m.p + m.n) + Len(buffer))
    BY <1>1, <2>3, CountedPart
  <2> QED
    BY <1>1, <2>1, <2>2, <2>3, <2>4
<1>3. CASE Busy(m)
  <2>1. PICK n, p : /\ IsChunk(n, p) /\ n > 0
                    /\ header = Header(n) /\ buffer = Part(p, n) \o CRLF
                    /\ p + n + Len(todo) = read
                    /\ sent <= Full(n) /\ At(m, n, p, sent)
    BY <1>3 DEF Busy
  <2>2. header # << >>
    BY <2>1, HeaderNotEmpty DEF IsChunk
  <2>3. header \o buffer = Chunk(n, p)
    BY <2>1 DEF Chunk
  <2>4. Pending \in Seq(Units) /\ Counted(Pending, Position(m), p + n)
    BY <2>1, <2>2, <2>3, RestPending
  <2>5. p + n = read - Len(todo)
    BY <1>1, <2>1 DEF IsChunk
  <2> QED
    BY <2>4, <2>5
<1>4. CASE Ending(m) \/ Ended(m)
  <2>1. /\ at \in {"shutdown", "done"} /\ buffer = << >> /\ header = LastChunk
        /\ todo = << >> /\ Len(todo) = 0 /\ read = Len(Source)
    BY <1>4 DEF Ending, Ended, BodyInv
  <2> DEFINE c == LastChunk
             S == Len(Source)
  <2>2. c = Chunk(0, S)
    <3>1. Part(S, 0) \o CRLF = CRLF
      BY PartEmpty, CrlfUnits, JoinEmpty
    <3> QED
      BY <3>1 DEF LastChunk, Chunk
  <2>3. /\ IsChunk(0, S) /\ c \in Seq(Units) /\ Len(c) = Full(0)
        /\ Full(0) \in Nat /\ Intro(0) \in Nat /\ Full(0) = Intro(0) + 0 + 2
    <3>1. 0 \in Nat /\ S \in Nat /\ S + 0 <= Len(Source) /\ 0 <= Capacity
      BY <1>1, Constants
    <3>2. Full(0) \in Nat /\ Intro(0) \in Nat
      BY <3>1, Lengths
    <3> QED
      BY <2>2, <3>1, <3>2, ChunkUnits DEF IsChunk, Full
  <2>4. c # << >>
    BY <2>3
  <2>5. header \o buffer = c
    BY <2>1, <2>3, JoinEmpty
  <2>6. CASE Ending(m)
    <3>1. sent <= Full(0) /\ At(m, 0, S, sent)
      BY <2>6 DEF Ending
    <3>2. Pending \in Seq(Units) /\ Counted(Pending, Position(m), S + 0)
      BY <2>1, <2>2, <2>3, <2>4, <2>5, <3>1, RestPending
    <3>3. S + 0 = read - Len(todo)
      BY <1>1, <2>1
    <3> QED
      BY <3>2, <3>3
  <2>7. CASE Ended(m)
    <3>1. sent = Full(0) /\ m.n = 0 /\ m.k = Full(0) + 1
      BY <2>7 DEF Ended
    <3>2. m.p = S /\ Position(m) = S
      <4>1. m.k > 0 /\ m.k > Intro(m.n) + m.n
        BY <2>3, <3>1
      <4>2. m.p = S /\ Position(m) = m.p + m.n
        BY <3>1, <4>1, LabelFacts, PositionOf
      <4> QED
        BY <1>1, <3>1, <4>2
    <3>3. Len(header) + Len(buffer) = Full(0)
      BY <2>1, <2>3
    <3>4. Pending = SubSeq(c, Full(0) + 1, Full(0))
      BY <2>1, <2>4, <2>5, <3>1, <3>3 DEF Pending
    <3> HIDE DEF c
    <3>5. Pending \in Seq(Units) /\ Len(Pending) = 0
      <4> DEFINE N == Full(0)
      <4>1. N \in Nat /\ N <= N /\ N <= Len(c) /\ N - N = 0 /\ c \in Seq(Units)
        BY <2>3
      <4> HIDE DEF N
      <4>2. SubSeq(c, N + 1, N) \in Seq(Units) /\ Len(SubSeq(c, N + 1, N)) = N - N
        BY <4>1, PartOf
      <4> QED
        BY <3>4, <4>1, <4>2 DEF N
    <3>6. Pending = << >>
      BY <3>5
    <3>7. S = read - Len(todo)
      BY <1>1, <2>1
    <3> QED
      BY <1>1, <3>2, <3>5, <3>6, <3>7, CountedEmpty
  <2> QED
    BY <1>4, <2>6, <2>7
<1> QED
  BY <1>2, <1>3, <1>4 DEF WriterAt

\* However often a poll is left with Pending in the middle of a header, a chunk or a
\* flush: every byte that was read from the body is in exactly one place, in order.
THEOREM NothingIsLost == Spec => []NothingLost
<1>1. Inv => NothingLost
  <2> SUFFICES ASSUME Inv, at # "failed", result # "error"
               PROVE  Bytes(got \o wire \o held \o Pending \o todo)
                          = [i \in 1..read |-> Byte(Source[i])]
    BY DEF NothingLost
  <2>1. TypeInv /\ BodyInv /\ GotInv /\ Linked
    BY DEF Inv
  <2>2. PICK l \in Labels, m \in Labels : Path(wire \o held, l, m) /\ ReaderAt(l) /\ WriterAt(m)
    BY <2>1 DEF Linked
  <2> DEFINE g == Len(got)
             r == read - Len(todo)
             a == Position(l)
             b == Position(m)
             x == wire \o held
             y == Pending
  <2>3. /\ read \in Nat /\ read <= Len(Source) /\ r \in Nat /\ Len(todo) \in Nat
        /\ todo \in Seq(Units) /\ Len(Source) \in Nat
        /\ wire \in Seq(Units) /\ held \in Seq(Units)
    BY <2>1, Constants DEF TypeInv, BodyInv
  <2>4. g \in Nat /\ g <= Len(Source) /\ got = Part(0, g) /\ a = g
    <3>1. g <= Len(Source) /\ got = Part(0, g)
      BY <2>1 DEF GotInv
    <3>2. a = g
      BY <2>1, <2>2, ReaderPosition
    <3>3. a \in Nat
      BY PositionNatural
    <3> QED
      BY <3>1, <3>2, <3>3
  <2>5. x \in Seq(Units)
    BY <2>3, Joined
  <2>6. y \in Seq(Units) /\ Counted(y, b, r)
    BY <2>1, <2>2, PendingCounted
  <2>7. Counted(x, a, b)
    BY <2>2, <2>5, PathCounted
  <2>8. got \in Seq(Units) /\ Counted(got, 0, g)
    <3>1. 0 + g <= Len(Source) /\ 0 \in Nat /\ 0 + g = g
      BY <2>4
    <3>2. Part(0, g) \in Seq(Units) /\ Counted(Part(0, g), 0, 0 + g)
      BY <2>3, <2>4, <3>1, PartUnits, CountedPart
    <3> QED
      BY <2>4, <3>1, <3>2
  <2>9. Counted(todo, r, read)
    <3>1. todo = Part(r, Len(todo))
      BY <2>1 DEF BodyInv
    <3>2. r + Len(todo) = read
      BY <2>3
    <3>3. Counted(Part(r, Len(todo)), r, r + Len(todo))
      BY <2>3, <3>2, CountedPart
    <3> QED
      BY <3>1, <3>2, <3>3
  <2> HIDE DEF g, r, a, b, x, y
  <2>10. got \o x \in Seq(Units) /\ Counted(got \o x, 0, b)
    BY <2>4, <2>5, <2>7, <2>8, CountedJoin, Joined
  <2>11. (got \o x) \o y \in Seq(Units) /\ Counted((got \o x) \o y, 0, r)
    BY <2>6, <2>10, CountedJoin, Joined
  <2>12. ((got \o x) \o y) \o todo \in Seq(Units) /\ Counted(((got \o x) \o y) \o todo, 0, read)
    BY <2>3, <2>9, <2>11, CountedJoin, Joined
  <2>13. (got \o wire) \o held = got \o x
    BY <2>3, <2>8, JoinAssociative DEF x
  <2>14. Bytes(((got \o x) \o y) \o todo) = Part(0, read)
    BY <2>3, <2>12, BytesCounted
  <2>15. Part(0, read) = [i \in 1..read |-> Byte(Source[i])]
    <3>1. \A i \in 1..read : 0 + i = i
      OBVIOUS
    <3> QED
      BY <3>1 DEF Part
  <2> QED
    BY <2>13, <2>14, <2>15 DEF y
<1> QED
  BY <1>1, Invariance, PTL

\* A place behind the last chunk has at most the next message behind it.
LEMMA BehindTheLast ==
    ASSUME NEW u \in Seq(Units), NEW l, NEW m, Path(u, l, m), l.n = 0, l.k = Full(0)
    PROVE  u \in {<< >>, <<NextMessage>>}
<1>1. l \in Labels /\ m \in Labels
  BY PathEnds
<1>2. Full(0) \in Nat /\ Full(0) > 0
  <2>1. Wide(0) \in Nat /\ Full(0) = Wide(0) + 0 + 4 /\ Full(0) \in Nat
    BY Lengths
  <2> QED
    BY <2>1
<1>3. CASE u = << >>
  BY <1>3
<1>4. CASE Len(u) > 0
  <2> DEFINE v == SubSeq(u, 2, Len(u))
  <2>1. PICK o \in Labels : Follows(l, o) /\ u[1] = Unit(o) /\ Path(v, o, m)
    BY <1>1, <1>4, PathFirst
  <2>2. o.n = 0 /\ o.k = Full(0) + 1
    BY <1>2, <2>1 DEF Follows, Between
  <2>3. u[1] = NextMessage
    BY <1>2, <2>1, <2>2 DEF Unit
  <2>4. v \in Seq(Units) /\ Len(v) = Len(u) - 1 /\ Len(u) \in Nat
    <3>1. 1 + 1 = 2 /\ 1 <= Len(u) /\ Len(u) <= Len(u) /\ Len(u) \in Nat /\ 1 \in Nat
      BY <1>4
    <3>2. /\ SubSeq(u, 1 + 1, Len(u)) \in Seq(Units)
          /\ Len(SubSeq(u, 1 + 1, Len(u))) = Len(u) - 1
      BY <3>1, PartOf
    <3> QED
      BY <3>1, <3>2
  <2> HIDE DEF v
  <2>5. Len(v) = 0
    <3> SUFFICES ASSUME Len(v) > 0 PROVE FALSE
      BY <2>4
    <3>1. PICK q \in Labels : Follows(o, q)
      BY <2>1, <2>4, PathFirst
    <3>2. q.n = 0 /\ q.k = Full(0) + 2
      BY <1>2, <2>2, <3>1 DEF Follows, Between
    <3>3. q.k <= Full(0) + 1
      BY <3>2, LabelFacts
    <3> QED
      BY <1>2, <3>2, <3>3
  <2>6. Len(u) = 1
    BY <1>4, <2>4, <2>5
  <2>7. u = <<u[1]>>
    BY <2>6
  <2> QED
    BY <2>3, <2>7
<1> QED
  BY <1>3, <1>4

\* The reader stops behind the last chunk, whatever the wire yields at a time: the next
\* message on a connection that is kept alive begins exactly there.
THEOREM StopsAtTheEnd == Spec => []StopsAtEnd
<1>1. Inv => StopsAtEnd
  <2> SUFFICES ASSUME Inv, result = "end"
               PROVE  wire \o held \in {<< >>, <<NextMessage>>}
    BY DEF StopsAtEnd
  <2>1. TypeInv /\ Linked
    BY DEF Inv
  <2>2. PICK l \in Labels, m \in Labels : Path(wire \o held, l, m) /\ ReaderAt(l)
    BY <2>1 DEF Linked
  <2>3. l.n = 0 /\ l.k = Full(0)
    <3>1. l.n = 0 /\ l.k = Intro(0) + Len(line) /\ line = CRLF
      BY <2>2 DEF ReaderAt, InHeader, InChunk, AtEnd
    <3>2. Intro(0) \in Nat /\ Full(0) = Intro(0) + 0 + 2
      BY Lengths DEF Full
    <3> QED
      BY <3>1, <3>2, CrlfUnits
  <2>4. wire \o held \in Seq(Units)
    BY <2>1, Joined DEF TypeInv
  <2> QED
    BY <2>2, <2>3, <2>4, BehindTheLast
<1> QED
  BY <1>1, Invariance, PTL

-----------------------------------------------------------------------------
(* The pipe. *)

Delivered == [i \in DOMAIN got |-> IF got[i].kind = "byte" THEN got[i].n ELSE 0]

LEMMA Decoded ==
    ASSUME NEW s, NEW g, g = Len(s), s = Part(0, g), g <= Len(Source)
    PROVE  /\ g \in Nat
           /\ [i \in DOMAIN s |-> IF s[i].kind = "byte" THEN s[i].n ELSE 0] = SubSeq(Source, 1, g)
           /\ Len(SubSeq(Source, 1, g)) = g
<1>1. s = [i \in 1..g |-> Byte(Source[0 + i])]
  BY DEF Part
<1>2. g \in Nat /\ DOMAIN s = 1..g
  BY <1>1
<1>3. 0 + g <= Len(Source) /\ 0 \in Nat
  BY <1>2
<1>4. \A i \in 1..g : Source[i] \in Nat /\ s[i] = Byte(Source[i])
  <2>1. \A i \in 1..g : Source[0 + i] \in Nat /\ Part(0, g)[i] = Byte(Source[0 + i])
    BY <1>2, <1>3, PartUnits
  <2>2. \A i \in 1..g : 0 + i = i
    BY <1>2
  <2> QED
    BY <2>1, <2>2
<1>5. \A i \in 1..g : (IF s[i].kind = "byte" THEN s[i].n ELSE 0) = Source[i]
  <2> SUFFICES ASSUME NEW i \in 1..g
               PROVE  (IF s[i].kind = "byte" THEN s[i].n ELSE 0) = Source[i]
    OBVIOUS
  <2>1. Byte(Source[i]).kind = "byte" /\ Byte(Source[i]).n = Source[i]
    BY <1>4, UnitTypes
  <2> QED
    BY <1>4, <2>1
<1>6. SubSeq(Source, 1, g) = [i \in 1..g |-> Source[i]] /\ Len(SubSeq(Source, 1, g)) = g
  BY <1>2, Constants
<1>7. [i \in DOMAIN s |-> IF s[i].kind = "byte" THEN s[i].n ELSE 0] = [i \in 1..g |-> Source[i]]
  BY <1>2, <1>5
<1> QED
  BY <1>2, <1>6, <1>7

\* What has been delivered is the beginning of the body.
LEMMA DeliveredIs ==
    ASSUME GotInv
    PROVE  /\ Len(got) \in Nat /\ Len(got) <= Len(Source)
           /\ Delivered = SubSeq(Source, 1, Len(got)) /\ Len(Delivered) = Len(got)
BY Decoded DEF GotInv, Delivered

LEMMA PipeInit == Init => Pipe!Init
<1> SUFFICES ASSUME Init PROVE Pipe!Init
  OBVIOUS
<1>1. got = << >> /\ result = "open" /\ at = "reading"
  BY DEF Init
<1>2. [i \in DOMAIN got |-> IF got[i].kind = "byte" THEN got[i].n ELSE 0] = << >>
  BY <1>1
<1> QED
  BY <1>1, <1>2 DEF Pipe!Init

PipeNext == Pipe!Deliver \/ Pipe!End \/ Pipe!Fail \/ Pipe!Cut
PipeVars == <<Delivered, result, at = "failed">>

\* A step that touches nothing the pipe shows.
LEMMA Unseen ==
    ASSUME UNCHANGED <<got, result>>, (at' = "failed") = (at = "failed")
    PROVE  UNCHANGED PipeVars
BY DEF PipeVars, Delivered

LEMMA Refuses ==
    ASSUME Inv, Inv', result = "open", result' = "error", UNCHANGED <<got, at>>
    PROVE  Pipe!Fail
<1>1. at = "failed"
  BY DEF Inv, FailInv
<1> QED
  BY <1>1 DEF Pipe!Fail

LEMMA ReadDataDelivers ==
    ASSUME Inv, Inv', ReadData
    PROVE  Pipe!Deliver
<1>1. GotInv /\ GotInv' /\ TypeInv
  BY DEF Inv
<1>2. result = "open" /\ UNCHANGED <<result, at>>
  BY DEF ReadData, ReaderStep, bodyVars
<1>3. /\ Len(got) \in Nat /\ Delivered = SubSeq(Source, 1, Len(got)) /\ Len(Delivered) = Len(got)
  BY <1>1, DeliveredIs
<1>4. /\ Len(got') \in Nat /\ Len(got') <= Len(Source)
      /\ Delivered' = SubSeq(Source, 1, Len(got'))
  BY <1>1, Decoded DEF GotInv, Delivered
<1>5. PICK n \in 1..Smaller(MaxRead, Smaller(Remaining, Len(wire))) :
          got' = got \o SubSeq(wire, 1, n)
  BY DEF ReadData
<1>6. Len(got') > Len(got)
  <2>1. n \in Nat /\ n >= 1 /\ n <= Len(wire) /\ wire \in Seq(Units)
    <3>1. /\ wire \in Seq(Units) /\ Len(wire) \in Nat /\ MaxRead \in Nat
          /\ current_chunk_size \in Nat /\ current_chunk_count \in Nat
      BY <1>1, Constants DEF TypeInv
    <3> QED
      BY <1>5, <3>1 DEF Smaller, Remaining
  <2>2. SubSeq(wire, 1, n) \in Seq(Units) /\ Len(SubSeq(wire, 1, n)) = n
    BY <2>1, CutInTwo
  <2>3. got \in Seq(Units)
    <3>1. 0 + Len(got) <= Len(Source) /\ 0 \in Nat /\ got = Part(0, Len(got))
      BY <1>1, <1>3 DEF GotInv
    <3>2. Part(0, Len(got)) \in Seq(Units)
      BY <1>3, <3>1, PartUnits
    <3> QED
      BY <3>1, <3>2
  <2>4. Len(got \o SubSeq(wire, 1, n)) = Len(got) + Len(SubSeq(wire, 1, n))
    BY <2>2, <2>3, Joined
  <2> QED
    BY <1>3, <1>5, <2>1, <2>2, <2>4
<1>7. Len(got') \in Len(Delivered) + 1..Len(Source)
  BY <1>3, <1>4, <1>6, Constants
<1>8. \E x \in Len(Delivered) + 1..Len(Source) : Delivered' = SubSeq(Source, 1, x)
  BY <1>4, <1>7
<1> QED
  BY <1>2, <1>8 DEF Pipe!Deliver, Delivered

LEMMA TerminateEnds ==
    ASSUME Inv, Inv', result = "open", result' = "end", UNCHANGED <<got, at>>
    PROVE  Pipe!End
<1>1. TypeInv' /\ GotInv /\ Linked'
  BY DEF Inv
<1>2. PICK l \in Labels : ReaderAt(l)'
  BY <1>1 DEF Linked
<1>3. l.n = 0 /\ Len(got') = l.p /\ l.k = Intro(0) + Len(line')
  BY <1>2 DEF ReaderAt, InHeader, InChunk, AtEnd
<1>4. l.k > 0
  <2>1. Wide(0) \in Nat /\ Intro(0) = Wide(0) + 2 /\ Len(line') \in Nat
    BY <1>1, Lengths DEF TypeInv
  <2> QED
    BY <1>3, <2>1
<1>5. Len(got) = Len(Source)
  BY <1>3, <1>4, LabelFacts
<1>6. Delivered = SubSeq(Source, 1, Len(Source))
  BY <1>1, <1>5, DeliveredIs
<1>7. Delivered = Source
  BY <1>6, Constants
<1> QED
  BY <1>7 DEF Pipe!End, Delivered

LEMMA PipeStep ==
    ASSUME Inv, Inv', [Next]_vars
    PROVE  [PipeNext]_PipeVars
<1>1. CASE UNCHANGED vars
  <2>1. UNCHANGED <<got, result>> /\ at' = at
    BY <1>1 DEF vars, readerVars, bodyVars
  <2> QED
    BY <2>1, Unseen
<1>2. CASE Writer
  <2>1. UNCHANGED <<got, result>>
    BY <1>2 DEF Writer, ReadBody, EndBody, Write, Shutdown, FlushAndWrite, FlushAndShutdown,
                readerVars
  <2>2. at # "failed" /\ at' # "failed"
    BY <1>2 DEF Writer, ReadBody, EndBody, Write, Shutdown, FlushAndWrite, FlushAndShutdown,
                Copy, bodyVars
  <2> QED
    BY <2>1, <2>2, Unseen
<1>3. CASE PassOn
  <2>1. UNCHANGED <<got, result>> /\ at' = at
    BY <1>3 DEF PassOn, readerVars, bodyVars
  <2> QED
    BY <2>1, Unseen
<1>4. CASE Fails
  <2>1. at' = "failed" /\ UNCHANGED <<got, result>>
    BY <1>4 DEF Fails, readerVars
  <2>2. Pipe!Cut
    BY <2>1 DEF Pipe!Cut
  <2> QED
    BY <2>2 DEF PipeNext
<1>5. CASE ReadHeader \/ EndChunk \/ Terminate \/ CutShort
  <2>1. result = "open" /\ UNCHANGED <<got, at>>
    BY <1>5 DEF ReadHeader, EndChunk, Terminate, CutShort, ReadCrlf, ReaderStep, bodyVars
  <2>2. result' \in {"open", "end", "error"}
    BY DEF Inv, TypeInv
  <2>3. CASE result' = "open"
    BY <2>1, <2>3, Unseen
  <2>4. CASE result' = "error"
    <3>1. Pipe!Fail
      BY <2>1, <2>4, Refuses
    <3> QED
      BY <3>1 DEF PipeNext
  <2>5. CASE result' = "end"
    <3>1. Pipe!End
      BY <2>1, <2>5, TerminateEnds
    <3> QED
      BY <3>1 DEF PipeNext
  <2> QED
    BY <2>2, <2>3, <2>4, <2>5
<1>6. CASE ReadData
  BY <1>6, ReadDataDelivers DEF PipeNext
<1> QED
  BY <1>1, <1>2, <1>3, <1>4, <1>5, <1>6 DEF Next, Reader

\* Writer and reader together are a pipe: what is read is a beginning of the body, the
\* end is seen after all of it or never, and an error only when the connection failed.
THEOREM Refinement == Spec => PipeSpec
<1>1. Inv /\ Inv' /\ [Next]_vars
          => [Pipe!Deliver \/ Pipe!End \/ Pipe!Fail \/ Pipe!Cut]_<<
                 [i \in DOMAIN got |-> IF got[i].kind = "byte" THEN got[i].n ELSE 0],
                 result, at = "failed">>
  BY PipeStep DEF PipeNext, PipeVars, Delivered
<1> QED
  BY <1>1, PipeInit, Invariance, PTL DEF Spec, PipeSpec, Pipe!Spec

===============================================================================
