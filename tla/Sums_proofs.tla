----------------------------- MODULE Sums_proofs -----------------------------
(***************************************************************************)
(* The laws of sums: what one more element adds, what the first one takes  *)
(* away, what a change of one changes.  Induction over the length of a     *)
(* sequence is by the least counterexample, for the natural numbers are    *)
(* well-founded; that is a theorem without an operator in it.              *)
(***************************************************************************)
EXTENDS Sums, FiniteSetTheorems, TLAPS

-----------------------------------------------------------------------------
(* Induction. *)


\* A set of natural numbers has a least one: induction without an operator.
LEMMA LeastNatural ==
    ASSUME NEW T \in SUBSET Nat, T # {}
    PROVE  \E n \in T : \A m \in T : n <= m
<1> DEFINE R == {ss \in Nat \X Nat : ss[1] < ss[2]}
<1>1. IsWellFoundedOn(R, Nat)
  BY NatLessThanWellFounded DEF OpToRel
<1> HIDE DEF R
<1>2. PICK n \in T : \A m \in T : <<m, n>> \notin R
  BY <1>1, WFMin
<1>3. ASSUME NEW m \in T PROVE n <= m
  <2>1. n \in Nat /\ m \in Nat
    OBVIOUS
  <2>2. ~(m < n)
    BY <1>2, <2>1 DEF R
  <2> QED
    BY <2>1, <2>2
<1> QED
  BY <1>3

\* What holds of 0 and is handed on holds of every natural number.
LEMMA Induction ==
    ASSUME NEW T, 0 \in T, \A n \in Nat : n \in T => n + 1 \in T
    PROVE  Nat \subseteq T
<1> SUFFICES ASSUME Nat \ T # {} PROVE FALSE
  OBVIOUS
<1>1. PICK n \in Nat \ T : \A m \in Nat \ T : n <= m
  BY LeastNatural
<1>2. n # 0 /\ n - 1 \in Nat
  BY <1>1
<1>3. n - 1 \in T
  BY <1>1, <1>2
<1>4. (n - 1) + 1 \in T
  BY <1>2, <1>3
<1> QED
  BY <1>1, <1>4

-----------------------------------------------------------------------------
(* The recursion of Total. *)

\* A sequence that is not empty has a first element and a rest.
LEMMA Shorter ==
    ASSUME NEW S, NEW s \in Seq(S), s # << >>
    PROVE  /\ Head(s) \in S /\ Tail(s) \in Seq(S)
           /\ Len(s) \in Nat /\ Len(s) > 0 /\ Len(Tail(s)) = Len(s) - 1
OBVIOUS

\* The elements of the rest.
LEMMA TailElements ==
    ASSUME NEW s \in Seq(Int), s # << >>
    PROVE  \A i \in 1..(Len(s) - 1) : Tail(s)[i] = s[i + 1]
OBVIOUS

\* By length.
LEMMA Empty ==
    ASSUME NEW s \in Seq(Int), Len(s) = 0 PROVE s = << >>
OBVIOUS

LEMMA NotEmpty ==
    ASSUME NEW s \in Seq(Int), Len(s) > 0
    PROVE  s # << >> /\ Head(s) = s[1] /\ s[1] \in Int
OBVIOUS

\* Sequences with the same elements.
LEMMA SeqEqual ==
    ASSUME NEW s \in Seq(Int), NEW t \in Seq(Int), Len(s) = Len(t),
           \A i \in 1..Len(s) : s[i] = t[i]
    PROVE  s = t
OBVIOUS

\* The sequences up to a length, and the equation of Total for them.
Short(n) == {s \in Seq(Int) : Len(s) <= n}

IsTotal(f, n) ==
    /\ f \in [Short(n) -> Int]
    /\ f[<< >>] = 0
    /\ \A s \in Short(n) : s # << >> => f[s] = Head(s) + f[Tail(s)]

\* For each length there is a function that satisfies the equation.
LEMMA TotalsExist == \A n \in Nat : \E f : IsTotal(f, n)
<1> DEFINE T == {n \in Nat : \E f : IsTotal(f, n)}
<1>1. 0 \in T
  <2>1. \A s \in Short(0) : s = << >>
    BY DEF Short
  <2>2. << >> \in Short(0)
    BY DEF Short
  <2>3. IsTotal([s \in Short(0) |-> 0], 0)
    BY <2>1, <2>2 DEF IsTotal
  <2> QED
    BY <2>3
<1>2. ASSUME NEW n \in Nat, n \in T PROVE n + 1 \in T
  <2>1. PICK f : IsTotal(f, n)
    BY <1>2
  <2> DEFINE g == [s \in Short(n + 1) |-> IF s = << >> THEN 0 ELSE Head(s) + f[Tail(s)]]
  <2>2. \A s \in Short(n + 1) : s # << >> => Tail(s) \in Short(n) /\ Head(s) \in Int
    BY Shorter DEF Short
  <2>3. \A s \in Short(n) : s \in Short(n + 1) /\ g[s] = f[s]
    <3>1. \A s \in Short(n) : s \in Short(n + 1)
      BY DEF Short
    <3> QED
      BY <2>1, <3>1 DEF IsTotal
  <2>4. << >> \in Short(n + 1)
    BY DEF Short
  <2>5. g \in [Short(n + 1) -> Int]
    BY <2>1, <2>2 DEF IsTotal
  <2>6. \A s \in Short(n + 1) : s # << >> => g[s] = Head(s) + g[Tail(s)]
    BY <2>2, <2>3
  <2>7. IsTotal(g, n + 1)
    BY <2>4, <2>5, <2>6 DEF IsTotal
  <2> QED
    BY <2>7
<1> HIDE DEF T
<1>3. Nat \subseteq T
  BY <1>1, <1>2, Induction
<1> QED
  BY <1>3 DEF T

\* Two of them agree where both are defined.
LEMMA TotalsAgree ==
    ASSUME NEW m \in Nat, NEW n \in Nat, m <= n,
           NEW f, NEW g, IsTotal(f, m), IsTotal(g, n)
    PROVE  \A s \in Short(m) : f[s] = g[s]
<1> DEFINE T == {k \in Nat : \A s \in Short(m) : Len(s) = k => f[s] = g[s]}
<1>1. 0 \in T
  <2>1. \A s \in Short(m) : Len(s) = 0 => s = << >>
    BY DEF Short
  <2> QED
    BY <2>1 DEF IsTotal
<1>2. ASSUME NEW k \in Nat, k \in T PROVE k + 1 \in T
  <2> SUFFICES ASSUME NEW s \in Short(m), Len(s) = k + 1 PROVE f[s] = g[s]
    BY <1>2
  <2>1. s # << >> /\ s \in Short(n)
    BY DEF Short
  <2>2. Tail(s) \in Short(m) /\ Len(Tail(s)) = k
    BY <2>1, Shorter DEF Short
  <2>3. f[Tail(s)] = g[Tail(s)]
    BY <1>2, <2>2
  <2> QED
    BY <2>1, <2>3 DEF IsTotal
<1> HIDE DEF T
<1>3. Nat \subseteq T
  BY <1>1, <1>2, Induction
<1>4. \A s \in Short(m) : Len(s) \in T
  BY <1>3 DEF Short
<1> QED
  BY <1>4 DEF T

\* The recursion defines a function: what its definition says of a sum.
LEMMA TotalDefined ==
    /\ Total \in [Seq(Int) -> Int]
    /\ Total[<< >>] = 0
    /\ \A s \in Seq(Int) : s # << >> => Total[s] = Head(s) + Total[Tail(s)]
<1> DEFINE h == [n \in Nat |-> CHOOSE f : IsTotal(f, n)]
           f == [s \in Seq(Int) |-> h[Len(s)][s]]
           Is(g) == g = [s \in Seq(Int) |-> IF s = << >> THEN 0 ELSE Head(s) + g[Tail(s)]]
<1>1. \A n \in Nat : IsTotal(h[n], n)
  BY TotalsExist
<1> HIDE DEF h
<1>2. ASSUME NEW s \in Seq(Int), s # << >>
      PROVE  f[s] = Head(s) + f[Tail(s)] /\ f[s] \in Int
  <2>1. PICK n \in Nat : n + 1 = Len(s) /\ Len(Tail(s)) = n /\ Tail(s) \in Seq(Int) /\ Head(s) \in Int
    <3>1. Len(s) - 1 \in Nat /\ (Len(s) - 1) + 1 = Len(s)
      BY <1>2, Shorter
    <3> QED
      BY <1>2, <3>1, Shorter
  <2>2. IsTotal(h[n], n) /\ IsTotal(h[n + 1], n + 1)
    BY <1>1
  <2>3. s \in Short(n + 1) /\ Tail(s) \in Short(n)
    BY <2>1 DEF Short
  <2>4. h[n + 1][Tail(s)] = h[n][Tail(s)]
    BY <2>2, <2>3, TotalsAgree
  <2>5. h[n + 1][s] = Head(s) + h[n + 1][Tail(s)] /\ h[n + 1][s] \in Int
    BY <1>2, <2>2, <2>3 DEF IsTotal
  <2>6. f[s] = h[n + 1][s] /\ f[Tail(s)] = h[n][Tail(s)]
    BY <2>1
  <2> QED
    BY <2>4, <2>5, <2>6
<1>3. << >> \in Seq(Int) /\ f[<< >>] = 0
  BY <1>1 DEF IsTotal
<1>4. f \in [Seq(Int) -> Int] /\ Is(f)
  <2>1. DOMAIN f = Seq(Int) /\ f = [s \in Seq(Int) |-> f[s]]
    OBVIOUS
  <2> HIDE DEF f
  <2> QED
    BY <1>2, <1>3, <2>1
<1>5. Is(Total)
  BY <1>4 DEF Total
<1> HIDE DEF f
<1>6. Total[<< >>] = 0 /\ \A s \in Seq(Int) : s # << >> => Total[s] = Head(s) + Total[Tail(s)]
  BY <1>3, <1>5
<1> DEFINE T == {n \in Nat : \A s \in Seq(Int) : Len(s) = n => Total[s] \in Int}
<1>8. 0 \in T
  <2>1. \A t \in Seq(Int) : Len(t) = 0 => t = << >>
    OBVIOUS
  <2> QED
    BY <1>6, <2>1
<1>9. ASSUME NEW n \in Nat, n \in T PROVE n + 1 \in T
  <2> SUFFICES ASSUME NEW s \in Seq(Int), Len(s) = n + 1 PROVE Total[s] \in Int
    BY <1>9
  <2>1. s # << >>
    OBVIOUS
  <2>2. Tail(s) \in Seq(Int) /\ Len(Tail(s)) = n /\ Head(s) \in Int
    BY <2>1, Shorter
  <2>3. Total[Tail(s)] \in Int
    BY <1>9, <2>2
  <2> QED
    BY <1>6, <2>1, <2>2, <2>3
<1> HIDE DEF T
<1>10. Nat \subseteq T
  BY <1>8, <1>9, Induction
<1>11. \A s \in Seq(Int) : Total[s] \in Int
  <2>1. \A s \in Seq(Int) : Len(s) \in T
    BY <1>10
  <2> QED
    BY <2>1 DEF T
<1> QED
  BY <1>5, <1>6, <1>11

-----------------------------------------------------------------------------
(* Laws. *)

\* The sum without the first element.
LEMMA TotalTail ==
    ASSUME NEW s \in Seq(Int), s # << >>
    PROVE  Total[Tail(s)] = Total[s] - Head(s) /\ Total[Tail(s)] \in Int
<1>1. Head(s) \in Int /\ Tail(s) \in Seq(Int) /\ Total[s] = Head(s) + Total[Tail(s)]
  BY TotalDefined, Shorter
<1>2. Total[Tail(s)] \in Int
  BY <1>1, TotalDefined
<1> QED
  BY <1>1, <1>2

\* The same, of a sequence that is only like the tail.
LEMMA TotalShift ==
    ASSUME NEW s \in Seq(Int), NEW t \in Seq(Int), Len(s) = Len(t) + 1,
           \A i \in 1..Len(t) : t[i] = s[i + 1]
    PROVE  Total[t] = Total[s] - s[1]
<1>1. s # << >> /\ Head(s) = s[1]
  OBVIOUS
<1>2. t = Tail(s)
  OBVIOUS
<1> QED
  BY <1>1, <1>2, TotalTail

\* A sequence of one.
LEMMA TotalOne ==
    ASSUME NEW s \in Seq(Int), Len(s) = 1
    PROVE  Total[s] = s[1] /\ s[1] \in Int
<1>1. s # << >> /\ Head(s) = s[1] /\ s[1] \in Int
  BY NotEmpty
<1>2. Tail(s) \in Seq(Int) /\ Len(Tail(s)) = 0
  BY <1>1, Shorter
<1>3. Total[Tail(s)] = 0
  BY <1>2, Empty, TotalDefined
<1> QED
  BY <1>1, <1>3, TotalDefined

\* Two sequences of which the rests, or the first elements, are the same.
LEMMA TotalSameRest ==
    ASSUME NEW s \in Seq(Int), NEW t \in Seq(Int), s # << >>, t # << >>, Tail(s) = Tail(t)
    PROVE  Total[t] = Total[s] - Head(s) + Head(t)
<1>1. Head(s) \in Int /\ Head(t) \in Int /\ Tail(s) \in Seq(Int)
  BY Shorter
<1>2. Total[Tail(s)] \in Int
  BY <1>1, TotalDefined
<1>3. Total[s] = Head(s) + Total[Tail(s)] /\ Total[t] = Head(t) + Total[Tail(t)]
  BY TotalDefined
<1>4. PICK a \in Int, h \in Int, k \in Int : a = Total[Tail(s)] /\ h = Head(s) /\ k = Head(t)
  BY <1>1, <1>2
<1>5. Total[s] = h + a /\ Total[t] = k + a
  BY <1>3, <1>4
<1>6. Total[t] = Total[s] - h + k
  BY <1>5
<1> QED
  BY <1>4, <1>6

LEMMA TotalSameHead ==
    ASSUME NEW s \in Seq(Int), NEW t \in Seq(Int), s # << >>, t # << >>, Head(s) = Head(t),
           NEW d \in Int, Total[Tail(t)] = Total[Tail(s)] + d
    PROVE  Total[t] = Total[s] + d
<1>1. Head(s) \in Int /\ Tail(s) \in Seq(Int)
  BY Shorter
<1>2. Total[Tail(s)] \in Int
  BY <1>1, TotalDefined
<1>3. Total[s] = Head(s) + Total[Tail(s)] /\ Total[t] = Head(t) + Total[Tail(t)]
  BY TotalDefined
<1>4. PICK a \in Int, h \in Int : a = Total[Tail(s)] /\ h = Head(s)
  BY <1>1, <1>2
<1>5. Total[s] = h + a /\ Total[t] = h + (a + d)
  BY <1>3, <1>4
<1> QED
  BY <1>5

\* One more element at the end.
LEMMA TotalLonger ==
    ASSUME NEW s \in Seq(Int), NEW t \in Seq(Int), Len(t) = Len(s) + 1,
           \A i \in 1..Len(s) : t[i] = s[i]
    PROVE  Total[t] = Total[s] + t[Len(s) + 1]
<1> DEFINE Law(u, v) == Total[v] = Total[u] + v[Len(u) + 1]
           Pair(u, v) == Len(v) = Len(u) + 1 /\ \A i \in 1..Len(u) : v[i] = u[i]
           T == {n \in Nat : \A u, v \in Seq(Int) : Len(u) = n /\ Pair(u, v) => Law(u, v)}
<1>1. 0 \in T
  <2> SUFFICES ASSUME NEW u \in Seq(Int), NEW v \in Seq(Int), Len(u) = 0, Pair(u, v)
               PROVE  Law(u, v)
    OBVIOUS
  <2>1. Len(v) = 1
    OBVIOUS
  <2> HIDE DEF T
  <2>3. u = << >>
    BY Empty
  <2>2. Total[v] = v[1] /\ v[1] \in Int
    BY <2>1, TotalOne
  <2>4. Total[u] = 0
    BY <2>3, TotalDefined
  <2> QED
    BY <2>2, <2>4
<1>2. ASSUME NEW n \in Nat, n \in T PROVE n + 1 \in T
  <2> SUFFICES ASSUME NEW u \in Seq(Int), NEW v \in Seq(Int), Len(u) = n + 1, Pair(u, v)
               PROVE  Law(u, v)
    OBVIOUS
  <2>1. /\ u # << >> /\ v # << >> /\ Tail(u) \in Seq(Int) /\ Tail(v) \in Seq(Int)
        /\ Len(Tail(u)) = n /\ Len(Tail(v)) = n + 1
        /\ Head(u) = Head(v) /\ Head(u) \in Int
        /\ Tail(v)[n + 1] = v[n + 2] /\ v[n + 2] \in Int
    OBVIOUS
  <2>2. \A i \in 1..n : Tail(v)[i] = Tail(u)[i]
    OBVIOUS
  <2>3. Law(Tail(u), Tail(v))
    BY <1>2, <2>1, <2>2
  <2>4. Total[u] = Head(u) + Total[Tail(u)] /\ Total[v] = Head(v) + Total[Tail(v)]
    BY <2>1, TotalDefined
  <2>5. Total[Tail(u)] \in Int /\ Total[Tail(v)] \in Int
    BY <2>1, TotalDefined
  <2> QED
    BY <2>1, <2>3, <2>4, <2>5
<1> HIDE DEF T
<1>3. Nat \subseteq T
  BY <1>1, <1>2, Induction
<1>4. Len(s) \in T
  BY <1>3
<1> QED
  BY <1>4 DEF T

LEMMA TotalAppend ==
    ASSUME NEW s \in Seq(Int), NEW n \in Int
    PROVE  Total[Append(s, n)] = Total[s] + n
<1> DEFINE t == Append(s, n)
<1>1. /\ t \in Seq(Int) /\ Len(t) = Len(s) + 1 /\ t[Len(s) + 1] = n
      /\ \A i \in 1..Len(s) : t[i] = s[i]
  OBVIOUS
<1> HIDE DEF t
<1>2. Total[t] = Total[s] + n
  BY <1>1, TotalLonger
<1> QED
  BY <1>2 DEF t

\* t is s with d added to its element k.
Changed(s, t, k, d) ==
    /\ k \in 1..Len(s) /\ Len(t) = Len(s) /\ t[k] = s[k] + d
    /\ \A i \in 1..Len(s) : i # k => t[i] = s[i]

\* The first element changes.
LEMMA ChangeFirst ==
    ASSUME NEW s \in Seq(Int), NEW t \in Seq(Int), NEW d \in Int, Changed(s, t, 1, d)
    PROVE  Total[t] = Total[s] + d
<1>1. /\ s # << >> /\ t # << >> /\ Tail(s) \in Seq(Int) /\ Tail(t) \in Seq(Int)
      /\ Len(Tail(s)) = Len(s) - 1 /\ Len(Tail(t)) = Len(s) - 1
  BY Shorter DEF Changed
<1>2. Head(s) = s[1] /\ Head(t) = s[1] + d /\ s[1] \in Int
  BY <1>1 DEF Changed
<1>3. \A i \in 1..(Len(s) - 1) : Tail(s)[i] = Tail(t)[i]
  <2> TAKE i \in 1..(Len(s) - 1)
  <2>1. Tail(s)[i] = s[i + 1] /\ Tail(t)[i] = t[i + 1]
    BY <1>1, TailElements DEF Changed
  <2>2. i + 1 \in 1..Len(s) /\ i + 1 # 1
    OBVIOUS
  <2> QED
    BY <2>1, <2>2 DEF Changed
<1>4. Tail(s) = Tail(t)
  BY <1>1, <1>3, SeqEqual
<1>5. Total[t] = Total[s] - Head(s) + Head(t)
  BY <1>1, <1>4, TotalSameRest
<1>6. Total[s] \in Int
  BY TotalDefined
<1>7. \A a, h \in Int : a - h + (h + d) = a + d
  OBVIOUS
<1> QED
  BY <1>2, <1>5, <1>6, <1>7

\* Another one does: so does an element of the rest.
LEMMA ChangeLater ==
    ASSUME NEW s \in Seq(Int), NEW t \in Seq(Int), NEW k, NEW d \in Int,
           Changed(s, t, k, d), k # 1
    PROVE  /\ s # << >> /\ t # << >> /\ Head(s) = Head(t)
           /\ Tail(s) \in Seq(Int) /\ Tail(t) \in Seq(Int)
           /\ Len(Tail(s)) = Len(s) - 1
           /\ Changed(Tail(s), Tail(t), k - 1, d)
<1>1. /\ s # << >> /\ t # << >> /\ Tail(s) \in Seq(Int) /\ Tail(t) \in Seq(Int)
      /\ Len(Tail(s)) = Len(s) - 1 /\ Len(Tail(t)) = Len(s) - 1
  BY Shorter DEF Changed
<1>2. Head(s) = s[1] /\ Head(t) = t[1] /\ s[1] = t[1]
  BY <1>1 DEF Changed
<1>3. /\ \A i \in 1..(Len(s) - 1) : Tail(s)[i] = s[i + 1]
      /\ \A i \in 1..(Len(s) - 1) : Tail(t)[i] = t[i + 1]
  BY <1>1, TailElements DEF Changed
<1>4. k - 1 \in 1..(Len(s) - 1) /\ (k - 1) + 1 = k
  BY <1>1 DEF Changed
<1>5. Tail(t)[k - 1] = Tail(s)[k - 1] + d
  BY <1>3, <1>4 DEF Changed
<1>6. \A i \in 1..(Len(s) - 1) : i # k - 1 => Tail(t)[i] = Tail(s)[i]
  <2> TAKE i \in 1..(Len(s) - 1)
  <2> HAVE i # k - 1
  <2>1. i + 1 \in 1..Len(s) /\ i + 1 # k
    BY <1>4
  <2> QED
    BY <1>3, <2>1 DEF Changed
<1> QED
  BY <1>1, <1>2, <1>4, <1>5, <1>6 DEF Changed

\* The lengths at which a sum changes as its element does.
ChangeHolds ==
    {n \in Nat : \A s, t \in Seq(Int) : \A k, d \in Int :
                     Len(s) = n /\ Changed(s, t, k, d) => Total[t] = Total[s] + d}

\* One element changes.
LEMMA TotalChange ==
    ASSUME NEW s \in Seq(Int), NEW t \in Seq(Int), NEW k \in Int, NEW d \in Int,
           Changed(s, t, k, d)
    PROVE  Total[t] = Total[s] + d
<1>1. 0 \in ChangeHolds
  BY DEF ChangeHolds, Changed
<1>2. ASSUME NEW n \in Nat, n \in ChangeHolds PROVE n + 1 \in ChangeHolds
  <2> SUFFICES ASSUME NEW u \in Seq(Int), NEW v \in Seq(Int), NEW j \in Int, NEW e \in Int,
                      Len(u) = n + 1, Changed(u, v, j, e)
               PROVE  Total[v] = Total[u] + e
    BY DEF ChangeHolds
  <2>0. \A x, y \in Seq(Int) : \A i, m \in Int :
            Len(x) = n /\ Changed(x, y, i, m) => Total[y] = Total[x] + m
    BY <1>2 DEF ChangeHolds
  <2>1. CASE j = 1
    BY <2>1, ChangeFirst
  <2>2. CASE j # 1
    <3>1. /\ u # << >> /\ v # << >> /\ Head(u) = Head(v)
          /\ Tail(u) \in Seq(Int) /\ Tail(v) \in Seq(Int)
          /\ Len(Tail(u)) = Len(u) - 1 /\ Changed(Tail(u), Tail(v), j - 1, e)
      BY <2>2, ChangeLater
    <3>2. Len(Tail(u)) = n /\ j - 1 \in Int
      BY <3>1
    <3>3. Total[Tail(v)] = Total[Tail(u)] + e
      <4>1. PICK x \in Seq(Int), y \in Seq(Int), i \in Int : x = Tail(u) /\ y = Tail(v) /\ i = j - 1
        BY <3>1, <3>2
      <4>2. Changed(x, y, i, e) /\ Len(x) = n
        BY <3>1, <3>2, <4>1
      <4>3. Total[y] = Total[x] + e
        BY <2>0, <4>2
      <4> QED
        BY <4>1, <4>3
    <3> QED
      BY <3>1, <3>3, TotalSameHead
  <2> QED
    BY <2>1, <2>2
<1>3. Nat \subseteq ChangeHolds
  BY <1>1, <1>2, Induction
<1>4. Len(s) \in ChangeHolds
  BY <1>3
<1> QED
  BY <1>4 DEF ChangeHolds

\* A sum of natural numbers, and that it is no less than its first.
LEMMA TotalNatural ==
    ASSUME NEW s \in Seq(Nat)
    PROVE  Total[s] \in Nat /\ s \in Seq(Int)
<1> DEFINE T == {n \in Nat : \A u \in Seq(Nat) : Len(u) = n => Total[u] \in Nat}
<1>1. 0 \in T
  <2>1. \A u \in Seq(Nat) : Len(u) = 0 => u = << >>
    OBVIOUS
  <2> QED
    BY <2>1, TotalDefined
<1>2. ASSUME NEW n \in Nat, n \in T PROVE n + 1 \in T
  <2> SUFFICES ASSUME NEW u \in Seq(Nat), Len(u) = n + 1 PROVE Total[u] \in Nat
    OBVIOUS
  <2>1. u # << >> /\ Tail(u) \in Seq(Nat) /\ Len(Tail(u)) = n /\ Head(u) \in Nat /\ u \in Seq(Int)
    OBVIOUS
  <2>2. Total[Tail(u)] \in Nat
    BY <1>2, <2>1
  <2> QED
    BY <2>1, <2>2, TotalDefined
<1> HIDE DEF T
<1>3. Nat \subseteq T
  BY <1>1, <1>2, Induction
<1>4. Len(s) \in T /\ s \in Seq(Int)
  BY <1>3
<1> QED
  BY <1>4 DEF T

\* Nothing adds up to nothing.
LEMMA TotalNothing ==
    ASSUME NEW s \in Seq(Int), \A i \in 1..Len(s) : s[i] = 0
    PROVE  Total[s] = 0
<1> DEFINE T == {n \in Nat : \A u \in Seq(Int) :
                                 Len(u) = n /\ (\A i \in 1..Len(u) : u[i] = 0) => Total[u] = 0}
<1>1. 0 \in T
  <2>1. \A u \in Seq(Int) : Len(u) = 0 => u = << >>
    OBVIOUS
  <2> QED
    BY <2>1, TotalDefined
<1>2. ASSUME NEW n \in Nat, n \in T PROVE n + 1 \in T
  <2> SUFFICES ASSUME NEW u \in Seq(Int), Len(u) = n + 1, \A i \in 1..Len(u) : u[i] = 0
               PROVE  Total[u] = 0
    OBVIOUS
  <2>1. u # << >> /\ Tail(u) \in Seq(Int) /\ Len(Tail(u)) = n /\ Head(u) = 0
        /\ \A i \in 1..Len(Tail(u)) : Tail(u)[i] = 0
    OBVIOUS
  <2>2. Total[Tail(u)] = 0
    BY <1>2, <2>1
  <2> QED
    BY <2>1, <2>2, TotalDefined
<1> HIDE DEF T
<1>3. Nat \subseteq T
  BY <1>1, <1>2, Induction
<1>4. Len(s) \in T
  BY <1>3
<1> QED
  BY <1>4 DEF T

-----------------------------------------------------------------------------
(* Sums over finite sets. *)

\* Order lists every element once.
LEMMA OrderComplete ==
    ASSUME NEW S, IsFiniteSet(S)
    PROVE  /\ Cardinality(S) \in Nat
           /\ Order(S) \in [1..Cardinality(S) -> S]
           /\ \A i, j \in 1..Cardinality(S) : Order(S)[i] = Order(S)[j] => i = j
           /\ \A x \in S : \E i \in 1..Cardinality(S) : Order(S)[i] = x
<1> DEFINE n == Cardinality(S)
<1>1. n \in Nat /\ ExistsBijection(1..n, S)
  BY FS_CardinalityType
<1>2. PICK e \in [1..n -> S] : \A i, j \in 1..n : e[i] = e[j] => i = j
  BY <1>1 DEF ExistsBijection, Bijection, Injection, Surjection, IsInjective
<1>3. Order(S) \in [1..n -> S] /\ \A i, j \in 1..n : Order(S)[i] = Order(S)[j] => i = j
  BY <1>2 DEF Order
<1>4. Order(S) \in Injection(1..n, S)
  BY <1>3 DEF Injection, IsInjective
<1>5. IsFiniteSet(1..n) /\ Cardinality(1..n) = n
  BY <1>1, FS_Interval
<1>6. Order(S) \in Surjection(1..n, S)
  BY <1>4, <1>5, FS_Injection
<1> QED
  BY <1>1, <1>3, <1>6 DEF Surjection

\* The value of a function at each place of the order.
LEMMA OverType ==
    ASSUME NEW S, IsFiniteSet(S), NEW f \in [S -> Int]
    PROVE  Over(S, f) \in Int
<1> DEFINE s == [i \in 1..Cardinality(S) |-> f[Order(S)[i]]]
<1>1. s \in Seq(Int)
  BY OrderComplete, SMTT(30)
<1> HIDE DEF s
<1>2. Total[s] \in Int
  BY <1>1, TotalDefined
<1> QED
  BY <1>2 DEF s, Over

\* The function changes in one place.
LEMMA OverChange ==
    ASSUME NEW S, IsFiniteSet(S), NEW f \in [S -> Int], NEW g \in [S -> Int],
           NEW x \in S, \A y \in S : y # x => g[y] = f[y],
           NEW d \in Int, g[x] = f[x] + d
    PROVE  Over(S, g) = Over(S, f) + d
<1> DEFINE s == [i \in 1..Cardinality(S) |-> f[Order(S)[i]]]
           t == [i \in 1..Cardinality(S) |-> g[Order(S)[i]]]
<1>1. PICK k \in 1..Cardinality(S) : Order(S)[k] = x
  BY OrderComplete
<1>2. PICK n \in Nat : n = Cardinality(S)
  BY OrderComplete
<1>3. \A i \in 1..n : Order(S)[i] \in S
  BY <1>2, OrderComplete
<1>4. /\ s \in Seq(Int) /\ Len(s) = n /\ s[k] = f[x]
      /\ t \in Seq(Int) /\ Len(t) = n /\ t[k] = g[x]
  <2>1. s \in [1..n -> Int] /\ t \in [1..n -> Int]
    BY <1>2, <1>3
  <2>2. s[k] = f[x] /\ t[k] = g[x]
    BY <1>1
  <2> HIDE DEF s, t
  <2> QED
    BY <2>1, <2>2
<1>5. \A i \in 1..n : i # k => t[i] = s[i]
  <2> TAKE i \in 1..n
  <2> HAVE i # k
  <2>1. Order(S)[i] \in S /\ Order(S)[i] # x
    BY <1>1, <1>2, OrderComplete
  <2> QED
    BY <1>2, <2>1
<1>6. Over(S, f) = Total[s] /\ Over(S, g) = Total[t]
  BY DEF Over
<1>7. k \in 1..n
  BY <1>2
<1> HIDE DEF s, t
<1>8. Changed(s, t, k, d) /\ k \in Int
  BY <1>4, <1>5, <1>7 DEF Changed
<1>9. Total[t] = Total[s] + d
  BY <1>4, <1>8, TotalChange
<1> QED
  BY <1>6, <1>9

\* The function is nothing everywhere, or nowhere negative.
LEMMA OverNothing ==
    ASSUME NEW S, IsFiniteSet(S), NEW f \in [S -> Int], \A x \in S : f[x] = 0
    PROVE  Over(S, f) = 0
<1> DEFINE s == [i \in 1..Cardinality(S) |-> f[Order(S)[i]]]
<1>1. s \in Seq(Int) /\ Len(s) = Cardinality(S) /\ \A i \in 1..Len(s) : s[i] = 0
  BY OrderComplete
<1>2. Over(S, f) = Total[s]
  BY DEF Over
<1> HIDE DEF s
<1> QED
  BY <1>1, <1>2, TotalNothing

LEMMA OverNatural ==
    ASSUME NEW S, IsFiniteSet(S), NEW f \in [S -> Nat]
    PROVE  Over(S, f) \in Nat
<1> DEFINE s == [i \in 1..Cardinality(S) |-> f[Order(S)[i]]]
<1>1. s \in Seq(Nat)
  BY OrderComplete
<1>2. Over(S, f) = Total[s]
  BY DEF Over
<1> HIDE DEF s
<1> QED
  BY <1>1, <1>2, TotalNatural

-----------------------------------------------------------------------------
(* Functions defined by recursion over the places of a sequence. *)

\* f begins with base, and step leads from each of its values to the next.
IsRecursion(f, N, V, base, step) ==
    /\ f \in [0..N -> V] /\ f[0] = base
    /\ \A n \in 1..N : f[n] = step[n][f[n - 1]]

\* There is one for each beginning and each step.
LEMMA Recursion ==
    ASSUME NEW N \in Nat, NEW V, NEW base \in V, NEW step \in [1..N -> [V -> V]]
    PROVE  \E f : IsRecursion(f, N, V, base, step)
<1> DEFINE Is(f, k) == IsRecursion(f, k, V, base, step)
           T == {k \in Nat : k <= N => \E f : Is(f, k)}
<1>1. 0 \in T
  <2>1. Is([n \in 0..0 |-> base], 0)
    BY DEF IsRecursion
  <2> QED
    BY <2>1
<1>2. ASSUME NEW k \in Nat, k \in T PROVE k + 1 \in T
  <2> SUFFICES ASSUME k + 1 <= N PROVE \E f : Is(f, k + 1)
    OBVIOUS
  <2>1. PICK f : Is(f, k)
    BY <1>2
  <2> DEFINE g == [n \in 0..k + 1 |-> IF n = k + 1 THEN step[k + 1][f[k]] ELSE f[n]]
  <2>2. step[k + 1][f[k]] \in V
    BY <2>1 DEF IsRecursion
  <2>3. g \in [0..k + 1 -> V] /\ g[0] = base
    BY <2>1, <2>2 DEF IsRecursion
  <2>4. ASSUME NEW n \in 1..k + 1 PROVE g[n] = step[n][g[n - 1]]
    <3>1. g[n - 1] = f[n - 1]
      OBVIOUS
    <3>2. CASE n = k + 1
      <4>1. n - 1 = k /\ k + 1 \in 0..k + 1
        BY <3>2
      <4>2. g[k + 1] = step[k + 1][f[k]]
        BY <4>1
      <4> HIDE DEF g
      <4> QED
        BY <3>1, <3>2, <4>1, <4>2
    <3>3. CASE n # k + 1
      <4>1. n \in 1..k /\ g[n] = f[n]
        BY <3>3
      <4> QED
        BY <2>1, <3>1, <4>1 DEF IsRecursion
    <3> QED
      BY <3>2, <3>3
  <2> HIDE DEF g
  <2>5. Is(g, k + 1)
    BY <2>3, <2>4 DEF IsRecursion
  <2> QED
    BY <2>5
<1> HIDE DEF T
<1>3. Nat \subseteq T
  BY <1>1, <1>2, Induction
<1>4. N \in T
  BY <1>3
<1> QED
  BY <1>4 DEF T

\* Two that take the same steps are the same.
LEMMA RecursionAgrees ==
    ASSUME NEW N \in Nat, NEW f, NEW g, f[0] = g[0],
           \A n \in 1..N : f[n - 1] = g[n - 1] => f[n] = g[n]
    PROVE  \A n \in 0..N : f[n] = g[n]
<1> DEFINE T == {k \in Nat : k <= N => f[k] = g[k]}
<1>1. 0 \in T
  OBVIOUS
<1>2. ASSUME NEW k \in Nat, k \in T PROVE k + 1 \in T
  <2>1. CASE k + 1 <= N
    <3>1. k + 1 \in 1..N /\ f[k] = g[k] /\ (k + 1) - 1 = k
      BY <1>2, <2>1
    <3>2. f[k + 1] = g[k + 1]
      BY <3>1
    <3> QED
      BY <3>2
  <2> QED
    BY <2>1
<1> HIDE DEF T
<1>3. Nat \subseteq T
  BY <1>1, <1>2, Induction
<1> QED
  BY <1>3 DEF T
=============================================================================
