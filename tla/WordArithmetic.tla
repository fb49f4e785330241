--------------------------- MODULE WordArithmetic ---------------------------
(***************************************************************************)
(* Facts about remainders that the index arithmetic of the ring buffer and *)
(* of the choice of a client rests on: unsigned indices that wrap around   *)
(* at M, used modulo a size S that divides M.  At the end, what stands in  *)
(* for induction in the proofs: least elements, and sequences of iterates. *)
(***************************************************************************)
EXTENDS Integers, WellFoundedInduction, TLAPS

Divides(S, M) == \E f \in Int : M = f * S

(* Multiplication distributes; stated so that it can be cited.             *)
LEMMA Distribute ==
    ASSUME NEW s \in Int, NEW x \in Int, NEW y \in Int
    PROVE  s * (x + y) = s * x + s * y
  OBVIOUS

(* Factors can be regrouped.                                               *)
LEMMA Regroup ==
    ASSUME NEW s \in Int, NEW q \in Int, NEW c \in Int
    PROVE  (q * s) * c = s * (q * c) /\ q * c \in Int
  OBVIOUS

(* A quotient and a remainder exist.                                       *)
LEMMA DivMod ==
    ASSUME NEW a \in Int, NEW b \in Nat \ {0}
    PROVE  /\ (a % b) \in 0 .. (b - 1)
           /\ \E q \in Int : a = b * q + (a % b)
<1>1. a \div b \in Int /\ a = b * (a \div b) + (a % b)
  OBVIOUS
<1>2. (a % b) \in 0 .. (b - 1)
  OBVIOUS
<1> QED
  BY <1>1, <1>2

(* The remainder is unique.                                                *)
LEMMA ModUnique ==
    ASSUME NEW b \in Nat \ {0}, NEW q \in Int, NEW r \in 0 .. (b - 1)
    PROVE  (b * q + r) % b = r
  OBVIOUS

(* A word that is in range is its own remainder.                           *)
LEMMA ModSmall ==
    ASSUME NEW b \in Nat \ {0}, NEW a \in 0 .. (b - 1)
    PROVE  (a % b) = a
  OBVIOUS

(* Both facts at once, with names for the quotient and the remainder.      *)
LEMMA Remainder ==
    ASSUME NEW a \in Int, NEW b \in Nat \ {0}
    PROVE  \E q \in Int, r \in 0 .. (b - 1) : a = b * q + r /\ a % b = r
  BY DivMod, Zenon

(* Multiples of the modulus do not matter.                                 *)
LEMMA ModAddMultiple ==
    ASSUME NEW b \in Nat \ {0}, NEW a \in Int, NEW c \in Int
    PROVE  (a + b * c) % b = a % b
<1>1. PICK q \in Int, r \in 0 .. (b - 1) : a = b * q + r /\ a % b = r
  BY Remainder, Zenon
<1>2. a + b * c = b * (q + c) + r
  BY <1>1, Distribute
<1>3. a + b * c \in Int /\ q + c \in Int
  OBVIOUS
<1>4. (b * (q + c) + r) % b = r
  BY <1>3, ModUnique, Zenon
<1> QED
  BY <1>1, <1>2, <1>4, Zenon

(* Reducing modulo a multiple of the block size first changes nothing.     *)
LEMMA ModMod ==
    ASSUME NEW S \in Nat \ {0}, NEW M \in Nat \ {0}, Divides(S, M),
           NEW a \in Int
    PROVE  (a % M) % S = a % S
<1>f. PICK f \in Int : M = f * S
  BY Zenon DEF Divides
<1>1. PICK c \in Int, r \in 0 .. (M - 1) : a = M * c + r /\ a % M = r
  BY Remainder, Zenon
<1>2. M * c = S * (f * c) /\ f * c \in Int
  BY <1>f, Regroup
<1>3. a = r + S * (f * c) /\ r \in Int
  BY <1>1, <1>2
<1>4. (r + S * (f * c)) % S = r % S
  BY <1>2, <1>3, ModAddMultiple, Zenon
<1> QED
  BY <1>1, <1>3, <1>4, Zenon

(* The same for an index that was reduced and then moved on by k.          *)
LEMMA ModModAdd ==
    ASSUME NEW S \in Nat \ {0}, NEW M \in Nat \ {0}, Divides(S, M),
           NEW a \in Int, NEW k \in Int
    PROVE  ((a % M) + k) % S = (a + k) % S
<1>f. PICK f \in Int : M = f * S
  BY Zenon DEF Divides
<1>1. PICK c \in Int, r \in 0 .. (M - 1) : a = M * c + r /\ a % M = r
  BY Remainder, Zenon
<1>2. M * c = S * (f * c) /\ f * c \in Int
  BY <1>f, Regroup
<1>3. a + k = (r + k) + S * (f * c) /\ r + k \in Int
  BY <1>1, <1>2
<1>4. ((r + k) + S * (f * c)) % S = (r + k) % S
  BY <1>2, <1>3, ModAddMultiple, Zenon
<1> QED
  BY <1>1, <1>3, <1>4, Zenon

(* Within one turn around the block, different offsets are different cells. *)
LEMMA ModInjective ==
    ASSUME NEW S \in Nat \ {0}, NEW x \in Int,
           NEW i \in 0 .. (S - 1), NEW j \in 0 .. (S - 1), i # j
    PROVE  (x + i) % S # (x + j) % S
<1>1. x + i \in Int /\ x + j \in Int
  OBVIOUS
<1>2. PICK p \in Int, r \in 0 .. (S - 1) : x + i = S * p + r /\ (x + i) % S = r
  BY <1>1, Remainder, Zenon
<1>3. PICK q \in Int, t \in 0 .. (S - 1) : x + j = S * q + t /\ (x + j) % S = t
  BY <1>1, Remainder, Zenon
<1>4. r # t
  <2> SUFFICES ASSUME r = t PROVE FALSE
    OBVIOUS
  <2>1. S * (p + (- q)) = S * p + S * (- q) /\ S * (- q) = - (S * q)
    BY Distribute
  <2>2. i - j = S * (p + (- q))
    BY <1>2, <1>3, <2>1
  <2>3. i - j < S /\ i - j > - S /\ i - j # 0
    OBVIOUS
  <2> QED
    BY <2>2, <2>3
<1> QED
  BY <1>2, <1>3, <1>4, Zenon

-----------------------------------------------------------------------------
(* The distance between two indices that wrap around at M.                 *)

(* Advancing the leading index by n lengthens the distance by n, as long   *)
(* as it stays below M.                                                    *)
LEMMA AdvanceIn ==
    ASSUME NEW M \in Nat \ {0}, NEW in \in Int, NEW out \in Int, NEW n \in Nat,
           ((in - out) % M) + n < M
    PROVE  (((in + n) % M) - out) % M = ((in - out) % M) + n
<1> DEFINE u == (in - out) % M
<1>0. u = (in - out) % M
  BY Zenon
<1>h. u + n < M
  BY Zenon
<1> HIDE DEF u
<1>1. in - out \in Int /\ in + n \in Int
  OBVIOUS
<1>2. PICK q \in Int, t \in 0 .. (M - 1) : in - out = M * q + t /\ (in - out) % M = t
  BY <1>1, Remainder, Zenon
<1>3. PICK p \in Int, v \in 0 .. (M - 1) : in + n = M * p + v /\ (in + n) % M = v
  BY <1>1, Remainder, Zenon
<1>4. u = t
  BY <1>0, <1>2, Zenon
<1>5. M * (q + (- p)) = M * q + M * (- p) /\ M * (- p) = - (M * p)
  BY Distribute
<1>6. v - out = M * (q + (- p)) + (u + n)
  BY <1>2, <1>3, <1>4, <1>5
<1>7. u + n \in 0 .. (M - 1) /\ v - out \in Int /\ q + (- p) \in Int
  BY <1>h, <1>4
<1>8. (M * (q + (- p)) + (u + n)) % M = u + n
  BY <1>7, ModUnique, Zenon
<1> QED
  BY <1>0, <1>3, <1>6, <1>8, Zenon

(* Advancing the trailing index by n shortens the distance by n.           *)
LEMMA AdvanceOut ==
    ASSUME NEW M \in Nat \ {0}, NEW in \in Int, NEW out \in Int, NEW n \in Nat,
           n <= (in - out) % M
    PROVE  (in - ((out + n) % M)) % M = ((in - out) % M) - n
<1> DEFINE u == (in - out) % M
<1>0. u = (in - out) % M
  BY Zenon
<1>h. n <= u
  BY Zenon
<1> HIDE DEF u
<1>1. in - out \in Int /\ out + n \in Int
  OBVIOUS
<1>2. PICK q \in Int, t \in 0 .. (M - 1) : in - out = M * q + t /\ (in - out) % M = t
  BY <1>1, Remainder, Zenon
<1>3. PICK p \in Int, v \in 0 .. (M - 1) : out + n = M * p + v /\ (out + n) % M = v
  BY <1>1, Remainder, Zenon
<1>4. u = t
  BY <1>0, <1>2, Zenon
<1>5. M * (q + p) = M * q + M * p
  BY Distribute
<1>6. in - v = M * (q + p) + (u - n)
  BY <1>2, <1>3, <1>4, <1>5
<1>7. u - n \in 0 .. (M - 1) /\ in - v \in Int /\ q + p \in Int
  BY <1>h, <1>4
<1>8. (M * (q + p) + (u - n)) % M = u - n
  BY <1>7, ModUnique, Zenon
<1> QED
  BY <1>0, <1>3, <1>6, <1>8, Zenon

(* The free space is the size less the distance, whatever the wrapping.    *)
LEMMA FreeSpace ==
    ASSUME NEW M \in Nat \ {0}, NEW in \in Int, NEW out \in Int,
           NEW S \in 0 .. (M - 1), (in - out) % M <= S
    PROVE  (S - in + out) % M = S - ((in - out) % M)
<1> DEFINE u == (in - out) % M
<1>0. u = (in - out) % M
  BY Zenon
<1>h. u <= S
  BY Zenon
<1> HIDE DEF u
<1>1. in - out \in Int
  OBVIOUS
<1>2. PICK q \in Int, t \in 0 .. (M - 1) : in - out = M * q + t /\ (in - out) % M = t
  BY <1>1, Remainder, Zenon
<1>3. u = t
  BY <1>0, <1>2, Zenon
<1>4. M * (- q) = - (M * q)
  OBVIOUS
<1>5. S - in + out = M * (- q) + (S - u)
  BY <1>2, <1>3, <1>4
<1>6. S - u \in 0 .. (M - 1) /\ S - in + out \in Int /\ - q \in Int
  BY <1>h, <1>3
<1>7. (M * (- q) + (S - u)) % M = S - u
  BY <1>6, ModUnique, Zenon
<1> QED
  BY <1>0, <1>5, <1>7, Zenon

(* The cell of the leading index is found by counting the distance from    *)
(* the trailing one.                                                       *)
LEMMA CellFromOut ==
    ASSUME NEW S \in Nat \ {0}, NEW M \in Nat \ {0}, Divides(S, M),
           NEW in \in Int, NEW out \in Int, NEW k \in Int
    PROVE  (in + k) % S = (out + (((in - out) % M) + k)) % S
<1>f. PICK f \in Int : M = f * S
  BY Zenon DEF Divides
<1> DEFINE u == (in - out) % M
<1>0. u = (in - out) % M
  BY Zenon
<1> HIDE DEF u
<1>1. in - out \in Int
  OBVIOUS
<1>2. PICK q \in Int, t \in 0 .. (M - 1) : in - out = M * q + t /\ (in - out) % M = t
  BY <1>1, Remainder, Zenon
<1>3. u = t
  BY <1>0, <1>2, Zenon
<1>4. M * q = S * (f * q) /\ f * q \in Int
  BY <1>f, Regroup
<1>5. in + k = (out + (u + k)) + S * (f * q)
  BY <1>2, <1>3, <1>4
<1>6. out + (u + k) \in Int
  BY <1>3
<1>7. ((out + (u + k)) + S * (f * q)) % S = (out + (u + k)) % S
  BY <1>4, <1>6, ModAddMultiple, Zenon
<1> QED
  BY <1>0, <1>5, <1>7, Zenon

(* Splitting a copy at the end of the block is stepping modulo its size.   *)
LEMMA SplitCopy ==
    ASSUME NEW S \in Nat \ {0}, NEW x \in Int,
           NEW n \in 0 .. S, NEW k \in 0 .. (n - 1)
    PROVE  LET l == IF n <= S - (x % S) THEN n ELSE S - (x % S)
           IN  (IF k < l THEN (x % S) + k ELSE k - l) = (x + k) % S
<1> DEFINE o == x % S
           l == IF n <= S - o THEN n ELSE S - o
<1> SUFFICES (IF k < l THEN o + k ELSE k - l) = (x + k) % S
  BY Zenon
<1>0. x % S = o
  BY Zenon
<1> HIDE DEF o
<1>1. PICK q \in Int, t \in 0 .. (S - 1) : x = S * q + t /\ x % S = t
  BY Remainder, Zenon
<1>2. o = t
  BY <1>0, <1>1, Zenon
<1>3. x + k \in Int /\ q + 1 \in Int /\ S * (q + 1) = S * q + S
  OBVIOUS
<1>4. CASE k < l
  <2>1. x + k = S * q + (o + k) /\ o + k \in 0 .. (S - 1)
    BY <1>1, <1>2, <1>4
  <2>2. (S * q + (o + k)) % S = o + k
    BY <2>1, ModUnique, Zenon
  <2> QED
    BY <1>4, <2>1, <2>2, Zenon
<1>5. CASE ~ (k < l)
  <2>1. x + k = S * (q + 1) + (k - l) /\ k - l \in 0 .. (S - 1)
    BY <1>1, <1>2, <1>3, <1>5
  <2>2. (S * (q + 1) + (k - l)) % S = k - l
    BY <1>3, <2>1, ModUnique, Zenon
  <2> QED
    BY <1>5, <2>1, <2>2, Zenon
<1> QED
  BY <1>4, <1>5

(* A set of natural numbers has a least element.                           *)
LEMMA LeastElement ==
    ASSUME NEW T, T \subseteq Nat, T # {}
    PROVE  \E x \in T : \A y \in T : x <= y
<1> DEFINE R == {ss \in Nat \X Nat : ss[1] < ss[2]}
<1>1. IsWellFoundedOn(R, Nat)
  BY NatLessThanWellFounded DEF OpToRel
<1>2. \A a, b \in Nat : a < b => <<a, b>> \in R
  OBVIOUS
<1> HIDE DEF R
<1>3. PICK x \in T : \A y \in T : <<y, x>> \notin R
  BY <1>1, WFMin, Zenon
<1>4. \A y \in T : x <= y
  <2> TAKE y \in T
  <2>1. x \in Nat /\ y \in Nat
    OBVIOUS
  <2>2. ~ (y < x)
    BY <1>2, <1>3, <2>1, Zenon
  <2> QED
    BY <2>1, <2>2
<1> QED
  BY <1>4

\* f starts at a, and each of its elements is step of the one before
Iterates(f, A, a, step) ==
    f \in [Nat -> A] /\ f[0] = a /\ \A n \in Nat : f[n + 1] = step[f[n]]

\* every step on a set can be iterated from every element of it
LEMMA Iteration ==
    ASSUME NEW A, NEW a \in A, NEW step \in [A -> A]
    PROVE  \E f : Iterates(f, A, a, step)
<1> DEFINE Good(n, f) == f \in [0 .. n -> A] /\ f[0] = a /\ \A i \in 0 .. n - 1 : f[i + 1] = step[f[i]]
<1>1. \A n \in Nat : \E f : Good(n, f)
  <2> DEFINE Bad == {n \in Nat : ~ \E f : Good(n, f)}
  <2>1. SUFFICES ASSUME Bad # {} PROVE FALSE
    OBVIOUS
  <2>2. PICK n \in Bad : \A k \in Bad : n <= k
    BY <2>1, LeastElement
  <2>3. Good(0, [i \in 0 .. 0 |-> a])
    OBVIOUS
  <2>4. n # 0
    BY <2>2, <2>3
  <2>5. n - 1 \in Nat /\ n - 1 \notin Bad
    <3>1. n \in Nat
      BY <2>2
    <3> HIDE DEF Bad
    <3> QED
      BY <2>2, <2>4, <3>1
  <2>6. PICK f : Good(n - 1, f)
    BY <2>5
  <2>7. Good(n, [i \in 0 .. n |-> IF i < n THEN f[i] ELSE step[f[n - 1]]])
    <3> DEFINE g == [i \in 0 .. n |-> IF i < n THEN f[i] ELSE step[f[n - 1]]]
    <3>1. f \in [0 .. n - 1 -> A] /\ f[0] = a /\ \A i \in 0 .. (n - 1) - 1 : f[i + 1] = step[f[i]]
      BY <2>6
    <3>2. step[f[n - 1]] \in A
      BY <2>5, <3>1
    <3>3. g \in [0 .. n -> A]
      BY <2>5, <3>1, <3>2
    <3>4. g[0] = a
      BY <2>4, <2>5, <3>1
    <3>5. ASSUME NEW i \in 0 .. n - 1 PROVE g[i + 1] = step[g[i]]
      <4>1. CASE i = n - 1
        BY <2>5, <4>1
      <4>2. CASE i < n - 1
        BY <2>5, <3>1, <4>2
      <4> QED
        BY <2>5, <4>1, <4>2
    <3> QED
      BY <3>3, <3>4, <3>5
  <2> QED
    BY <2>2, <2>7
<1>2. ASSUME NEW m \in Nat, NEW k \in 0 .. m, NEW f, NEW g, Good(k, f), Good(m, g) PROVE f[k] = g[k]
  <2> DEFINE Bad == {i \in 0 .. k : f[i] # g[i]}
  <2>1. SUFFICES ASSUME Bad # {} PROVE FALSE
    OBVIOUS
  <2>2. PICK i \in Bad : \A j \in Bad : i <= j
    <3>1. Bad \subseteq Nat
      OBVIOUS
    <3> HIDE DEF Bad
    <3> QED
      BY <2>1, <3>1, LeastElement
  <2>3. i # 0
    BY <1>2, <2>2
  <2>4. i - 1 \in 0 .. k - 1 /\ i - 1 \in 0 .. m - 1 /\ (i - 1) + 1 = i /\ f[i - 1] = g[i - 1]
    BY <2>2, <2>3
  <2>5. f[i] = step[f[i - 1]] /\ g[i] = step[g[i - 1]]
    BY <1>2, <2>4
  <2> QED
    BY <2>2, <2>4, <2>5
<1> DEFINE Pick(n) == CHOOSE f : Good(n, f)
           F == [n \in Nat |-> Pick(n)[n]]
<1>3. \A n \in Nat : Good(n, Pick(n))
  BY <1>1
<1> HIDE DEF Pick
<1>4. F \in [Nat -> A] /\ F[0] = a
  BY <1>3
<1>5. ASSUME NEW n \in Nat PROVE F[n + 1] = step[F[n]]
  <2>1. Good(n + 1, Pick(n + 1)) /\ Good(n, Pick(n)) /\ n + 1 \in Nat
    BY <1>3
  <2>2. Pick(n)[n] = Pick(n + 1)[n]
    <3> HIDE DEF Good
    <3> QED
      BY <1>2, <2>1
  <2>3. Pick(n + 1)[n + 1] = step[Pick(n + 1)[n]]
    BY <2>1
  <2> QED
    BY <2>2, <2>3
<1>6. Iterates(F, A, a, step)
  BY <1>4, <1>5 DEF Iterates
<1> QED
  BY <1>6

=============================================================================
