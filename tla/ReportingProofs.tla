---- MODULE ReportingProofs ----
(***************************************************************************)
(* The reporting views, for any rows that the trackers may have written:   *)
(* what they charge is what was seen, and every cut keeps the total.       *)
(***************************************************************************)
EXTENDS Reporting, FiniteSetTheorems, TLAPS

----
(* The least and the greatest of a finite set. *)

\* Natural numbers, some: there is a least.
LEMMA LeastNat ==
  ASSUME NEW S \in SUBSET Nat, S # {}
  PROVE  \E n \in S : \A m \in S : n <= m
<1> DEFINE R == OpToRel(<, Nat)
<1>1. IsWellFoundedOn(R, Nat)
  BY NatLessThanWellFounded
<1>2. \A x, y \in Nat : <<x, y>> \in R <=> x < y
  BY DEF OpToRel
<1> HIDE DEF R
<1>3. PICK n \in S : \A m \in S : ~(<<m, n>> \in R)
  BY <1>1, WFMin
<1>4. ASSUME NEW m \in S PROVE n <= m
  <2>1. m \in Nat /\ n \in Nat
    OBVIOUS
  <2>2. ~(<<m, n>> \in R)
    BY <1>3
  <2>3. ~(m < n)
    BY <1>2, <2>1, <2>2
  <2>4. QED
    BY <2>1, <2>3
<1>5. QED
  BY <1>4

\* Max of a finite set of integers is its greatest.
LEMMA MaxIs ==
  ASSUME NEW S \in SUBSET Int, IsFiniteSet(S), S # {}
  PROVE  Max(S) \in S /\ \A y \in S : Max(S) >= y
<1> DEFINE Above(x) == {y \in S : y > x}
           C == {Cardinality(Above(x)) : x \in S}
<1>1. \A x \in S : IsFiniteSet(Above(x)) /\ Cardinality(Above(x)) \in Nat
  BY FS_Subset, FS_CardinalityType
<1>2. C \in SUBSET Nat /\ C # {}
  BY <1>1
<1>3. PICK n \in C : \A m \in C : n <= m
  BY <1>2, LeastNat
<1>4. PICK x \in S : Cardinality(Above(x)) = n
  BY <1>3
<1>5. ASSUME NEW y \in S, y > x PROVE FALSE
  <2>0. x \in Int /\ y \in Int /\ y \in Above(x) /\ y \notin Above(y)
    BY <1>5
  <2>1. Above(y) \in SUBSET Above(x) /\ Above(y) # Above(x)
    <3>1. \A z \in S : z > y => z > x
      BY <1>5, <2>0
    <3>2. QED
      BY <2>0, <3>1
  <2>2. Cardinality(Above(y)) <= Cardinality(Above(x)) /\ Cardinality(Above(y)) # Cardinality(Above(x))
    BY <1>1, <2>1, FS_Subset
  <2>3. Cardinality(Above(x)) <= Cardinality(Above(y))
    BY <1>3, <1>4
  <2>4. Cardinality(Above(x)) \in Nat /\ Cardinality(Above(y)) \in Nat
    BY <1>1
  <2>5. QED
    BY <2>2, <2>3, <2>4
<1>6. \A y \in S : x >= y
  BY <1>5
<1>7. QED
  BY <1>6 DEF Max

\* Min of a finite set of integers is its least.
LEMMA MinIs ==
  ASSUME NEW S \in SUBSET Int, IsFiniteSet(S), S # {}
  PROVE  Min(S) \in S /\ \A y \in S : Min(S) <= y
<1> DEFINE Below(x) == {y \in S : y < x}
           C == {Cardinality(Below(x)) : x \in S}
<1>1. \A x \in S : IsFiniteSet(Below(x)) /\ Cardinality(Below(x)) \in Nat
  BY FS_Subset, FS_CardinalityType
<1>2. C \in SUBSET Nat /\ C # {}
  BY <1>1
<1>3. PICK n \in C : \A m \in C : n <= m
  BY <1>2, LeastNat
<1>4. PICK x \in S : Cardinality(Below(x)) = n
  BY <1>3
<1>5. ASSUME NEW y \in S, y < x PROVE FALSE
  <2>0. x \in Int /\ y \in Int /\ y \in Below(x) /\ y \notin Below(y)
    BY <1>5
  <2>1. Below(y) \in SUBSET Below(x) /\ Below(y) # Below(x)
    <3>1. \A z \in S : z < y => z < x
      BY <1>5, <2>0
    <3>2. QED
      BY <2>0, <3>1
  <2>2. Cardinality(Below(y)) <= Cardinality(Below(x)) /\ Cardinality(Below(y)) # Cardinality(Below(x))
    BY <1>1, <2>1, FS_Subset
  <2>3. Cardinality(Below(x)) <= Cardinality(Below(y))
    BY <1>3, <1>4
  <2>4. Cardinality(Below(x)) \in Nat /\ Cardinality(Below(y)) \in Nat
    BY <1>1
  <2>5. QED
    BY <2>2, <2>3, <2>4
<1>6. \A y \in S : x <= y
  BY <1>5
<1>7. QED
  BY <1>6 DEF Min

----
(* Sums of lengths. *)

\* The units that the lengths f of S are made of.
Spread(S, f) == UNION {{s} \X (1..f[s]) : s \in S}

\* What is in the units of some lengths.
LEMMA InSpread ==
  ASSUME NEW S, NEW f
  PROVE  /\ \A s \in S : \A k \in 1..f[s] : <<s, k>> \in Spread(S, f)
         /\ \A x \in Spread(S, f) : x[1] \in S /\ x[2] \in 1..f[x[1]] /\ x = <<x[1], x[2]>>
         /\ \A s, k : <<s, k>> \in Spread(S, f) => s \in S /\ k \in 1..f[s]
BY DEF Spread

\* The parts of a set that is cut into disjoint ones add up to it.
LEMMA Partition ==
  ASSUME NEW S, NEW P, NEW f,
         IsFiniteSet(S),
         \A s \in S : IsFiniteSet(P[s]) /\ f[s] = Cardinality(P[s]),
         \A s, r \in S : s # r => P[s] \cap P[r] = {}
  PROVE  /\ IsFiniteSet(UNION {P[s] : s \in S})
         /\ Cardinality(Spread(S, f)) = Cardinality(UNION {P[s] : s \in S})
<1> DEFINE B == [s \in S |-> CHOOSE b : b \in Bijection(1..f[s], P[s])]
           U == UNION {P[s] : s \in S}
           m == [x \in Spread(S, f) |-> B[x[1]][x[2]]]
<1>1. \A s \in S : B[s] \in Bijection(1..f[s], P[s])
  BY FS_CardinalityType DEF ExistsBijection
<1>2. \A s \in S : /\ B[s] \in [1..f[s] -> P[s]]
                   /\ \A j, k \in 1..f[s] : B[s][j] = B[s][k] => j = k
                   /\ \A u \in P[s] : \E k \in 1..f[s] : B[s][k] = u
  <2> HIDE DEF B
  <2> TAKE s \in S
  <2>1. B[s] \in [1..f[s] -> P[s]] /\ IsInjective(B[s]) /\ \A u \in P[s] : \E k \in 1..f[s] : B[s][k] = u
    BY <1>1 DEF Bijection, Injection, Surjection
  <2>2. DOMAIN B[s] = 1..f[s]
    BY <2>1
  <2>3. QED
    BY <2>1, <2>2 DEF IsInjective
<1> HIDE DEF B
<1>3. m \in [Spread(S, f) -> U]
  <2>1. ASSUME NEW x \in Spread(S, f) PROVE B[x[1]][x[2]] \in U
    <3>1. x[1] \in S /\ x[2] \in 1..f[x[1]]
      BY InSpread
    <3>2. B[x[1]][x[2]] \in P[x[1]]
      BY <1>2, <3>1
    <3>3. QED
      BY <3>1, <3>2
  <2>2. QED
    BY <2>1
<1>4. \A x, y \in Spread(S, f) : m[x] = m[y] => x = y
  <2> SUFFICES ASSUME NEW x \in Spread(S, f), NEW y \in Spread(S, f), B[x[1]][x[2]] = B[y[1]][y[2]]
               PROVE  x = y
    OBVIOUS
  <2>1. /\ x[1] \in S /\ x[2] \in 1..f[x[1]] /\ x = <<x[1], x[2]>>
        /\ y[1] \in S /\ y[2] \in 1..f[y[1]] /\ y = <<y[1], y[2]>>
    BY InSpread
  <2>2. x[1] = y[1]
    <3>1. B[x[1]][x[2]] \in P[x[1]] /\ B[y[1]][y[2]] \in P[y[1]]
      BY <1>2, <2>1
    <3>2. QED
      BY <2>1, <3>1
  <2>3. x[2] = y[2]
    BY <1>2, <2>1, <2>2
  <2>4. QED
    BY <2>1, <2>2, <2>3
<1>5. \A u \in U : \E x \in Spread(S, f) : m[x] = u
  <2> SUFFICES ASSUME NEW u \in U PROVE \E x \in Spread(S, f) : m[x] = u
    OBVIOUS
  <2>1. PICK s \in S : u \in P[s]
    OBVIOUS
  <2>2. PICK k \in 1..f[s] : B[s][k] = u
    BY <1>2, <2>1
  <2>3. <<s, k>> \in Spread(S, f) /\ m[<<s, k>>] = u
    BY <2>2, InSpread
  <2>4. QED
    BY <2>3
<1>6. m \in Bijection(Spread(S, f), U)
  BY <1>3, <1>4, <1>5 DEF Bijection, Injection, Surjection, IsInjective
<1>7. IsFiniteSet(U)
  <2> DEFINE T == {P[s] : s \in S}
             g == [s \in S |-> P[s]]
  <2>1. g \in Surjection(S, T)
    BY DEF Surjection
  <2>2. IsFiniteSet(T)
    BY <2>1, FS_Surjection
  <2>3. \A t \in T : IsFiniteSet(t)
    OBVIOUS
  <2>4. QED
    BY <2>2, <2>3, FS_UNION
<1>8. IsFiniteSet(Spread(S, f))
  BY <1>6, <1>7, FS_Injection DEF Bijection
<1>9. QED
  BY <1>6, <1>7, <1>8, FS_Bijection DEF ExistsBijection

\* So do pieces of n units each, with what they leave out.
LEMMA Cover ==
  ASSUME NEW B, NEW A, NEW n \in Nat, NEW X,
         IsFiniteSet(B),
         \A b \in B : A[b] \in Int,
         X \subseteq UNION {A[b]..(A[b] + n - 1) : b \in B}
  PROVE  IsFiniteSet(X) /\ Cardinality(X) <= n * Cardinality(B)
<1> DEFINE U == UNION {A[b]..(A[b] + n - 1) : b \in B}
           m == [x \in B \X (1..n) |-> A[x[1]] + x[2] - 1]
<1>1. m \in [B \X (1..n) -> U]
  <2>1. ASSUME NEW x \in B \X (1..n) PROVE A[x[1]] + x[2] - 1 \in U
    <3>1. x[1] \in B /\ x[2] \in 1..n /\ A[x[1]] \in Int
      OBVIOUS
    <3>2. A[x[1]] + x[2] - 1 \in A[x[1]]..(A[x[1]] + n - 1)
      BY <3>1
    <3>3. QED
      BY <3>1, <3>2
  <2>2. QED
    BY <2>1
<1>2. ASSUME NEW u \in U PROVE \E x \in B \X (1..n) : m[x] = u
  <2>1. PICK b \in B : u \in A[b]..(A[b] + n - 1)
    OBVIOUS
  <2>2. u - A[b] + 1 \in 1..n /\ A[b] + (u - A[b] + 1) - 1 = u
    BY <2>1
  <2>3. <<b, u - A[b] + 1>> \in B \X (1..n)
    BY <2>2
  <2>4. QED
    BY <2>2, <2>3
<1>3. m \in Surjection(B \X (1..n), U)
  BY <1>1, <1>2 DEF Surjection
<1>4. /\ IsFiniteSet(B \X (1..n))
      /\ Cardinality(B \X (1..n)) = Cardinality(B) * n
  <2>1. IsFiniteSet(1..n) /\ Cardinality(1..n) = n
    BY FS_Interval
  <2>2. QED
    BY <2>1, FS_Product
<1>5. IsFiniteSet(U) /\ Cardinality(U) <= Cardinality(B) * n
  BY <1>3, <1>4, FS_Surjection
<1>6. IsFiniteSet(X) /\ Cardinality(X) <= Cardinality(U)
  BY <1>5, FS_Subset
<1>7. Cardinality(X) \in Nat /\ Cardinality(U) \in Nat /\ Cardinality(B) \in Nat
  BY <1>5, <1>6, FS_CardinalityType
<1>8. Cardinality(B) * n = n * Cardinality(B) /\ n * Cardinality(B) \in Nat
  BY <1>7
<1>9. QED
  BY <1>5, <1>6, <1>7, <1>8

\* The image of a finite set is finite.
LEMMA FiniteImage ==
  ASSUME NEW S, NEW f, IsFiniteSet(S)
  PROVE  IsFiniteSet({f[s] : s \in S})
<1>1. [s \in S |-> f[s]] \in Surjection(S, {f[s] : s \in S})
  BY DEF Surjection
<1>2. QED
  BY <1>1, FS_Surjection

----
(* The rows of a source. *)

IsRows(r) == r \in [DOMAIN r -> BOOLEAN] /\ DOMAIN r \in SUBSET Nat /\ IsFiniteSet(DOMAIN r)

\* The row of t is the latest one at u.
IsLatest(r, t, u) == t \in DOMAIN r /\ t <= u /\ \A w \in DOMAIN r : w <= u => w <= t

\* Only one row is the latest at an instant.
LEMMA OneLatest ==
  ASSUME NEW r, IsRows(r), NEW u \in Int, NEW s, NEW t, IsLatest(r, s, u), IsLatest(r, t, u)
  PROVE  s = t
<1>1. s \in Nat /\ t \in Nat /\ s <= t /\ t <= s
  BY DEF IsLatest, IsRows
<1>2. QED
  BY <1>1

\* After a row there is a latest row.
LEMMA SomeLatest ==
  ASSUME NEW r, IsRows(r), NEW u \in Int, NEW w \in DOMAIN r, w <= u
  PROVE  /\ IsLatest(r, Max({t \in DOMAIN r : t <= u}), u)
         /\ \E t \in DOMAIN r : IsLatest(r, t, u)
<1> DEFINE S == {t \in DOMAIN r : t <= u}
<1>1. S \in SUBSET Int /\ IsFiniteSet(S) /\ S # {}
  BY FS_Subset DEF IsRows
<1>2. Max(S) \in S /\ \A y \in S : Max(S) >= y
  BY <1>1, MaxIs
<1>3. Max(S) \in Int /\ \A y \in S : y \in Int
  BY <1>1, <1>2
<1>4. IsLatest(r, Max(S), u)
  BY <1>2, <1>3 DEF IsLatest
<1>5. QED
  BY <1>4 DEF IsLatest

\* The next row, or the end.
LEMMA LeadIs ==
  ASSUME NEW r, IsRows(r), NEW t \in Int, NEW end \in Int
  PROVE  /\ Lead(r, t, end) \in Int
         /\ \A w \in DOMAIN r : w > t => Lead(r, t, end) <= w
         /\ \/ Lead(r, t, end) = end /\ \A w \in DOMAIN r : ~(w > t)
            \/ Lead(r, t, end) \in DOMAIN r /\ Lead(r, t, end) > t
<1> DEFINE later == {u \in DOMAIN r : u > t}
<1>1. later \in SUBSET Int /\ IsFiniteSet(later)
  BY FS_Subset DEF IsRows
<1>2. CASE later = {}
  <2>1. Lead(r, t, end) = end
    BY <1>2 DEF Lead
  <2>2. QED
    BY <1>2, <2>1
<1>3. CASE later # {}
  <2>1. Lead(r, t, end) = Min(later)
    BY <1>3 DEF Lead
  <2>2. Min(later) \in later /\ \A y \in later : Min(later) <= y
    BY <1>1, <1>3, MinIs
  <2>3. QED
    BY <1>1, <2>1, <2>2
<1>4. QED
  BY <1>2, <1>3

\* The row before one is the latest at the instant before it.
LEMMA LagIs ==
  ASSUME NEW r, IsRows(r), NEW t \in Int
  PROVE  Lag(r, t) <=> \E e \in DOMAIN r : r[e] /\ IsLatest(r, e, t - 1)
<1> DEFINE earlier == {u \in DOMAIN r : u < t}
<1>1. /\ \A w \in DOMAIN r : w \in Int /\ (w < t <=> w <= t - 1)
      /\ earlier = {u \in DOMAIN r : u <= t - 1}
  BY DEF IsRows
<1>2. CASE earlier = {}
  BY <1>1, <1>2 DEF Lag, IsLatest
<1>3. CASE earlier # {}
  <2>1. IsLatest(r, Max(earlier), t - 1)
    BY <1>1, <1>3, SomeLatest
  <2>2. Lag(r, t) <=> r[Max(earlier)]
    BY <1>3 DEF Lag
  <2>3. \A e : IsLatest(r, e, t - 1) => e = Max(earlier)
    BY <2>1, OneLatest
  <2>4. QED
    BY <2>1, <2>2, <2>3 DEF IsLatest
<1>4. QED
  BY <1>2, <1>3

\* The units that a row is charged.
LEMMA DurationIs ==
  ASSUME NEW r, NEW n \in Nat, IsRows(r), DOMAIN r \subseteq 0..n, NEW t \in DOMAIN r
  PROVE  /\ Duration(r, t, n) \in 0..MaxSegment
         /\ \A u \in Int : u \in t..(t + Duration(r, t, n) - 1)
                             <=> IsLatest(r, t, u) /\ u < n /\ u < t + MaxSegment
         /\ t..(t + Duration(r, t, n) - 1) = {u \in t..(n - 1) : IsLatest(r, t, u) /\ u < t + MaxSegment}
<1> DEFINE l == Lead(r, t, n)
<1>1. t \in Nat /\ t <= n /\ MaxSegment \in Nat
  BY ViewsAssumption
<1>2. /\ l \in Int
      /\ \A w \in DOMAIN r : w > t => l <= w
      /\ \/ l = n /\ \A w \in DOMAIN r : ~(w > t)
         \/ l \in DOMAIN r /\ l > t
  BY <1>1, LeadIs
<1>3. l >= t /\ l <= n
  BY <1>1, <1>2
<1>4. Duration(r, t, n) = IF l - t <= MaxSegment THEN l - t ELSE MaxSegment
  BY DEF Duration, Least
<1> HIDE DEF l
<1>5. \A w \in DOMAIN r : w \in Nat
  BY DEF IsRows
<1>6. \A u \in Int : u >= t => (IsLatest(r, t, u) /\ u < n <=> u < l)
  <2> SUFFICES ASSUME NEW u \in Int, u >= t PROVE IsLatest(r, t, u) /\ u < n <=> u < l
    OBVIOUS
  <2>1. ASSUME u < l PROVE IsLatest(r, t, u) /\ u < n
    <3>1. \A w \in DOMAIN r : w <= u => w <= t
      BY <1>1, <1>2, <1>5, <2>1
    <3>2. QED
      BY <1>1, <1>2, <1>3, <2>1, <3>1 DEF IsLatest
  <2>2. ASSUME IsLatest(r, t, u), u < n, u >= l PROVE FALSE
    <3>1. CASE l = n
      BY <1>2, <2>2, <3>1
    <3>2. CASE l \in DOMAIN r /\ l > t
      <4>1. l <= t
        BY <2>2, <3>2 DEF IsLatest
      <4>2. QED
        BY <1>1, <1>2, <3>2, <4>1
    <3>3. QED
      BY <1>2, <3>1, <3>2
  <2>3. QED
    BY <1>2, <2>1, <2>2
<1>7. \A u \in Int : u \in t..(t + Duration(r, t, n) - 1) <=> u >= t /\ u < l /\ u < t + MaxSegment
  BY <1>1, <1>2, <1>4
<1>8. \A u \in Int : u \in t..(t + Duration(r, t, n) - 1)
                       <=> IsLatest(r, t, u) /\ u < n /\ u < t + MaxSegment
  BY <1>6, <1>7 DEF IsLatest
<1>9. Duration(r, t, n) \in 0..MaxSegment
  BY <1>1, <1>2, <1>3, <1>4
<1>10. t..(t + Duration(r, t, n) - 1) = {u \in t..(n - 1) : IsLatest(r, t, u) /\ u < t + MaxSegment}
  BY <1>1, <1>8, <1>9
<1>11. QED
  BY <1>8, <1>9, <1>10

\* The units charged to the rows of S.
Charge(r, S, n) == UNION {t..(t + Duration(r, t, n) - 1) : t \in S}

\* The durations of some rows add up to the instants they are charged.
LEMMA ChargeIs ==
  ASSUME NEW r, NEW n \in Nat, IsRows(r), DOMAIN r \subseteq 0..n, NEW S \in SUBSET DOMAIN r
  PROVE  /\ Charge(r, S, n) \subseteq 0..(n - 1)
         /\ \A u : u \in Charge(r, S, n) <=> /\ u \in Int /\ u < n
                                             /\ \E t \in S : IsLatest(r, t, u) /\ u < t + MaxSegment
         /\ IsFiniteSet(Charge(r, S, n))
         /\ Total(S, LAMBDA t : Duration(r, t, n)) = Cardinality(Charge(r, S, n))
<1> DEFINE P == [t \in S |-> t..(t + Duration(r, t, n) - 1)]
           f == [t \in S |-> Duration(r, t, n)]
<1>0. \A t \in DOMAIN r : t \in Nat
  BY DEF IsRows
<1>1. \A u : u \in Charge(r, S, n) <=> /\ u \in Int /\ u < n
                                       /\ \E t \in S : IsLatest(r, t, u) /\ u < t + MaxSegment
  <2>1. ASSUME NEW u \in Charge(r, S, n)
        PROVE  /\ u \in Int /\ u < n
               /\ \E t \in S : IsLatest(r, t, u) /\ u < t + MaxSegment
    <3>1. PICK t \in S : u \in t..(t + Duration(r, t, n) - 1)
      BY DEF Charge
    <3>2. u \in Int
      BY <3>1
    <3>3. QED
      BY <3>1, <3>2, DurationIs
  <2>2. ASSUME NEW u \in Int, u < n, NEW t \in S, IsLatest(r, t, u), u < t + MaxSegment
        PROVE  u \in Charge(r, S, n)
    <3>1. u \in t..(t + Duration(r, t, n) - 1)
      BY <2>2, DurationIs
    <3>2. QED
      BY <3>1 DEF Charge
  <2>3. QED
    BY <2>1, <2>2
<1>2. Charge(r, S, n) \subseteq 0..(n - 1)
  <2> SUFFICES ASSUME NEW u \in Charge(r, S, n) PROVE u \in 0..(n - 1)
    OBVIOUS
  <2>1. u \in Int /\ u < n /\ \E t \in S : t <= u
    BY <1>1 DEF IsLatest
  <2>2. QED
    BY <1>0, <2>1
<1>3. \A t \in S : IsFiniteSet(P[t]) /\ f[t] = Cardinality(P[t])
  <2> SUFFICES ASSUME NEW t \in S PROVE IsFiniteSet(P[t]) /\ f[t] = Cardinality(P[t])
    OBVIOUS
  <2> DEFINE d == Duration(r, t, n)
  <2>1. t \in Int /\ d \in Nat
    BY <1>0, DurationIs, ViewsAssumption
  <2> HIDE DEF d
  <2>2. IsFiniteSet(t..(t + d - 1)) /\ Cardinality(t..(t + d - 1)) = d
    <3> DEFINE e == t + d - 1
    <3>1. e \in Int /\ (IF t > e THEN 0 ELSE e - t + 1) = d
      BY <2>1
    <3> HIDE DEF e
    <3>2. IsFiniteSet(t..e) /\ Cardinality(t..e) = d
      BY <2>1, <3>1, FS_Interval
    <3>3. QED
      BY <3>2 DEF e
  <2>3. QED
    BY <2>2 DEF d
<1>4. ASSUME NEW t \in S, NEW w \in S, t # w PROVE P[t] \cap P[w] = {}
  <2>1. ASSUME NEW u \in P[t], u \in P[w] PROVE FALSE
    <3>1. u \in Int /\ t \in DOMAIN r /\ w \in DOMAIN r
      OBVIOUS
    <3>2. IsLatest(r, t, u) /\ IsLatest(r, w, u)
      BY <2>1, <3>1, DurationIs
    <3>3. QED
      BY <1>4, <3>1, <3>2, OneLatest
  <2>2. QED
    BY <2>1
<1>5. IsFiniteSet(S)
  BY FS_Subset DEF IsRows
<1>6. Charge(r, S, n) = UNION {P[t] : t \in S}
  BY DEF Charge
<1>7. IsFiniteSet(Charge(r, S, n)) /\ Cardinality(Spread(S, f)) = Cardinality(Charge(r, S, n))
  <2>1. \A t, w \in S : t # w => P[t] \cap P[w] = {}
    BY <1>4
  <2> HIDE DEF P, f
  <2>2. IsFiniteSet(UNION {P[t] : t \in S}) /\ Cardinality(Spread(S, f)) = Cardinality(UNION {P[t] : t \in S})
    BY <1>3, <1>5, <2>1, Partition
  <2>3. QED
    BY <1>6, <2>2
<1>8. Total(S, LAMBDA t : Duration(r, t, n)) = Cardinality(Spread(S, f))
  BY DEF Total, Spread
<1>9. QED
  BY <1>1, <1>2, <1>7, <1>8
----
(* The stops of v_parada. *)

\* Two rows are of one group when no stop starts between them.
LEMMA GrpIs ==
  ASSUME NEW r, IsRows(r), NEW u \in DOMAIN r, NEW t \in DOMAIN r, u <= t
  PROVE  Grp(r, u) = Grp(r, t) <=> \A w \in DOMAIN r : u < w /\ w <= t => ~IsStart(r, w)
<1> DEFINE A == {w \in DOMAIN r : w <= u /\ IsStart(r, w)}
           B == {w \in DOMAIN r : w <= t /\ IsStart(r, w)}
<1>1. \A w \in DOMAIN r : w \in Nat
  BY DEF IsRows
<1>2. A \subseteq B
  BY <1>1
<1>3. IsFiniteSet(B)
  BY FS_Subset DEF IsRows
<1>4. Cardinality(A) = Cardinality(B) <=> A = B
  BY <1>2, <1>3, FS_Subset
<1>5. A = B <=> \A w \in B : w \in A
  BY <1>2
<1>6. (\A w \in B : w \in A) <=> \A w \in DOMAIN r : u < w /\ w <= t => ~IsStart(r, w)
  BY <1>1
<1>7. QED
  BY <1>4, <1>5, <1>6 DEF Grp

\* Where the stops begin, the rows of one, and the stop.
Starting(r) == {t \in Held(r) : ~Lag(r, t)}
Run(r, t) ==
  {u \in Held(r) : t <= u /\ \A w \in DOMAIN r : t < w /\ w <= u => ~IsStart(r, w)}
StopAt(r, t, n) ==
  [inicio |-> t,
   duracion |-> Total(Run(r, t), LAMBDA u : Duration(r, u, n)),
   tuvo_hueco |-> \E u \in Run(r, t) : IsGap(r, u, n)]

\* The rows of a group are those of the stop that begins with the least of them.
LEMMA IslandIs ==
  ASSUME NEW r, IsRows(r), NEW t \in Held(r),
         NEW i, i = {u \in Held(r) : Grp(r, u) = Grp(r, t)}
  PROVE  /\ Min(i) \in Starting(r)
         /\ i = Run(r, Min(i))
         /\ t \in Starting(r) => Min(i) = t
<1>1. \A w \in DOMAIN r : w \in Nat
  BY DEF IsRows
<1>2. i \in SUBSET Int /\ IsFiniteSet(i) /\ t \in i
  <2>1. i \in SUBSET DOMAIN r
    BY DEF Held
  <2>2. QED
    BY <1>1, <2>1, FS_Subset DEF IsRows
<1>3. Min(i) \in i /\ \A y \in i : Min(i) <= y
  BY <1>2, MinIs
<1>4. PICK m \in Held(r) : m = Min(i) /\ Grp(r, m) = Grp(r, t)
  BY <1>3
<1>5. m \in DOMAIN r /\ m \in Nat /\ r[m]
  BY <1>1 DEF Held
<1>6. ASSUME Lag(r, m) PROVE FALSE
  <2>1. PICK e \in DOMAIN r : r[e] /\ IsLatest(r, e, m - 1)
    BY <1>5, <1>6, LagIs
  <2>2. e < m /\ e \in Nat
    BY <1>1, <1>5, <2>1 DEF IsLatest
  <2>3. \A w \in DOMAIN r : e < w /\ w <= m => w = m
    <3> SUFFICES ASSUME NEW w \in DOMAIN r, e < w, w <= m, w # m PROVE FALSE
      OBVIOUS
    <3>1. w \in Nat /\ w <= m - 1
      BY <1>1, <1>5
    <3>2. w <= e
      BY <2>1, <3>1 DEF IsLatest
    <3>3. QED
      BY <2>2, <3>1, <3>2
  <2>4. ~IsStart(r, m)
    BY <1>5, <1>6 DEF IsStart
  <2>5. Grp(r, e) = Grp(r, m)
    BY <1>5, <2>2, <2>3, <2>4, GrpIs
  <2>6. e \in i
    BY <1>4, <2>1, <2>5 DEF Held
  <2>7. QED
    BY <1>3, <1>4, <1>5, <2>2, <2>6
<1>7. m \in Starting(r)
  BY <1>6 DEF Starting
<1>8. \A u \in Held(r) : u \in i <=> u \in Run(r, m)
  <2> SUFFICES ASSUME NEW u \in Held(r) PROVE u \in i <=> u \in Run(r, m)
    OBVIOUS
  <2>1. u \in DOMAIN r /\ u \in Nat
    BY <1>1 DEF Held
  <2>2. CASE m <= u
    <3>1. Grp(r, m) = Grp(r, u) <=> \A w \in DOMAIN r : m < w /\ w <= u => ~IsStart(r, w)
      BY <1>5, <2>1, <2>2, GrpIs
    <3>2. QED
      BY <1>4, <2>2, <3>1 DEF Run
  <2>3. CASE ~(m <= u)
    BY <1>3, <1>4, <2>3 DEF Run
  <2>4. QED
    BY <2>2, <2>3
<1>9. i = Run(r, m)
  BY <1>8 DEF Run
<1>10. ASSUME t \in Starting(r) PROVE m = t
  <2>1. t \in DOMAIN r /\ t \in Nat /\ IsStart(r, t) /\ m <= t
    BY <1>1, <1>2, <1>3, <1>4, <1>10 DEF Starting, Held, IsStart
  <2>2. ~(m < t)
    BY <1>4, <1>5, <2>1, GrpIs
  <2>3. QED
    BY <1>5, <2>1, <2>2
<1>11. QED
  BY <1>4, <1>7, <1>9, <1>10

\* There is a stop for each row that starts one.
LEMMA StopsAre ==
  ASSUME NEW r, IsRows(r), NEW n
  PROVE  Stops(r, n) = {StopAt(r, t, n) : t \in Starting(r)}
<1>1. ASSUME NEW t \in Held(r)
      PROVE  \E s \in Starting(r) : /\ Stop(r, Grp(r, t), n) = StopAt(r, s, n)
                                    /\ t \in Starting(r) => s = t
  <2> DEFINE i == {u \in Held(r) : Grp(r, u) = Grp(r, t)}
  <2>1. /\ Min(i) \in Starting(r) /\ i = Run(r, Min(i))
        /\ t \in Starting(r) => Min(i) = t
    BY IslandIs
  <2>2. Stop(r, Grp(r, t), n) =
          [inicio |-> Min(i),
           duracion |-> Cardinality(UNION {{u} \X (1..Duration(r, u, n)) : u \in i}),
           tuvo_hueco |-> \E u \in i : IsGap(r, u, n)]
    BY DEF Stop, Total
  <2> HIDE DEF i
  <2>3. Stop(r, Grp(r, t), n) = StopAt(r, Min(i), n)
    <3> DEFINE m == Min(i)
    <3>1. i = Run(r, m)
      BY <2>1
    <3>2. Stop(r, Grp(r, t), n) =
            [inicio |-> m,
             duracion |-> Cardinality(UNION {{u} \X (1..Duration(r, u, n)) : u \in Run(r, m)}),
             tuvo_hueco |-> \E u \in Run(r, m) : IsGap(r, u, n)]
      BY <2>2, <3>1
    <3>3. QED
      BY <3>2 DEF StopAt, Total
  <2>4. QED
    BY <2>1, <2>3
<1>2. \A t \in Starting(r) : t \in Held(r)
  BY DEF Starting
<1>3. Stops(r, n) = {Stop(r, Grp(r, t), n) : t \in Held(r)}
  BY DEF Stops
<1>4. QED
  BY <1>1, <1>2, <1>3

\* Every held row is of one stop.
LEMMA RunsPartition ==
  ASSUME NEW r, IsRows(r)
  PROVE  /\ \A s, t \in Starting(r) : s # t => Run(r, s) \cap Run(r, t) = {}
         /\ UNION {Run(r, t) : t \in Starting(r)} = Held(r)
<1>0. \A t \in Starting(r) : t \in DOMAIN r /\ t \in Nat /\ IsStart(r, t)
  BY DEF Starting, Held, IsStart, IsRows
<1>1. ASSUME NEW s \in Starting(r), NEW t \in Starting(r), NEW u \in Run(r, s), u \in Run(r, t), s < t
      PROVE  FALSE
  BY <1>0, <1>1 DEF Run
<1>2. \A s, t \in Starting(r) : s # t => Run(r, s) \cap Run(r, t) = {}
  <2> SUFFICES ASSUME NEW s \in Starting(r), NEW t \in Starting(r), NEW u \in Run(r, s), u \in Run(r, t), s # t
               PROVE  FALSE
    OBVIOUS
  <2>1. s < t \/ t < s
    BY <1>0
  <2>2. QED
    BY <1>1, <2>1
<1>3. ASSUME NEW t \in Held(r) PROVE \E s \in Starting(r) : t \in Run(r, s)
  <2> DEFINE i == {u \in Held(r) : Grp(r, u) = Grp(r, t)}
  <2>1. Min(i) \in Starting(r) /\ i = Run(r, Min(i))
    BY IslandIs
  <2>2. t \in i
    OBVIOUS
  <2>3. QED
    BY <2>1, <2>2
<1>4. QED
  BY <1>2, <1>3 DEF Run

\* The stops add up to what is charged.
LEMMA StopsTotal ==
  ASSUME NEW r, NEW n \in Nat, IsRows(r), DOMAIN r \subseteq 0..n
  PROVE  Total(Stops(r, n), LAMBDA s : s.duracion) = Retention(r, n)
<1> DEFINE S == Stops(r, n)
           P == [x \in S |-> Charge(r, Run(r, x.inicio), n)]
           f == [x \in S |-> x.duracion]
<1>0. \A t : StopAt(r, t, n).inicio = t
  BY DEF StopAt, Total
<1>1. \A x \in S : x.inicio \in Starting(r) /\ x = StopAt(r, x.inicio, n)
  BY <1>0, StopsAre
<1>2. \A t : Run(r, t) \in SUBSET DOMAIN r
  BY DEF Run, Held
<1>3. ASSUME NEW x \in S PROVE IsFiniteSet(P[x]) /\ f[x] = Cardinality(P[x])
  <2> DEFINE t == x.inicio
  <2>1. x = StopAt(r, t, n)
    BY <1>1
  <2> HIDE DEF t
  <2>2. x.duracion = Cardinality(UNION {{u} \X (1..Duration(r, u, n)) : u \in Run(r, t)})
    BY <2>1 DEF StopAt, Total
  <2>3. /\ IsFiniteSet(Charge(r, Run(r, t), n))
        /\ Total(Run(r, t), LAMBDA u : Duration(r, u, n)) = Cardinality(Charge(r, Run(r, t), n))
    BY <1>2, ChargeIs
  <2>4. QED
    BY <2>2, <2>3 DEF Total, t
<1>4. ASSUME NEW x \in S, NEW y \in S, x # y PROVE P[x] \cap P[y] = {}
  <2>1. x.inicio # y.inicio
    BY <1>1, <1>4
  <2>2. Run(r, x.inicio) \cap Run(r, y.inicio) = {}
    BY <1>1, <2>1, RunsPartition
  <2>3. ASSUME NEW u, u \in P[x], u \in P[y] PROVE FALSE
    <3>1. /\ u \in Int /\ \E t \in Run(r, x.inicio) : IsLatest(r, t, u)
          /\ \E t \in Run(r, y.inicio) : IsLatest(r, t, u)
      BY <1>2, <2>3, ChargeIs
    <3>2. QED
      BY <2>2, <3>1, OneLatest
  <2>4. QED
    BY <2>3
<1>5. UNION {P[x] : x \in S} = Charge(r, Held(r), n)
  <2>1. UNION {P[x] : x \in S} = UNION {Charge(r, Run(r, t), n) : t \in Starting(r)}
    <3>1. \A t \in Starting(r) : StopAt(r, t, n) \in S /\ StopAt(r, t, n).inicio = t
      BY <1>0, StopsAre
    <3>2. QED
      BY <1>1, <3>1
  <2>2. \A u : (\E t \in Starting(r) : u \in Charge(r, Run(r, t), n)) <=> u \in Charge(r, Held(r), n)
    BY RunsPartition DEF Charge
  <2>3. QED
    BY <2>1, <2>2
<1>6. IsFiniteSet(S)
  <2>1. IsFiniteSet(Starting(r))
    BY FS_Subset DEF Starting, Held, IsRows
  <2> DEFINE g == [t \in Starting(r) |-> StopAt(r, t, n)]
  <2>2. S = {g[t] : t \in Starting(r)}
    BY StopsAre
  <2> HIDE DEF g, S
  <2>3. QED
    BY <2>1, <2>2, FiniteImage
<1>7. Cardinality(Spread(S, f)) = Cardinality(UNION {P[x] : x \in S})
  <2>1. \A x, y \in S : x # y => P[x] \cap P[y] = {}
    BY <1>4
  <2>2. \A x \in S : IsFiniteSet(P[x]) /\ f[x] = Cardinality(P[x])
    BY <1>3
  <2> HIDE DEF P, f, S
  <2>3. QED
    BY <1>6, <2>1, <2>2, Partition
<1>8. Total(S, LAMBDA s : s.duracion) = Cardinality(Spread(S, f))
  BY DEF Total, Spread
<1>9. Retention(r, n) = Cardinality(Charge(r, Held(r), n))
  <2>1. Held(r) \in SUBSET DOMAIN r
    BY DEF Held
  <2>2. QED
    BY <2>1, ChargeIs DEF Retention, Total
<1>10. QED
  BY <1>5, <1>7, <1>8, <1>9
----
(* The stretches of v_retencion_fusionada. *)

AreSegments(S) == IsFiniteSet(S) /\ \A s \in S : s.a \in Int /\ s.b \in Int

\* Between two segments of one stretch, none opens another.
LEMMA StretchIs ==
  ASSUME NEW S, AreSegments(S), NEW o \in S, NEW s \in S, o.a <= s.a
  PROVE  /\ Stretch(S, o) \in Nat /\ Stretch(S, s) \in Nat
         /\ Stretch(S, o) <= Stretch(S, s)
         /\ Stretch(S, o) = Stretch(S, s)
              <=> \A x \in S : o.a < x.a /\ x.a <= s.a => ~Opens(S, x)
<1> DEFINE A == {x.a : x \in {y \in S : y.a <= o.a /\ Opens(S, y)}}
           B == {x.a : x \in {y \in S : y.a <= s.a /\ Opens(S, y)}}
<1>1. \A x \in S : x.a \in Int
  BY DEF AreSegments
<1>2. A \in SUBSET B
  BY <1>1
<1>3. IsFiniteSet(B)
  <2> DEFINE Y == {y \in S : y.a <= s.a /\ Opens(S, y)}
             f == [y \in Y |-> y.a]
  <2>1. IsFiniteSet(Y)
    BY FS_Subset DEF AreSegments
  <2>2. B = {f[y] : y \in Y}
    OBVIOUS
  <2> HIDE DEF f, Y
  <2>3. QED
    BY <2>1, <2>2, FiniteImage
<1>4. /\ IsFiniteSet(A) /\ Cardinality(A) <= Cardinality(B)
      /\ Cardinality(A) = Cardinality(B) <=> A = B
  BY <1>2, <1>3, FS_Subset
<1>5. Cardinality(A) \in Nat /\ Cardinality(B) \in Nat
  BY <1>3, <1>4, FS_CardinalityType
<1>6. A = B <=> \A x \in S : o.a < x.a /\ x.a <= s.a => ~Opens(S, x)
  <2>1. ASSUME A = B, NEW x \in S, o.a < x.a, x.a <= s.a, Opens(S, x) PROVE FALSE
    <3>1. x.a \in B
      BY <2>1
    <3>2. x.a \in A
      BY <2>1, <3>1
    <3>3. QED
      BY <1>1, <2>1, <3>2
  <2>2. ASSUME \A x \in S : o.a < x.a /\ x.a <= s.a => ~Opens(S, x) PROVE B \subseteq A
    BY <1>1, <2>2
  <2>3. QED
    BY <1>2, <2>1, <2>2
<1>7. QED
  BY <1>4, <1>5, <1>6 DEF Stretch

Members(S, n) == {s \in S : Stretch(S, s) = n}
Whole(S, n) == [a |-> Min({x.a : x \in Members(S, n)}), b |-> Max({x.b : x \in Members(S, n)})]

\* A stretch begins with a first segment and ends with one that ends last.
LEMMA MembersSpan ==
  ASSUME NEW S, AreSegments(S), NEW n, NEW s \in S, Stretch(S, s) = n
  PROVE  \E f, l \in Members(S, n) :
           /\ f.a = Min({x.a : x \in Members(S, n)}) /\ \A x \in Members(S, n) : f.a <= x.a
           /\ l.b = Max({x.b : x \in Members(S, n)}) /\ \A x \in Members(S, n) : x.b <= l.b
<1> DEFINE M == Members(S, n)
           fa == [x \in M |-> x.a]
           fb == [x \in M |-> x.b]
           A == {x.a : x \in M}
           B == {x.b : x \in M}
<1>1. /\ M \in SUBSET S /\ IsFiniteSet(M) /\ s \in M
      /\ \A x \in M : x.a \in Int /\ x.b \in Int
  BY FS_Subset DEF Members, AreSegments
<1>2. A = {fa[x] : x \in M} /\ B = {fb[x] : x \in M}
  OBVIOUS
<1>3. IsFiniteSet(A) /\ IsFiniteSet(B)
  <2> HIDE DEF M, fa, fb, A, B
  <2>1. QED
    BY <1>1, <1>2, FiniteImage
<1>4. A \in SUBSET Int /\ A # {} /\ B \in SUBSET Int /\ B # {}
  BY <1>1
<1>5. /\ Min(A) \in A /\ \A y \in A : Min(A) <= y
      /\ Max(B) \in B /\ \A y \in B : Max(B) >= y
  BY <1>3, <1>4, MinIs, MaxIs
<1>6. PICK f \in M : f.a = Min(A)
  BY <1>5
<1>7. PICK l \in M : l.b = Max(B)
  BY <1>5
<1>8. \A x \in M : f.a <= x.a
  BY <1>5, <1>6
<1>9. \A x \in M : x.b <= l.b
  BY <1>1, <1>5, <1>7
<1>10. QED
  BY <1>6, <1>7, <1>8, <1>9

\* The first segment of a stretch opens it: all before it end before it starts.
LEMMA FirstOpens ==
  ASSUME NEW S, AreSegments(S), NEW f \in S,
         \A x \in Members(S, Stretch(S, f)) : f.a <= x.a
  PROVE  \A o \in S : o.a < f.a => o.b < f.a
<1> SUFFICES ASSUME NEW o \in S, o.a < f.a, ~(o.b < f.a) PROVE FALSE
  OBVIOUS
<1>1. \A x \in S : x.a \in Int /\ x.b \in Int
  BY DEF AreSegments
<1> DEFINE E == {x \in S : x.a < f.a}
           fa == [x \in E |-> x.a]
           A == {x.a : x \in E}
<1>2. IsFiniteSet(A)
  <2>1. IsFiniteSet(E)
    BY FS_Subset DEF AreSegments
  <2>2. A = {fa[x] : x \in E}
    OBVIOUS
  <2> HIDE DEF E, A, fa
  <2>3. QED
    BY <2>1, <2>2, FiniteImage
<1>3. A \in SUBSET Int /\ A # {}
  BY <1>1
<1>4. Max(A) \in A /\ \A y \in A : Max(A) >= y
  BY <1>2, <1>3, MaxIs
<1>5. PICK p \in E : p.a = Max(A)
  BY <1>4
<1>6. \A x \in E : x.a <= p.a
  BY <1>1, <1>4, <1>5
<1>7. \A x \in S : p.a < x.a /\ x.a <= f.a => ~Opens(S, x)
  <2> SUFFICES ASSUME NEW x \in S, p.a < x.a, x.a <= f.a, Opens(S, x) PROVE FALSE
    OBVIOUS
  <2>1. x.a = f.a
    BY <1>1, <1>6
  <2>2. x.a > o.b
    BY <2>1 DEF Opens
  <2>3. QED
    BY <1>1, <2>1, <2>2
<1>8. Stretch(S, p) = Stretch(S, f)
  <2>1. p \in S /\ p.a <= f.a
    BY <1>1
  <2>2. QED
    BY <1>7, <2>1, StretchIs
<1>9. f.a <= p.a
  BY <1>8 DEF Members
<1>10. QED
  BY <1>1, <1>9

\* No instant within a stretch is left uncovered.
LEMMA StretchCovers ==
  ASSUME NEW S, AreSegments(S), NEW f \in S, NEW l \in S, Stretch(S, f) = Stretch(S, l),
         \A x \in Members(S, Stretch(S, f)) : f.a <= x.a,
         NEW u \in Int, f.a <= u, u < l.b
  PROVE  \E s \in S : s.a <= u /\ u < s.b
<1> SUFFICES ASSUME \A s \in S : ~(s.a <= u /\ u < s.b) PROVE FALSE
  OBVIOUS
<1>1. \A x \in S : x.a \in Int /\ x.b \in Int
  BY DEF AreSegments
<1> DEFINE n == Stretch(S, f)
           E == {x \in Members(S, n) : x.a > u}
           fa == [x \in E |-> x.a]
           A == {x.a : x \in E}
<1>2. IsFiniteSet(A)
  <2>1. IsFiniteSet(E)
    BY FS_Subset DEF AreSegments, Members
  <2>2. A = {fa[x] : x \in E}
    OBVIOUS
  <2> HIDE DEF E, A, fa
  <2>3. QED
    BY <2>1, <2>2, FiniteImage
<1>3. l \in E
  BY <1>1 DEF Members
<1>4. A \in SUBSET Int /\ A # {}
  BY <1>1, <1>3 DEF Members
<1>5. Min(A) \in A /\ \A y \in A : Min(A) <= y
  BY <1>2, <1>4, MinIs
<1>6. PICK z \in E : z.a = Min(A)
  BY <1>5
<1>7. /\ z \in S /\ Stretch(S, z) = n /\ z.a > u
      /\ \A x \in E : z.a <= x.a
  BY <1>5, <1>6 DEF Members
<1>8. ASSUME NEW o \in S, o.a < z.a PROVE o.b < z.a
  <2>1. CASE o.a <= u
    BY <1>1, <1>7, <2>1
  <2>2. CASE o.a > u
    <3>1. Stretch(S, o) <= n /\ n <= Stretch(S, o) /\ Stretch(S, o) \in Nat /\ n \in Nat
      <4>1. o.a <= z.a /\ f.a <= o.a
        BY <1>1, <1>7, <1>8, <2>2
      <4>2. QED
        BY <1>7, <4>1, StretchIs
    <3>2. Stretch(S, o) = n
      BY <3>1
    <3>3. o \in E
      BY <2>2, <3>2 DEF Members
    <3>4. QED
      BY <1>1, <1>7, <1>8, <3>3
  <2>3. QED
    BY <1>1, <2>1, <2>2
<1>9. Opens(S, z)
  BY <1>1, <1>7, <1>8 DEF Opens
<1>10. f.a < z.a
  BY <1>1, <1>7
<1>11. ~Opens(S, z)
  <2>1. f.a <= z.a /\ z.a <= z.a
    BY <1>1, <1>7, <1>10
  <2>2. QED
    BY <1>7, <1>10, <2>1, StretchIs
<1>12. QED
  BY <1>9, <1>11

\* The stretches cover what the segments do, and no two of them touch.
LEMMA FusedIs ==
  ASSUME NEW S, AreSegments(S)
  PROVE  /\ Units(Fused(S)) = Units(S)
         /\ \A x, y \in Fused(S) : x.a < y.a => x.b < y.a
<1>1. \A x \in S : x.a \in Int /\ x.b \in Int
  BY DEF AreSegments
<1>2. Fused(S) = {Whole(S, Stretch(S, s)) : s \in S}
  BY DEF Fused, Members, Whole
<1>3. ASSUME NEW x \in Fused(S)
      PROVE  \E f, l \in S :
               /\ x.a = f.a /\ x.b = l.b /\ Stretch(S, f) = Stretch(S, l) /\ x = Whole(S, Stretch(S, f))
               /\ \A y \in Members(S, Stretch(S, f)) : f.a <= y.a /\ y.b <= l.b
  <2>1. PICK s \in S : x = Whole(S, Stretch(S, s))
    BY <1>2
  <2> DEFINE n == Stretch(S, s)
  <2>2. PICK f, l \in Members(S, n) :
          /\ f.a = Min({y.a : y \in Members(S, n)}) /\ \A y \in Members(S, n) : f.a <= y.a
          /\ l.b = Max({y.b : y \in Members(S, n)}) /\ \A y \in Members(S, n) : y.b <= l.b
    BY MembersSpan
  <2>3. f \in S /\ l \in S /\ Stretch(S, f) = n /\ Stretch(S, l) = n
    BY DEF Members
  <2>4. x.a = f.a /\ x.b = l.b
    BY <2>1, <2>2 DEF Whole
  <2>5. QED
    BY <2>1, <2>2, <2>3, <2>4
<1>4. ASSUME NEW s \in S
      PROVE  \E x \in Fused(S) : x.a <= s.a /\ s.b <= x.b
  <2> DEFINE n == Stretch(S, s)
  <2>1. PICK f, l \in Members(S, n) :
          /\ f.a = Min({y.a : y \in Members(S, n)}) /\ \A y \in Members(S, n) : f.a <= y.a
          /\ l.b = Max({y.b : y \in Members(S, n)}) /\ \A y \in Members(S, n) : y.b <= l.b
    BY MembersSpan
  <2>2. Whole(S, n) \in Fused(S) /\ Whole(S, n).a = f.a /\ Whole(S, n).b = l.b
    BY <1>2, <2>1 DEF Whole
  <2>3. s \in Members(S, n)
    BY DEF Members
  <2>4. QED
    BY <2>1, <2>2, <2>3
<1>5. ASSUME NEW u, u \in Units(Fused(S)) PROVE u \in Units(S)
  <2>1. PICK x \in Fused(S) : u \in x.a..(x.b - 1)
    BY <1>5 DEF Units
  <2>2. PICK f \in S, l \in S :
          /\ x.a = f.a /\ x.b = l.b /\ Stretch(S, f) = Stretch(S, l)
          /\ \A y \in Members(S, Stretch(S, f)) : f.a <= y.a /\ y.b <= l.b
    BY <1>3
  <2>3. u \in Int /\ f.a <= u /\ u < l.b
    BY <1>1, <2>1, <2>2
  <2>4. PICK s \in S : s.a <= u /\ u < s.b
    BY <2>2, <2>3, StretchCovers
  <2>5. u \in s.a..(s.b - 1)
    BY <1>1, <2>3, <2>4
  <2>6. QED
    BY <2>5 DEF Units
<1>6. ASSUME NEW u, u \in Units(S) PROVE u \in Units(Fused(S))
  <2>1. PICK s \in S : u \in s.a..(s.b - 1)
    BY <1>6 DEF Units
  <2>2. PICK x \in Fused(S) : x.a <= s.a /\ s.b <= x.b
    BY <1>4
  <2>3. x.a \in Int /\ x.b \in Int
    BY <1>1, <1>3
  <2>4. u \in x.a..(x.b - 1)
    BY <1>1, <2>1, <2>2, <2>3
  <2>5. QED
    BY <2>4 DEF Units
<1>7. ASSUME NEW x \in Fused(S), NEW y \in Fused(S), x.a < y.a PROVE x.b < y.a
  <2>1. PICK f \in S, l \in S :
          /\ x.a = f.a /\ x.b = l.b /\ Stretch(S, f) = Stretch(S, l) /\ x = Whole(S, Stretch(S, f))
          /\ \A z \in Members(S, Stretch(S, f)) : f.a <= z.a /\ z.b <= l.b
    BY <1>3
  <2>2. PICK g \in S, h \in S :
          /\ y.a = g.a /\ y = Whole(S, Stretch(S, g))
          /\ \A z \in Members(S, Stretch(S, g)) : g.a <= z.a
    BY <1>3
  <2>3. \A o \in S : o.a < g.a => o.b < g.a
    BY <2>2, FirstOpens
  <2>4. l.a < g.a
    <3>1. CASE l.a < g.a
      BY <3>1
    <3>2. CASE ~(l.a < g.a)
      <4>1. f.a <= g.a /\ g.a <= l.a
        BY <1>1, <1>7, <2>1, <2>2, <3>2
      <4>2. Stretch(S, f) = Stretch(S, g)
        <5>1. Stretch(S, f) <= Stretch(S, g) /\ Stretch(S, f) \in Nat /\ Stretch(S, g) \in Nat
          BY <4>1, StretchIs
        <5>2. Stretch(S, g) <= Stretch(S, l)
          BY <4>1, StretchIs
        <5>3. QED
          BY <2>1, <5>1, <5>2
      <4>3. x = y
        BY <2>1, <2>2, <4>2
      <4>4. QED
        BY <1>1, <1>7, <2>1, <4>3
    <3>3. QED
      BY <3>1, <3>2
  <2>5. QED
    BY <2>1, <2>2, <2>3, <2>4
<1>8. QED
  BY <1>5, <1>6, <1>7
----
(* How the rows come about: what every source is known by, whatever the others do. *)

\* The rows whose charge may go beyond what was seen.
Broken(r, sn, on, n) ==
  {t \in DOMAIN r : \/ \E u \in 0..(n - 1) : IsLatest(r, t, u) /\ u \notin DOMAIN sn
                    \/ ~on /\ IsLatest(r, t, n)}

\* The rows r tell of what was seen, sn: until n, with the source polled if on, with the
\* starts st and k losses; kept says that they are written again in time.
Tracks(r, sn, on, st, k, n, kept) ==
  /\ IsRows(r) /\ DOMAIN r \subseteq 0..n
  /\ sn \in [DOMAIN sn -> BOOLEAN] /\ DOMAIN sn \subseteq 0..(n - 1)
  /\ k \in Nat
  /\ st = Starting(r)
  /\ \A u \in DOMAIN sn : \E t \in DOMAIN r :
       IsLatest(r, t, u) /\ (sn[u] <=> r[t]) /\ (kept /\ r[t] => u < t + MaxSegment)
  /\ on => \E t \in DOMAIN r : IsLatest(r, t, n) /\ \A u \in t..(n - 1) : u \in DOMAIN sn
  /\ Cardinality(Broken(r, sn, on, n)) <= k

\* The broken rows are of finite number.
LEMMA BrokenFinite ==
  ASSUME NEW r, IsRows(r), NEW sn, NEW on, NEW n
  PROVE  IsFiniteSet(Broken(r, sn, on, n)) /\ Cardinality(Broken(r, sn, on, n)) \in Nat
<1>1. Broken(r, sn, on, n) \in SUBSET DOMAIN r
  BY DEF Broken
<1>2. QED
  BY <1>1, FS_Subset, FS_CardinalityType DEF IsRows

\* Fewer rows are no more than as many.
LEMMA BrokenWithin ==
  ASSUME NEW A, NEW B, IsFiniteSet(B), A \subseteq B, NEW k \in Nat, Cardinality(B) <= k
  PROVE  Cardinality(A) <= k
<1>1. IsFiniteSet(A) /\ Cardinality(A) <= Cardinality(B)
  BY FS_Subset
<1>2. Cardinality(A) \in Nat /\ Cardinality(B) \in Nat
  BY <1>1, FS_CardinalityType
<1>3. QED
  BY <1>1, <1>2

\* A row is added at n.
Add(r, n, v) == [t \in DOMAIN r \cup {n} |-> IF t = n THEN v ELSE r[t]]

\* A row at an instant that has none after it.
LEMMA AddIs ==
  ASSUME NEW r, IsRows(r), NEW n \in Nat, DOMAIN r \subseteq 0..n, n \notin DOMAIN r, NEW v \in BOOLEAN
  PROVE  /\ IsRows(Add(r, n, v)) /\ DOMAIN Add(r, n, v) = DOMAIN r \cup {n}
         /\ \A t \in DOMAIN r : t \in Nat /\ t < n /\ (Add(r, n, v)[t] <=> r[t])
         /\ (Add(r, n, v)[n] <=> v)
         /\ \A u \in Int : \A t : u < n => (IsLatest(Add(r, n, v), t, u) <=> IsLatest(r, t, u))
         /\ IsLatest(Add(r, n, v), n, n)
<1> DEFINE q == Add(r, n, v)
<1>1. DOMAIN q = DOMAIN r \cup {n} /\ \A t \in DOMAIN q : q[t] = IF t = n THEN v ELSE r[t]
  BY DEF Add
<1>2. \A t \in DOMAIN r : t \in Nat /\ t < n /\ (q[t] <=> r[t])
  <2>1. \A t \in DOMAIN r : t \in Nat /\ t <= n /\ t # n
    BY DEF IsRows
  <2>2. QED
    BY <1>1, <2>1
<1>3. q[n] <=> v
  BY <1>1
<1>4. IsRows(q)
  <2>1. q \in [DOMAIN q -> BOOLEAN]
    <3>1. \A t \in DOMAIN q : q[t] \in BOOLEAN
      BY <1>1 DEF IsRows
    <3>2. q = [t \in DOMAIN q |-> q[t]]
      BY DEF Add
    <3>3. QED
      BY <3>1, <3>2
  <2>2. IsFiniteSet(DOMAIN q)
    BY <1>1, FS_AddElement DEF IsRows
  <2>3. DOMAIN q \in SUBSET Nat
    BY <1>1 DEF IsRows
  <2>4. QED
    BY <2>1, <2>2, <2>3 DEF IsRows
<1> HIDE DEF q
<1>5. \A u \in Int : \A t : u < n => (IsLatest(q, t, u) <=> IsLatest(r, t, u))
  BY <1>1, <1>2 DEF IsLatest
<1>6. IsLatest(q, n, n)
  BY <1>1, <1>2 DEF IsLatest
<1>7. QED
  BY <1>1, <1>2, <1>3, <1>4, <1>5, <1>6 DEF q

\* The row of n starts a stop if what held before it was off.
LEMMA AddStarts ==
  ASSUME NEW r, IsRows(r), NEW n \in Nat, DOMAIN r \subseteq 0..n, n \notin DOMAIN r, NEW v \in BOOLEAN
  PROVE  Starting(Add(r, n, v))
           = IF v /\ ~\E e \in DOMAIN r : r[e] /\ IsLatest(r, e, n) THEN Starting(r) \cup {n} ELSE Starting(r)
<1> DEFINE q == Add(r, n, v)
<1>1. /\ IsRows(q) /\ DOMAIN q = DOMAIN r \cup {n}
      /\ \A t \in DOMAIN r : t \in Nat /\ t < n /\ (q[t] <=> r[t])
      /\ (q[n] <=> v)
      /\ \A u \in Int : \A t : u < n => (IsLatest(q, t, u) <=> IsLatest(r, t, u))
  BY AddIs
<1> HIDE DEF q
<1>2. \A t \in DOMAIN r : Lag(q, t) <=> Lag(r, t)
  <2> SUFFICES ASSUME NEW t \in DOMAIN r PROVE Lag(q, t) <=> Lag(r, t)
    OBVIOUS
  <2>1. t \in Int /\ t - 1 \in Int /\ t - 1 < n
    BY <1>1
  <2>2. \A e : IsLatest(q, e, t - 1) <=> IsLatest(r, e, t - 1)
    BY <1>1, <2>1
  <2>3. Lag(q, t) <=> \E e \in DOMAIN q : q[e] /\ IsLatest(q, e, t - 1)
    BY <1>1, <2>1, LagIs
  <2>4. Lag(r, t) <=> \E e \in DOMAIN r : r[e] /\ IsLatest(r, e, t - 1)
    BY <2>1, LagIs
  <2>5. \A e : IsLatest(r, e, t - 1) => e \in DOMAIN r /\ e \in DOMAIN q /\ (q[e] <=> r[e])
    BY <1>1 DEF IsLatest
  <2>6. QED
    BY <2>2, <2>3, <2>4, <2>5
<1>3. Lag(q, n) <=> \E e \in DOMAIN r : r[e] /\ IsLatest(r, e, n)
  <2>1. Lag(q, n) <=> \E e \in DOMAIN q : q[e] /\ IsLatest(q, e, n - 1)
    BY <1>1, LagIs
  <2>2. \A e : IsLatest(q, e, n - 1) <=> IsLatest(r, e, n - 1)
    BY <1>1
  <2>3. \A e : IsLatest(r, e, n - 1) <=> IsLatest(r, e, n)
    BY <1>1 DEF IsLatest
  <2>4. \A e : IsLatest(r, e, n) => e \in DOMAIN r /\ e \in DOMAIN q /\ (q[e] <=> r[e])
    BY <1>1 DEF IsLatest
  <2>5. QED
    BY <2>1, <2>2, <2>3, <2>4
<1>4. \A t : t \in Starting(q) <=> t \in Starting(r) \/ (t = n /\ v /\ ~Lag(q, n))
  BY <1>1, <1>2 DEF Starting, Held
<1>5. QED
  BY <1>3, <1>4 DEF q

\* A row is written while the source is polled.
LEMMA TracksAdd ==
  ASSUME NEW r, NEW sn, NEW on, NEW st, NEW k, NEW n \in Nat, NEW kept,
         Tracks(r, sn, on, st, k, n, kept), n \notin DOMAIN r, NEW v \in BOOLEAN, NEW s1,
         s1 = IF v /\ ~\E e \in DOMAIN r : r[e] /\ IsLatest(r, e, n) THEN st \cup {n} ELSE st
  PROVE  Tracks(Add(r, n, v), sn, TRUE, s1, k, n, kept)
<1> DEFINE q == Add(r, n, v)
<1>1. /\ IsRows(r) /\ DOMAIN r \subseteq 0..n /\ st = Starting(r) /\ k \in Nat
      /\ sn \in [DOMAIN sn -> BOOLEAN] /\ DOMAIN sn \subseteq 0..(n - 1)
  BY DEF Tracks
<1>2. /\ IsRows(q) /\ DOMAIN q = DOMAIN r \cup {n}
      /\ \A t \in DOMAIN r : t \in Nat /\ t < n /\ (q[t] <=> r[t])
      /\ (q[n] <=> v)
      /\ \A u \in Int : \A t : u < n => (IsLatest(q, t, u) <=> IsLatest(r, t, u))
      /\ IsLatest(q, n, n)
  BY <1>1, AddIs
<1>3. s1 = Starting(q)
  BY <1>1, AddStarts
<1> HIDE DEF q
<1>4. DOMAIN q \subseteq 0..n
  BY <1>1, <1>2
<1>5. ASSUME NEW u \in DOMAIN sn
      PROVE  \E t \in DOMAIN q :
               IsLatest(q, t, u) /\ (sn[u] <=> q[t]) /\ (kept /\ q[t] => u < t + MaxSegment)
  <2>1. PICK t \in DOMAIN r :
          IsLatest(r, t, u) /\ (sn[u] <=> r[t]) /\ (kept /\ r[t] => u < t + MaxSegment)
    BY DEF Tracks
  <2>2. u \in Int /\ u < n
    BY <1>1
  <2>3. QED
    BY <1>2, <2>1, <2>2
<1>6. \E t \in DOMAIN q : IsLatest(q, t, n) /\ \A u \in t..(n - 1) : u \in DOMAIN sn
  <2>1. n \in DOMAIN q /\ IsLatest(q, n, n) /\ \A u \in n..(n - 1) : FALSE
    BY <1>2
  <2>2. QED
    BY <2>1
<1>7. Cardinality(Broken(q, sn, TRUE, n)) <= k
  <2>1. Broken(q, sn, TRUE, n) \subseteq Broken(r, sn, on, n)
    <3> SUFFICES ASSUME NEW t \in Broken(q, sn, TRUE, n) PROVE t \in Broken(r, sn, on, n)
      OBVIOUS
    <3>1. PICK u \in 0..(n - 1) : IsLatest(q, t, u) /\ u \notin DOMAIN sn
      BY DEF Broken
    <3>2. IsLatest(r, t, u)
      BY <1>2, <3>1
    <3>3. QED
      BY <3>1, <3>2 DEF Broken, IsLatest
  <2>2. IsFiniteSet(Broken(r, sn, on, n)) /\ Cardinality(Broken(r, sn, on, n)) <= k
    BY <1>1, BrokenFinite DEF Tracks
  <2>3. QED
    BY <1>1, <2>1, <2>2, BrokenWithin
<1>8. QED
  BY <1>1, <1>2, <1>3, <1>4, <1>5, <1>6, <1>7 DEF Tracks, q

\* The source is lost.
LEMMA TracksLose ==
  ASSUME NEW r, NEW sn, NEW st, NEW k, NEW n \in Nat, NEW kept, Tracks(r, sn, TRUE, st, k, n, kept)
  PROVE  Tracks(r, sn, FALSE, st, k + 1, n, kept)
<1>1. IsRows(r) /\ k \in Nat
  BY DEF Tracks
<1>2. PICK t \in DOMAIN r : IsLatest(r, t, n)
  BY DEF Tracks
<1> DEFINE A == Broken(r, sn, TRUE, n)
           B == Broken(r, sn, FALSE, n)
<1>3. B \subseteq A \cup {t}
  BY <1>1, <1>2, OneLatest DEF Broken
<1>4. IsFiniteSet(A) /\ Cardinality(A) \in Nat /\ Cardinality(A) <= k
  BY <1>1, BrokenFinite DEF Tracks
<1> HIDE DEF A, B
<1>5. IsFiniteSet(A \cup {t}) /\ Cardinality(A \cup {t}) <= k + 1
  <2>1. /\ IsFiniteSet(A \cup {t})
        /\ Cardinality(A \cup {t}) = IF t \in A THEN Cardinality(A) ELSE Cardinality(A) + 1
    BY <1>4, FS_AddElement
  <2>2. QED
    BY <1>1, <1>4, <2>1
<1>6. Cardinality(B) <= k + 1
  BY <1>1, <1>3, <1>5, BrokenWithin
<1>7. QED
  <2>1. k + 1 \in Nat
    BY <1>1
  <2>2. QED
    BY <1>1, <1>6, <2>1 DEF Tracks, B

\* Without a row the latest stays.
LEMMA LatestLater ==
  ASSUME NEW r, IsRows(r), NEW n \in Nat, DOMAIN r \subseteq 0..n, NEW t
  PROVE  IsLatest(r, t, n + 1) <=> IsLatest(r, t, n)
<1>1. \A w \in DOMAIN r : w \in Nat /\ (w <= n + 1 <=> w <= n)
  OBVIOUS
<1>2. QED
  BY <1>1 DEF IsLatest

\* A unit of time passes unseen.
LEMMA TracksUnseen ==
  ASSUME NEW r, NEW sn, NEW st, NEW k, NEW n \in Nat, NEW kept, Tracks(r, sn, FALSE, st, k, n, kept)
  PROVE  Tracks(r, sn, FALSE, st, k, n + 1, kept)
<1>1. /\ IsRows(r) /\ DOMAIN r \subseteq 0..n /\ k \in Nat
      /\ DOMAIN sn \subseteq 0..(n - 1)
  BY DEF Tracks
<1>2. DOMAIN r \subseteq 0..(n + 1) /\ DOMAIN sn \subseteq 0..((n + 1) - 1)
  BY <1>1
<1>3. Broken(r, sn, FALSE, n + 1) \subseteq Broken(r, sn, FALSE, n)
  <2> SUFFICES ASSUME NEW t \in Broken(r, sn, FALSE, n + 1) PROVE t \in Broken(r, sn, FALSE, n)
    OBVIOUS
  <2>1. t \in DOMAIN r
    BY DEF Broken
  <2>2. CASE IsLatest(r, t, n)
    BY <2>1, <2>2 DEF Broken
  <2>3. ASSUME NEW u \in 0..((n + 1) - 1), IsLatest(r, t, u), u \notin DOMAIN sn PROVE t \in Broken(r, sn, FALSE, n)
    <3>1. u \in 0..(n - 1) \/ u = n
      BY <2>3
    <3>2. QED
      BY <2>1, <2>2, <2>3, <3>1 DEF Broken
  <2>4. QED
    BY <1>1, <2>2, <2>3, LatestLater DEF Broken
<1>4. Cardinality(Broken(r, sn, FALSE, n + 1)) <= k
  <2>1. IsFiniteSet(Broken(r, sn, FALSE, n)) /\ Cardinality(Broken(r, sn, FALSE, n)) <= k
    BY <1>1, BrokenFinite DEF Tracks
  <2>2. QED
    BY <1>1, <1>3, <2>1, BrokenWithin
<1>5. QED
  BY <1>2, <1>4 DEF Tracks

\* A unit of time passes and is seen: the latest row tells what.
LEMMA TracksSeen ==
  ASSUME NEW r, NEW sn, NEW st, NEW k, NEW n \in Nat, NEW kept, Tracks(r, sn, TRUE, st, k, n, kept),
         NEW v \in BOOLEAN,
         \A t \in DOMAIN r : IsLatest(r, t, n) => (v <=> r[t]) /\ (kept /\ r[t] => n < t + MaxSegment)
  PROVE  Tracks(r, Add(sn, n, v), TRUE, st, k, n + 1, kept)
<1> DEFINE s1 == Add(sn, n, v)
<1>1. /\ IsRows(r) /\ DOMAIN r \subseteq 0..n /\ k \in Nat
      /\ sn \in [DOMAIN sn -> BOOLEAN] /\ DOMAIN sn \subseteq 0..(n - 1)
  BY DEF Tracks
<1>2. /\ DOMAIN s1 = DOMAIN sn \cup {n}
      /\ \A u \in DOMAIN sn : u < n /\ u \in Nat /\ s1[u] = sn[u]
      /\ s1[n] = v
  <2>1. \A u \in DOMAIN sn : u < n /\ u \in Nat /\ u # n
    BY <1>1
  <2>2. QED
    BY <2>1 DEF Add
<1>3. s1 \in [DOMAIN s1 -> BOOLEAN]
  <2>1. \A u \in DOMAIN sn \cup {n} : (IF u = n THEN v ELSE sn[u]) \in BOOLEAN
    BY <1>1
  <2>2. QED
    BY <2>1 DEF Add
<1> HIDE DEF s1
<1>4. DOMAIN r \subseteq 0..(n + 1) /\ DOMAIN s1 \subseteq 0..((n + 1) - 1)
  BY <1>1, <1>2
<1>5. PICK t \in DOMAIN r : IsLatest(r, t, n) /\ \A u \in t..(n - 1) : u \in DOMAIN sn
  BY DEF Tracks
<1>6. ASSUME NEW u \in DOMAIN s1
      PROVE  \E w \in DOMAIN r :
               IsLatest(r, w, u) /\ (s1[u] <=> r[w]) /\ (kept /\ r[w] => u < w + MaxSegment)
  <2>1. CASE u \in DOMAIN sn
    <3>1. PICK w \in DOMAIN r :
            IsLatest(r, w, u) /\ (sn[u] <=> r[w]) /\ (kept /\ r[w] => u < w + MaxSegment)
      BY <2>1 DEF Tracks
    <3>2. QED
      BY <1>2, <2>1, <3>1
  <2>2. CASE u \notin DOMAIN sn
    BY <1>2, <1>5, <2>2
  <2>3. QED
    BY <2>1, <2>2
<1>7. IsLatest(r, t, n + 1) /\ \A u \in t..((n + 1) - 1) : u \in DOMAIN s1
  <2>1. t \in Nat
    BY <1>1
  <2>2. \A u \in t..((n + 1) - 1) : u \in t..(n - 1) \/ u = n
    BY <2>1
  <2>3. QED
    BY <1>1, <1>2, <1>5, <2>2, LatestLater
<1>8. Broken(r, s1, TRUE, n + 1) \subseteq Broken(r, sn, TRUE, n)
  <2> SUFFICES ASSUME NEW w \in Broken(r, s1, TRUE, n + 1) PROVE w \in Broken(r, sn, TRUE, n)
    OBVIOUS
  <2>1. PICK u \in 0..((n + 1) - 1) : IsLatest(r, w, u) /\ u \notin DOMAIN s1
    BY DEF Broken
  <2>2. u \in 0..(n - 1) /\ u \notin DOMAIN sn
    BY <1>2, <2>1
  <2>3. QED
    BY <2>1, <2>2 DEF Broken, IsLatest
<1>9. Cardinality(Broken(r, s1, TRUE, n + 1)) <= k
  <2>1. IsFiniteSet(Broken(r, sn, TRUE, n)) /\ Cardinality(Broken(r, sn, TRUE, n)) <= k
    BY <1>1, BrokenFinite DEF Tracks
  <2>2. QED
    BY <1>1, <1>8, <2>1, BrokenWithin
<1>10. QED
  BY <1>1, <1>3, <1>4, <1>6, <1>7, <1>9 DEF Tracks, s1
----
(* Every step keeps to it. *)

Shape ==
  /\ now \in 0..MaxTime /\ cast \in Casts
  /\ DOMAIN rows = Sources /\ DOMAIN seen = Sources /\ DOMAIN starts = Sources
  /\ DOMAIN losses = Sources /\ polled \in [Sources -> BOOLEAN]
  /\ \A s \in Sources : losses[s] \in Nat /\ losses[s] <= MaxLosses[s]
Told(s) == Tracks(rows[s], seen[s], polled[s], starts[s], losses[s], now, s \in Stations)
Inv == Shape /\ \A s \in Sources : Told(s)

\* The invariant holds at the start.
LEMMA InitInv == Init => Inv
<1> SUFFICES ASSUME Init PROVE Inv
  OBVIOUS
<1>1. /\ DOMAIN Empty = {} /\ Empty \in [DOMAIN Empty -> BOOLEAN]
      /\ IsRows(Empty) /\ Starting(Empty) = {}
  BY FS_EmptySet DEF Empty, IsRows, Starting, Held
<1>2. \A s \in Sources : MaxLosses[s] \in Nat
  BY ReportingAssumption DEF Sources
<1>3. Shape
  BY <1>2, ReportingAssumption DEF Init, Shape
<1>4. ASSUME NEW s \in Sources PROVE Told(s)
  <2>1. /\ rows[s] = Empty /\ seen[s] = Empty /\ starts[s] = {} /\ losses[s] = 0 /\ now = 0
        /\ polled[s] = FALSE
    BY DEF Init
  <2>2. Broken(Empty, Empty, FALSE, 0) = {}
    BY <1>1 DEF Broken
  <2>3. Tracks(Empty, Empty, FALSE, {}, 0, 0, s \in Stations)
    <3>1. Cardinality({}) = 0
      BY FS_EmptySet
    <3> DEFINE c == Cardinality(Broken(Empty, Empty, FALSE, 0))
    <3>2. c = 0
      BY <2>2, <3>1, Zenon
    <3> HIDE DEF c
    <3>3. c <= 0
      BY <3>2
    <3>4. DOMAIN Empty \subseteq 0..0 /\ DOMAIN Empty \subseteq 0..(0 - 1)
      BY <1>1
    <3>5. \A u \in DOMAIN Empty : FALSE
      BY <1>1
    <3>6. QED
      BY <1>1, <3>3, <3>4, <3>5 DEF Tracks, c
  <2>4. QED
    BY <2>1, <2>3 DEF Told
<1>5. QED
  BY <1>3, <1>4 DEF Inv

\* What Last and WasOn say in terms of rows.
LEMMA LatestRow ==
  ASSUME Inv, NEW s \in Sources
  PROVE  /\ DOMAIN rows[s] # {} => IsLatest(rows[s], Last(s), now)
         /\ WasOn(s) <=> \E e \in DOMAIN rows[s] : rows[s][e] /\ IsLatest(rows[s], e, now)
         /\ IsRows(rows[s]) /\ now \in Nat
<1>1. IsRows(rows[s]) /\ now \in Nat /\ DOMAIN rows[s] \subseteq 0..now
  BY ReportingAssumption DEF Inv, Shape, Told, Tracks
<1>2. ASSUME DOMAIN rows[s] # {} PROVE IsLatest(rows[s], Last(s), now)
  <2>1. PICK w \in DOMAIN rows[s] : w <= now
    BY <1>1, <1>2
  <2>2. {t \in DOMAIN rows[s] : t <= now} = DOMAIN rows[s]
    BY <1>1
  <2>3. IsLatest(rows[s], Max({t \in DOMAIN rows[s] : t <= now}), now)
    BY <1>1, <2>1, SomeLatest
  <2>4. QED
    BY <2>2, <2>3 DEF Last
<1>3. WasOn(s) <=> \E e \in DOMAIN rows[s] : rows[s][e] /\ IsLatest(rows[s], e, now)
  <2>1. \A e \in DOMAIN rows[s] : IsLatest(rows[s], e, now) => e = Last(s)
    BY <1>1, <1>2, OneLatest
  <2>2. QED
    BY <1>2, <2>1 DEF WasOn, Value, IsLatest
<1>4. QED
  BY <1>1, <1>2, <1>3

\* A row of s, which is polled then.
LEMMA WriteKeeps ==
  ASSUME Inv, NEW s \in Sources, NEW v \in BOOLEAN, Write(s, v),
         polled' = [polled EXCEPT ![s] = TRUE]
  PROVE  Inv'
<1>1. /\ now \notin DOMAIN rows[s] /\ now' = now /\ seen' = seen /\ losses' = losses /\ cast' = cast
      /\ rows' = [rows EXCEPT ![s] = Add(rows[s], now, v)]
      /\ starts' = IF v /\ ~WasOn(s) THEN [starts EXCEPT ![s] = starts[s] \cup {now}] ELSE starts
  BY DEF Write, Add
<1>2. Shape'
  BY <1>1 DEF Inv, Shape
<1>3. ASSUME NEW x \in Sources, x # s PROVE Told(x)'
  <2>1. /\ rows'[x] = rows[x] /\ starts'[x] = starts[x] /\ polled'[x] = polled[x]
    BY <1>1, <1>3 DEF Inv, Shape
  <2>2. QED
    BY <1>1, <2>1 DEF Inv, Told
<1>4. Told(s)'
  <2>1. /\ rows'[s] = Add(rows[s], now, v) /\ polled'[s] = TRUE
        /\ starts'[s] = IF v /\ ~WasOn(s) THEN starts[s] \cup {now} ELSE starts[s]
    BY <1>1 DEF Inv, Shape
  <2>2. starts'[s] = IF v /\ ~\E e \in DOMAIN rows[s] : rows[s][e] /\ IsLatest(rows[s], e, now)
                     THEN starts[s] \cup {now} ELSE starts[s]
    BY <2>1, LatestRow
  <2>3. Tracks(rows[s], seen[s], polled[s], starts[s], losses[s], now, s \in Stations) /\ now \in Nat
    BY LatestRow DEF Inv, Told
  <2>4. Tracks(Add(rows[s], now, v), seen[s], TRUE, starts'[s], losses[s], now, s \in Stations)
    BY <1>1, <2>2, <2>3, TracksAdd
  <2>5. QED
    BY <1>1, <2>1, <2>4 DEF Told
<1>5. QED
  BY <1>2, <1>3, <1>4 DEF Inv

\* A source answers again.
LEMMA ReturnKeeps == ASSUME Inv, NEW s \in Sources, Return(s) PROVE Inv'
BY WriteKeeps DEF Return

\* An edge.
LEMMA FlipKeeps == ASSUME Inv, NEW s \in Sources, Flip(s) PROVE Inv'
<1>1. polled' = [polled EXCEPT ![s] = TRUE]
  BY DEF Flip, Inv, Shape
<1>2. QED
  BY <1>1, WriteKeeps DEF Flip

\* A re-assert.
LEMMA RepeatKeeps == ASSUME Inv, NEW p \in Stations, Repeat(p) PROVE Inv'
<1>1. p \in Sources /\ polled' = [polled EXCEPT ![p] = TRUE]
  BY DEF Repeat, Inv, Shape, Sources
<1>2. QED
  BY <1>1, WriteKeeps DEF Repeat

\* A loss.
LEMMA LoseKeeps == ASSUME Inv, NEW s \in Sources, Lose(s) PROVE Inv'
<1>1. /\ polled[s] /\ losses[s] < MaxLosses[s]
      /\ polled' = [polled EXCEPT ![s] = FALSE] /\ losses' = [losses EXCEPT ![s] = losses[s] + 1]
      /\ now' = now /\ rows' = rows /\ seen' = seen /\ starts' = starts /\ cast' = cast
  BY DEF Lose
<1>2. MaxLosses[s] \in Nat /\ losses[s] \in Nat
  BY ReportingAssumption DEF Sources, Inv, Shape
<1>3. Shape'
  BY <1>1, <1>2 DEF Inv, Shape
<1>4. ASSUME NEW x \in Sources, x # s PROVE Told(x)'
  <2>1. losses'[x] = losses[x] /\ polled'[x] = polled[x]
    BY <1>1, <1>4 DEF Inv, Shape
  <2>2. QED
    BY <1>1, <2>1 DEF Inv, Told
<1>5. Told(s)'
  <2>1. losses'[s] = losses[s] + 1 /\ polled'[s] = FALSE /\ polled[s] = TRUE
    BY <1>1 DEF Inv, Shape
  <2>2. Tracks(rows[s], seen[s], TRUE, starts[s], losses[s], now, s \in Stations) /\ now \in Nat
    BY <2>1, LatestRow DEF Inv, Told
  <2>3. Tracks(rows[s], seen[s], FALSE, starts[s], losses[s] + 1, now, s \in Stations)
    BY <2>2, TracksLose
  <2>4. QED
    BY <1>1, <2>1, <2>3 DEF Told
<1>6. QED
  BY <1>3, <1>4, <1>5 DEF Inv

\* A unit of time passes.
LEMMA PassKeeps == ASSUME Inv, Pass PROVE Inv'
<1>0. \A p \in Stations : ~Due(p)
  BY DEF Pass
<1>1. /\ now < MaxTime /\ now' = now + 1
      /\ rows' = rows /\ polled' = polled /\ starts' = starts /\ losses' = losses /\ cast' = cast
      /\ DOMAIN seen' = Sources
  BY DEF Pass
<1>2. now \in Nat /\ MaxTime \in Nat
  BY ReportingAssumption DEF Inv, Shape
<1>3. Shape'
  <2>1. now' \in 0..MaxTime
    BY <1>1, <1>2
  <2>2. QED
    BY <1>1, <2>1 DEF Inv, Shape
<1>4. ASSUME NEW s \in Sources PROVE Told(s)'
  <2>1. seen'[s] = IF polled[s] THEN [u \in DOMAIN seen[s] \cup {now} |-> IF u = now THEN Value(s) ELSE seen[s][u]]
                                ELSE seen[s]
    BY DEF Pass
  <2>2. CASE ~polled[s]
    <3>1. polled[s] = FALSE /\ seen'[s] = seen[s]
      BY <2>1, <2>2 DEF Inv, Shape
    <3>2. Tracks(rows[s], seen[s], FALSE, starts[s], losses[s], now, s \in Stations)
      BY <3>1 DEF Inv, Told
    <3>3. Tracks(rows[s], seen[s], FALSE, starts[s], losses[s], now + 1, s \in Stations)
      BY <1>2, <3>2, TracksUnseen
    <3>4. QED
      BY <1>1, <3>1, <3>3 DEF Told
  <2>3. CASE polled[s]
    <3>1. polled[s] = TRUE /\ seen'[s] = Add(seen[s], now, Value(s))
      BY <2>1, <2>3 DEF Inv, Shape, Add
    <3>2. Tracks(rows[s], seen[s], TRUE, starts[s], losses[s], now, s \in Stations)
      BY <3>1 DEF Inv, Told
    <3>3. DOMAIN rows[s] # {}
      BY <3>2 DEF Tracks
    <3>4. IsLatest(rows[s], Last(s), now) /\ IsRows(rows[s])
      BY <3>3, LatestRow
    <3>5. Last(s) \in DOMAIN rows[s] /\ Last(s) \in Nat
      BY <3>4 DEF IsLatest, IsRows
    <3>6. Value(s) \in BOOLEAN
      BY <3>4, <3>5 DEF Value, IsRows
    <3>7. \A t \in DOMAIN rows[s] : IsLatest(rows[s], t, now) => t = Last(s)
      BY <1>2, <3>4, OneLatest
    <3>8. ASSUME s \in Stations, Value(s) PROVE now < Last(s) + MaxSegment
      <4>1. WasOn(s) /\ ~Due(s)
        BY <1>0, <3>3, <3>8 DEF WasOn
      <4>2. ~(now + 1 - Last(s) > MaxSegment)
        BY <2>3, <4>1 DEF Due
      <4>3. MaxSegment \in Nat
        BY ViewsAssumption
      <4>4. QED
        BY <1>2, <3>5, <4>2, <4>3
    <3>9. \A t \in DOMAIN rows[s] : IsLatest(rows[s], t, now) =>
            (Value(s) <=> rows[s][t]) /\ (s \in Stations /\ rows[s][t] => now < t + MaxSegment)
      BY <3>7, <3>8 DEF Value
    <3>10. Tracks(rows[s], Add(seen[s], now, Value(s)), TRUE, starts[s], losses[s], now + 1, s \in Stations)
      BY <1>2, <3>2, <3>6, <3>9, TracksSeen
    <3>11. QED
      BY <1>1, <3>1, <3>10 DEF Told
  <2>4. QED
    BY <2>2, <2>3
<1>5. QED
  BY <1>3, <1>4 DEF Inv

\* Every step keeps the invariant.
LEMMA StepInv == Inv /\ [Next]_vars => Inv'
<1> SUFFICES ASSUME Inv, [Next]_vars PROVE Inv'
  OBVIOUS
<1>1. CASE UNCHANGED vars
  BY <1>1 DEF vars, Inv, Shape, Told
<1>2. CASE Next
  BY <1>2, ReturnKeeps, FlipKeeps, LoseKeeps, RepeatKeeps, PassKeeps DEF Next
<1>3. QED
  BY <1>1, <1>2

\* The inductive invariant: of every source, the rows tell what was seen of it.
THEOREM InvHolds == Spec => []Inv
<1>1. QED
  BY InitInv, StepInv, PTL DEF Spec

\* Type correctness of the table, of what was seen and of the clock.
THEOREM TypeCorrect == Spec => []TypeOK
<1>1. Inv => TypeOK
  <2> SUFFICES ASSUME Inv PROVE TypeOK
    OBVIOUS
  <2>1. ASSUME NEW s \in Sources
        PROVE  /\ DOMAIN rows[s] \subseteq 0..now /\ DOMAIN seen[s] \subseteq 0..(now - 1)
               /\ starts[s] \subseteq Held(rows[s])
               /\ losses[s] \in 0..MaxLosses[s]
    <3>1. Told(s) /\ losses[s] \in Nat /\ losses[s] <= MaxLosses[s]
      BY DEF Inv, Shape
    <3>2. MaxLosses[s] \in Nat
      BY ReportingAssumption DEF Sources
    <3>3. QED
      BY <3>1, <3>2 DEF Told, Tracks, Starting
  <2>2. QED
    BY <2>1 DEF Inv, Shape, TypeOK
<1>2. QED
  BY <1>1, InvHolds, PTL
----
(* What the views and the queries say of such rows. *)

\* What s is known by, in the present state.
LEMMA SourceIs ==
  ASSUME Inv, NEW s \in Sources
  PROVE  /\ IsRows(rows[s]) /\ DOMAIN rows[s] \subseteq 0..now /\ now \in Nat
         /\ Tracks(rows[s], seen[s], polled[s], starts[s], losses[s], now, s \in Stations)
         /\ losses[s] \in Nat /\ starts[s] = Starting(rows[s])
         /\ DOMAIN seen[s] \subseteq 0..(now - 1)
         /\ \A u \in DOMAIN seen[s] : \E t \in DOMAIN rows[s] :
              /\ IsLatest(rows[s], t, u) /\ (seen[s][u] <=> rows[s][t])
              /\ s \in Stations /\ rows[s][t] => u < t + MaxSegment
BY LatestRow DEF Inv, Told, Tracks

\* The segments of a relay: the instants it is charged, and one segment per start.
LEMMA SegmentIs ==
  ASSUME NEW r, NEW n \in Nat, IsRows(r), DOMAIN r \subseteq 0..n
  PROVE  /\ AreSegments(Segment(r, n))
         /\ Units(Segment(r, n)) = Charge(r, Held(r), n)
         /\ \A s \in Segment(r, n) :
              /\ s.a \in Nat /\ s.b \in Nat /\ s.a < s.b
              /\ \A u \in s.a..(s.b - 1) : IsLatest(r, s.a, u)
         /\ \A s, x \in Segment(r, n) : s.a = x.a => s = x
<1> DEFINE T == {t \in Held(r) : Duration(r, t, n) > 0}
           g == [t \in T |-> [a |-> t, b |-> t + Duration(r, t, n)]]
<1>1. \A t \in Held(r) : t \in DOMAIN r /\ t \in Nat /\ Duration(r, t, n) \in Nat
  <2>1. \A t \in Held(r) : t \in DOMAIN r /\ t \in Nat
    BY DEF Held, IsRows
  <2>2. \A t \in DOMAIN r : Duration(r, t, n) \in Nat
    BY DurationIs, ViewsAssumption
  <2>3. QED
    BY <2>1, <2>2
<1>2. Segment(r, n) = {g[t] : t \in T}
  BY DEF Segment
<1>3. \A s \in Segment(r, n) : \E t \in T : s = [a |-> t, b |-> t + Duration(r, t, n)]
  BY DEF Segment
<1>4. \A s \in Segment(r, n) : s.a \in T /\ s.b = s.a + Duration(r, s.a, n) /\ s = [a |-> s.a, b |-> s.b]
  BY <1>3
<1>5. IsFiniteSet(Segment(r, n))
  <2>1. IsFiniteSet(T)
    BY <1>1, FS_Subset DEF IsRows
  <2> HIDE DEF g, T
  <2>2. QED
    BY <1>2, <2>1, FiniteImage
<1>6. \A s \in Segment(r, n) :
        /\ s.a \in Nat /\ s.b \in Nat /\ s.a < s.b
        /\ \A u \in s.a..(s.b - 1) : IsLatest(r, s.a, u)
  <2> TAKE s \in Segment(r, n)
  <2>1. s.a \in Held(r) /\ Duration(r, s.a, n) > 0 /\ s.b = s.a + Duration(r, s.a, n)
    BY <1>4
  <2>2. s.a \in DOMAIN r /\ s.a \in Nat /\ Duration(r, s.a, n) \in Nat
    BY <1>1, <2>1
  <2>3. \A u \in s.a..(s.b - 1) : IsLatest(r, s.a, u)
    BY <2>1, <2>2, DurationIs
  <2>4. QED
    BY <2>1, <2>2, <2>3
<1>7. ASSUME NEW u, u \in Units(Segment(r, n)) PROVE u \in Charge(r, Held(r), n)
  <2>1. PICK s \in Segment(r, n) : u \in s.a..(s.b - 1)
    BY <1>7 DEF Units
  <2>2. s.a \in Held(r) /\ s.b = s.a + Duration(r, s.a, n)
    BY <1>4
  <2> DEFINE t == s.a
  <2>3. t \in Held(r) /\ u \in t..(t + Duration(r, t, n) - 1)
    <3>1. t \in Nat /\ Duration(r, t, n) \in Nat /\ s.b = t + Duration(r, t, n)
      BY <1>1, <2>2
    <3>2. u \in t..(s.b - 1) /\ t \in Held(r)
      BY <2>1, <2>2
    <3> HIDE DEF t
    <3>3. QED
      BY <3>1, <3>2
  <2> HIDE DEF t
  <2>4. QED
    BY <2>3 DEF Charge
<1>8. ASSUME NEW u, u \in Charge(r, Held(r), n) PROVE u \in Units(Segment(r, n))
  <2>1. PICK t \in Held(r) : u \in t..(t + Duration(r, t, n) - 1)
    BY <1>8 DEF Charge
  <2>2. Duration(r, t, n) > 0
    BY <1>1, <2>1
  <2> DEFINE s == [a |-> t, b |-> t + Duration(r, t, n)]
  <2>3. s \in Segment(r, n)
    BY <2>2 DEF Segment
  <2>4. s.a = t /\ s.b = t + Duration(r, t, n)
    OBVIOUS
  <2> HIDE DEF s
  <2>5. u \in s.a..(s.b - 1)
    BY <1>1, <2>1, <2>4
  <2>6. QED
    BY <2>3, <2>5 DEF Units
<1>9. \A s, x \in Segment(r, n) : s.a = x.a => s = x
  BY <1>4
<1>10. QED
  BY <1>5, <1>6, <1>7, <1>8, <1>9 DEF AreSegments

\* The stretches of v_retencion_fusionada cover what the stations are charged, day by day,
\* and never touch.
THEOREM FusedUnion == Spec => []FusedIsUnion
<1>1. Inv => FusedIsUnion
  <2> SUFFICES ASSUME Inv, NEW d \in 0..DayOf(now),
                      NEW S, S = {s \in UNION {Segments(p) : p \in Stations} : DayOf(s.a) = d}
               PROVE  /\ Units(Fused(S)) = Units(S)
                      /\ \A x, y \in Fused(S) : x.a < y.a => x.b < y.a
    BY DEF FusedIsUnion
  <2> DEFINE g == [p \in Stations |-> Segments(p)]
             A == UNION {g[p] : p \in Stations}
  <2>1. \A p \in Stations : AreSegments(g[p])
    BY SourceIs, SegmentIs DEF Segments, Sources
  <2>2. IsFiniteSet(A)
    <3>1. \A T \in {g[p] : p \in Stations} : IsFiniteSet(T)
      BY <2>1 DEF AreSegments
    <3>2. IsFiniteSet({g[p] : p \in Stations})
      <4> HIDE DEF g
      <4>1. QED
        BY FiniteImage, ReportingAssumption
    <3>3. QED
      BY <3>1, <3>2, FS_UNION
  <2>3. S \in SUBSET A
    OBVIOUS
  <2>4. AreSegments(S)
    BY <2>1, <2>2, <2>3, FS_Subset DEF AreSegments
  <2>5. QED
    BY <2>4, FusedIs
<1>2. QED
  BY <1>1, InvHolds, PTL

\* v_parada has the stops that were seen to begin, and they add up to the segments.
THEOREM SeenStops == Spec => []StopsAreSeen
<1>1. Inv => StopsAreSeen
  <2> SUFFICES ASSUME Inv, NEW p \in Stations
               PROVE  /\ {s.inicio : s \in Stops(rows[p], now)} = starts[p]
                      /\ Total(Stops(rows[p], now), LAMBDA s : s.duracion) = Retention(rows[p], now)
    BY DEF StopsAreSeen
  <2>1. /\ IsRows(rows[p]) /\ DOMAIN rows[p] \subseteq 0..now /\ now \in Nat
        /\ starts[p] = Starting(rows[p])
    BY SourceIs DEF Sources
  <2>2. Stops(rows[p], now) = {StopAt(rows[p], t, now) : t \in Starting(rows[p])}
    BY <2>1, StopsAre
  <2>3. \A t : StopAt(rows[p], t, now).inicio = t
    BY DEF StopAt, Total
  <2>4. {s.inicio : s \in Stops(rows[p], now)} = starts[p]
    BY <2>1, <2>2, <2>3
  <2>5. Total(Stops(rows[p], now), LAMBDA s : s.duracion) = Retention(rows[p], now)
    BY <2>1, StopsTotal
  <2>6. QED
    BY <2>4, <2>5
<1>2. QED
  BY <1>1, InvHolds, PTL

\* What is charged without having been seen is a capped piece for each loss at most.
LEMMA BeyondSeen ==
  ASSUME NEW r, NEW sn, NEW on, NEW st, NEW k, NEW n \in Nat, NEW kept,
         Tracks(r, sn, on, st, k, n, kept),
         NEW U, NEW A, IsFiniteSet(U),
         \A t \in Broken(r, sn, on, n) : A[t] \in Int,
         U \ DOMAIN sn \subseteq UNION {A[t]..(A[t] + MaxSegment - 1) : t \in Broken(r, sn, on, n)}
  PROVE  Cardinality(U) <= Cardinality(U \cap DOMAIN sn) + MaxSegment * k
<1> DEFINE B == Broken(r, sn, on, n)
           V == U \cap DOMAIN sn
           X == U \ DOMAIN sn
           b == Cardinality(B)
<1>1. IsRows(r) /\ k \in Nat /\ Cardinality(B) <= k
  BY DEF Tracks
<1>2. IsFiniteSet(B) /\ b \in Nat /\ b <= k
  BY <1>1, BrokenFinite
<1>3. MaxSegment \in Nat
  BY ViewsAssumption
<1> HIDE DEF B
<1>4. IsFiniteSet(X) /\ Cardinality(X) <= MaxSegment * b
  BY <1>2, <1>3, Cover DEF B
<1>5. /\ IsFiniteSet(V) /\ IsFiniteSet(U)
      /\ Cardinality(X) = Cardinality(U) - Cardinality(V)
  BY FS_Difference, FS_Intersection
<1>6. Cardinality(V) \in Nat /\ Cardinality(X) \in Nat /\ Cardinality(U) \in Nat
  BY <1>4, <1>5, FS_CardinalityType
<1> HIDE DEF b
<1>7. MaxSegment * b <= MaxSegment * k
  BY <1>1, <1>2, <1>3
<1>8. MaxSegment * b \in Nat /\ MaxSegment * k \in Nat
  BY <1>1, <1>2, <1>3
<1> HIDE DEF V, X
<1>9. Cardinality(U) <= Cardinality(V) + MaxSegment * k
  BY <1>4, <1>5, <1>6, <1>7, <1>8
<1>10. QED
  BY <1>9 DEF V

\* A station is charged what it was seen held and a capped segment for each loss at most.
THEOREM HeldReported == Spec => []ReportedIsHeld
<1>1. Inv => ReportedIsHeld
  <2> SUFFICES ASSUME Inv, NEW p \in Stations
               PROVE  /\ Units(Segments(p)) \cap DOMAIN seen[p] = Held(seen[p])
                      /\ Retention(rows[p], now) <= Cardinality(Held(seen[p])) + MaxSegment * losses[p]
                      /\ losses[p] = 0 => ~\E t \in Held(rows[p]) : IsGap(rows[p], t, now)
    BY DEF ReportedIsHeld
  <2> DEFINE r == rows[p]
             sn == seen[p]
             U == Charge(r, Held(r), now)
             B == Broken(r, sn, polled[p], now)
             A == [t \in B |-> t]
  <2>1. /\ IsRows(r) /\ DOMAIN r \subseteq 0..now /\ now \in Nat
        /\ Tracks(r, sn, polled[p], starts[p], losses[p], now, p \in Stations)
        /\ losses[p] \in Nat /\ DOMAIN sn \subseteq 0..(now - 1)
        /\ \A u \in DOMAIN sn : \E t \in DOMAIN r :
             IsLatest(r, t, u) /\ (sn[u] <=> r[t]) /\ (r[t] => u < t + MaxSegment)
    BY SourceIs DEF Sources
  <2> HIDE DEF r, sn
  <2>2. /\ U \subseteq 0..(now - 1) /\ IsFiniteSet(U)
        /\ \A u : u \in U <=> /\ u \in Int /\ u < now
                              /\ \E t \in Held(r) : IsLatest(r, t, u) /\ u < t + MaxSegment
        /\ Retention(r, now) = Cardinality(U)
    <3>1. Held(r) \in SUBSET DOMAIN r
      BY DEF Held
    <3>2. QED
      BY <2>1, <3>1, ChargeIs DEF Retention, Total
  <2>3. U \cap DOMAIN sn = Held(sn)
    <3>1. ASSUME NEW u \in DOMAIN sn PROVE u \in U <=> sn[u]
      <4>1. PICK t \in DOMAIN r : IsLatest(r, t, u) /\ (sn[u] <=> r[t]) /\ (r[t] => u < t + MaxSegment)
        BY <2>1
      <4>2. u \in Int /\ u < now
        BY <2>1
      <4>3. \A w : IsLatest(r, w, u) => w = t
        BY <2>1, <4>1, <4>2, OneLatest
      <4>4. QED
        BY <2>2, <4>1, <4>2, <4>3 DEF Held
    <3>2. QED
      BY <3>1 DEF Held
  <2>4. \A t \in B : t \in DOMAIN r /\ t \in Nat /\ A[t] = t
    BY <2>1 DEF Broken, IsRows
  <2>5. U \ DOMAIN sn \subseteq UNION {A[t]..(A[t] + MaxSegment - 1) : t \in B}
    <3> SUFFICES ASSUME NEW u \in U, u \notin DOMAIN sn
                 PROVE  \E t \in B : u \in A[t]..(A[t] + MaxSegment - 1)
      OBVIOUS
    <3>1. PICK t \in Held(r) : IsLatest(r, t, u) /\ u < t + MaxSegment
      BY <2>2
    <3>2. t \in DOMAIN r /\ u \in 0..(now - 1)
      BY <2>2 DEF Held
    <3>3. t \in B
      BY <3>1, <3>2 DEF Broken
    <3>4. u \in t..(t + MaxSegment - 1)
      BY <2>4, <3>1, <3>2, <3>3, ViewsAssumption DEF IsLatest
    <3>5. QED
      BY <2>4, <3>3, <3>4
  <2>6. Cardinality(U) <= Cardinality(U \cap DOMAIN sn) + MaxSegment * losses[p]
    <3>1. \A t \in B : A[t] \in Int
      BY <2>4
    <3> HIDE DEF A, U
    <3>2. QED
      BY <2>1, <2>2, <2>5, <3>1, BeyondSeen
  <2>7. ASSUME losses[p] = 0, NEW t \in Held(r), IsGap(r, t, now) PROVE FALSE
    <3>1. t \in DOMAIN r /\ t \in Nat /\ MaxSegment \in Nat
      BY <2>1, ViewsAssumption DEF Held, IsRows
    <3>2. /\ Lead(r, t, now) \in Int /\ Lead(r, t, now) - t > MaxSegment
          /\ \A w \in DOMAIN r : w > t => Lead(r, t, now) <= w
          /\ \/ Lead(r, t, now) = now
             \/ Lead(r, t, now) \in DOMAIN r
      BY <2>1, <2>7, <3>1, LeadIs DEF IsGap
    <3> DEFINE u == t + MaxSegment
    <3>3. u \in Nat /\ u >= t /\ u < Lead(r, t, now) /\ u < now
      BY <2>1, <3>1, <3>2
    <3>4. IsLatest(r, t, u)
      <4>1. \A w \in DOMAIN r : w \in Nat
        BY <2>1
      <4>2. \A w \in DOMAIN r : w <= u => w <= t
        BY <3>1, <3>2, <3>3, <4>1
      <4>3. QED
        BY <3>1, <3>3, <4>2 DEF IsLatest
    <3>5. B = {}
      <4>1. IsFiniteSet(B) /\ Cardinality(B) \in Nat /\ Cardinality(B) <= 0
        BY <2>1, <2>7, BrokenFinite DEF Tracks
      <4>2. QED
        BY <4>1, FS_EmptySet
    <3>6. u \in DOMAIN sn
      BY <2>1, <3>1, <3>3, <3>4, <3>5 DEF Broken
    <3>7. PICK w \in DOMAIN r : IsLatest(r, w, u) /\ (r[w] => u < w + MaxSegment)
      BY <2>1, <3>6
    <3>8. w = t
      BY <2>1, <3>3, <3>4, <3>7, OneLatest
    <3>9. QED
      BY <3>1, <3>7, <3>8 DEF Held
  <2>8. Units(Segments(p)) = U
    BY <2>1, SegmentIs DEF Segments, r
  <2>9. QED
    BY <2>2, <2>3, <2>6, <2>7, <2>8 DEF r, sn
<1>2. QED
  BY <1>1, InvHolds, PTL

----
(* Windows, slots and shifts. *)

\* What is left of a row's time between ini and fin.
LEMMA PieceIs ==
  ASSUME NEW r, IsRows(r), NEW t \in DOMAIN r, NEW ini \in Int, NEW fin \in Int
  PROVE  /\ Greatest(t, ini) \in Int /\ Least(Lead(r, t, fin), fin) \in Int
         /\ \A u \in Int : u \in Greatest(t, ini)..(Least(Lead(r, t, fin), fin) - 1)
                             <=> IsLatest(r, t, u) /\ ini <= u /\ u < fin
<1> DEFINE l == Lead(r, t, fin)
<1>1. t \in Nat /\ \A w \in DOMAIN r : w \in Nat
  BY DEF IsRows
<1>2. /\ l \in Int
      /\ \A w \in DOMAIN r : w > t => l <= w
      /\ \/ l = fin /\ \A w \in DOMAIN r : ~(w > t)
         \/ l \in DOMAIN r /\ l > t
  BY <1>1, LeadIs
<1> HIDE DEF l
<1>3. \A u \in Int : t <= u /\ u < fin => (u < l <=> IsLatest(r, t, u))
  <2> SUFFICES ASSUME NEW u \in Int, t <= u, u < fin PROVE u < l <=> IsLatest(r, t, u)
    OBVIOUS
  <2>1. ASSUME u < l PROVE IsLatest(r, t, u)
    <3>1. \A w \in DOMAIN r : w <= u => w <= t
      BY <1>1, <1>2, <2>1
    <3>2. QED
      BY <3>1 DEF IsLatest
  <2>2. ASSUME IsLatest(r, t, u), ~(u < l) PROVE FALSE
    <3>1. l \in DOMAIN r /\ l > t
      BY <1>2, <2>2
    <3>2. l <= t
      BY <1>2, <2>2, <3>1 DEF IsLatest
    <3>3. QED
      BY <1>1, <1>2, <3>1, <3>2
  <2>3. QED
    BY <2>1, <2>2
<1>4. /\ Greatest(t, ini) = IF t >= ini THEN t ELSE ini
      /\ Least(l, fin) = IF l <= fin THEN l ELSE fin
  BY DEF Greatest, Least
<1>5. \A u \in Int : u \in Greatest(t, ini)..(Least(l, fin) - 1) <=> t <= u /\ ini <= u /\ u < l /\ u < fin
  BY <1>1, <1>2, <1>4
<1>6. \A u \in Int : u \in Greatest(t, ini)..(Least(l, fin) - 1) <=> IsLatest(r, t, u) /\ ini <= u /\ u < fin
  BY <1>3, <1>5 DEF IsLatest
<1>7. Greatest(t, ini) \in Int /\ Least(l, fin) \in Int
  BY <1>1, <1>2, <1>4
<1>8. QED
  BY <1>6, <1>7 DEF l

\* The pieces of the rows of T.
Pieces(r, T, ini, fin) ==
  {s \in {[a |-> Greatest(t, ini), b |-> Least(Lead(r, t, fin), fin)] : t \in T} : s.b > s.a}

\* A piece is of a row, and holds the instants of the window at which it is the latest.
LEMMA PieceOf ==
  ASSUME NEW r, IsRows(r), NEW T \in SUBSET DOMAIN r, NEW ini \in Int, NEW fin \in Int,
         NEW s \in Pieces(r, T, ini, fin)
  PROVE  \E t \in T :
           /\ s = [a |-> Greatest(t, ini), b |-> Least(Lead(r, t, fin), fin)]
           /\ s.a = Greatest(t, ini) /\ s.a < s.b /\ s.a \in Int /\ s.b \in Int
           /\ \A u \in Int : u \in s.a..(s.b - 1) <=> IsLatest(r, t, u) /\ ini <= u /\ u < fin
<1>1. PICK t \in T : s = [a |-> Greatest(t, ini), b |-> Least(Lead(r, t, fin), fin)] /\ s.b > s.a
  BY DEF Pieces
<1>2. s.a = Greatest(t, ini) /\ s.b = Least(Lead(r, t, fin), fin)
  BY <1>1
<1>3. /\ Greatest(t, ini) \in Int /\ Least(Lead(r, t, fin), fin) \in Int
      /\ \A u \in Int : u \in Greatest(t, ini)..(Least(Lead(r, t, fin), fin) - 1)
                          <=> IsLatest(r, t, u) /\ ini <= u /\ u < fin
  BY PieceIs
<1>4. s.a < s.b
  BY <1>1, <1>2, <1>3
<1>5. QED
  BY <1>1, <1>2, <1>3, <1>4

\* An instant of the window is in the piece of the row that tells it.
LEMMA PieceAt ==
  ASSUME NEW r, IsRows(r), NEW T \in SUBSET DOMAIN r, NEW ini \in Int, NEW fin \in Int,
         NEW t \in T, NEW u \in Int, IsLatest(r, t, u), ini <= u, u < fin
  PROVE  \E s \in Pieces(r, T, ini, fin) : s.a = Greatest(t, ini) /\ u \in s.a..(s.b - 1)
<1> DEFINE s == [a |-> Greatest(t, ini), b |-> Least(Lead(r, t, fin), fin)]
<1>1. s.a = Greatest(t, ini) /\ s.b = Least(Lead(r, t, fin), fin)
  OBVIOUS
<1>2. s.a \in Int /\ s.b \in Int /\ u \in s.a..(s.b - 1)
  BY PieceIs
<1>3. s.b > s.a
  BY <1>2
<1>4. s \in Pieces(r, T, ini, fin)
  BY <1>3 DEF Pieces
<1>5. QED
  BY <1>1, <1>2, <1>4

\* No instant is in two pieces.
LEMMA PiecesApart ==
  ASSUME NEW r, IsRows(r), NEW T \in SUBSET DOMAIN r, NEW ini \in Int, NEW fin \in Int,
         NEW s \in Pieces(r, T, ini, fin), NEW x \in Pieces(r, T, ini, fin),
         NEW u \in Int, u \in s.a..(s.b - 1), u \in x.a..(x.b - 1)
  PROVE  s = x
<1>1. PICK t \in T : s = [a |-> Greatest(t, ini), b |-> Least(Lead(r, t, fin), fin)] /\ IsLatest(r, t, u)
  BY PieceOf
<1>2. PICK w \in T : x = [a |-> Greatest(w, ini), b |-> Least(Lead(r, w, fin), fin)] /\ IsLatest(r, w, u)
  BY PieceOf
<1>3. t = w
  BY <1>1, <1>2, OneLatest
<1>4. QED
  BY <1>1, <1>2, <1>3

\* They are of finite number and hold the instants of the window that a row of T tells.
LEMMA PiecesAre ==
  ASSUME NEW r, IsRows(r), NEW T \in SUBSET DOMAIN r, NEW ini \in Int, NEW fin \in Int
  PROVE  /\ AreSegments(Pieces(r, T, ini, fin))
         /\ \A u \in Int : u \in Units(Pieces(r, T, ini, fin))
                             <=> ini <= u /\ u < fin /\ \E t \in T : IsLatest(r, t, u)
<1> DEFINE S == Pieces(r, T, ini, fin)
           g == [t \in T |-> [a |-> Greatest(t, ini), b |-> Least(Lead(r, t, fin), fin)]]
<1>1. IsFiniteSet(S)
  <2>1. IsFiniteSet(T)
    BY FS_Subset DEF IsRows
  <2>2. S \subseteq {g[t] : t \in T}
    BY DEF Pieces
  <2>3. IsFiniteSet({g[t] : t \in T})
    <3> HIDE DEF g
    <3>1. QED
      BY <2>1, FiniteImage
  <2>4. QED
    BY <2>2, <2>3, FS_Subset
<1>2. \A s \in S : s.a \in Int /\ s.b \in Int
  BY PieceOf
<1>3. ASSUME NEW u \in Int
      PROVE  u \in Units(S) <=> ini <= u /\ u < fin /\ \E t \in T : IsLatest(r, t, u)
  <2>1. ASSUME u \in Units(S) PROVE ini <= u /\ u < fin /\ \E t \in T : IsLatest(r, t, u)
    <3>1. PICK s \in S : u \in s.a..(s.b - 1)
      BY <2>1 DEF Units
    <3>2. QED
      BY <3>1, PieceOf
  <2>2. ASSUME NEW t \in T, IsLatest(r, t, u), ini <= u, u < fin PROVE u \in Units(S)
    <3>1. PICK s \in S : u \in s.a..(s.b - 1)
      BY <2>2, PieceAt
    <3>2. QED
      BY <3>1 DEF Units
  <2>3. QED
    BY <2>1, <2>2
<1>4. QED
  BY <1>1, <1>2, <1>3 DEF AreSegments

\* The line is reported still when it was seen still, and never when it was seen running.
THEOREM LineStops == Spec => []LineStopsAreTrue
<1>1. Inv => LineStopsAreTrue
  <2> SUFFICES ASSUME Inv, NEW ini \in 0..now
               PROVE  Units(StoppedOver(rows[Line], ini, now, now)) \cap DOMAIN seen[Line]
                        = {u \in DOMAIN seen[Line] \ Held(seen[Line]) : u >= ini}
    BY DEF LineStopsAreTrue
  <2> DEFINE r == rows[Line]
             sn == seen[Line]
             T == DOMAIN r \ Held(r)
             n == now
             S == Pieces(r, T, ini, n)
  <2>1. /\ IsRows(r) /\ n \in Nat /\ DOMAIN sn \subseteq 0..(n - 1) /\ ini \in Int
        /\ \A u \in DOMAIN sn : \E t \in DOMAIN r : IsLatest(r, t, u) /\ (sn[u] <=> r[t])
    BY SourceIs DEF Sources
  <2>2. T \in SUBSET DOMAIN r /\ \A t \in DOMAIN r : t \in T <=> ~r[t]
    BY DEF Held
  <2>3. Units(StoppedOver(r, ini, n, n)) = Units(Fused(S))
    BY DEF StoppedOver, Still, Pieces
  <2> HIDE DEF r, sn, n, T
  <2>4. Units(Fused(S)) = Units(S)
    <3>0. ini \in Int /\ n \in Int /\ IsRows(r) /\ T \in SUBSET DOMAIN r
      BY <2>1, <2>2
    <3>1. AreSegments(S)
      BY <3>0, PiecesAre
    <3> HIDE DEF S
    <3>2. QED
      BY <3>1, FusedIs
  <2>5. \A u \in Int : u \in Units(S) <=> ini <= u /\ u < n /\ \E t \in T : IsLatest(r, t, u)
    BY <2>1, <2>2, PiecesAre
  <2> HIDE DEF S
  <2>6. ASSUME NEW u \in DOMAIN sn PROVE u \in Units(S) <=> ~sn[u] /\ u >= ini
    <3>1. PICK t \in DOMAIN r : IsLatest(r, t, u) /\ (sn[u] <=> r[t])
      BY <2>1
    <3>2. u \in Int /\ u < n
      BY <2>1
    <3>3. \A w : IsLatest(r, w, u) => w = t
      BY <2>1, <3>1, <3>2, OneLatest
    <3>4. t \in T <=> ~sn[u]
      BY <2>2, <3>1
    <3>5. (\E w \in T : IsLatest(r, w, u)) <=> ~sn[u]
      BY <3>1, <3>3, <3>4
    <3>6. ini <= u <=> u >= ini
      BY <2>1, <3>2
    <3>7. QED
      BY <2>5, <3>2, <3>5, <3>6
  <2>7. Units(S) \cap DOMAIN sn = {u \in DOMAIN sn \ Held(sn) : u >= ini}
    BY <2>6 DEF Held
  <2>8. QED
    BY <2>3, <2>4, <2>7 DEF r, sn, n
<1>2. QED
  BY <1>1, InvHolds, PTL

\* The slot that holds a starts no later than one that does not end before it.
LEMMA SlotFloor ==
  ASSUME NEW a \in Nat, NEW f \in Nat, f % Slot = 0, a < f + Slot
  PROVE  (a \div Slot) * Slot \in Nat /\ (a \div Slot) * Slot <= f
<1>1. Slot \in Nat /\ Slot > 0
  BY ViewsAssumption
<1> DEFINE q == a \div Slot
           k == f \div Slot
<1>2. q \in Nat /\ a >= Slot * q /\ k \in Nat /\ f = Slot * k
  BY <1>1
<1> HIDE DEF q, k
<1>3. q <= k
  <2>1. Slot * q < Slot * (k + 1)
    BY <1>1, <1>2
  <2>2. QED
    BY <1>1, <1>2, <2>1
<1>4. q * Slot \in Nat /\ q * Slot <= f
  BY <1>1, <1>2, <1>3
<1>5. QED
  BY <1>4 DEF q

\* Segments that share no instant: what a slot holds of them is the instants it has of them.
LEMMA SlotIs ==
  ASSUME NEW S, AreSegments(S), \A s \in S : s.a \in Nat,
         \A s, x \in S : \A u \in Int : u \in s.a..(s.b - 1) /\ u \in x.a..(x.b - 1) => s = x,
         NEW f \in Nat, f % Slot = 0
  PROVE  InSlot(S, f) = Cardinality(Units(S) \cap (f..(f + Slot - 1)))
<1> DEFINE T == {s \in S : f \in Slots(s) /\ Part(s, f).b > Part(s, f).a}
           P == [s \in T |-> Part(s, f).a..(Part(s, f).b - 1)]
           len == [s \in T |-> Part(s, f).b - Part(s, f).a]
<1>1. \A s \in S : s.a \in Nat /\ s.b \in Int /\ Slot \in Nat /\ Slot > 0
  BY ViewsAssumption DEF AreSegments
<1>2. \A s \in S : /\ Part(s, f).a \in Int /\ Part(s, f).b \in Int
                   /\ \A u \in Int : u \in Part(s, f).a..(Part(s, f).b - 1)
                                       <=> u \in s.a..(s.b - 1) /\ u \in f..(f + Slot - 1)
  <2> TAKE s \in S
  <2>1. Part(s, f).a = Greatest(s.a, f) /\ Part(s, f).b = Least(s.b, f + Slot)
    BY DEF Part
  <2>2. QED
    BY <1>1, <2>1 DEF Greatest, Least
<1>3. \A s \in S : s \in T <=> Part(s, f).b > Part(s, f).a
  <2> SUFFICES ASSUME NEW s \in S, Part(s, f).b > Part(s, f).a PROVE f \in Slots(s)
    OBVIOUS
  <2>1. Part(s, f).a = Greatest(s.a, f) /\ Part(s, f).b = Least(s.b, f + Slot)
    BY DEF Part
  <2>2. s.a < f + Slot /\ f < s.b
    BY <1>1, <2>1 DEF Greatest, Least
  <2>3. (s.a \div Slot) * Slot \in Nat /\ (s.a \div Slot) * Slot <= f
    BY <1>1, <2>2, SlotFloor
  <2>4. QED
    BY <1>1, <2>2, <2>3 DEF Slots
<1>4. T \in SUBSET S /\ IsFiniteSet(T)
  BY FS_Subset DEF AreSegments
<1>5. \A s \in T : P[s] = Part(s, f).a..(Part(s, f).b - 1) /\ len[s] = Part(s, f).b - Part(s, f).a
  OBVIOUS
<1>6. InSlot(S, f) = Cardinality(Spread(T, len))
  <2>1. UNION {{s} \X (1..(Part(s, f).b - Part(s, f).a)) : s \in T} = Spread(T, len)
    BY DEF Spread
  <2>2. QED
    BY <2>1 DEF InSlot, Total
<1> HIDE DEF T, P, len
<1>7. \A s \in T : IsFiniteSet(P[s]) /\ len[s] = Cardinality(P[s])
  <2> TAKE s \in T
  <2> DEFINE c == Part(s, f).a
             d == Part(s, f).b
  <2>1. c \in Int /\ d \in Int /\ d > c /\ P[s] = c..(d - 1) /\ len[s] = d - c
    BY <1>2, <1>3, <1>4, <1>5
  <2> HIDE DEF c, d
  <2>2. IsFiniteSet(c..(d - 1)) /\ Cardinality(c..(d - 1)) = IF c > d - 1 THEN 0 ELSE (d - 1) - c + 1
    BY <2>1, FS_Interval
  <2>3. QED
    BY <2>1, <2>2
<1>8. \A s, x \in T : s # x => P[s] \cap P[x] = {}
  <2> SUFFICES ASSUME NEW s \in T, NEW x \in T, NEW u, u \in P[s], u \in P[x] PROVE s = x
    OBVIOUS
  <2>1. u \in Int
    BY <1>2, <1>4, <1>5
  <2>2. ASSUME NEW y \in T, u \in P[y] PROVE u \in y.a..(y.b - 1)
    <3>1. u \in Part(y, f).a..(Part(y, f).b - 1)
      BY <1>5, <2>2
    <3>2. QED
      BY <1>2, <1>4, <2>1, <3>1
  <2>3. QED
    BY <1>4, <2>1, <2>2
<1>9. UNION {P[s] : s \in T} = Units(S) \cap (f..(f + Slot - 1))
  <2>1. ASSUME NEW s \in T, NEW u \in P[s] PROVE u \in Units(S) /\ u \in f..(f + Slot - 1)
    <3>1. u \in Int
      BY <1>2, <1>4, <1>5
    <3>2. u \in s.a..(s.b - 1) /\ u \in f..(f + Slot - 1)
      BY <1>2, <1>4, <1>5, <3>1
    <3>3. QED
      BY <1>4, <3>2 DEF Units
  <2>2. ASSUME NEW u \in Units(S), u \in f..(f + Slot - 1) PROVE \E s \in T : u \in P[s]
    <3>1. PICK s \in S : u \in s.a..(s.b - 1)
      BY DEF Units
    <3>2. u \in Int
      BY <1>1, <3>1
    <3>3. u \in Part(s, f).a..(Part(s, f).b - 1)
      BY <1>2, <2>2, <3>1, <3>2
    <3>4. s \in T
      BY <1>2, <1>3, <3>3
    <3>5. QED
      BY <1>5, <3>3, <3>4
  <2>3. QED
    BY <2>1, <2>2
<1>10. Cardinality(Spread(T, len)) = Cardinality(UNION {P[s] : s \in T})
  BY <1>4, <1>7, <1>8, Partition
<1>11. QED
  BY <1>6, <1>9, <1>10

\* A slot holds what is charged within it.
THEOREM SlotsHold == Spec => []SlotsHoldTheirTime
<1>1. Inv => SlotsHoldTheirTime
  <2> SUFFICES ASSUME Inv, NEW p \in Stations, NEW f \in 0..(now + MaxSegment), f % Slot = 0,
                      NEW S, S = Segments(p)
               PROVE  InSlot(S, f) = Cardinality(Units(S) \cap (f..(f + Slot - 1)))
    BY DEF SlotsHoldTheirTime
  <2> DEFINE r == rows[p]
             n == now
  <2>1. IsRows(r) /\ DOMAIN r \subseteq 0..n /\ n \in Nat /\ S = Segment(r, n) /\ f \in Nat
    <3>1. IsRows(r) /\ DOMAIN r \subseteq 0..n /\ n \in Nat
      BY SourceIs DEF Sources
    <3>2. QED
      BY <3>1, ViewsAssumption DEF Segments
  <2> HIDE DEF r, n
  <2>2. /\ AreSegments(S)
        /\ \A s \in S : s.a \in Nat /\ \A u \in s.a..(s.b - 1) : IsLatest(r, s.a, u)
        /\ \A s, x \in S : s.a = x.a => s = x
    BY <2>1, SegmentIs
  <2>3. ASSUME NEW s \in S, NEW x \in S, NEW u \in Int, u \in s.a..(s.b - 1), u \in x.a..(x.b - 1)
        PROVE  s = x
    <3>1. IsLatest(r, s.a, u) /\ IsLatest(r, x.a, u)
      BY <2>2, <2>3
    <3>2. s.a = x.a
      BY <2>1, <3>1, OneLatest
    <3>3. QED
      BY <2>2, <3>2
  <2>4. QED
    BY <2>1, <2>2, <2>3, SlotIs
<1>2. QED
  BY <1>1, InvHolds, PTL

\* The rows that a query looks at.
LEMMA FromIs ==
  ASSUME NEW r, IsRows(r), NEW x \in Int
  PROVE  /\ IsRows(From(r, x))
         /\ \A t : t \in DOMAIN From(r, x) <=> t \in DOMAIN r /\ t >= x
         /\ \A t \in DOMAIN From(r, x) : From(r, x)[t] = r[t]
         /\ \A u \in Int : \A t : IsLatest(From(r, x), t, u) <=> t >= x /\ IsLatest(r, t, u)
<1> DEFINE q == From(r, x)
<1>1. \A t \in DOMAIN r : t \in Nat /\ r[t] \in BOOLEAN
  BY DEF IsRows
<1>2. DOMAIN q = {t \in DOMAIN r : t >= x} /\ \A t \in DOMAIN q : q[t] = r[t]
  BY DEF From
<1>3. q \in [DOMAIN q -> BOOLEAN]
  BY <1>1 DEF From
<1> HIDE DEF q
<1>4. IsRows(q)
  BY <1>1, <1>2, <1>3, FS_Subset DEF IsRows
<1>5. ASSUME NEW u \in Int, NEW t, IsLatest(q, t, u) PROVE t >= x /\ IsLatest(r, t, u)
  <2>1. t \in DOMAIN r /\ t \in Nat /\ t >= x /\ t <= u
    BY <1>1, <1>2, <1>5 DEF IsLatest
  <2>2. ASSUME NEW e \in DOMAIN r, e <= u PROVE e <= t
    <3>1. CASE e >= x
      BY <1>2, <1>5, <2>2, <3>1 DEF IsLatest
    <3>2. CASE ~(e >= x)
      BY <1>1, <2>1, <3>2
    <3>3. QED
      BY <3>1, <3>2
  <2>3. QED
    BY <2>1, <2>2 DEF IsLatest
<1>6. ASSUME NEW u \in Int, NEW t, t >= x, IsLatest(r, t, u) PROVE IsLatest(q, t, u)
  BY <1>2, <1>6 DEF IsLatest
<1>7. QED
  BY <1>2, <1>4, <1>5, <1>6 DEF q

\* The rows before the end of a window tell the instants before it.
LEMMA BeforeIs ==
  ASSUME NEW r, IsRows(r), NEW n \in Int
  PROVE  /\ IsRows(Before(r, n))
         /\ \A t : t \in DOMAIN Before(r, n) <=> t \in DOMAIN r /\ t < n
         /\ \A t \in DOMAIN Before(r, n) : Before(r, n)[t] = r[t]
         /\ \A u \in Int : \A t : u < n => (IsLatest(Before(r, n), t, u) <=> IsLatest(r, t, u))
<1> DEFINE q == Before(r, n)
<1>1. \A t \in DOMAIN r : t \in Nat /\ r[t] \in BOOLEAN
  BY DEF IsRows
<1>2. DOMAIN q = {t \in DOMAIN r : t < n} /\ \A t \in DOMAIN q : q[t] = r[t]
  BY DEF Before
<1>3. q \in [DOMAIN q -> BOOLEAN]
  BY <1>1 DEF Before
<1> HIDE DEF q
<1>4. IsRows(q)
  BY <1>1, <1>2, <1>3, FS_Subset DEF IsRows
<1>5. ASSUME NEW u \in Int, u < n PROVE \A e \in DOMAIN r : e <= u => e \in DOMAIN q
  BY <1>1, <1>2, <1>5
<1>6. ASSUME NEW u \in Int, NEW t, u < n PROVE IsLatest(q, t, u) <=> IsLatest(r, t, u)
  BY <1>2, <1>5, <1>6 DEF IsLatest
<1>7. QED
  BY <1>2, <1>4, <1>6 DEF q

\* The instants that a query counts for a relay.
LEMMA TimeHeldIs ==
  ASSUME NEW r, IsRows(r), NEW d \in Int, NEW n \in Int
  PROVE  \E U : /\ IsFiniteSet(U) /\ TimeHeld(r, d, n) = Cardinality(U)
                /\ U \subseteq d..(n - 1)
                /\ \A u \in d..(n - 1) :
                     u \in U <=> \E t \in DOMAIN r : /\ r[t] /\ t >= d - Reach /\ IsLatest(r, t, u)
                                                     /\ u < Greatest(t, d) + MaxSegment
<1> DEFINE x == d - Reach
           q == From(r, x)
           w == Before(q, n)
           T == Held(w)
           C == Pieces(w, T, d, n)
           P == [s \in C |-> s.a..(s.a + Least(s.b - s.a, MaxSegment) - 1)]
           len == [s \in C |-> Least(s.b - s.a, MaxSegment)]
           U == UNION {P[s] : s \in C}
<1>1. x \in Int /\ MaxSegment \in Nat /\ MaxSegment > 0
  BY ViewsAssumption
<1>2. Cut(r, d, n) = C
  BY DEF Cut, Pieces
<1> HIDE DEF x
<1>3. /\ IsRows(q)
      /\ \A t : t \in DOMAIN q <=> t \in DOMAIN r /\ t >= x
      /\ \A t \in DOMAIN q : q[t] = r[t]
      /\ \A u \in Int : \A t : IsLatest(q, t, u) <=> t >= x /\ IsLatest(r, t, u)
  BY <1>1, FromIs
<1> HIDE DEF q
<1>4. /\ IsRows(w)
      /\ \A t : t \in DOMAIN w <=> t \in DOMAIN q /\ t < n
      /\ \A t \in DOMAIN w : w[t] = q[t]
      /\ \A u \in Int : \A t : u < n => (IsLatest(w, t, u) <=> IsLatest(q, t, u))
  BY <1>3, BeforeIs
<1> HIDE DEF w
<1>5. T \in SUBSET DOMAIN w /\ \A t : t \in T <=> t \in DOMAIN w /\ w[t]
  BY DEF Held
<1>6. ASSUME NEW u \in Int, u < n
      PROVE  \A t : (t \in T /\ IsLatest(w, t, u)) <=> (t \in DOMAIN r /\ r[t] /\ t >= x /\ IsLatest(r, t, u))
  <2>1. \A t : IsLatest(w, t, u) <=> t >= x /\ IsLatest(r, t, u)
    BY <1>3, <1>4, <1>6
  <2>2. \A t : IsLatest(w, t, u) => t \in DOMAIN w /\ w[t] = r[t]
    BY <1>3, <1>4 DEF IsLatest
  <2>3. QED
    BY <1>5, <2>1, <2>2 DEF IsLatest
<1> HIDE DEF T
<1>7. AreSegments(C)
  BY <1>4, <1>5, PiecesAre
<1>8. ASSUME NEW s \in C
      PROVE  /\ s.a \in Int /\ s.b \in Int /\ Least(s.b - s.a, MaxSegment) \in Nat
             /\ \A u \in Int : u \in s.a..(s.a + Least(s.b - s.a, MaxSegment) - 1)
                                 <=> u \in s.a..(s.b - 1) /\ u < s.a + MaxSegment
  <2>1. s.a \in Int /\ s.b \in Int /\ s.a < s.b
    BY <1>4, <1>5, PieceOf
  <2>2. QED
    BY <1>1, <2>1 DEF Least
<1>9. \A s \in C : /\ P[s] = s.a..(s.a + Least(s.b - s.a, MaxSegment) - 1)
                   /\ len[s] = Least(s.b - s.a, MaxSegment)
  OBVIOUS
<1>10. TimeHeld(r, d, n) = Cardinality(Spread(C, len))
  <2>1. UNION {{s} \X (1..Least(s.b - s.a, MaxSegment)) : s \in C} = Spread(C, len)
    BY DEF Spread
  <2>2. QED
    BY <1>2, <2>1 DEF TimeHeld, Total
<1> HIDE DEF P, len
<1>11. \A s \in C : IsFiniteSet(P[s]) /\ len[s] = Cardinality(P[s])
  <2> TAKE s \in C
  <2> DEFINE c == s.a
             l == Least(s.b - s.a, MaxSegment)
  <2>1. c \in Int /\ l \in Nat /\ P[s] = c..(c + l - 1) /\ len[s] = l
    BY <1>8, <1>9
  <2> HIDE DEF c, l
  <2>2. IsFiniteSet(c..(c + l - 1)) /\ Cardinality(c..(c + l - 1)) = IF c > c + l - 1 THEN 0 ELSE (c + l - 1) - c + 1
    BY <2>1, FS_Interval
  <2>3. QED
    BY <2>1, <2>2
<1>12. \A s, y \in C : s # y => P[s] \cap P[y] = {}
  <2> SUFFICES ASSUME NEW s \in C, NEW y \in C, NEW u, u \in P[s], u \in P[y] PROVE s = y
    OBVIOUS
  <2>1. u \in Int
    BY <1>8, <1>9
  <2>2. u \in s.a..(s.b - 1)
    BY <1>8, <1>9, <2>1
  <2>3. u \in y.a..(y.b - 1)
    BY <1>8, <1>9, <2>1
  <2>4. \A e, o \in C : \A v \in Int : v \in e.a..(e.b - 1) /\ v \in o.a..(o.b - 1) => e = o
    BY <1>4, <1>5, PiecesApart
  <2> HIDE DEF C
  <2>5. QED
    BY <2>1, <2>2, <2>3, <2>4
<1>13. IsFiniteSet(U) /\ Cardinality(Spread(C, len)) = Cardinality(U)
  <2>1. IsFiniteSet(C)
    BY <1>7 DEF AreSegments
  <2> HIDE DEF C
  <2>2. QED
    BY <1>11, <1>12, <2>1, Partition
<1>14. ASSUME NEW u \in U
       PROVE  /\ u \in d..(n - 1)
              /\ \E t \in DOMAIN r : /\ r[t] /\ t >= x /\ IsLatest(r, t, u)
                                     /\ u < Greatest(t, d) + MaxSegment
  <2>1. PICK s \in C : u \in P[s]
    OBVIOUS
  <2>2. u \in Int /\ u \in s.a..(s.b - 1) /\ u < s.a + MaxSegment
    <3>1. u \in Int
      BY <1>8, <1>9, <2>1
    <3>2. QED
      BY <1>8, <1>9, <2>1, <3>1
  <2>3. PICK t \in T : s.a = Greatest(t, d) /\ IsLatest(w, t, u) /\ d <= u /\ u < n
    BY <1>4, <1>5, <2>2, PieceOf
  <2>4. t \in DOMAIN r /\ r[t] /\ t >= x /\ IsLatest(r, t, u)
    BY <1>6, <2>2, <2>3
  <2>5. QED
    BY <2>2, <2>3, <2>4
<1>15. ASSUME NEW u \in d..(n - 1), NEW t \in DOMAIN r, r[t], t >= x, IsLatest(r, t, u),
              u < Greatest(t, d) + MaxSegment
       PROVE  u \in U
  <2>1. u \in Int /\ d <= u /\ u < n
    OBVIOUS
  <2>2. t \in T /\ IsLatest(w, t, u)
    BY <1>6, <1>15, <2>1
  <2>3. PICK s \in C : s.a = Greatest(t, d) /\ u \in s.a..(s.b - 1)
    BY <1>4, <1>5, <2>1, <2>2, PieceAt
  <2>4. u \in P[s]
    BY <1>8, <1>9, <1>15, <2>1, <2>3
  <2>5. QED
    BY <2>4
<1> HIDE DEF U
<1>16. \A u \in d..(n - 1) :
          u \in U <=> \E t \in DOMAIN r : /\ r[t] /\ t >= x /\ IsLatest(r, t, u)
                                          /\ u < Greatest(t, d) + MaxSegment
  BY <1>14, <1>15
<1>17. U \subseteq d..(n - 1) /\ TimeHeld(r, d, n) = Cardinality(U)
  BY <1>10, <1>13, <1>14
<1>18. QED
  BY <1>13, <1>16, <1>17 DEF x

\* A window has all that was seen held in it, and a capped segment for each loss beyond it.
THEOREM QueryCounts == Spec => []QueryCountsWindow
<1>1. Inv => QueryCountsWindow
  <2> SUFFICES ASSUME Inv, NEW p \in Stations, NEW d \in 0..(now - 1),
                      NEW H, H = {u \in Held(seen[p]) : u >= d}
               PROVE  /\ Cardinality(H) <= TimeHeld(rows[p], d, now)
                      /\ TimeHeld(rows[p], d, now) <= Cardinality(H) + MaxSegment * losses[p]
    BY DEF QueryCountsWindow
  <2> DEFINE r == rows[p]
             sn == seen[p]
             n == now
             on == polled[p]
             k == losses[p]
             B == Broken(r, sn, on, n)
             A == [t \in B |-> Greatest(t, d)]
  <2>1. /\ IsRows(r) /\ n \in Nat /\ k \in Nat /\ DOMAIN sn \subseteq 0..(n - 1)
        /\ Tracks(r, sn, on, starts[p], k, n, p \in Stations)
        /\ \A u \in DOMAIN sn : \E t \in DOMAIN r :
             IsLatest(r, t, u) /\ (sn[u] <=> r[t]) /\ (r[t] => u < t + MaxSegment)
    BY SourceIs DEF Sources
  <2>2. d \in Nat /\ d < n
    BY <2>1
  <2>3. MaxSegment \in Nat /\ MaxSegment > 0 /\ Reach \in Int /\ Reach >= MaxSegment
    BY ViewsAssumption
  <2> HIDE DEF r, sn, n, on, k
  <2>4. PICK U : /\ IsFiniteSet(U) /\ TimeHeld(r, d, n) = Cardinality(U)
                 /\ U \subseteq d..(n - 1)
                 /\ \A u \in d..(n - 1) :
                      u \in U <=> \E t \in DOMAIN r : /\ r[t] /\ t >= d - Reach /\ IsLatest(r, t, u)
                                                      /\ u < Greatest(t, d) + MaxSegment
    BY <2>1, <2>2, TimeHeldIs
  <2>5. \A t \in DOMAIN r : t \in Nat /\ Greatest(t, d) \in Nat /\ Greatest(t, d) >= t
    BY <2>1, <2>2 DEF IsRows, Greatest
  <2>6. U \cap DOMAIN sn = H
    <3>1. ASSUME NEW u \in DOMAIN sn, u \in U PROVE u \in H
      <4>1. PICK t \in DOMAIN r : IsLatest(r, t, u) /\ (sn[u] <=> r[t])
        BY <2>1
      <4>2. u \in Int /\ u \in d..(n - 1) /\ u >= d
        BY <2>1, <2>2, <2>4, <3>1
      <4>3. PICK w \in DOMAIN r : r[w] /\ IsLatest(r, w, u)
        BY <2>4, <3>1, <4>2
      <4>4. w = t
        BY <2>1, <4>1, <4>2, <4>3, OneLatest
      <4>5. QED
        BY <4>1, <4>2, <4>3, <4>4 DEF Held, sn
    <3>2. ASSUME NEW u \in H PROVE u \in DOMAIN sn /\ u \in U
      <4>1. u \in DOMAIN sn /\ sn[u] /\ u >= d
        BY DEF Held, sn
      <4>2. PICK t \in DOMAIN r : IsLatest(r, t, u) /\ r[t] /\ u < t + MaxSegment
        BY <2>1, <4>1
      <4>3. u \in d..(n - 1) /\ u \in Int
        BY <2>1, <2>2, <4>1
      <4>4. t >= d - Reach /\ u < Greatest(t, d) + MaxSegment
        BY <2>2, <2>3, <2>5, <4>1, <4>2, <4>3
      <4>5. QED
        BY <2>4, <4>1, <4>2, <4>3, <4>4
    <3>3. QED
      BY <3>1, <3>2
  <2>7. \A t \in B : t \in DOMAIN r /\ A[t] = Greatest(t, d) /\ A[t] \in Int
    BY <2>5 DEF Broken
  <2>8. U \ DOMAIN sn \subseteq UNION {A[t]..(A[t] + MaxSegment - 1) : t \in B}
    <3> SUFFICES ASSUME NEW u \in U, u \notin DOMAIN sn
                 PROVE  \E t \in B : u \in A[t]..(A[t] + MaxSegment - 1)
      OBVIOUS
    <3>1. u \in d..(n - 1) /\ u \in 0..(n - 1) /\ u \in Int
      BY <2>1, <2>2, <2>4
    <3>2. PICK t \in DOMAIN r : IsLatest(r, t, u) /\ u < Greatest(t, d) + MaxSegment
      BY <2>4, <3>1
    <3>3. t \in B
      BY <3>1, <3>2 DEF Broken
    <3>4. u >= Greatest(t, d)
      BY <2>2, <2>5, <3>1, <3>2 DEF IsLatest, Greatest
    <3>5. u \in A[t]..(A[t] + MaxSegment - 1)
      BY <2>3, <2>5, <2>7, <3>1, <3>2, <3>3, <3>4
    <3>6. QED
      BY <3>3, <3>5
  <2>9. Cardinality(U) <= Cardinality(H) + MaxSegment * k
    <3> HIDE DEF A
    <3>1. Cardinality(U) <= Cardinality(U \cap DOMAIN sn) + MaxSegment * k
      BY <2>1, <2>4, <2>7, <2>8, BeyondSeen
    <3>2. QED
      BY <2>6, <3>1
  <2>10. Cardinality(H) <= Cardinality(U)
    BY <2>4, <2>6, FS_Subset
  <2>11. QED
    BY <2>4, <2>9, <2>10 DEF r, n, k
<1>2. QED
  BY <1>1, InvHolds, PTL

\* Rows that were left out change nothing from an instant on if they do not change what
\* precedes the rows that follow it.
LEMMA SameStops ==
  ASSUME NEW r, IsRows(r), NEW x \in Int, NEW h \in Int, x <= h, NEW n,
         \A t \in DOMAIN r : t >= h => (Lag(From(r, x), t) <=> Lag(r, t))
  PROVE  \A t \in Int : t >= h =>
           /\ t \in Starting(From(r, x)) <=> t \in Starting(r)
           /\ StopAt(From(r, x), t, n) = StopAt(r, t, n)
<1> DEFINE q == From(r, x)
<1>1. /\ IsRows(q)
      /\ \A t : t \in DOMAIN q <=> t \in DOMAIN r /\ t >= x
      /\ \A t \in DOMAIN q : q[t] = r[t]
  BY FromIs
<1> HIDE DEF q
<1>2. \A t \in DOMAIN r : t \in Int
  BY DEF IsRows
<1>3. \A t \in Int : t >= h => /\ t \in DOMAIN q <=> t \in DOMAIN r
                               /\ t \in Held(q) <=> t \in Held(r)
                               /\ t \in DOMAIN q => q[t] = r[t]
  <2>1. \A t \in Int : t >= h => t >= x
    OBVIOUS
  <2>2. QED
    BY <1>1, <2>1 DEF Held
<1>4. \A t \in DOMAIN r : t >= h => (IsStart(q, t) <=> IsStart(r, t))
  <2> SUFFICES ASSUME NEW t \in DOMAIN r, t >= h PROVE IsStart(q, t) <=> IsStart(r, t)
    OBVIOUS
  <2>1. Lag(q, t) <=> Lag(r, t)
    BY DEF q
  <2>2. q[t] = r[t]
    BY <1>2, <1>3
  <2>3. QED
    BY <2>1, <2>2 DEF IsStart
<1>5. ASSUME NEW t \in Int, t >= h PROVE t \in Starting(q) <=> t \in Starting(r)
  <2>1. t \in Held(r) => (Lag(q, t) <=> Lag(r, t))
    BY <1>5 DEF Held, q
  <2>2. QED
    BY <1>3, <1>5, <2>1 DEF Starting
<1>6. ASSUME NEW t \in Int, t >= h PROVE Run(q, t) = Run(r, t)
  <2>1. \A w \in Int : w > t => w >= h
    BY <1>6
  <2>2. ASSUME NEW u \in Int, t <= u
        PROVE  (\A w \in DOMAIN q : t < w /\ w <= u => ~IsStart(q, w))
                 <=> (\A w \in DOMAIN r : t < w /\ w <= u => ~IsStart(r, w))
    <3>1. \A w \in DOMAIN q : w \in DOMAIN r /\ w \in Int
      BY <1>1, <1>2
    <3>2. \A w \in DOMAIN r : t < w => w \in DOMAIN q /\ (IsStart(q, w) <=> IsStart(r, w))
      BY <1>2, <1>3, <1>4, <2>1
    <3>3. QED
      BY <3>1, <3>2
  <2>3. \A u \in Held(r) : u \in Int
    BY <1>2 DEF Held
  <2>4. \A u \in Held(q) : u \in Int
    BY <1>1, <1>2 DEF Held
  <2>5. \A u \in Int : t <= u => u >= h
    BY <1>6
  <2>6. \A u : u \in Run(q, t) <=> u \in Run(r, t)
    BY <1>3, <2>2, <2>3, <2>4, <2>5 DEF Run
  <2>7. QED
    BY <2>6 DEF Run
<1>7. ASSUME NEW t \in Int, t >= h PROVE Duration(q, t, n) = Duration(r, t, n) /\ (IsGap(q, t, n) <=> IsGap(r, t, n))
  <2>1. {w \in DOMAIN q : w > t} = {w \in DOMAIN r : w > t}
    <3>1. \A w \in DOMAIN r : w > t => w >= x
      BY <1>2, <1>7
    <3>2. QED
      BY <1>1, <3>1
  <2>2. Lead(q, t, n) = Lead(r, t, n)
    BY <2>1 DEF Lead
  <2>3. QED
    BY <2>2 DEF Duration, IsGap
<1>8. ASSUME NEW t \in Int, t >= h PROVE StopAt(q, t, n) = StopAt(r, t, n)
  <2> DEFINE R == Run(r, t)
  <2>1. \A u \in R : u \in Int /\ u >= h
    BY <1>2, <1>8 DEF Run, Held
  <2>2. Run(q, t) = R
    BY <1>6, <1>8
  <2> HIDE DEF R
  <2>3. \A u \in R : Duration(q, u, n) = Duration(r, u, n) /\ (IsGap(q, u, n) <=> IsGap(r, u, n))
    BY <1>7, <2>1
  <2>4. UNION {{u} \X (1..Duration(q, u, n)) : u \in R} = UNION {{u} \X (1..Duration(r, u, n)) : u \in R}
    BY <2>3
  <2>5. (\E u \in R : IsGap(q, u, n)) = (\E u \in R : IsGap(r, u, n))
    BY <2>3
  <2>6. QED
    BY <2>2, <2>4, <2>5 DEF StopAt, Total, R
<1>9. QED
  BY <1>5, <1>8 DEF q

\* The monitor has the stops of v_parada, unless the station was held and silent for a day.
THEOREM MonitorStops == Spec => []MonitorAgrees
<1>1. Inv => MonitorAgrees
  <2> SUFFICES ASSUME Inv, NEW p \in Stations,
                      ~(/\ Silent(p) /\ losses[p] > 0
                        /\ DOMAIN seen[p] \cap ((Shift(now) - Day + MaxSegment)..(Shift(now) - 1)) = {})
               PROVE  StopsToday(rows[p], now) = OfShift(Stops(rows[p], now), now)
    BY DEF MonitorAgrees
  <2> DEFINE r == rows[p]
             sn == seen[p]
             n == now
             on == polled[p]
             k == losses[p]
             h == Shift(now)
             x == h - Day
             q == From(r, x)
  <2>1. /\ IsRows(r) /\ DOMAIN r \subseteq 0..n /\ n \in Nat /\ k \in Nat
        /\ DOMAIN sn \subseteq 0..(n - 1)
        /\ Tracks(r, sn, on, starts[p], k, n, p \in Stations)
        /\ \A u \in DOMAIN sn : \E t \in DOMAIN r :
             IsLatest(r, t, u) /\ (sn[u] <=> r[t]) /\ (r[t] => u < t + MaxSegment)
    BY SourceIs DEF Sources
  <2>2. h \in Int /\ x \in Int /\ x <= h /\ Day \in Nat /\ MaxSegment \in Nat /\ MaxSegment <= Day
    <3>1. Day \in Nat /\ Day > 0 /\ ShiftStart \in Int /\ MaxSegment \in Nat /\ MaxSegment <= Day
      BY ViewsAssumption
    <3>2. n \div Day \in Int
      BY <2>1, <3>1
    <3>3. (n \div Day) * Day + ShiftStart \in Int
      BY <3>1, <3>2
    <3>4. h \in Int
      BY <3>3 DEF Shift, DayOf
    <3> HIDE DEF h
    <3>5. QED
      BY <3>1, <3>4
  <2>3. /\ ~(Silent(p) /\ k > 0 /\ DOMAIN sn \cap ((h - Day + MaxSegment)..(h - 1)) = {})
        /\ Silent(p) <=> LET before == {t \in DOMAIN r : t < h}
                         IN before # {} /\ r[Max(before)] /\ Max(before) < h - Day
    BY DEF Silent
  <2>4. /\ StopsToday(r, n) = {s \in Stops(q, n) : s.inicio >= h}
        /\ OfShift(Stops(r, n), n) = {s \in Stops(r, n) : s.inicio >= h}
    BY DEF StopsToday, OfShift, ScanFrom
  <2> HIDE DEF r, sn, n, on, k, h
  <2>5. /\ IsRows(q)
        /\ \A u \in Int : \A t : IsLatest(q, t, u) <=> t >= x /\ IsLatest(r, t, u)
        /\ \A t : t \in DOMAIN q <=> t \in DOMAIN r /\ t >= x
        /\ \A t \in DOMAIN q : q[t] = r[t]
    BY <2>1, <2>2, FromIs
  <2> HIDE DEF q
  <2>6. ASSUME NEW t \in DOMAIN r, t >= h, NEW e \in DOMAIN r, r[e], IsLatest(r, e, t - 1), ~(e >= x)
        PROVE  FALSE
    <3>1. t \in Nat /\ e \in Nat /\ e < x /\ t <= n /\ e + MaxSegment <= t - 1 /\ \A w \in DOMAIN r : w \in Nat
      BY <2>1, <2>2, <2>6
    <3>2. \A u \in Int : e <= u /\ u <= t - 1 => IsLatest(r, e, u)
      BY <2>6, <3>1 DEF IsLatest
    <3>3. \A u \in DOMAIN sn : e <= u /\ u <= t - 1 => u < e + MaxSegment
      <4> SUFFICES ASSUME NEW u \in DOMAIN sn, e <= u, u <= t - 1 PROVE u < e + MaxSegment
        OBVIOUS
      <4>1. u \in Int
        BY <2>1
      <4>2. PICK w \in DOMAIN r : IsLatest(r, w, u) /\ (r[w] => u < w + MaxSegment)
        BY <2>1
      <4>3. w = e
        BY <2>1, <3>2, <4>1, <4>2, OneLatest
      <4>4. QED
        BY <2>6, <4>2, <4>3
    <3>4. Silent(p)
      <4> DEFINE before == {w \in DOMAIN r : w < h}
      <4>1. e \in before /\ before \in SUBSET Int /\ IsFiniteSet(before)
        <5>1. e < h
          BY <2>2, <3>1
        <5>2. QED
          BY <2>1, <3>1, <5>1, FS_Subset DEF IsRows
      <4>2. \A w \in before : w <= e
        <5>1. \A w \in before : w \in DOMAIN r /\ w <= t - 1
          BY <2>2, <2>6, <3>1
        <5>2. QED
          BY <2>6, <5>1 DEF IsLatest
      <4> HIDE DEF before
      <4>3. Max(before) = e
        <5>1. Max(before) \in before /\ Max(before) >= e
          BY <4>1, MaxIs
        <5>2. Max(before) \in Int /\ Max(before) <= e /\ e \in Int
          BY <4>1, <4>2, <5>1
        <5>3. QED
          BY <5>1, <5>2
      <4>4. QED
        BY <2>3, <2>6, <3>1, <4>1, <4>3 DEF before
    <3>5. k > 0
      <4> DEFINE B == Broken(r, sn, on, n)
      <4>1. e + MaxSegment \in 0..(n - 1) /\ e + MaxSegment \notin DOMAIN sn /\ IsLatest(r, e, e + MaxSegment)
        <5>1. e + MaxSegment \in Int /\ e <= e + MaxSegment /\ e + MaxSegment <= t - 1 /\ e + MaxSegment \in 0..(n - 1)
          BY <2>1, <2>2, <3>1
        <5>2. QED
          BY <3>2, <3>3, <5>1
      <4>2. e \in B
        BY <4>1 DEF Broken
      <4>3. IsFiniteSet(B) /\ Cardinality(B) \in Nat /\ Cardinality(B) <= k
        BY <2>1, BrokenFinite DEF Tracks
      <4> HIDE DEF B
      <4>4. Cardinality(B) # 0
        BY <4>2, <4>3, FS_EmptySet
      <4>5. QED
        BY <2>1, <4>3, <4>4
    <3>6. ASSUME NEW u \in DOMAIN sn, u \in (h - Day + MaxSegment)..(h - 1) PROVE FALSE
      <4>1. u \in Int /\ e <= u /\ u <= t - 1 /\ ~(u < e + MaxSegment)
        BY <2>2, <2>6, <3>1, <3>6
      <4>2. QED
        BY <3>3, <4>1
    <3>7. QED
      BY <2>3, <3>4, <3>5, <3>6
  <2>7. ASSUME NEW t \in DOMAIN r, t >= h PROVE Lag(q, t) <=> Lag(r, t)
    <3>1. t \in Int /\ t - 1 \in Int
      BY <2>1
    <3>2. Lag(q, t) <=> \E e \in DOMAIN q : q[e] /\ IsLatest(q, e, t - 1)
      BY <2>5, <3>1, LagIs
    <3>3. Lag(r, t) <=> \E e \in DOMAIN r : r[e] /\ IsLatest(r, e, t - 1)
      BY <2>1, <3>1, LagIs
    <3>4. \A e \in DOMAIN r : r[e] /\ IsLatest(r, e, t - 1) => e >= x
      BY <2>6, <2>7
    <3>5. QED
      BY <2>5, <3>1, <3>2, <3>3, <3>4
  <2>8. \A t \in Int : t >= h => /\ t \in Starting(q) <=> t \in Starting(r)
                                 /\ StopAt(q, t, n) = StopAt(r, t, n)
    BY <2>1, <2>2, <2>7, SameStops DEF q
  <2>9. /\ Stops(q, n) = {StopAt(q, t, n) : t \in Starting(q)}
        /\ Stops(r, n) = {StopAt(r, t, n) : t \in Starting(r)}
    BY <2>1, <2>5, StopsAre
  <2>10. /\ \A t \in Starting(q) : t \in Int /\ StopAt(q, t, n).inicio = t
         /\ \A t \in Starting(r) : t \in Int /\ StopAt(r, t, n).inicio = t
    <3>1. \A t : StopAt(q, t, n).inicio = t /\ StopAt(r, t, n).inicio = t
      BY DEF StopAt, Total
    <3>2. (\A t \in Starting(q) : t \in Int) /\ (\A t \in Starting(r) : t \in Int)
      BY <2>1, <2>5 DEF Starting, Held
    <3>3. QED
      BY <3>1, <3>2
  <2>11. {s \in Stops(q, n) : s.inicio >= h} = {s \in Stops(r, n) : s.inicio >= h}
    <3>1. ASSUME NEW s, s \in Stops(q, n), s.inicio >= h PROVE s \in Stops(r, n)
      BY <2>8, <2>9, <2>10, <3>1
    <3>2. ASSUME NEW s, s \in Stops(r, n), s.inicio >= h PROVE s \in Stops(q, n)
      BY <2>8, <2>9, <2>10, <3>2
    <3>3. QED
      BY <3>1, <3>2
  <2>12. QED
    BY <2>4, <2>11 DEF r, n
<1>2. QED
  BY <1>1, InvHolds, PTL
====
