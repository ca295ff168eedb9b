------------------------------ MODULE ListProofs ------------------------------
(***************************************************************************)
(* What filtering, adding to and joining lists do to their members and to  *)
(* their order, and that a set of numbers has a falling list.  That the    *)
(* function which defines Without exists, and what it returns, goes by     *)
(* induction along the list, in the form of a smallest counterexample:     *)
(* FirstOf finds it.                                                       *)
(***************************************************************************)
EXTENDS Lists, SequenceTheorems, FiniteSetTheorems, WellFoundedInduction, TLAPS

\* Of some numbers, one has its predecessor not among them.
LEMMA FirstOf ==
  ASSUME NEW n \in Nat, NEW Bad \in SUBSET (0 .. n), Bad # {}
  PROVE  \E k \in Bad : k - 1 \notin Bad
<1> DEFINE Below == {1 .. k : k \in Bad}
<1>1. IsFiniteSet(1 .. n)
  BY FS_Interval
<1>2. Below \in SUBSET (SUBSET (1 .. n)) /\ Below # {}
  <2>1. ASSUME NEW k \in Bad  PROVE 1 .. k \subseteq 1 .. n
    <3>1. k \in 0 .. n
      OBVIOUS
    <3> QED
      BY <3>1
  <2> QED
    BY <2>1
<1>3. IsWellFoundedOn(StrictSubsetOrdering(1 .. n), SUBSET (1 .. n))
  BY <1>1, FS_StrictSubsetOrderingWellFounded, FS_FiniteSubsetsOfFinite
<1>4. PICK T \in Below : \A U \in Below : ~(<<U, T>> \in StrictSubsetOrdering(1 .. n))
  BY <1>2, <1>3, WFMin
<1>5. PICK k \in Bad : T = 1 .. k
  OBVIOUS
<1>6. ASSUME k - 1 \in Bad  PROVE FALSE
  <2>1. 1 .. (k - 1) \in Below /\ 1 .. (k - 1) \subseteq 1 .. k /\ 1 .. (k - 1) # 1 .. k
    <3>1. k \in 1 .. k /\ k \notin 1 .. (k - 1)
      BY <1>6
    <3> QED
      BY <1>6, <3>1
  <2>2. <<1 .. (k - 1), T>> \in StrictSubsetOrdering(1 .. n)
    BY <2>1, <1>2, <1>5 DEF StrictSubsetOrdering
  <2> QED
    BY <2>1, <2>2, <1>4
<1> QED
  BY <1>6

\* f is what the first n rounds of Without compute.
KeptSoFar(f, list, gone, n) ==
  f = [m \in 0 .. n |->
         IF m = 0 THEN <<>>
         ELSE IF list[m] \in gone THEN f[m - 1] ELSE Append(f[m - 1], list[m])]

\* There is such a function for every part of the list ...
LEMMA KeptExists ==
  ASSUME NEW S, NEW list \in Seq(S), NEW gone, NEW n \in 0 .. Len(list)
  PROVE  \E f : KeptSoFar(f, list, gone, n)
<1> DEFINE Bad == {k \in 0 .. Len(list) : ~\E f : KeptSoFar(f, list, gone, k)}
<1>1. SUFFICES ASSUME Bad # {}  PROVE FALSE
  OBVIOUS
<1>2. PICK k \in Bad : k - 1 \notin Bad
  <2>1. Len(list) \in Nat /\ Bad \in SUBSET (0 .. Len(list))
    OBVIOUS
  <2> HIDE DEF Bad
  <2> QED
    BY <2>1, <1>1, FirstOf
<1>3. CASE k = 0
  <2> DEFINE f == [m \in 0 .. 0 |-> <<>>]
  <2>1. KeptSoFar(f, list, gone, 0)
    BY DEF KeptSoFar
  <2> QED
    BY <2>1, <1>2, <1>3
<1>4. CASE k # 0
  <2>1. k - 1 \in 0 .. Len(list) /\ k - 1 \notin Bad
    BY <1>2, <1>4
  <2>2. PICK f : KeptSoFar(f, list, gone, k - 1)
    BY <2>1
  <2> DEFINE g == [m \in 0 .. k |-> IF m < k THEN f[m]
                     ELSE IF list[k] \in gone THEN f[k - 1] ELSE Append(f[k - 1], list[k])]
  <2>3. ASSUME NEW m \in 0 .. k
        PROVE  g[m] = IF m = 0 THEN <<>>
                      ELSE IF list[m] \in gone THEN g[m - 1] ELSE Append(g[m - 1], list[m])
    <3>1. CASE m < k
      <4>1. m \in 0 .. (k - 1) /\ (m # 0 => m - 1 \in 0 .. k /\ m - 1 < k)
        BY <3>1, <1>2
      <4>2. f[m] = IF m = 0 THEN <<>>
                   ELSE IF list[m] \in gone THEN f[m - 1] ELSE Append(f[m - 1], list[m])
        BY <2>2, <4>1 DEF KeptSoFar
      <4>3. g[m] = f[m] /\ (m # 0 => g[m - 1] = f[m - 1])
        BY <4>1, <3>1
      <4> QED
        BY <4>2, <4>3
    <3>2. CASE m = k
      <4>1. g[k - 1] = f[k - 1] /\ k - 1 < k /\ k - 1 \in 0 .. k
        BY <1>2, <1>4
      <4> QED
        BY <4>1, <3>2, <1>4
    <3> QED
      BY <3>1, <3>2, <1>2
  <2> HIDE DEF g
  <2>4. KeptSoFar([m \in 0 .. k |-> g[m]], list, gone, k)
    <3> DEFINE h == [m \in 0 .. k |-> g[m]]
    <3>1. \A m \in 0 .. k : h[m] = IF m = 0 THEN <<>>
             ELSE IF list[m] \in gone THEN h[m - 1] ELSE Append(h[m - 1], list[m])
      BY <2>3, <1>2
    <3> QED
      BY <3>1 DEF KeptSoFar
  <2> QED
    BY <2>4, <1>2
<1> QED
  BY <1>3, <1>4

\* ... and Without returns its last value.
LEMMA KeptIs ==
  ASSUME NEW S, NEW list \in Seq(S), NEW gone
  PROVE  \E f : KeptSoFar(f, list, gone, Len(list)) /\ Without(list, gone) = f[Len(list)]
<1> DEFINE f == CHOOSE f : KeptSoFar(f, list, gone, Len(list))
<1>1. KeptSoFar(f, list, gone, Len(list))
  <2>1. Len(list) \in 0 .. Len(list)
    OBVIOUS
  <2>2. \E g : KeptSoFar(g, list, gone, Len(list))
    BY <2>1, KeptExists
  <2> QED
    BY <2>2
<1>2. Without(list, gone) = f[Len(list)]
  BY DEF Without, KeptSoFar
<1> QED
  BY <1>1, <1>2

\* No member of the list occurs twice.
Once(s) == \A i, k \in DOMAIN s : s[i] = s[k] => i = k

\* The greatest comes first.
Falling(s) == \A i, k \in DOMAIN s : i < k => s[i] > s[k]

\* What the first n rounds have kept.
PartOf(kept, list, gone, n) ==
  /\ kept \in Seq({list[i] : i \in 1 .. n} \ gone)
  /\ \A i \in 1 .. n : list[i] \notin gone => \E k \in DOMAIN kept : kept[k] = list[i]
  /\ Len(kept) <= n
  /\ Once(list) => Once(kept)
  /\ Falling(list) => Falling(kept)

\* They have kept of the list what is not gone, and nothing else.
LEMMA WithoutIsPart ==
  ASSUME NEW S, NEW list \in Seq(S), NEW gone
  PROVE  PartOf(Without(list, gone), list, gone, Len(list))
<1>1. PICK f : KeptSoFar(f, list, gone, Len(list)) /\ Without(list, gone) = f[Len(list)]
  BY KeptIs
<1>2. \A m \in 0 .. Len(list) :
        f[m] = IF m = 0 THEN <<>>
               ELSE IF list[m] \in gone THEN f[m - 1] ELSE Append(f[m - 1], list[m])
  BY <1>1 DEF KeptSoFar
<1> DEFINE Bad == {k \in 0 .. Len(list) : ~PartOf(f[k], list, gone, k)}
<1>3. SUFFICES ASSUME Bad # {}  PROVE FALSE
  BY <1>1
<1>4. PICK k \in Bad : k - 1 \notin Bad
  <2>1. Len(list) \in Nat /\ Bad \in SUBSET (0 .. Len(list))
    OBVIOUS
  <2> HIDE DEF Bad
  <2> QED
    BY <2>1, <1>3, FirstOf
<1>5. CASE k = 0
  <2>1. f[0] = <<>>
    BY <1>2
  <2>2. PartOf(<<>>, list, gone, 0)
    BY DEF PartOf, Once, Falling
  <2> QED
    BY <2>1, <2>2, <1>4, <1>5
<1>6. CASE k # 0
  <2>1. k - 1 \in 0 .. Len(list) /\ k - 1 \notin Bad
    BY <1>4, <1>6
  <2> DEFINE s == f[k - 1]
  <2>2. PartOf(s, list, gone, k - 1)
    BY <2>1
  <2> HIDE DEF s
  <2>3. CASE list[k] \in gone
    <3>1. f[k] = s
      BY <1>2, <1>4, <1>6, <2>3 DEF s
    <3>2. s \in Seq({list[i] : i \in 1 .. k} \ gone)
      <4>1. {list[i] : i \in 1 .. (k - 1)} \ gone \subseteq {list[i] : i \in 1 .. k} \ gone
        BY <1>4
      <4> QED
        BY <4>1, <2>2 DEF PartOf
    <3>4. ASSUME NEW i \in 1 .. k, list[i] \notin gone  PROVE \E m \in DOMAIN s : s[m] = list[i]
      <4>1. i \in 1 .. (k - 1)
        BY <3>4, <2>3, <1>4
      <4> QED
        BY <4>1, <3>4, <2>2 DEF PartOf
    <3>5. Len(s) <= k /\ (Once(list) => Once(s)) /\ (Falling(list) => Falling(s))
      BY <2>2, <1>4 DEF PartOf
    <3>3. PartOf(s, list, gone, k)
      BY <3>2, <3>4, <3>5 DEF PartOf
    <3> QED
      BY <3>1, <3>3, <1>4
  <2>4. CASE list[k] \notin gone
    <3> DEFINE t == Append(s, list[k])
    <3>1. f[k] = t
      BY <1>2, <1>4, <1>6, <2>4 DEF s
    <3>2. t \in Seq({list[i] : i \in 1 .. k} \ gone)
      <4>1. {list[i] : i \in 1 .. (k - 1)} \ gone \subseteq {list[i] : i \in 1 .. k} \ gone
        BY <1>4
      <4>2. list[k] \in {list[i] : i \in 1 .. k} \ gone
        BY <2>4, <1>4, <1>6
      <4>3. s \in Seq({list[i] : i \in 1 .. k} \ gone)
        BY <4>1, <2>2 DEF PartOf
      <4> QED
        BY <4>2, <4>3
    <3>3. /\ Len(t) = Len(s) + 1 /\ DOMAIN t = 1 .. (Len(s) + 1) /\ DOMAIN s = 1 .. Len(s)
          /\ Len(s) \in Nat /\ t[Len(s) + 1] = list[k] /\ \A i \in DOMAIN s : t[i] = s[i]
      BY <2>2 DEF PartOf
    <3> HIDE DEF t
    <3>4. ASSUME NEW i \in 1 .. k, list[i] \notin gone  PROVE \E m \in DOMAIN t : t[m] = list[i]
      <4>1. CASE i = k
        BY <4>1, <3>3
      <4>2. CASE i # k
        <5>1. i \in 1 .. (k - 1)
          BY <4>2, <1>4
        <5>2. PICK m \in DOMAIN s : s[m] = list[i]
          BY <5>1, <3>4, <2>2 DEF PartOf
        <5> QED
          BY <5>2, <3>3
      <4> QED
        BY <4>1, <4>2
    <3>5. ASSUME Once(list)  PROVE Once(t)
      <4>1. \A m \in DOMAIN s : s[m] # list[k]
        <5>1. ASSUME NEW m \in DOMAIN s, s[m] = list[k]  PROVE FALSE
          <6>1. s[m] \in {list[i] : i \in 1 .. (k - 1)}
            BY <2>2, <5>1 DEF PartOf
          <6>2. PICK i \in 1 .. (k - 1) : list[i] = list[k]
            BY <6>1, <5>1
          <6>3. i \in DOMAIN list /\ k \in DOMAIN list /\ i # k
            BY <6>2, <1>4, <1>6
          <6> QED
            BY <6>2, <6>3, <3>5 DEF Once
        <5> QED
          BY <5>1
      <4>2. Once(s)
        BY <3>5, <2>2 DEF PartOf
      <4> QED
        BY <4>1, <4>2, <3>3 DEF Once
    <3>8. ASSUME Falling(list)  PROVE Falling(t)
      <4>1. ASSUME NEW m \in DOMAIN s  PROVE s[m] > list[k]
        <5>1. s[m] \in {list[i] : i \in 1 .. (k - 1)}
          BY <2>2 DEF PartOf
        <5>2. PICK i \in 1 .. (k - 1) : list[i] = s[m]
          BY <5>1
        <5>3. i \in DOMAIN list /\ k \in DOMAIN list /\ i < k
          BY <5>2, <1>4, <1>6
        <5> QED
          BY <5>2, <5>3, <3>8 DEF Falling
      <4>2. Falling(s)
        BY <3>8, <2>2 DEF PartOf
      <4> QED
        BY <4>1, <4>2, <3>3 DEF Falling
    <3>6. Len(t) <= k
      BY <3>3, <2>2, <1>4 DEF PartOf
    <3>7. PartOf(t, list, gone, k)
      BY <3>2, <3>4, <3>5, <3>6, <3>8 DEF PartOf, t
    <3> QED
      BY <3>1, <3>7, <1>4
  <2> QED
    BY <2>3, <2>4
<1> QED
  BY <1>5, <1>6

\* What Without returns: the members of the list that are not gone, each as
\* often as it was there.
LEMMA WithoutIs ==
  ASSUME NEW S, NEW list \in Seq(S), NEW gone
  PROVE  /\ Without(list, gone) \in Seq(S)
         /\ ToSet(Without(list, gone)) = ToSet(list) \ gone
         /\ Len(Without(list, gone)) <= Len(list)
         /\ Once(list) => Once(Without(list, gone))
         /\ Falling(list) => Falling(Without(list, gone))
<1> DEFINE kept == Without(list, gone)
<1>1. PartOf(kept, list, gone, Len(list))
  BY WithoutIsPart
<1> HIDE DEF kept
<1>2. {list[i] : i \in 1 .. Len(list)} = ToSet(list)
  BY DEF ToSet
<1>3. kept \in Seq(ToSet(list) \ gone)
  BY <1>1, <1>2 DEF PartOf
<1>4. ToSet(list) \ gone \subseteq S
  BY DEF ToSet
<1>5. kept \in Seq(S)
  BY <1>3, <1>4
<1>6. ToSet(kept) \subseteq ToSet(list) \ gone
  BY <1>3 DEF ToSet
<1>7. ToSet(list) \ gone \subseteq ToSet(kept)
  BY <1>1 DEF PartOf, ToSet
<1> QED
  BY <1>1, <1>5, <1>6, <1>7 DEF PartOf, kept

\* What is added to a list is its last member, and new if it was not there.
LEMMA AppendIs ==
  ASSUME NEW S, NEW list \in Seq(S), NEW x \in S
  PROVE  /\ Append(list, x) \in Seq(S)
         /\ ToSet(Append(list, x)) = ToSet(list) \cup {x}
         /\ Once(list) /\ x \notin ToSet(list) => Once(Append(list, x))
<1> DEFINE new == Append(list, x)
<1>1. /\ new \in Seq(S) /\ Len(list) \in Nat
      /\ DOMAIN new = 1 .. (Len(list) + 1) /\ DOMAIN list = 1 .. Len(list)
      /\ new[Len(list) + 1] = x /\ \A i \in DOMAIN list : new[i] = list[i]
  OBVIOUS
<1> HIDE DEF new
<1>2. ToSet(new) = ToSet(list) \cup {x}
  BY <1>1 DEF ToSet
<1>3. ASSUME Once(list), x \notin ToSet(list)  PROVE Once(new)
  BY <1>1, <1>3 DEF Once, ToSet
<1> QED
  BY <1>1, <1>2, <1>3 DEF new

\* A list in which nothing occurs twice is as long as it has members.
LEMMA OnceCounts ==
  ASSUME NEW S, NEW list \in Seq(S), Once(list)
  PROVE  IsFiniteSet(ToSet(list)) /\ Len(list) = Cardinality(ToSet(list))
<1>1. list \in Bijection(1 .. Len(list), ToSet(list))
  <2>1. list \in [1 .. Len(list) -> ToSet(list)]
    BY DEF ToSet
  <2>2. list \in Surjection(1 .. Len(list), ToSet(list))
    BY <2>1 DEF Surjection, ToSet
  <2>3. list \in Injection(1 .. Len(list), ToSet(list))
    BY <2>1 DEF Injection, IsInjective, Once
  <2> QED
    BY <2>2, <2>3 DEF Bijection
<1>2. IsFiniteSet(1 .. Len(list)) /\ Cardinality(1 .. Len(list)) = Len(list)
  <2>1. Len(list) \in Int /\ 1 \in Int /\ Len(list) >= 0
    OBVIOUS
  <2> DEFINE n == Len(list)
  <2> HIDE DEF n
  <2>2. IsFiniteSet(1 .. n) /\ Cardinality(1 .. n) = IF 1 > n THEN 0 ELSE n - 1 + 1
    BY <2>1, FS_Interval DEF n
  <2> QED
    BY <2>1, <2>2 DEF n
<1>3. Cardinality(ToSet(list)) = Cardinality(1 .. Len(list)) /\ IsFiniteSet(ToSet(list))
  <2>1. ExistsBijection(1 .. Len(list), ToSet(list))
    BY <1>1 DEF ExistsBijection
  <2> QED
    BY <1>2, <2>1, FS_Bijection
<1> QED
  BY <1>2, <1>3

\* Putting the list of older members behind a greater one keeps it falling.
LEMMA FallsBehind ==
  ASSUME NEW s \in Seq(Int), NEW t \in Seq(Int), Falling(s), Falling(t),
         \A i \in DOMAIN s, k \in DOMAIN t : s[i] > t[k]
  PROVE  Falling(s \o t) /\ ToSet(s \o t) = ToSet(s) \cup ToSet(t)
<1> DEFINE both == s \o t
<1>1. /\ DOMAIN both = 1 .. (Len(s) + Len(t)) /\ DOMAIN s = 1 .. Len(s) /\ DOMAIN t = 1 .. Len(t)
      /\ Len(s) \in Nat /\ Len(t) \in Nat
      /\ \A i \in 1 .. (Len(s) + Len(t)) : both[i] = IF i <= Len(s) THEN s[i] ELSE t[i - Len(s)]
  OBVIOUS
<1> HIDE DEF both
<1>2. ASSUME NEW i \in DOMAIN both, NEW k \in DOMAIN both, i < k  PROVE both[i] > both[k]
  <2>1. CASE k <= Len(s)
    BY <2>1, <1>1, <1>2 DEF Falling
  <2>2. CASE i > Len(s)
    <3>1. i - Len(s) \in DOMAIN t /\ k - Len(s) \in DOMAIN t /\ i - Len(s) < k - Len(s)
      BY <2>2, <1>1, <1>2
    <3>2. both[i] = t[i - Len(s)] /\ both[k] = t[k - Len(s)]
      BY <2>2, <1>1, <1>2
    <3> QED
      BY <3>1, <3>2 DEF Falling
  <2>3. CASE i <= Len(s) /\ k > Len(s)
    <3>1. i \in DOMAIN s /\ k - Len(s) \in DOMAIN t
      BY <2>3, <1>1, <1>2
    <3>2. both[i] = s[i] /\ both[k] = t[k - Len(s)]
      BY <2>3, <1>1, <1>2
    <3> QED
      BY <3>1, <3>2
  <2> QED
    BY <2>1, <2>2, <2>3, <1>1, <1>2
<1>3. ToSet(both) \subseteq ToSet(s) \cup ToSet(t)
  <2>1. ASSUME NEW i \in DOMAIN both  PROVE both[i] \in ToSet(s) \cup ToSet(t)
    <3>1. CASE i <= Len(s)
      BY <3>1, <1>1 DEF ToSet
    <3>2. CASE i > Len(s)
      <4>1. i - Len(s) \in DOMAIN t /\ both[i] = t[i - Len(s)]
        BY <3>2, <1>1
      <4> QED
        BY <4>1 DEF ToSet
    <3> QED
      BY <3>1, <3>2, <1>1
  <2> QED
    BY <2>1 DEF ToSet
<1>4. ToSet(s) \subseteq ToSet(both)
  BY <1>1 DEF ToSet
<1>5. ToSet(t) \subseteq ToSet(both)
  <2>1. ASSUME NEW i \in DOMAIN t  PROVE t[i] \in ToSet(both)
    <3>1. Len(s) + i \in DOMAIN both /\ both[Len(s) + i] = t[i]
      BY <1>1
    <3> QED
      BY <3>1 DEF ToSet
  <2> QED
    BY <2>1 DEF ToSet
<1> QED
  BY <1>2, <1>3, <1>4, <1>5 DEF Falling, both

LEMMA ListOfNumbers == ASSUME NEW S, NEW s \in Seq(S), \A x \in S : x \in Int  PROVE s \in Seq(Int)
<1>1. \A i \in 1 .. Len(s) : s[i] \in Int
  OBVIOUS
<1>2. s = [i \in 1 .. Len(s) |-> s[i]] /\ Len(s) \in Nat
  OBVIOUS
<1> QED
  BY <1>1, <1>2

LEMMA MembersOf == ASSUME NEW S, NEW s \in Seq(S)  PROVE ToSet(s) \subseteq S
<1>1. \A i \in DOMAIN s : s[i] \in S
  OBVIOUS
<1> QED
  BY <1>1 DEF ToSet

LEMMA FallingIsOnce == ASSUME NEW s \in Seq(Int), Falling(s)  PROVE Once(s)
<1>1. ASSUME NEW i \in DOMAIN s, NEW k \in DOMAIN s, s[i] = s[k]  PROVE i = k
  <2>1. s[i] \in Int /\ s[k] \in Int /\ i \in Int /\ k \in Int
    OBVIOUS
  <2> QED
    BY <1>1, <2>1 DEF Falling
<1> QED
  BY <1>1 DEF Once

\* Every finite set of numbers can be listed that way.
LEMMA ListedExists ==
  ASSUME NEW n \in Nat, NEW S \in SUBSET (1 .. n)
  PROVE  \E list \in Seq(S) : Falling(list) /\ ToSet(list) = S
<1> DEFINE Part(k) == S \cap (1 .. k)
           Bad == {k \in 0 .. n : ~\E list \in Seq(Part(k)) : Falling(list) /\ ToSet(list) = Part(k)}
<1>1. SUFFICES ASSUME Bad # {}  PROVE FALSE
  <2>1. Part(n) = S /\ n \in 0 .. n
    <3>1. S \subseteq 1 .. n
      OBVIOUS
    <3>2. S \cap (1 .. n) = S
      BY <3>1
    <3>3. n \in 0 .. n
      OBVIOUS
    <3> QED
      BY <3>2, <3>3
  <2>2. Bad = {}
    BY <1>1
  <2>3. \E list \in Seq(Part(n)) : Falling(list) /\ ToSet(list) = Part(n)
    BY <2>1, <2>2
  <2> QED
    BY <2>1, <2>3
<1>2. PICK k \in Bad : k - 1 \notin Bad
  <2>1. Bad \in SUBSET (0 .. n)
    OBVIOUS
  <2> HIDE DEF Bad
  <2> QED
    BY <2>1, <1>1, FirstOf
<1>3. CASE k = 0
  <2>1. Part(0) = {}
    OBVIOUS
  <2>2. <<>> \in Seq({}) /\ Falling(<<>>) /\ ToSet(<<>>) = {}
    BY DEF Falling, ToSet
  <2> QED
    BY <2>1, <2>2, <1>2, <1>3
<1>4. CASE k # 0
  <2>1. k - 1 \in 0 .. n /\ k \in 1 .. n /\ k \in Int
    BY <1>2, <1>4
  <2>2. PICK s \in Seq(Part(k - 1)) : Falling(s) /\ ToSet(s) = Part(k - 1)
    BY <1>2, <2>1
  <2>3. CASE k \notin S
    <3>1. Part(k) = Part(k - 1)
      <4>1. 1 .. k = (1 .. (k - 1)) \cup {k}
        BY <2>1
      <4> QED
        BY <4>1, <2>3
    <3> QED
      BY <2>2, <3>1, <1>2
  <2>4. CASE k \in S
    <3> DEFINE t == <<k>> \o s
    <3>1. <<k>> \in Seq(Int) /\ s \in Seq(Int) /\ Falling(<<k>>) /\ ToSet(<<k>>) = {k}
      <4>1. Part(k - 1) \subseteq Int
        OBVIOUS
      <4>2. Falling(<<k>>) /\ ToSet(<<k>>) = {k}
        BY DEF Falling, ToSet
      <4> QED
        BY <4>1, <4>2, <2>1, <2>2
    <3>2. \A i \in DOMAIN <<k>>, m \in DOMAIN s : <<k>>[i] > s[m]
      <4>1. ASSUME NEW m \in DOMAIN s  PROVE s[m] \in 1 .. (k - 1)
        BY <2>2 DEF ToSet
      <4> QED
        BY <4>1, <2>1
    <3>3. Falling(t) /\ ToSet(t) = {k} \cup Part(k - 1)
      BY <3>1, <3>2, <2>2, FallsBehind
    <3>4. {k} \cup Part(k - 1) = Part(k)
      <4>1. 1 .. k = (1 .. (k - 1)) \cup {k}
        BY <2>1
      <4> QED
        BY <4>1, <2>4
    <3>5. t \in Seq(Part(k))
      BY <2>2, <3>4
    <3> QED
      BY <3>3, <3>4, <3>5, <1>2
  <2> QED
    BY <2>3, <2>4
<1> QED
  BY <1>3, <1>4
=============================================================================
