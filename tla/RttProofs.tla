----------------------------- MODULE RttProofs -----------------------------
(***************************************************************************)
(* Proofs about the stage-2 tables of a realm, for tables of any size and  *)
(* any arguments of the commands.                                          *)
(***************************************************************************)
EXTENDS Rtt, FiniteSetTheorems, WellFoundedInduction, TLAPS

N == S2TTES_PER_S2TT

M(l) == s2tte_map_size(l)

Parent(x) == <<x[1] - 1, x[2] \div N>>

-----------------------------------------------------------------------------
(***************************************************************************)
(* Arithmetic.                                                             *)
(***************************************************************************)
\* A product with a larger factor is larger.
LEMMA MulMono ==
  ASSUME NEW b \in Nat, NEW c \in Int, NEW d \in Int, c <= d
  PROVE  b * c <= b * d
<1>1. PICK k \in Nat : d = c + k
  OBVIOUS
<1>2. b * d = b * c + b * k
  BY <1>1
<1>3. b * k >= 0
  OBVIOUS
<1> QED
  BY <1>2, <1>3

\* Quotient and remainder.
LEMMA DivMod ==
  ASSUME NEW a \in Nat, NEW b \in Nat \ {0}
  PROVE  /\ a \div b \in Nat /\ a % b \in Nat /\ a % b \in 0..(b - 1)
         /\ a = b * (a \div b) + (a % b)
  OBVIOUS

LEMMA DivRange ==
  ASSUME NEW a \in Nat, NEW b \in Nat \ {0}
  PROVE  a \div b \in Nat /\ b * (a \div b) <= a /\ a < b * (a \div b) + b
  BY DivMod

\* The quotient is the only number whose range has the dividend.
LEMMA DivUnique ==
  ASSUME NEW a \in Nat, NEW b \in Nat \ {0}, NEW q \in Int, b * q <= a, a < b * q + b
  PROVE  a \div b = q
<1> DEFINE d == a \div b
<1>1. d \in Nat /\ b * d <= a /\ a < b * d + b
  BY DivMod
<1> HIDE DEF d
<1>2. CASE d < q
  <2>1. b * (d + 1) <= b * q
    BY <1>1, <1>2, MulMono
  <2>2. b * (d + 1) = b * d + b
    BY <1>1
  <2> QED BY <1>1, <2>1, <2>2
<1>3. CASE d > q
  <2>1. b * (q + 1) <= b * d
    BY <1>1, <1>3, MulMono
  <2>2. b * (q + 1) = b * q + b
    BY <1>1
  <2> QED BY <1>1, <2>1, <2>2
<1>4. d = q
  BY <1>1, <1>2, <1>3
<1> QED
  BY <1>4 DEF d

\* A multiple divided by one of its factors.
LEMMA DivMul ==
  ASSUME NEW b \in Nat \ {0}, NEW q \in Nat
  PROVE  (b * q) \div b = q
<1>1. b * q \in Nat
  OBVIOUS
<1> QED
  BY <1>1, DivUnique

\* Dividing twice is dividing by the product.
LEMMA DivDiv ==
  ASSUME NEW a \in Nat, NEW b \in Nat \ {0}, NEW c \in Nat \ {0}
  PROVE  (a \div b) \div c = a \div (c * b)
<1> DEFINE d == a \div b
           q == d \div c
<1>1. d \in Nat /\ b * d <= a /\ a < b * d + b
  BY DivMod
<1>0. d \in Nat
  BY DivMod
<1> HIDE DEF d
<1>2a. q \in Nat /\ c * q <= d /\ d < c * q + c
  BY <1>0, DivRange
<1>2. q \in Nat /\ c * q <= d /\ d + 1 <= c * q + c
  BY <1>0, <1>2a
<1> HIDE DEF q
<1>3. c * b \in Nat \ {0}
  OBVIOUS
<1>4. b * (c * q) <= b * d
  BY <1>1, <1>2, MulMono
<1>5. b * (d + 1) <= b * (c * q + c)
  BY <1>1, <1>2, MulMono
<1>6. b * (c * q) = (c * b) * q
  BY <1>2
<1>7. b * (c * q + c) = (c * b) * q + (c * b)
  BY <1>2
<1>8. b * (d + 1) = b * d + b
  BY <1>1
<1>9. (c * b) * q <= a /\ a < (c * b) * q + (c * b)
  BY <1>1, <1>2, <1>3, <1>4, <1>5, <1>6, <1>7, <1>8
<1>10. a \div (c * b) = q
  BY <1>9, <1>3, <1>2, DivUnique
<1> QED
  BY <1>10 DEF q, d


-----------------------------------------------------------------------------
(***************************************************************************)
(* Geometry: levels, entries, tables and pages.                            *)
(***************************************************************************)
LEMMA LevelFacts ==
  /\ N \in Nat /\ N >= 2 /\ N \in Nat \ {0}
  /\ StartLevel \in {0, 1}
  /\ Levels = StartLevel..3
  /\ \A l \in Levels : l \in {0, 1, 2, 3}
  /\ StartLevel \in Levels /\ 3 \in Levels /\ 2 \in Levels /\ 1 \in Levels
  BY RttAssumption DEF N, Levels, S2TT_PAGE_LEVEL, S2TT_MIN_BLOCK_LEVEL

\* An entry covers N times as many pages as an entry one level down.
LEMMA SizeFacts ==
  /\ M(3) = 1
  /\ \A l \in Levels : M(l) \in Nat \ {0}
  /\ \A l \in Levels : l < 3 => l + 1 \in Levels /\ M(l) = N * M(l + 1)
<1> USE LevelFacts DEF M, s2tte_map_size, MapSize, S2TT_PAGE_LEVEL, N
<1>1. M(3) = 1 /\ M(2) = N /\ M(1) = N * N
  OBVIOUS
<1>2. 0 \in Levels => M(0) = N * (N * N)
  OBVIOUS
<1>3. N * N \in Nat \ {0} /\ N * (N * N) \in Nat \ {0}
  OBVIOUS
<1> QED
  BY <1>1, <1>2, <1>3

\* Entries at a level.
W(l) == IpaSize \div M(l)

LEMMA WidthFacts ==
  /\ IpaSize \in Nat
  /\ W(StartLevel) = N
  /\ \A l \in Levels : W(l) \in Nat \ {0} /\ IpaSize = M(l) * W(l)
  /\ \A l \in Levels : l < 3 => W(l + 1) = N * W(l)
<1> DEFINE P(l) == W(l) \in Nat \ {0} /\ IpaSize = M(l) * W(l)
<1>0. M(StartLevel) \in Nat \ {0} /\ IpaSize = N * M(StartLevel) /\ IpaSize = M(StartLevel) * N
  BY LevelFacts, SizeFacts DEF IpaSize, N, M
<1>1. P(StartLevel) /\ W(StartLevel) = N
  BY <1>0, LevelFacts, DivMul DEF W
<1>2. ASSUME NEW l \in Levels, l < 3, P(l)
      PROVE  P(l + 1) /\ W(l + 1) = N * W(l)
  <2>1. PICK m \in Nat \ {0} : m = M(l + 1)
    BY <1>2, SizeFacts
  <2>2. PICK w \in Nat \ {0} : w = W(l)
    BY <1>2
  <2>3. IpaSize = (N * m) * w
    BY <1>2, <2>1, <2>2, SizeFacts
  <2>4. N * w \in Nat \ {0} /\ (N * m) * w = m * (N * w)
    BY LevelFacts
  <2>5. IpaSize = m * (N * w)
    BY <2>3, <2>4
  <2>6. IpaSize \div m = N * w
    BY <2>4, <2>5, DivMul
  <2> QED
    BY <2>1, <2>2, <2>4, <2>5, <2>6 DEF W
<1> HIDE DEF P
<1>3. \A l \in Levels : P(l)
  <2>1. P(StartLevel + 1)
    BY <1>1, <1>2, LevelFacts
  <2>2. P(StartLevel + 2)
    BY <2>1, <1>2, LevelFacts
  <2>3. StartLevel = 0 => P(3)
    BY <2>2, <1>2, LevelFacts
  <2> QED
    BY <1>1, <2>1, <2>2, <2>3, LevelFacts
<1>4. IpaSize \in Nat
  BY <1>0, LevelFacts
<1> QED
  BY <1>1, <1>2, <1>3, <1>4 DEF P

\* Where the entries are.
LEMMA EntryShape ==
  /\ \A x \in Entries : x = <<x[1], x[2]>> /\ x[1] \in Levels /\ x[2] \in 0..(W(x[1]) - 1)
  /\ \A l \in Levels : \A i \in 0..(W(l) - 1) : <<l, i>> \in Entries
<1>1. \A l \in Levels : IpaSize \div (1 * s2tte_map_size(l)) = W(l)
  BY SizeFacts DEF W, M
<1>2. Entries = UNION {{<<l, i>> : i \in 0..(W(l) - 1)} : l \in Levels}
  BY <1>1 DEF Entries, Positions
<1> QED
  BY <1>2

\* Where the tables are.
LEMMA TableShape ==
  /\ \A t \in Tables : t = <<t[1], t[2]>> /\ t[1] \in Levels /\ t[2] \in 0..((W(t[1]) \div N) - 1)
  /\ \A l \in Levels : \A i \in 0..((W(l) \div N) - 1) : <<l, i>> \in Tables
<1>1. ASSUME NEW l \in Levels PROVE IpaSize \div (N * M(l)) = W(l) \div N
  <2>1. PICK m \in Nat \ {0} : m = M(l)
    BY SizeFacts
  <2>2. IpaSize \in Nat /\ N \in Nat \ {0}
    BY WidthFacts, LevelFacts
  <2>3. (IpaSize \div m) \div N = IpaSize \div (N * m)
    BY <2>2, DivDiv
  <2> QED
    BY <2>1, <2>3 DEF W
<1>2. Tables = UNION {{<<l, i>> : i \in 0..((W(l) \div N) - 1)} : l \in Levels}
  BY <1>1 DEF Tables, Positions, M, N
<1> QED
  BY <1>2

\* Every level's entries fill whole tables.
LEMMA TablesFull ==
  ASSUME NEW l \in Levels
  PROVE  /\ W(l) \div N \in Nat /\ W(l) = N * (W(l) \div N)
         /\ l < 3 => W(l + 1) \div N = W(l)
         /\ l = StartLevel => W(l) \div N = 1
         /\ l # StartLevel => l - 1 \in Levels /\ W(l) \div N = W(l - 1)
<1>1. l = StartLevel => W(l) \div N = 1 /\ W(l) = N
  BY WidthFacts, LevelFacts, DivMul
<1>2. l < 3 => W(l + 1) \div N = W(l)
  BY WidthFacts, LevelFacts, DivMul
<1>3. l # StartLevel => l - 1 \in Levels /\ W(l) = N * W(l - 1) /\ W(l) \div N = W(l - 1)
  <2>1. SUFFICES ASSUME l # StartLevel PROVE l - 1 \in Levels /\ W(l) = N * W(l - 1) /\ W(l) \div N = W(l - 1)
    OBVIOUS
  <2>2. l - 1 \in Levels /\ l - 1 < 3 /\ (l - 1) + 1 = l
    BY <2>1, LevelFacts
  <2>3. W(l) = N * W(l - 1)
    BY <2>2, WidthFacts
  <2> QED
    BY <2>2, <2>3, WidthFacts, LevelFacts, DivMul
<1>4. W(l) \div N \in Nat /\ W(l) = N * (W(l) \div N)
  <2>1. CASE l = StartLevel
    BY <2>1, <1>1, LevelFacts
  <2>2. CASE l # StartLevel
    BY <2>2, <1>3, WidthFacts
  <2> QED BY <2>1, <2>2
<1> QED
  BY <1>1, <1>2, <1>3, <1>4


\* The quotient of a number below a multiple.
LEMMA DivBound ==
  ASSUME NEW b \in Nat \ {0}, NEW w \in Nat, NEW k \in 0..(b * w - 1)
  PROVE  k \div b \in 0..(w - 1)
<1>1. PICK d \in Nat : d = k \div b /\ b * d <= k
  BY DivRange
<1>2. CASE d >= w
  <2>1. b * w <= b * d
    BY <1>2, MulMono
  <2> QED BY <1>1, <2>1
<1> QED
  BY <1>1, <1>2

\* A number below a multiple, from quotient and rest.
LEMMA MulBound ==
  ASSUME NEW b \in Nat \ {0}, NEW w \in Nat, NEW q \in 0..(w - 1), NEW r \in 0..(b - 1)
  PROVE  b * q + r \in 0..(b * w - 1) /\ (b * q + r) \div b = q
<1>1. b * (q + 1) <= b * w
  BY MulMono
<1>2. b * (q + 1) = b * q + b
  OBVIOUS
<1>3. b * q \in Nat /\ b * w \in Nat
  OBVIOUS
<1>4. b * q + r \in Nat /\ b * q <= b * q + r /\ b * q + r < b * q + b
  BY <1>3
<1>5. (b * q + r) \div b = q
  BY <1>4, DivUnique
<1> QED
  BY <1>1, <1>2, <1>3, <1>4, <1>5

\* The table of an entry, and the table an entry points to.
LEMMA TableOfIn ==
  ASSUME NEW x \in Entries
  PROVE  TableOf(x) \in Tables /\ TableOf(x)[1] = x[1]
<1>1. x[1] \in Levels /\ x[2] \in 0..(W(x[1]) - 1)
  BY EntryShape
<1>2. PICK w \in Nat : w = W(x[1]) \div N /\ W(x[1]) = N * w
  BY <1>1, TablesFull
<1>3. x[2] \div N \in 0..(w - 1)
  BY <1>1, <1>2, DivBound, LevelFacts
<1> QED
  BY <1>1, <1>2, <1>3, TableShape DEF TableOf, N

LEMMA BelowIn ==
  ASSUME NEW x \in Entries, x[1] # 3
  PROVE  Below(x) \in Tables /\ Below(x)[1] = x[1] + 1 /\ x[1] + 1 \in Levels
<1>1. x[1] \in Levels /\ x[2] \in 0..(W(x[1]) - 1)
  BY EntryShape
<1>2. x[1] + 1 \in Levels /\ x[1] < 3
  BY <1>1, LevelFacts
<1>3. W(x[1] + 1) \div N = W(x[1])
  BY <1>1, <1>2, TablesFull
<1> QED
  BY <1>1, <1>2, <1>3, TableShape DEF Below

\* The entries of a table are those whose table it is.
LEMMA EntriesOfIn ==
  ASSUME NEW t \in Tables
  PROVE  /\ \A x \in EntriesOf(t) : x \in Entries /\ TableOf(x) = t /\ x[1] = t[1]
         /\ \A x \in Entries : TableOf(x) = t => x \in EntriesOf(t)
         /\ First(t) \in EntriesOf(t)
<1>1. t = <<t[1], t[2]>> /\ t[1] \in Levels /\ t[2] \in 0..((W(t[1]) \div N) - 1)
  BY TableShape
<1>2. PICK w \in Nat : w = W(t[1]) \div N /\ W(t[1]) = N * w
  BY <1>1, TablesFull
<1>3. PICK i \in 0..(w - 1) : i = t[2]
  BY <1>1, <1>2
<1>4. N \in Nat \ {0} /\ i \in Nat /\ i * N = N * i
  BY <1>3, LevelFacts
<1>5. ASSUME NEW k \in 0..(N - 1)
      PROVE  <<t[1], (t[2] * N) + k>> \in Entries /\ TableOf(<<t[1], (t[2] * N) + k>>) = t
  <2>1. N * i + k \in 0..(N * w - 1) /\ (N * i + k) \div N = i
    BY <1>2, <1>3, <1>4, MulBound
  <2> QED
    BY <1>1, <1>2, <1>3, <1>4, <2>1, EntryShape DEF TableOf, N
<1>6. ASSUME NEW x \in Entries, TableOf(x) = t
      PROVE  x \in EntriesOf(t)
  <2>1. x = <<x[1], x[2]>> /\ x[2] \in Nat /\ x[1] = t[1] /\ x[2] \div N = i
    BY <1>3, <1>6, EntryShape DEF TableOf, N
  <2>2. PICK k \in 0..(N - 1) : x[2] = N * i + k
    BY <2>1, <1>4, DivMod
  <2>3. x = <<t[1], (t[2] * N) + k>>
    BY <1>3, <1>4, <2>1, <2>2
  <2> QED
    BY <2>3 DEF EntriesOf, N
<1>7. First(t) = <<t[1], (t[2] * N) + 0>> /\ 0 \in 0..(N - 1)
  BY <1>3, <1>4, LevelFacts DEF First, N
<1> QED
  BY <1>5, <1>6, <1>7 DEF EntriesOf, N

\* A table has N entries.
LEMMA EntriesOfCard ==
  ASSUME NEW t \in Tables
  PROVE  IsFiniteSet(EntriesOf(t)) /\ Cardinality(EntriesOf(t)) = N
<1> DEFINE f == [k \in 0..(N - 1) |-> <<t[1], (t[2] * N) + k>>]
<1>1. t[2] \in Nat /\ N \in Nat /\ t[2] * N \in Nat
  BY TableShape, LevelFacts
<1>2. f \in Bijection(0..(N - 1), EntriesOf(t))
  <2>1. f \in [0..(N - 1) -> EntriesOf(t)]
    BY DEF EntriesOf, N
  <2>2. \A j, k \in 0..(N - 1) : f[j] = f[k] => j = k
    BY <1>1
  <2>3. \A x \in EntriesOf(t) : \E k \in 0..(N - 1) : f[k] = x
    BY DEF EntriesOf, N
  <2> HIDE DEF f
  <2> QED BY <2>1, <2>2, <2>3 DEF Bijection, Injection, Surjection, IsInjective
<1> HIDE DEF f
<1>3. IsFiniteSet(0..(N - 1)) /\ Cardinality(0..(N - 1)) = N
  <2>1. N - 1 \in Int /\ 0 \in Int /\ ~(0 > N - 1) /\ (N - 1) - 0 + 1 = N
    BY LevelFacts
  <2> QED BY <2>1, FS_Interval
<1> QED
  BY <1>2, <1>3, FS_Bijection DEF ExistsBijection

\* The entry that points to an entry's table.
LEMMA ParentIn ==
  ASSUME NEW x \in Entries, x[1] # StartLevel
  PROVE  /\ Parent(x) \in Entries /\ Parent(x)[1] = x[1] - 1 /\ Parent(x)[1] # 3
         /\ Below(Parent(x)) = TableOf(x)
<1>1. x[1] \in Levels /\ x[2] \in 0..(W(x[1]) - 1)
  BY EntryShape
<1>2. PICK w \in Nat : w = W(x[1] - 1) /\ W(x[1]) = N * w /\ x[1] - 1 \in Levels
  BY <1>1, TablesFull
<1>3. x[2] \div N \in 0..(w - 1)
  BY <1>1, <1>2, DivBound, LevelFacts
<1> QED
  BY <1>1, <1>2, <1>3, EntryShape, LevelFacts DEF Parent, Below, TableOf, N

\* The parent of an entry is determined by its table.
LEMMA ParentUnique ==
  ASSUME NEW x \in Entries, NEW e \in Entries, e[1] # 3, TableOf(x) = Below(e)
  PROVE  x[1] # StartLevel /\ Parent(x) = e
<1>1. x[1] \in Levels /\ e[1] \in Levels /\ e = <<e[1], e[2]>>
  BY EntryShape
<1> QED
  BY <1>1, LevelFacts DEF TableOf, Below, Parent, N


\* The entries of a page, one per level, are each other's parents.
LEMMA EntryIn ==
  ASSUME NEW p \in Ipas, NEW l \in Levels
  PROVE  /\ Entry(p, l) \in Entries /\ Entry(p, l)[1] = l /\ p \in Nat
         /\ l # StartLevel => l - 1 \in Levels /\ Parent(Entry(p, l)) = Entry(p, l - 1)
<1>1. p \in Nat /\ p \in 0..(IpaSize - 1)
  BY WidthFacts DEF Ipas
<1>2. PICK m \in Nat \ {0} : m = M(l)
  BY SizeFacts
<1>3. PICK w \in Nat : w = W(l) /\ IpaSize = m * w
  BY <1>2, WidthFacts
<1>4. p \div m \in 0..(w - 1)
  BY <1>1, <1>3, DivBound
<1>5. Entry(p, l) \in Entries /\ Entry(p, l)[1] = l
  BY <1>2, <1>3, <1>4, EntryShape DEF Entry, M
<1>6. ASSUME l # StartLevel
      PROVE  l - 1 \in Levels /\ Parent(Entry(p, l)) = Entry(p, l - 1)
  <2>1. l - 1 \in Levels /\ l - 1 < 3 /\ (l - 1) + 1 = l
    BY <1>6, LevelFacts
  <2>2. M(l - 1) = N * m
    BY <1>2, <2>1, SizeFacts
  <2>3. (p \div m) \div N = p \div (N * m)
    BY <1>1, LevelFacts, DivDiv
  <2> QED
    BY <1>2, <2>1, <2>2, <2>3 DEF Entry, M, Parent
<1> QED
  BY <1>1, <1>5, <1>6

\* The pages an entry covers are those whose entry at its level it is.
LEMMA CoversIff ==
  ASSUME NEW x \in Entries
  PROVE  /\ Covers(x) \subseteq Ipas
         /\ \A p \in Covers(x) : Entry(p, x[1]) = x
         /\ \A p \in Ipas : Entry(p, x[1]) = x => p \in Covers(x)
         /\ Base(x) \in Covers(x)
         /\ Base(x) \in Nat /\ Base(x) = M(x[1]) * x[2]
<1>1. x = <<x[1], x[2]>> /\ x[1] \in Levels /\ x[2] \in 0..(W(x[1]) - 1)
  BY EntryShape
<1>2. PICK m \in Nat \ {0} : m = M(x[1])
  BY <1>1, SizeFacts
<1>3. PICK w \in Nat : w = W(x[1]) /\ IpaSize = m * w
  BY <1>1, <1>2, WidthFacts
<1>4. PICK i \in 0..(w - 1) : i = x[2]
  BY <1>1, <1>3
<1>5. m * i \in Nat /\ i * m = m * i
  OBVIOUS
<1>6. Base(x) = m * i
  BY <1>2, <1>4, <1>5 DEF Base, M
<1>7. Covers(x) = (m * i)..(m * i + m - 1)
  BY <1>2, <1>6 DEF Covers, M
<1>8. ASSUME NEW p \in Covers(x)
      PROVE  p \in Ipas /\ Entry(p, x[1]) = x
  <2>1. PICK r \in 0..(m - 1) : p = m * i + r
    BY <1>7, <1>8, <1>5
  <2>2. p \in 0..(m * w - 1) /\ p \div m = i
    BY <2>1, <1>4, MulBound
  <2> QED
    BY <1>1, <1>2, <1>3, <1>4, <2>2 DEF Ipas, Entry, M
<1>9. ASSUME NEW p \in Ipas, Entry(p, x[1]) = x
      PROVE  p \in Covers(x)
  <2>1. p \in Nat /\ p \div m = i
    BY <1>1, <1>2, <1>4, <1>9, WidthFacts DEF Ipas, Entry, M
  <2>2. m * i <= p /\ p < m * i + m
    BY <2>1, DivRange
  <2> QED
    BY <1>7, <1>5, <2>1, <2>2
<1>10. Base(x) \in Covers(x)
  BY <1>5, <1>6, <1>7
<1> QED
  BY <1>2, <1>4, <1>5, <1>6, <1>8, <1>9, <1>10

\* Half the address space is a whole number of entries at every level.
LEMMA ParFacts ==
  ASSUME NEW l \in Levels
  PROVE  /\ ParSize \in Nat /\ ParSize <= IpaSize
         /\ \E k \in Nat : ParSize = M(l) * k
<1>1. PICK h \in Nat : N = 2 * h
  BY RttAssumption DEF N
<1>2. PICK w \in Nat : w = W(l) \div N /\ W(l) = N * w
  BY TablesFull
<1>3. PICK m \in Nat \ {0} : m = M(l) /\ IpaSize = m * ((2 * h) * w)
  BY <1>1, <1>2, SizeFacts, WidthFacts
<1>4. m * (h * w) \in Nat /\ h * w \in Nat
  BY <1>1, <1>2
<1>5. m * ((2 * h) * w) = 2 * (m * (h * w))
  BY <1>1, <1>2
<1>6. PICK k \in Nat : k = m * (h * w)
  BY <1>4
<1>7. IpaSize = 2 * k
  BY <1>3, <1>5, <1>6
<1>8. ParSize = k
  BY <1>7 DEF ParSize
<1> QED
  BY <1>3, <1>4, <1>6, <1>7, <1>8

\* An entry covers pages of one half only.
LEMMA ParIff ==
  ASSUME NEW x \in Entries, NEW p \in Covers(x)
  PROVE  addr_in_par(p) <=> addr_in_par(Base(x))
<1>1. x[1] \in Levels /\ x[2] \in Nat
  BY EntryShape
<1>2. PICK m \in Nat \ {0} : m = M(x[1])
  BY <1>1, SizeFacts
<1>3. PICK k \in Nat : ParSize = m * k
  BY <1>1, <1>2, ParFacts
<1>4. PICK i \in Nat : i = x[2]
  BY <1>1
<1>5. Base(x) = m * i /\ m * i \in Nat
  BY <1>2, <1>4, CoversIff
<1>6. p \in (m * i)..(m * i + m - 1)
  BY <1>2, <1>5 DEF Covers, M
<1>7. CASE i >= k
  <2>1. m * k <= m * i
    BY <1>7, MulMono
  <2> QED BY <1>3, <1>5, <1>6, <2>1 DEF addr_in_par
<1>8. CASE i < k
  <2>1. m * (i + 1) <= m * k
    BY <1>8, MulMono
  <2>2. m * (i + 1) = m * i + m
    OBVIOUS
  <2> QED BY <1>3, <1>5, <1>6, <2>1, <2>2 DEF addr_in_par
<1> QED
  BY <1>7, <1>8

\* The first page of an entry is where its range starts; an aligned page is one.
LEMMA AlignedIsBase ==
  ASSUME NEW p \in Ipas, NEW l \in Levels, IsAligned(p, l)
  PROVE  Base(Entry(p, l)) = p
<1>1. PICK m \in Nat \ {0} : m = M(l)
  BY SizeFacts
<1>2. p \in Nat /\ p % m = 0
  BY <1>1, EntryIn DEF IsAligned, M
<1>3. p = m * (p \div m)
  BY <1>2, DivMod
<1>4. Entry(p, l) \in Entries /\ Entry(p, l)[1] = l /\ Entry(p, l)[2] = p \div m
  BY <1>1, EntryIn DEF Entry, M
<1> QED
  BY <1>1, <1>3, <1>4, CoversIff


-----------------------------------------------------------------------------
(***************************************************************************)
(* Trees.  The definitions take the entries as an argument, so that a      *)
(* lemma about them applies before and after a step.                       *)
(***************************************************************************)
Hipas == {"absent", "table", "unassigned", "assigned", "unassigned_ns", "assigned_ns"}

Ripas == {"empty", "ram", "destroyed"}

Tte == [hipas : Hipas, ripas : Ripas, pa : Nat, attr : Nat]

IsLeaf(e) == e.hipas \notin {"table", "absent"}

\* An entry is absent where its parent is not a table; there is no table below the page level.
Tree(f) ==
  /\ f \in [Entries -> Tte]
  /\ \A x \in Entries : f[x].hipas = "absent" <=> (x[1] # StartLevel /\ f[Parent(x)].hipas # "table")
  /\ \A x \in Entries : x[1] = 3 => f[x].hipas # "table"

Walk(f, addr, level) ==
  CHOOSE l \in StartLevel..level :
    /\ l = level \/ f[Entry(addr, l)].hipas # "table"
    /\ \A k \in StartLevel..(l - 1) : f[Entry(addr, k)].hipas = "table"

LeafOf(f, p) == f[Entry(p, Walk(f, p, 3))]

View(f, p) == Piece(LeafOf(f, p), S2TT_PAGE_LEVEL, p % M(Walk(f, p, 3)))

\* The model's operators are these, applied to tte.
LEMMA WalkIsWalk ==
  /\ \A p, l : s2tt_walk(p, l) = Walk(tte, p, l)
  /\ \A p : Leaf(p) = LeafOf(tte, p) /\ PageView(p) = View(tte, p)
  BY DEF s2tt_walk, Walk, Leaf, LeafOf, PageView, View, S2TT_PAGE_LEVEL, M

\* Along the path of a page: tables, then one leaf, then nothing.
LEMMA PathFacts ==
  ASSUME NEW f, Tree(f), NEW p \in Ipas
  PROVE  /\ f[Entry(p, StartLevel)].hipas # "absent"
         /\ f[Entry(p, 3)].hipas # "table"
         /\ \A l \in Levels : l # StartLevel =>
              l - 1 \in Levels /\ (f[Entry(p, l)].hipas = "absent" <=> f[Entry(p, l - 1)].hipas # "table")
<1>1. \A l \in Levels : Entry(p, l) \in Entries /\ Entry(p, l)[1] = l
  BY EntryIn
<1>2. \A l \in Levels : l # StartLevel => l - 1 \in Levels /\ Parent(Entry(p, l)) = Entry(p, l - 1)
  BY EntryIn
<1>3. StartLevel \in Levels /\ 3 \in Levels
  BY LevelFacts
<1> QED
  BY <1>1, <1>2, <1>3 DEF Tree

\* What a walk finds.
LEMMA WalkFacts ==
  ASSUME NEW f, Tree(f), NEW p \in Ipas, NEW level \in Levels
  PROVE  LET w == Walk(f, p, level) IN
         /\ w \in Levels /\ w <= level
         /\ w = level \/ f[Entry(p, w)].hipas # "table"
         /\ f[Entry(p, w)].hipas # "absent"
         /\ \A k \in Levels : k < w => f[Entry(p, k)].hipas = "table"
         /\ \A k \in Levels : w < k /\ k <= level => f[Entry(p, k)].hipas = "absent"
<1> DEFINE T(k) == f[Entry(p, k)].hipas = "table"
           A(k) == f[Entry(p, k)].hipas = "absent"
           Q(l) == (l = level \/ ~T(l)) /\ \A k \in StartLevel..(l - 1) : T(k)
           w == Walk(f, p, level)
<1>1. /\ ~A(StartLevel) /\ ~T(3)
      /\ \A l \in Levels : l # StartLevel => (A(l) <=> ~T(l - 1))
      /\ \A l \in Levels : ~(A(l) /\ T(l))
  BY PathFacts
<1>2. \E l \in StartLevel..level : Q(l)
  <2> HIDE DEF T, A
  <2>0. StartLevel \in {0, 1} /\ level \in StartLevel..3
    BY LevelFacts
  <2>1. CASE level = StartLevel \/ ~T(StartLevel)
    <3>1. Q(StartLevel) /\ StartLevel \in StartLevel..level
      BY <2>0, <2>1
    <3> QED BY <3>1
  <2>2. CASE ~(level = StartLevel \/ ~T(StartLevel)) /\ (level = StartLevel + 1 \/ ~T(StartLevel + 1))
    <3>1. Q(StartLevel + 1) /\ StartLevel + 1 \in StartLevel..level
      BY <2>0, <2>2
    <3> QED BY <3>1
  <2>3. CASE /\ ~(level = StartLevel \/ ~T(StartLevel))
             /\ ~(level = StartLevel + 1 \/ ~T(StartLevel + 1))
             /\ (level = StartLevel + 2 \/ ~T(StartLevel + 2))
    <3>1. Q(StartLevel + 2) /\ StartLevel + 2 \in StartLevel..level
      BY <2>0, <2>3
    <3> QED BY <3>1
  <2>4. CASE /\ ~(level = StartLevel \/ ~T(StartLevel))
             /\ ~(level = StartLevel + 1 \/ ~T(StartLevel + 1))
             /\ ~(level = StartLevel + 2 \/ ~T(StartLevel + 2))
    <3>1. Q(StartLevel + 3) /\ StartLevel + 3 \in StartLevel..level
      BY <2>0, <2>4
    <3> QED BY <3>1
  <2> QED BY <2>1, <2>2, <2>3, <2>4
<1>3. w \in StartLevel..level /\ Q(w)
  <2>1. w = CHOOSE l \in StartLevel..level : Q(l)
    BY DEF Walk
  <2> HIDE DEF Q, w
  <2> QED BY <1>2, <2>1
<1> HIDE DEF w, T, A
<1>4. w \in Levels /\ w <= level /\ (w = level \/ ~T(w)) /\ \A k \in Levels : k < w => T(k)
  BY <1>3, LevelFacts
<1>5. ~A(w)
  BY <1>1, <1>4, LevelFacts
<1>6. ASSUME NEW k \in Levels, w < k, k <= level PROVE A(k)
  <2>1. ~T(w) /\ A(w + 1)
    BY <1>1, <1>4, <1>6, LevelFacts
  <2>2. w + 2 \in Levels => A(w + 2)
    BY <2>1, <1>1, <1>4, LevelFacts
  <2>3. w + 3 \in Levels => A(w + 3)
    BY <2>2, <1>1, <1>4, LevelFacts
  <2> QED
    BY <1>4, <1>6, <2>1, <2>2, <2>3, LevelFacts
<1> QED
  BY <1>4, <1>5, <1>6 DEF T, A, w

\* A walk ends where the leaf is, and nowhere else.
LEMMA WalkLeaf ==
  ASSUME NEW f, Tree(f), NEW p \in Ipas
  PROVE  /\ Walk(f, p, 3) \in Levels /\ IsLeaf(LeafOf(f, p))
         /\ \A l \in Levels : IsLeaf(f[Entry(p, l)]) => Walk(f, p, 3) = l
<1>1. 3 \in Levels
  BY LevelFacts
<1> DEFINE w == Walk(f, p, 3)
<1>2. /\ w \in Levels /\ w <= 3
      /\ w = 3 \/ f[Entry(p, w)].hipas # "table"
      /\ f[Entry(p, w)].hipas # "absent"
      /\ \A k \in Levels : k < w => f[Entry(p, k)].hipas = "table"
      /\ \A k \in Levels : w < k /\ k <= 3 => f[Entry(p, k)].hipas = "absent"
  BY <1>1, WalkFacts
<1>3. f[Entry(p, 3)].hipas # "table"
  BY PathFacts
<1> HIDE DEF w
<1> QED
  BY <1>2, <1>3, LevelFacts DEF IsLeaf, LeafOf, w

\* A walk reaches a level where the entry there is not absent.
LEMMA WalkReaches ==
  ASSUME NEW f, Tree(f), NEW p \in Ipas, NEW l \in Levels
  PROVE  Walk(f, p, l) = l <=> f[Entry(p, l)].hipas # "absent"
<1> DEFINE w == Walk(f, p, l)
<1>1. /\ w \in Levels /\ w <= l
      /\ f[Entry(p, w)].hipas # "absent"
      /\ \A k \in Levels : w < k /\ k <= l => f[Entry(p, k)].hipas = "absent"
  BY WalkFacts
<1> HIDE DEF w
<1>2. w = l <=> f[Entry(p, l)].hipas # "absent"
  BY <1>1, LevelFacts
<1> QED
  BY <1>2 DEF w


-----------------------------------------------------------------------------
(***************************************************************************)
(* The three ways a command changes the tree.                              *)
(***************************************************************************)
\* Which entries are tables and which are absent is the same.
SameShape(f, g) ==
  /\ g \in [Entries -> Tte]
  /\ \A x \in Entries : /\ g[x].hipas = "table" <=> f[x].hipas = "table"
                        /\ g[x].hipas = "absent" <=> f[x].hipas = "absent"

LEMMA ShapeTree ==
  ASSUME NEW f, NEW g, Tree(f), SameShape(f, g)
  PROVE  Tree(g) /\ \A p \in Ipas : Walk(g, p, 3) = Walk(f, p, 3)
<1>1. Tree(g)
  <2>1. \A x \in Entries : x[1] # StartLevel => Parent(x) \in Entries
    BY ParentIn
  <2> QED BY <2>1 DEF Tree, SameShape
<1>2. ASSUME NEW p \in Ipas PROVE Walk(g, p, 3) = Walk(f, p, 3)
  <2>1. PICK w \in Levels : w = Walk(f, p, 3) /\ IsLeaf(f[Entry(p, w)])
    BY WalkLeaf DEF LeafOf
  <2>2. Entry(p, w) \in Entries
    BY EntryIn
  <2>3. IsLeaf(g[Entry(p, w)])
    BY <2>1, <2>2 DEF SameShape, IsLeaf
  <2> QED BY <1>1, <2>1, <2>3, WalkLeaf
<1> QED
  BY <1>1, <1>2

\* Pieces of pieces are pieces.
LEMMA PieceType ==
  ASSUME NEW v \in Tte, NEW l \in Levels, NEW k \in Nat
  PROVE  Piece(v, l, k) \in Tte /\ Piece(v, l, k).hipas = v.hipas
         /\ Piece(v, l, k).ripas = v.ripas /\ Piece(v, l, k).attr = v.attr
<1>1. PICK m \in Nat : m = s2tte_map_size(l)
  BY SizeFacts DEF M
<1>2. k * m \in Nat /\ v.pa + (k * m) \in Nat
  BY DEF Tte
<1> QED
  BY <1>1, <1>2 DEF Piece, Tte

\* The index of a page's entry in the table below its entry one level up.
LEMMA ChildIndex ==
  ASSUME NEW x \in Entries, NEW e \in Entries, e[1] # 3, TableOf(x) = Below(e)
  PROVE  /\ x[2] - First(Below(e))[2] \in 0..(N - 1)
         /\ First(Below(e))[2] = e[2] * N /\ x[1] = e[1] + 1
<1>1. Below(e) \in Tables /\ Below(e)[1] = e[1] + 1
  BY BelowIn
<1>2. x \in EntriesOf(Below(e))
  BY <1>1, EntriesOfIn
<1>3. PICK k \in 0..(N - 1) : x = <<e[1] + 1, (e[2] * N) + k>>
  BY <1>2 DEF EntriesOf, Below, N
<1>4. e[2] \in Nat /\ N \in Nat
  BY EntryShape, LevelFacts
<1>5. e[2] * N \in Nat
  BY <1>4
<1> QED
  BY <1>3, <1>5 DEF First, Below, N

\* The page's share of a block is the same through one more table.
LEMMA PiecePage ==
  ASSUME NEW p \in Ipas, NEW e \in Entries, e[1] # 3, NEW y \in Entries,
         Entry(p, e[1]) = e, Entry(p, e[1] + 1) = y, NEW v \in Tte
  PROVE  Piece(Piece(v, e[1] + 1, y[2] - First(Below(e))[2]), 3, p % M(e[1] + 1)) = Piece(v, 3, p % M(e[1]))
<1>1. e[1] \in Levels /\ e[1] + 1 \in Levels /\ e[1] < 3 /\ 3 \in Levels
  BY EntryShape, BelowIn, LevelFacts
<1>2. PICK m \in Nat \ {0} : m = M(e[1] + 1) /\ M(e[1]) = N * m
  BY <1>1, SizeFacts
<1>3. p \in Nat /\ N \in Nat \ {0}
  BY EntryIn, <1>1, LevelFacts
<1>4a. p \div m \in Nat /\ p % m \in Nat /\ p = m * (p \div m) + (p % m)
  BY <1>3, DivMod, Zenon
<1>4b. PICK c \in Nat : c = p \div m
  BY <1>4a
<1>4c. PICK r \in Nat : r = p % m
  BY <1>4a
<1>4. c = p \div m /\ r = p % m /\ p = m * c + r
  BY <1>4a, <1>4b, <1>4c
<1>5. PICK n \in Nat \ {0} : n = N * m
  BY <1>3
<1>6a. p \div n \in Nat /\ p % n \in Nat /\ p = n * (p \div n) + (p % n)
  BY <1>3, DivMod, Zenon
<1>6b. PICK b \in Nat : b = p \div n
  BY <1>6a
<1>6c. PICK s \in Nat : s = p % n
  BY <1>6a
<1>6. b = p \div n /\ s = p % n /\ p = n * b + s
  BY <1>6a, <1>6b, <1>6c
<1>7. y[2] = c /\ e[2] = b
  BY <1>2, <1>4, <1>5, <1>6 DEF Entry, M
<1>8. First(Below(e))[2] = b * N
  BY <1>7 DEF First, Below, N
<1>9. n * b = (b * N) * m
  BY <1>3, <1>5
<1>10. (c - b * N) * m = m * c - (b * N) * m
  BY <1>3
<1>11a. PICK u1 \in Nat : u1 = m * c
  OBVIOUS
<1>11b. PICK u2 \in Nat : u2 = (b * N) * m
  BY <1>3
<1>12. PICK z \in Int : z = (c - b * N) * m
  BY <1>3
<1>11. z + r = s
  <2>1. z = u1 - u2 /\ p = u1 + r /\ p = u2 + s
    BY <1>4, <1>6, <1>9, <1>10, <1>11a, <1>11b, <1>12
  <2> QED BY <2>1, <1>3
<1>13. M(3) = 1 /\ s2tte_map_size(3) = 1 /\ s2tte_map_size(e[1] + 1) = m
  BY <1>2, SizeFacts DEF M
<1>14. p % M(e[1] + 1) = r /\ p % M(e[1]) = s /\ z + r = s
  BY <1>2, <1>4, <1>5, <1>6, <1>11, <1>12
<1>15. (y[2] - First(Below(e))[2]) * m = z
  BY <1>7, <1>8, <1>12
<1>16. CASE v.hipas \in {"assigned", "assigned_ns"}
  <2> DEFINE v1 == [v EXCEPT !.pa = @ + z]
  <2>1. Piece(v, e[1] + 1, y[2] - First(Below(e))[2]) = v1
    BY <1>13, <1>15, <1>16 DEF Piece, Tte
  <2>2. v1.hipas = v.hipas /\ v1.pa = v.pa + z
    BY DEF Tte
  <2>2a. v.pa \in Nat /\ (v.pa + z) + r = v.pa + s
    BY <1>14 DEF Tte
  <2>2b. r * 1 = r /\ s * 1 = s
    OBVIOUS
  <2>5. [v1 EXCEPT !.pa = @ + r] = [v EXCEPT !.pa = @ + s]
    BY <2>2a DEF Tte
  <2> HIDE DEF v1
  <2>3. Piece(v1, 3, r) = [v1 EXCEPT !.pa = @ + r]
    BY <1>13, <1>16, <2>2, <2>2b DEF Piece
  <2>4. Piece(v, 3, s) = [v EXCEPT !.pa = @ + s]
    BY <1>13, <1>16, <2>2b DEF Piece
  <2> QED BY <1>14, <2>1, <2>3, <2>4, <2>5
<1>17. CASE v.hipas \notin {"assigned", "assigned_ns"}
  BY <1>17 DEF Piece
<1> QED
  BY <1>16, <1>17


\* Entry e gives way to a table of its pieces.
Split(f, e) ==
  [x \in Entries |-> IF x = e THEN TableTte
                     ELSE IF TableOf(x) = Below(e) THEN Piece(f[e], e[1] + 1, x[2] - First(Below(e))[2])
                     ELSE f[x]]

LEMMA SplitEntries ==
  ASSUME NEW f, Tree(f), NEW e \in Entries, e[1] # 3, IsLeaf(f[e])
  PROVE  /\ Split(f, e) \in [Entries -> Tte]
         /\ Split(f, e)[e].hipas = "table" /\ TableOf(e) # Below(e)
         /\ \A x \in Entries : TableOf(x) = Below(e) =>
              /\ x # e /\ Parent(x) = e /\ x[1] = e[1] + 1 /\ x[1] # StartLevel
              /\ f[x].hipas = "absent"
              /\ Split(f, e)[x] = Piece(f[e], e[1] + 1, x[2] - First(Below(e))[2])
              /\ Split(f, e)[x].hipas = f[e].hipas
         /\ \A x \in Entries : x # e /\ TableOf(x) # Below(e) => Split(f, e)[x] = f[x]
<1> DEFINE g == Split(f, e)
<1>1. e[1] \in Levels /\ e[1] + 1 \in Levels
  BY EntryShape, BelowIn
<1>2. TableOf(e) # Below(e)
  BY <1>1, LevelFacts DEF TableOf, Below
<1>3. ASSUME NEW x \in Entries, TableOf(x) = Below(e)
      PROVE  /\ x # e /\ Parent(x) = e /\ x[1] = e[1] + 1 /\ x[1] # StartLevel
             /\ f[x].hipas = "absent"
             /\ Piece(f[e], e[1] + 1, x[2] - First(Below(e))[2]) \in Tte
             /\ Piece(f[e], e[1] + 1, x[2] - First(Below(e))[2]).hipas = f[e].hipas
  <2>1. x # e /\ Parent(x) = e /\ x[1] # StartLevel
    BY <1>2, <1>3, ParentUnique
  <2>2. x[2] - First(Below(e))[2] \in Nat /\ x[1] = e[1] + 1
    BY <1>3, ChildIndex, LevelFacts
  <2>3. f[e] \in Tte
    BY DEF Tree
  <2>4. f[x].hipas = "absent"
    BY <2>1 DEF Tree, IsLeaf
  <2>5. /\ Piece(f[e], e[1] + 1, x[2] - First(Below(e))[2]) \in Tte
        /\ Piece(f[e], e[1] + 1, x[2] - First(Below(e))[2]).hipas = f[e].hipas
    BY <1>1, <2>2, <2>3, PieceType
  <2> QED BY <2>1, <2>2, <2>4, <2>5
<1>4. TableTte \in Tte /\ TableTte.hipas = "table"
  BY DEF TableTte, S2tte, Tte, Hipas, Ripas
<1>5. g \in [Entries -> Tte]
  BY <1>3, <1>4 DEF Split, Tree
<1>6. g[e] = TableTte
  BY DEF Split
<1>7. \A x \in Entries : x # e /\ TableOf(x) = Below(e) =>
        g[x] = Piece(f[e], e[1] + 1, x[2] - First(Below(e))[2])
  BY DEF Split
<1>8. \A x \in Entries : x # e /\ TableOf(x) # Below(e) => g[x] = f[x]
  BY DEF Split
<1> HIDE DEF g
<1>9. ASSUME NEW x \in Entries, TableOf(x) = Below(e)
      PROVE  g[x] = Piece(f[e], e[1] + 1, x[2] - First(Below(e))[2]) /\ g[x].hipas = f[e].hipas
  BY <1>3, <1>7, <1>9
<1> QED
  BY <1>2, <1>3, <1>4, <1>5, <1>6, <1>8, <1>9 DEF g

\* Splitting a leaf gives a tree that says the same of every page.
LEMMA SplitTree ==
  ASSUME NEW f, Tree(f), NEW e \in Entries, e[1] # 3, IsLeaf(f[e])
  PROVE  Tree(Split(f, e)) /\ \A p \in Ipas : View(Split(f, e), p) = View(f, p)
<1> DEFINE g == Split(f, e)
<1>1. /\ g \in [Entries -> Tte]
      /\ g[e].hipas = "table" /\ TableOf(e) # Below(e)
      /\ \A x \in Entries : TableOf(x) = Below(e) =>
           /\ x # e /\ Parent(x) = e /\ x[1] = e[1] + 1 /\ x[1] # StartLevel
           /\ f[x].hipas = "absent"
           /\ g[x] = Piece(f[e], e[1] + 1, x[2] - First(Below(e))[2])
           /\ g[x].hipas = f[e].hipas
      /\ \A x \in Entries : x # e /\ TableOf(x) # Below(e) => g[x] = f[x]
  BY SplitEntries
<1>2. e[1] \in Levels /\ e[1] + 1 \in Levels /\ f[e] \in Tte /\ e[1] + 1 # StartLevel /\ (e[1] + 1) - 1 = e[1]
  BY EntryShape, BelowIn, LevelFacts DEF Tree
<1> HIDE DEF g
<1>3. ASSUME NEW x \in Entries
      PROVE  g[x].hipas = "absent" <=> (x[1] # StartLevel /\ g[Parent(x)].hipas # "table")
  <2>0. x[1] # StartLevel => Parent(x) \in Entries /\ Parent(x)[1] = x[1] - 1 /\ Below(Parent(x)) = TableOf(x)
    BY ParentIn
  <2>1. CASE TableOf(x) = Below(e)
    BY <2>1, <1>1 DEF IsLeaf
  <2>2. CASE x = e
    <3>1. f[e].hipas # "absent"
      BY DEF IsLeaf
    <3>2. x[1] = StartLevel \/ f[Parent(x)].hipas = "table"
      BY <2>2, <3>1 DEF Tree
    <3>3. x[1] # StartLevel => Parent(x) # e /\ TableOf(Parent(x)) # Below(e)
      BY <2>0, <2>2, <1>1, <1>2, LevelFacts
    <3> QED BY <2>0, <2>2, <3>2, <3>3, <1>1
  <2>3. CASE TableOf(x) # Below(e) /\ x # e
    <3>1. g[x] = f[x]
      BY <2>3, <1>1
    <3>2. CASE x[1] # StartLevel
      <4>1. Parent(x) # e
        BY <3>2, <2>0, <2>3
      <4>2. CASE TableOf(Parent(x)) = Below(e)
        <5>1. f[Parent(x)].hipas = "absent" /\ g[Parent(x)].hipas = f[e].hipas
          BY <4>2, <3>2, <2>0, <1>1
        <5>2. f[x].hipas = "absent"
          BY <5>1, <3>2 DEF Tree
        <5> QED BY <3>1, <3>2, <5>1, <5>2 DEF IsLeaf
      <4>3. CASE TableOf(Parent(x)) # Below(e)
        BY <4>1, <4>3, <3>1, <3>2, <2>0, <1>1 DEF Tree
      <4> QED BY <4>2, <4>3
    <3>3. CASE x[1] = StartLevel
      BY <3>1, <3>3 DEF Tree
    <3> QED BY <3>2, <3>3
  <2> QED BY <2>1, <2>2, <2>3
<1>4. ASSUME NEW x \in Entries, x[1] = 3 PROVE g[x].hipas # "table"
  <2>1. CASE TableOf(x) = Below(e)
    BY <2>1, <1>1 DEF IsLeaf
  <2>2. CASE TableOf(x) # Below(e) /\ x # e
    BY <2>2, <1>1, <1>4 DEF Tree
  <2> QED BY <2>1, <2>2, <1>4
<1>5. Tree(g)
  BY <1>1, <1>3, <1>4 DEF Tree
<1>6. ASSUME NEW p \in Ipas PROVE View(g, p) = View(f, p)
  <2>1. CASE Entry(p, e[1]) = e
    <3>1. Walk(f, p, 3) = e[1]
      BY <2>1, <1>2, WalkLeaf
    <3>2. PICK y \in Entries : y = Entry(p, e[1] + 1) /\ y[1] = e[1] + 1 /\ Parent(y) = e
      BY <2>1, <1>2, EntryIn
    <3>3. TableOf(y) = Below(e)
      BY <3>2, <1>2, ParentIn
    <3>4. g[y] = Piece(f[e], e[1] + 1, y[2] - First(Below(e))[2]) /\ IsLeaf(g[y])
      BY <3>3, <1>1 DEF IsLeaf
    <3>5. Walk(g, p, 3) = e[1] + 1
      BY <3>2, <3>4, <1>2, <1>5, WalkLeaf
    <3>6. Piece(g[y], 3, p % M(e[1] + 1)) = Piece(f[e], 3, p % M(e[1]))
      BY <3>2, <3>4, <2>1, <1>2, PiecePage
    <3> QED
      BY <3>1, <3>2, <3>5, <3>6, <2>1 DEF View, LeafOf, S2TT_PAGE_LEVEL
  <2>2. CASE Entry(p, e[1]) # e
    <3>1. PICK w \in Levels : w = Walk(f, p, 3) /\ IsLeaf(f[Entry(p, w)])
      BY WalkLeaf DEF LeafOf
    <3>2. PICK y \in Entries : y = Entry(p, w) /\ y[1] = w
      BY EntryIn
    <3>3. y # e
      BY <3>2, <2>2
    <3>4. TableOf(y) # Below(e)
      BY <3>1, <3>2, <1>1 DEF IsLeaf
    <3>5. g[y] = f[y]
      BY <3>3, <3>4, <1>1
    <3>6. Walk(g, p, 3) = w
      BY <3>1, <3>2, <3>5, <1>5, WalkLeaf
    <3> QED
      BY <3>1, <3>2, <3>5, <3>6 DEF View, LeafOf
  <2> QED BY <2>1, <2>2
<1> QED
  BY <1>5, <1>6 DEF g


\* The table below entry e gives way to one entry.
Merge(f, e, n) ==
  [x \in Entries |-> IF x = e THEN n ELSE IF TableOf(x) = Below(e) THEN Absent ELSE f[x]]

\* Taking away a table without tables in it gives a tree in which its pages are what the new entry says.
LEMMA MergeTree ==
  ASSUME NEW f, Tree(f), NEW e \in Entries, f[e].hipas = "table", NEW n \in Tte, IsLeaf(n),
         \A x \in Entries : TableOf(x) = Below(e) => f[x].hipas # "table"
  PROVE  /\ e[1] # 3 /\ TableOf(e) # Below(e) /\ Tree(Merge(f, e, n))
         /\ \A p \in Ipas : Entry(p, e[1]) = e =>
              /\ Walk(Merge(f, e, n), p, 3) = e[1] /\ LeafOf(Merge(f, e, n), p) = n
              /\ Walk(f, p, 3) = e[1] + 1
         /\ \A p \in Ipas : Entry(p, e[1]) # e =>
              /\ Walk(Merge(f, e, n), p, 3) = Walk(f, p, 3)
              /\ LeafOf(Merge(f, e, n), p) = LeafOf(f, p)
              /\ View(Merge(f, e, n), p) = View(f, p)
         /\ \A x \in Entries : x # e /\ TableOf(x) # Below(e) => Merge(f, e, n)[x] = f[x]
         /\ \A x \in Entries : TableOf(x) = Below(e) => Merge(f, e, n)[x].hipas = "absent"
         /\ Merge(f, e, n)[e] = n
<1> DEFINE g == Merge(f, e, n)
<1>0. e[1] # 3
  BY DEF Tree
<1>1. e[1] \in Levels /\ e[1] + 1 \in Levels /\ e[1] + 1 # StartLevel /\ (e[1] + 1) - 1 = e[1]
  BY <1>0, EntryShape, BelowIn, LevelFacts
<1>2. TableOf(e) # Below(e)
  BY <1>1, LevelFacts DEF TableOf, Below
<1>3. Absent \in Tte /\ Absent.hipas = "absent"
  BY DEF Absent, S2tte, Tte, Hipas, Ripas
<1>4. g \in [Entries -> Tte]
  BY <1>3 DEF Merge, Tree
<1>5. /\ g[e] = n
      /\ \A x \in Entries : TableOf(x) = Below(e) => g[x].hipas = "absent"
      /\ \A x \in Entries : x # e /\ TableOf(x) # Below(e) => g[x] = f[x]
  BY <1>2, <1>3 DEF Merge
<1>6. \A x \in Entries : TableOf(x) = Below(e) => x # e /\ x[1] # StartLevel /\ Parent(x) = e /\ IsLeaf(f[x])
  <2>1. \A x \in Entries : TableOf(x) = Below(e) => x # e /\ x[1] # StartLevel /\ Parent(x) = e
    BY <1>0, <1>2, ParentUnique
  <2> QED BY <2>1 DEF Tree, IsLeaf
<1> HIDE DEF g
<1>7. ASSUME NEW x \in Entries
      PROVE  g[x].hipas = "absent" <=> (x[1] # StartLevel /\ g[Parent(x)].hipas # "table")
  <2>0. x[1] # StartLevel => Parent(x) \in Entries /\ Parent(x)[1] = x[1] - 1 /\ Below(Parent(x)) = TableOf(x)
    BY ParentIn
  <2>1. CASE TableOf(x) = Below(e)
    BY <2>1, <1>5, <1>6 DEF IsLeaf
  <2>2. CASE x = e
    <3>2. x[1] = StartLevel \/ f[Parent(x)].hipas = "table"
      BY <2>2 DEF Tree
    <3>3. x[1] # StartLevel => Parent(x) # e /\ TableOf(Parent(x)) # Below(e)
      BY <2>0, <2>2, <1>1, <1>6, LevelFacts, TableOfIn DEF Below
    <3> QED BY <2>0, <2>2, <3>2, <3>3, <1>5 DEF IsLeaf
  <2>3. CASE TableOf(x) # Below(e) /\ x # e
    <3>1. g[x] = f[x]
      BY <2>3, <1>5
    <3>2. CASE x[1] # StartLevel
      <4>1. Parent(x) # e
        BY <3>2, <2>0, <2>3
      <4>2. CASE TableOf(Parent(x)) = Below(e)
        <5>1. f[Parent(x)].hipas # "table" /\ g[Parent(x)].hipas = "absent"
          BY <4>2, <3>2, <2>0, <1>5
        <5>2. f[x].hipas = "absent"
          BY <5>1, <3>2 DEF Tree
        <5> QED BY <3>1, <3>2, <5>1, <5>2
      <4>3. CASE TableOf(Parent(x)) # Below(e)
        BY <4>1, <4>3, <3>1, <3>2, <2>0, <1>5 DEF Tree
      <4> QED BY <4>2, <4>3
    <3>3. CASE x[1] = StartLevel
      BY <3>1, <3>3 DEF Tree
    <3> QED BY <3>2, <3>3
  <2> QED BY <2>1, <2>2, <2>3
<1>8. ASSUME NEW x \in Entries, x[1] = 3 PROVE g[x].hipas # "table"
  <2>1. CASE TableOf(x) = Below(e)
    BY <2>1, <1>5
  <2>2. CASE TableOf(x) # Below(e) /\ x # e
    BY <2>2, <1>5, <1>8 DEF Tree
  <2> QED BY <2>1, <2>2, <1>0, <1>8
<1>9. Tree(g)
  BY <1>4, <1>7, <1>8 DEF Tree
<1>10. ASSUME NEW p \in Ipas, Entry(p, e[1]) = e
       PROVE  Walk(g, p, 3) = e[1] /\ LeafOf(g, p) = n /\ Walk(f, p, 3) = e[1] + 1
  <2>1. Walk(g, p, 3) = e[1]
    BY <1>1, <1>5, <1>9, <1>10, WalkLeaf
  <2>2. PICK y \in Entries : y = Entry(p, e[1] + 1) /\ y[1] = e[1] + 1 /\ Parent(y) = e
    BY <1>10, <1>1, EntryIn
  <2>3. TableOf(y) = Below(e)
    BY <2>2, <1>1, ParentIn
  <2>4. Walk(f, p, 3) = e[1] + 1
    BY <2>2, <2>3, <1>1, <1>6, WalkLeaf
  <2> QED BY <2>1, <2>4, <1>5, <1>10 DEF LeafOf
<1>11. ASSUME NEW p \in Ipas, Entry(p, e[1]) # e
       PROVE  Walk(g, p, 3) = Walk(f, p, 3) /\ LeafOf(g, p) = LeafOf(f, p) /\ View(g, p) = View(f, p)
  <2>1. PICK w \in Levels : w = Walk(f, p, 3) /\ IsLeaf(f[Entry(p, w)])
    BY WalkLeaf DEF LeafOf
  <2>2. PICK y \in Entries : y = Entry(p, w) /\ y[1] = w /\ (w # StartLevel => Parent(y) = Entry(p, w - 1))
    BY EntryIn
  <2>3. y # e
    BY <2>2, <1>11
  <2>4. ASSUME TableOf(y) = Below(e) PROVE FALSE
    <3>1. w # StartLevel /\ Parent(y) = e /\ Parent(y)[1] = y[1] - 1
      BY <2>2, <2>4, <1>6, ParentIn
    <3> QED BY <3>1, <2>2, <1>11
  <2>5. g[y] = f[y]
    BY <2>3, <2>4, <1>5
  <2>6. Walk(g, p, 3) = w
    BY <2>1, <2>2, <2>5, <1>9, WalkLeaf
  <2> QED BY <2>1, <2>2, <2>5, <2>6 DEF LeafOf, View
<1> QED
  BY <1>0, <1>2, <1>5, <1>9, <1>10, <1>11 DEF g

\* Folding pieces of one block gives the block: no page sees a difference.
LEMMA FoldView ==
  ASSUME NEW f, Tree(f), NEW e \in Entries, f[e].hipas = "table", NEW n \in Tte, IsLeaf(n),
         \A x \in Entries : TableOf(x) = Below(e) => f[x] = Piece(n, e[1] + 1, x[2] - First(Below(e))[2])
  PROVE  /\ \A x \in Entries : TableOf(x) = Below(e) => f[x].hipas = n.hipas
         /\ \A p \in Ipas : View(Merge(f, e, n), p) = View(f, p)
<1>0. e[1] # 3
  BY DEF Tree
<1>1. e[1] \in Levels /\ e[1] + 1 \in Levels /\ e[1] + 1 # StartLevel /\ (e[1] + 1) - 1 = e[1]
  BY <1>0, EntryShape, BelowIn, LevelFacts
<1>2. ASSUME NEW x \in Entries, TableOf(x) = Below(e) PROVE f[x].hipas = n.hipas
  <2>1. PICK k \in Nat : k = x[2] - First(Below(e))[2]
    BY <1>0, <1>2, ChildIndex, LevelFacts
  <2>2. f[x] = Piece(n, e[1] + 1, k)
    BY <1>2, <2>1
  <2> QED BY <1>1, <2>2, PieceType
<1>3. \A x \in Entries : TableOf(x) = Below(e) => f[x].hipas # "table"
  BY <1>2 DEF IsLeaf
<1>4. ASSUME NEW p \in Ipas PROVE View(Merge(f, e, n), p) = View(f, p)
  <2>1. CASE Entry(p, e[1]) = e
    <3>1. /\ Walk(Merge(f, e, n), p, 3) = e[1] /\ LeafOf(Merge(f, e, n), p) = n
          /\ Walk(f, p, 3) = e[1] + 1
      BY <2>1, <1>3, MergeTree
    <3>2. PICK y \in Entries : y = Entry(p, e[1] + 1) /\ y[1] = e[1] + 1 /\ Parent(y) = e
      BY <2>1, <1>1, EntryIn
    <3>3. TableOf(y) = Below(e)
      BY <3>2, <1>1, ParentIn
    <3>4. Piece(f[y], 3, p % M(e[1] + 1)) = Piece(n, 3, p % M(e[1]))
      BY <3>2, <3>3, <2>1, <1>0, PiecePage
    <3> QED BY <3>1, <3>2, <3>4 DEF View, LeafOf, S2TT_PAGE_LEVEL
  <2>2. CASE Entry(p, e[1]) # e
    BY <2>2, <1>3, MergeTree
  <2> QED BY <2>1, <2>2
<1> QED
  BY <1>2, <1>4


-----------------------------------------------------------------------------
(***************************************************************************)
(* Reference counts.                                                       *)
(***************************************************************************)
Counts(v) == v.hipas \in {"assigned", "table"}

Counted(f, t) == {x \in EntriesOf(t) : Counts(f[x])}

CountsExact(f, r) ==
  /\ r \in [Tables -> Nat]
  /\ \A t \in Tables : r[t] = Cardinality(Counted(f, t))

LEMMA CountedFinite ==
  ASSUME NEW f, NEW t \in Tables
  PROVE  IsFiniteSet(Counted(f, t)) /\ Cardinality(Counted(f, t)) \in Nat
<1>1. Counted(f, t) \in SUBSET EntriesOf(t) /\ IsFiniteSet(EntriesOf(t))
  BY EntriesOfCard DEF Counted
<1>2. IsFiniteSet(Counted(f, t))
  BY <1>1, FS_Subset
<1> QED
  BY <1>2, FS_CardinalityType

\* A table counts the same when each of its entries does.
LEMMA CountSame ==
  ASSUME NEW f, NEW g, NEW t \in Tables,
         \A x \in Entries : TableOf(x) = t => (Counts(f[x]) <=> Counts(g[x]))
  PROVE  Counted(g, t) = Counted(f, t)
<1>1. \A x \in EntriesOf(t) : x \in Entries /\ TableOf(x) = t
  BY EntriesOfIn
<1> QED
  BY <1>1 DEF Counted

\* One entry that begins to count is one more.
LEMMA CountMore ==
  ASSUME NEW f, NEW g, NEW e \in Entries, ~Counts(f[e]), Counts(g[e]),
         \A x \in Entries : TableOf(x) = TableOf(e) /\ x # e => (Counts(f[x]) <=> Counts(g[x]))
  PROVE  Cardinality(Counted(g, TableOf(e))) = Cardinality(Counted(f, TableOf(e))) + 1
<1>1. TableOf(e) \in Tables
  BY TableOfIn
<1>2. e \in EntriesOf(TableOf(e)) /\ \A x \in EntriesOf(TableOf(e)) : x \in Entries /\ TableOf(x) = TableOf(e)
  BY <1>1, EntriesOfIn
<1>3. Counted(g, TableOf(e)) = Counted(f, TableOf(e)) \cup {e} /\ e \notin Counted(f, TableOf(e))
  BY <1>2 DEF Counted
<1>4. IsFiniteSet(Counted(f, TableOf(e)))
  BY <1>1, CountedFinite
<1> QED
  BY <1>3, <1>4, FS_AddElement

\* Counts after a change of leaves that keeps what is counted.
LEMMA CountsKept ==
  ASSUME NEW f, NEW g, NEW r, CountsExact(f, r),
         \A x \in Entries : Counts(f[x]) <=> Counts(g[x])
  PROVE  CountsExact(g, r)
<1>1. \A t \in Tables : Counted(g, t) = Counted(f, t)
  BY CountSame
<1> QED
  BY <1>1 DEF CountsExact

\* Counts after one entry begins, or ceases, to count.
LEMMA CountsAdd ==
  ASSUME NEW f, NEW g, NEW r, CountsExact(f, r), NEW e \in Entries, ~Counts(f[e]), Counts(g[e]),
         \A x \in Entries : x # e => (Counts(f[x]) <=> Counts(g[x]))
  PROVE  CountsExact(g, [r EXCEPT ![TableOf(e)] = @ + 1])
<1> DEFINE s == [r EXCEPT ![TableOf(e)] = @ + 1]
<1>1. TableOf(e) \in Tables /\ r \in [Tables -> Nat]
  BY TableOfIn DEF CountsExact
<1>2. s \in [Tables -> Nat] /\ s[TableOf(e)] = r[TableOf(e)] + 1 /\ \A t \in Tables : t # TableOf(e) => s[t] = r[t]
  BY <1>1
<1>3. Cardinality(Counted(g, TableOf(e))) = r[TableOf(e)] + 1
  BY <1>1, CountMore DEF CountsExact
<1>4. ASSUME NEW t \in Tables, t # TableOf(e) PROVE Counted(g, t) = Counted(f, t)
  BY <1>4, CountSame
<1> HIDE DEF s
<1>5. \A t \in Tables : s[t] = Cardinality(Counted(g, t))
  BY <1>2, <1>3, <1>4 DEF CountsExact
<1>6. CountsExact(g, s)
  BY <1>2, <1>5 DEF CountsExact
<1> QED
  BY <1>6 DEF s

LEMMA CountsDrop ==
  ASSUME NEW f, NEW g, NEW r, CountsExact(f, r), NEW e \in Entries, Counts(f[e]), ~Counts(g[e]),
         \A x \in Entries : x # e => (Counts(f[x]) <=> Counts(g[x]))
  PROVE  CountsExact(g, [r EXCEPT ![TableOf(e)] = @ - 1])
<1> DEFINE s == [r EXCEPT ![TableOf(e)] = @ - 1]
<1>1. TableOf(e) \in Tables /\ r \in [Tables -> Nat]
  BY TableOfIn DEF CountsExact
<1>2. r[TableOf(e)] = Cardinality(Counted(g, TableOf(e))) + 1 /\ Cardinality(Counted(g, TableOf(e))) \in Nat
  BY <1>1, CountMore, CountedFinite DEF CountsExact
<1>3. s \in [Tables -> Nat] /\ s[TableOf(e)] = Cardinality(Counted(g, TableOf(e)))
      /\ \A t \in Tables : t # TableOf(e) => s[t] = r[t]
  BY <1>1, <1>2
<1>4. ASSUME NEW t \in Tables, t # TableOf(e) PROVE Counted(g, t) = Counted(f, t)
  BY <1>4, CountSame
<1> HIDE DEF s
<1>5. \A t \in Tables : s[t] = Cardinality(Counted(g, t))
  BY <1>3, <1>4 DEF CountsExact
<1>6. CountsExact(g, s)
  BY <1>3, <1>5 DEF CountsExact
<1> QED
  BY <1>6 DEF s

\* Counts after all entries of one table change: to all, or to none counted.
LEMMA CountsTable ==
  ASSUME NEW f, NEW g, NEW r, CountsExact(f, r), NEW t \in Tables, NEW c \in BOOLEAN,
         \A x \in Entries : TableOf(x) = t => (Counts(g[x]) <=> c),
         \A x \in Entries : TableOf(x) # t => (Counts(f[x]) <=> Counts(g[x]))
  PROVE  CountsExact(g, [r EXCEPT ![t] = IF c THEN N ELSE 0])
<1> DEFINE s == [r EXCEPT ![t] = IF c THEN N ELSE 0]
<1>1. r \in [Tables -> Nat] /\ N \in Nat
  BY LevelFacts DEF CountsExact
<1>2. s \in [Tables -> Nat] /\ s[t] = (IF c THEN N ELSE 0) /\ \A u \in Tables : u # t => s[u] = r[u]
  BY <1>1
<1>3. Cardinality(Counted(g, t)) = IF c THEN N ELSE 0
  <2>1. \A x \in EntriesOf(t) : Counts(g[x]) <=> c
    BY EntriesOfIn
  <2>2. Counted(g, t) = IF c THEN EntriesOf(t) ELSE {}
    BY <2>1 DEF Counted
  <2> QED BY <2>2, EntriesOfCard, FS_EmptySet
<1>4. ASSUME NEW u \in Tables, u # t PROVE Counted(g, u) = Counted(f, u)
  BY <1>4, CountSame
<1> HIDE DEF s
<1>5. \A u \in Tables : s[u] = Cardinality(Counted(g, u))
  BY <1>2, <1>3, <1>4 DEF CountsExact
<1>6. CountsExact(g, s)
  BY <1>2, <1>5 DEF CountsExact
<1> QED
  BY <1>6 DEF s

\* A table with count zero has neither tables nor data; with a full count nothing else.
LEMMA CountZero ==
  ASSUME NEW f, NEW r, CountsExact(f, r), NEW t \in Tables, r[t] = 0
  PROVE  \A x \in Entries : TableOf(x) = t => ~Counts(f[x])
<1>1. Counted(f, t) = {}
  BY CountedFinite, FS_EmptySet DEF CountsExact
<1>2. \A x \in Entries : TableOf(x) = t => x \in EntriesOf(t)
  BY EntriesOfIn
<1> QED
  BY <1>1, <1>2 DEF Counted


-----------------------------------------------------------------------------
(***************************************************************************)
(* The inductive invariant.                                                *)
(***************************************************************************)
\* Entries are of the half they are in, and only mapped ones have an address.
Kinds(f) ==
  \A x \in Entries :
    /\ f[x].hipas \in {"unassigned", "assigned"} => addr_in_par(Base(x))
    /\ f[x].hipas \in {"unassigned_ns", "assigned_ns"} => ~addr_in_par(Base(x))
    /\ f[x].hipas = "unassigned" => f[x] = unassigned(f[x].ripas)
    /\ f[x].hipas = "unassigned_ns" => f[x] = unassigned_ns

Par == 0..(ParSize - 1)

Backed(f) == {p \in Par : View(f, p).hipas = "assigned"}

\* Each granule in state DATA is behind one page, and no other granule is behind any.
DataExact(f, d) ==
  /\ \A p \in Backed(f) : View(f, p).pa \in d
  /\ \A a \in d : \E p \in Backed(f) : View(f, p).pa = a
  /\ \A p, q \in Backed(f) : View(f, p).pa = View(f, q).pa => p = q

\* A page translation is cached only for a page that has an entry of its own.
TlbPages(f, c) ==
  \A x \in c :
    /\ x \in [level : Levels, idx : Nat, pa : Nat]
    /\ <<x.level, x.idx>> \in Entries
    /\ x.level = 3 => Valid(f[<<3, x.idx>>]) /\ f[<<3, x.idx>>].pa = x.pa

Requests == [base : Nat, top : Nat, addr : Nat, ripas : {"empty", "ram"}, change_destroyed : BOOLEAN]

\* What a request can be.
ReqOK ==
  /\ req \in Requests
  /\ req.base <= req.top /\ req.top <= ParSize
  /\ req.base = req.top => req.base = 0 /\ req.top = 0
  /\ state \in {"NEW", "ACTIVE"} /\ running \in BOOLEAN
  /\ state = "NEW" => running = FALSE /\ req = NoRequest

\* What has been done of a request.
RipasDone(f, q) ==
  q.base < q.top =>
    /\ q.base <= q.addr /\ q.addr <= q.top
    /\ \A p \in q.base..(q.addr - 1) : View(f, p).ripas \in {q.ripas, "destroyed"}

RttInv ==
  /\ Tree(tte)
  /\ Kinds(tte)
  /\ CountsExact(tte, ref)
  /\ DataExact(tte, data)
  /\ TlbPages(tte, tlb)
  /\ ReqOK
  /\ RipasDone(tte, req)


-----------------------------------------------------------------------------
(***************************************************************************)
(* The structural commands.                                                *)
(***************************************************************************)
\* The parent entry that RTT_CREATE, RTT_FOLD and RTT_DESTROY work on.
LEMMA StructArgs ==
  ASSUME NEW addr \in Nat, NEW level \in Int, validate_rtt_structure_cmds(addr, level), Tree(tte),
         s2tt_walk(addr, level - 1) = level - 1
  PROVE  LET e == Entry(addr, level - 1) IN
         /\ e \in Entries /\ e[1] = level - 1 /\ e[1] # 3 /\ level = e[1] + 1 /\ Base(e) = addr
         /\ addr \in Covers(e) /\ tte[e].hipas # "absent" /\ tte[e] \in Tte
         /\ Below(e) \in Tables /\ e[1] \in Levels /\ e[1] + 1 \in Levels
         /\ addr \in Ipas
<1> DEFINE e == Entry(addr, level - 1)
<1>1. level - 1 \in Levels /\ level - 1 # 3 /\ addr \in Ipas /\ IsAligned(addr, level - 1) /\ (level - 1) + 1 = level
  BY LevelFacts, WidthFacts
     DEF validate_rtt_structure_cmds, validate_map_addr, Ipas, S2TT_PAGE_LEVEL
<1>2. e \in Entries /\ e[1] = level - 1
  BY <1>1, EntryIn
<1>3. Base(e) = addr
  BY <1>1, AlignedIsBase
<1>4. tte[e].hipas # "absent"
  BY <1>1, WalkIsWalk, WalkReaches
<1>5. Below(e) \in Tables /\ e[1] + 1 \in Levels
  BY <1>1, <1>2, BelowIn
<1>6. tte[e] \in Tte
  BY <1>2 DEF Tree
<1>7. addr \in Covers(e)
  BY <1>2, <1>3, CoversIff
<1> HIDE DEF e
<1> QED
  BY <1>1, <1>2, <1>3, <1>4, <1>5, <1>6, <1>7 DEF e

\* What lies below an entry lies in the entry's half, and within its pages.
LEMMA ChildPar ==
  ASSUME NEW x \in Entries, NEW e \in Entries, e[1] # 3, TableOf(x) = Below(e)
  PROVE  (addr_in_par(Base(x)) <=> addr_in_par(Base(e))) /\ Base(x) \in Covers(e)
<1>1. x[1] # StartLevel /\ Parent(x) = e /\ x[1] \in Levels
  BY ParentUnique, EntryShape
<1>2. Base(x) \in Ipas /\ Entry(Base(x), x[1]) = x
  BY CoversIff
<1>3. Entry(Base(x), x[1] - 1) = e
  BY <1>1, <1>2, EntryIn
<1>4. e[1] = x[1] - 1
  BY <1>1, ParentIn
<1>5. Base(x) \in Covers(e)
  BY <1>2, <1>3, <1>4, CoversIff
<1> QED
  BY <1>5, ParIff

\* A command that only takes translations away, and changes no page entry of a cached page.
LEMMA TlbKept ==
  ASSUME NEW f, NEW g, NEW c, NEW d, TlbPages(f, c), d \subseteq c,
         \A x \in d : x.level = 3 /\ Valid(f[<<3, x.idx>>]) => g[<<3, x.idx>>] = f[<<3, x.idx>>]
  PROVE  TlbPages(g, d)
  BY DEF TlbPages

LEMMA CreateStep ==
  ASSUME RttInv, NEW a \in RttArgs, smc_rtt_create(a.addr, a.level)
  PROVE  /\ Tree(tte') /\ Kinds(tte') /\ CountsExact(tte', ref') /\ TlbPages(tte', tlb')
         /\ \A p \in Ipas : View(tte', p) = View(tte, p)
         /\ UNCHANGED <<data, state, running, req>>
<1> DEFINE e == Entry(a.addr, a.level - 1)
<1>0. a.addr \in Nat /\ a.level \in Int
  BY RttAssumption
<1>1. /\ e \in Entries /\ e[1] # 3 /\ a.level = e[1] + 1
      /\ tte[e].hipas # "absent" /\ tte[e] \in Tte /\ Below(e) \in Tables
  BY <1>0, StructArgs DEF RttInv, smc_rtt_create
<1>2. IsLeaf(tte[e])
  BY <1>1 DEF IsLeaf, smc_rtt_create
<1>3. tte' = Split(tte, e)
  BY <1>1 DEF smc_rtt_create, Split
<1>4. ref' = IF tte[e].hipas = "assigned" THEN [ref EXCEPT ![Below(e)] = N]
             ELSE [ref EXCEPT ![TableOf(e)] = @ + 1]
  BY DEF smc_rtt_create, N
<1>5. tlb' \subseteq tlb /\ UNCHANGED <<data, state, running, req>>
  BY DEF smc_rtt_create, s2tt_invalidate_block, stage2_tlbi_ipa
<1> HIDE DEF e
<1> DEFINE g == Split(tte, e)
<1>6. Tree(g) /\ \A p \in Ipas : View(g, p) = View(tte, p)
  BY <1>1, <1>2, SplitTree DEF RttInv
<1>7. /\ g[e].hipas = "table" /\ TableOf(e) # Below(e)
      /\ \A x \in Entries : TableOf(x) = Below(e) =>
           /\ x # e /\ x[1] = e[1] + 1
           /\ tte[x].hipas = "absent"
           /\ g[x] = Piece(tte[e], e[1] + 1, x[2] - First(Below(e))[2])
           /\ g[x].hipas = tte[e].hipas
      /\ \A x \in Entries : x # e /\ TableOf(x) # Below(e) => g[x] = tte[x]
  BY <1>1, <1>2, SplitEntries DEF RttInv
<1> HIDE DEF g
<1>8. Kinds(g)
  <2> SUFFICES ASSUME NEW x \in Entries
               PROVE  /\ g[x].hipas \in {"unassigned", "assigned"} => addr_in_par(Base(x))
                      /\ g[x].hipas \in {"unassigned_ns", "assigned_ns"} => ~addr_in_par(Base(x))
                      /\ g[x].hipas = "unassigned" => g[x] = unassigned(g[x].ripas)
                      /\ g[x].hipas = "unassigned_ns" => g[x] = unassigned_ns
    BY DEF Kinds
  <2>1. CASE x = e
    BY <2>1, <1>7
  <2>2. CASE TableOf(x) = Below(e)
    <3>1. g[x].hipas = tte[e].hipas /\ (addr_in_par(Base(x)) <=> addr_in_par(Base(e)))
      BY <2>2, <1>1, <1>7, ChildPar
    <3>2. tte[e].hipas \in {"unassigned", "unassigned_ns"} => g[x] = tte[e]
      BY <2>2, <1>7 DEF Piece
    <3> QED BY <3>1, <3>2, <1>1 DEF RttInv, Kinds
  <2>3. CASE x # e /\ TableOf(x) # Below(e)
    BY <2>3, <1>7 DEF RttInv, Kinds
  <2> QED BY <2>1, <2>2, <2>3
<1>9. CountsExact(g, ref')
  <2>1. CASE tte[e].hipas = "assigned"
    <3>1. \A x \in Entries : TableOf(x) = Below(e) => (Counts(g[x]) <=> TRUE)
      BY <2>1, <1>7 DEF Counts
    <3>2. \A x \in Entries : TableOf(x) # Below(e) => (Counts(tte[x]) <=> Counts(g[x]))
      BY <2>1, <1>7 DEF Counts
    <3>3. CountsExact(g, [ref EXCEPT ![Below(e)] = IF TRUE THEN N ELSE 0])
      BY <3>1, <3>2, <1>1, CountsTable DEF RttInv
    <3> QED BY <2>1, <3>3, <1>4
  <2>2. CASE tte[e].hipas # "assigned"
    <3>1. ~Counts(tte[e]) /\ Counts(g[e])
      BY <2>2, <1>2, <1>7 DEF Counts, IsLeaf
    <3>2. \A x \in Entries : x # e => (Counts(tte[x]) <=> Counts(g[x]))
      BY <3>1, <1>7 DEF Counts
    <3>3. CountsExact(g, [ref EXCEPT ![TableOf(e)] = @ + 1])
      BY <3>1, <3>2, <1>1, CountsAdd DEF RttInv
    <3> QED BY <2>2, <3>3, <1>4
  <2> QED BY <2>1, <2>2
<1>10. TlbPages(g, tlb')
  <2>1. ASSUME NEW x \in tlb', x.level = 3, Valid(tte[<<3, x.idx>>])
        PROVE  g[<<3, x.idx>>] = tte[<<3, x.idx>>]
    <3>1. <<3, x.idx>> \in Entries /\ <<3, x.idx>>[1] = 3
      BY <2>1, <1>5 DEF RttInv, TlbPages
    <3>2. tte[<<3, x.idx>>].hipas # "absent"
      BY <2>1 DEF Valid, is_assigned_ram
    <3> QED BY <3>1, <3>2, <1>1, <1>7
  <2> QED BY <2>1, <1>5, TlbKept DEF RttInv
<1> QED
  BY <1>3, <1>5, <1>6, <1>8, <1>9, <1>10 DEF g


\* A table that can be folded holds the pieces of one entry.
LEMMA FoldPieces ==
  ASSUME RttInv, NEW e \in Entries, tte[e].hipas = "table", CanFold(Below(e))
  PROVE  LET n == tte[First(Below(e))] IN
         /\ n \in Tte /\ IsLeaf(n) /\ e[1] # 3 /\ Below(e) \in Tables
         /\ First(Below(e)) \in Entries /\ TableOf(First(Below(e))) = Below(e)
         /\ \A x \in Entries : TableOf(x) = Below(e) => tte[x] = Piece(n, e[1] + 1, x[2] - First(Below(e))[2])
         /\ \/ ref[Below(e)] = 0 /\ n.hipas # "assigned"
            \/ ref[Below(e)] = N /\ n.hipas = "assigned"
<1> DEFINE t == Below(e)
           n == tte[First(t)]
<1>1. e[1] # 3 /\ t \in Tables /\ t[1] = e[1] + 1
  <2>1. e[1] # 3
    BY DEF RttInv, Tree
  <2> QED BY <2>1, BelowIn
<1> HIDE DEF t
<1>2. /\ First(t) \in Entries /\ TableOf(First(t)) = t
      /\ \A x \in Entries : TableOf(x) = t => x \in EntriesOf(t)
  BY <1>1, EntriesOfIn
<1>3. n \in Tte
  BY <1>2 DEF RttInv, Tree
<1>4. n.hipas \in {"unassigned", "unassigned_ns", "assigned", "assigned_ns"}
  BY DEF CanFold, IsUniform, table_maps_block, t
<1>5. IsLeaf(n)
  BY <1>4 DEF IsLeaf
<1>6. \/ ref[t] = 0 /\ n.hipas # "assigned"
      \/ ref[t] = N /\ n.hipas = "assigned"
  BY DEF CanFold, IsUniform, table_maps_block, t, N
<1>7. ASSUME NEW x \in Entries, TableOf(x) = t
      PROVE  tte[x] = Piece(n, e[1] + 1, x[2] - First(t)[2])
  <2>1. x \in EntriesOf(t)
    BY <1>2, <1>7
  <2>2. CASE IsUniform(t)
    BY <2>1, <2>2 DEF IsUniform, Piece
  <2>3. CASE ~IsUniform(t)
    <3>1. \A z \in EntriesOf(t) : tte[z] = Piece(n, t[1], z[2] - First(t)[2])
      BY <2>3 DEF CanFold, table_maps_block, t
    <3> QED BY <2>1, <3>1, <1>1
  <2> QED BY <2>2, <2>3
<1> HIDE DEF n
<1> QED
  BY <1>1, <1>2, <1>3, <1>5, <1>6, <1>7 DEF t, n

\* The counts after the table below e is replaced.
LEMMA ReplaceCounts ==
  ASSUME RttInv, NEW e \in Entries, tte[e].hipas = "table", e[1] # 3, Below(e) \in Tables, TableOf(e) # Below(e),
         NEW g, NEW n \in Tte, IsLeaf(n), g[e] = n,
         \A x \in Entries : x # e /\ TableOf(x) # Below(e) => g[x] = tte[x],
         \A x \in Entries : TableOf(x) = Below(e) => g[x].hipas = "absent",
         \/ ref[Below(e)] = 0 /\ n.hipas # "assigned"
         \/ ref[Below(e)] # 0 /\ n.hipas = "assigned",
         ref' = IF ref[Below(e)] = 0 THEN [ref EXCEPT ![TableOf(e)] = @ - 1]
                ELSE [ref EXCEPT ![Below(e)] = 0]
  PROVE  CountsExact(g, ref')
<1>1. CASE ref[Below(e)] = 0 /\ n.hipas # "assigned"
  <2>1. \A x \in Entries : TableOf(x) = Below(e) => ~Counts(tte[x])
    BY <1>1, CountZero DEF RttInv
  <2>2. Counts(tte[e]) /\ ~Counts(g[e])
    BY <1>1 DEF Counts, IsLeaf
  <2>3. \A x \in Entries : x # e => (Counts(tte[x]) <=> Counts(g[x]))
    BY <2>1 DEF Counts
  <2>4. CountsExact(g, [ref EXCEPT ![TableOf(e)] = @ - 1])
    BY <2>2, <2>3, CountsDrop DEF RttInv
  <2> QED BY <1>1, <2>4
<1>2. CASE ref[Below(e)] # 0 /\ n.hipas = "assigned"
  <2>1. \A x \in Entries : TableOf(x) = Below(e) => (Counts(g[x]) <=> FALSE)
    BY DEF Counts
  <2>2. \A x \in Entries : TableOf(x) # Below(e) => (Counts(tte[x]) <=> Counts(g[x]))
    BY <1>2 DEF Counts
  <2>3. CountsExact(g, [ref EXCEPT ![Below(e)] = IF FALSE THEN N ELSE 0])
    BY <2>1, <2>2, CountsTable DEF RttInv
  <2> QED BY <1>2, <2>3
<1> QED
  BY <1>1, <1>2

\* The cached page translations when the table below e is replaced and the pages of e invalidated if one may be cached.
LEMMA ReplaceTlb ==
  ASSUME RttInv, NEW e \in Entries, tte[e].hipas = "table", e[1] # 3, NEW g,
         \A x \in Entries : x # e /\ TableOf(x) # Below(e) => g[x] = tte[x],
         NEW addr, Base(e) = addr,
         \/ s2tt_invalidate_pages_in_block(addr)
         \/ /\ s2tt_invalidate_block(addr)
            /\ \A x \in Entries : TableOf(x) = Below(e) => ~Valid(tte[x])
  PROVE  TlbPages(g, tlb')
<1>1. tlb' \subseteq tlb
  BY DEF s2tt_invalidate_pages_in_block, s2tt_invalidate_block, stage2_tlbi_ipa
<1>2. ASSUME NEW x \in tlb', x.level = 3, Valid(tte[<<3, x.idx>>])
      PROVE  g[<<3, x.idx>>] = tte[<<3, x.idx>>]
  <2>1. PICK y \in Entries : y = <<3, x.idx>> /\ y = <<x.level, x.idx>> /\ y[1] = 3
    BY <1>1, <1>2 DEF RttInv, TlbPages
  <2>2. CASE TableOf(y) # Below(e)
    BY <2>1, <2>2
  <2>3. CASE TableOf(y) = Below(e)
    <3>1. s2tt_invalidate_pages_in_block(addr)
      BY <1>2, <2>1, <2>3
    <3>2. Covers(y) \cap (addr..(addr + s2tte_map_size(2) - 1)) = {}
      BY <1>2, <2>1, <3>1 DEF s2tt_invalidate_pages_in_block, stage2_tlbi_ipa
    <3>3. e[1] = 2
      BY <2>1, <2>3, ChildIndex, EntryShape, LevelFacts
    <3>4. Base(y) \in Covers(e) /\ Base(y) \in Covers(y)
      BY <2>3, ChildPar, CoversIff
    <3>5. Covers(e) = addr..(addr + s2tte_map_size(2) - 1)
      BY <3>3 DEF Covers
    <3> QED BY <3>2, <3>4, <3>5
  <2> QED BY <2>2, <2>3
<1> QED
  BY <1>1, <1>2, TlbKept DEF RttInv

LEMMA FoldStep ==
  ASSUME RttInv, NEW a \in RttArgs, smc_rtt_fold(a.addr, a.level)
  PROVE  /\ Tree(tte') /\ Kinds(tte') /\ CountsExact(tte', ref') /\ TlbPages(tte', tlb')
         /\ \A p \in Ipas : View(tte', p) = View(tte, p)
         /\ UNCHANGED <<data, state, running, req>>
<1> DEFINE e == Entry(a.addr, a.level - 1)
           n == tte[First(Below(e))]
<1>0. a.addr \in Nat /\ a.level \in Int
  BY RttAssumption
<1>1. /\ e \in Entries /\ e[1] # 3 /\ a.level = e[1] + 1 /\ Base(e) = a.addr
      /\ tte[e] \in Tte /\ Below(e) \in Tables
  BY <1>0, StructArgs DEF RttInv, smc_rtt_fold
<1>2. tte[e].hipas = "table" /\ CanFold(Below(e)) /\ UNCHANGED <<data, state, running, req>>
  BY DEF smc_rtt_fold
<1>3. tte' = Merge(tte, e, n) /\ ref' = IF ref[Below(e)] = 0 THEN [ref EXCEPT ![TableOf(e)] = @ - 1]
                                        ELSE [ref EXCEPT ![Below(e)] = 0]
  BY DEF smc_rtt_fold, ReplaceTable, Merge
<1>4. IF Valid(n) THEN s2tt_invalidate_pages_in_block(a.addr) ELSE s2tt_invalidate_block(a.addr)
  BY DEF smc_rtt_fold
<1> HIDE DEF e
<1>5. /\ n \in Tte /\ IsLeaf(n)
      /\ First(Below(e)) \in Entries /\ TableOf(First(Below(e))) = Below(e)
      /\ \A x \in Entries : TableOf(x) = Below(e) => tte[x] = Piece(n, e[1] + 1, x[2] - First(Below(e))[2])
      /\ \/ ref[Below(e)] = 0 /\ n.hipas # "assigned"
         \/ ref[Below(e)] = N /\ n.hipas = "assigned"
  BY <1>1, <1>2, FoldPieces
<1>5a. /\ n.hipas \in {"unassigned", "assigned"} => addr_in_par(Base(e))
       /\ n.hipas \in {"unassigned_ns", "assigned_ns"} => ~addr_in_par(Base(e))
       /\ n.hipas = "unassigned" => n = unassigned(n.ripas)
       /\ n.hipas = "unassigned_ns" => n = unassigned_ns
  BY <1>1, <1>5, ChildPar DEF RttInv, Kinds
<1> HIDE DEF n
<1> DEFINE g == Merge(tte, e, n)
<1>6. /\ \A x \in Entries : TableOf(x) = Below(e) => tte[x].hipas = n.hipas
      /\ \A p \in Ipas : View(g, p) = View(tte, p)
  BY <1>1, <1>2, <1>5, FoldView DEF RttInv
<1>7. /\ TableOf(e) # Below(e) /\ Tree(g)
      /\ \A x \in Entries : x # e /\ TableOf(x) # Below(e) => g[x] = tte[x]
      /\ \A x \in Entries : TableOf(x) = Below(e) => g[x].hipas = "absent"
      /\ g[e] = n
  BY <1>1, <1>2, <1>5, <1>6, MergeTree DEF RttInv, IsLeaf
<1> HIDE DEF g
<1>8. Kinds(g)
  <2> SUFFICES ASSUME NEW x \in Entries
               PROVE  /\ g[x].hipas \in {"unassigned", "assigned"} => addr_in_par(Base(x))
                      /\ g[x].hipas \in {"unassigned_ns", "assigned_ns"} => ~addr_in_par(Base(x))
                      /\ g[x].hipas = "unassigned" => g[x] = unassigned(g[x].ripas)
                      /\ g[x].hipas = "unassigned_ns" => g[x] = unassigned_ns
    BY DEF Kinds
  <2>1. CASE x = e
    BY <2>1, <1>5a, <1>7
  <2>2. CASE TableOf(x) = Below(e)
    BY <2>2, <1>7
  <2>3. CASE x # e /\ TableOf(x) # Below(e)
    BY <2>3, <1>7 DEF RttInv, Kinds
  <2> QED BY <2>1, <2>2, <2>3
<1>9. CountsExact(g, ref')
  <2>1. \/ ref[Below(e)] = 0 /\ n.hipas # "assigned"
        \/ ref[Below(e)] # 0 /\ n.hipas = "assigned"
    BY <1>5, LevelFacts
  <2> QED BY <2>1, <1>1, <1>2, <1>3, <1>5, <1>7, ReplaceCounts
<1>10. TlbPages(g, tlb')
  <2>1. ASSUME ~Valid(n), NEW x \in Entries, TableOf(x) = Below(e) PROVE ~Valid(tte[x])
    <3>1. x[2] - First(Below(e))[2] \in Nat /\ e[1] + 1 \in Levels
      BY <2>1, <1>1, ChildIndex, LevelFacts, BelowIn
    <3>2. tte[x].hipas = n.hipas /\ tte[x].ripas = n.ripas
      BY <2>1, <3>1, <1>5, PieceType
    <3> QED BY <2>1, <3>2 DEF Valid, is_assigned_ram
  <2>2. \/ s2tt_invalidate_pages_in_block(a.addr)
        \/ /\ s2tt_invalidate_block(a.addr)
           /\ \A x \in Entries : TableOf(x) = Below(e) => ~Valid(tte[x])
    BY <2>1, <1>4
  <2> QED BY <2>2, <1>1, <1>2, <1>7, ReplaceTlb
<1> QED
  BY <1>2, <1>3, <1>6, <1>7, <1>8, <1>9, <1>10 DEF g


\* What the tables say of a page fits the half it is in.
LEMMA ViewKind ==
  ASSUME NEW f, Tree(f), Kinds(f), NEW p \in Ipas
  PROVE  /\ View(f, p) \in Tte
         /\ View(f, p).hipas = LeafOf(f, p).hipas /\ View(f, p).ripas = LeafOf(f, p).ripas
         /\ LeafOf(f, p).hipas \notin {"assigned", "assigned_ns"} => View(f, p) = LeafOf(f, p)
         /\ addr_in_par(p) => View(f, p).hipas \in {"unassigned", "assigned"}
         /\ ~addr_in_par(p) => View(f, p).hipas \in {"unassigned_ns", "assigned_ns"}
         /\ View(f, p).hipas = "unassigned" => View(f, p) = unassigned(View(f, p).ripas)
         /\ View(f, p).hipas = "unassigned_ns" => View(f, p) = unassigned_ns
<1>1. PICK w \in Levels : w = Walk(f, p, 3) /\ IsLeaf(f[Entry(p, w)])
  BY WalkLeaf DEF LeafOf
<1>2. PICK y \in Entries : y = Entry(p, w) /\ y[1] = w
  BY EntryIn
<1>3. LeafOf(f, p) = f[y] /\ f[y] \in Tte /\ IsLeaf(f[y])
  BY <1>1, <1>2 DEF LeafOf, Tree
<1>4. PICK k \in Nat : k = p % M(w)
  BY SizeFacts, EntryIn, DivMod
<1>5. View(f, p) = Piece(f[y], 3, k) /\ 3 \in Levels
  BY <1>1, <1>3, <1>4, LevelFacts DEF View, S2TT_PAGE_LEVEL
<1>6. View(f, p) \in Tte /\ View(f, p).hipas = f[y].hipas /\ View(f, p).ripas = f[y].ripas
  BY <1>3, <1>5, PieceType
<1>7. f[y].hipas \notin {"assigned", "assigned_ns"} => View(f, p) = f[y]
  BY <1>5 DEF Piece
<1>8. addr_in_par(p) <=> addr_in_par(Base(y))
  BY <1>2, CoversIff, ParIff
<1>9. f[y].hipas \in {"unassigned", "assigned", "unassigned_ns", "assigned_ns"}
  BY <1>3 DEF IsLeaf, Tte, Hipas
<1>10. /\ f[y].hipas \in {"unassigned", "assigned"} => addr_in_par(Base(y))
       /\ f[y].hipas \in {"unassigned_ns", "assigned_ns"} => ~addr_in_par(Base(y))
       /\ f[y].hipas = "unassigned" => f[y] = unassigned(f[y].ripas)
       /\ f[y].hipas = "unassigned_ns" => f[y] = unassigned_ns
  BY DEF Kinds
<1> QED
  BY <1>3, <1>6, <1>7, <1>8, <1>9, <1>10

LEMMA DestroyStep ==
  ASSUME RttInv, NEW a \in RttArgs, smc_rtt_destroy(a.addr, a.level)
  PROVE  /\ Tree(tte') /\ Kinds(tte') /\ CountsExact(tte', ref') /\ TlbPages(tte', tlb')
         /\ \A p \in Ipas :
              \/ View(tte', p) = View(tte, p)
              \/ /\ addr_in_par(p) /\ View(tte, p).hipas = "unassigned"
                 /\ View(tte', p) = unassigned("destroyed")
              \/ ~addr_in_par(p) /\ View(tte', p) = unassigned_ns
         /\ UNCHANGED <<data, state, running, req>>
<1> DEFINE e == Entry(a.addr, a.level - 1)
           n == IF addr_in_par(a.addr) THEN unassigned("destroyed") ELSE unassigned_ns
<1>0. a.addr \in Nat /\ a.level \in Int
  BY RttAssumption
<1>1. /\ e \in Entries /\ e[1] # 3 /\ a.level = e[1] + 1 /\ Base(e) = a.addr
      /\ tte[e] \in Tte /\ Below(e) \in Tables /\ e[1] \in Levels
  BY <1>0, StructArgs DEF RttInv, smc_rtt_destroy
<1>2. tte[e].hipas = "table" /\ ref[Below(e)] = 0 /\ UNCHANGED <<data, state, running, req>>
  BY DEF smc_rtt_destroy
<1>3. tte' = Merge(tte, e, n) /\ ref' = IF ref[Below(e)] = 0 THEN [ref EXCEPT ![TableOf(e)] = @ - 1]
                                        ELSE [ref EXCEPT ![Below(e)] = 0]
  BY DEF smc_rtt_destroy, ReplaceTable, Merge
<1>4. IF addr_in_par(a.addr) THEN s2tt_invalidate_block(a.addr) ELSE s2tt_invalidate_pages_in_block(a.addr)
  BY DEF smc_rtt_destroy
<1> HIDE DEF e
<1>5. /\ n \in Tte /\ IsLeaf(n) /\ n.hipas \in {"unassigned", "unassigned_ns"}
      /\ n.hipas = "unassigned" => n = unassigned(n.ripas) /\ addr_in_par(a.addr)
      /\ n.hipas = "unassigned_ns" => n = unassigned_ns /\ ~addr_in_par(a.addr)
  BY DEF unassigned, unassigned_ns, S2tte, Tte, Hipas, Ripas, IsLeaf
<1>6. \A x \in Entries : TableOf(x) = Below(e) => ~Counts(tte[x]) /\ tte[x].hipas # "table"
  BY <1>1, <1>2, CountZero DEF RttInv, Counts
<1>5b. (addr_in_par(a.addr) => n = unassigned("destroyed")) /\ (~addr_in_par(a.addr) => n = unassigned_ns)
  OBVIOUS
<1> HIDE DEF n
<1> DEFINE g == Merge(tte, e, n)
<1>7. /\ TableOf(e) # Below(e) /\ Tree(g)
      /\ \A p \in Ipas : Entry(p, e[1]) = e => LeafOf(g, p) = n /\ Walk(tte, p, 3) = e[1] + 1
      /\ \A p \in Ipas : Entry(p, e[1]) # e => View(g, p) = View(tte, p)
      /\ \A x \in Entries : x # e /\ TableOf(x) # Below(e) => g[x] = tte[x]
      /\ \A x \in Entries : TableOf(x) = Below(e) => g[x].hipas = "absent"
      /\ g[e] = n
  BY <1>1, <1>2, <1>5, <1>6, MergeTree DEF RttInv
<1> HIDE DEF g
<1>8. Kinds(g)
  <2> SUFFICES ASSUME NEW x \in Entries
               PROVE  /\ g[x].hipas \in {"unassigned", "assigned"} => addr_in_par(Base(x))
                      /\ g[x].hipas \in {"unassigned_ns", "assigned_ns"} => ~addr_in_par(Base(x))
                      /\ g[x].hipas = "unassigned" => g[x] = unassigned(g[x].ripas)
                      /\ g[x].hipas = "unassigned_ns" => g[x] = unassigned_ns
    BY DEF Kinds
  <2>1. CASE x = e
    BY <2>1, <1>1, <1>5, <1>7
  <2>2. CASE TableOf(x) = Below(e)
    BY <2>2, <1>7
  <2>3. CASE x # e /\ TableOf(x) # Below(e)
    BY <2>3, <1>7 DEF RttInv, Kinds
  <2> QED BY <2>1, <2>2, <2>3
<1>9. CountsExact(g, ref')
  BY <1>1, <1>2, <1>3, <1>5, <1>7, ReplaceCounts
<1>10. TlbPages(g, tlb')
  <2>1. ASSUME addr_in_par(a.addr), NEW x \in Entries, TableOf(x) = Below(e) PROVE ~Valid(tte[x])
    <3>1. addr_in_par(Base(x))
      BY <2>1, <1>1, ChildPar
    <3>2. tte[x].hipas # "assigned_ns" /\ tte[x].hipas # "assigned"
      BY <2>1, <3>1, <1>6 DEF RttInv, Kinds, Counts
    <3> QED BY <3>2 DEF Valid, is_assigned_ram
  <2>2. \/ s2tt_invalidate_pages_in_block(a.addr)
        \/ /\ s2tt_invalidate_block(a.addr)
           /\ \A x \in Entries : TableOf(x) = Below(e) => ~Valid(tte[x])
    BY <2>1, <1>4
  <2> QED BY <2>2, <1>1, <1>2, <1>7, ReplaceTlb
<1>11. ASSUME NEW p \in Ipas, Entry(p, e[1]) = e
       PROVE  \/ /\ addr_in_par(p) /\ View(tte, p).hipas = "unassigned" /\ View(g, p) = unassigned("destroyed")
              \/ ~addr_in_par(p) /\ View(g, p) = unassigned_ns
  <2>1. View(g, p) = n
    BY <1>5, <1>7, <1>8, <1>11, ViewKind
  <2>2. addr_in_par(p) <=> addr_in_par(a.addr)
    BY <1>1, <1>11, CoversIff, ParIff
  <2>3. PICK y \in Entries : y = Entry(p, e[1] + 1) /\ y[1] = e[1] + 1 /\ Parent(y) = e
    BY <1>11, <1>1, EntryIn, BelowIn, LevelFacts
  <2>4. TableOf(y) = Below(e)
    BY <2>3, <1>1, ParentIn, BelowIn, LevelFacts
  <2>5. LeafOf(tte, p) = tte[y]
    BY <2>3, <1>7, <1>11 DEF LeafOf
  <2>6. View(tte, p).hipas = tte[y].hipas /\ (addr_in_par(p) => View(tte, p).hipas \in {"unassigned", "assigned"})
    BY <2>5, ViewKind DEF RttInv
  <2>7. tte[y].hipas # "assigned"
    BY <2>4, <1>6 DEF Counts
  <2> QED BY <2>1, <2>2, <2>6, <2>7, <1>5b
<1> QED
  BY <1>2, <1>3, <1>7, <1>8, <1>9, <1>10, <1>11 DEF g


-----------------------------------------------------------------------------
(***************************************************************************)
(* The commands that change one leaf.                                      *)
(***************************************************************************)
Put(f, e, v) == [f EXCEPT ![e] = v]

\* Replacing a leaf by a leaf.
LEMMA PointTree ==
  ASSUME NEW f, Tree(f), NEW e \in Entries, IsLeaf(f[e]), NEW v \in Tte, IsLeaf(v),
         NEW g, g = Put(f, e, v)
  PROVE  /\ Tree(g) /\ g[e] = v /\ \A x \in Entries : x # e => g[x] = f[x]
         /\ \A p \in Ipas : Entry(p, e[1]) = e => LeafOf(g, p) = v /\ LeafOf(f, p) = f[e]
                            /\ View(g, p) = Piece(v, 3, p % M(e[1]))
         /\ \A p \in Ipas : Entry(p, e[1]) # e => View(g, p) = View(f, p)
<1>1. f \in [Entries -> Tte]
  BY DEF Tree
<1>2. g \in [Entries -> Tte] /\ g[e] = v /\ \A x \in Entries : x # e => g[x] = f[x]
  BY <1>1 DEF Put
<1>3. SameShape(f, g)
  BY <1>2 DEF SameShape, IsLeaf
<1>4. Tree(g) /\ \A p \in Ipas : Walk(g, p, 3) = Walk(f, p, 3)
  BY <1>3, ShapeTree
<1>5. e[1] \in Levels
  BY EntryShape
<1>6. ASSUME NEW p \in Ipas, Entry(p, e[1]) = e
      PROVE  LeafOf(g, p) = v /\ LeafOf(f, p) = f[e] /\ View(g, p) = Piece(v, 3, p % M(e[1]))
  <2>1. Walk(f, p, 3) = e[1]
    BY <1>5, <1>6, WalkLeaf
  <2> QED BY <2>1, <1>2, <1>4, <1>6 DEF LeafOf, View, S2TT_PAGE_LEVEL
<1>7. ASSUME NEW p \in Ipas, Entry(p, e[1]) # e
      PROVE  View(g, p) = View(f, p)
  <2>1. PICK w \in Levels : w = Walk(f, p, 3)
    BY WalkLeaf
  <2>2. Entry(p, w) \in Entries /\ Entry(p, w) # e
    BY <1>7, EntryIn
  <2> QED BY <2>1, <2>2, <1>2, <1>4 DEF LeafOf, View
<1> QED
  BY <1>2, <1>4, <1>6, <1>7

\* The kinds after a leaf changes.
LEMMA PointKinds ==
  ASSUME NEW f, Kinds(f), NEW g, NEW e \in Entries,
         \A x \in Entries : x # e => g[x] = f[x],
         /\ g[e].hipas \in {"unassigned", "assigned"} => addr_in_par(Base(e))
         /\ g[e].hipas \in {"unassigned_ns", "assigned_ns"} => ~addr_in_par(Base(e))
         /\ g[e].hipas = "unassigned" => g[e] = unassigned(g[e].ripas)
         /\ g[e].hipas = "unassigned_ns" => g[e] = unassigned_ns
  PROVE  Kinds(g)
  BY DEF Kinds

\* The entry RTT_MAP_UNPROTECTED, RTT_UNMAP_UNPROTECTED and the data commands reach.
LEMMA MapArgs ==
  ASSUME NEW addr \in Nat, NEW level \in Levels, validate_map_addr(addr, level), Tree(tte)
  PROVE  LET e == Entry(addr, level) IN
         /\ addr \in Ipas /\ e \in Entries /\ e[1] = level /\ Base(e) = addr /\ addr \in Covers(e)
         /\ s2tt_walk(addr, level) = level => tte[e].hipas # "absent"
         /\ tte[e] \in Tte
<1> DEFINE e == Entry(addr, level)
<1>1. addr \in Ipas /\ IsAligned(addr, level)
  BY WidthFacts DEF validate_map_addr, Ipas
<1>2. e \in Entries /\ e[1] = level
  BY <1>1, EntryIn
<1>3. Base(e) = addr
  BY <1>1, AlignedIsBase
<1>4. s2tt_walk(addr, level) = level => tte[e].hipas # "absent"
  BY <1>1, WalkIsWalk, WalkReaches
<1>5. tte[e] \in Tte /\ addr \in Covers(e)
  BY <1>2, <1>3, CoversIff DEF Tree
<1> HIDE DEF e
<1> QED
  BY <1>1, <1>2, <1>3, <1>4, <1>5 DEF e

LEMMA MapStep ==
  ASSUME RttInv, NEW a \in NsArgs, smc_rtt_map_unprotected(a)
  PROVE  /\ Tree(tte') /\ Kinds(tte') /\ CountsExact(tte', ref') /\ TlbPages(tte', tlb')
         /\ LET e == Entry(a.addr, a.level) IN
            \A p \in Ipas :
              IF Entry(p, e[1]) = e
              THEN /\ ~addr_in_par(p) /\ View(tte, p).hipas = "unassigned_ns"
                   /\ View(tte', p).hipas = "assigned_ns"
                   /\ View(tte', p).pa = a.pa + (p - Base(e)) /\ View(tte', p).attr = a.attr
              ELSE View(tte', p) = View(tte, p)
         /\ Entry(a.addr, a.level) \in Entries
         /\ UNCHANGED <<data, state, running, req>>
<1> DEFINE e == Entry(a.addr, a.level)
           v == assigned_ns(a.pa, a.attr)
<1>0. a.addr \in Nat /\ a.level \in Int /\ a.pa \in Nat /\ a.attr \in Nat
  BY RttAssumption
<1>1. a.level \in Levels /\ validate_map_addr(a.addr, a.level)
  BY LevelFacts DEF smc_rtt_map_unprotected, validate_rtt_map_cmds, S2TT_MIN_BLOCK_LEVEL, S2TT_PAGE_LEVEL
<1>2. /\ e \in Entries /\ e[1] = a.level /\ Base(e) = a.addr
  BY <1>0, <1>1, MapArgs DEF RttInv
<1>3. /\ ~addr_in_par(a.addr) /\ tte[e] = unassigned_ns /\ tte' = [tte EXCEPT ![e] = v]
      /\ UNCHANGED <<ref, data, tlb, state, running, req>>
  BY DEF smc_rtt_map_unprotected
<1> HIDE DEF e
<1>4. v \in Tte /\ IsLeaf(v) /\ v.hipas = "assigned_ns" /\ v.pa = a.pa /\ v.attr = a.attr
  BY <1>0 DEF assigned_ns, S2tte, Tte, Hipas, Ripas, IsLeaf
<1>5. IsLeaf(tte[e]) /\ tte[e].hipas = "unassigned_ns"
  BY <1>3 DEF unassigned_ns, S2tte, IsLeaf
<1> HIDE DEF v
<1>6. /\ Tree(tte') /\ tte'[e] = v /\ \A x \in Entries : x # e => tte'[x] = tte[x]
      /\ \A p \in Ipas : Entry(p, e[1]) = e => LeafOf(tte', p) = v /\ LeafOf(tte, p) = tte[e]
                         /\ View(tte', p) = Piece(v, 3, p % M(e[1]))
      /\ \A p \in Ipas : Entry(p, e[1]) # e => View(tte', p) = View(tte, p)
  <2>1. Tree(tte) /\ tte' = Put(tte, e, v)
    BY <1>3 DEF RttInv, Put
  <2> QED BY <2>1, <1>2, <1>4, <1>5, PointTree
<1>7. Kinds(tte')
  BY <1>2, <1>3, <1>4, <1>6, PointKinds DEF RttInv
<1>8. CountsExact(tte', ref')
  <2>1. \A x \in Entries : Counts(tte[x]) <=> Counts(tte'[x])
    BY <1>4, <1>5, <1>6 DEF Counts
  <2> QED BY <2>1, <1>3, CountsKept DEF RttInv
<1>9. TlbPages(tte', tlb')
  <2>1. ASSUME NEW x \in tlb', x.level = 3, Valid(tte[<<3, x.idx>>])
        PROVE  tte'[<<3, x.idx>>] = tte[<<3, x.idx>>]
    <3>1. <<3, x.idx>> \in Entries
      BY <2>1, <1>3 DEF RttInv, TlbPages
    <3>2. <<3, x.idx>> # e
      BY <2>1, <1>5 DEF Valid, is_assigned_ram
    <3> QED BY <3>1, <3>2, <1>6
  <2>2. TlbPages(tte, tlb) /\ tlb' \subseteq tlb
    BY <1>3 DEF RttInv
  <2> QED BY <2>1, <2>2, TlbKept
<1>10. ASSUME NEW p \in Ipas, Entry(p, e[1]) = e
       PROVE  /\ ~addr_in_par(p) /\ View(tte, p).hipas = "unassigned_ns"
              /\ View(tte', p).hipas = "assigned_ns"
              /\ View(tte', p).pa = a.pa + (p - Base(e)) /\ View(tte', p).attr = a.attr
  <2>1. ~addr_in_par(p)
    BY <1>2, <1>3, <1>10, CoversIff, ParIff
  <2>2. View(tte, p).hipas = "unassigned_ns"
    BY <1>5, <1>6, <1>10, ViewKind DEF RttInv
  <2>3. PICK m \in Nat \ {0} : m = M(e[1]) /\ e[1] \in Levels
    BY <1>2, EntryShape, SizeFacts
  <2>4. p \in Nat /\ e[2] = p \div m /\ Base(e) = m * e[2]
    BY <2>3, <1>2, <1>10, EntryIn, CoversIff DEF Entry, M
  <2>5. p \div m \in Nat /\ p % m \in Nat /\ p = m * (p \div m) + (p % m)
    BY <2>4, DivMod, Zenon
  <2>6. PICK k \in Nat : k = p % m
    BY <2>5
  <2>7. PICK b \in Nat : b = m * (p \div m)
    BY <2>5
  <2>8. p - Base(e) = k
    BY <2>4, <2>5, <2>6, <2>7
  <2>9. View(tte', p) = Piece(v, 3, k)
    BY <1>6, <1>10, <2>3, <2>6
  <2>10. k * s2tte_map_size(3) = k
    BY SizeFacts DEF M
  <2>11. Piece(v, 3, k) = [v EXCEPT !.pa = @ + k]
    BY <2>10, <1>4 DEF Piece
  <2>12. /\ [v EXCEPT !.pa = @ + k].hipas = "assigned_ns" /\ [v EXCEPT !.pa = @ + k].pa = a.pa + k
         /\ [v EXCEPT !.pa = @ + k].attr = a.attr
    BY <1>4 DEF Tte
  <2> QED BY <2>1, <2>2, <2>8, <2>9, <2>11, <2>12
<1>11. \A p \in Ipas :
         IF Entry(p, e[1]) = e
         THEN /\ ~addr_in_par(p) /\ View(tte, p).hipas = "unassigned_ns"
              /\ View(tte', p).hipas = "assigned_ns"
              /\ View(tte', p).pa = a.pa + (p - Base(e)) /\ View(tte', p).attr = a.attr
         ELSE View(tte', p) = View(tte, p)
  BY <1>6, <1>10
<1> QED
  BY <1>2, <1>3, <1>6, <1>7, <1>8, <1>9, <1>11 DEF e


\* Entries of the page level.
LEMMA PageEntry ==
  ASSUME NEW p \in Ipas
  PROVE  /\ Entry(p, 3) = <<3, p>> /\ <<3, p>> \in Entries
         /\ Base(<<3, p>>) = p /\ Covers(<<3, p>>) = {p} /\ p % M(3) = 0
<1>1. p \in Nat /\ 3 \in Levels
  BY EntryIn, LevelFacts
<1>2. s2tte_map_size(3) = 1 /\ M(3) = 1
  BY SizeFacts DEF M
<1>3. Entry(p, 3) = <<3, p>>
  BY <1>1, <1>2 DEF Entry
<1> QED
  BY <1>1, <1>2, <1>3, EntryIn DEF Base, Covers

LEMMA UnmapStep ==
  ASSUME RttInv, NEW addr \in Ipas, NEW level \in Levels, smc_rtt_unmap_unprotected(addr, level)
  PROVE  /\ Tree(tte') /\ Kinds(tte') /\ CountsExact(tte', ref') /\ TlbPages(tte', tlb')
         /\ \A p \in Ipas : \/ View(tte', p) = View(tte, p)
                            \/ ~addr_in_par(p) /\ View(tte', p) = unassigned_ns
         /\ UNCHANGED <<data, state, running, req>>
<1> DEFINE e == Entry(addr, level)
<1>0. addr \in Nat
  BY EntryIn
<1>1. validate_map_addr(addr, level)
  BY DEF smc_rtt_unmap_unprotected, validate_rtt_map_cmds
<1>2. /\ e \in Entries /\ e[1] = level /\ Base(e) = addr
  BY <1>0, <1>1, MapArgs DEF RttInv
<1>3. /\ ~addr_in_par(addr) /\ tte[e].hipas = "assigned_ns" /\ tte' = Put(tte, e, unassigned_ns)
      /\ UNCHANGED <<ref, data, state, running, req>>
      /\ tlb' = {x \in tlb : Covers(<<x.level, x.idx>>) \cap {addr} = {}}
  BY DEF smc_rtt_unmap_unprotected, Put, s2tt_invalidate_block, stage2_tlbi_ipa
<1> HIDE DEF e
<1>4. unassigned_ns \in Tte /\ IsLeaf(unassigned_ns) /\ unassigned_ns.hipas = "unassigned_ns"
  BY DEF unassigned_ns, S2tte, Tte, Hipas, Ripas, IsLeaf
<1>5. IsLeaf(tte[e])
  BY <1>3 DEF IsLeaf
<1>6. /\ Tree(tte') /\ tte'[e] = unassigned_ns /\ \A x \in Entries : x # e => tte'[x] = tte[x]
      /\ \A p \in Ipas : Entry(p, e[1]) = e => LeafOf(tte', p) = unassigned_ns
      /\ \A p \in Ipas : Entry(p, e[1]) # e => View(tte', p) = View(tte, p)
  <2>1. Tree(tte)
    BY DEF RttInv
  <2> QED BY <2>1, <1>2, <1>3, <1>4, <1>5, PointTree
<1>7. Kinds(tte')
  BY <1>2, <1>3, <1>4, <1>6, PointKinds DEF RttInv
<1>8. CountsExact(tte', ref')
  <2>1. \A x \in Entries : Counts(tte[x]) <=> Counts(tte'[x])
    BY <1>3, <1>4, <1>6 DEF Counts
  <2>2. CountsExact(tte, ref) /\ ref' = ref
    BY <1>3 DEF RttInv
  <2> QED BY <2>1, <2>2, CountsKept
<1>9. TlbPages(tte', tlb')
  <2>1. ASSUME NEW x \in tlb', x.level = 3, Valid(tte[<<3, x.idx>>])
        PROVE  tte'[<<3, x.idx>>] = tte[<<3, x.idx>>]
    <3>1. PICK y \in Entries : y = <<3, x.idx>> /\ y = <<x.level, x.idx>>
      BY <2>1, <1>3 DEF RttInv, TlbPages
    <3>2. y # e
      BY <2>1, <3>1, <1>2, <1>3, CoversIff
    <3> QED BY <3>1, <3>2, <1>6
  <2>2. TlbPages(tte, tlb) /\ tlb' \subseteq tlb
    BY <1>3 DEF RttInv
  <2> QED BY <2>1, <2>2, TlbKept
<1>10. ASSUME NEW p \in Ipas, Entry(p, e[1]) = e
       PROVE  ~addr_in_par(p) /\ View(tte', p) = unassigned_ns
  <2>1. ~addr_in_par(p)
    BY <1>2, <1>3, <1>10, CoversIff, ParIff
  <2>2. LeafOf(tte', p) = unassigned_ns
    BY <1>6, <1>10
  <2> QED BY <2>1, <2>2, <1>4, <1>6, <1>7, ViewKind
<1> QED
  BY <1>3, <1>6, <1>7, <1>8, <1>9, <1>10

LEMMA DataCreateStep ==
  ASSUME RttInv, NEW a \in DataArgs, NEW r \in Ripas, data_create(a, r)
  PROVE  /\ Tree(tte') /\ Kinds(tte') /\ CountsExact(tte', ref') /\ TlbPages(tte', tlb')
         /\ a.addr \in Ipas /\ addr_in_par(a.addr)
         /\ View(tte, a.addr).hipas = "unassigned" /\ View(tte', a.addr) = assigned(r, a.pa)
         /\ Page(a.addr).ripas = View(tte, a.addr).ripas
         /\ \A p \in Ipas : p # a.addr => View(tte', p) = View(tte, p)
         /\ a.pa \notin data /\ data' = data \cup {a.pa}
         /\ UNCHANGED <<state, running, req>>
<1> DEFINE e == Entry(a.addr, 3)
           v == assigned(r, a.pa)
<1>0. a.addr \in Nat /\ a.pa \in Nat /\ 3 \in Levels
  BY RttAssumption, LevelFacts
<1>1. validate_map_addr(a.addr, 3)
  BY DEF data_create, validate_data_create_unknown, S2TT_PAGE_LEVEL
<1>2. /\ e \in Entries /\ e[1] = 3 /\ Base(e) = a.addr /\ a.addr \in Ipas
  BY <1>0, <1>1, MapArgs DEF RttInv
<1>2a. e = <<3, a.addr>> /\ Covers(e) = {a.addr} /\ a.addr % M(3) = 0
  BY <1>2, PageEntry
<1>2b. \A p \in Ipas : Entry(p, e[1]) = e <=> p = a.addr
  BY <1>2, <1>2a, CoversIff
<1>3. /\ addr_in_par(a.addr) /\ tte[e].hipas = "unassigned" /\ tte' = Put(tte, e, v)
      /\ ref' = [ref EXCEPT ![TableOf(e)] = @ + 1]
      /\ a.pa \notin data /\ data' = data \cup {a.pa}
      /\ UNCHANGED <<tlb, state, running, req>>
  BY DEF data_create, Put, Page, S2TT_PAGE_LEVEL, validate_data_create_unknown
<1>3a. Page(a.addr) = tte[e]
  BY DEF Page, S2TT_PAGE_LEVEL
<1> HIDE DEF e
<1>4. v \in Tte /\ IsLeaf(v) /\ v.hipas = "assigned" /\ v.pa = a.pa
  BY <1>0 DEF assigned, S2tte, Tte, Hipas, IsLeaf
<1>5. IsLeaf(tte[e])
  BY <1>3 DEF IsLeaf
<1>5a. Piece(v, 3, 0) = v
  <2>1. 0 * s2tte_map_size(3) = 0
    BY SizeFacts DEF M
  <2>2. [v EXCEPT !.pa = @ + 0] = v
    BY <1>4 DEF Tte
  <2> QED BY <2>1, <2>2 DEF Piece
<1> HIDE DEF v
<1>6. /\ Tree(tte') /\ tte'[e] = v /\ \A x \in Entries : x # e => tte'[x] = tte[x]
      /\ LeafOf(tte', a.addr) = v /\ LeafOf(tte, a.addr) = tte[e]
      /\ View(tte', a.addr) = Piece(v, 3, a.addr % M(e[1]))
      /\ \A p \in Ipas : p # a.addr => View(tte', p) = View(tte, p)
  <2>1. Tree(tte)
    BY DEF RttInv
  <2> QED BY <2>1, <1>2, <1>2b, <1>3, <1>4, <1>5, PointTree
<1>7. Kinds(tte')
  BY <1>2, <1>3, <1>4, <1>6, PointKinds DEF RttInv
<1>8. CountsExact(tte', ref')
  <2>1. \A x \in Entries : x # e => (Counts(tte[x]) <=> Counts(tte'[x]))
    BY <1>6
  <2>2. CountsExact(tte, ref) /\ ~Counts(tte[e]) /\ Counts(tte'[e])
    BY <1>3, <1>4, <1>6 DEF RttInv, Counts
  <2>3. CountsExact(tte', [ref EXCEPT ![TableOf(e)] = @ + 1])
    BY <2>1, <2>2, <1>2, CountsAdd
  <2> QED BY <2>3, <1>3
<1>9. TlbPages(tte', tlb')
  <2>1. ASSUME NEW x \in tlb', x.level = 3, Valid(tte[<<3, x.idx>>])
        PROVE  tte'[<<3, x.idx>>] = tte[<<3, x.idx>>]
    <3>1. PICK y \in Entries : y = <<3, x.idx>>
      BY <2>1, <1>3 DEF RttInv, TlbPages
    <3>2. y # e
      BY <2>1, <3>1, <1>3 DEF Valid, is_assigned_ram
    <3> QED BY <3>1, <3>2, <1>6
  <2>2. TlbPages(tte, tlb) /\ tlb' \subseteq tlb
    BY <1>3 DEF RttInv
  <2> QED BY <2>1, <2>2, TlbKept
<1>10. View(tte', a.addr) = v
  BY <1>2, <1>2a, <1>5a, <1>6
<1>11. View(tte, a.addr).hipas = "unassigned" /\ View(tte, a.addr).ripas = tte[e].ripas
  BY <1>2, <1>3, <1>6, ViewKind DEF RttInv
<1> QED
  BY <1>2, <1>3, <1>3a, <1>6, <1>7, <1>8, <1>9, <1>10, <1>11 DEF v

LEMMA DataDestroyStep ==
  ASSUME RttInv, NEW addr \in Ipas, smc_data_destroy(addr)
  PROVE  /\ Tree(tte') /\ Kinds(tte') /\ CountsExact(tte', ref') /\ TlbPages(tte', tlb')
         /\ addr_in_par(addr) /\ View(tte, addr).hipas = "assigned"
         /\ View(tte', addr) = unassigned(IF View(tte, addr).ripas = "ram" THEN "destroyed"
                                          ELSE View(tte, addr).ripas)
         /\ \A p \in Ipas : p # addr => View(tte', p) = View(tte, p)
         /\ data' = data \ {View(tte, addr).pa}
         /\ UNCHANGED <<state, running, req>>
<1> DEFINE e == Entry(addr, 3)
           v == unassigned(IF tte[e].ripas = "ram" THEN "destroyed" ELSE tte[e].ripas)
<1>0. addr \in Nat /\ 3 \in Levels
  BY EntryIn, LevelFacts
<1>2. e \in Entries /\ e[1] = 3 /\ Base(e) = addr /\ e = <<3, addr>> /\ Covers(e) = {addr} /\ addr % M(3) = 0
  BY <1>0, PageEntry, EntryIn
<1>2b. \A p \in Ipas : Entry(p, e[1]) = e <=> p = addr
  BY <1>2, CoversIff
<1>3. /\ addr_in_par(addr) /\ tte[e].hipas = "assigned" /\ tte' = Put(tte, e, v)
      /\ ref' = [ref EXCEPT ![TableOf(e)] = @ - 1]
      /\ data' = data \ {tte[e].pa}
      /\ UNCHANGED <<state, running, req>>
  <2>1. tte \in [Entries -> Tte]
    BY DEF RttInv, Tree
  <2> QED BY <2>1, <1>2 DEF smc_data_destroy, Put, S2TT_PAGE_LEVEL
<1>3a. IF is_assigned_ram(tte[e]) THEN tlb' = {x \in tlb : Covers(<<x.level, x.idx>>) \cap {addr} = {}} ELSE tlb' = tlb
  BY DEF smc_data_destroy, stage2_tlbi_ipa, S2TT_PAGE_LEVEL
<1> HIDE DEF e
<1>3b. tte[e] \in Tte
  BY <1>2 DEF RttInv, Tree
<1>4. v \in Tte /\ IsLeaf(v) /\ v.hipas = "unassigned" /\ v = unassigned(v.ripas)
  BY <1>3b DEF unassigned, S2tte, Tte, Hipas, Ripas, IsLeaf
<1>5. IsLeaf(tte[e])
  BY <1>3 DEF IsLeaf
<1> HIDE DEF v
<1>6. /\ Tree(tte') /\ tte'[e] = v /\ \A x \in Entries : x # e => tte'[x] = tte[x]
      /\ LeafOf(tte', addr) = v /\ LeafOf(tte, addr) = tte[e]
      /\ \A p \in Ipas : p # addr => View(tte', p) = View(tte, p)
  <2>1. Tree(tte)
    BY DEF RttInv
  <2> QED BY <2>1, <1>2, <1>2b, <1>3, <1>4, <1>5, PointTree
<1>7. Kinds(tte')
  BY <1>2, <1>3, <1>4, <1>6, PointKinds DEF RttInv
<1>8. CountsExact(tte', ref')
  <2>1. \A x \in Entries : x # e => (Counts(tte[x]) <=> Counts(tte'[x]))
    BY <1>6
  <2>2. CountsExact(tte, ref) /\ Counts(tte[e]) /\ ~Counts(tte'[e])
    BY <1>3, <1>4, <1>6 DEF RttInv, Counts
  <2>3. CountsExact(tte', [ref EXCEPT ![TableOf(e)] = @ - 1])
    BY <2>1, <2>2, <1>2, CountsDrop
  <2> QED BY <2>3, <1>3
<1>9. TlbPages(tte', tlb')
  <2>2. TlbPages(tte, tlb) /\ tlb' \subseteq tlb
    BY <1>3a DEF RttInv
  <2>1. ASSUME NEW x \in tlb', x.level = 3, Valid(tte[<<3, x.idx>>])
        PROVE  tte'[<<3, x.idx>>] = tte[<<3, x.idx>>]
    <3>1. PICK y \in Entries : y = <<3, x.idx>> /\ y = <<x.level, x.idx>>
      BY <2>1, <2>2 DEF TlbPages
    <3>2. y # e
      <4>1. SUFFICES ASSUME y = e PROVE FALSE
        OBVIOUS
      <4>2. is_assigned_ram(tte[e])
        BY <4>1, <3>1, <2>1, <1>3 DEF Valid
      <4>3. Covers(y) \cap {addr} = {}
        BY <4>2, <3>1, <2>1, <1>3a
      <4> QED BY <4>1, <4>3, <1>2
    <3> QED BY <3>1, <3>2, <1>6
  <2> QED BY <2>1, <2>2, TlbKept
<1>10. View(tte', addr) = v
  BY <1>4, <1>6, <1>7, ViewKind
<1>11. View(tte, addr).hipas = "assigned" /\ View(tte, addr).ripas = tte[e].ripas
  BY <1>3, <1>6, ViewKind DEF RttInv
<1>12. View(tte, addr).pa = tte[e].pa
  <2>1. Walk(tte, addr, 3) = 3
    BY <1>0, <1>5, WalkLeaf DEF RttInv, e
  <2>2. View(tte, addr) = Piece(tte[e], 3, 0)
    BY <2>1, <1>2, <1>6 DEF View, S2TT_PAGE_LEVEL
  <2>3. 0 * s2tte_map_size(3) = 0
    BY SizeFacts DEF M
  <2> QED BY <2>2, <2>3, <1>3, <1>3b DEF Piece, Tte
<1> QED
  BY <1>3, <1>6, <1>7, <1>8, <1>9, <1>10, <1>11, <1>12 DEF v


-----------------------------------------------------------------------------
(***************************************************************************)
(* The loops over the entries of a table.                                  *)
(***************************************************************************)
\* Every non-empty set of naturals has a least element.
LEMMA LeastNat ==
  ASSUME NEW T \in SUBSET Nat, T # {}
  PROVE  \E n \in T : \A m \in T : n <= m
<1>1. PICK R : R = OpToRel(<, Nat)
  BY Zenon
<1>2. IsWellFoundedOn(R, Nat)
  BY <1>1, NatLessThanWellFounded, Zenon
<1>3. PICK n \in T : \A m \in T : ~(<<m, n>> \in R)
  BY <1>2, WFMin
<1>4. \A a, b \in Nat : a < b => <<a, b>> \in R
  BY <1>1, Zenon DEF OpToRel
<1>5. \A m \in T : n \in Nat /\ m \in Nat /\ ~(m < n)
  BY <1>3, <1>4
<1> QED
  BY <1>5

LEMMA MinFacts ==
  ASSUME NEW S \in SUBSET Nat, S # {}
  PROVE  Min(S) \in S /\ \A y \in S : Min(S) <= y
  BY LeastNat DEF Min

LEMMA MaxFacts ==
  ASSUME NEW b \in Nat, NEW S \in SUBSET (0..b), S # {}
  PROVE  Max(S) \in S /\ \A y \in S : y <= Max(S)
<1> DEFINE T == {b - y : y \in S}
<1>0. \A y \in S : b - y \in Nat /\ b - y \in T
  OBVIOUS
<1>0a. PICK z : z \in S
  OBVIOUS
<1>1. T \in SUBSET Nat /\ T # {}
  <2>1. T \in SUBSET Nat
    BY <1>0
  <2>2. b - z \in T
    BY <1>0a
  <2> HIDE DEF T
  <2> QED BY <2>1, <2>2
<1>2. PICK n \in T : \A m \in T : n <= m
  BY <1>1, LeastNat
<1>3. PICK x \in S : n = b - x
  BY <1>2
<1>4. \A y \in S : b - y \in T
  OBVIOUS
<1>5. \A y \in S : x >= y
  BY <1>2, <1>3, <1>4
<1> QED
  BY <1>3, <1>5 DEF Max

\* The k-th entry from e on in the same table.
At(e, k) == <<e[1], e[2] + k>>

Left(e) == N - (e[2] % N)

\* They are entries of that table, and their pages follow one another.
LEMMA AtFacts ==
  ASSUME NEW e \in Entries
  PROVE  /\ Left(e) \in 1..N /\ At(e, 0) = e
         /\ \A k \in 0..(Left(e) - 1) : At(e, k) \in Entries /\ TableOf(At(e, k)) = TableOf(e)
         /\ \A n \in 0..Left(e) : Base(e) + n * M(e[1]) \in Nat /\ Base(e) + n * M(e[1]) <= IpaSize
<1>1. e = <<e[1], e[2]>> /\ e[1] \in Levels /\ e[2] \in 0..(W(e[1]) - 1)
  BY EntryShape
<1>2. PICK i \in Nat : i = e[2]
  BY <1>1
<1>3. PICK q \in Nat : q = i \div N
  BY LevelFacts, DivMod
<1>4. PICK r \in 0..(N - 1) : r = i % N
  BY LevelFacts, DivMod
<1>5. N \in Nat \ {0} /\ i = N * q + r
  BY <1>3, <1>4, LevelFacts, DivMod
<1>6. Left(e) = N - r
  BY <1>2, <1>4 DEF Left
<1>7. PICK v \in Nat : v = W(e[1]) \div N /\ W(e[1]) = N * v
  BY <1>1, TablesFull
<1>8. q \in 0..(v - 1)
  BY <1>1, <1>2, <1>3, <1>5, <1>7, DivBound
<1>9. ASSUME NEW k \in 0..(Left(e) - 1)
      PROVE  At(e, k) \in Entries /\ TableOf(At(e, k)) = TableOf(e)
  <2>1. r + k \in 0..(N - 1) /\ i + k = N * q + (r + k)
    BY <1>5, <1>6
  <2>2. i + k \in 0..(N * v - 1) /\ (i + k) \div N = q
    BY <2>1, <1>5, <1>8, MulBound
  <2>3. At(e, k) = <<e[1], i + k>>
    BY <1>2 DEF At
  <2>4. At(e, k) \in Entries
    BY <2>2, <2>3, <1>1, <1>7, EntryShape
  <2>5. TableOf(At(e, k)) = <<e[1], (i + k) \div N>> /\ TableOf(e) = <<e[1], i \div N>>
    BY <2>3, <1>2 DEF TableOf, N
  <2> QED BY <2>2, <2>4, <2>5, <1>3
<1>10. ASSUME NEW n \in 0..Left(e)
       PROVE  Base(e) + n * M(e[1]) \in Nat /\ Base(e) + n * M(e[1]) <= IpaSize
  <2>1. PICK m \in Nat \ {0} : m = M(e[1]) /\ IpaSize = m * W(e[1])
    BY <1>1, SizeFacts, WidthFacts
  <2>2. N * (q + 1) <= N * v
    BY <1>5, <1>8, MulMono
  <2>3. N * (q + 1) = N * q + N
    BY <1>5
  <2>4. i + n <= N * v
    BY <2>2, <2>3, <1>5, <1>6
  <2>5. PICK w \in Nat : w = N * v
    BY <1>5
  <2>6. m * (i + n) <= m * w
    BY <2>4, <2>5, MulMono
  <2>7. m * (i + n) = m * i + n * m
    OBVIOUS
  <2>8. Base(e) = m * i
    BY <2>1, <1>2, CoversIff
  <2>9. m * i \in Nat /\ n * m \in Nat
    BY <1>6
  <2>10. IpaSize = m * w
    BY <2>1, <2>5, <1>7
  <2> QED BY <2>1, <2>6, <2>7, <2>8, <2>9, <2>10
<1> QED
  BY <1>1, <1>6, <1>9, <1>10, LevelFacts DEF At

\* The pages of the first n of them.
LEMMA AtPages ==
  ASSUME NEW e \in Entries, NEW n \in 0..Left(e), NEW p \in Ipas
  PROVE  p \in Base(e)..(Base(e) + n * M(e[1]) - 1) <=> \E k \in 0..(n - 1) : Entry(p, e[1]) = At(e, k)
<1>1. e = <<e[1], e[2]>> /\ e[1] \in Levels /\ e[2] \in Nat /\ n \in Nat
  BY EntryShape, AtFacts
<1>2. PICK m \in Nat \ {0} : m = M(e[1])
  BY <1>1, SizeFacts
<1>3. PICK i \in Nat : i = e[2]
  BY <1>1
<1>4. Base(e) = m * i
  BY <1>2, <1>3, CoversIff
<1>5. p \in Nat
  BY <1>1, EntryIn
<1>6. PICK d \in Nat : d = p \div m /\ m * d <= p /\ p < m * d + m
  BY <1>5, DivRange
<1>7. Entry(p, e[1]) = <<e[1], d>>
  BY <1>2, <1>6 DEF Entry, M
<1>8. (\E k \in 0..(n - 1) : Entry(p, e[1]) = At(e, k)) <=> i <= d /\ d < i + n
  <2>1. \A k \in 0..(n - 1) : At(e, k) = <<e[1], i + k>>
    BY <1>3 DEF At
  <2>2. i <= d /\ d < i + n => d - i \in 0..(n - 1) /\ d = i + (d - i)
    BY <1>1
  <2> QED BY <2>1, <2>2, <1>1, <1>7
<1>9. m * (i + n) = m * i + n * m /\ m * i \in Nat /\ n * m \in Nat
  BY <1>1
<1>10. i <= d => m * i <= m * d
  BY MulMono
<1>11. d + 1 <= i => m * (d + 1) <= m * i
  BY MulMono
<1>12. d + 1 <= i + n => m * (d + 1) <= m * (i + n)
  BY <1>1, MulMono
<1>13. i + n <= d => m * (i + n) <= m * d
  BY <1>1, MulMono
<1>14. m * (d + 1) = m * d + m /\ m * d \in Nat
  OBVIOUS
<1>15. p \in (m * i)..(m * i + n * m - 1) <=> i <= d /\ d < i + n
  <2>1. PICK mi \in Nat : mi = m * i
    BY <1>9
  <2>2. PICK nm \in Nat : nm = n * m
    BY <1>9
  <2>3. PICK md \in Nat : md = m * d
    BY <1>14
  <2>4. m * (d + 1) = md + m /\ m * (i + n) = mi + nm
    BY <2>1, <2>2, <2>3, <1>9, <1>14
  <2>5. /\ i <= d => mi <= md
        /\ d + 1 <= i => md + m <= mi
        /\ d + 1 <= i + n => md + m <= mi + nm
        /\ i + n <= d => mi + nm <= md
    BY <2>1, <2>2, <2>3, <2>4, <1>10, <1>11, <1>12, <1>13
  <2>6. md <= p /\ p < md + m
    BY <2>3, <1>6
  <2>7. p \in mi..(mi + nm - 1) <=> i <= d /\ d < i + n
    BY <2>5, <2>6, <1>1, <1>5
  <2> QED BY <2>1, <2>2, <2>7
<1> QED
  BY <1>2, <1>4, <1>8, <1>15

\* Next to an entry that is there, the entries of its table are there.
LEMMA Siblings ==
  ASSUME NEW f, Tree(f), NEW e \in Entries, f[e].hipas # "absent",
         NEW x \in Entries, TableOf(x) = TableOf(e)
  PROVE  f[x].hipas # "absent"
<1>1. x[1] = e[1] /\ Parent(x) = Parent(e)
  BY DEF TableOf, Parent, N
<1> QED
  BY <1>1 DEF Tree


\* Where a loop over the entries of a table stops.
LEMMA StepsFacts ==
  ASSUME NEW base \in Ipas, NEW top \in Nat, base <= top, NEW level \in Levels, NEW good
  PROVE  LET e == Entry(base, level)
             n == Steps(base, top, level, good)
         IN /\ n \in 0..Left(e) /\ base + n * M(level) <= top
            /\ \A k \in 0..(n - 1) : tte[At(e, k)] \in good
            /\ tte[e] \in good /\ base + M(level) <= top => n >= 1
            /\ Run(base, level, n) = {At(e, k) : k \in 0..(n - 1)}
<1> DEFINE e == Entry(base, level)
           S == {n \in 0..Left(e) : /\ base + n * M(level) <= top
                                    /\ \A k \in 0..(n - 1) : tte[<<level, e[2] + k>>] \in good}
<1>1. e \in Entries /\ e[1] = level /\ base \in Nat
  BY EntryIn
<1>2. Steps(base, top, level, good) = Max(S)
  BY DEF Steps, Left, M, N
<1>3. \A n : Run(base, level, n) = {At(e, k) : k \in 0..(n - 1)}
  BY <1>1 DEF Run, At
<1> HIDE DEF e
<1>4. \A k : At(e, k) = <<level, e[2] + k>>
  BY <1>1 DEF At
<1>5. Left(e) \in Nat /\ Left(e) >= 1 /\ At(e, 0) = e
  BY <1>1, LevelFacts, AtFacts
<1>6. M(level) \in Nat
  BY SizeFacts
<1>7. 0 \in S
  BY <1>1, <1>5, <1>6
<1>8. tte[e] \in good /\ base + M(level) <= top => 1 \in S
  <2>1. SUFFICES ASSUME tte[e] \in good, base + M(level) <= top PROVE 1 \in S
    OBVIOUS
  <2>2. \A k \in 0..(1 - 1) : tte[<<level, e[2] + k>>] \in good
    BY <2>1, <1>4, <1>5
  <2>3. 1 * M(level) = M(level) /\ 1 \in 0..Left(e)
    BY <1>5, <1>6
  <2> QED BY <2>1, <2>2, <2>3
<1>9. S \in SUBSET (0..Left(e)) /\ S # {}
  BY <1>7
<1>10. Max(S) \in S /\ \A y \in S : y <= Max(S)
  <2> HIDE DEF S
  <2> QED BY <1>5, <1>9, MaxFacts
<1>11. PICK n \in S : n = Max(S)
  BY <1>10
<1>12. /\ n \in 0..Left(e) /\ base + n * M(level) <= top
       /\ \A k \in 0..(n - 1) : tte[At(e, k)] \in good
  BY <1>4
<1>13. tte[e] \in good /\ base + M(level) <= top => n >= 1
  BY <1>8, <1>10, <1>11
<1> QED
  BY <1>2, <1>3, <1>11, <1>12, <1>13 DEF e

\* Replacing leaves by leaves.
LEMMA LeavesTree ==
  ASSUME NEW f, Tree(f), NEW R \in SUBSET Entries, NEW g \in [Entries -> Tte],
         \A x \in R : IsLeaf(f[x]) /\ IsLeaf(g[x]), \A x \in Entries : x \notin R => g[x] = f[x]
  PROVE  /\ Tree(g)
         /\ \A p \in Ipas : \A x \in R : Entry(p, x[1]) = x =>
              /\ LeafOf(f, p) = f[x] /\ LeafOf(g, p) = g[x]
              /\ View(f, p) = Piece(f[x], 3, p % M(x[1])) /\ View(g, p) = Piece(g[x], 3, p % M(x[1]))
         /\ \A p \in Ipas : (\A x \in R : Entry(p, x[1]) # x) => View(g, p) = View(f, p)
<1>1. SameShape(f, g)
  BY DEF SameShape, IsLeaf
<1>2. Tree(g) /\ \A p \in Ipas : Walk(g, p, 3) = Walk(f, p, 3)
  BY <1>1, ShapeTree
<1>3. ASSUME NEW p \in Ipas, NEW x \in R, Entry(p, x[1]) = x
      PROVE  /\ LeafOf(f, p) = f[x] /\ LeafOf(g, p) = g[x]
             /\ View(f, p) = Piece(f[x], 3, p % M(x[1])) /\ View(g, p) = Piece(g[x], 3, p % M(x[1]))
  <2>1. x[1] \in Levels
    BY EntryShape
  <2>2. Walk(f, p, 3) = x[1]
    BY <2>1, <1>3, WalkLeaf
  <2> QED BY <2>2, <1>2, <1>3 DEF LeafOf, View, S2TT_PAGE_LEVEL
<1>4. ASSUME NEW p \in Ipas, \A x \in R : Entry(p, x[1]) # x
      PROVE  View(g, p) = View(f, p)
  <2>1. PICK w \in Levels : w = Walk(f, p, 3)
    BY WalkLeaf
  <2>2. Entry(p, w) \in Entries /\ Entry(p, w)[1] = w
    BY EntryIn
  <2>3. Entry(p, w) \notin R
    BY <1>4, <2>2
  <2> QED BY <2>1, <2>2, <2>3, <1>2 DEF LeafOf, View
<1> QED
  BY <1>2, <1>3, <1>4


LEMMA InitRipasStep ==
  ASSUME RttInv, NEW a \in InitArgs, smc_rtt_init_ripas(a)
  PROVE  /\ Tree(tte') /\ Kinds(tte') /\ CountsExact(tte', ref') /\ TlbPages(tte', tlb')
         /\ \A p \in Ipas :
              \/ View(tte', p) = View(tte, p)
              \/ View(tte, p) = unassigned("empty") /\ View(tte', p) = unassigned("ram")
         /\ state = "NEW"
         /\ UNCHANGED <<data, state, running, req>>
<1> DEFINE level == s2tt_walk(a.base, S2TT_PAGE_LEVEL)
           good  == {unassigned("empty"), unassigned("ram")}
           e     == Entry(a.base, level)
           n     == Steps(a.base, a.top, level, good)
           R     == Run(a.base, level, n)
<1>0. Tree(tte) /\ Kinds(tte) /\ CountsExact(tte, ref) /\ TlbPages(tte, tlb)
  BY DEF RttInv
<1>1. a.base \in Ipas /\ a.top \in Nat /\ a.base <= a.top
  BY RttAssumption, WidthFacts DEF smc_rtt_init_ripas, Ipas
<1>2. level \in Levels
  BY <1>0, <1>1, WalkIsWalk, WalkLeaf DEF S2TT_PAGE_LEVEL
<1>3. /\ tte' = [x \in Entries |-> IF x \in R THEN unassigned("ram") ELSE tte[x]]
      /\ state = "NEW" /\ UNCHANGED <<ref, data, tlb, state, running, req>>
  BY DEF smc_rtt_init_ripas
<1> HIDE DEF level, good
<1>4. e \in Entries
  BY <1>1, <1>2, EntryIn
<1>5. n \in 0..Left(e) /\ R = {At(e, k) : k \in 0..(n - 1)} /\ \A k \in 0..(n - 1) : tte[At(e, k)] \in good
  BY <1>1, <1>2, StepsFacts
<1> HIDE DEF e, n, R
<1>6. Left(e) \in Nat /\ \A k \in 0..(Left(e) - 1) : At(e, k) \in Entries
  BY <1>4, AtFacts, LevelFacts
<1>7. R \in SUBSET Entries /\ \A x \in R : tte[x] \in good
  BY <1>5, <1>6
<1>8. \A r \in Ripas : unassigned(r) \in Tte /\ unassigned(r).hipas = "unassigned" /\ unassigned(r).ripas = r
                       /\ IsLeaf(unassigned(r)) /\ ~Valid(unassigned(r)) /\ ~Counts(unassigned(r))
  BY DEF unassigned, S2tte, Tte, Hipas, Ripas, IsLeaf, Valid, is_assigned_ram, Counts
<1>9. "empty" \in Ripas /\ "ram" \in Ripas
  BY DEF Ripas
<1>10. tte' \in [Entries -> Tte] /\ (\A x \in R : tte'[x] = unassigned("ram"))
       /\ \A x \in Entries : x \notin R => tte'[x] = tte[x]
  <2>1. tte \in [Entries -> Tte]
    BY <1>0 DEF Tree
  <2> QED BY <2>1, <1>3, <1>7, <1>8, <1>9
<1>11. \A x \in R : /\ tte[x].hipas = "unassigned" /\ IsLeaf(tte[x]) /\ IsLeaf(tte'[x])
                    /\ ~Valid(tte[x]) /\ ~Counts(tte[x]) /\ ~Counts(tte'[x])
  BY <1>7, <1>8, <1>9, <1>10 DEF good
<1>12. /\ Tree(tte')
       /\ \A p \in Ipas : \A x \in R : Entry(p, x[1]) = x => LeafOf(tte, p) = tte[x] /\ LeafOf(tte', p) = tte'[x]
       /\ \A p \in Ipas : (\A x \in R : Entry(p, x[1]) # x) => View(tte', p) = View(tte, p)
  BY <1>0, <1>7, <1>10, <1>11, LeavesTree
<1>13. Kinds(tte')
  <2> SUFFICES ASSUME NEW x \in Entries
               PROVE  /\ tte'[x].hipas \in {"unassigned", "assigned"} => addr_in_par(Base(x))
                      /\ tte'[x].hipas \in {"unassigned_ns", "assigned_ns"} => ~addr_in_par(Base(x))
                      /\ tte'[x].hipas = "unassigned" => tte'[x] = unassigned(tte'[x].ripas)
                      /\ tte'[x].hipas = "unassigned_ns" => tte'[x] = unassigned_ns
    BY DEF Kinds
  <2>1. CASE x \in R
    <3>1. addr_in_par(Base(x))
      BY <2>1, <1>0, <1>11 DEF Kinds
    <3> QED BY <2>1, <3>1, <1>8, <1>9, <1>10
  <2>2. CASE x \notin R
    BY <2>2, <1>0, <1>10 DEF Kinds
  <2> QED BY <2>1, <2>2
<1>14. CountsExact(tte', ref')
  <2>1. \A x \in Entries : Counts(tte[x]) <=> Counts(tte'[x])
    BY <1>10, <1>11
  <2> QED BY <2>1, <1>0, <1>3, CountsKept
<1>15. TlbPages(tte', tlb')
  <2>1. ASSUME NEW x \in tlb', x.level = 3, Valid(tte[<<3, x.idx>>])
        PROVE  tte'[<<3, x.idx>>] = tte[<<3, x.idx>>]
    <3>1. PICK y \in Entries : y = <<3, x.idx>>
      BY <2>1, <1>0, <1>3 DEF TlbPages
    <3>2. y \notin R
      BY <2>1, <3>1, <1>11
    <3> QED BY <3>1, <3>2, <1>10
  <2> QED BY <2>1, <1>0, <1>3, TlbKept
<1>16. ASSUME NEW p \in Ipas, NEW x \in R, Entry(p, x[1]) = x
       PROVE  View(tte', p) = View(tte, p) \/ (View(tte, p) = unassigned("empty") /\ View(tte', p) = unassigned("ram"))
  <2>1. LeafOf(tte, p) = tte[x] /\ LeafOf(tte', p) = unassigned("ram")
    BY <1>10, <1>12, <1>16
  <2>2. View(tte, p) = tte[x]
    BY <2>1, <1>0, <1>11, ViewKind
  <2>3. View(tte', p) = unassigned("ram")
    BY <2>1, <1>8, <1>9, <1>12, <1>13, ViewKind
  <2> QED BY <2>2, <2>3, <1>7 DEF good
<1> QED
  BY <1>3, <1>12, <1>13, <1>14, <1>15, <1>16

\* Changing the RIPAS of a leaf that has one.
SetRipas(v, r) == [v EXCEPT !.ripas = r]

LEMMA SetRipasFacts ==
  ASSUME NEW v \in Tte, NEW r \in Ripas
  PROVE  /\ SetRipas(v, r) \in Tte /\ SetRipas(v, r).hipas = v.hipas /\ SetRipas(v, r).pa = v.pa
         /\ SetRipas(v, r).ripas = r /\ (v.ripas = r => SetRipas(v, r) = v)
         /\ v = unassigned(v.ripas) => SetRipas(v, r) = unassigned(r)
         /\ \A k \in Nat : Piece(SetRipas(v, r), 3, k) = SetRipas(Piece(v, 3, k), r)
<1>1. v = [hipas |-> v.hipas, ripas |-> v.ripas, pa |-> v.pa, attr |-> v.attr]
  BY DEF Tte
<1>2. SetRipas(v, r) = [hipas |-> v.hipas, ripas |-> r, pa |-> v.pa, attr |-> v.attr]
  BY <1>1 DEF SetRipas
<1>3. SetRipas(v, r) \in Tte /\ SetRipas(v, r).hipas = v.hipas /\ SetRipas(v, r).pa = v.pa /\ SetRipas(v, r).ripas = r
  BY <1>2 DEF Tte
<1>4. v.ripas = r => SetRipas(v, r) = v
  BY <1>1, <1>2
<1>5. v = unassigned(v.ripas) => SetRipas(v, r) = unassigned(r)
  <2>1. SUFFICES ASSUME v = unassigned(v.ripas) PROVE SetRipas(v, r) = unassigned(r)
    OBVIOUS
  <2>2. v.hipas = "unassigned" /\ v.pa = 0 /\ v.attr = 0
    BY <2>1 DEF unassigned, S2tte
  <2> QED BY <2>2, <1>2 DEF unassigned, S2tte
<1>6. ASSUME NEW k \in Nat
      PROVE  Piece(SetRipas(v, r), 3, k) = SetRipas(Piece(v, 3, k), r)
  <2>1. CASE v.hipas \in {"assigned", "assigned_ns"}
    <3>1. PICK d : d = k * s2tte_map_size(3)
      OBVIOUS
    <3>2. /\ Piece(SetRipas(v, r), 3, k) = [SetRipas(v, r) EXCEPT !.pa = @ + d]
          /\ Piece(v, 3, k) = [v EXCEPT !.pa = @ + d]
      BY <2>1, <3>1, <1>3 DEF Piece
    <3>3. [SetRipas(v, r) EXCEPT !.pa = @ + d] = [hipas |-> v.hipas, ripas |-> r, pa |-> v.pa + d, attr |-> v.attr]
      BY <1>2
    <3>4. [v EXCEPT !.pa = @ + d] = [hipas |-> v.hipas, ripas |-> v.ripas, pa |-> v.pa + d, attr |-> v.attr]
      BY <1>1
    <3>5. SetRipas(Piece(v, 3, k), r) = [hipas |-> v.hipas, ripas |-> r, pa |-> v.pa + d, attr |-> v.attr]
      BY <3>2, <3>4 DEF SetRipas
    <3> QED BY <3>2, <3>3, <3>5
  <2>2. CASE v.hipas \notin {"assigned", "assigned_ns"}
    BY <2>2, <1>3 DEF Piece
  <2> QED BY <2>1, <2>2
<1> QED
  BY <1>3, <1>4, <1>5, <1>6


LEMMA SetRipasStep ==
  ASSUME RttInv, NEW base \in Ipas, NEW top \in Ipas, smc_rtt_set_ripas(base, top)
  PROVE  /\ Tree(tte') /\ Kinds(tte') /\ CountsExact(tte', ref') /\ TlbPages(tte', tlb')
         /\ ~running /\ req' = [req EXCEPT !.addr = req'.addr]
         /\ req'.addr \in Nat /\ req.addr < req'.addr /\ req'.addr <= req.top
         /\ \A p \in Ipas :
              IF p \in req.addr..(req'.addr - 1)
              THEN /\ View(tte, p).ripas = "destroyed" => req.change_destroyed
                   /\ View(tte', p) = [View(tte, p) EXCEPT !.ripas = req.ripas]
              ELSE View(tte', p) = View(tte, p)
         /\ UNCHANGED <<data, state, running>>
<1> DEFINE level == s2tt_walk(base, S2TT_PAGE_LEVEL)
           good  == {x \in Range(tte) : MayChange(x)}
           e     == Entry(base, level)
           n     == Steps(base, top, level, good)
           R     == Run(base, level, n)
<1>0. Tree(tte) /\ Kinds(tte) /\ CountsExact(tte, ref) /\ TlbPages(tte, tlb) /\ req \in Requests
  BY DEF RttInv, ReqOK
<1>1. base \in Nat /\ top \in Nat /\ base < top /\ base = req.addr /\ top <= req.top /\ ~running
  BY WidthFacts DEF smc_rtt_set_ripas, Ipas
<1>2. level \in Levels
  BY <1>0, WalkIsWalk, WalkLeaf DEF S2TT_PAGE_LEVEL
<1>3. /\ IsAligned(base, level) /\ n > 0
      /\ tte' = [x \in Entries |-> IF x \in R THEN [tte[x] EXCEPT !.ripas = req.ripas] ELSE tte[x]]
      /\ tlb' = {x \in tlb : Covers(<<x.level, x.idx>>) \cap {Base(x_1) : x_1 \in {y \in R : NeedsTlbi(tte[y])}} = {}}
      /\ req' = [req EXCEPT !.addr = base + (n * M(level))]
      /\ UNCHANGED <<ref, data, state, running>>
  BY DEF smc_rtt_set_ripas, stage2_tlbi_ipa, M
<1> HIDE DEF level, good
<1>4. e \in Entries /\ e[1] = level /\ Base(e) = base
  BY <1>2, <1>3, EntryIn, AlignedIsBase
<1>5. n \in 0..Left(e) /\ R = {At(e, k) : k \in 0..(n - 1)} /\ base + n * M(level) <= top
      /\ \A k \in 0..(n - 1) : tte[At(e, k)] \in good
  BY <1>1, <1>2, StepsFacts
<1> HIDE DEF e, n, R
<1>6. Left(e) \in Nat /\ \A k \in 0..(Left(e) - 1) : At(e, k) \in Entries
  BY <1>4, AtFacts, LevelFacts
<1>7. R \in SUBSET Entries /\ \A x \in R : MayChange(tte[x])
  BY <1>5, <1>6 DEF good
<1>8. req.ripas \in {"empty", "ram"} /\ req.ripas \in Ripas
  BY <1>0 DEF Requests, Ripas
<1>9. tte \in [Entries -> Tte]
  BY <1>0 DEF Tree
<1>10. tte' \in [Entries -> Tte] /\ (\A x \in R : tte'[x] = SetRipas(tte[x], req.ripas))
       /\ \A x \in Entries : x \notin R => tte'[x] = tte[x]
  <2>1. tte' = [x \in Entries |-> IF x \in R THEN SetRipas(tte[x], req.ripas) ELSE tte[x]]
    BY <1>3 DEF SetRipas
  <2>2. \A x \in Entries : SetRipas(tte[x], req.ripas) \in Tte
    BY <1>8, <1>9, SetRipasFacts
  <2> QED BY <2>1, <2>2, <1>7, <1>9
<1>11. \A x \in R : /\ tte[x] \in Tte /\ tte[x].hipas \in {"unassigned", "assigned"} /\ tte'[x].hipas = tte[x].hipas
                    /\ tte'[x].pa = tte[x].pa
                    /\ tte[x].ripas = "destroyed" => req.change_destroyed
  BY <1>7, <1>8, <1>9, <1>10, SetRipasFacts DEF MayChange, s2tte_has_ripas
<1>12. /\ Tree(tte')
       /\ \A p \in Ipas : \A x \in R : Entry(p, x[1]) = x =>
            /\ LeafOf(tte, p) = tte[x]
            /\ View(tte, p) = Piece(tte[x], 3, p % M(x[1])) /\ View(tte', p) = Piece(tte'[x], 3, p % M(x[1]))
       /\ \A p \in Ipas : (\A x \in R : Entry(p, x[1]) # x) => View(tte', p) = View(tte, p)
  <2>1. \A x \in R : IsLeaf(tte[x]) /\ IsLeaf(tte'[x])
    BY <1>11 DEF IsLeaf
  <2> QED BY <2>1, <1>0, <1>7, <1>10, LeavesTree, SMTT(30)
<1>13. Kinds(tte')
  <2> SUFFICES ASSUME NEW x \in Entries
               PROVE  /\ tte'[x].hipas \in {"unassigned", "assigned"} => addr_in_par(Base(x))
                      /\ tte'[x].hipas \in {"unassigned_ns", "assigned_ns"} => ~addr_in_par(Base(x))
                      /\ tte'[x].hipas = "unassigned" => tte'[x] = unassigned(tte'[x].ripas)
                      /\ tte'[x].hipas = "unassigned_ns" => tte'[x] = unassigned_ns
    BY DEF Kinds
  <2>1. CASE x \in R
    <3>1. addr_in_par(Base(x))
      BY <2>1, <1>0, <1>11 DEF Kinds
    <3>2. tte[x].hipas = "unassigned" => tte[x] = unassigned(tte[x].ripas)
      BY <1>0 DEF Kinds
    <3>3. tte'[x].ripas = req.ripas /\ tte'[x] = SetRipas(tte[x], req.ripas)
      BY <2>1, <1>8, <1>10, <1>11, SetRipasFacts
    <3>4. tte[x].hipas = "unassigned" => tte'[x] = unassigned(tte'[x].ripas)
      BY <2>1, <3>2, <3>3, <1>8, <1>11, SetRipasFacts
    <3> QED BY <2>1, <3>1, <3>4, <1>11
  <2>2. CASE x \notin R
    BY <2>2, <1>0, <1>10 DEF Kinds
  <2> QED BY <2>1, <2>2
<1>14. CountsExact(tte', ref')
  <2>1. \A x \in Entries : Counts(tte[x]) <=> Counts(tte'[x])
    BY <1>10, <1>11 DEF Counts
  <2> QED BY <2>1, <1>0, <1>3, CountsKept
<1>15. TlbPages(tte', tlb')
  <2>1. ASSUME NEW x \in tlb', x.level = 3, Valid(tte[<<3, x.idx>>])
        PROVE  tte'[<<3, x.idx>>] = tte[<<3, x.idx>>]
    <3>1. PICK y \in Entries : y = <<3, x.idx>> /\ y = <<x.level, x.idx>>
      BY <2>1, <1>0, <1>3 DEF TlbPages
    <3>2. CASE y \in R
      <4>1. tte[y].hipas = "assigned" /\ tte[y].ripas = "ram"
        BY <2>1, <3>1, <3>2, <1>11 DEF Valid, is_assigned_ram
      <4>2. CASE req.ripas = "ram"
        <5>1. tte'[y] = tte[y]
          BY <4>1, <4>2, <3>2, <1>8, <1>10, <1>11, SetRipasFacts
        <5> QED BY <5>1, <3>1
      <4>3. CASE req.ripas = "empty"
        <5>1. NeedsTlbi(tte[y])
          BY <4>1, <4>3 DEF NeedsTlbi
        <5>2. Base(y) \in Covers(y)
          BY CoversIff
        <5> QED BY <5>1, <5>2, <3>1, <3>2, <2>1, <1>3
      <4> QED BY <4>2, <4>3, <1>8
    <3>3. CASE y \notin R
      BY <3>1, <3>3, <1>10
    <3> QED BY <3>2, <3>3
  <2>2. tlb' \subseteq tlb
    BY <1>3
  <2> QED BY <2>1, <2>2, <1>0, TlbKept
<1>16. PICK m \in Nat \ {0} : m = M(level)
  BY <1>2, SizeFacts
<1>17. n \in Nat /\ n >= 1 /\ n * m \in Nat /\ n * m > 0
  BY <1>3, <1>5, <1>6
<1>18. /\ req'.addr = base + n * m /\ req' = [req EXCEPT !.addr = req'.addr]
  BY <1>0, <1>3, <1>16 DEF Requests
<1>19. req'.addr \in Nat /\ req.addr < req'.addr /\ req'.addr <= req.top
  BY <1>0, <1>1, <1>5, <1>16, <1>17, <1>18 DEF Requests
<1>20. ASSUME NEW p \in Ipas
       PROVE  p \in req.addr..(req'.addr - 1) <=> \E x \in R : Entry(p, x[1]) = x
  <2>1. p \in Base(e)..(Base(e) + n * M(e[1]) - 1) <=> \E k \in 0..(n - 1) : Entry(p, e[1]) = At(e, k)
    BY <1>4, <1>5, AtPages
  <2>2. req.addr = Base(e) /\ req'.addr = Base(e) + n * M(e[1])
    <3>1. M(e[1]) = m
      BY <1>4, <1>16
    <3> QED BY <3>1, <1>1, <1>4, <1>18
  <2>3. \A k : At(e, k)[1] = e[1]
    BY DEF At
  <2>4. p \in req.addr..(req'.addr - 1) <=> \E k \in 0..(n - 1) : Entry(p, e[1]) = At(e, k)
    <3>1. Base(e) \in Nat /\ M(e[1]) \in Nat /\ n \in Nat
      BY <1>1, <1>4, <1>16, <1>17
    <3> QED BY <3>1, <2>1, <2>2
  <2>5. (\E k \in 0..(n - 1) : Entry(p, e[1]) = At(e, k)) <=> \E x \in R : Entry(p, x[1]) = x
    BY <2>3, <1>5
  <2> QED BY <2>4, <2>5
<1>21. ASSUME NEW p \in Ipas, NEW x \in R, Entry(p, x[1]) = x
       PROVE  /\ View(tte, p).ripas = "destroyed" => req.change_destroyed
              /\ View(tte', p) = [View(tte, p) EXCEPT !.ripas = req.ripas]
  <2>1. x \in Entries /\ x[1] \in Levels /\ p \in Nat
    BY <1>7, EntryShape, EntryIn, LevelFacts
  <2>2. PICK k \in Nat : k = p % M(x[1])
    BY <2>1, SizeFacts, DivMod
  <2>3. View(tte, p) = Piece(tte[x], 3, k) /\ View(tte', p) = Piece(SetRipas(tte[x], req.ripas), 3, k)
    BY <2>2, <1>10, <1>12, <1>21
  <2>4. View(tte', p) = SetRipas(View(tte, p), req.ripas)
    BY <2>3, <1>8, <1>11, SetRipasFacts
  <2>5. View(tte, p).ripas = tte[x].ripas
    BY <1>0, <1>12, <1>21, ViewKind
  <2> QED BY <2>4, <2>5, <1>11 DEF SetRipas
<1>22. \A p \in Ipas :
         IF p \in req.addr..(req'.addr - 1)
         THEN /\ View(tte, p).ripas = "destroyed" => req.change_destroyed
              /\ View(tte', p) = [View(tte, p) EXCEPT !.ripas = req.ripas]
         ELSE View(tte', p) = View(tte, p)
  BY <1>12, <1>20, <1>21
<1> QED
  BY <1>1, <1>3, <1>12, <1>13, <1>14, <1>15, <1>18, <1>19, <1>22


-----------------------------------------------------------------------------
(***************************************************************************)
(* What the data and the request need of a step, page by page.             *)
(***************************************************************************)
LEMMA ParPages ==
  /\ \A p \in Par : p \in Ipas /\ addr_in_par(p) /\ p \in Nat
  /\ \A p \in Ipas : addr_in_par(p) => p \in Par
  /\ ParSize \in Nat /\ ParSize <= IpaSize /\ IpaSize \in Nat
<1>1. ParSize \in Nat /\ ParSize <= IpaSize /\ IpaSize \in Nat
  BY ParFacts, WidthFacts, LevelFacts
<1> QED
  BY <1>1 DEF Par, Ipas, addr_in_par

LEMMA DataSame ==
  ASSUME NEW f, NEW g, NEW d, DataExact(f, d),
         \A p \in Par : /\ View(g, p).hipas = "assigned" <=> View(f, p).hipas = "assigned"
                        /\ View(f, p).hipas = "assigned" => View(g, p).pa = View(f, p).pa
  PROVE  DataExact(g, d)
<1>1. Backed(g) = Backed(f)
  BY DEF Backed
<1>2. \A p \in Backed(f) : View(g, p).pa = View(f, p).pa
  BY DEF Backed
<1> QED
  BY <1>1, <1>2 DEF DataExact

LEMMA DataMore ==
  ASSUME NEW f, NEW g, NEW d, DataExact(f, d), NEW q \in Par, NEW a, a \notin d,
         View(f, q).hipas # "assigned", View(g, q).hipas = "assigned", View(g, q).pa = a,
         \A p \in Par : p # q => View(g, p) = View(f, p)
  PROVE  DataExact(g, d \cup {a})
<1>1. Backed(g) = Backed(f) \cup {q} /\ q \notin Backed(f)
  BY DEF Backed
<1>2. \A p \in Backed(f) : p # q /\ View(g, p) = View(f, p)
  BY <1>1 DEF Backed
<1> QED
  BY <1>1, <1>2 DEF DataExact

LEMMA DataLess ==
  ASSUME NEW f, NEW g, NEW d, DataExact(f, d), NEW q \in Par,
         View(f, q).hipas = "assigned", View(g, q).hipas # "assigned",
         \A p \in Par : p # q => View(g, p) = View(f, p)
  PROVE  DataExact(g, d \ {View(f, q).pa})
<1>1. Backed(g) = Backed(f) \ {q} /\ q \in Backed(f)
  BY DEF Backed
<1>2. \A p \in Backed(g) : p # q /\ p \in Backed(f) /\ View(g, p) = View(f, p)
  BY <1>1 DEF Backed
<1>3. ASSUME NEW b \in d, b # View(f, q).pa
      PROVE  \E p \in Backed(g) : View(g, p).pa = b
  <2>1. PICK p \in Backed(f) : View(f, p).pa = b
    BY DEF DataExact
  <2>2. p \in Backed(g)
    BY <2>1, <1>1, <1>3
  <2> QED BY <2>1, <2>2, <1>2
<1>4. \A p \in Backed(g) : View(g, p).pa \in d /\ View(g, p).pa # View(f, q).pa
  BY <1>1, <1>2 DEF DataExact
<1>5. \A p, r \in Backed(g) : View(g, p).pa = View(g, r).pa => p = r
  BY <1>1, <1>2 DEF DataExact
<1> QED
  BY <1>3, <1>4, <1>5 DEF DataExact

LEMMA RipasKept ==
  ASSUME NEW f, NEW g, NEW q \in Requests, q.top <= ParSize, RipasDone(f, q),
         q.base = q.top \/ \A p \in Par : View(g, p).ripas \in {View(f, p).ripas, "destroyed"}
  PROVE  RipasDone(g, q)
<1>1. q.base \in Nat /\ q.top \in Nat /\ q.addr \in Nat
  BY DEF Requests
<1> SUFFICES ASSUME q.base < q.top
             PROVE  /\ q.base <= q.addr /\ q.addr <= q.top
                    /\ \A p \in q.base..(q.addr - 1) : View(g, p).ripas \in {q.ripas, "destroyed"}
  BY DEF RipasDone
<1>2. /\ q.base <= q.addr /\ q.addr <= q.top
      /\ \A p \in q.base..(q.addr - 1) : View(f, p).ripas \in {q.ripas, "destroyed"}
  BY DEF RipasDone
<1>3. \A p \in q.base..(q.addr - 1) : p \in Par
  BY <1>1, <1>2, ParPages DEF Par
<1> QED
  BY <1>1, <1>2, <1>3


-----------------------------------------------------------------------------
(***************************************************************************)
(* The invariant is inductive.                                             *)
(***************************************************************************)
LEMMA RttInvPrimed ==
  RttInv' <=> /\ Tree(tte') /\ Kinds(tte') /\ CountsExact(tte', ref') /\ DataExact(tte', data')
              /\ TlbPages(tte', tlb') /\ ReqOK' /\ RipasDone(tte', req')
  BY DEF RttInv

\* A command that changes neither the data granules nor the request.
LEMMA QuietStep ==
  ASSUME RttInv, Tree(tte'), Kinds(tte'), CountsExact(tte', ref'), TlbPages(tte', tlb'),
         UNCHANGED <<data, state, running, req>>,
         \A p \in Par : /\ View(tte', p).hipas = "assigned" <=> View(tte, p).hipas = "assigned"
                        /\ View(tte, p).hipas = "assigned" => View(tte', p).pa = View(tte, p).pa
                        /\ state = "NEW" \/ View(tte', p).ripas \in {View(tte, p).ripas, "destroyed"}
  PROVE  RttInv'
<1>1. DataExact(tte, data) /\ ReqOK /\ RipasDone(tte, req)
  BY DEF RttInv
<1>2. DataExact(tte', data')
  BY <1>1, DataSame
<1>3. ReqOK'
  BY <1>1 DEF ReqOK
<1>4. req \in Requests /\ req.top <= ParSize /\ (state = "NEW" => req.base = req.top)
  BY <1>1 DEF ReqOK, NoRequest
<1>5. RipasDone(tte', req')
  BY <1>1, <1>4, RipasKept
<1> QED
  BY <1>2, <1>3, <1>5, RttInvPrimed

LEMMA InitInv ==
  ASSUME Init
  PROVE  RttInv /\ \A p \in Ipas : View(tte, p) = IF addr_in_par(p) THEN unassigned("empty") ELSE unassigned_ns
<1>1. \A x \in Entries : tte[x] = IF x[1] # StartLevel THEN Absent
                                  ELSE IF addr_in_par(Base(x)) THEN unassigned("empty") ELSE unassigned_ns
  BY DEF Init
<1>2. /\ Absent \in Tte /\ Absent.hipas = "absent"
      /\ unassigned("empty") \in Tte /\ unassigned("empty").hipas = "unassigned" /\ unassigned("empty").ripas = "empty"
      /\ unassigned_ns \in Tte /\ unassigned_ns.hipas = "unassigned_ns"
  BY DEF Absent, unassigned, unassigned_ns, S2tte, Tte, Hipas, Ripas
<1>3. Tree(tte)
  <2>1. tte \in [Entries -> Tte]
    BY <1>2 DEF Init
  <2>2. ASSUME NEW x \in Entries
        PROVE  /\ tte[x].hipas = "absent" <=> (x[1] # StartLevel /\ tte[Parent(x)].hipas # "table")
               /\ tte[x].hipas # "table"
    <3>1. x[1] # StartLevel => Parent(x) \in Entries
      BY ParentIn
    <3>2. \A y \in Entries : tte[y].hipas # "table" /\ (tte[y].hipas = "absent" <=> y[1] # StartLevel)
      BY <1>1, <1>2
    <3> QED BY <3>1, <3>2
  <2> QED BY <2>1, <2>2 DEF Tree
<1>4. Kinds(tte)
  BY <1>1, <1>2 DEF Kinds
<1>5. CountsExact(tte, ref)
  <2>1. \A t \in Tables : Counted(tte, t) = {}
    <3>1. \A t \in Tables : \A x \in EntriesOf(t) : x \in Entries
      BY EntriesOfIn
    <3>2. \A x \in Entries : ~Counts(tte[x])
      BY <1>1, <1>2 DEF Counts
    <3> QED BY <3>1, <3>2 DEF Counted
  <2> QED BY <2>1, FS_EmptySet DEF CountsExact, Init
<1>6. ASSUME NEW p \in Ipas
      PROVE  View(tte, p) = IF addr_in_par(p) THEN unassigned("empty") ELSE unassigned_ns
  <2>1. StartLevel \in Levels
    BY LevelFacts
  <2>2. PICK x \in Entries : x = Entry(p, StartLevel) /\ x[1] = StartLevel
    BY <2>1, EntryIn
  <2>3. addr_in_par(p) <=> addr_in_par(Base(x))
    BY <2>2, CoversIff, ParIff
  <2>4. IsLeaf(tte[x])
    BY <2>2, <1>1, <1>2 DEF IsLeaf
  <2>5. Walk(tte, p, 3) = StartLevel
    BY <2>1, <2>2, <2>4, <1>3, WalkLeaf
  <2>6. LeafOf(tte, p) = tte[x] /\ tte[x].hipas \notin {"assigned", "assigned_ns"}
    BY <2>2, <2>5, <1>1, <1>2 DEF LeafOf
  <2>7. View(tte, p) = tte[x]
    BY <2>6, <1>3, <1>4, ViewKind
  <2> QED BY <2>2, <2>3, <2>7, <1>1
<1>7. DataExact(tte, data)
  <2>1. Backed(tte) = {}
    BY <1>2, <1>6, ParPages DEF Backed
  <2> QED BY <2>1 DEF DataExact, Init
<1>8. TlbPages(tte, tlb)
  BY DEF TlbPages, Init
<1>9. ReqOK /\ RipasDone(tte, req)
  <2>1. req = NoRequest /\ state = "NEW" /\ running = FALSE /\ 0 <= ParSize
    BY ParPages DEF Init
  <2>2. NoRequest \in Requests /\ NoRequest.base = 0 /\ NoRequest.top = 0
    BY DEF NoRequest, Requests
  <2>3. ReqOK
    <3>1. req \in Requests /\ req.base = 0 /\ req.top = 0 /\ req.base <= req.top /\ req.top <= ParSize
      BY <2>1, <2>2
    <3>2. state \in {"NEW", "ACTIVE"} /\ running \in BOOLEAN
      BY <2>1
    <3> QED BY <2>1, <3>1, <3>2, Zenon DEF ReqOK
  <2> QED BY <2>1, <2>2, <2>3 DEF RipasDone
<1> QED
  BY <1>3, <1>4, <1>5, <1>6, <1>7, <1>8, <1>9 DEF RttInv


LEMMA GiveInv ==
  ASSUME RttInv, NEW a \in DataArgs, NEW r \in Ripas, data_create(a, r),
         state = "NEW" \/ r = Page(a.addr).ripas
  PROVE  RttInv'
<1>1. DataExact(tte, data) /\ ReqOK /\ RipasDone(tte, req)
  BY DEF RttInv
<1>2. /\ Tree(tte') /\ Kinds(tte') /\ CountsExact(tte', ref') /\ TlbPages(tte', tlb')
      /\ a.addr \in Ipas /\ addr_in_par(a.addr)
      /\ View(tte, a.addr).hipas = "unassigned" /\ View(tte', a.addr) = assigned(r, a.pa)
      /\ Page(a.addr).ripas = View(tte, a.addr).ripas
      /\ \A p \in Ipas : p # a.addr => View(tte', p) = View(tte, p)
      /\ a.pa \notin data /\ data' = data \cup {a.pa}
      /\ UNCHANGED <<state, running, req>>
  BY DataCreateStep
<1>3. PICK q \in Par : q = a.addr
  BY <1>2, ParPages
<1>4. View(tte', q).hipas = "assigned" /\ View(tte', q).pa = a.pa /\ View(tte', q).ripas = r
  BY <1>2, <1>3 DEF assigned, S2tte
<1>5. \A p \in Par : p # q => View(tte', p) = View(tte, p)
  BY <1>2, <1>3, ParPages
<1>6. DataExact(tte', data \cup {a.pa})
  BY <1>1, <1>2, <1>3, <1>4, <1>5, DataMore
<1>7. ReqOK'
  BY <1>1, <1>2 DEF ReqOK
<1>8. req \in Requests /\ req.top <= ParSize /\ (state = "NEW" => req.base = req.top)
  BY <1>1 DEF ReqOK, NoRequest
<1>9. req.base = req.top \/ \A p \in Par : View(tte', p).ripas \in {View(tte, p).ripas, "destroyed"}
  BY <1>2, <1>3, <1>4, <1>5, <1>8
<1>10. RipasDone(tte', req')
  BY <1>1, <1>2, <1>8, <1>9, RipasKept
<1> QED
  BY <1>2, <1>6, <1>7, <1>10, RttInvPrimed

LEMMA TakeInv ==
  ASSUME RttInv, NEW addr \in Ipas, smc_data_destroy(addr)
  PROVE  RttInv'
<1>1. DataExact(tte, data) /\ ReqOK /\ RipasDone(tte, req)
  BY DEF RttInv
<1>2. /\ Tree(tte') /\ Kinds(tte') /\ CountsExact(tte', ref') /\ TlbPages(tte', tlb')
      /\ addr_in_par(addr) /\ View(tte, addr).hipas = "assigned"
      /\ View(tte', addr) = unassigned(IF View(tte, addr).ripas = "ram" THEN "destroyed"
                                       ELSE View(tte, addr).ripas)
      /\ \A p \in Ipas : p # addr => View(tte', p) = View(tte, p)
      /\ data' = data \ {View(tte, addr).pa}
      /\ UNCHANGED <<state, running, req>>
  BY DataDestroyStep
<1>3. PICK q \in Par : q = addr
  BY <1>2, ParPages
<1>4. View(tte', q).hipas # "assigned" /\ View(tte', q).ripas \in {View(tte, q).ripas, "destroyed"}
  BY <1>2, <1>3 DEF unassigned, S2tte
<1>5. \A p \in Par : p # q => View(tte', p) = View(tte, p)
  BY <1>2, <1>3, ParPages
<1>6. DataExact(tte', data')
  BY <1>1, <1>2, <1>3, <1>4, <1>5, DataLess
<1>7. ReqOK'
  BY <1>1, <1>2 DEF ReqOK
<1>8. req \in Requests /\ req.top <= ParSize
  BY <1>1 DEF ReqOK
<1>9. \A p \in Par : View(tte', p).ripas \in {View(tte, p).ripas, "destroyed"}
  BY <1>4, <1>5
<1>10. RipasDone(tte', req')
  BY <1>1, <1>2, <1>8, <1>9, RipasKept
<1> QED
  BY <1>2, <1>6, <1>7, <1>10, RttInvPrimed

LEMMA ChangeInv ==
  ASSUME RttInv, NEW base \in Ipas, NEW top \in Ipas, smc_rtt_set_ripas(base, top)
  PROVE  RttInv'
<1>1. DataExact(tte, data) /\ ReqOK /\ RipasDone(tte, req) /\ Tree(tte) /\ Kinds(tte)
  BY DEF RttInv
<1>2. /\ Tree(tte') /\ Kinds(tte') /\ CountsExact(tte', ref') /\ TlbPages(tte', tlb')
      /\ ~running /\ req' = [req EXCEPT !.addr = req'.addr]
      /\ req'.addr \in Nat /\ req.addr < req'.addr /\ req'.addr <= req.top
      /\ \A p \in Ipas :
           IF p \in req.addr..(req'.addr - 1)
           THEN /\ View(tte, p).ripas = "destroyed" => req.change_destroyed
                /\ View(tte', p) = [View(tte, p) EXCEPT !.ripas = req.ripas]
           ELSE View(tte', p) = View(tte, p)
      /\ UNCHANGED <<data, state, running>>
  BY SetRipasStep
<1>3. PICK n \in Nat : n = req'.addr
  BY <1>2
<1>4. req \in Requests /\ req.top <= ParSize /\ req.base \in Nat /\ req.top \in Nat /\ req.addr \in Nat /\ req.ripas \in Ripas
  BY <1>1 DEF ReqOK, Requests, Ripas
<1>5. /\ req' = [req EXCEPT !.addr = n] /\ [req EXCEPT !.addr = n] \in Requests
      /\ req'.base = req.base /\ req'.top = req.top /\ req'.ripas = req.ripas
  BY <1>2, <1>3, <1>4 DEF Requests
<1>6. ASSUME NEW p \in Ipas
      PROVE  /\ View(tte', p).hipas = View(tte, p).hipas /\ View(tte', p).pa = View(tte, p).pa
             /\ p \in req.addr..(n - 1) => View(tte', p).ripas = req.ripas
             /\ p \notin req.addr..(n - 1) => View(tte', p) = View(tte, p)
  <2>1. View(tte, p) \in Tte
    BY <1>1, ViewKind
  <2>2. CASE p \in req.addr..(n - 1)
    <3>1. View(tte', p) = SetRipas(View(tte, p), req.ripas)
      BY <2>2, <1>2, <1>3 DEF SetRipas
    <3> QED BY <2>1, <2>2, <3>1, <1>4, SetRipasFacts
  <2>3. CASE p \notin req.addr..(n - 1)
    BY <2>3, <1>2, <1>3
  <2> QED BY <2>2, <2>3
<1>7. DataExact(tte', data')
  BY <1>1, <1>2, <1>6, ParPages, DataSame
<1>8. ReqOK'
  <2>1. state = "NEW" => FALSE
    BY <1>1, <1>2, <1>4 DEF ReqOK, NoRequest
  <2> QED BY <2>1, <1>1, <1>2, <1>5 DEF ReqOK
<1>9. RipasDone(tte', req')
  <2> SUFFICES ASSUME req'.base < req'.top
               PROVE  /\ req'.base <= req'.addr /\ req'.addr <= req'.top
                      /\ \A p \in req'.base..(req'.addr - 1) : View(tte', p).ripas \in {req'.ripas, "destroyed"}
    BY DEF RipasDone
  <2>1. /\ req.base <= req.addr /\ req.addr <= req.top
        /\ \A p \in req.base..(req.addr - 1) : View(tte, p).ripas \in {req.ripas, "destroyed"}
    BY <1>1, <1>5 DEF RipasDone
  <2>2. ASSUME NEW p \in req.base..(n - 1)
        PROVE  View(tte', p).ripas \in {req.ripas, "destroyed"}
    <3>1. p \in Ipas
      BY <1>2, <1>3, <1>4, ParPages DEF Ipas
    <3>2. CASE p \in req.addr..(n - 1)
      BY <3>1, <3>2, <1>6
    <3>3. CASE p \notin req.addr..(n - 1)
      <4>1. p \in req.base..(req.addr - 1)
        BY <3>3, <1>4, <2>2
      <4> QED BY <4>1, <3>1, <3>3, <2>1, <1>6
    <3> QED BY <3>2, <3>3
  <2> QED BY <2>1, <2>2, <1>2, <1>3, <1>4, <1>5
<1> QED
  BY <1>2, <1>7, <1>8, <1>9, RttInvPrimed


\* The steps of the realm and of its life cycle leave the tables alone.
LEMMA SameTables ==
  ASSUME RttInv, UNCHANGED <<tte, ref, data, tlb>>, ReqOK', RipasDone(tte, req')
  PROVE  RttInv'
<1>1. Tree(tte) /\ Kinds(tte) /\ CountsExact(tte, ref) /\ DataExact(tte, data) /\ TlbPages(tte, tlb)
  BY DEF RttInv
<1> QED
  BY <1>1, RttInvPrimed

LEMMA AskInv ==
  ASSUME RttInv, NEW a \in RipasArgs, handle_rsi_ipa_state_set(a)
  PROVE  RttInv'
<1>1. ReqOK
  BY DEF RttInv
<1>2. a.base \in Nat /\ a.top \in Nat /\ a.cd \in BOOLEAN
  BY RttAssumption
<1>3. /\ running /\ running' = FALSE /\ a.ripas \in {"empty", "ram"} /\ a.base < a.top /\ a.top <= ParSize
      /\ req' = [base |-> a.base, top |-> a.top, addr |-> a.base, ripas |-> a.ripas, change_destroyed |-> a.cd]
      /\ UNCHANGED <<tte, ref, data, tlb, state>>
  BY DEF handle_rsi_ipa_state_set
<1>4. /\ req' \in Requests /\ req'.base = a.base /\ req'.top = a.top /\ req'.addr = a.base
  BY <1>2, <1>3 DEF Requests
<1>5. state \in {"NEW", "ACTIVE"} /\ state # "NEW"
  BY <1>1, <1>3 DEF ReqOK
<1>6. ReqOK'
  <2>1. req'.base <= req'.top /\ req'.top <= ParSize /\ req'.base # req'.top
    BY <1>2, <1>3, <1>4
  <2> QED BY <2>1, <1>3, <1>4, <1>5 DEF ReqOK
<1>7. RipasDone(tte, req')
  BY <1>2, <1>3, <1>4 DEF RipasDone
<1> QED
  BY <1>3, <1>6, <1>7, SameTables

LEMMA EnterInv ==
  ASSUME RttInv, smc_rec_enter
  PROVE  RttInv' /\ req' = [req EXCEPT !.base = 0, !.top = 0]
<1>1. ReqOK /\ RipasDone(tte, req)
  BY DEF RttInv
<1>2. ~running /\ state = "ACTIVE" /\ running' = TRUE /\ UNCHANGED <<tte, ref, data, tlb, state>>
      /\ req' = IF req.base = req.top THEN req ELSE [req EXCEPT !.base = 0, !.top = 0]
  BY DEF smc_rec_enter, complete_set_ripas
<1>3. req \in Requests /\ (req.base = req.top => req.base = 0 /\ req.top = 0) /\ 0 <= ParSize
  BY <1>1, ParPages DEF ReqOK
<1>4. req' = [req EXCEPT !.base = 0, !.top = 0]
  BY <1>2, <1>3 DEF Requests
<1>5. req' \in Requests /\ req'.base = 0 /\ req'.top = 0
  BY <1>3, <1>4 DEF Requests
<1>6. ReqOK'
  <2>1. req'.base <= req'.top /\ req'.top <= ParSize
    BY <1>3, <1>5
  <2>2. state' = "ACTIVE" /\ running' \in BOOLEAN
    BY <1>2
  <2> QED BY <2>1, <2>2, <1>5 DEF ReqOK
<1>7. RipasDone(tte, req')
  BY <1>5 DEF RipasDone
<1> QED
  BY <1>2, <1>4, <1>6, <1>7, SameTables

LEMMA ExitInv ==
  ASSUME RttInv, RecExit \/ smc_realm_activate
  PROVE  RttInv'
<1>1. ReqOK /\ RipasDone(tte, req)
  BY DEF RttInv
<1>2. UNCHANGED <<tte, ref, data, tlb, req>>
  BY DEF RecExit, smc_realm_activate
<1>3. ReqOK'
  <2>1. CASE RecExit
    BY <1>1, <2>1 DEF ReqOK, RecExit
  <2>2. CASE smc_realm_activate
    BY <1>1, <2>2 DEF ReqOK, smc_realm_activate
  <2> QED BY <2>1, <2>2
<1> QED
  BY <1>1, <1>2, <1>3, SameTables

LEMMA TlbInv ==
  ASSUME RttInv, (\E e \in Entries : TlbFill(e)) \/ TlbEvict
  PROVE  RttInv'
<1>1. /\ Tree(tte) /\ Kinds(tte) /\ CountsExact(tte, ref) /\ DataExact(tte, data) /\ TlbPages(tte, tlb)
      /\ ReqOK /\ RipasDone(tte, req)
  BY DEF RttInv
<1>2. UNCHANGED <<tte, ref, data, state, running, req>>
  BY DEF TlbFill, TlbEvict
<1>3. TlbPages(tte, tlb')
  <2>1. CASE TlbEvict
    BY <2>1, <1>1 DEF TlbEvict, TlbPages
  <2>2. ASSUME NEW e \in Entries, TlbFill(e)
        PROVE  TlbPages(tte, tlb')
    <3> DEFINE n == [level |-> e[1], idx |-> e[2], pa |-> tte[e].pa]
    <3>1. Valid(tte[e]) /\ tlb' = tlb \cup {n}
      BY <2>2 DEF TlbFill
    <3>2. tte[e].pa \in Nat
      BY <1>1 DEF Tree, Tte
    <3>3. e = <<e[1], e[2]>> /\ e[1] \in Levels /\ e[2] \in Nat
      BY EntryShape
    <3>4. n \in [level : Levels, idx : Nat, pa : Nat] /\ <<n.level, n.idx>> = e /\ n.pa = tte[e].pa
      BY <3>2, <3>3
    <3> HIDE DEF n
    <3>5. n.level = 3 => <<3, n.idx>> = e
      BY <3>4
    <3> QED BY <3>1, <3>4, <3>5, <1>1 DEF TlbPages
  <2> QED BY <2>1, <2>2
<1>4. ReqOK'
  BY <1>1, <1>2 DEF ReqOK
<1> QED
  BY <1>1, <1>2, <1>3, <1>4, RttInvPrimed

\* The page that a command maps data at has a RIPAS.
LEMMA PageRipas ==
  ASSUME Tree(tte), NEW a \in DataArgs, NEW r, data_create(a, r)
  PROVE  Page(a.addr).ripas \in Ripas
<1>1. a.addr \in Nat /\ 3 \in Levels
  BY RttAssumption, LevelFacts
<1>2. validate_map_addr(a.addr, 3) /\ Page(a.addr) = tte[Entry(a.addr, 3)]
  BY DEF data_create, validate_data_create_unknown, S2TT_PAGE_LEVEL, Page
<1>3. tte[Entry(a.addr, 3)] \in Tte
  BY <1>1, <1>2, MapArgs
<1> QED
  BY <1>2, <1>3 DEF Tte

LEMMA NextInv ==
  ASSUME RttInv, [Next]_vars
  PROVE  RttInv'
<1>0. ASSUME NEW a \in RttArgs, smc_rtt_create(a.addr, a.level) \/ smc_rtt_fold(a.addr, a.level)
      PROVE  RttInv'
  <2>1. /\ Tree(tte') /\ Kinds(tte') /\ CountsExact(tte', ref') /\ TlbPages(tte', tlb')
        /\ \A p \in Ipas : View(tte', p) = View(tte, p)
        /\ UNCHANGED <<data, state, running, req>>
    BY <1>0, CreateStep, FoldStep
  <2> QED BY <2>1, ParPages, QuietStep
<1>1. ASSUME NEW a \in RttArgs, smc_rtt_destroy(a.addr, a.level)
      PROVE  RttInv'
  <2>1. /\ Tree(tte') /\ Kinds(tte') /\ CountsExact(tte', ref') /\ TlbPages(tte', tlb')
        /\ \A p \in Ipas :
             \/ View(tte', p) = View(tte, p)
             \/ /\ addr_in_par(p) /\ View(tte, p).hipas = "unassigned"
                /\ View(tte', p) = unassigned("destroyed")
             \/ ~addr_in_par(p) /\ View(tte', p) = unassigned_ns
        /\ UNCHANGED <<data, state, running, req>>
    BY <1>1, DestroyStep
  <2>2. unassigned("destroyed").hipas = "unassigned" /\ unassigned("destroyed").ripas = "destroyed"
    BY DEF unassigned, S2tte
  <2> QED BY <2>1, <2>2, ParPages, QuietStep
<1>2. ASSUME NEW a \in NsArgs, smc_rtt_map_unprotected(a)
      PROVE  RttInv'
  <2>1. /\ Tree(tte') /\ Kinds(tte') /\ CountsExact(tte', ref') /\ TlbPages(tte', tlb')
        /\ \A p \in Ipas : addr_in_par(p) => View(tte', p) = View(tte, p)
        /\ UNCHANGED <<data, state, running, req>>
    BY <1>2, MapStep
  <2> QED BY <2>1, ParPages, QuietStep
<1>3. ASSUME NEW addr \in Ipas, NEW level \in Levels, smc_rtt_unmap_unprotected(addr, level)
      PROVE  RttInv'
  <2>1. /\ Tree(tte') /\ Kinds(tte') /\ CountsExact(tte', ref') /\ TlbPages(tte', tlb')
        /\ \A p \in Ipas : addr_in_par(p) => View(tte', p) = View(tte, p)
        /\ UNCHANGED <<data, state, running, req>>
    BY <1>3, UnmapStep
  <2> QED BY <2>1, ParPages, QuietStep
<1>4. ASSUME NEW a \in InitArgs, smc_rtt_init_ripas(a)
      PROVE  RttInv'
  <2>1. /\ Tree(tte') /\ Kinds(tte') /\ CountsExact(tte', ref') /\ TlbPages(tte', tlb')
        /\ \A p \in Ipas :
             \/ View(tte', p) = View(tte, p)
             \/ View(tte, p) = unassigned("empty") /\ View(tte', p) = unassigned("ram")
        /\ state = "NEW"
        /\ UNCHANGED <<data, state, running, req>>
    BY <1>4, InitRipasStep
  <2>2. unassigned("empty").hipas = "unassigned" /\ unassigned("ram").hipas = "unassigned"
    BY DEF unassigned, S2tte
  <2> QED BY <2>1, <2>2, ParPages, QuietStep
<1>5. ASSUME NEW a \in DataArgs, smc_data_create(a)
      PROVE  RttInv'
  <2>1. state = "NEW" /\ data_create(a, "ram") /\ "ram" \in Ripas
    BY <1>5 DEF smc_data_create, validate_data_create, Ripas
  <2> QED BY <2>1, GiveInv
<1>6. ASSUME NEW a \in DataArgs, smc_data_create_unknown(a)
      PROVE  RttInv'
  <2>1. data_create(a, Page(a.addr).ripas)
    BY <1>6 DEF smc_data_create_unknown
  <2>2. Page(a.addr).ripas \in Ripas
    <3>1. Tree(tte)
      BY DEF RttInv
    <3> QED BY <2>1, <3>1, PageRipas
  <2> QED BY <2>1, <2>2, GiveInv
<1>7. CASE UNCHANGED vars
  BY <1>7, SameTables DEF vars, RttInv, ReqOK
<1> QED
  BY <1>0, <1>1, <1>2, <1>3, <1>4, <1>5, <1>6, <1>7,
     TakeInv, ChangeInv, AskInv, EnterInv, ExitInv, TlbInv DEF Next


-----------------------------------------------------------------------------
(***************************************************************************)
(* What the invariant says about the model's own operators.                *)
(***************************************************************************)
LEMMA InvCounts ==
  ASSUME RttInv
  PROVE  RttRefcountsExact
<1>1. CountsExact(tte, ref)
  BY DEF RttInv
<1> QED
  BY <1>1 DEF CountsExact, Counted, Counts, RttRefcountsExact

LEMMA InvData ==
  ASSUME RttInv
  PROVE  DataMappedOnce
<1> DEFINE backed == {p \in 0..(ParSize - 1) : Leaf(p).hipas = "assigned"}
           B      == Backed(tte)
           f      == [p \in B |-> View(tte, p).pa]
<1>1. Tree(tte) /\ Kinds(tte) /\ DataExact(tte, data)
  BY DEF RttInv
<1>2. \A p \in Par : View(tte, p).hipas = LeafOf(tte, p).hipas
  BY <1>1, ParPages, ViewKind
<1>3. \A p : Leaf(p) = LeafOf(tte, p) /\ PageView(p) = View(tte, p)
  BY WalkIsWalk
<1>4. backed = B
  BY <1>2, <1>3 DEF Backed, Par
<1>5. data = {PageView(p).pa : p \in B}
  BY <1>1, <1>3 DEF DataExact
<1>6. f \in Bijection(B, data)
  <2>1. f \in [B -> data]
    BY <1>1 DEF DataExact
  <2>2. \A p, q \in B : f[p] = f[q] => p = q
    BY <1>1 DEF DataExact
  <2>3. \A a \in data : \E p \in B : f[p] = a
    BY <1>1 DEF DataExact
  <2> HIDE DEF f, B
  <2> QED BY <2>1, <2>2, <2>3 DEF Bijection, Injection, Surjection, IsInjective
<1>7. IsFiniteSet(B)
  <2>1. IsFiniteSet(0..(ParSize - 1))
    BY ParPages, FS_Interval
  <2>2. B \in SUBSET (0..(ParSize - 1))
    BY DEF Backed, Par
  <2> QED BY <2>1, <2>2, FS_Subset
<1> HIDE DEF f, B
<1>8. Cardinality(data) = Cardinality(B)
  BY <1>6, <1>7, FS_Bijection DEF ExistsBijection
<1> QED
  BY <1>4, <1>5, <1>8 DEF DataMappedOnce

LEMMA InvTlb ==
  ASSUME RttInv
  PROVE  PageTlbFresh
<1>1. Tree(tte) /\ TlbPages(tte, tlb)
  BY DEF RttInv
<1> SUFFICES ASSUME NEW x \in tlb, x.level = 3
             PROVE  Valid(Leaf(x.idx)) /\ PageView(x.idx).pa = x.pa
  BY DEF PageTlbFresh, S2TT_PAGE_LEVEL
<1>2. PICK p \in Nat : p = x.idx
  BY <1>1 DEF TlbPages
<1>3. PICK y \in Entries : y = <<3, p>> /\ Valid(tte[y]) /\ tte[y].pa = x.pa
  BY <1>1, <1>2 DEF TlbPages
<1>4. p \in Ipas
  <2>1. Base(y) \in Ipas
    BY CoversIff
  <2>2. Base(y) = p
    BY <1>3, SizeFacts DEF Base, M
  <2> QED BY <2>1, <2>2
<1>5. Entry(p, 3) = y /\ p % M(3) = 0 /\ 3 \in Levels
  BY <1>3, <1>4, PageEntry, LevelFacts
<1>6. IsLeaf(tte[y]) /\ tte[y].hipas \in {"assigned", "assigned_ns"}
  BY <1>3 DEF Valid, is_assigned_ram, IsLeaf
<1>7. Walk(tte, p, 3) = 3
  BY <1>1, <1>4, <1>5, <1>6, WalkLeaf
<1>8. LeafOf(tte, p) = tte[y] /\ View(tte, p) = Piece(tte[y], 3, 0)
  BY <1>5, <1>7 DEF LeafOf, View, S2TT_PAGE_LEVEL
<1>9. Piece(tte[y], 3, 0).pa = tte[y].pa
  <2>1. tte[y] \in Tte
    BY <1>1 DEF Tree
  <2>2. 0 * s2tte_map_size(3) = 0
    BY SizeFacts DEF M
  <2> QED BY <2>1, <2>2, <1>6 DEF Piece, Tte
<1> QED
  BY <1>2, <1>3, <1>8, <1>9, WalkIsWalk

LEMMA InvRipas ==
  ASSUME RttInv
  PROVE  RipasDoneIsDone
<1>1. Tree(tte) /\ Kinds(tte) /\ RipasDone(tte, req) /\ req \in Requests /\ req.top <= ParSize
  BY DEF RttInv, ReqOK
<1> SUFFICES ASSUME req.base < req.top
             PROVE  /\ req.base <= req.addr /\ req.addr <= req.top
                    /\ \A p \in req.base..(req.addr - 1) : Leaf(p).ripas \in {req.ripas, "destroyed"}
  BY DEF RipasDoneIsDone
<1>2. /\ req.base <= req.addr /\ req.addr <= req.top
      /\ \A p \in req.base..(req.addr - 1) : View(tte, p).ripas \in {req.ripas, "destroyed"}
  BY <1>1 DEF RipasDone
<1>3. req.base \in Nat /\ req.addr \in Nat /\ req.top \in Nat
  BY <1>1 DEF Requests
<1>4. \A p \in req.base..(req.addr - 1) : p \in Ipas
  BY <1>1, <1>2, <1>3, ParPages DEF Ipas
<1>5. \A p \in Ipas : Leaf(p).ripas = View(tte, p).ripas
  BY <1>1, WalkIsWalk, ViewKind
<1> QED
  BY <1>2, <1>4, <1>5

\* The scan for the next live entry, for the commands that give up memory.
LEMMA InvSkip ==
  ASSUME RttInv
  PROVE  SkipMissesNothing
<1>1. Tree(tte)
  BY DEF RttInv
<1> SUFFICES ASSUME NEW addr \in Ipas, NEW want \in Levels
             PROVE  LET level == s2tt_walk(addr, want)
                        top   == s2tt_skip_non_live_entries(addr, level)
                    IN /\ \A p \in addr..(top - 1) : ~s2tte_is_live(Leaf(p))
                       /\ top = addr => s2tte_is_live(tte[Entry(addr, level)])
  BY DEF SkipMissesNothing
<1> DEFINE level == s2tt_walk(addr, want)
           e     == Entry(addr, level)
           top   == s2tt_skip_non_live_entries(addr, level)
           Live(k) == s2tte_is_live(tte[At(e, k)])
           S     == {k \in 1..Left(e) : k = Left(e) \/ Live(k)}
<1>2. level \in Levels /\ tte[e].hipas # "absent"
  BY <1>1, WalkIsWalk, WalkFacts
<1>3. e \in Entries /\ e[1] = level /\ addr \in Nat
  BY <1>2, EntryIn
<1>4. Left(e) \in Nat /\ Left(e) >= 1 /\ At(e, 0) = e
  BY <1>3, LevelFacts, AtFacts
<1>5. top = IF Live(0) THEN addr ELSE Base(e) + (Min(S) * M(level))
  BY <1>3 DEF s2tt_skip_non_live_entries, At, Left, M, N
<1> HIDE DEF level, e, top
<1>6. CASE Live(0)
  <2>1. top = addr /\ s2tte_is_live(tte[e])
    BY <1>4, <1>5, <1>6
  <2> QED BY <2>1, <1>3 DEF top, e, level
<1>7. CASE ~Live(0)
  <2>1. S \in SUBSET Nat /\ S # {}
    BY <1>4
  <2>2. PICK n \in S : n = Min(S) /\ \A k \in S : n <= k
    <3> HIDE DEF S
    <3> QED BY <2>1, MinFacts
  <2>3. n \in 1..Left(e) /\ \A k \in 0..(n - 1) : ~Live(k)
    <3>1. \A k \in 1..(n - 1) : ~Live(k)
      BY <2>2, <1>4
    <3> HIDE DEF S, Live
    <3>2. n \in 1..Left(e)
      BY DEF S
    <3> QED BY <3>1, <3>2, <1>4, <1>7
  <2>4. PICK m \in Nat \ {0} : m = M(level) /\ m = M(e[1])
    BY <1>2, <1>3, SizeFacts
  <2>5. top = Base(e) + n * m
    <3> HIDE DEF S, Live
    <3> QED BY <1>5, <1>7, <2>2, <2>4
  <2>6. PICK b \in Nat : b = Base(e)
    BY <1>3, CoversIff
  <2>7. b <= addr /\ addr < b + m
    <3>1. addr \in Covers(e)
      BY <1>3, CoversIff DEF e
    <3> QED BY <3>1, <2>4, <2>6 DEF Covers, M
  <2>8. n \in Nat /\ n * m \in Nat /\ m <= n * m
    <3>1. n \in Nat /\ n >= 1
      BY <1>4, <2>3
    <3>2. m * 1 <= m * n
      BY <3>1, MulMono
    <3>3. m * n = n * m /\ m * 1 = m /\ n * m \in Nat
      BY <3>1
    <3> QED BY <3>1, <3>2, <3>3
  <2>9. addr < top /\ top \in Nat
    BY <1>3, <2>5, <2>6, <2>7, <2>8
  <2>10. Base(e) + n * M(e[1]) <= IpaSize
    BY <1>3, <1>4, <2>3, AtFacts
  <2>11. ASSUME NEW p \in addr..(top - 1)
         PROVE  ~s2tte_is_live(Leaf(p))
    <3>1. top <= IpaSize /\ IpaSize \in Nat
      BY <2>4, <2>5, <2>10, WidthFacts
    <3>2. p \in Ipas
      BY <1>3, <2>9, <2>11, <3>1 DEF Ipas
    <3>3. p \in Base(e)..(Base(e) + n * M(e[1]) - 1)
      <4>1. p >= b /\ p <= top - 1 /\ p \in Nat
        BY <1>3, <2>7, <2>9, <2>11
      <4> QED BY <4>1, <2>4, <2>5, <2>6, <2>8
    <3>4. PICK k \in 0..(n - 1) : Entry(p, e[1]) = At(e, k)
      BY <1>3, <1>4, <2>3, <3>2, <3>3, AtPages
    <3>5. k \in 0..(Left(e) - 1)
      BY <1>4, <2>3
    <3>6. At(e, k) \in Entries /\ TableOf(At(e, k)) = TableOf(e)
      BY <1>3, <3>5, AtFacts
    <3>7. tte[At(e, k)].hipas # "absent"
      BY <1>1, <1>2, <1>3, <3>6, Siblings
    <3>8. IsLeaf(tte[At(e, k)]) /\ ~s2tte_is_live(tte[At(e, k)])
      BY <2>3, <3>7 DEF s2tte_is_live, IsLeaf
    <3>9. Walk(tte, p, 3) = e[1]
      BY <1>1, <1>2, <1>3, <3>2, <3>4, <3>8, WalkLeaf
    <3> QED BY <3>4, <3>8, <3>9, WalkIsWalk DEF LeafOf
  <2> QED BY <1>3, <2>9, <2>11 DEF top, e, level
<1> QED
  BY <1>6, <1>7


\* The scan for the end of a RIPAS range.
LEMMA InvAnswer ==
  ASSUME RttInv
  PROVE  RipasAnswerExact
<1>1. Tree(tte) /\ Kinds(tte)
  BY DEF RttInv
<1> SUFFICES ASSUME NEW start \in 0..(ParSize - 1), NEW end \in 1..ParSize, start < end
             PROVE  LET answer == realm_ipa_get_ripas(start, end) IN
                    /\ start < answer.top /\ answer.top <= end
                    /\ \A p \in start..(answer.top - 1) : Leaf(p).ripas = answer.ripas
  BY DEF RipasAnswerExact
<1> DEFINE level == s2tt_walk(start, S2TT_PAGE_LEVEL)
           e     == Entry(start, level)
           good  == {x \in Range(tte) : s2tte_has_ripas(x) /\ x.ripas = tte[e].ripas}
           lim   == end + M(level) - 1
           n     == Steps(Base(e), lim, level, good)
           answer == realm_ipa_get_ripas(start, end)
<1>2. start \in Par /\ start \in Ipas /\ start \in Nat /\ end \in Nat /\ end <= IpaSize /\ addr_in_par(start)
  BY ParPages DEF Par
<1>3. level \in Levels /\ IsLeaf(LeafOf(tte, start)) /\ LeafOf(tte, start) = tte[e]
  BY <1>1, <1>2, WalkIsWalk, WalkLeaf DEF S2TT_PAGE_LEVEL, LeafOf
<1>4. e \in Entries /\ e[1] = level
  BY <1>2, <1>3, EntryIn
<1>5. answer = [ripas |-> tte[e].ripas, top |-> Min({end, Base(e) + (n * M(level))})]
  BY DEF realm_ipa_get_ripas, M
<1> HIDE DEF level, good, answer
<1>6. PICK m \in Nat \ {0} : m = M(level) /\ m = M(e[1])
  BY <1>3, <1>4, SizeFacts
<1>7. start \in Covers(e)
  BY <1>2, <1>4, CoversIff DEF e
<1>8. Base(e) \in Ipas /\ Base(e) \in Nat /\ Entry(Base(e), level) = e
  BY <1>4, CoversIff
<1> HIDE DEF e
<1>9. PICK b \in Nat : b = Base(e)
  BY <1>8
<1>10. b <= start /\ start < b + m
  BY <1>6, <1>7, <1>9 DEF Covers, M
<1>11. lim \in Nat /\ Base(e) <= lim /\ Base(e) + M(level) <= lim
  BY <1>2, <1>6, <1>9, <1>10
<1> HIDE DEF lim
<1>12. tte[e] \in good
  <2>1. View(tte, start).hipas \in {"unassigned", "assigned"} /\ View(tte, start).hipas = tte[e].hipas
    BY <1>1, <1>2, <1>3, ViewKind
  <2>2. tte \in [Entries -> Tte]
    BY <1>1 DEF Tree
  <2>3. tte[e] \in Range(tte)
    BY <2>2, <1>4 DEF Range
  <2> QED BY <2>1, <2>3 DEF good, s2tte_has_ripas
<1>13. n \in 0..Left(e) /\ n >= 1 /\ \A k \in 0..(n - 1) : tte[At(e, k)] \in good
  BY <1>3, <1>8, <1>11, <1>12, StepsFacts
<1> HIDE DEF n
<1>14. Left(e) \in Nat
  BY <1>4, AtFacts, LevelFacts
<1>15. n \in Nat /\ n * m \in Nat /\ m <= n * m
  <2>1. n \in Nat
    BY <1>13, <1>14
  <2>2. m * 1 <= m * n
    BY <2>1, <1>13, MulMono
  <2>3. m * n = n * m /\ m * 1 = m /\ n * m \in Nat
    BY <2>1
  <2> QED BY <2>1, <2>2, <2>3
<1>16. PICK s \in Nat : s = Base(e) + n * M(level) /\ s = b + n * m
  BY <1>6, <1>9, <1>15
<1>17. start < s
  BY <1>2, <1>10, <1>15, <1>16
<1>18. PICK t \in {end, s} : t = Min({end, s}) /\ t <= end /\ t <= s
  <2>1. {end, s} \in SUBSET Nat /\ {end, s} # {}
    BY <1>2
  <2> QED BY <2>1, MinFacts
<1>19. answer.top = t /\ answer.ripas = tte[e].ripas /\ t \in Nat /\ start < t
  BY <1>2, <1>5, <1>16, <1>17, <1>18
<1>20. ASSUME NEW p \in start..(t - 1)
       PROVE  Leaf(p).ripas = tte[e].ripas
  <2>1. p \in Ipas /\ p \in Nat /\ b <= p /\ p <= s - 1
    <3>1. IpaSize \in Nat
      BY WidthFacts
    <3> QED BY <1>2, <1>10, <1>18, <1>19, <1>20, <3>1 DEF Ipas
  <2>2. p \in Base(e)..(Base(e) + n * M(e[1]) - 1)
    <3>1. Base(e) + n * M(e[1]) = s
      <4>1. M(e[1]) = M(level)
        BY <1>6
      <4> QED BY <4>1, <1>16
    <3>2. p \in b..(s - 1)
      BY <2>1
    <3>3. M(e[1]) \in Nat /\ n \in Nat /\ Base(e) \in Nat
      BY <1>6, <1>8, <1>15
    <3> QED BY <3>1, <3>2, <3>3, <1>9
  <2>3. PICK k \in 0..(n - 1) : Entry(p, e[1]) = At(e, k)
    BY <1>4, <1>13, <2>1, <2>2, AtPages
  <2>4. tte[At(e, k)].ripas = tte[e].ripas /\ IsLeaf(tte[At(e, k)])
    BY <1>13 DEF good, s2tte_has_ripas, IsLeaf
  <2>5. Walk(tte, p, 3) = e[1]
    BY <1>1, <1>3, <1>4, <2>1, <2>3, <2>4, WalkLeaf
  <2> QED BY <2>3, <2>4, <2>5, WalkIsWalk DEF LeafOf
<1> QED
  BY <1>18, <1>19, <1>20 DEF answer

-----------------------------------------------------------------------------
(***************************************************************************)
(* Theorems.                                                               *)
(***************************************************************************)
\* The inductive invariant holds in every state, for tables of any size and whatever the host and the
\* realm pass to the commands of rtt.c.
THEOREM RttInvariant == Spec => []RttInv
<1>1. Init => RttInv
  BY InitInv
<1>2. RttInv /\ [Next]_vars => RttInv'
  BY NextInv
<1> QED
  BY <1>1, <1>2, PTL DEF Spec

\* RTT_CREATE, RTT_FOLD, RTT_DESTROY and the data commands keep the reference count of every table equal
\* to the number of its entries that point to a granule of the realm.
THEOREM RefcountsExact == Spec => []RttRefcountsExact
<1>1. RttInv => RttRefcountsExact
  BY InvCounts
<1> QED
  BY <1>1, RttInvariant, PTL

\* Through any history of blocks split and folded, the granules in state DATA are those the tables map,
\* and no granule is behind two pages.
THEOREM DataOnce == Spec => []DataMappedOnce
<1>1. RttInv => DataMappedOnce
  BY InvData
<1> QED
  BY <1>1, RttInvariant, PTL

\* No page translation survives the command that takes the page away, changes it or folds it.
THEOREM PageTlb == Spec => []PageTlbFresh
<1>1. RttInv => PageTlbFresh
  BY InvTlb
<1> QED
  BY <1>1, RttInvariant, PTL

\* What complete_set_ripas tells a realm is done was done, page for page, or was destroyed since.
THEOREM RipasDoneHolds == Spec => []RipasDoneIsDone
<1>1. RttInv => RipasDoneIsDone
  BY InvRipas
<1> QED
  BY <1>1, RttInvariant, PTL

\* s2tt_skip_non_live_entries and realm_ipa_get_ripas stop where they must, from any address, in tables
\* of any shape.
THEOREM ScansHold == Spec => []ScansExact
<1>1. RttInv => ScansExact
  BY InvSkip, InvAnswer DEF ScansExact
<1> QED
  BY <1>1, RttInvariant, PTL


-----------------------------------------------------------------------------
(***************************************************************************)
(* The tree of tables implements the flat address space.                   *)
(***************************************************************************)
Flat == [p \in Ipas |-> PageView(p)]

LEMMA FlatViews ==
  /\ \A p \in Ipas : Flat[p] = View(tte, p) /\ Flat'[p] = View(tte', p)
  /\ DOMAIN Flat = Ipas /\ DOMAIN Flat' = Ipas
  /\ (\A p \in Ipas : View(tte', p) = View(tte, p)) => Flat' = Flat
<1>1. \A p : PageView(p) = View(tte, p)
  BY WalkIsWalk
<1>2. \A p : PageView(p)' = View(tte', p)
  BY DEF PageView, View, LeafOf, Walk, s2tt_walk, S2TT_PAGE_LEVEL, M
<1> QED
  BY <1>1, <1>2 DEF Flat


\* Steps of the abstract specification, by what they do to the views.
LEMMA AbsChanged ==
  Ipa!Changed = {p \in Ipas : View(tte', p) # View(tte, p)}
<1>1. Ipa!Changed = {p \in Ipas : Flat'[p] # Flat[p]}
  BY DEF Ipa!Changed, Ipa!Pages, Ipas, Flat
<1> QED
  BY <1>1, FlatViews

LEMMA AbsStutter ==
  ASSUME \A p \in Ipas : View(tte', p) = View(tte, p), UNCHANGED <<state, running, req>>
  PROVE  UNCHANGED Ipa!vars
<1>1. Flat' = Flat
  BY FlatViews
<1> QED
  BY <1>1 DEF Ipa!vars, Flat

LEMMA AbsDiscard ==
  ASSUME \A p \in Ipas :
           \/ View(tte', p) = View(tte, p)
           \/ /\ addr_in_par(p) /\ View(tte, p).hipas = "unassigned"
              /\ View(tte', p) = unassigned("destroyed")
           \/ ~addr_in_par(p) /\ View(tte', p) = unassigned_ns,
         UNCHANGED <<state, running, req>>
  PROVE  Ipa!Discard(Ipa!Changed)
<1> SUFFICES ASSUME NEW p \in Ipa!Changed
             PROVE  IF p \in Ipa!Protected
                    THEN /\ Flat[p].hipas = "unassigned"
                         /\ Flat'[p] = Ipa!NoMapping("unassigned", "destroyed")
                    ELSE Flat'[p] = Ipa!NoMapping("unassigned_ns", "empty")
  BY DEF Ipa!Discard, Flat
<1>1. p \in Ipas /\ View(tte', p) # View(tte, p) /\ Flat[p] = View(tte, p) /\ Flat'[p] = View(tte', p)
  BY AbsChanged, FlatViews
<1>2. p \in Ipa!Protected <=> addr_in_par(p)
  BY <1>1, ParPages DEF Ipa!Protected, Par
<1> QED
  BY <1>1, <1>2 DEF Ipa!NoMapping, unassigned, unassigned_ns, S2tte


LEMMA AbsPopulate ==
  ASSUME \A p \in Ipas :
           \/ View(tte', p) = View(tte, p)
           \/ View(tte, p) = unassigned("empty") /\ View(tte', p) = unassigned("ram"),
         state = "NEW", UNCHANGED <<state, running, req>>
  PROVE  Ipa!Populate(Ipa!Changed)
<1> SUFFICES ASSUME NEW p \in Ipa!Changed
             PROVE  /\ Flat[p] = Ipa!NoMapping("unassigned", "empty")
                    /\ Flat'[p] = Ipa!NoMapping("unassigned", "ram")
  BY DEF Ipa!Populate, Flat
<1>1. p \in Ipas /\ View(tte', p) # View(tte, p) /\ Flat[p] = View(tte, p) /\ Flat'[p] = View(tte', p)
  BY AbsChanged, FlatViews
<1> QED
  BY <1>1 DEF Ipa!NoMapping, unassigned, S2tte

LEMMA AbsMapNs ==
  ASSUME RttInv, NEW a \in NsArgs, smc_rtt_map_unprotected(a)
  PROVE  Ipa!MapNs(Ipa!Changed)
<1>1. PICK e \in Entries : e = Entry(a.addr, a.level)
  BY MapStep
<1>2. /\ \A p \in Ipas :
           IF Entry(p, e[1]) = e
           THEN /\ ~addr_in_par(p) /\ View(tte, p).hipas = "unassigned_ns"
                /\ View(tte', p).hipas = "assigned_ns"
                /\ View(tte', p).pa = a.pa + (p - Base(e)) /\ View(tte', p).attr = a.attr
           ELSE View(tte', p) = View(tte, p)
      /\ UNCHANGED <<data, state, running, req>>
  BY <1>1, MapStep
<1>3. Base(e) \in Nat /\ a.pa \in Nat
  BY CoversIff, RttAssumption
<1>4. ASSUME NEW p \in Ipa!Changed
      PROVE  /\ p \in Int /\ Flat[p].hipas = "unassigned_ns" /\ Flat'[p].hipas = "assigned_ns"
             /\ Flat'[p].pa - p = a.pa - Base(e) /\ Flat'[p].attr = a.attr
  <2>1. p \in Ipas /\ View(tte', p) # View(tte, p) /\ Flat[p] = View(tte, p) /\ Flat'[p] = View(tte', p)
    BY AbsChanged, FlatViews
  <2>2. p \in Int
    BY <2>1 DEF Ipas
  <2>3. View(tte', p).pa = a.pa + (p - Base(e)) /\ View(tte, p).hipas = "unassigned_ns"
        /\ View(tte', p).hipas = "assigned_ns" /\ View(tte', p).attr = a.attr
    BY <1>2, <2>1
  <2> QED BY <2>1, <2>2, <2>3, <1>3
<1>5. \A p \in Ipa!Changed : Flat[p].hipas = "unassigned_ns" /\ Flat'[p].hipas = "assigned_ns"
  BY <1>4
<1>6. \A p, q \in Ipa!Changed : Flat'[p].pa - p = Flat'[q].pa - q /\ Flat'[p].attr = Flat'[q].attr
  BY <1>4
<1> QED
  BY <1>2, <1>5, <1>6 DEF Ipa!MapNs, Flat

LEMMA AbsGive ==
  ASSUME RttInv, NEW a \in DataArgs, NEW r \in Ripas, data_create(a, r),
         (state = "NEW" /\ r = "ram") \/ r = Page(a.addr).ripas
  PROVE  a.addr \in Ipa!Changed /\ Ipa!Give(Ipa!Changed, a.addr)
<1>1. /\ a.addr \in Ipas /\ addr_in_par(a.addr)
      /\ View(tte, a.addr).hipas = "unassigned" /\ View(tte', a.addr) = assigned(r, a.pa)
      /\ Page(a.addr).ripas = View(tte, a.addr).ripas
      /\ \A p \in Ipas : p # a.addr => View(tte', p) = View(tte, p)
      /\ a.pa \notin data
      /\ UNCHANGED <<state, running, req>>
  BY DataCreateStep
<1>2. View(tte', a.addr).hipas = "assigned" /\ View(tte', a.addr).ripas = r /\ View(tte', a.addr).pa = a.pa
  BY <1>1 DEF assigned, S2tte
<1>3. Ipa!Changed = {a.addr}
  BY <1>1, <1>2, AbsChanged
<1>4. ASSUME NEW q \in Ipa!Protected, Flat[q].hipas = "assigned"
      PROVE  Flat[q].pa # a.pa
  <2>1. q \in Par /\ q \in Ipas
    BY ParPages DEF Ipa!Protected, Par
  <2>2. q \in Backed(tte) /\ Flat[q] = View(tte, q)
    BY <1>4, <2>1, FlatViews DEF Backed
  <2>3. DataExact(tte, data)
    BY DEF RttInv
  <2> QED BY <2>2, <2>3, <1>1 DEF DataExact
<1>5. /\ Flat[a.addr].hipas = "unassigned" /\ Flat'[a.addr].hipas = "assigned"
      /\ Flat'[a.addr].ripas \in {Flat[a.addr].ripas} \cup (IF state = "NEW" THEN {"ram"} ELSE {})
      /\ Flat'[a.addr].pa = a.pa
  BY <1>1, <1>2, FlatViews
<1> QED
  BY <1>1, <1>3, <1>4, <1>5 DEF Ipa!Give, Flat

LEMMA AbsTake ==
  ASSUME RttInv, NEW addr \in Ipas, smc_data_destroy(addr)
  PROVE  addr \in Ipa!Changed /\ Ipa!Take(Ipa!Changed, addr)
<1>1. /\ View(tte, addr).hipas = "assigned"
      /\ View(tte', addr) = unassigned(IF View(tte, addr).ripas = "ram" THEN "destroyed"
                                       ELSE View(tte, addr).ripas)
      /\ \A p \in Ipas : p # addr => View(tte', p) = View(tte, p)
      /\ UNCHANGED <<state, running, req>>
  BY DataDestroyStep
<1>2. View(tte', addr).hipas = "unassigned"
  BY <1>1 DEF unassigned, S2tte
<1>3. Ipa!Changed = {addr}
  BY <1>1, <1>2, AbsChanged
<1>4. \A r : Ipa!NoMapping("unassigned", r) = unassigned(r)
  BY DEF Ipa!NoMapping, unassigned, S2tte
<1>5. /\ Flat[addr].hipas = "assigned"
      /\ Flat'[addr] = Ipa!NoMapping("unassigned", IF Flat[addr].ripas = "ram" THEN "destroyed" ELSE Flat[addr].ripas)
  BY <1>1, <1>4, FlatViews
<1> QED
  BY <1>1, <1>3, <1>5 DEF Ipa!Take, Flat

LEMMA AbsChange ==
  ASSUME RttInv, NEW base \in Ipas, NEW top \in Ipas, smc_rtt_set_ripas(base, top)
  PROVE  Ipa!ChangeRipas(Ipa!Changed)
<1>1. /\ ~running /\ req' = [req EXCEPT !.addr = req'.addr]
      /\ req'.addr \in Nat /\ req.addr < req'.addr /\ req'.addr <= req.top
      /\ \A p \in Ipas :
           IF p \in req.addr..(req'.addr - 1)
           THEN /\ View(tte, p).ripas = "destroyed" => req.change_destroyed
                /\ View(tte', p) = [View(tte, p) EXCEPT !.ripas = req.ripas]
           ELSE View(tte', p) = View(tte, p)
      /\ UNCHANGED <<data, state, running>>
  BY SetRipasStep
<1>2. req.top <= ParSize /\ req.top \in Nat /\ req.addr \in Nat
  BY DEF RttInv, ReqOK, Requests
<1>3. \A p \in req.addr..(req'.addr - 1) : p \in Ipas
  BY <1>1, <1>2, ParPages DEF Ipas
<1>4. Ipa!Changed \subseteq req.addr..(req'.addr - 1)
  BY <1>1, AbsChanged
<1>5. \A p \in req.addr..(req'.addr - 1) :
        /\ Flat[p].ripas = "destroyed" => req.change_destroyed
        /\ Flat'[p] = [Flat[p] EXCEPT !.ripas = req.ripas]
  BY <1>1, <1>3, FlatViews
<1> QED
  BY <1>1, <1>4, <1>5 DEF Ipa!ChangeRipas, Flat

\* The steps that leave the tables alone.
LEMMA AbsRealm ==
  ASSUME RttInv, UNCHANGED tte,
         \/ \E a \in RipasArgs : handle_rsi_ipa_state_set(a)
         \/ smc_rec_enter \/ RecExit \/ smc_realm_activate
  PROVE  Ipa!Ask \/ Ipa!Enter \/ Ipa!Leave \/ Ipa!Activate
<1>1. Flat' = Flat
  BY FlatViews
<1>2. CASE \E a \in RipasArgs : handle_rsi_ipa_state_set(a)
  <2>1. PICK a \in RipasArgs : handle_rsi_ipa_state_set(a)
    BY <1>2
  <2>2. /\ req'.base < req'.top /\ req'.top <= ParSize /\ req'.addr = req'.base /\ req'.ripas # "destroyed"
        /\ running /\ ~running' /\ UNCHANGED state
    BY <2>1 DEF handle_rsi_ipa_state_set
  <2>3. Ipa!Ask
    BY <2>2, <1>1 DEF Ipa!Ask, Flat
  <2> QED BY <2>3
<1>3. CASE smc_rec_enter
  <2>1. req' = [req EXCEPT !.base = 0, !.top = 0]
    BY <1>3, EnterInv
  <2>2. Ipa!Enter
    BY <1>1, <1>3, <2>1 DEF smc_rec_enter, Ipa!Enter, Flat
  <2> QED BY <2>2
<1>4. CASE RecExit
  <2>1. Ipa!Leave
    BY <1>1, <1>4 DEF RecExit, Ipa!Leave, Flat
  <2> QED BY <2>1
<1>5. CASE smc_realm_activate
  <2>1. Ipa!Activate
    BY <1>1, <1>5 DEF smc_realm_activate, Ipa!Activate, Flat
  <2> QED BY <2>1
<1> QED
  BY <1>2, <1>3, <1>4, <1>5

LEMMA AbsInit ==
  ASSUME Init
  PROVE  Ipa!Init
<1>1. \A p \in Ipas : View(tte, p) = IF addr_in_par(p) THEN unassigned("empty") ELSE unassigned_ns
  BY InitInv
<1>2. \A p \in Ipas : p \in Ipa!Protected <=> addr_in_par(p)
  BY ParPages DEF Ipa!Protected, Par
<1>3. \A p \in Ipas : PageView(p) = Ipa!NoMapping(IF p \in Ipa!Protected THEN "unassigned" ELSE "unassigned_ns", "empty")
  BY <1>1, <1>2, WalkIsWalk DEF Ipa!NoMapping, unassigned, unassigned_ns, S2tte
<1>4. Flat = [p \in Ipas |-> Ipa!NoMapping(IF p \in Ipa!Protected THEN "unassigned" ELSE "unassigned_ns", "empty")]
  BY <1>3 DEF Flat
<1>5. state = "NEW" /\ running = FALSE /\ req = Ipa!NoRequest
  BY DEF Init, NoRequest, Ipa!NoRequest
<1> QED
  BY <1>4, <1>5 DEF Ipa!Init, Ipa!Pages, Ipas, Flat

LEMMA AbsNext ==
  ASSUME RttInv, [Next]_vars
  PROVE  [Ipa!Next]_(Ipa!vars)
<1>0. ASSUME UNCHANGED tte, UNCHANGED <<state, running, req>>
      PROVE  UNCHANGED Ipa!vars
  BY <1>0, AbsStutter
<1>1. ASSUME NEW a \in RttArgs, smc_rtt_create(a.addr, a.level) \/ smc_rtt_fold(a.addr, a.level)
      PROVE  UNCHANGED Ipa!vars
  <2>1. (\A p \in Ipas : View(tte', p) = View(tte, p)) /\ UNCHANGED <<state, running, req>>
    BY <1>1, CreateStep, FoldStep
  <2> QED BY <2>1, AbsStutter
<1>2. ASSUME NEW a \in RttArgs, smc_rtt_destroy(a.addr, a.level)
      PROVE  Ipa!Next
  <2>1. Ipa!Discard(Ipa!Changed)
    <3>1. /\ \A p \in Ipas :
               \/ View(tte', p) = View(tte, p)
               \/ /\ addr_in_par(p) /\ View(tte, p).hipas = "unassigned"
                  /\ View(tte', p) = unassigned("destroyed")
               \/ ~addr_in_par(p) /\ View(tte', p) = unassigned_ns
          /\ UNCHANGED <<data, state, running, req>>
      BY <1>2, DestroyStep
    <3> QED BY <3>1, AbsDiscard
  <2> QED BY <2>1 DEF Ipa!Next
<1>3. ASSUME NEW addr \in Ipas, NEW level \in Levels, smc_rtt_unmap_unprotected(addr, level)
      PROVE  Ipa!Next
  <2>1. Ipa!Discard(Ipa!Changed)
    <3>1. /\ \A p \in Ipas : \/ View(tte', p) = View(tte, p)
                             \/ ~addr_in_par(p) /\ View(tte', p) = unassigned_ns
          /\ UNCHANGED <<data, state, running, req>>
      BY <1>3, UnmapStep
    <3> QED BY <3>1, AbsDiscard
  <2> QED BY <2>1 DEF Ipa!Next
<1>4. ASSUME NEW a \in NsArgs, smc_rtt_map_unprotected(a)
      PROVE  Ipa!Next
  <2>1. Ipa!MapNs(Ipa!Changed)
    BY <1>4, AbsMapNs
  <2> QED BY <2>1 DEF Ipa!Next
<1>5. ASSUME NEW a \in DataArgs, smc_data_create(a) \/ smc_data_create_unknown(a)
      PROVE  Ipa!Next
  <2>1. PICK r \in Ripas : data_create(a, r) /\ ((state = "NEW" /\ r = "ram") \/ r = Page(a.addr).ripas)
    <3>1. CASE smc_data_create(a)
      BY <3>1 DEF smc_data_create, validate_data_create, Ripas
    <3>2. CASE smc_data_create_unknown(a)
      <4>1. data_create(a, Page(a.addr).ripas) /\ Tree(tte)
        BY <3>2 DEF smc_data_create_unknown, RttInv
      <4>2. Page(a.addr).ripas \in Ripas
        BY <4>1, PageRipas
      <4> QED BY <4>1, <4>2
    <3> QED BY <1>5, <3>1, <3>2
  <2>2. a.addr \in Ipa!Changed /\ Ipa!Give(Ipa!Changed, a.addr)
    BY <2>1, AbsGive
  <2> QED BY <2>2 DEF Ipa!Next
<1>6. ASSUME NEW addr \in Ipas, smc_data_destroy(addr)
      PROVE  Ipa!Next
  <2>1. addr \in Ipa!Changed /\ Ipa!Take(Ipa!Changed, addr)
    BY <1>6, AbsTake
  <2> QED BY <2>1 DEF Ipa!Next
<1>7. ASSUME NEW a \in InitArgs, smc_rtt_init_ripas(a)
      PROVE  Ipa!Next
  <2>1. Ipa!Populate(Ipa!Changed)
    BY <1>7, InitRipasStep, AbsPopulate
  <2> QED BY <2>1 DEF Ipa!Next
<1>8. ASSUME NEW base \in Ipas, NEW top \in Ipas, smc_rtt_set_ripas(base, top)
      PROVE  Ipa!Next
  <2>1. Ipa!ChangeRipas(Ipa!Changed)
    BY <1>8, AbsChange
  <2> QED BY <2>1 DEF Ipa!Next
<1>9. ASSUME \/ \E a \in RipasArgs : handle_rsi_ipa_state_set(a)
             \/ smc_rec_enter \/ RecExit \/ smc_realm_activate
      PROVE  Ipa!Next
  <2>1. UNCHANGED tte
    BY <1>9 DEF handle_rsi_ipa_state_set, smc_rec_enter, RecExit, smc_realm_activate
  <2>2. Ipa!Ask \/ Ipa!Enter \/ Ipa!Leave \/ Ipa!Activate
    BY <1>9, <2>1, AbsRealm
  <2> QED BY <2>2 DEF Ipa!Next
<1>10. ASSUME (\E e \in Entries : TlbFill(e)) \/ TlbEvict \/ UNCHANGED vars
       PROVE  UNCHANGED Ipa!vars
  <2>1. UNCHANGED tte /\ UNCHANGED <<state, running, req>>
    BY <1>10 DEF TlbFill, TlbEvict, vars
  <2> QED BY <2>1, <1>0
<1> QED
  BY <1>1, <1>2, <1>3, <1>4, <1>5, <1>6, <1>7, <1>8, <1>9, <1>10 DEF Next

\* The tree of tables implements the flat address space of RealmIpa: to realm and host, RTT_CREATE and
\* RTT_FOLD change nothing, and every other command does to each page only what RealmIpa allows.
THEOREM RttImplementsRealmIpa == Spec => ImplementsRealmIpa
<1>1. Init => Ipa!Init
  BY AbsInit
<1>2. RttInv /\ [Next]_vars => [Ipa!Next]_(Ipa!vars)
  BY AbsNext
<1> QED
  BY <1>1, <1>2, RttInvariant, PTL DEF Spec, ImplementsRealmIpa, Ipa!Spec

=============================================================================
