----------------------------- MODULE AptProofs -----------------------------
(***************************************************************************)
(* The packed lists of the access permission table are exact, and borrowed *)
(* regions are disjoint from all others, for every table size, address     *)
(* width and set of requests.                                              *)
(***************************************************************************)
EXTENDS Apt, FiniteSetTheorems, TLAPS

\* The type of a region record without the bound on share_count.
Shape ==
  [id : AptRegion \cup {NoId}, base : 0..(AddressSpace - 1), size : 0..(AddressSpace - 1),
   share_count : Int, shares : [ShareSlots -> SlaveId \cup {NoId}]]

Types ==
  /\ used \in [Kinds -> SUBSET Slots]
  /\ enabled \in [Kinds -> SUBSET Slots]
  /\ len \in [Kinds -> 0..MaxRegions]
  /\ index \in [Kinds -> [Slots -> Slots]]
  /\ pos \in [Kinds -> [Slots -> Slots]]
  /\ region \in [Kinds -> [Slots -> Shape]]

(***************************************************************************)
(* The inductive invariant.  Disjointness needs the packed lists, because  *)
(* the conflict check sees only what they list; a used region is never     *)
(* empty, because an empty range would pass every check.                   *)
(***************************************************************************)
NonEmpty == \A k \in Kinds : \A i \in used[k] : region[k][i].size # 0

IInv == Types /\ PackedListExact /\ SlaveRegionsDisjoint /\ NonEmpty

-----------------------------------------------------------------------------
\* A list that does not hold every slot is not full: enable_push_* stays in its array.
LEMMA ListNotFull ==
  ASSUME NEW en \in SUBSET Slots, NEW n \in 0..MaxRegions,
         NEW ix \in [Slots -> Slots], NEW ps \in [Slots -> Slots],
         Packed(en, n, ix, ps), NEW i \in Slots \ en
  PROVE  n \in Slots
<1> USE AptAssumption
<1>1. SUFFICES ASSUME n = MaxRegions PROVE FALSE
  BY DEF Slots
<1>2. IsFiniteSet(Slots) /\ Cardinality(Slots) = MaxRegions
  <2>1. 0 \in Int /\ MaxRegions - 1 \in Int /\ 0 <= MaxRegions - 1
    OBVIOUS
  <2>2. Cardinality(Slots) = (MaxRegions - 1) - 0 + 1
    BY <2>1, FS_Interval DEF Slots
  <2> QED BY <2>1, <2>2, FS_Interval DEF Slots
<1>3. IsFiniteSet(Slots \ {i}) /\ Cardinality(Slots \ {i}) = MaxRegions - 1
  BY <1>2, FS_RemoveElement
<1>4. ix \in [Slots -> Slots \ {i}]
  BY <1>1 DEF Packed, Slots
<1>5. \E x, y \in Slots : x # y /\ ix[x] = ix[y]
  BY <1>2, <1>3, <1>4, FS_PigeonHole
<1> QED BY <1>1, <1>5 DEF Packed, Slots

\* enable_push_* keeps list and inverse together.
LEMMA PushPacked ==
  ASSUME NEW en \in SUBSET Slots, NEW n \in 0..MaxRegions,
         NEW ix \in [Slots -> Slots], NEW ps \in [Slots -> Slots],
         Packed(en, n, ix, ps), NEW i \in Slots \ en
  PROVE  Packed(en \cup {i}, n + 1, [ix EXCEPT ![n] = i], [ps EXCEPT ![i] = n])
<1> USE AptAssumption
<1>1. n \in Slots
  BY ListNotFull
<1> DEFINE jx == [ix EXCEPT ![n] = i]
           qs == [ps EXCEPT ![i] = n]
<1>a. /\ \A e \in en : ps[e] \in 0..(n - 1) /\ ix[ps[e]] = e
      /\ \A p \in 0..(n - 1) : ix[p] \in en /\ ps[ix[p]] = p
  BY DEF Packed, Slots
<1>b. /\ jx \in [Slots -> Slots] /\ qs \in [Slots -> Slots]
      /\ \A p \in Slots : jx[p] = IF p = n THEN i ELSE ix[p]
      /\ \A e \in Slots : qs[e] = IF e = i THEN n ELSE ps[e]
      /\ 0..(n - 1) \subseteq Slots
  <2>1. jx \in [Slots -> Slots] /\ qs \in [Slots -> Slots]
    BY <1>1
  <2>2. /\ \A p \in Slots : jx[p] = IF p = n THEN i ELSE ix[p]
        /\ \A e \in Slots : qs[e] = IF e = i THEN n ELSE ps[e]
    BY <1>1
  <2>3. 0..(n - 1) \subseteq Slots
    BY DEF Slots
  <2> QED BY <2>1, <2>2, <2>3
<1>2. ASSUME NEW e \in en \cup {i}
      PROVE  qs[e] < n + 1 /\ jx[qs[e]] = e
  <2>1. CASE e = i
    BY <1>1, <1>b, <2>1
  <2>2. CASE e # i
    <3>1. e \in en /\ qs[e] = ps[e] /\ ps[e] \in 0..(n - 1) /\ ix[ps[e]] = e
      BY <1>a, <1>b, <2>2
    <3>2. ps[e] \in Slots /\ ps[e] # n
      BY <3>1, <1>b
    <3> QED BY <3>1, <3>2, <1>b
  <2> QED BY <2>1, <2>2
<1>3. ASSUME NEW p \in 0..(n + 1 - 1)
      PROVE  jx[p] \in en \cup {i} /\ qs[jx[p]] = p
  <2>1. CASE p = n
    BY <1>1, <1>b, <2>1
  <2>2. CASE p # n
    <3>1. p \in 0..(n - 1) /\ p \in Slots
      BY <2>2, <1>b
    <3>2. jx[p] = ix[p] /\ ix[p] \in en /\ ps[ix[p]] = p /\ ix[p] # i
      BY <3>1, <2>2, <1>a, <1>b
    <3> QED BY <3>2, <1>b
  <2> QED BY <2>1, <2>2
<1> HIDE DEF jx, qs
<1>4. Packed(en \cup {i}, n + 1, jx, qs)
  BY <1>2, <1>3 DEF Packed
<1> QED BY <1>4 DEF jx, qs

\* disable_swap_pop_* keeps list and inverse together.
LEMMA PopPacked ==
  ASSUME NEW en \in SUBSET Slots, NEW n \in 0..MaxRegions,
         NEW ix \in [Slots -> Slots], NEW ps \in [Slots -> Slots],
         Packed(en, n, ix, ps), NEW i \in en
  PROVE  /\ n - 1 \in Slots
         /\ ps[i] # n - 1 =>
              Packed(en \ {i}, n - 1, [ix EXCEPT ![ps[i]] = ix[n - 1]], [ps EXCEPT ![ix[n - 1]] = ps[i]])
         /\ ps[i] = n - 1 => Packed(en \ {i}, n - 1, ix, ps)
<1> USE AptAssumption
<1>a. /\ \A e \in en : ps[e] \in 0..(n - 1) /\ ix[ps[e]] = e
      /\ \A p \in 0..(n - 1) : ix[p] \in en /\ ps[ix[p]] = p
      /\ 0..(n - 1) \subseteq Slots
  <2>1. \A e \in en : ps[e] \in Slots /\ ps[e] < n /\ ix[ps[e]] = e
    BY DEF Packed
  <2>2. \A e \in en : ps[e] \in 0..(n - 1)
    BY <2>1 DEF Slots
  <2>3. \A p \in 0..(n - 1) : ix[p] \in en /\ ps[ix[p]] = p
    BY DEF Packed
  <2>4. 0..(n - 1) \subseteq Slots
    BY DEF Slots
  <2> QED BY <2>1, <2>2, <2>3, <2>4
<1>1. n - 1 \in Slots /\ ps[i] \in 0..(n - 1)
  BY DEF Packed, Slots
<1>2. ix[n - 1] \in en /\ ps[ix[n - 1]] = n - 1 /\ ix[ps[i]] = i
  BY <1>1 DEF Packed, Slots
<1>3. ASSUME ps[i] # n - 1
      PROVE Packed(en \ {i}, n - 1, [ix EXCEPT ![ps[i]] = ix[n - 1]], [ps EXCEPT ![ix[n - 1]] = ps[i]])
  <2> DEFINE jx == [ix EXCEPT ![ps[i]] = ix[n - 1]]
             qs == [ps EXCEPT ![ix[n - 1]] = ps[i]]
  <2>a. /\ \A p \in Slots : jx[p] = IF p = ps[i] THEN ix[n - 1] ELSE ix[p]
        /\ \A e \in Slots : qs[e] = IF e = ix[n - 1] THEN ps[i] ELSE ps[e]
    BY <1>1, <1>2
  <2>b. ix[n - 1] # i
    BY <1>2, <1>3
  <2>1. ASSUME NEW e \in en \ {i}
        PROVE  qs[e] < n - 1 /\ jx[qs[e]] = e
    <3>0. ps[e] \in 0..(n - 1) /\ ix[ps[e]] = e /\ ps[e] # ps[i]
      BY <1>a, <1>2
    <3>1. CASE e = ix[n - 1]
      BY <3>1, <2>a, <1>1, <1>3, <1>a
    <3>2. CASE e # ix[n - 1]
      <4>1. qs[e] = ps[e]
        BY <3>2, <2>a
      <4>2. ps[e] # n - 1
        BY <3>0, <3>2
      <4> QED BY <4>1, <4>2, <3>0, <2>a, <1>a
    <3> QED BY <3>1, <3>2
  <2>2. ASSUME NEW p \in 0..(n - 1 - 1)
        PROVE  jx[p] \in en \ {i} /\ qs[jx[p]] = p
    <3>0. p \in 0..(n - 1) /\ p # n - 1 /\ p \in Slots /\ ix[p] \in en /\ ps[ix[p]] = p
      BY <1>a
    <3>1. CASE p = ps[i]
      BY <3>1, <3>0, <2>a, <2>b, <1>2
    <3>2. CASE p # ps[i]
      <4>1. jx[p] = ix[p] /\ ix[p] # i /\ ix[p] # ix[n - 1]
        BY <3>0, <3>2, <2>a, <1>2
      <4> QED BY <4>1, <3>0, <2>a
    <3> QED BY <3>1, <3>2
  <2> HIDE DEF jx, qs
  <2>3. Packed(en \ {i}, n - 1, jx, qs)
    BY <2>1, <2>2 DEF Packed
  <2> QED BY <2>3 DEF jx, qs
<1>4. ASSUME ps[i] = n - 1
      PROVE Packed(en \ {i}, n - 1, ix, ps)
  <2>1. ASSUME NEW e \in en \ {i}
        PROVE  ps[e] < n - 1 /\ ix[ps[e]] = e
    <3>1. ps[e] \in 0..(n - 1) /\ ix[ps[e]] = e /\ ps[e] # ps[i]
      BY <1>a, <1>2
    <3> QED BY <3>1, <1>4
  <2>2. ASSUME NEW p \in 0..(n - 1 - 1)
        PROVE  ix[p] \in en \ {i} /\ ps[ix[p]] = p
    <3>1. p \in 0..(n - 1) /\ p # n - 1 /\ ix[p] \in en /\ ps[ix[p]] = p
      BY <1>a
    <3> QED BY <3>1, <1>4
  <2> QED BY <2>1, <2>2 DEF Packed
<1> QED BY <1>1, <1>3, <1>4

-----------------------------------------------------------------------------
\* What a realm may ask for.
LEMMA RequestType ==
  ASSUME NEW r \in Request
  PROVE  r.base \in 0..(AddressSpace - 1) /\ r.size \in 1..(AddressSpace - 1)
<1>1. Request \subseteq [base : 0..(AddressSpace - 1), size : 1..(AddressSpace - 1)]
  BY AptAssumption, Zenon
<1>2. r \in [base : 0..(AddressSpace - 1), size : 1..(AddressSpace - 1)]
  BY <1>1, Zenon
<1> QED BY <1>2

\* An accepted range is disjoint from every region the conflict check looks at.
LEMMA NoConflictDisjoint ==
  ASSUME IInv, NEW r \in Request, NEW skip \in BOOLEAN, ~apt_find_enabled_conflict(r, skip),
         NEW k \in Kinds, k = "master" => ~skip, NEW i \in used[k]
  PROVE  Disjoint(r, region[k][i]) /\ Disjoint(region[k][i], r)
<1> DEFINE p == pos[k][i]
<1>0. /\ i \in enabled[k] /\ i \in Slots /\ len[k] \in 0..MaxRegions
      /\ pos[k] \in [Slots -> Slots]
      /\ Packed(enabled[k], len[k], index[k], pos[k])
  BY DEF IInv, Types, PackedListExact
<1>1. p \in 0..(len[k] - 1) /\ index[k][p] = i
  <2>1. p < len[k] /\ index[k][p] = i
    BY <1>0 DEF Packed
  <2>2. p \in Slots
    BY <1>0
  <2> HIDE DEF p
  <2>3. p \in Int /\ 0 <= p /\ len[k] \in Int
    BY <2>2, <1>0, AptAssumption DEF Slots
  <2> QED BY <2>1, <2>3
<1>2. ~range_overlaps_ul(r.base, r.size, region[k][i].base, region[k][i].size)
  BY <1>1 DEF apt_find_enabled_conflict
<1>3. /\ r.base \in 0..(AddressSpace - 1) /\ r.size \in 1..(AddressSpace - 1)
      /\ AddressSpace \in Nat
  BY RequestType, AptAssumption
<1>4. /\ region[k][i].base \in 0..(AddressSpace - 1)
      /\ region[k][i].size \in 0..(AddressSpace - 1)
      /\ region[k][i].size # 0
  BY DEF IInv, Types, Shape, NonEmpty
<1> QED BY <1>2, <1>3, <1>4 DEF range_overlaps_ul, Wrapped, Disjoint

\* apt_add_master and apt_add_slave.
LEMMA AddPreserves ==
  ASSUME IInv, NEW k \in Kinds, NEW id \in AptRegion, NEW r \in Request, apt_add(k, id, r),
         \A h \in Kinds : (k = "slave" \/ h = "slave") => \A j \in used[h] :
           Disjoint(r, region[h][j]) /\ Disjoint(region[h][j], r)
  PROVE  IInv'
<1> USE AptAssumption
<1>1. PICK i \in Slots :
        /\ first_free_from_mask(k, i)
        /\ region' = [region EXCEPT ![k][i] =
                        [id |-> id, base |-> r.base, size |-> r.size, share_count |-> 0, shares |-> NoShares]]
        /\ used' = [used EXCEPT ![k] = @ \cup {i}]
        /\ IF i \in enabled[k] THEN UNCHANGED <<enabled, len, index, pos>> ELSE enable_push(k, i)
  BY DEF apt_add
<1>2. i \in Slots \ enabled[k] /\ i \notin used[k]
  BY <1>1 DEF first_free_from_mask, IInv, PackedListExact
<1>3. enable_push(k, i)
  BY <1>1, <1>2
<1>4. /\ enabled[k] \in SUBSET Slots /\ len[k] \in 0..MaxRegions
      /\ index[k] \in [Slots -> Slots] /\ pos[k] \in [Slots -> Slots]
      /\ Packed(enabled[k], len[k], index[k], pos[k])
  BY DEF IInv, Types, PackedListExact
<1>5. /\ len[k] \in Slots
      /\ Packed(enabled[k] \cup {i}, len[k] + 1, [index[k] EXCEPT ![len[k]] = i], [pos[k] EXCEPT ![i] = len[k]])
  BY <1>2, <1>4, ListNotFull, PushPacked
<1>6. [id |-> id, base |-> r.base, size |-> r.size, share_count |-> 0, shares |-> NoShares] \in Shape
  <2>1. r.base \in 0..(AddressSpace - 1) /\ r.size \in 0..(AddressSpace - 1)
    BY RequestType
  <2>2. NoShares \in [ShareSlots -> SlaveId \cup {NoId}]
    BY DEF NoShares
  <2> QED BY <2>1, <2>2 DEF Shape
<1>7. Types'
  <2>1. used' \in [Kinds -> SUBSET Slots]
    BY <1>1 DEF IInv, Types
  <2>2. enabled' \in [Kinds -> SUBSET Slots]
    BY <1>3, <1>2 DEF enable_push, IInv, Types
  <2>3. len' \in [Kinds -> 0..MaxRegions]
    <3>1. len[k] + 1 \in 0..MaxRegions
      BY <1>5 DEF Slots
    <3> QED BY <1>3, <3>1 DEF enable_push, IInv, Types
  <2>4. index' \in [Kinds -> [Slots -> Slots]]
    BY <1>3, <1>5 DEF enable_push, IInv, Types
  <2>5. pos' \in [Kinds -> [Slots -> Slots]]
    BY <1>3, <1>5 DEF enable_push, IInv, Types
  <2>6. region' \in [Kinds -> [Slots -> Shape]]
    BY <1>1, <1>6 DEF IInv, Types
  <2> QED BY <2>1, <2>2, <2>3, <2>4, <2>5, <2>6 DEF Types
<1>8. PackedListExact'
  <2> SUFFICES ASSUME NEW h \in Kinds
               PROVE (enabled[h])' = (used[h])' /\ Packed(enabled'[h], len'[h], index'[h], pos'[h])
    BY DEF PackedListExact
  <2>1. CASE h = k
    <3>1. /\ enabled'[k] = enabled[k] \cup {i} /\ len'[k] = len[k] + 1
          /\ index'[k] = [index[k] EXCEPT ![len[k]] = i]
          /\ pos'[k] = [pos[k] EXCEPT ![i] = len[k]]
      BY <1>3 DEF enable_push, IInv, Types
    <3>2. used'[k] = used[k] \cup {i}
      BY <1>1 DEF IInv, Types
    <3> QED BY <2>1, <3>1, <3>2, <1>5 DEF IInv, PackedListExact
  <2>2. CASE h # k
    <3>1. /\ enabled'[h] = enabled[h] /\ len'[h] = len[h] /\ index'[h] = index[h]
          /\ pos'[h] = pos[h] /\ used'[h] = used[h]
      BY <1>1, <1>3, <2>2 DEF enable_push, IInv, Types
    <3> QED BY <3>1 DEF IInv, PackedListExact
  <2> QED BY <2>1, <2>2
<1>9. \A h \in Kinds : \A j \in used'[h] :
        IF h = k /\ j = i
        THEN region'[h][j].base = r.base /\ region'[h][j].size = r.size
        ELSE j \in used[h] /\ region'[h][j] = region[h][j]
  BY <1>1 DEF IInv, Types
<1>10. NonEmpty'
  <2>1. r.size # 0
    BY RequestType
  <2> QED BY <1>9, <2>1 DEF IInv, NonEmpty
<1>11. SlaveRegionsDisjoint'
  BY <1>9 DEF IInv, SlaveRegionsDisjoint, Disjoint, Kinds
<1> QED BY <1>7, <1>8, <1>10, <1>11 DEF IInv

\* RemoveSlot: a slot leaves the table.
LEMMA RemovePreserves ==
  ASSUME IInv, NEW k \in Kinds, NEW i \in used[k], NEW zero \in BOOLEAN, RemoveSlot(k, i, zero)
  PROVE  IInv'
<1> USE AptAssumption
<1>1. i \in enabled[k] /\ i \in Slots /\ disable_swap_pop(k, i)
  BY DEF RemoveSlot, IInv, Types, PackedListExact
<1>2. /\ used' = [used EXCEPT ![k] = @ \ {i}]
      /\ region' = IF zero THEN [region EXCEPT ![k][i] = Cleared] ELSE region
  BY DEF RemoveSlot
<1>3. /\ enabled[k] \in SUBSET Slots /\ len[k] \in 0..MaxRegions
      /\ index[k] \in [Slots -> Slots] /\ pos[k] \in [Slots -> Slots]
      /\ Packed(enabled[k], len[k], index[k], pos[k])
  BY DEF IInv, Types, PackedListExact
<1>4. /\ len[k] - 1 \in Slots
      /\ pos[k][i] # len[k] - 1 =>
           Packed(enabled[k] \ {i}, len[k] - 1,
                  [index[k] EXCEPT ![pos[k][i]] = index[k][len[k] - 1]],
                  [pos[k] EXCEPT ![index[k][len[k] - 1]] = pos[k][i]])
      /\ pos[k][i] = len[k] - 1 => Packed(enabled[k] \ {i}, len[k] - 1, index[k], pos[k])
  BY <1>1, <1>3, PopPacked
<1>5. pos[k][i] \in Slots /\ index[k][len[k] - 1] \in Slots
  BY <1>1, <1>3, <1>4
<1>6. Types'
  <2>1. used' \in [Kinds -> SUBSET Slots]
    BY <1>2 DEF IInv, Types
  <2>2. enabled' \in [Kinds -> SUBSET Slots]
    BY <1>1 DEF disable_swap_pop, IInv, Types
  <2>3. len' \in [Kinds -> 0..MaxRegions]
    <3>1. len[k] - 1 \in 0..MaxRegions
      BY <1>4 DEF Slots
    <3> QED BY <1>1, <3>1 DEF disable_swap_pop, IInv, Types
  <2>a. index \in [Kinds -> [Slots -> Slots]] /\ pos \in [Kinds -> [Slots -> Slots]]
    BY DEF IInv, Types
  <2>b. \/ index' = index /\ pos' = pos
        \/ /\ index' = [index EXCEPT ![k][pos[k][i]] = index[k][len[k] - 1]]
           /\ pos' = [pos EXCEPT ![k][index[k][len[k] - 1]] = pos[k][i]]
    BY <1>1 DEF disable_swap_pop
  <2> DEFINE q == pos[k][i]
             j == index[k][len[k] - 1]
  <2>c. q \in Slots /\ j \in Slots
    BY <1>5
  <2>d. \/ index' = index /\ pos' = pos
        \/ index' = [index EXCEPT ![k][q] = j] /\ pos' = [pos EXCEPT ![k][j] = q]
    BY <2>b
  <2> HIDE DEF q, j
  <2>4. index' \in [Kinds -> [Slots -> Slots]]
    BY <2>a, <2>c, <2>d
  <2>5. pos' \in [Kinds -> [Slots -> Slots]]
    <3>1. CASE pos' = pos
      BY <2>a, <3>1
    <3>2. CASE pos' = [pos EXCEPT ![k][j] = q]
      BY <2>a, <2>c, <3>2
    <3> QED BY <2>d, <3>1, <3>2
  <2>6. region' \in [Kinds -> [Slots -> Shape]]
    <3>1. Cleared \in Shape
      BY DEF Cleared, Shape, NoShares
    <3> QED BY <1>1, <1>2, <3>1 DEF IInv, Types
  <2> QED BY <2>1, <2>2, <2>3, <2>4, <2>5, <2>6 DEF Types
<1>7. PackedListExact'
  <2> SUFFICES ASSUME NEW h \in Kinds
               PROVE enabled'[h] = used'[h] /\ Packed(enabled'[h], len'[h], index'[h], pos'[h])
    BY DEF PackedListExact
  <2>1. CASE h = k
    <3>1. enabled'[k] = enabled[k] \ {i} /\ len'[k] = len[k] - 1 /\ used'[k] = used[k] \ {i}
      BY <1>1, <1>2 DEF disable_swap_pop, IInv, Types
    <3>2. CASE pos[k][i] # len[k] - 1
      <4>1. /\ index'[k] = [index[k] EXCEPT ![pos[k][i]] = index[k][len[k] - 1]]
            /\ pos'[k] = [pos[k] EXCEPT ![index[k][len[k] - 1]] = pos[k][i]]
        BY <1>1, <3>2 DEF disable_swap_pop, IInv, Types
      <4> QED BY <2>1, <3>1, <3>2, <4>1, <1>4 DEF IInv, PackedListExact
    <3>3. CASE pos[k][i] = len[k] - 1
      <4>1. index'[k] = index[k] /\ pos'[k] = pos[k]
        BY <1>1, <3>3 DEF disable_swap_pop
      <4> QED BY <2>1, <3>1, <3>3, <4>1, <1>4 DEF IInv, PackedListExact
    <3> QED BY <3>2, <3>3
  <2>2. CASE h # k
    <3>1. /\ enabled'[h] = enabled[h] /\ len'[h] = len[h] /\ index'[h] = index[h]
          /\ pos'[h] = pos[h] /\ used'[h] = used[h]
      BY <1>1, <1>2, <2>2 DEF disable_swap_pop, IInv, Types
    <3> QED BY <3>1 DEF IInv, PackedListExact
  <2> QED BY <2>1, <2>2
<1>8. \A h \in Kinds : \A j \in used'[h] : j \in used[h] /\ region'[h][j] = region[h][j]
  BY <1>1, <1>2 DEF IInv, Types
<1>9. NonEmpty'
  BY <1>8 DEF IInv, NonEmpty
<1>10. SlaveRegionsDisjoint'
  BY <1>8 DEF IInv, SlaveRegionsDisjoint, Kinds
<1> QED BY <1>6, <1>7, <1>9, <1>10 DEF IInv

\* Granting and revoking a share changes no range.
LEMMA SharePreserves ==
  ASSUME IInv, NEW i \in Slots, NEW s \in ShareSlots, NEW v \in SlaveId \cup {NoId}, NEW d \in Int,
         region' = [region EXCEPT !["master"][i] = SetShare(@, s, v, d)],
         UNCHANGED <<used, enabled, len, index, pos>>
  PROVE  IInv'
<1> DEFINE old == region["master"][i]
           new == SetShare(old, s, v, d)
<1>1. old \in Shape /\ "master" \in Kinds
  BY DEF IInv, Types, Kinds
<1>2. new \in Shape /\ new.base = old.base /\ new.size = old.size
  <2>1. [old.shares EXCEPT ![s] = v] \in [ShareSlots -> SlaveId \cup {NoId}] /\ old.share_count + d \in Int
    BY <1>1 DEF Shape
  <2> QED BY <1>1, <2>1 DEF Shape, SetShare
<1>3. region' = [region EXCEPT !["master"][i] = new]
  BY DEF IInv, Types
<1> HIDE DEF new, old
<1>4. region' \in [Kinds -> [Slots -> Shape]]
  <2>1. region \in [Kinds -> [Slots -> Shape]]
    BY DEF IInv, Types
  <2> QED BY <1>1, <1>2, <1>3, <2>1
<1>5. \A h \in Kinds : \A j \in Slots :
        region'[h][j].base = region[h][j].base /\ region'[h][j].size = region[h][j].size
  BY <1>1, <1>2, <1>3 DEF IInv, Types, old
<1>6. Types'
  BY <1>4 DEF IInv, Types
<1>7. PackedListExact'
  BY DEF IInv, PackedListExact
<1>8. NonEmpty'
  BY <1>5 DEF IInv, Types, NonEmpty
<1>9. SlaveRegionsDisjoint'
  <2>1. \A h, k \in Kinds : \A j, m \in Slots :
          Disjoint(region[h][j], region[k][m]) => Disjoint(region'[h][j], region'[k][m])
    BY <1>5 DEF Disjoint
  <2>2. used \in [Kinds -> SUBSET Slots] /\ used' = used
    BY DEF IInv, Types
  <2> QED BY <2>1, <2>2 DEF IInv, SlaveRegionsDisjoint, Kinds
<1> QED BY <1>6, <1>7, <1>8, <1>9 DEF IInv

\* The zeroed table, at start and after RMI_APT_DESTROY.
LEMMA ZeroedTable ==
  /\ AptInit => IInv
  /\ apt_reset => IInv'
<1> USE AptAssumption
<1>1. 0 \in Slots /\ 0 \in 0..MaxRegions
  BY DEF Slots
<1>2. Cleared \in Shape
  BY DEF Cleared, Shape, NoShares
<1>3. Packed({}, 0, [i \in Slots |-> 0], [i \in Slots |-> 0])
  BY DEF Packed
<1>4. AptInit => IInv
  BY <1>1, <1>2, <1>3
     DEF AptInit, IInv, Types, PackedListExact, SlaveRegionsDisjoint, NonEmpty, NoSlots, Zeroed, Kinds
<1>5. apt_reset => IInv'
  BY <1>1, <1>2, <1>3
     DEF apt_reset, IInv, Types, PackedListExact, SlaveRegionsDisjoint, NonEmpty, NoSlots, Zeroed, Kinds
<1> QED BY <1>4, <1>5

-----------------------------------------------------------------------------
\* Every operation on the table keeps the inductive invariant.
THEOREM Inductive == AptSpec => []IInv
<1>1. AptInit => IInv
  BY ZeroedTable
<1>2. IInv /\ [AptNext]_aptVars => IInv'
  <2> SUFFICES ASSUME IInv, [AptNext]_aptVars PROVE IInv'
    OBVIOUS
  <2>1. ASSUME NEW id \in AptRegion, NEW r \in Request, CsmCreate(id, r)
        PROVE  IInv'
    <3>1. ~apt_find_enabled_conflict(r, TRUE) /\ apt_add("master", id, r)
      BY <2>1 DEF CsmCreate
    <3>2. \A j \in used["slave"] : Disjoint(r, region["slave"][j]) /\ Disjoint(region["slave"][j], r)
      BY <3>1, NoConflictDisjoint DEF Kinds
    <3> QED BY <3>1, <3>2, AddPreserves DEF Kinds
  <2>2. ASSUME NEW id \in AptRegion, NEW slave \in SlaveId, CsmShare(id, slave)
        PROVE  IInv'
    <3>1. PICK i \in Slots : apt_master_add_share(i, slave)
      BY <2>2 DEF CsmShare
    <3>2. PICK s \in ShareSlots :
            region' = [region EXCEPT !["master"][i] = SetShare(@, s, slave, 1)]
      BY <3>1 DEF apt_master_add_share
    <3>3. UNCHANGED <<used, enabled, len, index, pos>> /\ 1 \in Int
      BY <2>2 DEF CsmShare
    <3> QED BY <3>2, <3>3, SharePreserves
  <2>3. ASSUME NEW id \in AptRegion, NEW slave \in SlaveId, DropShare(id, slave)
        PROVE  IInv'
    <3>1. PICK i \in Slots, s \in ShareSlots :
            region' = [region EXCEPT !["master"][i] = SetShare(@, s, NoId, -1)]
      BY <2>3 DEF DropShare
    <3>4. UNCHANGED <<used, enabled, len, index, pos>> /\ -1 \in Int
      BY <2>3 DEF DropShare
    <3> QED BY <3>1, <3>4, SharePreserves
  <2>4. ASSUME NEW id \in AptRegion, NEW r \in Request, CsmReserve(id, r)
        PROVE  IInv'
    <3>1. ~apt_find_enabled_conflict(r, FALSE) /\ apt_add("slave", id, r)
      BY <2>4 DEF CsmReserve
    <3>2. \A h \in Kinds : \A j \in used[h] : Disjoint(r, region[h][j]) /\ Disjoint(region[h][j], r)
      BY <3>1, NoConflictDisjoint
    <3> QED BY <3>1, <3>2, AddPreserves DEF Kinds
  <2>5. ASSUME NEW id \in AptRegion, NEW zero \in BOOLEAN, RemoveSlave(id, zero)
        PROVE  IInv'
    <3>1. PICK i \in Slots : FirstWithId("slave", id, i) /\ RemoveSlot("slave", i, zero)
      BY <2>5 DEF RemoveSlave
    <3>2. i \in used["slave"] /\ "slave" \in Kinds
      BY <3>1 DEF FirstWithId, Kinds
    <3> QED BY <3>1, <3>2, RemovePreserves
  <2>6. ASSUME NEW id \in AptRegion, CsmDestroy(id)
        PROVE  IInv'
    <3>1. PICK i \in Slots : FirstWithId("master", id, i) /\ RemoveSlot("master", i, TRUE)
      BY <2>6 DEF CsmDestroy
    <3>2. i \in used["master"] /\ "master" \in Kinds
      BY <3>1 DEF FirstWithId, Kinds
    <3> QED BY <3>1, <3>2, RemovePreserves
  <2>7. ASSUME AptDestroy
        PROVE  IInv'
    BY <2>7, ZeroedTable DEF AptDestroy
  <2>8. CASE UNCHANGED aptVars
    BY <2>8 DEF aptVars, IInv, Types, PackedListExact, SlaveRegionsDisjoint, NonEmpty
  <2> QED BY <2>1, <2>2, <2>3, <2>4, <2>5, <2>6, <2>7, <2>8 DEF AptNext
<1> QED BY <1>1, <1>2, PTL DEF AptSpec

\* The packed lists of enabled regions, their inverse and the masks agree in every
\* reachable table (enable_push_*, disable_swap_pop_* and their callers).
THEOREM PackedListExactAlways == AptSpec => []PackedListExact
<1>1. IInv => PackedListExact
  BY DEF IInv
<1> QED BY <1>1, Inductive, PTL

\* A borrowed region never overlaps another region of the realm (the conflict checks
\* of RSI_CSM_CREATE and RSI_CSM_RESERVE, ranges that wrap included).
THEOREM SlaveRegionsDisjointAlways == AptSpec => []SlaveRegionsDisjoint
<1>1. IInv => SlaveRegionsDisjoint
  BY DEF IInv
<1> QED BY <1>1, Inductive, PTL

-----------------------------------------------------------------------------
(***************************************************************************)
(* The shares of a region.  The invariant is about every record of the     *)
(* table, used or not: apt_add writes a whole record, and the removers     *)
(* that leave the record behind leave a slave's, which has no shares.      *)
(***************************************************************************)
Taken(shares) == {s \in ShareSlots : shares[s] # NoId}

Counted(m) ==
  /\ m.share_count = Cardinality(Taken(m.shares))
  /\ \A s, t \in ShareSlots : m.shares[s] # NoId /\ m.shares[s] = m.shares[t] => s = t

AllCounted == \A k \in Kinds : \A i \in Slots : Counted(region[k][i])

LEMMA SharesFinite ==
  ASSUME NEW sh
  PROVE  /\ IsFiniteSet(Taken(sh)) /\ Cardinality(Taken(sh)) \in 0..MaxShares
<1>1. IsFiniteSet(ShareSlots) /\ Cardinality(ShareSlots) = MaxShares
  <2>1. 1 \in Int /\ MaxShares \in Int /\ MaxShares >= 0  BY AptAssumption
  <2>2. QED  BY <2>1, FS_Interval DEF ShareSlots
<1>2. Taken(sh) \subseteq ShareSlots  BY DEF Taken
<1>3. /\ IsFiniteSet(Taken(sh)) /\ Cardinality(Taken(sh)) <= Cardinality(ShareSlots)
  BY <1>1, <1>2, FS_Subset
<1>4. Cardinality(Taken(sh)) \in Nat  BY <1>3, FS_CardinalityType
<1>5. QED  BY <1>1, <1>3, <1>4, AptAssumption

\* A record without shares, as memset and apt_add_* leave it.
LEMMA NoSharesCounted ==
  ASSUME NEW m, m.share_count = 0, m.shares = NoShares
  PROVE  Counted(m)
<1>1. Taken(NoShares) = {} /\ \A s \in ShareSlots : NoShares[s] = NoId  BY DEF Taken, NoShares
<1>2. QED  BY <1>1, FS_EmptySet DEF Counted

\* apt_master_add_share takes a free slot, for a slave that has none.
LEMMA GrantCounted ==
  ASSUME NEW m \in Shape, Counted(m), NEW s \in ShareSlots, NEW slave \in SlaveId,
         m.shares[s] = NoId, \A t \in ShareSlots : m.shares[t] # slave
  PROVE  Counted(SetShare(m, s, slave, 1))
<1> DEFINE sh == [m.shares EXCEPT ![s] = slave]
<1>0. m.shares \in [ShareSlots -> SlaveId \cup {NoId}] /\ m.share_count \in Int /\ slave # NoId
  BY AptAssumption DEF Shape
<1>1. sh[s] = slave /\ \A t \in ShareSlots : t # s => sh[t] = m.shares[t]  BY <1>0
<1>2. Taken(sh) = Taken(m.shares) \cup {s} /\ s \notin Taken(m.shares)  BY <1>0, <1>1 DEF Taken
<1>3. Cardinality(Taken(sh)) = Cardinality(Taken(m.shares)) + 1
  BY <1>2, SharesFinite, FS_AddElement
<1>4. SetShare(m, s, slave, 1).share_count = m.share_count + 1 /\ SetShare(m, s, slave, 1).shares = sh
  BY DEF SetShare
<1> HIDE DEF sh
<1>5. \A t, u \in ShareSlots : sh[t] # NoId /\ sh[t] = sh[u] => t = u
  BY <1>1, <1>0 DEF Counted
<1>6. QED  BY <1>3, <1>4, <1>5 DEF Counted

\* Revoking a share clears the slave's only slot.
LEMMA RevokeCounted ==
  ASSUME NEW m \in Shape, Counted(m), NEW s \in ShareSlots, m.shares[s] # NoId
  PROVE  Counted(SetShare(m, s, NoId, -1))
<1> DEFINE sh == [m.shares EXCEPT ![s] = NoId]
<1>0. m.shares \in [ShareSlots -> SlaveId \cup {NoId}] /\ m.share_count \in Int  BY DEF Shape
<1>1. sh[s] = NoId /\ \A t \in ShareSlots : t # s => sh[t] = m.shares[t]  BY <1>0
<1>2. Taken(sh) = Taken(m.shares) \ {s} /\ s \in Taken(m.shares)  BY <1>1 DEF Taken
<1>3. Cardinality(Taken(sh)) = Cardinality(Taken(m.shares)) - 1
  BY <1>2, SharesFinite, FS_RemoveElement
<1>4. SetShare(m, s, NoId, -1).share_count = m.share_count - 1 /\ SetShare(m, s, NoId, -1).shares = sh
  BY <1>0 DEF SetShare
<1> HIDE DEF sh
<1>5. \A t, u \in ShareSlots : sh[t] # NoId /\ sh[t] = sh[u] => t = u  BY <1>1 DEF Counted
<1>6. QED  BY <1>3, <1>4, <1>5 DEF Counted

\* A step that changes one record to one that is counted.
LEMMA OneRecordCounted ==
  ASSUME IInv, AllCounted, NEW k \in Kinds, NEW i \in Slots, NEW new, Counted(new),
         region' = [region EXCEPT ![k][i] = new]
  PROVE  AllCounted'
<1>1. \A h \in Kinds : \A j \in Slots :
        region'[h][j] = IF h = k /\ j = i THEN new ELSE region[h][j]
  BY DEF IInv, Types
<1>2. QED  BY <1>1 DEF AllCounted

LEMMA ZeroedCounted ==
  ASSUME NEW table, table = Zeroed(Cleared), NEW k \in Kinds, NEW i \in Slots
  PROVE  Counted(table[k][i])
<1>1. table[k][i] = Cleared  BY DEF Zeroed
<1>2. Cleared.share_count = 0 /\ Cleared.shares = NoShares  BY DEF Cleared
<1>3. QED  BY <1>1, <1>2, NoSharesCounted

\* Every operation on the table keeps the counts of shares.
LEMMA CountsInductive ==
  ASSUME IInv, AllCounted, [AptNext]_aptVars
  PROVE  AllCounted'
<1>0. "master" \in Kinds /\ "slave" \in Kinds /\ Counted(Cleared)
  BY NoSharesCounted DEF Kinds, Cleared
<1>1. ASSUME NEW k \in Kinds, NEW id, NEW r, apt_add(k, id, r)
      PROVE  AllCounted'
  <2> DEFINE new == [id |-> id, base |-> r.base, size |-> r.size, share_count |-> 0, shares |-> NoShares]
  <2>1. PICK i \in Slots : region' = [region EXCEPT ![k][i] = new]  BY <1>1 DEF apt_add
  <2>2. Counted(new)  BY NoSharesCounted
  <2> HIDE DEF new
  <2>3. QED  BY <2>1, <2>2, OneRecordCounted
<1>2. ASSUME NEW k \in Kinds, NEW i \in Slots, NEW zero \in BOOLEAN, RemoveSlot(k, i, zero)
      PROVE  AllCounted'
  <2>1. region' = [region EXCEPT ![k][i] = Cleared] \/ region' = region  BY <1>2 DEF RemoveSlot
  <2>2. QED  BY <2>1, <1>0, OneRecordCounted DEF AllCounted
<1>3. ASSUME NEW id \in AptRegion, NEW slave \in SlaveId, CsmShare(id, slave)
      PROVE  AllCounted'
  <2>1. PICK i \in Slots, s \in ShareSlots :
          /\ \A t \in ShareSlots : region["master"][i].shares[t] # slave
          /\ region["master"][i].shares[s] = NoId
          /\ region' = [region EXCEPT !["master"][i] = SetShare(@, s, slave, 1)]
    BY <1>3 DEF CsmShare, apt_master_add_share
  <2> DEFINE m == region["master"][i]
  <2>2. m \in Shape /\ Counted(m) /\ region' = [region EXCEPT !["master"][i] = SetShare(m, s, slave, 1)]
    BY <1>0, <2>1 DEF IInv, Types, AllCounted
  <2>3. Counted(SetShare(m, s, slave, 1))  BY <2>1, <2>2, GrantCounted
  <2> HIDE DEF m
  <2>4. QED  BY <2>2, <2>3, <1>0, OneRecordCounted
<1>4. ASSUME NEW id \in AptRegion, NEW slave \in SlaveId, DropShare(id, slave)
      PROVE  AllCounted'
  <2>1. PICK i \in Slots, s \in ShareSlots :
          /\ region["master"][i].shares[s] = slave
          /\ region' = [region EXCEPT !["master"][i] = SetShare(@, s, NoId, -1)]
    BY <1>4 DEF DropShare
  <2> DEFINE m == region["master"][i]
  <2>2. m \in Shape /\ Counted(m) /\ region' = [region EXCEPT !["master"][i] = SetShare(m, s, NoId, -1)]
    BY <1>0, <2>1 DEF IInv, Types, AllCounted
  <2>3. Counted(SetShare(m, s, NoId, -1))  BY <2>1, <2>2, RevokeCounted, AptAssumption
  <2> HIDE DEF m
  <2>4. QED  BY <2>2, <2>3, <1>0, OneRecordCounted
<1>5. CASE AptDestroy
  BY <1>5, ZeroedCounted DEF AptDestroy, apt_reset, AllCounted
<1>6. CASE UNCHANGED aptVars  BY <1>6 DEF aptVars, AllCounted
<1>7. QED
  BY <1>0, <1>1, <1>2, <1>3, <1>4, <1>5, <1>6
     DEF AptNext, CsmCreate, CsmReserve, RemoveSlave, CsmDestroy

\* Every reachable record counts its shares.
THEOREM CountsAlways == AptSpec => []AllCounted
<1>1. AptInit => AllCounted  BY ZeroedCounted DEF AptInit, AllCounted
<1>2. QED  BY <1>1, CountsInductive, Inductive, PTL DEF AptSpec

\* share_count is the number of share slots in use and no slave has two of them, so
\* that RSI_CSM_DESTROY, which trusts the count, never removes a region that is still
\* shared, and RSI_CSM_REVOKE, which clears one slot, leaves no other behind.
THEOREM SharesExactAlways == AptSpec => []SharesExact
<1>1. IInv /\ AllCounted => SharesExact
  BY DEF IInv, Types, AllCounted, Counted, Taken, SharesExact, Kinds
<1>2. QED  BY <1>1, Inductive, CountsAlways, PTL

\* The table keeps its types: a packed list never outgrows its array and share_count
\* stays within the share slots, which the code bounds by no check of its own.
THEOREM TypeCorrect == AptSpec => []AptTypeOK
<1>1. IInv /\ AllCounted => AptTypeOK
  <2> SUFFICES ASSUME IInv, AllCounted PROVE AptTypeOK  OBVIOUS
  <2>1. \A k \in Kinds : \A i \in Slots : region[k][i] \in Regions
    <3> TAKE k \in Kinds
    <3> TAKE i \in Slots
    <3> DEFINE m == region[k][i]
    <3>1. m \in Shape /\ Counted(m)  BY DEF IInv, Types, AllCounted
    <3>2. m.share_count \in 0..MaxShares  BY <3>1, SharesFinite DEF Counted
    <3> HIDE DEF m
    <3>3. m \in Regions  BY <3>1, <3>2 DEF Shape, Regions
    <3>4. QED  BY <3>3 DEF m
  <2>2. region \in [Kinds -> [Slots -> Regions]]
    <3>1. region \in [Kinds -> [Slots -> Shape]]  BY DEF IInv, Types
    <3>2. QED  BY <2>1, <3>1
  <2>3. QED  BY <2>2 DEF IInv, Types, AptTypeOK
<1>2. QED  BY <1>1, Inductive, CountsAlways, PTL
=============================================================================
