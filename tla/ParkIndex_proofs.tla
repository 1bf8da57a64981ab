--------------------------- MODULE ParkIndex_proofs ---------------------------
(***************************************************************************)
(* Proofs about ParkIndex.                                                 *)
(***************************************************************************)
EXTENDS ParkIndex, FiniteSetTheorems, SequenceTheorems, WellFoundedInduction, TLAPS

(* A non-empty set of naturals has a least element, and a largest one if   *)
(* it is bounded.                                                          *)
LEMMA LeastExists ==
  ASSUME NEW S \in SUBSET Nat, S # {}
  PROVE  Min(S) \in S /\ \A y \in S : Min(S) <= y
<1> DEFINE R == {ss \in Nat \X Nat : ss[1] < ss[2]}
<1>1. IsWellFoundedOn(R, Nat)
  BY NatLessThanWellFounded, Zenon DEF OpToRel
<1>2. \E x \in S : \A y \in S : ~(<<y, x>> \in R)
  <2> HIDE DEF R
  <2> QED  BY <1>1, WFMin, Zenon
<1>3. \A x, y \in Nat : y < x => <<y, x>> \in R
  OBVIOUS
<1>4. \E x \in S : \A y \in S : x <= y
  <2> HIDE DEF R
  <2>1. PICK x \in S : \A y \in S : ~(<<y, x>> \in R)
    BY <1>2
  <2>2. \A y \in S : ~(y < x)
    BY <1>3, <2>1
  <2> QED  BY <2>2
<1> QED  BY <1>4 DEF Min

LEMMA LargestExists ==
  ASSUME NEW S \in SUBSET Nat, S # {}, NEW n \in Nat, \A x \in S : x <= n
  PROVE  Max(S) \in S /\ \A y \in S : y <= Max(S)
<1> DEFINE T == {n - x : x \in S}
<1>1. T \in SUBSET Nat /\ T # {}
  <2>1. \A x \in S : n - x \in Nat
    OBVIOUS
  <2> QED  BY <2>1
<1>2. PICK z \in T : \A y \in T : z <= y
  <2> HIDE DEF T
  <2> QED  BY <1>1, LeastExists
<1>3. PICK x \in S : z = n - x
  OBVIOUS
<1>4. \A y \in S : y <= x
  <2> SUFFICES ASSUME NEW y \in S PROVE y <= x
    OBVIOUS
  <2>1. z <= n - y
    BY <1>2
  <2> QED  BY <1>3, <2>1
<1> QED  BY <1>4 DEF Max

-----------------------------------------------------------------------------
(* Prefixes of token sequences.                                            *)
LEMMA Prefix ==
  ASSUME NEW t \in Seq(Nat), NEW n \in 0 .. Len(t)
  PROVE  /\ SubSeq(t, 1, n) \in Seq(Nat) /\ Len(SubSeq(t, 1, n)) = n
         /\ \A i \in 1 .. n : SubSeq(t, 1, n)[i] = t[i]
<1>1. \A i \in 1 .. n : t[i] \in Nat
  OBVIOUS
<1>2. /\ SubSeq(t, 1, n) \in Seq(Nat)
      /\ Len(SubSeq(t, 1, n)) = IF 1 <= n THEN n - 1 + 1 ELSE 0
      /\ \A i \in 1 .. n - 1 + 1 : SubSeq(t, 1, n)[i] = t[1 + i - 1]
  BY <1>1, SubSeqProperties
<1> QED  BY <1>2

LEMMA SamePrefix ==
  ASSUME NEW s \in Seq(Nat), NEW t \in Seq(Nat), NEW n \in 0 .. Len(s), n <= Len(t)
  PROVE  SubSeq(s, 1, n) = SubSeq(t, 1, n) <=> \A i \in 1 .. n : s[i] = t[i]
<1>1. n \in 0 .. Len(t)
  OBVIOUS
<1>2. ASSUME SubSeq(s, 1, n) = SubSeq(t, 1, n), NEW i \in 1 .. n  PROVE s[i] = t[i]
  BY <1>1, <1>2, Prefix
<1>3. ASSUME \A i \in 1 .. n : s[i] = t[i]  PROVE SubSeq(s, 1, n) = SubSeq(t, 1, n)
  <2>1. /\ SubSeq(s, 1, n) \in Seq(Nat) /\ SubSeq(t, 1, n) \in Seq(Nat)
        /\ Len(SubSeq(s, 1, n)) = Len(SubSeq(t, 1, n))
        /\ \A i \in 1 .. Len(SubSeq(s, 1, n)) : SubSeq(s, 1, n)[i] = SubSeq(t, 1, n)[i]
    BY <1>1, <1>3, Prefix
  <2> QED  BY <2>1, SeqEqual
<1> QED  BY <1>2, <1>3

LEMMA ShorterPrefix ==
  ASSUME NEW s \in Seq(Nat), NEW t \in Seq(Nat), NEW n \in 0 .. Len(s), n <= Len(t),
         NEW m \in 0 .. n, SubSeq(s, 1, n) = SubSeq(t, 1, n)
  PROVE  SubSeq(s, 1, m) = SubSeq(t, 1, m)
<1>1. \A i \in 1 .. m : s[i] = t[i]
  BY SamePrefix
<1>2. m \in 0 .. Len(s) /\ m <= Len(t)
  OBVIOUS
<1> QED  BY <1>1, <1>2, SamePrefix

(* Whole blocks of a sequence of e tokens.                                 *)
LEMMA Blocks ==
  ASSUME NEW e \in Nat
  PROVE  /\ e \div block_size \in Nat
         /\ (e \div block_size) * block_size \in 0 .. e
         /\ e < (e \div block_size) * block_size + block_size
  BY IndexAssumption

LEMMA BlocksApart ==
  ASSUME NEW k \in Nat, NEW m \in Nat, k < m
  PROVE  k * block_size + block_size <= m * block_size
<1>1. m = (k + 1) + (m - (k + 1)) /\ m - (k + 1) \in Nat
  OBVIOUS
<1>2. m * block_size = (k + 1) * block_size + (m - (k + 1)) * block_size
  BY IndexAssumption
<1>3. (m - (k + 1)) * block_size >= 0
  BY <1>1, IndexAssumption
<1>4. (k + 1) * block_size = k * block_size + block_size
  BY IndexAssumption
<1> QED  BY <1>2, <1>3, <1>4, IndexAssumption

-----------------------------------------------------------------------------
(* A parked turn, and when its tail lies strictly inside a prompt.         *)
LEMMA TurnFacts ==
  ASSUME NEW t \in Turns
  PROVE  /\ t \in Seq(Nat) /\ end(t) \in Nat /\ end(t) >= 1
         /\ end(t) \in 0 .. Len(t) /\ block_size \in 0 .. Len(t)
         /\ Key(t) = SubSeq(t, 1, end(t))
         /\ Key(t) \in Seq(Nat) /\ Len(Key(t)) = end(t)
<1>1. /\ t \in Seq(Nat) /\ end(t) \in Nat /\ end(t) >= 1
      /\ end(t) \in 0 .. Len(t) /\ block_size \in 0 .. Len(t)
  BY IndexAssumption DEF end
<1>2. Key(t) = SubSeq(t, 1, end(t))
  BY DEF Key, end
<1> QED  BY <1>1, <1>2, Prefix

Fitting(p, t) == end(t) < Len(p) /\ Key(t) = SubSeq(p, 1, end(t))

LEMMA StrictPrefix ==
  ASSUME NEW p \in Prompts, NEW t \in Turns
  PROVE  IsStrictPrefix(Key(t), p) <=> Fitting(p, t)
<1>1. p \in Seq(Nat)
  BY IndexAssumption
<1>2. SubSeq(Key(t), 1, end(t)) = Key(t) /\ SubSeq(p, 1, Len(p)) = p
  BY <1>1, TurnFacts, SubSeqFull
<1>3. IsStrictPrefix(Key(t), p) <=>
        end(t) <= Len(p) /\ Key(t) = SubSeq(p, 1, end(t)) /\ Key(t) # p
  BY <1>2, TurnFacts DEF IsStrictPrefix, IsPrefix
<1>4. Key(t) = SubSeq(p, 1, end(t)) => (end(t) = Len(p) <=> Key(t) = p)
  BY <1>1, <1>2, TurnFacts
<1> QED  BY <1>1, <1>3, <1>4, TurnFacts DEF Fitting

(* The records of the index are turns with a pin count.                    *)
RecordsOK ==
  /\ rec \in Seq([turn : Turns, pinned : Nat])
  /\ by_tail \subseteq DOMAIN rec /\ by_parent \subseteq DOMAIN rec

LEMMA RecordTurn ==
  ASSUME RecordsOK, NEW i \in DOMAIN rec
  PROVE  /\ rec[i] \in [turn : Turns, pinned : Nat]
         /\ rec[i].turn \in Turns /\ rec[i].pinned \in Nat /\ i \in Nat \ {0}
<1> DEFINE R == [turn : Turns, pinned : Nat]
<1>1. rec \in Seq(R)
  BY DEF RecordsOK
<1>2. \A x \in R : x.turn \in Turns /\ x.pinned \in Nat
  BY IndexAssumption
<1>3. rec[i] \in R /\ i \in Nat \ {0}
  <2> HIDE DEF R
  <2> QED  BY <1>1
<1> QED  BY <1>2, <1>3

(* A record can only match after the whole blocks of its own end.          *)
LEMMA MatchBlock ==
  ASSUME RecordsOK, NEW p \in Prompts, NEW i \in by_parent,
         NEW k \in 0 .. Len(p) \div block_size
  PROVE  i \in Matches(p, k) <=>
           Fitting(p, rec[i].turn) /\ k = end(rec[i].turn) \div block_size
<1> DEFINE t == rec[i].turn
           e == end(t)
           q == e \div block_size
<1>1. p \in Seq(Nat) /\ t \in Turns /\ t \in Seq(Nat) /\ e \in Nat /\ e <= Len(t)
  <2>1. p \in Seq(Nat) /\ i \in DOMAIN rec
    BY IndexAssumption DEF RecordsOK
  <2>2. t \in Turns
    BY <2>1, RecordTurn
  <2> QED  BY <2>1, <2>2, TurnFacts
<1> HIDE DEF t, e
<1>2. q \in Nat /\ q * block_size \in 0 .. e /\ e < q * block_size + block_size
  BY <1>1, Blocks
<1>3. Len(p) \in Nat /\ Len(p) \div block_size \in Nat /\ k \in Nat
  BY <1>1, Blocks
<1>4. k * block_size \in 0 .. Len(p)
  <2>1. k = Len(p) \div block_size \/ k < Len(p) \div block_size
    BY <1>3
  <2>2. k * block_size \in Nat
    BY <1>3, IndexAssumption
  <2> QED  BY <1>3, <2>1, <2>2, Blocks, BlocksApart, IndexAssumption
<1>5. parent_hash(t) = SubSeq(t, 1, q * block_size) /\ Key(t) = SubSeq(t, 1, e)
  BY <1>1, TurnFacts DEF parent_hash, e
<1>6. i \in Matches(p, k) <=>
        parent_hash(t) = SubSeq(p, 1, k * block_size) /\ Fitting(p, t)
  BY DEF Matches, Fitting, t, e
<1>7. ASSUME Fitting(p, t), k = q
      PROVE  parent_hash(t) = SubSeq(p, 1, k * block_size)
  <2>1. e <= Len(p) /\ SubSeq(t, 1, e) = SubSeq(p, 1, e)
    BY <1>1, <1>5, <1>7 DEF Fitting, e
  <2> QED  BY <1>1, <1>2, <1>5, <1>7, <2>1, ShorterPrefix
<1>8. ASSUME parent_hash(t) = SubSeq(p, 1, k * block_size)
      PROVE  k = q
  <2>1. Len(SubSeq(t, 1, q * block_size)) = q * block_size
    BY <1>1, <1>2, Prefix
  <2>2. Len(SubSeq(p, 1, k * block_size)) = k * block_size
    BY <1>1, <1>4, Prefix
  <2>3. q * block_size = k * block_size
    BY <1>5, <1>8, <2>1, <2>2
  <2>4. ~(k < q) /\ ~(q < k)
    BY <1>2, <1>3, <2>3, BlocksApart, IndexAssumption
  <2> QED  BY <1>2, <1>3, <2>4
<1> QED  BY <1>6, <1>7, <1>8 DEF t, e

(* find returns a fitting record whose end no other fitting record passes. *)
LEMMA FindLongest ==
  ASSUME RecordsOK, NEW p \in Prompts
  PROVE  LET fitting == {i \in by_parent : Fitting(p, rec[i].turn)}
         IN  IF fitting = {} THEN find(p) = 0
             ELSE /\ find(p) \in fitting
                  /\ \A i \in fitting : end(rec[i].turn) <= end(rec[find(p)].turn)
<1> DEFINE fitting == {i \in by_parent : Fitting(p, rec[i].turn)}
           blk(i)  == end(rec[i].turn) \div block_size
           last    == Len(p) \div block_size
           ks      == {k \in 0 .. last : Matches(p, k) # {}}
           hits    == Matches(p, Max(ks))
           ends    == {end(rec[i].turn) : i \in hits}
           far     == Max(ends)
           best    == {i \in hits : end(rec[i].turn) = far}
<1>1. p \in Seq(Nat) /\ Len(p) \in Nat /\ last \in Nat
  BY IndexAssumption, Blocks
<1>2. \A i \in by_parent : rec[i].turn \in Turns /\ end(rec[i].turn) \in Nat /\ i \in Nat
  BY RecordTurn, TurnFacts DEF RecordsOK
<1>3. \A i \in by_parent : blk(i) \in Nat /\ blk(i) * block_size \in 0 .. end(rec[i].turn)
                           /\ end(rec[i].turn) < blk(i) * block_size + block_size
  BY <1>2, Blocks
<1>4. \A i \in fitting : blk(i) \in 0 .. last
  <2> SUFFICES ASSUME NEW i \in fitting, last < blk(i) PROVE FALSE
    BY <1>1, <1>3
  <2>1. last * block_size + block_size <= blk(i) * block_size
    BY <1>1, <1>3, BlocksApart
  <2>2. Len(p) < last * block_size + block_size
    BY <1>1, Blocks
  <2>3. end(rec[i].turn) < Len(p)
    BY DEF Fitting
  <2> QED  BY <1>1, <1>2, <1>3, <2>1, <2>2, <2>3, IndexAssumption
<1>5. \A k \in 0 .. last : Matches(p, k) = {i \in fitting : blk(i) = k}
  <2>1. \A k : Matches(p, k) \subseteq by_parent
    BY DEF Matches
  <2> QED  BY <2>1, MatchBlock
<1>6. find(p) = IF ks = {} THEN 0 ELSE Min(best)
  BY DEF find
<1> HIDE DEF fitting, blk, last
<1>7. ks = {} <=> fitting = {}
  BY <1>4, <1>5
<1>8. ASSUME fitting # {}
      PROVE  Min(best) \in fitting /\ \A i \in fitting : end(rec[i].turn) <= end(rec[Min(best)].turn)
  <2>1. Max(ks) \in ks /\ \A k \in ks : k <= Max(ks)
    <3>1. ks \in SUBSET Nat /\ ks # {} /\ \A k \in ks : k <= last
      BY <1>1, <1>7, <1>8
    <3> HIDE DEF ks
    <3> QED  BY <1>1, <3>1, LargestExists
  <2>2. hits = {i \in fitting : blk(i) = Max(ks)} /\ hits # {}
    BY <1>5, <2>1
  <2>3. fitting \subseteq by_parent
    BY DEF fitting
  <2>4. \A i \in fitting : end(rec[i].turn) <= Len(p)
    BY <1>1, <1>2, <2>3 DEF fitting, Fitting
  <2> HIDE DEF ks, hits
  <2>5. far \in ends /\ \A x \in ends : x <= far
    <3>1. ends \in SUBSET Nat /\ ends # {} /\ \A x \in ends : x <= Len(p)
      BY <1>1, <1>2, <2>2, <2>3, <2>4
    <3> HIDE DEF ends
    <3> QED  BY <1>1, <3>1, LargestExists
  <2>6. Min(best) \in best
    <3>1. best \in SUBSET Nat /\ best # {}
      BY <1>2, <2>2, <2>3, <2>5
    <3> HIDE DEF best
    <3> QED  BY <3>1, LeastExists
  <2>7. Min(best) \in fitting /\ blk(Min(best)) = Max(ks) /\ end(rec[Min(best)].turn) = far
    BY <2>2, <2>6
  <2>8. \A i \in hits : end(rec[i].turn) <= far
    BY <2>5
  <2> HIDE DEF best, far, ends
  <2>9. ASSUME NEW i \in fitting  PROVE end(rec[i].turn) <= end(rec[Min(best)].turn)
    <3>1. blk(i) \in ks /\ blk(i) \in Nat /\ Max(ks) \in Nat
      BY <1>1, <1>4, <1>5, <2>1, <2>9 DEF ks
    <3>2. CASE blk(i) = Max(ks)
      BY <2>2, <2>7, <2>8, <2>9, <3>2
    <3>3. CASE blk(i) < Max(ks)
      <4>1. blk(i) * block_size + block_size <= Max(ks) * block_size
        BY <3>1, <3>3, BlocksApart
      <4>2. end(rec[i].turn) < blk(i) * block_size + block_size
        BY <1>3, <2>3, <2>9
      <4>3. Max(ks) * block_size <= end(rec[Min(best)].turn)
        BY <1>3, <2>3, <2>7
      <4> QED  BY <1>2, <2>3, <2>7, <2>9, <3>1, <4>1, <4>2, <4>3, IndexAssumption
    <3> QED  BY <2>1, <3>1, <3>2, <3>3
  <2> QED  BY <2>7, <2>9
<1> QED  BY <1>6, <1>7, <1>8 DEF fitting

-----------------------------------------------------------------------------
(* Finite unions, counted.                                                 *)
LEMMA FiniteUnion ==
  ASSUME NEW S, IsFiniteSet(S), NEW F, \A x \in S : IsFiniteSet(F[x])
  PROVE  IsFiniteSet(UNION {F[x] : x \in S})
<1> DEFINE T == {F[x] : x \in S}
           g == [x \in S |-> F[x]]
<1>1. g \in Surjection(S, T)
  BY DEF Surjection
<1>2. IsFiniteSet(T)
  BY <1>1, FS_Surjection
<1> QED  BY <1>2, FS_UNION

LEMMA UpTo ==
  ASSUME NEW n \in Nat
  PROVE  IsFiniteSet(1 .. n) /\ Cardinality(1 .. n) = n
  BY FS_Interval

(* What used_bytes counts, for any table of entries.                       *)
Units(f, cs) == UNION {{c} \X (1 .. f[c].nbytes) : c \in cs}

LEMMA UnitsFinite ==
  ASSUME NEW f, NEW cs, IsFiniteSet(cs), \A c \in cs : f[c].nbytes \in Nat
  PROVE  IsFiniteSet(Units(f, cs)) /\ Cardinality(Units(f, cs)) \in Nat
<1> DEFINE F == [c \in cs |-> {c} \X (1 .. f[c].nbytes)]
<1>1. ASSUME NEW c \in cs  PROVE IsFiniteSet({c} \X (1 .. f[c].nbytes))
  <2>1. IsFiniteSet({c}) /\ IsFiniteSet(1 .. f[c].nbytes)
    BY FS_Singleton, UpTo
  <2> QED  BY <2>1, FS_Product
<1>2. \A c \in cs : IsFiniteSet(F[c])
  BY <1>1
<1>3. Units(f, cs) = UNION {F[c] : c \in cs}
  BY DEF Units
<1>4. IsFiniteSet(Units(f, cs))
  <2> HIDE DEF F
  <2> QED  BY <1>2, <1>3, FiniteUnion
<1> QED  BY <1>4, FS_CardinalityType

LEMMA UnitsMonotone ==
  ASSUME NEW f, NEW cs, IsFiniteSet(cs), \A c \in cs : f[c].nbytes \in Nat,
         NEW ds \in SUBSET cs
  PROVE  Cardinality(Units(f, ds)) <= Cardinality(Units(f, cs))
<1>1. Units(f, ds) \in SUBSET Units(f, cs)
  BY DEF Units
<1> QED  BY <1>1, UnitsFinite, FS_Subset

LEMMA UnitsAdd ==
  ASSUME NEW f, NEW cs, IsFiniteSet(cs), NEW c, c \notin cs,
         \A d \in cs \cup {c} : f[d].nbytes \in Nat
  PROVE  Cardinality(Units(f, cs \cup {c})) = Cardinality(Units(f, cs)) + f[c].nbytes
<1> DEFINE n == f[c].nbytes
           U == {c} \X (1 .. n)
<1>1. Units(f, cs \cup {c}) = Units(f, cs) \cup U
  BY DEF Units
<1>2. Units(f, cs) \cap U = {}
  BY DEF Units
<1>0. n \in Nat
  OBVIOUS
<1> HIDE DEF n
<1>3. IsFiniteSet(U) /\ Cardinality(U) = n
  <2>1. IsFiniteSet({c}) /\ Cardinality({c}) = 1
    BY FS_Singleton
  <2>2. IsFiniteSet(1 .. n) /\ Cardinality(1 .. n) = n
    BY <1>0, UpTo
  <2>3. IsFiniteSet(U) /\ Cardinality(U) = Cardinality({c}) * Cardinality(1 .. n)
    BY <2>1, <2>2, FS_Product
  <2> QED  BY <1>0, <2>1, <2>2, <2>3
<1>4. IsFiniteSet(Units(f, cs)) /\ Cardinality(Units(f, cs)) \in Nat
  BY UnitsFinite
<1>5. Cardinality({}) = 0
  BY FS_EmptySet
<1>6. Cardinality(Units(f, cs) \cup U) =
        Cardinality(Units(f, cs)) + Cardinality(U) - Cardinality(Units(f, cs) \cap U)
  <2> HIDE DEF U
  <2> QED  BY <1>3, <1>4, FS_Union
<1>7. Cardinality(Units(f, cs) \cup U) = Cardinality(Units(f, cs)) + n
  <2> HIDE DEF U
  <2>1. Cardinality(Units(f, cs) \cap U) = 0
    BY <1>2, <1>5
  <2> QED  BY <1>0, <1>3, <1>4, <1>6, <2>1
<1> QED  BY <1>1, <1>7 DEF n

(* A sum that only looks at the entries it sums over.                      *)
LEMMA UnitsSame ==
  ASSUME NEW f, NEW g, NEW cs, \A c \in cs : f[c].nbytes = g[c].nbytes
  PROVE  Units(f, cs) = Units(g, cs)
  BY DEF Units

(* A turn has finitely many keys, and they name its conversation.          *)
LEMMA KeysFinite ==
  ASSUME NEW t \in Turns
  PROVE  IsFiniteSet(new_keys(t)) /\ nbytes(t) \in Nat
<1> DEFINE n == end(t) \div block_size
           F == [k \in 1 .. n |-> full_key(SubSeq(t, 1, k * block_size))]
           kinds == IF end(t) % block_size = 0 THEN {"gdn"} ELSE {"gdn", "attn"}
           G == [kind \in kinds |-> <<kind, conv_id(t), end(t)>>]
<1>1. IsFiniteSet(full_keys(t))
  <2>1. n \in Nat
    BY TurnFacts, Blocks
  <2>2. IsFiniteSet(1 .. n)
    BY <2>1, FS_Interval
  <2>3. F \in Surjection(1 .. n, full_keys(t))
    BY DEF Surjection, full_keys
  <2> QED  BY <2>2, <2>3, FS_Surjection
<1>2. IsFiniteSet(tail_keys(t))
  <2>1. IsFiniteSet({"gdn"}) /\ IsFiniteSet({"gdn"} \cup {"attn"})
    BY FS_Singleton, FS_AddElement
  <2>2. {"gdn"} \cup {"attn"} = {"gdn", "attn"}
    OBVIOUS
  <2>3. IsFiniteSet(kinds)
    BY <2>1, <2>2
  <2>4. G \in Surjection(kinds, tail_keys(t))
    BY DEF Surjection, tail_keys
  <2> QED  BY <2>3, <2>4, FS_Surjection
<1>3. IsFiniteSet(new_keys(t))
  BY <1>1, <1>2, FS_Union DEF new_keys
<1> QED  BY <1>3, FS_CardinalityType DEF nbytes

LEMMA WholeBlocks ==
  ASSUME NEW t \in Turns, NEW k \in 1 .. end(t) \div block_size
  PROVE  k * block_size \in block_size .. Len(t)
<1> DEFINE q == end(t) \div block_size
<1>1. /\ q \in Nat /\ k \in Nat /\ block_size \in Nat
      /\ k * block_size \in Nat /\ q * block_size \in Nat
  BY TurnFacts, Blocks, IndexAssumption
<1>2. q * block_size <= end(t) /\ end(t) <= Len(t) /\ end(t) \in Nat /\ Len(t) \in Nat
  <2>1. end(t) \in Nat /\ end(t) \in 0 .. Len(t) /\ t \in Seq(Nat)
    BY TurnFacts
  <2>2. q * block_size \in 0 .. end(t)
    BY <2>1, Blocks
  <2> QED  BY <2>1, <2>2
<1>3. k * block_size <= q * block_size
  <2>1. k = q \/ k < q
    BY <1>1
  <2> QED  BY <1>1, <2>1, BlocksApart
<1>4. block_size <= k * block_size
  <2>1. 0 * block_size + block_size <= k * block_size
    BY <1>1, BlocksApart
  <2> QED  BY <1>1, <2>1
<1> QED  BY <1>1, <1>2, <1>3, <1>4

LEMMA KeysNameConversation ==
  ASSUME NEW t \in Turns, NEW u \in Turns, new_keys(t) \cap new_keys(u) # {}
  PROVE  conv_id(t) = conv_id(u)
<1>1. PICK x : x \in new_keys(t) /\ x \in new_keys(u)
  OBVIOUS
<1>2. CASE x \in full_keys(t)
  <2>1. PICK k \in 1 .. end(t) \div block_size : x = full_key(SubSeq(t, 1, k * block_size))
    BY <1>2 DEF full_keys
  <2>2. x[1] = "full"
    BY <2>1 DEF full_key
  <2>3. x \notin tail_keys(u)
    BY <2>2 DEF tail_keys
  <2>4. PICK m \in 1 .. end(u) \div block_size : x = full_key(SubSeq(u, 1, m * block_size))
    BY <1>1, <2>3 DEF new_keys, full_keys
  <2>5. SubSeq(t, 1, k * block_size) = SubSeq(u, 1, m * block_size)
    <3> DEFINE p == SubSeq(t, 1, k * block_size)
               q == SubSeq(u, 1, m * block_size)
    <3>1. <<"full", p>> = <<"full", q>>
      BY <2>1, <2>4, Zenon DEF full_key
    <3> HIDE DEF p, q
    <3>2. p = q
      BY <3>1
    <3> QED  BY <3>2 DEF p, q
  <2>6. /\ k * block_size \in block_size .. Len(t)
        /\ m * block_size \in block_size .. Len(u)
    BY WholeBlocks
  <2>7. /\ t \in Seq(Nat) /\ u \in Seq(Nat) /\ block_size \in Nat
    BY TurnFacts, IndexAssumption
  <2>8. Len(SubSeq(t, 1, k * block_size)) = k * block_size
    BY <2>6, <2>7, Prefix
  <2>9. Len(SubSeq(u, 1, m * block_size)) = m * block_size
    BY <2>6, <2>7, Prefix
  <2> DEFINE n == k * block_size
  <2>10. n = m * block_size
    BY <2>5, <2>8, <2>9
  <2>11. /\ n \in 0 .. Len(t) /\ n <= Len(u) /\ block_size \in 0 .. n
         /\ SubSeq(t, 1, n) = SubSeq(u, 1, n)
    <3>1. n \in block_size .. Len(t) /\ n \in block_size .. Len(u)
      BY <2>6, <2>10
    <3>2. SubSeq(t, 1, n) = SubSeq(u, 1, n)
      BY <2>5, <2>10
    <3> HIDE DEF n
    <3> QED  BY <2>7, <3>1, <3>2
  <2> HIDE DEF n
  <2> QED  BY <2>7, <2>11, ShorterPrefix DEF conv_id
<1>3. CASE x \in tail_keys(t)
  <2>1. x[2] = conv_id(t) /\ x[1] # "full"
    BY <1>3 DEF tail_keys
  <2>2. x \notin full_keys(u)
    BY <2>1 DEF full_keys, full_key
  <2>3. x[2] = conv_id(u)
    BY <1>1, <2>2 DEF new_keys, tail_keys
  <2> QED  BY <2>1, <2>3
<1> QED  BY <1>1, <1>2, <1>3 DEF new_keys

-----------------------------------------------------------------------------
(* by_conv is a strict total order of the parked conversations.            *)
OrderOK(s) ==
  /\ s \in [DOMAIN s -> SUBSET DOMAIN s]
  /\ \A c, d \in DOMAIN s : c \in s[d] <=> c # d /\ d \notin s[c]
  /\ \A c, d \in DOMAIN s : c \in s[d] => s[c] \subseteq s[d]

LEMMA MoveKeepsOrder ==
  ASSUME NEW s, OrderOK(s), NEW c
  PROVE  OrderOK(MoveToEnd(s, c)) /\ DOMAIN MoveToEnd(s, c) = DOMAIN s \cup {c}
<1> DEFINE m == MoveToEnd(s, c)
<1>1. DOMAIN m = DOMAIN s \cup {c}
  BY DEF MoveToEnd
<1>2. m[c] = DOMAIN s \ {c} /\ \A d \in DOMAIN s \ {c} : m[d] = s[d] \ {c}
  BY DEF MoveToEnd
<1>3. m = [d \in DOMAIN m |-> m[d]]
  BY DEF MoveToEnd
<1> HIDE DEF m
<1>4. m \in [DOMAIN m -> SUBSET DOMAIN m]
  BY <1>1, <1>2, <1>3 DEF OrderOK
<1>5. \A d, e \in DOMAIN m : d \in m[e] <=> d # e /\ e \notin m[d]
  BY <1>1, <1>2 DEF OrderOK
<1>6. \A d, e \in DOMAIN m : d \in m[e] => m[d] \subseteq m[e]
  BY <1>1, <1>2 DEF OrderOK
<1>7. OrderOK(m)
  BY <1>4, <1>5, <1>6 DEF OrderOK
<1> QED  BY <1>1, <1>7 DEF m

LEMMA WithoutKeepsOrder ==
  ASSUME NEW s, OrderOK(s), NEW cs
  PROVE  OrderOK(Without(s, cs)) /\ DOMAIN Without(s, cs) = DOMAIN s \ cs
<1> DEFINE m == Without(s, cs)
<1>1. DOMAIN m = DOMAIN s \ cs /\ \A d \in DOMAIN s \ cs : m[d] = s[d] \ cs
  BY DEF Without
<1>2. m = [d \in DOMAIN m |-> m[d]]
  BY DEF Without
<1> HIDE DEF m
<1>3. m \in [DOMAIN m -> SUBSET DOMAIN m]
  BY <1>1, <1>2 DEF OrderOK
<1>4. \A d, e \in DOMAIN m : d \in m[e] <=> d # e /\ e \notin m[d]
  BY <1>1 DEF OrderOK
<1>5. \A d, e \in DOMAIN m : d \in m[e] => m[d] \subseteq m[e]
  BY <1>1 DEF OrderOK
<1>6. OrderOK(m)
  BY <1>3, <1>4, <1>5 DEF OrderOK
<1> QED  BY <1>1, <1>6 DEF m

-----------------------------------------------------------------------------
(* An entry holds records of its own conversation, and keys that turns of  *)
(* it have.                                                                *)
EntriesOK ==
  /\ DOMAIN entry = Parked
  /\ \A c \in Parked :
       /\ entry[c].records \subseteq DOMAIN rec
       /\ \A i \in entry[c].records : conv_id(rec[i].turn) = c
       /\ \A k \in entry[c].full_keys : \E t \in Turns : conv_id(t) = c /\ k \in new_keys(t)
       /\ entry[c].nbytes \in Nat

(* The inductive invariant.                                                *)
IndexInv ==
  /\ RecordsOK
  /\ Parked \subseteq Convs /\ IsFiniteSet(Parked) /\ OrderOK(by_conv)
  /\ EntriesOK
  /\ running \subseteq Convs
  /\ ReachableIsParked

LEMMA InvType == IndexInv => TypeOK
  BY DEF IndexInv, TypeOK, RecordsOK, OrderOK, EntriesOK, Parked

LEMMA InvInit == Init => IndexInv
<1> SUFFICES ASSUME Init PROVE IndexInv
  OBVIOUS
<1>1. Parked = {} /\ DOMAIN entry = {} /\ rec \in Seq([turn : Turns, pinned : Nat])
  BY DEF Init, Parked
<1>2. by_conv \in [Parked -> SUBSET Parked]
  BY <1>1 DEF Init, Parked
<1>3. OrderOK(by_conv) /\ IsFiniteSet(Parked)
  BY <1>1, <1>2, FS_EmptySet DEF OrderOK, Parked
<1> QED  BY <1>1, <1>3 DEF Init, IndexInv, RecordsOK, EntriesOK, ReachableIsParked

(* Touching a parked conversation only changes the order.                  *)
LEMMA TouchKeeps ==
  ASSUME IndexInv, NEW c \in Parked, by_conv' = MoveToEnd(by_conv, c)
  PROVE  OrderOK(by_conv)' /\ Parked' = Parked
  BY MoveKeepsOrder DEF IndexInv, Parked

(* find can only hit a record of a parked conversation.                    *)
LEMMA FindReachable ==
  ASSUME IndexInv, NEW p \in Prompts, find(p) # 0
  PROVE  /\ find(p) \in by_parent /\ find(p) \in DOMAIN rec
         /\ conv_id(rec[find(p)].turn) \in Parked
<1>1. find(p) \in by_parent
  BY FindLongest DEF IndexInv
<1> QED  BY <1>1 DEF IndexInv, RecordsOK, ReachableIsParked

(* The conversation of a record is one of Convs.                           *)
LEMMA ConvOfTurn ==
  ASSUME NEW t \in Turns
  PROVE  conv_id(t) \in Convs
  BY DEF Convs

-----------------------------------------------------------------------------
(* Pins, touches and notes of running requests keep the invariant.         *)
LEMMA PinKeeps ==
  ASSUME RecordsOK, NEW i \in DOMAIN rec, NEW n \in Nat,
         rec' = [rec EXCEPT ![i].pinned = n]
  PROVE  /\ rec' \in Seq([turn : Turns, pinned : Nat])
         /\ DOMAIN rec' = DOMAIN rec /\ Len(rec') = Len(rec)
         /\ \A j \in DOMAIN rec : rec'[j].turn = rec[j].turn
<1> DEFINE R == [turn : Turns, pinned : Nat]
           x == [rec[i] EXCEPT !.pinned = n]
<1>1. rec \in Seq(R) /\ rec[i] \in R
  BY RecordTurn DEF RecordsOK
<1>2. x \in R /\ x.turn = rec[i].turn
  BY <1>1
<1>3. rec' = [rec EXCEPT ![i] = x]
  OBVIOUS
<1> HIDE DEF R, x
<1>4. rec' \in Seq(R) /\ DOMAIN rec' = DOMAIN rec /\ Len(rec') = Len(rec)
  BY <1>1, <1>2, <1>3
<1>5. \A j \in DOMAIN rec : rec'[j].turn = rec[j].turn
  BY <1>1, <1>2, <1>3
<1> QED  BY <1>4, <1>5 DEF R

LEMMA SameEntries ==
  ASSUME IndexInv,
         rec' \in Seq([turn : Turns, pinned : Nat]), DOMAIN rec' = DOMAIN rec,
         \A j \in DOMAIN rec : rec'[j].turn = rec[j].turn,
         UNCHANGED <<by_tail, by_parent, entry>>,
         OrderOK(by_conv)', Parked' = Parked, running' \subseteq Convs
  PROVE  IndexInv'
<1>1. RecordsOK'
  BY DEF IndexInv, RecordsOK
<1>2. EntriesOK'
  BY DEF IndexInv, EntriesOK
<1>3. ReachableIsParked'
  BY DEF IndexInv, ReachableIsParked, RecordsOK
<1> QED  BY <1>1, <1>2, <1>3 DEF IndexInv

LEMMA InvFind ==
  ASSUME IndexInv, NEW p \in Prompts, Find(p)
  PROVE  IndexInv'
<1>1. OrderOK(by_conv)' /\ Parked' = Parked
  BY FindReachable, TouchKeeps DEF Find
<1> QED  BY <1>1, SameEntries DEF Find, IndexInv, RecordsOK

LEMMA InvFindAndPin ==
  ASSUME IndexInv, NEW p \in Prompts, FindAndPin(p)
  PROVE  IndexInv'
<1> DEFINE i == find(p)
<1>1. i \in DOMAIN rec /\ rec[i].pinned \in Nat /\ conv_id(rec[i].turn) \in Parked
  BY FindReachable, RecordTurn DEF FindAndPin, IndexInv
<1>2. OrderOK(by_conv)' /\ Parked' = Parked
  BY <1>1, TouchKeeps DEF FindAndPin
<1>3. rec' = [rec EXCEPT ![i].pinned = rec[i].pinned + 1] /\ rec[i].pinned + 1 \in Nat
  BY <1>1, IndexAssumption DEF FindAndPin
<1>4. RecordsOK /\ running \subseteq Convs
  BY DEF IndexInv
<1>5. UNCHANGED <<by_tail, by_parent, entry, running>>
  BY DEF FindAndPin
<1> HIDE DEF i
<1> QED  BY <1>1, <1>2, <1>3, <1>4, <1>5, PinKeeps, SameEntries

LEMMA InvLookup ==
  ASSUME IndexInv, NEW i \in DOMAIN rec, lookup_key(i)
  PROVE  IndexInv'
<1>1. conv_id(rec[i].turn) \in Parked
  BY DEF lookup_key, IndexInv, ReachableIsParked
<1>2. OrderOK(by_conv)' /\ Parked' = Parked
  BY <1>1, TouchKeeps DEF lookup_key
<1> QED  BY <1>2, SameEntries DEF lookup_key, IndexInv, RecordsOK

LEMMA InvUnpin ==
  ASSUME IndexInv, NEW i \in DOMAIN rec, unpin(i)
  PROVE  IndexInv'
<1>1. RecordsOK /\ running \subseteq Convs /\ OrderOK(by_conv)
  BY DEF IndexInv
<1>2. rec[i].pinned \in Nat
  BY <1>1, RecordTurn
<1>3. rec' = [rec EXCEPT ![i].pinned = rec[i].pinned - 1] /\ rec[i].pinned - 1 \in Nat
  BY <1>2, IndexAssumption DEF unpin
<1>4. UNCHANGED <<by_tail, by_parent, by_conv, entry, running>>
  BY DEF unpin
<1>5. OrderOK(by_conv)' /\ Parked' = Parked
  BY <1>1, <1>4 DEF OrderOK, Parked
<1> QED  BY <1>1, <1>3, <1>4, <1>5, PinKeeps, SameEntries

LEMMA InvRunning ==
  ASSUME IndexInv, NEW c \in Convs, set_running(c)
  PROVE  IndexInv'
<1>1. UNCHANGED <<rec, by_tail, by_parent, by_conv, entry>> /\ running' \subseteq Convs
  BY DEF set_running, IndexInv
<1>2. OrderOK(by_conv)' /\ Parked' = Parked
  BY <1>1 DEF OrderOK, Parked, IndexInv
<1> QED  BY <1>1, <1>2, SameEntries DEF IndexInv, RecordsOK

-----------------------------------------------------------------------------
(* A store: what it does to the parked conversations and their entries.    *)
LEMMA VictimFacts ==
  ASSUME NEW t
  PROVE  /\ _plan_victims(t) \subseteq Parked \ {conv_id(t)}
         /\ \A v \in _plan_victims(t) : ~Protected(v)
  BY DEF _plan_victims, Candidates

LEMMA StoreShape ==
  ASSUME IndexInv, NEW t \in Turns, store(t)
  PROVE  LET c       == conv_id(t)
             victims == _plan_victims(t)
             old     == IF c \in Parked THEN entry[c].records ELSE {}
             new     == Len(rec) + 1
         IN  /\ Parked' = (Parked \ victims) \cup {c}
             /\ OrderOK(by_conv)'
             /\ DOMAIN entry' = Parked'
             /\ entry'[c] = [records |-> old \cup {new}, full_keys |-> new_keys(t),
                             nbytes |-> nbytes(t)]
             /\ \A d \in Parked \ (victims \cup {c}) : entry'[d] = entry[d]
             /\ rec' \in Seq([turn : Turns, pinned : Nat])
             /\ Len(rec') = new /\ DOMAIN rec' = DOMAIN rec \cup {new} /\ new \notin DOMAIN rec
             /\ rec'[new].turn = t /\ rec'[new].pinned = 0
             /\ \A i \in DOMAIN rec : rec'[i] = rec[i]
<1> DEFINE c       == conv_id(t)
           victims == _plan_victims(t)
           old     == IF c \in Parked THEN entry[c].records ELSE {}
           new     == Len(rec) + 1
           R       == [turn : Turns, pinned : Nat]
           x       == [turn |-> t, pinned |-> 0]
<1>1. by_conv' = MoveToEnd(Without(by_conv, victims), c)
  BY DEF store
<1>2. Parked' = (Parked \ victims) \cup {c} /\ OrderOK(by_conv)'
  <2>1. OrderOK(by_conv)
    BY DEF IndexInv
  <2>2. OrderOK(Without(by_conv, victims)) /\ DOMAIN Without(by_conv, victims) = Parked \ victims
    BY <2>1, WithoutKeepsOrder DEF Parked
  <2> HIDE DEF victims, c
  <2> QED  BY <1>1, <2>2, MoveKeepsOrder DEF Parked
<1>3. entry' = [d \in (Parked \ victims) \cup {c} |->
                  IF d = c THEN [records |-> old \cup {new}, full_keys |-> new_keys(t),
                                 nbytes |-> nbytes(t)]
                           ELSE entry[d]]
  BY DEF store
<1>4. rec' = Append(rec, x) /\ rec \in Seq(R)
  BY DEF store, IndexInv, RecordsOK
<1>5. x \in R /\ x.turn = t /\ x.pinned = 0
  BY IndexAssumption
<1> HIDE DEF c, victims, old, R, x
<1>6. /\ rec' \in Seq(R) /\ Len(rec') = new /\ DOMAIN rec' = DOMAIN rec \cup {new}
      /\ new \notin DOMAIN rec /\ rec'[new] = x /\ \A i \in DOMAIN rec : rec'[i] = rec[i]
  BY <1>4, <1>5
<1>7. /\ DOMAIN entry' = Parked'
      /\ entry'[c] = [records |-> old \cup {new}, full_keys |-> new_keys(t), nbytes |-> nbytes(t)]
      /\ \A d \in Parked \ (victims \cup {c}) : entry'[d] = entry[d]
  BY <1>2, <1>3
<1> QED  BY <1>2, <1>5, <1>6, <1>7 DEF c, victims, old, R

LEMMA StoreEffect ==
  ASSUME IndexInv, NEW t \in Turns, store(t)
  PROVE  /\ Parked' = (Parked \ _plan_victims(t)) \cup {conv_id(t)}
         /\ entry'[conv_id(t)].full_keys = new_keys(t)
         /\ entry'[conv_id(t)].nbytes = nbytes(t)
         /\ \A d \in Parked \ (_plan_victims(t) \cup {conv_id(t)}) : entry'[d] = entry[d]
         /\ Len(rec) \in Nat /\ Len(rec') = Len(rec) + 1 /\ Last(rec').turn = t
<1>1. Len(rec) \in Nat
  BY DEF IndexInv, RecordsOK
<1> DEFINE c       == conv_id(t)
           victims == _plan_victims(t)
           old     == IF c \in Parked THEN entry[c].records ELSE {}
           new     == Len(rec) + 1
<1>2. /\ Parked' = (Parked \ victims) \cup {c}
      /\ entry'[c] = [records |-> old \cup {new}, full_keys |-> new_keys(t),
                      nbytes |-> nbytes(t)]
      /\ \A d \in Parked \ (victims \cup {c}) : entry'[d] = entry[d]
      /\ Len(rec') = new /\ rec'[new].turn = t
  BY StoreShape
<1> HIDE DEF c, victims, old, new
<1>3. entry'[c].full_keys = new_keys(t) /\ entry'[c].nbytes = nbytes(t)
  BY <1>2
<1>4. Last(rec').turn = t
  BY <1>2 DEF Last
<1> QED  BY <1>1, <1>2, <1>3, <1>4 DEF c, victims, new

LEMMA InvStore ==
  ASSUME IndexInv, NEW t \in Turns, store(t)
  PROVE  IndexInv'
<1> DEFINE c       == conv_id(t)
           victims == _plan_victims(t)
           old     == IF c \in Parked THEN entry[c].records ELSE {}
           gone    == old \cup UNION {entry[v].records : v \in victims}
           new     == Len(rec) + 1
           e       == [records |-> old \cup {new}, full_keys |-> new_keys(t),
                       nbytes |-> nbytes(t)]
<1>1. /\ Parked' = (Parked \ victims) \cup {c} /\ OrderOK(by_conv)'
      /\ DOMAIN entry' = Parked' /\ entry'[c] = e
      /\ \A d \in Parked \ (victims \cup {c}) : entry'[d] = entry[d]
  BY StoreShape
<1>2. /\ rec' \in Seq([turn : Turns, pinned : Nat])
      /\ DOMAIN rec' = DOMAIN rec \cup {new} /\ new \notin DOMAIN rec
      /\ rec'[new].turn = t
      /\ \A i \in DOMAIN rec : rec'[i] = rec[i]
  BY StoreShape
<1>3. /\ by_tail' = {i \in by_tail : \A j \in gone : Key(rec[i].turn) # Key(rec[j].turn)} \cup {new}
      /\ by_parent' = (by_parent \ gone) \cup {new}
      /\ running' = running \ victims
  BY DEF store, TailsWithout, ParentsWithout
<1>4. c \notin victims /\ victims \subseteq Parked /\ c \in Convs
  BY VictimFacts, ConvOfTurn
<1>5. /\ e.records = old \cup {new} /\ e.full_keys = new_keys(t) /\ e.nbytes = nbytes(t)
  OBVIOUS
<1>6. nbytes(t) \in Nat
  BY KeysFinite
<1>7. IsFiniteSet(Parked')
  <2>1. IsFiniteSet(Parked \ victims)
    BY FS_Difference DEF IndexInv
  <2> QED  BY <1>1, <2>1, FS_AddElement
<1> HIDE DEF c, victims, new, e
<1>8. RecordsOK'
  BY <1>2, <1>3 DEF IndexInv, RecordsOK
<1>9. old \subseteq DOMAIN rec /\ \A i \in old : conv_id(rec[i].turn) = c
  BY DEF IndexInv, EntriesOK
<1>10. EntriesOK'
  <2> SUFFICES ASSUME NEW d \in Parked'
               PROVE  /\ entry'[d].records \subseteq DOMAIN rec'
                      /\ \A i \in entry'[d].records : conv_id(rec'[i].turn) = d
                      /\ \A k \in entry'[d].full_keys :
                           \E u \in Turns : conv_id(u) = d /\ k \in new_keys(u)
                      /\ entry'[d].nbytes \in Nat
    BY <1>1 DEF EntriesOK
  <2>1. CASE d = c
    <3>1. conv_id(t) = c
      BY DEF c
    <3> HIDE DEF old
    <3> QED  BY <1>1, <1>2, <1>5, <1>6, <1>9, <2>1, <3>1
  <2>2. CASE d # c
    BY <1>1, <1>2, <2>2 DEF IndexInv, EntriesOK
  <2> QED  BY <2>1, <2>2
<1>11. ReachableIsParked'
  <2>1. by_tail' \subseteq by_parent'
    BY <1>3 DEF IndexInv, ReachableIsParked
  <2>2. ASSUME NEW i \in by_parent'
        PROVE  conv_id(rec'[i].turn) \in Parked' /\ i \in entry'[conv_id(rec'[i].turn)].records
    <3>1. CASE i = new
      <4>1. conv_id(rec'[i].turn) = c
        BY <1>2, <3>1 DEF c
      <4> QED  BY <1>1, <1>5, <3>1, <4>1
    <3>2. CASE i # new
      <4>1. i \in by_parent /\ i \notin gone /\ i \in DOMAIN rec
        BY <1>3, <2>2, <3>2 DEF IndexInv, RecordsOK
      <4> DEFINE d == conv_id(rec[i].turn)
      <4>2. rec'[i] = rec[i] /\ d \in Parked /\ i \in entry[d].records
        BY <1>2, <4>1 DEF IndexInv, ReachableIsParked
      <4>3. d # c /\ d \notin victims
        BY <4>1, <4>2
      <4> QED  BY <1>1, <4>2, <4>3
    <3> QED  BY <3>1, <3>2
  <2> QED  BY <2>1, <2>2 DEF ReachableIsParked
<1> QED  BY <1>1, <1>3, <1>4, <1>7, <1>8, <1>10, <1>11 DEF IndexInv

-----------------------------------------------------------------------------
(* A discard: the conversation goes with its last record.                  *)
LEMMA DiscardShape ==
  ASSUME IndexInv, NEW i \in DOMAIN rec, discard(i)
  PROVE  LET c    == conv_id(rec[i].turn)
             left == entry[c].records \ {i}
         IN  /\ c \in Parked /\ i \in by_parent
             /\ Parked' = IF left = {} THEN Parked \ {c} ELSE Parked
             /\ OrderOK(by_conv)'
             /\ DOMAIN entry' = Parked'
             /\ c \in Parked' => /\ entry'[c].records = left
                                /\ entry'[c].full_keys = UNION {new_keys(rec[j].turn) : j \in left}
                                /\ entry'[c].nbytes \in Nat
             /\ \A d \in Parked \ {c} : entry'[d] = entry[d]
             /\ UNCHANGED <<rec, running>>
<1> DEFINE c    == conv_id(rec[i].turn)
           left == entry[c].records \ {i}
           all  == UNION {new_keys(rec[j].turn) : j \in left}
           sum  == Cardinality(UNION {{j} \X new_keys(rec[j].turn) : j \in left})
<1>1. c \in Parked /\ i \in by_parent
  BY DEF discard, IndexInv, ReachableIsParked
<1>2. by_conv' = IF left = {} THEN Without(by_conv, {c}) ELSE by_conv
  BY DEF discard
<1>3. Parked' = (IF left = {} THEN Parked \ {c} ELSE Parked) /\ OrderOK(by_conv)'
  <2>1. OrderOK(by_conv)
    BY DEF IndexInv
  <2>2. OrderOK(Without(by_conv, {c})) /\ DOMAIN Without(by_conv, {c}) = Parked \ {c}
    BY <2>1, WithoutKeepsOrder DEF Parked
  <2> HIDE DEF c, left
  <2>3. CASE left = {}
    BY <1>2, <2>2, <2>3 DEF Parked
  <2>4. CASE left # {}
    BY <1>2, <2>1, <2>4 DEF Parked
  <2> QED  BY <2>3, <2>4
<1>4. entry' = [d \in Parked' |->
                  IF d = c THEN [records |-> left, full_keys |-> all, nbytes |-> sum]
                           ELSE entry[d]]
  BY DEF discard
<1>5. sum \in Nat
  <2> DEFINE F == [j \in left |-> {j} \X new_keys(rec[j].turn)]
  <2>1. left \subseteq DOMAIN rec
    BY <1>1 DEF IndexInv, EntriesOK
  <2>2. IsFiniteSet(DOMAIN rec)
    <3>1. DOMAIN rec = 1 .. Len(rec) /\ Len(rec) \in Nat
      BY DEF IndexInv, RecordsOK
    <3> QED  BY <3>1, UpTo
  <2>3. IsFiniteSet(left)
    BY <2>1, <2>2, FS_Subset
  <2>4. ASSUME NEW j \in left  PROVE IsFiniteSet(F[j])
    <3>1. rec[j].turn \in Turns
      BY <2>1, RecordTurn DEF IndexInv
    <3>2. IsFiniteSet(new_keys(rec[j].turn)) /\ IsFiniteSet({j})
      BY <3>1, KeysFinite, FS_Singleton
    <3> QED  BY <3>2, FS_Product
  <2>5. UNION {F[j] : j \in left} = UNION {{j} \X new_keys(rec[j].turn) : j \in left}
    OBVIOUS
  <2>6. IsFiniteSet(UNION {F[j] : j \in left})
    <3> HIDE DEF F, left
    <3> QED  BY <2>3, <2>4, FiniteUnion
  <2> QED  BY <2>5, <2>6, FS_CardinalityType
<1> HIDE DEF c, left, all, sum
<1>6. /\ DOMAIN entry' = Parked'
      /\ c \in Parked' => entry'[c] = [records |-> left, full_keys |-> all, nbytes |-> sum]
      /\ \A d \in Parked \ {c} : entry'[d] = entry[d]
  <2>1. \A d \in Parked \ {c} : d \in Parked'
    BY <1>3
  <2> QED  BY <1>4, <2>1
<1>7. c \in Parked' => /\ entry'[c].records = left /\ entry'[c].full_keys = all
                       /\ entry'[c].nbytes \in Nat
  BY <1>5, <1>6
<1>8. UNCHANGED <<rec, running>>
  BY DEF discard
<1> QED  BY <1>1, <1>3, <1>6, <1>7, <1>8 DEF c, left, all

LEMMA InvDiscard ==
  ASSUME IndexInv, NEW i \in DOMAIN rec, discard(i)
  PROVE  IndexInv'
<1> DEFINE c    == conv_id(rec[i].turn)
           left == entry[c].records \ {i}
<1>1. /\ c \in Parked /\ i \in by_parent
      /\ Parked' = IF left = {} THEN Parked \ {c} ELSE Parked
      /\ OrderOK(by_conv)' /\ DOMAIN entry' = Parked'
      /\ c \in Parked' => /\ entry'[c].records = left
                         /\ entry'[c].full_keys = UNION {new_keys(rec[j].turn) : j \in left}
                         /\ entry'[c].nbytes \in Nat
      /\ \A d \in Parked \ {c} : entry'[d] = entry[d]
      /\ UNCHANGED <<rec, running>>
  BY DiscardShape
<1>2. /\ by_tail' = {j \in by_tail : Key(rec[j].turn) # Key(rec[i].turn)}
      /\ by_parent' = by_parent \ {i}
  BY DEF discard, TailsWithout, ParentsWithout
<1>3. RecordsOK'
  BY <1>1, <1>2 DEF IndexInv, RecordsOK
<1>4. IsFiniteSet(Parked')
  <2>1. IsFiniteSet(Parked) /\ IsFiniteSet(Parked \ {c})
    BY FS_RemoveElement DEF IndexInv
  <2> QED  BY <1>1, <2>1
<1>5. /\ left \subseteq DOMAIN rec
      /\ \A j \in left : conv_id(rec[j].turn) = c /\ rec[j].turn \in Turns
  BY <1>1, RecordTurn DEF IndexInv, EntriesOK
<1>6. ReachableIsParked'
  <2>1. by_tail' \subseteq by_parent'
    BY <1>2 DEF IndexInv, ReachableIsParked
  <2>2. ASSUME NEW j \in by_parent'
        PROVE  conv_id(rec'[j].turn) \in Parked' /\ j \in entry'[conv_id(rec'[j].turn)].records
    <3> DEFINE d == conv_id(rec[j].turn)
    <3>1. j \in by_parent /\ j # i /\ rec'[j] = rec[j]
      BY <1>1, <1>2, <2>2
    <3>2. d \in Parked /\ j \in entry[d].records
      BY <3>1 DEF IndexInv, ReachableIsParked
    <3>3. CASE d = c
      BY <1>1, <3>1, <3>2, <3>3
    <3>4. CASE d # c
      BY <1>1, <3>1, <3>2, <3>4
    <3> QED  BY <3>3, <3>4
  <2> QED  BY <2>1, <2>2 DEF ReachableIsParked
<1> HIDE DEF c, left
<1>7. EntriesOK'
  <2> SUFFICES ASSUME NEW d \in Parked'
               PROVE  /\ entry'[d].records \subseteq DOMAIN rec'
                      /\ \A j \in entry'[d].records : conv_id(rec'[j].turn) = d
                      /\ \A k \in entry'[d].full_keys :
                           \E u \in Turns : conv_id(u) = d /\ k \in new_keys(u)
                      /\ entry'[d].nbytes \in Nat
    BY <1>1 DEF EntriesOK
  <2>1. CASE d = c
    BY <1>1, <1>5, <2>1
  <2>2. CASE d # c
    BY <1>1, <2>2 DEF IndexInv, EntriesOK
  <2> QED  BY <2>1, <2>2
<1> QED  BY <1>1, <1>3, <1>4, <1>6, <1>7 DEF IndexInv

(* Every step keeps the invariant.                                         *)
LEMMA InvNext ==
  ASSUME IndexInv, [Next]_vars
  PROVE  IndexInv'
<1>1. CASE Next
  BY <1>1, InvStore, InvDiscard, InvUnpin, InvLookup, InvFind, InvFindAndPin, InvRunning DEF Next
<1>2. CASE UNCHANGED vars
  BY <1>2 DEF vars, IndexInv, RecordsOK, Parked, OrderOK, EntriesOK, ReachableIsParked
<1> QED  BY <1>1, <1>2

LEMMA IndexInvariant == Spec => []IndexInv
  BY InvInit, InvNext, PTL DEF Spec

(* Every variable keeps its type; in particular the recency order of       *)
(* by_conv stays a strict total order of the parked conversations, and     *)
(* each of them has an entry.                                              *)
THEOREM TypeCorrect == Spec => []TypeOK
  BY IndexInvariant, InvType, PTL

(* The records that find and lookup_key can return belong to parked        *)
(* conversations, through every store, eviction and discard.               *)
THEOREM ReachableParked == Spec => []ReachableIsParked
<1>1. IndexInv => ReachableIsParked
  BY DEF IndexInv
<1> QED  BY <1>1, IndexInvariant, PTL

(* find returns the longest parked tail that is a strict prefix of the     *)
(* prompt, for prompts, turns and blocks of every length.                  *)
THEOREM FindCorrect == Spec => []FindsLongestStrictPrefix
<1>1. IndexInv => FindsLongestStrictPrefix
  <2> SUFFICES ASSUME IndexInv, NEW p \in Prompts
               PROVE  LET fitting == {i \in by_parent : IsStrictPrefix(Key(rec[i].turn), p)}
                      IN  IF fitting = {} THEN find(p) = 0
                          ELSE /\ find(p) \in fitting
                               /\ \A i \in fitting : end(rec[i].turn) <= end(rec[find(p)].turn)
    BY DEF FindsLongestStrictPrefix
  <2>1. \A i \in by_parent : IsStrictPrefix(Key(rec[i].turn), p) <=> Fitting(p, rec[i].turn)
    BY StrictPrefix, RecordTurn DEF IndexInv, RecordsOK
  <2>2. {i \in by_parent : IsStrictPrefix(Key(rec[i].turn), p)}
          = {i \in by_parent : Fitting(p, rec[i].turn)}
    BY <2>1
  <2> QED  BY <2>2, FindLongest DEF IndexInv
<1> QED  BY <1>1, IndexInvariant, PTL

-----------------------------------------------------------------------------
(* What makes room.                                                        *)
LEMMA OnlyStoreStores ==
  ASSUME IndexInv, [Next]_vars, Stored
  PROVE  \E t \in Turns : store(t)
<1>1. RecordsOK /\ Len(rec) \in Nat /\ DOMAIN rec = 1 .. Len(rec)
  BY DEF IndexInv, RecordsOK
<1>2. ASSUME NEW i, rec' = [rec EXCEPT ![i].pinned = @ + 1] \/ rec' = [rec EXCEPT ![i].pinned = @ - 1]
      PROVE  FALSE
  <2>1. DOMAIN rec' = DOMAIN rec
    BY <1>2
  <2>2. \E x : rec' = [rec EXCEPT ![i] = x]
    BY <1>2
  <2>3. Len(rec') = Len(rec)
    BY <1>1, <2>2 DEF RecordsOK
  <2> QED  BY <1>1, <2>3 DEF Stored
<1>3. rec' # rec
  BY <1>1 DEF Stored
<1>4. ~UNCHANGED vars
  BY <1>3 DEF vars
<1>5. \A i : ~discard(i) /\ ~unpin(i) /\ ~lookup_key(i)
  BY <1>2, <1>3 DEF discard, unpin, lookup_key
<1>6. \A p : ~Find(p) /\ ~FindAndPin(p)
  BY <1>2, <1>3 DEF Find, FindAndPin
<1>7. \A c : ~set_running(c)
  BY <1>3 DEF set_running
<1> QED  BY <1>4, <1>5, <1>6, <1>7 DEF Next

(* Dropping more conversations leaves more room.                           *)
LEMMA FitsMonotone ==
  ASSUME IndexInv, NEW t \in Turns, NEW V, NEW W, V \subseteq W, Fits(t, V)
  PROVE  Fits(t, W)
<1> DEFINE A == (Parked \ {conv_id(t)}) \ V
           B == (Parked \ {conv_id(t)}) \ W
<1>1. IsFiniteSet(A) /\ B \in SUBSET A /\ \A c \in A : entry[c].nbytes \in Nat
  BY FS_Subset DEF IndexInv, EntriesOK
<1>2. Cardinality(A) \in Nat /\ Cardinality(B) \in Nat /\ Cardinality(B) <= Cardinality(A)
  <2> HIDE DEF A, B
  <2> QED  BY <1>1, FS_Subset, FS_CardinalityType
<1>3. /\ Cardinality(Units(entry, A)) \in Nat /\ Cardinality(Units(entry, B)) \in Nat
      /\ Cardinality(Units(entry, B)) <= Cardinality(Units(entry, A))
  <2>1. IsFiniteSet(B) /\ \A c \in B : entry[c].nbytes \in Nat
    <3> HIDE DEF A, B
    <3> QED  BY <1>1, FS_Subset
  <2> HIDE DEF A, B
  <2> QED  BY <1>1, <2>1, UnitsFinite, UnitsMonotone
<1>4. nbytes(t) \in Nat
  BY KeysFinite
<1>5. /\ Cardinality(A) + 1 <= slots
      /\ Cardinality(Units(entry, A)) + nbytes(t) <= budget_bytes
  BY DEF Fits, used_bytes, Units
<1> HIDE DEF A, B
<1>6. /\ Cardinality(B) + 1 <= slots
      /\ Cardinality(Units(entry, B)) + nbytes(t) <= budget_bytes
  BY <1>2, <1>3, <1>4, <1>5, IndexAssumption
<1> QED  BY <1>6 DEF Fits, used_bytes, Units, B

(* A set of parked conversations has one used less recently than all the   *)
(* others.                                                                 *)
LEMMA OldestExists ==
  ASSUME IndexInv, NEW S \in SUBSET Parked, S # {}
  PROVE  \E c \in S : by_conv[c] \cap S = {}
<1> DEFINE T == {by_conv[c] : c \in S}
           O == StrictSubsetOrdering(Parked)
<1>1. T \subseteq FiniteSubsetsOf(Parked) /\ T # {}
  BY FS_Subset DEF IndexInv, OrderOK, Parked, FiniteSubsetsOf
<1>2. IsWellFoundedOn(O, FiniteSubsetsOf(Parked))
  BY FS_StrictSubsetOrderingWellFounded
<1>3. PICK x \in T : \A y \in T : ~(<<y, x>> \in O)
  <2> HIDE DEF T, O
  <2> QED  BY <1>1, <1>2, WFMin, Zenon
<1>4. PICK c \in S : x = by_conv[c]
  OBVIOUS
<1>5. ASSUME NEW d \in S, d \in by_conv[c]  PROVE FALSE
  <2>1. by_conv[d] \subseteq by_conv[c] /\ d \notin by_conv[d]
    BY <1>5 DEF IndexInv, OrderOK, Parked
  <2>2. by_conv[d] \in T /\ by_conv[c] \in T
    OBVIOUS
  <2>3. <<by_conv[d], by_conv[c]>> \in O
    BY <1>1, <1>5, <2>1, <2>2 DEF StrictSubsetOrdering, FiniteSubsetsOf
  <2> QED  BY <1>3, <1>4, <2>2, <2>3
<1> QED  BY <1>5

(* The victims make room whenever all the candidates would.                *)
LEMMA VictimsMakeRoom ==
  ASSUME IndexInv, NEW t \in Turns, Fits(t, Candidates(conv_id(t)))
  PROVE  Fits(t, _plan_victims(t))
<1> DEFINE cands == Candidates(conv_id(t))
           kept  == cands \ _plan_victims(t)
<1>1. _plan_victims(t) = {c \in cands : ~Fits(t, cands \cap by_conv[c])}
  BY DEF _plan_victims
<1>2. cands \subseteq Parked
  BY DEF Candidates
<1>3. CASE kept = {}
  BY <1>1, <1>3, FitsMonotone
<1>4. CASE kept # {}
  <2>1. PICK c \in kept : by_conv[c] \cap kept = {}
    BY <1>2, <1>4, OldestExists
  <2>2. Fits(t, cands \cap by_conv[c])
    BY <1>1
  <2>3. cands \cap by_conv[c] \subseteq _plan_victims(t)
    BY <2>1
  <2> QED  BY <2>2, <2>3, FitsMonotone
<1> QED  BY <1>3, <1>4

(* Every store leaves at most slots conversations that take at most        *)
(* budget_bytes together, whatever earlier discards left in the sums.      *)
THEOREM StoresMakeRoom == Spec => StoreMakesRoom
<1>1. ASSUME IndexInv, [Next]_vars, Stored
      PROVE  Cardinality(Parked') <= slots /\ used_bytes(Parked)' <= budget_bytes
  <2>1. PICK t \in Turns : store(t)
    BY <1>1, OnlyStoreStores
  <2> DEFINE c      == conv_id(t)
             others == (Parked \ {c}) \ _plan_victims(t)
  <2>2. Fits(t, _plan_victims(t))
    BY <1>1, <2>1, VictimsMakeRoom DEF store, Admitted
  <2>3. /\ Cardinality(others) + 1 <= slots
        /\ Cardinality(Units(entry, others)) + nbytes(t) <= budget_bytes
    BY <2>2 DEF Fits, used_bytes, Units
  <2>4. /\ Parked' = others \cup {c} /\ c \notin others
        /\ entry'[c].nbytes = nbytes(t)
        /\ \A d \in others : entry'[d] = entry[d]
    BY <1>1, <2>1, StoreEffect, VictimFacts
  <2>5. IsFiniteSet(others) /\ (\A d \in others : entry[d].nbytes \in Nat) /\ nbytes(t) \in Nat
    BY <1>1, FS_Subset, KeysFinite DEF IndexInv, EntriesOK
  <2> HIDE DEF c, others
  <2>6. Cardinality(Parked') = Cardinality(others) + 1
    BY <2>4, <2>5, FS_AddElement
  <2>7. Units(entry', others) = Units(entry, others)
    BY <2>4, UnitsSame
  <2>8. Cardinality(Units(entry', others \cup {c})) =
          Cardinality(Units(entry', others)) + entry'[c].nbytes
    BY <2>4, <2>5, UnitsAdd
  <2>9. used_bytes(Parked)' = Cardinality(Units(entry', Parked'))
    BY DEF used_bytes, Units
  <2> QED  BY <2>3, <2>4, <2>6, <2>7, <2>8, <2>9
<1>2. IndexInv /\ [Next]_vars =>
        [Stored => /\ Cardinality(Parked') <= slots
                   /\ used_bytes(Parked)' <= budget_bytes]_vars
  BY <1>1
<1> QED  BY <1>2, IndexInvariant, PTL DEF Spec, StoreMakesRoom

(* No store evicts a running conversation or one with a pinned record, and *)
(* no other step drops one with a pinned record.                           *)
THEOREM ProtectedStay == Spec => ProtectedConversationsStay
<1>1. ASSUME IndexInv, [Next]_vars, NEW c \in Parked, pinned(c) \/ (Stored /\ c \in running)
      PROVE  c \in Parked'
  <2>1. CASE Stored
    <3>1. PICK t \in Turns : store(t)
      BY <1>1, <2>1, OnlyStoreStores
    <3>2. Protected(c)
      BY <1>1 DEF Protected
    <3> QED  BY <1>1, <3>1, <3>2, StoreEffect, VictimFacts
  <2>2. CASE ~Stored
    <3>1. pinned(c)
      BY <1>1, <2>2
    <3>2. ASSUME NEW t \in Turns, store(t)  PROVE FALSE
      BY <1>1, <2>2, <3>2, StoreEffect DEF Stored
    <3>3. ASSUME NEW i \in DOMAIN rec, discard(i)  PROVE c \in Parked'
      <4> DEFINE d    == conv_id(rec[i].turn)
                 left == entry[d].records \ {i}
      <4>1. Parked' = IF left = {} THEN Parked \ {d} ELSE Parked
        BY <1>1, <3>3, DiscardShape
      <4>2. PICK j \in entry[c].records : rec[j].pinned > 0
        BY <3>1 DEF pinned
      <4>3. j # i
        BY <3>3, <4>2 DEF discard
      <4> QED  BY <4>1, <4>2, <4>3
    <3>4. ASSUME NEW i \in DOMAIN rec, unpin(i) \/ lookup_key(i)  PROVE c \in Parked'
      BY <3>4 DEF unpin, lookup_key, MoveToEnd, Parked
    <3>5. ASSUME NEW p \in Prompts, Find(p) \/ FindAndPin(p)  PROVE c \in Parked'
      BY <3>5 DEF Find, FindAndPin, MoveToEnd, Parked
    <3>6. ASSUME NEW d \in Convs, set_running(d)  PROVE c \in Parked'
      BY <3>6 DEF set_running, Parked
    <3>7. ASSUME UNCHANGED vars  PROVE c \in Parked'
      BY <3>7 DEF vars, Parked
    <3> QED  BY <1>1, <3>2, <3>3, <3>4, <3>5, <3>6, <3>7 DEF Next
  <2> QED  BY <2>1, <2>2
<1>2. IndexInv /\ [Next]_vars =>
        [\A c \in Parked : pinned(c) \/ (Stored /\ c \in running) => c \in Parked']_vars
  BY <1>1
<1> QED  BY <1>2, IndexInvariant, PTL DEF Spec, ProtectedConversationsStay

(* Eviction follows the recency order: a conversation only goes when each  *)
(* one used less recently goes too, is protected, or is being stored.      *)
THEOREM OldestGoFirst == Spec => EvictsOldestFirst
<1>1. ASSUME IndexInv, [Next]_vars, Stored,
             NEW c \in Parked \ Parked', NEW d \in by_conv[c], d \in Parked'
      PROVE  Protected(d) \/ d = conv_id(Last(rec').turn)
  <2>1. PICK t \in Turns : store(t)
    BY <1>1, OnlyStoreStores
  <2> DEFINE cands == Candidates(conv_id(t))
  <2>2. _plan_victims(t) = {v \in cands : ~Fits(t, cands \cap by_conv[v])}
    BY DEF _plan_victims
  <2>3. c \in _plan_victims(t)
    BY <1>1, <2>1, StoreEffect
  <2>4. d \in Parked /\ by_conv[d] \subseteq by_conv[c]
    BY <1>1 DEF IndexInv, OrderOK, Parked
  <2>5. ASSUME d \in cands  PROVE FALSE
    <3>1. ~Fits(t, cands \cap by_conv[d])
      BY <1>1, <2>2, <2>3, <2>4, FitsMonotone
    <3>2. d \in _plan_victims(t)
      BY <2>2, <2>5, <3>1
    <3>3. d # conv_id(t)
      BY <3>2, VictimFacts
    <3> QED  BY <1>1, <2>1, <3>2, <3>3, StoreEffect
  <2>6. Protected(d) \/ d = conv_id(t)
    BY <2>4, <2>5 DEF Candidates
  <2>7. Last(rec').turn = t
    BY <1>1, <2>1, StoreEffect
  <2> QED  BY <2>6, <2>7
<1>2. IndexInv /\ [Next]_vars =>
        [Stored =>
           \A c \in Parked \ Parked' : \A d \in by_conv[c] :
             d \in Parked' => Protected(d) \/ d = conv_id(Last(rec').turn)]_vars
  BY <1>1
<1> QED  BY <1>2, IndexInvariant, PTL DEF Spec, EvictsOldestFirst

(* The keys a store reports as released are exactly those that no parked   *)
(* conversation owns any more: keys name their conversation, so what a     *)
(* victim owned is nobody else's.                                          *)
THEOREM ReleasesExactly == Spec => ReleasesWhatItDrops
<1>1. ASSUME IndexInv, [Next]_vars, Stored
      PROVE  released_keys(Last(rec').turn) = Owned \ Owned'
  <2>1. PICK t \in Turns : store(t)
    BY <1>1, OnlyStoreStores
  <2> DEFINE c       == conv_id(t)
             victims == _plan_victims(t)
  <2>2. Last(rec').turn = t
    BY <1>1, <2>1, StoreEffect
  <2>3. /\ Parked' = (Parked \ victims) \cup {c}
        /\ entry'[c].full_keys = new_keys(t)
        /\ \A d \in Parked \ (victims \cup {c}) : entry'[d] = entry[d]
    BY <1>1, <2>1, StoreEffect
  <2>4. victims \subseteq Parked /\ c \notin victims
    BY VictimFacts
  <2>5. \A d \in Parked : \A k \in entry[d].full_keys :
          \E u \in Turns : conv_id(u) = d /\ k \in new_keys(u)
    BY <1>1 DEF IndexInv, EntriesOK
  <2>6. \A d, e \in Parked : d # e => entry[d].full_keys \cap entry[e].full_keys = {}
    BY <2>5, KeysNameConversation
  <2>7. \A d \in Parked \ {c} : entry[d].full_keys \cap new_keys(t) = {}
    BY <2>5, KeysNameConversation
  <2>8. \A k : k \in UNION {entry[v].full_keys : v \in _plan_victims(t)}
               <=> \E v \in _plan_victims(t) : k \in entry[v].full_keys
    OBVIOUS
  <2>9. \A k : k \in UNION {entry[d].full_keys \ new_keys(t) : d \in {conv_id(t)} \cap Parked}
               <=> conv_id(t) \in Parked /\ k \in entry[conv_id(t)].full_keys
                   /\ k \notin new_keys(t)
    OBVIOUS
  <2>10. \A k : k \in released_keys(t) <=>
          \/ \E v \in victims : k \in entry[v].full_keys
          \/ c \in Parked /\ k \in entry[c].full_keys /\ k \notin new_keys(t)
    BY <2>8, <2>9 DEF released_keys
  <2> HIDE DEF c, victims
  <2>11. \A k : k \in Owned <=> \E d \in Parked : k \in entry[d].full_keys
    BY DEF Owned
  <2>12. \A k : k \in Owned' <=>
          \/ k \in new_keys(t)
          \/ \E d \in Parked \ (victims \cup {c}) : k \in entry[d].full_keys
    BY <2>3 DEF Owned
  <2>13. \A k : k \in released_keys(t) <=> k \in Owned /\ k \notin Owned'
    BY <2>4, <2>6, <2>7, <2>10, <2>11, <2>12
  <2> QED  BY <2>2, <2>13
<1>2. IndexInv /\ [Next]_vars =>
        [Stored => released_keys(Last(rec').turn) = Owned \ Owned']_vars
  BY <1>1
<1> QED  BY <1>2, IndexInvariant, PTL DEF Spec, ReleasesWhatItDrops

=============================================================================
