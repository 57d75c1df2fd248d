----------------------------- MODULE HostProofs -----------------------------
(***************************************************************************)
(* Lemmas about the operations of HostCatalog, for any request: what the   *)
(* proofs about CatalogClients and about DurableLane have in common.       *)
(***************************************************************************)
EXTENDS HostCatalog, FiniteSetTheorems, WellFoundedInduction, TLAPS

\* What every request satisfies that StorageV2IngestRequest lets through.
IsRequest(env) ==
    /\ env.source \in Sources /\ env.epoch \in Epochs /\ env.pred \in Epochs \cup {None}
    /\ env.start \in Nat /\ env.end \in Nat /\ env.start <= env.end
    /\ env.session \in Sessions

-----------------------------------------------------------------------------
(* Facts about the operators.                                              *)

\* What an admitted envelope has passed: the conditions on the path through
\* commit_raw_object that ends in an insert.
LEMMA AdmittedFacts ==
    ASSUME NEW env, NEW screen, screen \notin {"created", "replay"},
           Verdict(env, screen) = "created"
    PROVE  /\ env.session \notin tombstones
           /\ env.epoch \notin Known => ~LineageConflict(env)
           /\ env.epoch \in Known => ~EpochMismatch(env)
           /\ ~RangeConflict(env)
BY DEF Verdict

\* A refused envelope is not one of a deleted session.
LEMMA RefusedFacts ==
    ASSUME NEW env, NEW screen, Verdict(env, screen) = "conflict"
    PROVE  env.session \notin tombstones
BY DEF Verdict

\* The walk over gap-free ranges ends at the highest end.
LEMMA PrefixOfGapFree ==
    ASSUME NEW R, NEW a \in Nat,
           \A r \in R : r.start \in Nat /\ r.end \in Nat /\ r.start <= r.end,
           \E b \in R : \A r \in R : b.start <= r.start,
           \E t \in R : t.end = a,
           \A r \in R : r.end <= a,
           \A r \in R : \A q \in r.start .. (a - 1) : \E t \in R : t.start <= q /\ q < t.end
    PROVE  ContiguousPrefix(R) = a
<1> DEFINE lowest == CHOOSE p \in {r.start : r \in R} : \A r \in R : p <= r.start
           ends == {lowest} \cup {r.end : r \in R}
           Covered(p) == \A q \in lowest .. (p - 1) :
                             \E r \in R : r.start <= q /\ q < r.end
           Last(p) == Covered(p) /\ \A q \in ends : Covered(q) => q <= p
<1>1. /\ lowest \in {r.start : r \in R}
      /\ \A r \in R : lowest <= r.start
    <2>1. PICK b \in R : \A r \in R : b.start <= r.start
        OBVIOUS
    <2>2. b.start \in {r.start : r \in R} /\ \A r \in R : b.start <= r.start
        BY <2>1
    <2>3. QED BY <2>2
<1>2. PICK b \in R : lowest = b.start
    BY <1>1
<1>3. a \in ends /\ Covered(a)
    BY <1>2
<1>4. ASSUME NEW p \in ends PROVE p <= a /\ p \in Nat
    <2>1. lowest \in Nat
        BY <1>2
    <2>2. lowest <= a
        <3>1. b.start <= a
            <4>1. b.start <= b.end /\ b.end <= a /\ b.start \in Nat /\ b.end \in Nat
                OBVIOUS
            <4>2. QED BY <4>1
        <3>2. QED BY <1>2, <3>1
    <2>3. QED BY <2>1, <2>2
<1>5. Last(a)
    BY <1>3, <1>4
<1>6. PICK p \in ends : Last(p) /\ p = CHOOSE x \in ends : Last(x)
    BY <1>3, <1>5
<1>7. p = a
    <2>1. p <= a /\ p \in Nat
        BY <1>4
    <2>2. a <= p
        BY <1>3, <1>6
    <2>3. QED BY <2>1, <2>2
<1>8. R # {}
    OBVIOUS
<1>9. ContiguousPrefix(R) = CHOOSE x \in ends : Last(x)
    BY <1>8 DEF ContiguousPrefix
<1>10. QED BY <1>6, <1>7, <1>9

\* The range check of commit_raw_object compares with the stored watermark.
LEMMA WatermarkIsComputed ==
    ASSUME HostInv, NEW env, env.epoch \in Known, ~EpochMismatch(env),
           env.session \notin tombstones, RawIn(env.epoch) # {}
    PROVE  /\ ActiveIn(env.epoch) = RawIn(env.epoch)
           /\ AcceptedThrough(env) = epochs[env.epoch].accepted
<1> DEFINE e == env.epoch
<1>1. ActiveIn(e) = RawIn(e)
    BY DEF HostInv, RetiredWithCause, EpochMismatch, ActiveIn, RawIn
<1>2. epochs[e].accepted \in Nat
    BY DEF HostInv, HostTypeOK, EpochRow
<1>3. \A r \in RawIn(e) : r.start \in Nat /\ r.end \in Nat /\ r.start <= r.end
    BY DEF HostInv, HostTypeOK, RawIn
<1>4. /\ \E b \in RawIn(e) : \A r \in RawIn(e) : b.start <= r.start
      /\ \E t \in RawIn(e) : t.end = epochs[e].accepted
    BY DEF HostInv, Based
<1>5. /\ \A r \in RawIn(e) : r.end <= epochs[e].accepted
      /\ \A r \in RawIn(e) : \A q \in r.start .. (epochs[e].accepted - 1) :
             \E t \in RawIn(e) : t.start <= q /\ q < t.end
    BY DEF HostInv, ContiguousArchive
<1>6. ContiguousPrefix(RawIn(e)) = epochs[e].accepted
    BY <1>2, <1>3, <1>4, <1>5, PrefixOfGapFree
<1>7. QED BY <1>1, <1>6 DEF AcceptedThrough

-----------------------------------------------------------------------------
(* The loop over the stored ranges.                                        *)

\* A set of naturals has a least member.
LEMMA LeastMember ==
    ASSUME NEW T, T \subseteq Nat, T # {}
    PROVE  \E m \in T : \A k \in T : m <= k
<1> DEFINE R == {ss \in Nat \X Nat : ss[1] < ss[2]}
<1>1. IsWellFoundedOn(R, Nat)
    BY NatLessThanWellFounded DEF OpToRel
<1>2. PICK m \in T : \A k \in T : ~(<<k, m>> \in R)
    <2> HIDE DEF R
    <2> QED BY <1>1, WFMin
<1>3. \A k \in T : ~(k < m)
    BY <1>2
<1>4. QED BY <1>3

\* The state of the loop of _contiguous_range_prefix when it comes to row i, and
\* what it makes of the row.
StateBefore(rows, w, i) == IF i = 1 THEN [through |-> rows[1].start, stopped |-> FALSE] ELSE w[i - 1]

StateAfter(rows, before, i) ==
    IF \/ before.stopped
       \/ rows[i].start # before.through
       \/ rows[i].end < rows[i].start
      THEN [through |-> before.through, stopped |-> TRUE]
      ELSE [through |-> rows[i].end, stopped |-> FALSE]

IsWalk(rows, w, n) == w = [i \in 1 .. n |-> StateAfter(rows, StateBefore(rows, w, i), i)]

\* The loop has a state after every row: the function that Walk defines by
\* recursion exists, by extending it row by row.
LEMMA WalkExists ==
    ASSUME NEW rows, NEW n \in Nat
    PROVE  \E w : IsWalk(rows, w, n)
<1> DEFINE T == {m \in Nat : ~\E w : IsWalk(rows, w, m)}
<1>1. SUFFICES ASSUME T # {} PROVE FALSE
    OBVIOUS
<1>2. PICK m \in T : \A k \in T : m <= k
    BY <1>1, LeastMember
<1>3. CASE m = 0
    <2> DEFINE w == [i \in 1 .. 0 |-> 0]
    <2>1. 1 .. 0 = {}
        OBVIOUS
    <2>2. w = [i \in 1 .. 0 |-> StateAfter(rows, StateBefore(rows, w, i), i)]
        BY <2>1
    <2>3. QED BY <1>2, <1>3, <2>2 DEF IsWalk
<1>4. CASE m # 0
    <2>1. m \in Nat /\ m - 1 \in Nat /\ m - 1 \notin T
        BY <1>2, <1>4
    <2>2. PICK v : IsWalk(rows, v, m - 1)
        BY <2>1
    <2> DEFINE w == [i \in 1 .. m |-> IF i < m THEN v[i] ELSE StateAfter(rows, StateBefore(rows, v, i), i)]
    <2>3. ASSUME NEW i \in 1 .. m PROVE StateBefore(rows, w, i) = StateBefore(rows, v, i)
        <3>1. i = 1 \/ (i - 1 \in 1 .. m /\ i - 1 < m)
            BY <2>1
        <3>2. QED BY <3>1 DEF StateBefore
    <2>4. ASSUME NEW i \in 1 .. m PROVE w[i] = StateAfter(rows, StateBefore(rows, w, i), i)
        <3>1. CASE i < m
            <4>1. i \in 1 .. (m - 1) /\ w[i] = v[i]
                BY <2>1, <3>1
            <4>2. v[i] = StateAfter(rows, StateBefore(rows, v, i), i)
                BY <2>2, <4>1 DEF IsWalk
            <4>3. QED BY <2>3, <4>1, <4>2
        <3>2. CASE ~(i < m)
            BY <2>3, <3>2
        <3>3. QED BY <3>1, <3>2
    <2>5. w = [i \in 1 .. m |-> StateAfter(rows, StateBefore(rows, w, i), i)]
        <3> DEFINE u == [i \in 1 .. m |-> StateAfter(rows, StateBefore(rows, w, i), i)]
        <3>1. \A i \in 1 .. m : w[i] = u[i]
            BY <2>4
        <3>2. w = [i \in 1 .. m |-> w[i]]
            OBVIOUS
        <3> HIDE DEF w
        <3>3. u = [i \in 1 .. m |-> u[i]]
            OBVIOUS
        <3> HIDE DEF u
        <3>4. w = u
            BY <3>1, <3>2, <3>3
        <3>5. QED BY <3>4 DEF u
    <2>6. IsWalk(rows, w, m)
        BY <2>5 DEF IsWalk
    <2>7. QED BY <1>2, <2>6
<1>5. QED BY <1>3, <1>4

\* So Walk is the function of its definition.
LEMMA WalkIsRecursive ==
    ASSUME NEW rows, NEW n \in Nat, DOMAIN rows = 1 .. n
    PROVE  IsWalk(rows, Walk(rows), n)
<1>1. PICK w : IsWalk(rows, w, n)
    BY WalkExists
<1>2. Walk(rows) = CHOOSE v : v = [i \in 1 .. n |-> StateAfter(rows, StateBefore(rows, v, i), i)]
    BY DEF Walk, StateAfter, StateBefore
<1>3. QED BY <1>1, <1>2 DEF IsWalk

\* Of two neighbours in a listing of gap-free ranges the second starts where the
\* first ends.
LEMMA NeighboursMeet ==
    ASSUME NEW R, NEW a \in Nat, Cardinality(R) \in Nat, NEW rows \in Listings(R),
           \A r \in R : r.start \in Nat /\ r.end \in Nat /\ r.start <= r.end,
           \A r \in R : r.end <= a,
           \A r \in R : \A q \in r.start .. (a - 1) : \E t \in R : t.start <= q /\ q < t.end,
           \A r, t \in R : r # t => r.end <= t.start \/ t.end <= r.start,
           NEW i \in 1 .. Cardinality(R), i + 1 \in 1 .. Cardinality(R)
    PROVE  rows[i + 1].start = rows[i].end
<1> DEFINE n == Cardinality(R)
           r == rows[i]
           s == rows[i + 1]
<1>1. /\ rows \in [1 .. n -> R] /\ DOMAIN rows = 1 .. n
      /\ \A x \in R : \E j \in 1 .. n : rows[j] = x
      /\ \A j, k \in 1 .. n : j < k =>
              /\ rows[j] # rows[k]
              /\ \/ rows[j].start < rows[k].start
                 \/ rows[j].start = rows[k].start /\ rows[j].end <= rows[k].end
    BY DEF Listings
<1>2. r \in R /\ s \in R
    BY <1>1
<1>3. /\ r.start \in Nat /\ r.end \in Nat /\ r.start <= r.end
      /\ s.start \in Nat /\ s.end \in Nat /\ s.start <= s.end /\ s.end <= a
    BY <1>2
<1>4. /\ r # s
      /\ r.start < s.start \/ (r.start = s.start /\ r.end <= s.end)
    BY <1>1
<1>5. r.end <= s.start \/ s.end <= r.start
    BY <1>2, <1>4
<1>6. r.end <= s.start
    <2> HIDE DEF r, s
    <2> QED BY <1>3, <1>4, <1>5
<1>7. SUFFICES ASSUME r.end < s.start PROVE FALSE
    <2>1. r.end = s.start
        <3> HIDE DEF r, s
        <3> QED BY <1>3, <1>6, <1>7
    <2>2. QED BY <2>1
<1>8. r.end \in r.start .. (a - 1)
    <2> HIDE DEF r, s
    <2> QED BY <1>3, <1>7
<1>9. PICK t \in R : t.start <= r.end /\ r.end < t.end
    BY <1>2, <1>8
<1>10. PICK j \in 1 .. n : rows[j] = t
    BY <1>1
<1>11. t.start \in Nat /\ t.end \in Nat
    BY <1>9
<1>12. CASE j = i
    BY <1>3, <1>9, <1>10, <1>11, <1>12
<1>13. CASE j < i
    <2>1. /\ t # r
          /\ t.start < r.start \/ (t.start = r.start /\ t.end <= r.end)
        BY <1>1, <1>10, <1>13
    <2>2. t.end <= r.start \/ r.end <= t.start
        BY <1>2, <1>9, <2>1
    <2> HIDE DEF r, s
    <2> QED BY <1>3, <1>9, <1>11, <2>1, <2>2
<1>14. CASE i < j
    <2>1. j = i + 1 \/ i + 1 < j
        BY <1>14
    <2>2. s.start <= t.start
        <3>1. CASE j = i + 1
            BY <1>3, <1>10, <3>1
        <3>2. CASE i + 1 < j
            BY <1>1, <1>3, <1>10, <1>11, <3>2
        <3>3. QED BY <2>1, <3>1, <3>2
    <2> HIDE DEF r, s
    <2> QED BY <1>3, <1>7, <1>9, <1>11, <2>2
<1>15. QED BY <1>12, <1>13, <1>14

\* The loop never leaves gap-free ranges and ends at the highest end.
LEMMA WalkOfGapFree ==
    ASSUME NEW R, NEW a \in Nat, Cardinality(R) \in Nat \ {0}, NEW rows \in Listings(R),
           \A r \in R : r.start \in Nat /\ r.end \in Nat /\ r.start <= r.end,
           \A r \in R : r.end <= a,
           \E t \in R : t.end = a,
           \A r \in R : \A q \in r.start .. (a - 1) : \E t \in R : t.start <= q /\ q < t.end,
           \A r, t \in R : r # t => r.end <= t.start \/ t.end <= r.start
    PROVE  Walk(rows)[Cardinality(R)].through = a
<1> DEFINE n == Cardinality(R)
           w == Walk(rows)
           Ok(i) == w[i] = [through |-> rows[i].end, stopped |-> FALSE]
           T == {i \in 1 .. n : ~Ok(i)}
<1>1. /\ rows \in [1 .. n -> R] /\ DOMAIN rows = 1 .. n
      /\ \A x \in R : \E j \in 1 .. n : rows[j] = x
      /\ \A j, k \in 1 .. n : j < k =>
              /\ rows[j] # rows[k]
              /\ \/ rows[j].start < rows[k].start
                 \/ rows[j].start = rows[k].start /\ rows[j].end <= rows[k].end
    BY DEF Listings
<1>2. \A i \in 1 .. n : w[i] = StateAfter(rows, StateBefore(rows, w, i), i)
    <2>1. IsWalk(rows, w, n)
        BY <1>1, WalkIsRecursive
    <2> HIDE DEF w
    <2> QED BY <2>1 DEF IsWalk
<1>3. T = {}
    <2>1. SUFFICES ASSUME T # {} PROVE FALSE
        OBVIOUS
    <2>2. PICK i \in T : \A k \in T : i <= k
        <3>1. T \subseteq Nat
            OBVIOUS
        <3> HIDE DEF T
        <3>2. QED BY <2>1, <3>1, LeastMember
    <2>3. i \in 1 .. n /\ ~Ok(i)
        BY <2>2
    <2>4. rows[i].start \in Nat /\ rows[i].end \in Nat /\ rows[i].start <= rows[i].end
        BY <1>1, <2>3
    <2>5. StateBefore(rows, w, i) = [through |-> rows[i].start, stopped |-> FALSE]
        <3>1. CASE i = 1
            BY <3>1 DEF StateBefore
        <3>2. CASE i # 1
            <4>1. i - 1 \in 1 .. n /\ i - 1 \notin T /\ (i - 1) + 1 = i
                BY <2>2, <2>3, <3>2
            <4>2. Ok(i - 1)
                BY <4>1
            <4>3. rows[i].start = rows[i - 1].end
                <5> DEFINE j == i - 1
                <5>1. j \in 1 .. n /\ j + 1 \in 1 .. n
                    BY <2>3, <4>1
                <5> HIDE DEF j
                <5>2. rows[j + 1].start = rows[j].end
                    BY <5>1, NeighboursMeet
                <5>3. QED BY <4>1, <5>2 DEF j
            <4>4. QED BY <3>2, <4>2, <4>3 DEF StateBefore
        <3>3. QED BY <3>1, <3>2
    <2>6. Ok(i)
        <3>1. w[i] = StateAfter(rows, [through |-> rows[i].start, stopped |-> FALSE], i)
            BY <1>2, <2>3, <2>5
        <3> HIDE DEF w
        <3>2. QED BY <2>4, <3>1 DEF StateAfter
    <2>7. QED BY <2>3, <2>6
<1>4. Ok(n)
    BY <1>3
<1>5. rows[n].end = a
    <2>1. PICK t \in R : t.end = a
        OBVIOUS
    <2>2. PICK j \in 1 .. n : rows[j] = t
        BY <1>1
    <2> DEFINE r == rows[n]
    <2>3. r \in R
        BY <1>1
    <2>4. /\ t.start \in Nat /\ t.end \in Nat /\ t.start <= t.end
          /\ r.start \in Nat /\ r.end \in Nat /\ r.start <= r.end /\ r.end <= a
        BY <2>1, <2>3
    <2>5. CASE j = n
        BY <2>1, <2>2, <2>5
    <2>6. CASE j # n
        <3>1. j < n
            BY <2>6
        <3>2. /\ t # r
              /\ t.start < r.start \/ (t.start = r.start /\ t.end <= r.end)
            BY <1>1, <2>2, <3>1
        <3>3. t.end <= r.start \/ r.end <= t.start
            BY <2>1, <2>3, <3>2
        <3>4. r.end = a
            <4> HIDE DEF r
            <4> QED BY <2>1, <2>4, <3>2, <3>3
        <3>5. QED BY <3>4
    <2>7. QED BY <2>5, <2>6
<1>6. w[n].through = a
    <2> HIDE DEF w
    <2> QED BY <1>4, <1>5
<1>7. QED BY <1>6

\* A finite set of rows can be listed in order: a row is inserted before the first
\* that does not precede it.
LEMMA ListingExists ==
    ASSUME NEW R, IsFiniteSet(R), \A r \in R : r.start \in Nat /\ r.end \in Nat
    PROVE  Listings(R) # {}
<1> DEFINE T == {m \in Nat : \E Q \in SUBSET R : Cardinality(Q) = m /\ Listings(Q) = {}}
<1>1. SUFFICES ASSUME Listings(R) = {} PROVE FALSE
    OBVIOUS
<1>2. Cardinality(R) \in T
    BY <1>1, FS_CardinalityType
<1>3. PICK m \in T : \A k \in T : m <= k
    <2>1. T \subseteq Nat /\ T # {}
        BY <1>2
    <2> HIDE DEF T
    <2>2. QED BY <2>1, LeastMember
<1>4. PICK Q \in SUBSET R : Cardinality(Q) = m /\ Listings(Q) = {}
    BY <1>3
<1>5. m \in Nat /\ IsFiniteSet(Q)
    BY <1>3, <1>4, FS_Subset
<1>6. CASE Q = {}
    <2>1. m = 0
        BY <1>4, <1>6, FS_EmptySet
    <2> DEFINE rows == [i \in 1 .. 0 |-> 0]
    <2>2. 1 .. 0 = {}
        OBVIOUS
    <2>3. rows \in Listings(Q)
        BY <1>4, <1>6, <2>1, <2>2 DEF Listings
    <2>4. QED BY <1>4, <2>3
<1>7. CASE Q # {}
    <2>1. PICK x \in Q : TRUE
        BY <1>7
    <2> DEFINE P == Q \ {x}
    <2>2. /\ IsFiniteSet(P) /\ Cardinality(P) = m - 1 /\ m - 1 \in Nat /\ P \in SUBSET R
        <3>1. IsFiniteSet(P) /\ Cardinality(P) = Cardinality(Q) - 1
            BY <1>5, <2>1, FS_RemoveElement
        <3>2. Cardinality(P) \in Nat
            BY <3>1, FS_CardinalityType
        <3>3. QED BY <1>4, <3>1, <3>2
    <2>3. Listings(P) # {}
        <3>1. m - 1 \notin T
            BY <1>3, <1>5, <2>2
        <3>2. QED BY <2>2, <3>1
    <2>4. PICK l \in Listings(P) : TRUE
        BY <2>3
    <2> HIDE DEF P
    <2>5. /\ l \in [1 .. (m - 1) -> P]
          /\ \A r \in P : \E i \in 1 .. (m - 1) : l[i] = r
          /\ \A i, j \in 1 .. (m - 1) : i < j =>
                /\ l[i] # l[j]
                /\ \/ l[i].start < l[j].start
                   \/ l[i].start = l[j].start /\ l[i].end <= l[j].end
        BY <2>2, <2>4 DEF Listings
    <2> DEFINE Precedes(r, t) == \/ r.start < t.start
                                 \/ r.start = t.start /\ r.end <= t.end
               S == {i \in 1 .. m : i = m \/ ~Precedes(l[i], x)}
    <2>6. PICK p \in S : \A k \in S : p <= k
        <3>1. S \subseteq Nat /\ m \in S
            BY <1>5, <2>2
        <3> HIDE DEF S
        <3>2. QED BY <3>1, LeastMember
    <2>7. /\ p \in 1 .. m
          /\ \A i \in 1 .. (m - 1) : i < p => Precedes(l[i], x)
          /\ p \in 1 .. (m - 1) => ~Precedes(l[p], x)
        BY <1>5, <2>6
    <2> HIDE DEF S
    <2>8. ASSUME NEW r \in Q PROVE r.start \in Nat /\ r.end \in Nat
        BY <1>4
    <2>9. /\ P \subseteq Q /\ x \notin P /\ \A r \in Q : r = x \/ r \in P
        BY DEF P
    <2>10. ASSUME NEW i \in 1 .. (m - 1) PROVE l[i] \in P /\ l[i] \in Q /\ l[i] # x
        BY <2>5, <2>9
    <2>11. ASSUME NEW i \in 1 .. (m - 1), p <= i PROVE Precedes(x, l[i])
        <3>1. ~Precedes(l[p], x) /\ p \in 1 .. (m - 1)
            BY <2>2, <2>7, <2>11
        <3>2. p = i \/ Precedes(l[p], l[i])
            BY <2>5, <2>7, <2>11, <3>1
        <3>3. /\ x.start \in Nat /\ x.end \in Nat
              /\ l[p].start \in Nat /\ l[p].end \in Nat
              /\ l[i].start \in Nat /\ l[i].end \in Nat
            BY <2>1, <2>8, <2>10, <3>1
        <3>4. QED BY <3>1, <3>2, <3>3
    <2> DEFINE rows == [i \in 1 .. m |-> IF i < p THEN l[i] ELSE IF i = p THEN x ELSE l[i - 1]]
    <2>12. ASSUME NEW i \in 1 .. m
           PROVE  /\ i < p => i \in 1 .. (m - 1) /\ rows[i] = l[i]
                  /\ i = p => rows[i] = x
                  /\ p < i => i - 1 \in 1 .. (m - 1) /\ p <= i - 1 /\ rows[i] = l[i - 1]
        BY <1>5, <2>2, <2>7
    <2>13. DOMAIN rows = 1 .. m
        OBVIOUS
    <2>14. rows \in [1 .. m -> Q]
        <3>1. \A i \in 1 .. m : rows[i] \in Q
            <4> SUFFICES ASSUME NEW i \in 1 .. m PROVE rows[i] \in Q
                OBVIOUS
            <4> HIDE DEF rows
            <4>1. i < p \/ i = p \/ p < i
                BY <2>7
            <4>2. QED BY <2>1, <2>10, <2>12, <4>1
        <3>2. QED BY <3>1
    <2> HIDE DEF rows
    <2>15. ASSUME NEW r \in Q PROVE \E i \in 1 .. m : rows[i] = r
        <3>1. CASE r = x
            BY <2>7, <2>12, <3>1
        <3>2. CASE r # x
            <4>1. PICK i \in 1 .. (m - 1) : l[i] = r
                BY <2>5, <2>9, <3>2
            <4>2. CASE i < p
                <5>1. i \in 1 .. m
                    BY <1>5
                <5>2. QED BY <2>12, <4>1, <4>2, <5>1
            <4>3. CASE ~(i < p)
                <5> DEFINE j == i + 1
                <5>1. j \in 1 .. m /\ p < j /\ j - 1 = i
                    BY <1>5, <2>7, <4>3
                <5> HIDE DEF j
                <5>2. QED BY <2>12, <4>1, <5>1
            <4>4. QED BY <4>2, <4>3
        <3>3. QED BY <3>1, <3>2
    <2>16. ASSUME NEW i \in 1 .. m, NEW j \in 1 .. m, i < j
           PROVE  rows[i] # rows[j] /\ Precedes(rows[i], rows[j])
        <3>1. CASE j < p
            <4>1. i \in 1 .. (m - 1) /\ j \in 1 .. (m - 1) /\ rows[i] = l[i] /\ rows[j] = l[j]
                BY <2>7, <2>12, <2>16, <3>1
            <4>2. QED BY <2>5, <2>16, <4>1
        <3>2. CASE j = p
            <4>1. i \in 1 .. (m - 1) /\ rows[i] = l[i] /\ rows[j] = x /\ i < p
                BY <2>7, <2>12, <2>16, <3>2
            <4>2. QED BY <2>7, <2>10, <4>1
        <3>3. CASE p < j
            <4>1. j - 1 \in 1 .. (m - 1) /\ p <= j - 1 /\ rows[j] = l[j - 1]
                BY <2>12, <3>3
            <4>2. CASE i < p
                <5>1. i \in 1 .. (m - 1) /\ rows[i] = l[i] /\ i < j - 1
                    BY <2>7, <2>12, <4>1, <4>2
                <5>2. QED BY <2>5, <4>1, <5>1
            <4>3. CASE i = p
                BY <2>10, <2>11, <2>12, <4>1, <4>3
            <4>4. CASE p < i
                <5>1. i - 1 \in 1 .. (m - 1) /\ rows[i] = l[i - 1] /\ i - 1 < j - 1
                    BY <2>7, <2>12, <2>16, <4>4
                <5>2. QED BY <2>5, <4>1, <5>1
            <4>5. QED BY <2>7, <4>2, <4>3, <4>4
        <3>4. QED BY <2>7, <3>1, <3>2, <3>3
    <2>17. rows \in Listings(Q)
        BY <1>4, <2>13, <2>14, <2>15, <2>16 DEF Listings
    <2>18. QED BY <1>4, <2>17
<1>8. QED BY <1>6, <1>7

-----------------------------------------------------------------------------
(* Each operation keeps the invariant.                                     *)

\* A further envelope of a known epoch extends its rows at the watermark.
LEMMA ExtendKeepsInv ==
    ASSUME HostInv, NEW env, NEW screen, IsRequest(env), env.epoch \in Known, ~EpochMismatch(env),
           ~RangeConflict(env), env.session \notin tombstones, CommitRawObject(env, screen)
    PROVE  HostInv'
<1> USE HostAssumption
<1> DEFINE e == env.epoch
           new == RawOf(env)
<1>1. /\ env.start \in Nat /\ env.end \in Nat /\ env.start <= env.end
      /\ env.session \in Sessions
      /\ new.epoch = e /\ new.start = env.start /\ new.end = env.end
      /\ new.session = env.session
    BY DEF IsRequest, RawOf
<1>2. /\ raw' = raw \cup {new}
      /\ retired' = retired
      /\ tombstones' = tombstones
      /\ Known' = Known
      /\ commitSeq' = commitSeq + 1
    BY DEF CommitRawObject, Superseded, Known
<1>3. /\ epochs'[e] = [epochs[e] EXCEPT !.accepted = env.end, !.count = @ + 1]
      /\ \A f \in Known \ {e} : epochs'[f] = epochs[f]
    BY DEF CommitRawObject, Known, HostInv, HostTypeOK, EpochRow
<1>4. /\ epochs[e] \in EpochRow
      /\ epochs'[e].source = epochs[e].source
      /\ epochs'[e].pred = epochs[e].pred
      /\ epochs'[e].state = epochs[e].state
      /\ epochs'[e].replacedBy = epochs[e].replacedBy
      /\ epochs'[e].accepted = env.end
      /\ epochs'[e].count = epochs[e].count + 1
      /\ epochs'[e] \in EpochRow
    <2>1. epochs[e] \in EpochRow
        BY DEF HostInv, HostTypeOK
    <2>2. epochs'[e] = [source |-> epochs[e].source, pred |-> epochs[e].pred,
                        state |-> epochs[e].state, accepted |-> env.end,
                        count |-> epochs[e].count + 1,
                        replacedBy |-> epochs[e].replacedBy]
        BY <1>3, <2>1 DEF EpochRow
    <2>3. QED BY <1>1, <2>1, <2>2 DEF EpochRow
<1>5. RawIn(e)' = RawIn(e) \cup {new} /\ \A f \in Known \ {e} : RawIn(f)' = RawIn(f)
    BY <1>1, <1>2 DEF RawIn
<1>6. ASSUME RawIn(e) # {} PROVE env.start = epochs[e].accepted
    <2>1. AcceptedThrough(env) = epochs[e].accepted
        BY <1>6, WatermarkIsComputed
    <2>2. QED BY <2>1 DEF RangeConflict
<1>7. \A r \in raw : /\ r.epoch \in Known /\ r.session \in Sessions
                     /\ r.start \in Nat /\ r.end \in Nat /\ r.start <= r.end
    BY DEF HostInv, HostTypeOK
<1>8. HostTypeOK'
    <2>1. desired' \in [Sessions -> Nat] /\ unrendered' \subseteq Sessions
        BY DEF CommitRawObject, HostInv, HostTypeOK, IsRequest
    <2>2. epochs' \in [Known' -> EpochRow]
        <3>1. epochs' = [f \in Known |-> epochs'[f]]
            BY DEF CommitRawObject, Known
        <3>2. \A f \in Known : epochs'[f] \in EpochRow
            BY <1>3, <1>4 DEF HostInv, HostTypeOK
        <3>3. QED BY <1>2, <3>1, <3>2
    <2>3. QED BY <1>1, <1>2, <1>7, <2>1, <2>2 DEF HostInv, HostTypeOK
<1>17. \A f \in Known : /\ epochs'[f].source = epochs[f].source
                        /\ epochs'[f].pred = epochs[f].pred
                        /\ epochs'[f].state = epochs[f].state
                        /\ epochs'[f].replacedBy = epochs[f].replacedBy
    BY <1>3, <1>4
<1>9. OneOpenEpoch'
    BY <1>2, <1>17 DEF HostInv, OneOpenEpoch
<1>10. LineageIsAChain'
    BY <1>2, <1>17 DEF HostInv, LineageIsAChain
<1>11. OneSession'
    BY <1>1, <1>2 DEF HostInv, OneSession, EpochMismatch, RawIn
<1>12. RetiredWithCause'
    BY <1>2, <1>3, <1>4, <1>7 DEF HostInv, RetiredWithCause, HostTypeOK
<1>13. Counted'
    <2>1. epochs'[e].count # 0
        BY <1>4 DEF EpochRow
    <2>2. QED BY <1>2, <1>3, <1>5, <2>1 DEF HostInv, Counted
<1>18. NoRowsNoWatermark'
    BY <1>2, <1>3, <1>5 DEF HostInv, NoRowsNoWatermark
<1>14. Based'
    <2>1. ASSUME NEW f \in Known \ {e}, RawIn(f) # {}
          PROVE  /\ \E b \in RawIn(f) : \A t \in RawIn(f) : b.start <= t.start
                 /\ \E t \in RawIn(f) : t.end = epochs'[f].accepted
        BY <1>3, <2>1 DEF HostInv, Based
    <2>2. \E b \in RawIn(e) \cup {new} : \A t \in RawIn(e) \cup {new} : b.start <= t.start
        <3>1. CASE RawIn(e) = {}
            BY <1>1, <3>1
        <3>2. CASE RawIn(e) # {}
            <4>1. PICK b \in RawIn(e) : \A t \in RawIn(e) : b.start <= t.start
                BY <3>2 DEF HostInv, Based
            <4>2. b.start <= b.end /\ b.end <= env.start /\ b.start \in Nat /\ b.end \in Nat
                BY <1>6, <1>7, <3>2 DEF HostInv, ContiguousArchive, RawIn
            <4>3. b.start <= new.start
                BY <1>1, <4>2
            <4>4. QED BY <4>1, <4>3
        <3>3. QED BY <3>1, <3>2
    <2>3. \E t \in RawIn(e) \cup {new} : t.end = epochs'[e].accepted
        BY <1>1, <1>4
    <2>4. QED BY <1>2, <1>5, <2>1, <2>2, <2>3 DEF Based
<1>15. ContiguousArchive'
    <2>1. ASSUME NEW f \in Known \ {e}, RawIn(f) # {}
          PROVE  /\ \A r \in RawIn(f) : r.end <= epochs'[f].accepted
                 /\ \A r \in RawIn(f) : \A q \in r.start .. (epochs'[f].accepted - 1) :
                       \E t \in RawIn(f) : t.start <= q /\ q < t.end
                 /\ \A r, t \in RawIn(f) : r # t => r.end <= t.start \/ t.end <= r.start
        BY <1>3, <2>1 DEF HostInv, ContiguousArchive
    <2>2. \A r \in RawIn(e) : r.end <= env.start /\ r.start \in Nat /\ r.end \in Nat
        BY <1>6, <1>7 DEF HostInv, ContiguousArchive, RawIn
    <2>3. \A r \in RawIn(e) \cup {new} : r.end <= env.end
        BY <1>1, <2>2
    <2>4. ASSUME NEW r \in RawIn(e) \cup {new}, NEW q \in r.start .. (env.end - 1)
          PROVE  \E t \in RawIn(e) \cup {new} : t.start <= q /\ q < t.end
        <3>1. r.start \in Nat /\ q \in Int /\ r.start <= q /\ q < env.end
            BY <1>1, <2>2
        <3>2. CASE env.start <= q
            BY <1>1, <3>1, <3>2
        <3>3. CASE q < env.start
            <4>1. r \in RawIn(e)
                BY <1>1, <3>1, <3>3
            <4>2. env.start = epochs[e].accepted
                BY <1>6, <4>1
            <4>3. q \in r.start .. (epochs[e].accepted - 1)
                BY <1>1, <3>1, <3>3, <4>2
            <4>4. QED BY <4>1, <4>3 DEF HostInv, ContiguousArchive
        <3>4. QED BY <1>1, <3>1, <3>2, <3>3
    <2>5. \A r, t \in RawIn(e) \cup {new} : r # t => r.end <= t.start \/ t.end <= r.start
        BY <1>1, <2>2 DEF HostInv, ContiguousArchive
    <2>6. QED BY <1>2, <1>4, <1>5, <2>1, <2>3, <2>4, <2>5 DEF ContiguousArchive
<1>16. QED BY <1>8, <1>9, <1>10, <1>11, <1>12, <1>13, <1>14, <1>15, <1>18 DEF HostInv

\* A new epoch takes over from the one open epoch of its source, or is the first:
\* what commit_raw_object and open_source_epoch have in common.
LEMMA SuccessionKeepsLineage ==
    ASSUME HostInv, NEW env, env.epoch \in Epochs \ Known, env.pred \in Epochs \cup {None},
           ~LineageConflict(env), Known' = Known \cup {env.epoch},
           epochs'[env.epoch].source = env.source, epochs'[env.epoch].pred = env.pred,
           epochs'[env.epoch].state = "open",
           \A f \in Known : epochs'[f] = ClosePredecessor(env)[f]
    PROVE  /\ OneOpenEpoch' /\ LineageIsAChain'
           /\ \A f \in Known : /\ epochs'[f] \in EpochRow
                               /\ epochs'[f].accepted = epochs[f].accepted
                               /\ epochs'[f].count = epochs[f].count
                               /\ f # env.pred => epochs'[f] = epochs[f]
                               /\ f = env.pred => /\ epochs[f].state = "open"
                                                  /\ epochs'[f].state = "closed"
<1> USE HostAssumption
<1> DEFINE e == env.epoch
<1>1. e \in Epochs /\ e \notin Known /\ e # None
    OBVIOUS
<1>4. \A f \in Known : epochs'[f] = IF f = env.pred THEN Closed(epochs[f], e) ELSE epochs[f]
    BY DEF ClosePredecessor
<1>5. \A f \in Known : epochs[f] \in EpochRow
    BY DEF HostInv, HostTypeOK
<1>6. \A f \in Known : /\ epochs'[f] \in EpochRow
                       /\ epochs'[f].source = epochs[f].source
                       /\ epochs'[f].pred = epochs[f].pred
                       /\ epochs'[f].accepted = epochs[f].accepted
                       /\ epochs'[f].count = epochs[f].count
                       /\ f # env.pred => epochs'[f] = epochs[f]
                       /\ f = env.pred => /\ epochs'[f].state = "closed"
                                          /\ epochs'[f].replacedBy = e
    <2> SUFFICES ASSUME NEW f \in Known
                 PROVE  /\ epochs'[f] \in EpochRow
                        /\ epochs'[f].source = epochs[f].source
                        /\ epochs'[f].pred = epochs[f].pred
                        /\ epochs'[f].accepted = epochs[f].accepted
                        /\ epochs'[f].count = epochs[f].count
                        /\ f # env.pred => epochs'[f] = epochs[f]
                        /\ f = env.pred => /\ epochs'[f].state = "closed"
                                           /\ epochs'[f].replacedBy = e
        OBVIOUS
    <2>1. CASE f # env.pred
        BY <1>4, <1>5, <2>1
    <2>2. CASE f = env.pred
        <3>1. epochs'[f] = [source |-> epochs[f].source, pred |-> epochs[f].pred,
                            state |-> "closed", accepted |-> epochs[f].accepted,
                            count |-> epochs[f].count, replacedBy |-> e]
            <4>1. epochs'[f] = [epochs[f] EXCEPT !.state = "closed", !.replacedBy = e]
                BY <1>4, <2>2 DEF Closed
            <4>2. epochs[f] \in EpochRow
                BY <1>5
            <4>3. QED BY <4>1, <4>2 DEF EpochRow
        <3>2. QED BY <1>1, <1>5, <2>2, <3>1 DEF EpochRow
    <2>3. QED BY <2>1, <2>2
<1>11. env.pred # None => /\ env.pred \in Known
                          /\ epochs[env.pred].source = env.source
                          /\ epochs[env.pred].state = "open"
    BY DEF LineageConflict
<1>12. \A f \in Known : /\ epochs[f].source = env.source
                        /\ epochs[f].state = "open"
                        => f = env.pred
    BY DEF LineageConflict, OpenEpochs
<1>15. OneOpenEpoch'
    BY <1>6, <1>12 DEF HostInv, OneOpenEpoch
<1>16. LineageIsAChain'
    <2>1. ASSUME NEW f \in Known, epochs[f].pred # None
          PROVE  /\ epochs[f].pred \in Known
                 /\ epochs[f].pred # env.pred
                 /\ epochs[epochs[f].pred].source = epochs[f].source
                 /\ epochs[epochs[f].pred].state = "closed"
                 /\ epochs[epochs[f].pred].replacedBy = f
        BY <1>11, <2>1 DEF HostInv, LineageIsAChain
    <2>2. ASSUME NEW f \in Known, epochs[f].state = "closed"
          PROVE  /\ epochs[f].replacedBy \in Known
                 /\ epochs[epochs[f].replacedBy].pred = f
        BY <2>2 DEF HostInv, LineageIsAChain
    <2>3. ASSUME NEW f \in Known
          PROVE  /\ epochs'[f].pred # None =>
                       /\ epochs'[f].pred \in Known'
                       /\ epochs'[epochs'[f].pred].source = epochs'[f].source
                       /\ epochs'[epochs'[f].pred].state = "closed"
                       /\ epochs'[epochs'[f].pred].replacedBy = f
                 /\ epochs'[f].state = "closed" =>
                       /\ epochs'[f].replacedBy \in Known'
                       /\ epochs'[epochs'[f].replacedBy].pred = f
        BY <1>6, <2>1, <2>2
    <2>4. /\ epochs'[e].pred # None =>
                /\ epochs'[e].pred \in Known'
                /\ epochs'[epochs'[e].pred].source = epochs'[e].source
                /\ epochs'[epochs'[e].pred].state = "closed"
                /\ epochs'[epochs'[e].pred].replacedBy = e
          /\ epochs'[e].state = "open"
        BY <1>6, <1>11
    <2>5. QED BY <2>3, <2>4 DEF LineageIsAChain
<1>17. env.pred \in Known => env.pred # None
    BY DEF HostInv, HostTypeOK
<1>18. QED BY <1>6, <1>11, <1>15, <1>16, <1>17

\* The first envelope of a new epoch closes its predecessor and retires its rows.
LEMMA BeginKeepsInv ==
    ASSUME HostInv, NEW env, NEW screen, IsRequest(env), env.epoch \notin Known,
           ~LineageConflict(env), CommitRawObject(env, screen)
    PROVE  HostInv'
<1> USE HostAssumption
<1> DEFINE e == env.epoch
           new == RawOf(env)
<1>1. /\ env.start \in Nat /\ env.end \in Nat /\ env.start <= env.end
      /\ env.session \in Sessions /\ env.source \in Sources
      /\ e \in Epochs /\ env.pred \in Epochs \cup {None}
      /\ new.epoch = e /\ new.start = env.start /\ new.end = env.end
      /\ new.session = env.session
    BY DEF IsRequest, RawOf
<1>2. /\ raw' = raw \cup {new}
      /\ tombstones' = tombstones
      /\ Known' = Known \cup {e}
      /\ commitSeq' = commitSeq + 1
    BY DEF CommitRawObject, Known
<1>3. epochs'[e] = [source |-> env.source, pred |-> env.pred, state |-> "open",
                    accepted |-> env.end, count |-> 1, replacedBy |-> None]
    BY DEF CommitRawObject, Known
<1>4. \A f \in Known : epochs'[f] = ClosePredecessor(env)[f]
    BY DEF CommitRawObject, Known
<1>6. /\ OneOpenEpoch' /\ LineageIsAChain'
      /\ \A f \in Known : /\ epochs'[f] \in EpochRow
                          /\ epochs'[f].accepted = epochs[f].accepted
                          /\ epochs'[f].count = epochs[f].count
                          /\ f # env.pred => epochs'[f] = epochs[f]
                          /\ f = env.pred => epochs'[f].state = "closed"
    BY <1>1, <1>2, <1>3, <1>4, SuccessionKeepsLineage
<1>7. \A r \in raw : /\ r.epoch \in Known /\ r.session \in Sessions
                     /\ r.start \in Nat /\ r.end \in Nat /\ r.start <= r.end
    BY DEF HostInv, HostTypeOK
<1>8. RawIn(e)' = {new} /\ \A f \in Known : RawIn(f)' = RawIn(f)
    BY <1>1, <1>2, <1>7 DEF RawIn
<1>9. retired' = retired \cup Superseded(env)
    BY DEF CommitRawObject
<1>10. \A r \in Superseded(env) : r \in raw /\ r.epoch = env.pred
    BY DEF Superseded, ActiveIn, RawIn
<1>14. HostTypeOK'
    <2>1. desired' \in [Sessions -> Nat] /\ unrendered' \subseteq Sessions
        BY DEF CommitRawObject, HostInv, HostTypeOK, IsRequest
    <2>2. epochs'[e] \in EpochRow
        BY <1>1, <1>3 DEF EpochRow
    <2>3. retired' \subseteq raw'
        BY <1>2, <1>9, <1>10 DEF HostInv, HostTypeOK
    <2>4. epochs' \in [Known' -> EpochRow]
        <3>1. epochs' = [f \in Known \cup {e} |-> epochs'[f]]
            BY DEF CommitRawObject, Known
        <3>2. QED BY <1>2, <1>6, <2>2, <3>1
    <2>5. QED BY <1>1, <1>2, <1>7, <2>1, <2>3, <2>4 DEF HostInv, HostTypeOK
<1>17. OneSession'
    BY <1>1, <1>2, <1>7 DEF HostInv, OneSession
<1>18. RetiredWithCause'
    <2>1. \A r \in retired : r.epoch \in Known
        BY <1>7 DEF HostInv, HostTypeOK
    <2>2. \A r \in Superseded(env) : epochs'[r.epoch].state = "closed"
        BY <1>6, <1>7, <1>10
    <2>3. \A r \in retired : epochs'[r.epoch].state = "closed" \/ r.session \in tombstones
        BY <1>6, <2>1 DEF HostInv, RetiredWithCause
    <2>4. QED BY <1>2, <1>9, <2>2, <2>3 DEF RetiredWithCause
<1>19. Counted'
    BY <1>2, <1>3, <1>6, <1>8 DEF HostInv, Counted
<1>23. NoRowsNoWatermark'
    BY <1>2, <1>6, <1>8 DEF HostInv, NoRowsNoWatermark
<1>20. Based'
    <2>1. ASSUME NEW f \in Known, RawIn(f) # {}
          PROVE  /\ \E b \in RawIn(f) : \A t \in RawIn(f) : b.start <= t.start
                 /\ \E t \in RawIn(f) : t.end = epochs'[f].accepted
        BY <1>6, <2>1 DEF HostInv, Based
    <2>2. /\ \E b \in {new} : \A t \in {new} : b.start <= t.start
          /\ \E t \in {new} : t.end = epochs'[e].accepted
        BY <1>1, <1>3
    <2>3. QED BY <1>2, <1>8, <2>1, <2>2 DEF Based
<1>21. ContiguousArchive'
    <2>1. ASSUME NEW f \in Known, RawIn(f) # {}
          PROVE  /\ \A r \in RawIn(f) : r.end <= epochs'[f].accepted
                 /\ \A r \in RawIn(f) : \A q \in r.start .. (epochs'[f].accepted - 1) :
                       \E t \in RawIn(f) : t.start <= q /\ q < t.end
                 /\ \A r, t \in RawIn(f) : r # t => r.end <= t.start \/ t.end <= r.start
        BY <1>6, <2>1 DEF HostInv, ContiguousArchive
    <2>2. /\ \A r \in {new} : r.end <= epochs'[e].accepted
          /\ \A r \in {new} : \A q \in r.start .. (epochs'[e].accepted - 1) :
                \E t \in {new} : t.start <= q /\ q < t.end
        BY <1>1, <1>3
    <2>3. QED BY <1>2, <1>8, <2>1, <2>2 DEF ContiguousArchive
<1>24. QED BY <1>6, <1>14, <1>17, <1>23, <1>18, <1>19, <1>20, <1>21 DEF HostInv

\* The invariant is about the catalog's tables.
LEMMA StutterKeepsInv ==
    ASSUME HostInv, UNCHANGED hostVars
    PROVE  HostInv'
BY DEF hostVars, HostInv, HostTypeOK, OneOpenEpoch, LineageIsAChain, OneSession, RetiredWithCause,
       Counted, NoRowsNoWatermark, Based, ContiguousArchive, Known, RawIn

\* A step that leaves the tables alone grows nothing.
LEMMA StutterGrows ==
    ASSUME HostInv, UNCHANGED hostVars
    PROVE  ArchiveOnlyGrows
<1>1. \A f \in Known : epochs[f].accepted \in Nat
    BY DEF HostInv, HostTypeOK, EpochRow
<1>2. QED BY <1>1 DEF hostVars, ArchiveOnlyGrows, Known

\* A succession touches no closed epoch and no watermark.
LEMMA SuccessionGrows ==
    ASSUME HostInv, NEW env, env.epoch \in Epochs \ Known, env.pred \in Epochs \cup {None},
           ~LineageConflict(env), Known' = Known \cup {env.epoch},
           epochs'[env.epoch].source = env.source, epochs'[env.epoch].pred = env.pred,
           epochs'[env.epoch].state = "open",
           \A f \in Known : epochs'[f] = ClosePredecessor(env)[f],
           raw \subseteq raw', retired \subseteq retired'
    PROVE  ArchiveOnlyGrows
<1>1. \A f \in Known : /\ epochs'[f].accepted = epochs[f].accepted
                       /\ f # env.pred => epochs'[f] = epochs[f]
                       /\ f = env.pred => epochs[f].state = "open"
    BY SuccessionKeepsLineage
<1>2. \A f \in Known : epochs[f].accepted \in Nat /\ f \in DOMAIN epochs'
    BY DEF HostInv, HostTypeOK, EpochRow, Known
<1>3. QED BY <1>1, <1>2 DEF ArchiveOnlyGrows

\* Rewriting the watermark from the ranges leaves it as it is.
LEMMA RepairKeepsInv ==
    ASSUME HostInv, NEW env, NEW screen, RangeExamined(env, screen),
           env.session \notin tombstones, RepairWatermark(env)
    PROVE  UNCHANGED hostVars
<1>1. CASE ActiveIn(env.epoch) = {}
    BY <1>1 DEF RepairWatermark, hostVars
<1>2. CASE ActiveIn(env.epoch) # {}
    <2>1. RawIn(env.epoch) # {}
        BY <1>2 DEF ActiveIn
    <2>2. AcceptedThrough(env) = epochs[env.epoch].accepted
        BY <2>1, WatermarkIsComputed DEF RangeExamined
    <2>3. epochs' = [epochs EXCEPT ![env.epoch].accepted = epochs[env.epoch].accepted]
        BY <1>2, <2>2 DEF RepairWatermark
    <2>4. epochs' = epochs
        <3>1. epochs[env.epoch] \in EpochRow
            BY DEF HostInv, HostTypeOK, RangeExamined
        <3>2. [epochs[env.epoch] EXCEPT !.accepted = epochs[env.epoch].accepted] = epochs[env.epoch]
            BY <3>1 DEF EpochRow
        <3>3. epochs = [f \in DOMAIN epochs |-> epochs[f]]
            BY DEF HostInv, HostTypeOK
        <3>4. QED BY <2>3, <3>2, <3>3
    <2>5. QED BY <2>4 DEF RepairWatermark, hostVars
<1>3. QED BY <1>1, <1>2

\* Opening an epoch ahead of its first envelope.
LEMMA OpenKeepsInv ==
    ASSUME HostInv, NEW e \in Epochs, NEW src \in Sources, NEW p \in Epochs \cup {None},
           OpenSourceEpoch(e, src, p)
    PROVE  HostInv'
<1> USE HostAssumption
<1> DEFINE env == [source |-> src, epoch |-> e, pred |-> p]
<1>1. /\ e \notin Known
      /\ ~LineageConflict(env)
      /\ Known' = Known \cup {e}
      /\ raw' = raw /\ retired' = retired /\ tombstones' = tombstones
      /\ desired' = desired /\ unrendered' = unrendered /\ commitSeq' = commitSeq + 1
    BY DEF OpenSourceEpoch, Known
<1>2. epochs'[e] = [source |-> src, pred |-> p, state |-> "open", accepted |-> 0,
                    count |-> 0, replacedBy |-> None]
    BY DEF OpenSourceEpoch, Known
<1>3. \A f \in Known : epochs'[f] = ClosePredecessor(env)[f]
    BY <1>1 DEF OpenSourceEpoch
<1>4. /\ OneOpenEpoch' /\ LineageIsAChain'
      /\ \A f \in Known : /\ epochs'[f] \in EpochRow
                          /\ epochs'[f].accepted = epochs[f].accepted
                          /\ epochs'[f].count = epochs[f].count
                          /\ f # p => epochs'[f] = epochs[f]
                          /\ f = p => epochs'[f].state = "closed"
    <2> HIDE DEF env
    <2>1. env.epoch = e /\ env.pred = p /\ env.source = src
        BY DEF env
    <2>2. QED BY <1>1, <1>2, <1>3, <2>1, SuccessionKeepsLineage
<1>5. \A r \in raw : r.epoch \in Known /\ r.epoch # e
    BY <1>1 DEF HostInv, HostTypeOK
<1>6. RawIn(e)' = {} /\ \A f \in Known : RawIn(f)' = RawIn(f)
    BY <1>1, <1>5 DEF RawIn
<1>7. HostTypeOK'
    <2>1. epochs' = [f \in Known \cup {e} |-> epochs'[f]]
        BY DEF OpenSourceEpoch, Known
    <2>2. epochs'[e] \in EpochRow
        BY <1>2 DEF EpochRow
    <2>3. epochs' \in [Known' -> EpochRow]
        BY <1>1, <1>4, <2>1, <2>2
    <2>4. QED BY <1>1, <2>3 DEF HostInv, HostTypeOK
<1>8. OneSession'
    BY <1>1 DEF HostInv, OneSession
<1>9. RetiredWithCause'
    BY <1>1, <1>4, <1>5 DEF HostInv, RetiredWithCause, HostTypeOK
<1>10. Counted'
    BY <1>1, <1>2, <1>4, <1>6 DEF HostInv, Counted
<1>14. NoRowsNoWatermark'
    BY <1>1, <1>2, <1>4, <1>6 DEF HostInv, NoRowsNoWatermark
<1>11. Based'
    BY <1>1, <1>4, <1>6 DEF HostInv, Based
<1>12. ContiguousArchive'
    BY <1>1, <1>4, <1>6 DEF HostInv, ContiguousArchive
<1>15. QED BY <1>4, <1>7, <1>8, <1>9, <1>10, <1>11, <1>12, <1>14 DEF HostInv

\* Deleting a session retires its rows and fences it.
LEMMA DeleteKeepsInv ==
    ASSUME HostInv, NEW s \in Sessions, DeleteStorageSession(s)
    PROVE  HostInv'
<1>1. /\ epochs' = epochs /\ raw' = raw /\ Known' = Known
      /\ tombstones' = tombstones \cup {s}
      /\ retired' = retired \cup ActiveOf(s)
    BY DEF DeleteStorageSession, Known
<1>2. HostTypeOK'
    BY <1>1 DEF HostInv, HostTypeOK, DeleteStorageSession, ActiveOf
<1>3. OneOpenEpoch' /\ LineageIsAChain' /\ OneSession'
    BY <1>1 DEF HostInv, OneOpenEpoch, LineageIsAChain, OneSession
<1>4. RetiredWithCause'
    BY <1>1 DEF HostInv, RetiredWithCause, ActiveOf
<1>5. \A f \in Known : RawIn(f)' = RawIn(f)
    BY <1>1 DEF RawIn
<1>6. Counted' /\ NoRowsNoWatermark' /\ Based' /\ ContiguousArchive'
    BY <1>1, <1>5 DEF HostInv, Counted, NoRowsNoWatermark, Based, ContiguousArchive
<1>7. QED BY <1>2, <1>3, <1>4, <1>6 DEF HostInv

\* Every request keeps the invariant.
LEMMA IngestKeepsInv ==
    ASSUME HostInv, NEW env, IsRequest(env), NEW screen, screen \notin {"created", "replay"},
           Ingest(env, screen, Verdict(env, screen))
    PROVE  HostInv'
<1>1. CASE Verdict(env, screen) = "created" /\ CommitRawObject(env, screen)
    <2>1. /\ env.session \notin tombstones
          /\ env.epoch \notin Known => ~LineageConflict(env)
          /\ env.epoch \in Known => ~EpochMismatch(env)
          /\ ~RangeConflict(env)
        BY <1>1, AdmittedFacts
    <2>2. CASE env.epoch \in Known
        BY <1>1, <2>1, <2>2, ExtendKeepsInv
    <2>3. CASE env.epoch \notin Known
        BY <1>1, <2>1, <2>3, BeginKeepsInv
    <2>4. QED BY <2>2, <2>3
<1>2. CASE /\ Verdict(env, screen) = "conflict"
           /\ RangeExamined(env, screen) /\ RepairWatermark(env)
    <2>1. env.session \notin tombstones
        BY <1>2, RefusedFacts
    <2>2. UNCHANGED hostVars
        BY <1>2, <2>1, RepairKeepsInv
    <2>3. QED BY <2>2, StutterKeepsInv
<1>3. CASE UNCHANGED hostVars
    BY <1>3, StutterKeepsInv
<1>4. QED BY <1>1, <1>2, <1>3 DEF Ingest

\* No request moves a watermark back, drops or revives a row, or touches a closed
\* epoch.
LEMMA IngestGrows ==
    ASSUME HostInv, NEW env, IsRequest(env), NEW screen, screen \notin {"created", "replay"},
           Ingest(env, screen, Verdict(env, screen))
    PROVE  ArchiveOnlyGrows
<1>1. CASE Verdict(env, screen) = "created" /\ CommitRawObject(env, screen)
    <2>1. /\ env.session \notin tombstones
          /\ env.epoch \notin Known => ~LineageConflict(env)
          /\ env.epoch \in Known => ~EpochMismatch(env)
          /\ ~RangeConflict(env)
        BY <1>1, AdmittedFacts
    <2>2. raw \subseteq raw' /\ retired \subseteq retired'
        BY <1>1 DEF CommitRawObject
    <2>3. CASE env.epoch \in Known
        <3>1. /\ env.start <= env.end /\ env.start \in Nat /\ env.end \in Nat
              /\ epochs[env.epoch].accepted \in Nat
              /\ epochs[env.epoch].state = "open"
            BY <2>1, <2>3
               DEF IsRequest, EpochMismatch, HostInv, HostTypeOK, EpochRow
        <3>2. epochs[env.epoch].accepted <= env.end
            <4>1. CASE RawIn(env.epoch) # {}
                <5>1. epochs[env.epoch].accepted = env.start
                    BY <2>1, <2>3, <4>1, WatermarkIsComputed DEF RangeConflict
                <5>2. QED BY <3>1, <5>1
            <4>2. CASE RawIn(env.epoch) = {}
                BY <2>3, <3>1, <4>2 DEF HostInv, NoRowsNoWatermark
            <4>3. QED BY <4>1, <4>2
        <3>3. epochs'[env.epoch].accepted = env.end
            <4>1. epochs[env.epoch] \in EpochRow
                BY <2>3 DEF HostInv, HostTypeOK
            <4>2. epochs'[env.epoch] = [epochs[env.epoch] EXCEPT
                                           !.accepted = env.end, !.count = @ + 1]
                BY <1>1, <2>3 DEF CommitRawObject, Known, HostInv, HostTypeOK
            <4>3. QED BY <4>1, <4>2 DEF EpochRow
        <3>4. \A f \in Known : /\ f \in DOMAIN epochs'
                               /\ f # env.epoch => epochs'[f] = epochs[f]
            BY <1>1, <2>3 DEF CommitRawObject, Known
        <3>5. \A f \in Known : epochs[f].accepted \in Nat
            BY DEF HostInv, HostTypeOK, EpochRow
        <3>6. QED BY <2>2, <3>1, <3>2, <3>3, <3>4, <3>5 DEF ArchiveOnlyGrows
    <2>4. CASE env.epoch \notin Known
        <3>1. /\ env.epoch \in Epochs \ Known /\ env.pred \in Epochs \cup {None}
              /\ Known' = Known \cup {env.epoch}
              /\ epochs'[env.epoch].source = env.source
              /\ epochs'[env.epoch].pred = env.pred
              /\ epochs'[env.epoch].state = "open"
              /\ \A f \in Known : epochs'[f] = ClosePredecessor(env)[f]
            BY <1>1, <2>4 DEF CommitRawObject, Known, IsRequest
        <3>2. QED BY <2>1, <2>2, <3>1, SuccessionGrows
    <2>5. QED BY <2>3, <2>4
<1>2. CASE /\ Verdict(env, screen) = "conflict"
           /\ RangeExamined(env, screen) /\ RepairWatermark(env)
    <2>1. UNCHANGED hostVars
        BY <1>2, RefusedFacts, RepairKeepsInv
    <2>2. QED BY <2>1, StutterGrows
<1>3. CASE UNCHANGED hostVars
    BY <1>3, StutterGrows
<1>4. QED BY <1>1, <1>2, <1>3 DEF Ingest

-----------------------------------------------------------------------------
(* What readers and projectors see of an operation.                        *)

\* An envelope is admitted only where its epoch has no retired row.
LEMMA CommitRetiresTogether ==
    ASSUME HostInv, RetiredTogether, NEW env, NEW screen, CommitRawObject(env, screen),
           env.session \notin tombstones, env.epoch \in Known => ~EpochMismatch(env)
    PROVE  RetiredTogether'
<1> DEFINE new == RawOf(env)
<1>1. /\ new.epoch = env.epoch /\ new.session = env.session
      /\ raw' = raw \cup {new} /\ retired' = retired \cup Superseded(env)
    BY DEF RawOf, CommitRawObject
<1>2. ASSUME NEW r \in raw, r.epoch = env.epoch PROVE r \notin retired
    <2>1. env.epoch \in Known
        BY <1>2 DEF HostInv, HostTypeOK
    <2>2. epochs[r.epoch].state = "open" /\ r.session = env.session
        BY <1>2, <2>1 DEF EpochMismatch, RawIn
    <2>3. QED BY <2>2 DEF HostInv, RetiredWithCause
<1>3. ASSUME NEW r \in raw, NEW t \in raw, r.epoch = t.epoch, r \in Superseded(env)
      PROVE  t \in retired'
    <2>1. t \in RawIn(env.pred) /\ Superseded(env) = ActiveIn(env.pred)
        BY <1>3 DEF Superseded, ActiveIn, RawIn
    <2>2. QED BY <1>1, <2>1 DEF ActiveIn
<1>4. \A r \in Superseded(env) : r \in raw /\ r.epoch # env.epoch
    BY DEF Superseded, ActiveIn, RawIn, HostInv, HostTypeOK, Known
<1>5. \A r \in retired : r \in raw
    BY DEF HostInv, HostTypeOK
<1>6. QED BY <1>1, <1>2, <1>3, <1>4, <1>5 DEF RetiredTogether

\* A request keeps the rows listable.
LEMMA IngestKeepsListable ==
    ASSUME HostInv, RowsAreListable, NEW env, NEW screen, screen \notin {"created", "replay"},
           Ingest(env, screen, Verdict(env, screen))
    PROVE  RowsAreListable'
<1>1. CASE Verdict(env, screen) = "created" /\ CommitRawObject(env, screen)
    <2>1. env.session \notin tombstones /\ (env.epoch \in Known => ~EpochMismatch(env))
        BY <1>1, AdmittedFacts
    <2>2. RetiredTogether'
        BY <1>1, <2>1, CommitRetiresTogether DEF RowsAreListable
    <2>3. IsFiniteSet(raw)'
        BY <1>1, FS_AddElement DEF CommitRawObject, RowsAreListable
    <2>4. QED BY <2>2, <2>3 DEF RowsAreListable
<1>2. CASE RepairWatermark(env)
    BY <1>2 DEF RepairWatermark, RowsAreListable, RetiredTogether
<1>3. CASE UNCHANGED hostVars
    BY <1>3 DEF hostVars, RowsAreListable, RetiredTogether
<1>4. QED BY <1>1, <1>2, <1>3 DEF Ingest

\* Deleting a session retires all or none of the rows of an epoch.
LEMMA DeleteKeepsListable ==
    ASSUME HostInv, RowsAreListable, NEW s, DeleteStorageSession(s)
    PROVE  RowsAreListable'
BY DEF DeleteStorageSession, RowsAreListable, RetiredTogether, ActiveOf, HostInv, OneSession

\* On such rows the loop of _contiguous_range_prefix ends at the stored watermark.
LEMMA WalkFindsThePrefix ==
    ASSUME HostInv, RowsAreListable
    PROVE  WatermarkIsTheWalk /\ \A e \in Known : Listings(ActiveIn(e)) # {}
<1>1. ASSUME NEW e \in Known
      PROVE  /\ Listings(ActiveIn(e)) # {}
             /\ \A rows \in Listings(ActiveIn(e)) :
                    ContiguousPrefix(ActiveIn(e)) = WalkedPrefix(ActiveIn(e), rows)
    <2> DEFINE R == ActiveIn(e)
               a == epochs[e].accepted
    <2>1. IsFiniteSet(R) /\ Cardinality(R) \in Nat
        BY FS_Subset, FS_CardinalityType DEF RowsAreListable, ActiveIn, RawIn
    <2>2. \A r \in R : r.start \in Nat /\ r.end \in Nat /\ r.start <= r.end
        BY DEF HostInv, HostTypeOK, ActiveIn, RawIn
    <2>3. Listings(R) # {}
        BY <2>1, <2>2, ListingExists
    <2>4. ASSUME R # {}, NEW rows \in Listings(R)
          PROVE  ContiguousPrefix(R) = WalkedPrefix(R, rows)
        <3>1. R = RawIn(e)
            BY <2>4 DEF RowsAreListable, RetiredTogether, ActiveIn, RawIn
        <3>2. /\ a \in Nat
              /\ \E b \in R : \A r \in R : b.start <= r.start
              /\ \E t \in R : t.end = a
              /\ \A r \in R : r.end <= a
              /\ \A r \in R : \A q \in r.start .. (a - 1) :
                    \E t \in R : t.start <= q /\ q < t.end
              /\ \A r, t \in R : r # t => r.end <= t.start \/ t.end <= r.start
            BY <1>1, <2>4, <3>1 DEF HostInv, HostTypeOK, EpochRow, Based, ContiguousArchive
        <3>3. Cardinality(R) # 0
            BY <2>1, <2>4, FS_EmptySet
        <3> HIDE DEF R, a
        <3>4. ContiguousPrefix(R) = a
            BY <2>2, <3>2, PrefixOfGapFree
        <3>5. Walk(rows)[Cardinality(R)].through = a
            BY <2>1, <2>2, <3>2, <3>3, WalkOfGapFree
        <3>6. QED BY <2>4, <3>4, <3>5 DEF WalkedPrefix
    <2>5. R = {} => ContiguousPrefix(R) = 0 /\ \A rows : WalkedPrefix(R, rows) = 0
        BY DEF ContiguousPrefix, WalkedPrefix
    <2>6. QED BY <2>3, <2>4, <2>5
<1>2. QED BY <1>1 DEF WatermarkIsTheWalk

\* A request leaves no superseded row where readers look.
LEMMA IngestKeepsLive ==
    ASSUME HostInv, ActiveRowsAreLive, NEW env, NEW screen, screen \notin {"created", "replay"},
           Ingest(env, screen, Verdict(env, screen))
    PROVE  ActiveRowsAreLive'
<1>1. CASE Verdict(env, screen) = "created" /\ CommitRawObject(env, screen)
    <2>1. /\ env.session \notin tombstones
          /\ env.epoch \in Known => ~EpochMismatch(env)
        BY <1>1, AdmittedFacts
    <2>2. /\ RawOf(env).epoch = env.epoch /\ RawOf(env).session = env.session
          /\ raw' = raw \cup {RawOf(env)}
          /\ retired' = retired \cup Superseded(env)
          /\ tombstones' = tombstones
        BY <1>1 DEF CommitRawObject, RawOf
    <2>3. epochs'[env.epoch].state = "open"
        <3>1. CASE env.epoch \in Known
            <4>1. epochs[env.epoch] \in EpochRow /\ epochs[env.epoch].state = "open"
                BY <2>1, <3>1 DEF EpochMismatch, HostInv, HostTypeOK
            <4>2. epochs'[env.epoch] = [epochs[env.epoch] EXCEPT
                                           !.accepted = env.end, !.count = @ + 1]
                BY <1>1, <3>1 DEF CommitRawObject, Known, HostInv, HostTypeOK
            <4>3. QED BY <4>1, <4>2 DEF EpochRow
        <3>2. CASE env.epoch \notin Known
            BY <1>1, <3>2 DEF CommitRawObject, Known
        <3>3. QED BY <3>1, <3>2
    <2>4. ASSUME NEW r \in raw \ retired, r \notin Superseded(env)
          PROVE  epochs'[r.epoch].state = "open"
        <3>1. r.epoch \in Known /\ epochs[r.epoch].state = "open"
            BY DEF ActiveRowsAreLive, HostInv, HostTypeOK
        <3>2. CASE r.epoch = env.epoch
            BY <2>3, <3>2
        <3>3. CASE r.epoch # env.epoch
            <4>1. CASE env.epoch \in Known
                BY <1>1, <3>1, <3>3, <4>1 DEF CommitRawObject, Known
            <4>2. CASE env.epoch \notin Known
                <5>1. r.epoch = env.pred => env.pred # None
                    BY <3>1, HostAssumption DEF HostInv, HostTypeOK
                <5>2. r.epoch # env.pred
                    BY <2>4, <4>2, <5>1 DEF Superseded, ActiveIn, RawIn
                <5>3. epochs'[r.epoch] = epochs[r.epoch]
                    BY <1>1, <3>1, <3>3, <4>2, <5>2
                       DEF CommitRawObject, Known, ClosePredecessor
                <5>4. QED BY <3>1, <5>3
            <4>3. QED BY <4>1, <4>2
        <3>4. QED BY <3>2, <3>3
    <2>5. QED BY <2>1, <2>2, <2>3, <2>4 DEF ActiveRowsAreLive
<1>2. CASE /\ Verdict(env, screen) = "conflict"
           /\ RangeExamined(env, screen) /\ RepairWatermark(env)
    <2>1. UNCHANGED hostVars
        BY <1>2, RefusedFacts, RepairKeepsInv
    <2>2. QED BY <2>1 DEF hostVars, ActiveRowsAreLive
<1>3. CASE UNCHANGED hostVars
    BY <1>3 DEF hostVars, ActiveRowsAreLive
<1>4. QED BY <1>1, <1>2, <1>3 DEF Ingest

\* Neither does a deletion.
LEMMA DeleteKeepsLive ==
    ASSUME ActiveRowsAreLive, NEW s, DeleteStorageSession(s)
    PROVE  ActiveRowsAreLive'
BY DEF DeleteStorageSession, ActiveRowsAreLive, ActiveOf

\* The commit counter is ahead of every wanted revision.
LEMMA DesiredStaysPast ==
    ASSUME HostInv, DesiredIsPast,
           \/ \E env, screen : Ingest(env, screen, Verdict(env, screen))
           \/ \E s : DeleteStorageSession(s)
    PROVE  DesiredIsPast'
<1>1. commitSeq \in Nat /\ desired \in [Sessions -> Nat]
    BY DEF HostInv, HostTypeOK
<1>2. ASSUME NEW env, NEW screen, CommitRawObject(env, screen) PROVE DesiredIsPast'
    BY <1>1, <1>2 DEF CommitRawObject, DesiredIsPast
<1>3. ASSUME NEW env, RepairWatermark(env) PROVE DesiredIsPast'
    BY <1>3 DEF RepairWatermark, DesiredIsPast
<1>4. CASE UNCHANGED hostVars
    BY <1>4 DEF hostVars, DesiredIsPast
<1>5. ASSUME NEW s, DeleteStorageSession(s) PROVE DesiredIsPast'
    BY <1>1, <1>5 DEF DeleteStorageSession, DesiredIsPast
<1>6. QED BY <1>2, <1>3, <1>4, <1>5 DEF Ingest

\* A session that loses rows to a new epoch and has one source loses them all, and
\* its projectors, if it has any, are told so.
LEMMA CommitIsProjected ==
    ASSUME HostInv, ActiveRowsAreLive, DesiredIsPast, NEW env, NEW screen,
           env.epoch \notin Known => ~LineageConflict(env), CommitRawObject(env, screen),
           NEW s \in Sessions, FromOneSource(s)
    PROVE  ChangeIsProjected(s)
<1>1. /\ commitSeq \in Nat /\ desired[s] \in Nat /\ desired[s] <= commitSeq
      /\ commitSeq' = commitSeq + 1
      /\ raw' = raw \cup {RawOf(env)} /\ retired' = retired \cup Superseded(env)
      /\ s \in Told(env, screen) => desired'[s] = commitSeq + 1
      /\ s = env.session /\ screen # "clear" => s \in unrendered'
    BY DEF CommitRawObject, HostInv, HostTypeOK, DesiredIsPast
<1>2. s # env.session => ActiveAfter(s) = ActiveOf(s) \ Superseded(env)
    BY <1>1 DEF ActiveAfter, ActiveOf, RawOf
<1>5. s = env.session => ChangeIsProjected(s)
    BY <1>1 DEF ChangeIsProjected, Told
<1>6. s \in Emptied(env) => ChangeIsProjected(s)
    <2>1. s \in Emptied(env) => s # env.session /\ ActiveOf(s) \subseteq Superseded(env)
        BY DEF Emptied
    <2>2. s \in Emptied(env) => ActiveAfter(s) = {}
        BY <1>2, <2>1
    <2>3. QED BY <1>1, <2>2 DEF ChangeIsProjected, Told
<1>3. ASSUME s # env.session, ActiveAfter(s) # ActiveOf(s) PROVE s \in Emptied(env)
    <2>1. ActiveAfter(s) = ActiveOf(s) \ Superseded(env)
        BY <1>2, <1>3
    <2>2. PICK r \in ActiveOf(s) : r \in Superseded(env)
        BY <1>3, <2>1
    <2>3. /\ env.epoch \notin Known /\ env.pred # None /\ Superseded(env) = ActiveIn(env.pred)
          /\ r.session = s
        BY <2>2 DEF Superseded, ActiveOf
    <2>4. OpenEpochs(env.source) = {env.pred} /\ epochs[env.pred].source = env.source
        BY <2>3 DEF LineageConflict
    <2>5. ASSUME NEW t \in ActiveOf(s) PROVE t \in Superseded(env)
        <3>1. /\ epochs[t.epoch].state = "open" /\ t.epoch \in Known
              /\ t \in raw /\ t \notin retired
            BY DEF ActiveRowsAreLive, ActiveOf, HostInv, HostTypeOK
        <3>2. epochs[t.epoch].source = env.source
            <4>1. r.epoch = env.pred
                BY <2>2, <2>3 DEF ActiveIn, RawIn
            <4>2. QED BY <2>4, <4>1 DEF FromOneSource
        <3>3. t.epoch = env.pred
            BY <2>4, <3>1, <3>2 DEF OpenEpochs
        <3>4. QED BY <2>3, <3>1, <3>3 DEF ActiveIn, RawIn
    <2>6. QED BY <1>3, <2>2, <2>3, <2>5 DEF Emptied
<1>4. QED BY <1>3, <1>5, <1>6 DEF ChangeIsProjected

\* A request tells the projectors of a session with one source what it changed.
LEMMA IngestIsProjected ==
    ASSUME HostInv, ReadersInv, NEW env, NEW screen, screen \notin {"created", "replay"},
           Ingest(env, screen, Verdict(env, screen)), NEW s \in Sessions, FromOneSource(s)
    PROVE  ChangeIsProjected(s)
<1>1. CASE Verdict(env, screen) = "created" /\ CommitRawObject(env, screen)
    <2>1. env.epoch \notin Known => ~LineageConflict(env)
        BY <1>1, AdmittedFacts
    <2>2. QED BY <1>1, <2>1, CommitIsProjected DEF ReadersInv
<1>2. CASE RepairWatermark(env)
    BY <1>2 DEF RepairWatermark, ChangeIsProjected, ActiveAfter, ActiveOf
<1>3. CASE UNCHANGED hostVars
    BY <1>3 DEF hostVars, ChangeIsProjected, ActiveAfter, ActiveOf
<1>4. QED BY <1>1, <1>2, <1>3 DEF Ingest

\* So does a deletion, of any session.
LEMMA DeleteIsProjected ==
    ASSUME HostInv, ReadersInv, NEW x \in Sessions, DeleteStorageSession(x), NEW s \in Sessions
    PROVE  ChangeIsProjected(s)
<1>1. commitSeq \in Nat /\ desired \in [Sessions -> Nat] /\ desired[s] <= commitSeq
    BY DEF HostInv, HostTypeOK, ReadersInv, DesiredIsPast
<1>2. CASE x = s
    BY <1>1, <1>2 DEF DeleteStorageSession, ChangeIsProjected
<1>3. CASE x # s
    BY <1>3 DEF DeleteStorageSession, ChangeIsProjected, ActiveAfter, ActiveOf
<1>4. QED BY <1>2, <1>3
=============================================================================
