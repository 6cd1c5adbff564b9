--------------------------- MODULE AuditLogProofs ---------------------------
(***************************************************************************)
(* Theorems about AuditLog for any number of request threads: what holds   *)
(* of the log under each kind of incident, whatever threads die and        *)
(* whatever interleaves; what verification answers; what retention keeps;  *)
(* and that the undamaged log implements AuditTrail.                       *)
(***************************************************************************)
EXTENDS AuditLog, SequenceTheorems, FiniteSetTheorems, WellFoundedInduction,
        TLAPS

Stages == {"idle", "done", "dead"} \cup InFlight

\* Linked and CheckpointDescribesTheLog, of a log and a checkpoint.
Chain(f) == \A i \in DOMAIN f : Parses(f[i]) => f[i].prev = LastHash(Before(f, i))
Pins(f, c) ==
    /\ c.entries \in Nat
    /\ c.entries <= Len(f)
    /\ c.head = LastHash(SubSeq(f, 1, c.entries))

-----------------------------------------------------------------------------
(* Arithmetic *)

\* The naturals are well ordered: the intervals 1..k are finite, and strict
\* inclusion of finite sets is well founded.
LEMMA LeastNat ==
    ASSUME NEW T \in SUBSET Nat, T # {}
    PROVE  \E m \in T : \A k \in T : m <= k
  <1> DEFINE R == StrictSubsetOrdering(Nat)
             U == {1..k : k \in T}
  <1>1. IsWellFoundedOn(R, FiniteSubsetsOf(Nat))
    BY FS_StrictSubsetOrderingWellFounded
  <1>2. U \subseteq FiniteSubsetsOf(Nat)
    BY FS_Interval DEF FiniteSubsetsOf
  <1>3. U # {}
    OBVIOUS
  <1>4. PICK X \in U : \A Y \in U : ~(<<Y, X>> \in R)
    <2> HIDE DEF R, U
    <2> QED
      BY <1>1, <1>2, <1>3, WFMin
  <1>5. PICK m \in T : X = 1..m
    OBVIOUS
  <1>6. ASSUME NEW k \in T, k < m PROVE FALSE
    <2>1. 1..k \subseteq 1..m /\ m \in 1..m /\ m \notin 1..k
      BY <1>6
    <2>2. <<1..k, 1..m>> \in R
      BY <2>1 DEF StrictSubsetOrdering
    <2> QED
      BY <1>4, <1>5, <2>2
  <1> QED
    BY <1>6

\* A non-empty set of positions has a last one: the least bound of the set.
LEMMA LastPosition ==
    ASSUME NEW n \in Nat, NEW S \in SUBSET (1..n), S # {}
    PROVE  \E i \in S : \A j \in S : j <= i
  <1> DEFINE Bounds == {b \in Nat : \A j \in S : j <= b}
  <1>1. Bounds \in SUBSET Nat /\ Bounds # {}
    OBVIOUS
  <1>2. PICK m \in Bounds : \A k \in Bounds : m <= k
    BY <1>1, LeastNat
  <1>3. CASE m \in S
    BY <1>3
  <1>4. CASE m \notin S
    <2>0. m \in Nat /\ \A j \in S : j \in 1..n /\ j <= m
      OBVIOUS
    <2>1. PICK s \in S : TRUE
      OBVIOUS
    <2>2. m - 1 \in Nat
      BY <2>0, <2>1
    <2>3. \A j \in S : j <= m - 1
      BY <2>0, <1>4
    <2>4. m - 1 \in Bounds
      BY <2>2, <2>3
    <2> QED
      BY <2>4, <1>2
  <1> QED
    BY <1>3, <1>4

-----------------------------------------------------------------------------
(* Lines, prefixes and hashes *)

LEMMA UpdateTypes ==
    ASSUME NEW D, NEW S, NEW f \in [D -> S], NEW d \in D, NEW x \in S
    PROVE  [f EXCEPT ![d] = x] \in [D -> S]
  OBVIOUS

LEMMA LineTypes ==
    /\ Torn \in Line /\ Garbled \in Line /\ Torn # Garbled
    /\ ~Parses(Torn) /\ ~Parses(Garbled)
    /\ \A x \in Line : Parses(x) => x \in EntryType
  BY DEF Line, EntryType, Parses, Torn, Garbled

LEMMA EntryTypes ==
    ASSUME NEW r \in Requests, NEW h \in Hash
    PROVE  /\ Entry(r, h) \in Line
           /\ Entry(r, h).prev = h
           /\ Entry(r, h) # Torn
  BY DEF Entry, Line, EntryType, Torn

LEMMA HashTypes ==
    ASSUME NEW f \in Seq(Line)
    PROVE  LastHash(f) \in Hash
  <1> DEFINE parsed == {i \in DOMAIN f : Parses(f[i])}
             last == CHOOSE i \in parsed : \A j \in parsed : j <= i
  <1>1. CASE parsed = {}
    BY <1>1, EmptySeq DEF LastHash, Genesis, Hash
  <1>2. CASE parsed # {}
    <2>1. Len(f) \in Nat /\ DOMAIN f = 1..Len(f)
      BY LenProperties
    <2>2. parsed \in SUBSET (1..Len(f))
      BY <2>1
    <2>3. last \in parsed
      BY <1>2, <2>1, <2>2, LastPosition
    <2>4. f[last] \in Line /\ Parses(f[last])
      BY <2>1, <2>3, ElementOfSeq
    <2>5. f[last].prev \in Seq(Requests) /\ f[last].body \in Requests
      BY <2>4, LineTypes DEF EntryType, Hash
    <2>6. HashOf(f[last]) \in Hash
      BY <2>5, AppendProperties DEF HashOf, Hash
    <2> QED
      BY <1>2, <2>6 DEF LastHash
  <1> QED
    BY <1>1, <1>2

\* A prefix does not see what is appended.
LEMMA PrefixOfAppend ==
    ASSUME NEW f \in Seq(Line), NEW x \in Line, NEW n \in 0..Len(f)
    PROVE  SubSeq(Append(f, x), 1, n) = SubSeq(f, 1, n)
  <1>1. /\ Append(f, x) \in Seq(Line) /\ Len(Append(f, x)) = Len(f) + 1
        /\ \A i \in 1..Len(f) : Append(f, x)[i] = f[i] /\ f[i] \in Line
    BY AppendProperties, ElementOfSeq
  <1>2. n \in Int /\ 1 \in Int /\ Len(f) \in Nat
    BY LenProperties
  <1>3. /\ SubSeq(f, 1, n) \in Seq(Line)
        /\ Len(SubSeq(f, 1, n)) = n
        /\ \A i \in 1..n : SubSeq(f, 1, n)[i] = f[i]
    BY <1>1, <1>2, SubSeqProperties
  <1>4. /\ SubSeq(Append(f, x), 1, n) \in Seq(Line)
        /\ Len(SubSeq(Append(f, x), 1, n)) = n
        /\ \A i \in 1..n : SubSeq(Append(f, x), 1, n)[i] = f[i]
    BY <1>1, <1>2, SubSeqProperties
  <1> QED
    BY <1>3, <1>4, SeqEqual

\* ... nor that the line after it is replaced.
LEMMA PrefixOfExcept ==
    ASSUME NEW f \in Seq(Line), NEW x \in Line, NEW m \in 1..Len(f),
           NEW n \in 0..(m - 1)
    PROVE  SubSeq([f EXCEPT ![m] = x], 1, n) = SubSeq(f, 1, n)
  <1> DEFINE g == [f EXCEPT ![m] = x]
  <1>1. Len(f) \in Nat /\ m \in Int /\ n \in Int /\ n < m /\ n <= Len(f)
    BY LenProperties
  <1>2. /\ g \in Seq(Line) /\ Len(g) = Len(f)
        /\ \A i \in 1..n : g[i] = f[i] /\ f[i] \in Line
    BY <1>1, ExceptSeq, ElementOfSeq
  <1>3. /\ SubSeq(f, 1, n) \in Seq(Line)
        /\ Len(SubSeq(f, 1, n)) = n
        /\ \A i \in 1..n : SubSeq(f, 1, n)[i] = f[i]
    BY <1>1, <1>2, SubSeqProperties
  <1>4. /\ SubSeq(g, 1, n) \in Seq(Line)
        /\ Len(SubSeq(g, 1, n)) = n
        /\ \A i \in 1..n : SubSeq(g, 1, n)[i] = f[i]
    <2> HIDE DEF g
    <2> QED
      BY <1>1, <1>2, SubSeqProperties
  <1> QED
    BY <1>3, <1>4, SeqEqual

\* The head does not depend on a line that does not parse.
LEMMA HashIgnoresDamage ==
    ASSUME NEW f \in Seq(Line), NEW m \in 1..Len(f), NEW x \in Line,
           ~Parses(f[m]), ~Parses(x)
    PROVE  LastHash([f EXCEPT ![m] = x]) = LastHash(f)
  <1> DEFINE g == [f EXCEPT ![m] = x]
             parsed(s) == {i \in DOMAIN s : Parses(s[i])}
  <1>1. DOMAIN g = DOMAIN f /\ m \in DOMAIN f
    BY LenProperties
  <1>2. \A i \in DOMAIN f : i # m => g[i] = f[i]
    OBVIOUS
  <1>3. parsed(g) = parsed(f)
    BY <1>1, <1>2
  <1>4. \A i \in parsed(f) : HashOf(g[i]) = HashOf(f[i])
    BY <1>2
  <1>5. CASE parsed(f) = {}
    BY <1>3, <1>5 DEF LastHash
  <1>6. CASE parsed(f) # {}
    <2> DEFINE last == CHOOSE i \in parsed(f) : \A j \in parsed(f) : j <= i
    <2>1. Len(f) \in Nat /\ parsed(f) \in SUBSET (1..Len(f))
      BY LenProperties
    <2>2. last \in parsed(f)
      BY <1>6, <2>1, LastPosition
    <2>3. LastHash(f) = HashOf(f[last])
      BY <1>6 DEF LastHash
    <2>4. LastHash(g) = HashOf(g[last])
      BY <1>3, <1>6 DEF LastHash
    <2> QED
      BY <1>4, <2>2, <2>3, <2>4
  <1> QED
    BY <1>5, <1>6

-----------------------------------------------------------------------------
(* What the three ways of changing the file preserve. *)

LEMMA AppendKeepsChain ==
    ASSUME NEW f \in Seq(Line), NEW x \in Line, NEW c,
           Chain(f), Pins(f, c), Parses(x) => x.prev = LastHash(f)
    PROVE  Chain(Append(f, x)) /\ Pins(Append(f, x), c)
  <1> DEFINE g == Append(f, x)
  <1>1. /\ Len(f) \in Nat /\ DOMAIN f = 1..Len(f)
        /\ g \in Seq(Line) /\ Len(g) = Len(f) + 1 /\ DOMAIN g = 1..(Len(f) + 1)
        /\ \A i \in 1..Len(f) : g[i] = f[i]
        /\ g[Len(f) + 1] = x
    BY LenProperties, AppendProperties
  <1>2. \A n \in 0..Len(f) : SubSeq(g, 1, n) = SubSeq(f, 1, n)
    BY PrefixOfAppend
  <1>3. SubSeq(f, 1, Len(f)) = f
    BY SubSeqFull
  <1>4. ASSUME NEW i \in DOMAIN g, Parses(g[i])
        PROVE  g[i].prev = LastHash(Before(g, i))
    <2>1. i - 1 \in 0..Len(f) /\ (i \in 1..Len(f) \/ i = Len(f) + 1)
      BY <1>1
    <2>2. Before(g, i) = SubSeq(f, 1, i - 1)
      BY <1>2, <2>1 DEF Before
    <2>3. CASE i \in 1..Len(f)
      BY <1>1, <1>4, <2>2, <2>3 DEF Chain, Before
    <2>4. CASE i = Len(f) + 1
      <3>1. i - 1 = Len(f)
        BY <1>1, <2>4
      <3> QED
        BY <1>1, <1>3, <1>4, <2>2, <2>4, <3>1
    <2> QED
      BY <2>1, <2>3, <2>4
  <1>5. Pins(g, c)
    <2> HIDE DEF g
    <2>1. c.entries \in 0..Len(f) /\ c.entries <= Len(g)
      BY <1>1 DEF Pins
    <2> QED
      BY <1>2, <2>1 DEF Pins
  <1> QED
    BY <1>4, <1>5 DEF Chain

LEMMA GarbleKeepsChain ==
    ASSUME NEW f \in Seq(Line), NEW c,
           Chain(f), Pins(f, c), f # <<>>, f[Len(f)] = Torn
    PROVE  LET g == [f EXCEPT ![Len(f)] = Garbled]
           IN  g \in Seq(Line) /\ Chain(g) /\ Pins(g, c)
  <1> DEFINE m == Len(f)
             g == [f EXCEPT ![m] = Garbled]
  <1>1. m \in Nat /\ m \in 1..m /\ DOMAIN f = 1..m
    BY LenProperties, EmptySeq
  <1>2. Garbled \in Line /\ ~Parses(Garbled) /\ ~Parses(f[m])
    BY LineTypes
  <1>3. /\ g \in Seq(Line) /\ Len(g) = m /\ DOMAIN g = 1..m
        /\ \A i \in 1..m : i # m => g[i] = f[i]
        /\ g[m] = Garbled
    BY <1>1, <1>2, ExceptSeq, LenProperties
  <1>4. \A n \in 0..(m - 1) : SubSeq(g, 1, n) = SubSeq(f, 1, n)
    BY <1>1, <1>2, PrefixOfExcept
  <1>5. LastHash(g) = LastHash(f)
    BY <1>1, <1>2, HashIgnoresDamage
  <1> HIDE DEF g, m
  <1>6. ASSUME NEW i \in DOMAIN g, Parses(g[i])
        PROVE  g[i].prev = LastHash(Before(g, i))
    <2>1. i \in 1..m /\ i # m /\ i - 1 \in 0..(m - 1)
      BY <1>1, <1>2, <1>3, <1>6
    <2>2. g[i] = f[i] /\ Before(g, i) = Before(f, i)
      BY <1>3, <1>4, <2>1 DEF Before
    <2> QED
      BY <1>1, <1>6, <2>1, <2>2 DEF Chain
  <1>7. Pins(g, c)
    <2>1. c.entries \in Nat /\ c.entries <= m /\ c.head = LastHash(SubSeq(f, 1, c.entries))
      BY DEF Pins, m
    <2>2. CASE c.entries = m
      <3>1. SubSeq(g, 1, m) = g /\ SubSeq(f, 1, m) = f
        BY <1>3, SubSeqFull DEF m
      <3> QED
        BY <1>3, <1>5, <2>1, <2>2, <3>1 DEF Pins
    <2>3. CASE c.entries # m
      <3>1. c.entries \in 0..(m - 1)
        BY <1>1, <2>1, <2>3
      <3> QED
        BY <1>3, <1>4, <2>1, <3>1 DEF Pins
    <2> QED
      BY <2>2, <2>3
  <1> QED
    BY <1>3, <1>6, <1>7 DEF Chain, g, m

\* Losing the tail takes nothing from what is left.
LEMMA PrefixTypes ==
    ASSUME NEW f \in Seq(Line), NEW n \in 0..Len(f)
    PROVE  /\ SubSeq(f, 1, n) \in Seq(Line)
           /\ Len(SubSeq(f, 1, n)) = n
           /\ DOMAIN SubSeq(f, 1, n) = 1..n
           /\ \A i \in 1..n : i \in DOMAIN f /\ SubSeq(f, 1, n)[i] = f[i]
  <1>1. n \in Int /\ 1 \in Int /\ Len(f) \in Nat /\ DOMAIN f = 1..Len(f)
    BY LenProperties
  <1>2. \A i \in 1..n : i \in DOMAIN f /\ f[i] \in Line
    BY <1>1, ElementOfSeq
  <1>3. /\ SubSeq(f, 1, n) \in Seq(Line)
        /\ Len(SubSeq(f, 1, n)) = n
        /\ \A i \in 1..n : SubSeq(f, 1, n)[i] = f[i]
    BY <1>1, <1>2, SubSeqProperties
  <1> QED
    BY <1>2, <1>3, LenProperties

LEMMA PrefixKeepsChain ==
    ASSUME NEW f \in Seq(Line), NEW n \in 0..Len(f), Chain(f)
    PROVE  Chain(SubSeq(f, 1, n))
  <1> DEFINE g == SubSeq(f, 1, n)
  <1>0. Len(f) \in Nat /\ DOMAIN f = 1..Len(f)
    BY LenProperties
  <1>1. /\ g \in Seq(Line) /\ Len(g) = n /\ DOMAIN g = 1..n
        /\ \A i \in 1..n : i \in DOMAIN f /\ g[i] = f[i]
    BY PrefixTypes
  <1> HIDE DEF g
  <1>2. ASSUME NEW i \in 1..n
        PROVE  Before(g, i) = Before(f, i)
    <2>1. i - 1 \in 0..n /\ i - 1 \in 0..Len(f)
      BY <1>0
    <2>2. /\ SubSeq(g, 1, i - 1) \in Seq(Line) /\ Len(SubSeq(g, 1, i - 1)) = i - 1
          /\ \A j \in 1..(i - 1) : SubSeq(g, 1, i - 1)[j] = g[j]
      BY <1>1, <2>1, PrefixTypes
    <2>3. /\ SubSeq(f, 1, i - 1) \in Seq(Line) /\ Len(SubSeq(f, 1, i - 1)) = i - 1
          /\ \A j \in 1..(i - 1) : SubSeq(f, 1, i - 1)[j] = f[j]
      BY <2>1, PrefixTypes
    <2>4. \A j \in 1..(i - 1) : g[j] = f[j]
      BY <1>0, <1>1
    <2>5. SubSeq(g, 1, i - 1) = SubSeq(f, 1, i - 1)
      BY <2>2, <2>3, <2>4, SeqEqual
    <2> QED
      BY <2>5 DEF Before
  <1>3. Chain(g)
    BY <1>1, <1>2 DEF Chain
  <1> QED
    BY <1>3 DEF g

-----------------------------------------------------------------------------
(* What retention keeps *)

\* The ranks of the members of a finite set of positions are 1..Cardinality.
LEMMA RankTypes ==
    ASSUME NEW n \in Nat, NEW S \in SUBSET (1..n)
    PROVE  /\ Cardinality(S) \in Nat
           /\ \A i \in S : Rank(i, S) \in 1..Cardinality(S)
           /\ \A i, k \in S : Rank(i, S) = Rank(k, S) => i = k
  <1> DEFINE Upto(i) == {j \in S : j <= i}
  <1>0. IsFiniteSet(1..n)
    BY FS_Interval
  <1>1. IsFiniteSet(S) /\ Cardinality(S) \in Nat
    BY <1>0, FS_Subset, FS_CardinalityType
  <1>2. ASSUME NEW i \in S
        PROVE  /\ IsFiniteSet(Upto(i))
               /\ Rank(i, S) = Cardinality(Upto(i))
               /\ Rank(i, S) \in 1..Cardinality(S)
    <2>1. /\ IsFiniteSet(Upto(i)) /\ Cardinality(Upto(i)) \in Nat
          /\ Cardinality(Upto(i)) <= Cardinality(S)
      BY <1>1, FS_Subset, FS_CardinalityType
    <2>2. i \in Upto(i)
      OBVIOUS
    <2>3. Cardinality(Upto(i)) # 0
      BY <2>1, <2>2, FS_EmptySet
    <2> QED
      BY <1>1, <2>1, <2>3 DEF Rank
  <1>3. ASSUME NEW i \in S, NEW k \in S, i < k
        PROVE  Rank(i, S) < Rank(k, S)
    <2>0. i \in Int /\ k \in Int /\ \A j \in S : j \in Int
      OBVIOUS
    <2>1. Upto(i) \subseteq Upto(k)
      <3>1. \A j \in S : j <= i => j <= k
        BY <1>3, <2>0
      <3> QED
        BY <3>1
    <2>3. k \in Upto(k) /\ k \notin Upto(i)
      BY <1>3, <2>0
    <2>2. /\ Cardinality(Upto(i)) <= Cardinality(Upto(k))
          /\ Cardinality(Upto(i)) # Cardinality(Upto(k))
      BY <1>2, <2>1, <2>3, FS_Subset
    <2> QED
      BY <1>1, <1>2, <2>2
  <1>4. ASSUME NEW i \in S, NEW k \in S, Rank(i, S) = Rank(k, S)
        PROVE  i = k
    <2>0. i \in Int /\ k \in Int
      OBVIOUS
    <2>1. Rank(i, S) \in Int
      <3>1. Rank(i, S) \in 1..Cardinality(S)
        BY <1>2
      <3> QED
        BY <1>1, <3>1
    <2>2. ~(i < k) /\ ~(k < i)
      BY <1>3, <1>4, <2>1
    <2> QED
      BY <2>0, <2>2
  <1> QED
    BY <1>1, <1>2, <1>4

LEMMA RankOnto ==
    ASSUME NEW n \in Nat, NEW S \in SUBSET (1..n), NEW m \in 1..Cardinality(S)
    PROVE  \E i \in S : Rank(i, S) = m
  <1> DEFINE N == Cardinality(S)
             rank == [i \in S |-> Rank(i, S)]
  <1>0. IsFiniteSet(1..n)
    BY FS_Interval
  <1>1. IsFiniteSet(S) /\ N \in Nat
    BY <1>0, FS_Subset, FS_CardinalityType
  <1>2. IsFiniteSet(1..N) /\ Cardinality(1..N) = N
    BY <1>1, FS_Interval
  <1>3. rank \in Injection(S, 1..N)
    <2>1. \A i \in S : Rank(i, S) \in 1..N
      BY RankTypes
    <2>2. ASSUME NEW i \in S, NEW k \in S, rank[i] = rank[k]
          PROVE  i = k
      <3>1. Rank(i, S) = Rank(k, S)
        BY <2>2
      <3> QED
        BY <3>1, RankTypes
    <2>3. rank \in [S -> 1..N]
      BY <2>1
    <2> HIDE DEF rank
    <2> QED
      BY <2>2, <2>3 DEF Injection, IsInjective
  <1>4. rank \in Surjection(S, 1..N)
    <2> HIDE DEF rank
    <2> QED
      BY <1>2, <1>3, FS_Injection
  <1>5. \E i \in S : rank[i] = m
    <2> HIDE DEF rank
    <2> QED
      BY <1>4 DEF Surjection
  <1> QED
    BY <1>5

\* Retention keeps lines of the file, terminated, and every line it decides to
\* keep.
LEMMA KeptLinesProperties ==
    ASSUME TypeOK
    PROVE  /\ KeptLines \in Seq(Line)
           /\ \A n \in DOMAIN KeptLines :
                  \E i \in DOMAIN file : KeptLines[n] = Terminated(file[i])
           /\ \A i \in DOMAIN file : Keep(file[i]) =>
                  \E n \in DOMAIN KeptLines : KeptLines[n] = Terminated(file[i])
  <1> DEFINE N == Cardinality(ToKeep)
             nth(n) == CHOOSE i \in ToKeep : Rank(i, ToKeep) = n
  <1>1. file \in Seq(Line) /\ Len(file) \in Nat /\ DOMAIN file = 1..Len(file)
    BY LenProperties DEF TypeOK
  <1>2. ToKeep \in SUBSET (1..Len(file))
    BY <1>1 DEF ToKeep
  <1>3. N \in Nat /\ \A i \in ToKeep : Rank(i, ToKeep) \in 1..N
    BY <1>1, <1>2, RankTypes
  <1>4. \A n \in 1..N : nth(n) \in ToKeep
    BY <1>1, <1>2, RankOnto
  <1>5. ASSUME NEW i \in ToKeep
        PROVE  nth(Rank(i, ToKeep)) = i
    <2> DEFINE k == nth(Rank(i, ToKeep))
    <2>1. k \in ToKeep /\ Rank(k, ToKeep) = Rank(i, ToKeep)
      OBVIOUS
    <2> HIDE DEF k
    <2>4. k = i
      BY <1>1, <1>2, <2>1, RankTypes
    <2> QED
      BY <2>4 DEF k
  <1>6. KeptLines = [n \in 1..N |-> Terminated(file[nth(n)])]
    BY DEF KeptLines
  <1>7. \A i \in DOMAIN file : Terminated(file[i]) \in Line
    BY <1>1, ElementOfSeq, LineTypes DEF Terminated
  <1>8. DOMAIN KeptLines = 1..N
    BY <1>6
  <1>9. \A n \in 1..N : nth(n) \in DOMAIN file /\ KeptLines[n] = Terminated(file[nth(n)])
    BY <1>1, <1>2, <1>4, <1>6
  <1> HIDE DEF nth
  <1>10. KeptLines \in [1..N -> Line]
    BY <1>6, <1>7, <1>9
  <1>11. KeptLines \in Seq(Line)
    BY <1>3, <1>10
  <1>12. ASSUME NEW i \in DOMAIN file, Keep(file[i])
         PROVE  \E n \in 1..N : KeptLines[n] = Terminated(file[i])
    <2>1. i \in ToKeep
      BY <1>12 DEF ToKeep
    <2> QED
      BY <1>3, <1>5, <1>9, <2>1
  <1> QED
    BY <1>8, <1>9, <1>11, <1>12

-----------------------------------------------------------------------------
(* Types *)

LEMMA EmptyTypes == Genesis \in Hash /\ <<>> \in Seq(Line)
  BY EmptySeq DEF Genesis, Hash

\* A request that ends leaves nothing behind.
LEMMA EndTypes ==
    ASSUME TypeOK, NEW r \in Requests, NEW how \in Stages, End(r, how)
    PROVE  /\ pc' \in [Requests -> Stages]
           /\ head' \in [Requests -> Hash]
           /\ kept' \in [Requests -> Seq(Line)]
           /\ counted' \in [Requests -> Nat]
  <1>1. /\ pc \in [Requests -> Stages] /\ head \in [Requests -> Hash]
        /\ kept \in [Requests -> Seq(Line)] /\ counted \in [Requests -> Nat]
    BY DEF TypeOK, Stages
  <1>2. pc' \in [Requests -> Stages]
    BY <1>1, UpdateTypes DEF End, GoTo
  <1>3. head' \in [Requests -> Hash]
    BY <1>1, EmptyTypes, UpdateTypes DEF End
  <1>4. kept' \in [Requests -> Seq(Line)]
    BY <1>1, EmptyTypes, UpdateTypes DEF End
  <1>5. counted' \in [Requests -> Nat]
    BY <1>1 DEF End
  <1> QED
    BY <1>2, <1>3, <1>4, <1>5

LEMMA TypeInit == Init => TypeOK
  <1> SUFFICES ASSUME Init PROVE TypeOK
    OBVIOUS
  <1>1. <<>> \in Seq(Line) /\ <<>> \in Hash
    BY EmptySeq DEF Hash
  <1> QED
    BY <1>1 DEF Init, TypeOK, NoCheckpoint, Genesis

LEMMA TypeStep == TypeOK /\ [Next]_vars => TypeOK'
  <1> SUFFICES ASSUME TypeOK, [Next]_vars
               PROVE  TypeOK'
    OBVIOUS
  <1> USE DEF log, locals, history
  <1>0. file \in Seq(Line) /\ Len(file) \in Nat /\ LastHash(file) \in Hash
    BY HashTypes, LenProperties DEF TypeOK
  <1>00. TypeOK => pc \in [Requests -> Stages]
    BY DEF TypeOK, Stages
  <1>1. ASSUME NEW r \in Requests, NEW o \in Operations, Begin(r, o)
        PROVE  TypeOK'
    <2>1. FirstStep(o) \in InFlight
      BY DEF FirstStep, InFlight
    <2>2. pc' \in [Requests -> Stages] /\ op' \in [Requests -> Operations \cup {"none"}]
      BY <1>00, <1>1, <2>1 DEF Begin, GoTo, TypeOK, Stages
    <2>3. happened' \subseteq Incidents
      BY <1>1 DEF Begin, Note, TypeOK, Incidents
    <2> QED
      BY <1>1, <2>2, <2>3 DEF Begin, TypeOK, Stages
  <1>2. ASSUME NEW r \in Requests, TakeLock(r)
        PROVE  TypeOK'
    <2>1. pc' \in [Requests -> Stages]
      BY <1>00, <1>2 DEF TakeLock, GoTo, Stages, InFlight
    <2>2. head' \in [Requests -> Hash]
      BY <1>0, <1>2, UpdateTypes DEF TakeLock, TypeOK
    <2> QED
      BY <1>2, <2>1, <2>2 DEF TakeLock, TypeOK, Stages
  <1>3. ASSUME NEW r \in Requests, WriteRecord(r)
        PROVE  TypeOK'
    <2>1. file' \in Seq(Line)
      <3>1. CASE TailIsTorn
        <4>1. Len(file) \in 1..Len(file)
          BY <1>0, <3>1, EmptySeq DEF TailIsTorn
        <4> QED
          BY <1>0, <1>3, <3>1, <4>1, LineTypes, ExceptSeq DEF WriteRecord
      <3>2. CASE ~TailIsTorn
        <4>1. Entry(r, head[r]) \in Line
          BY EntryTypes DEF TypeOK
        <4> QED
          BY <1>0, <1>3, <3>2, <4>1, AppendProperties DEF WriteRecord
      <3> QED
        BY <3>1, <3>2
    <2>2. End(r, "done") /\ "done" \in Stages
      BY <1>3 DEF WriteRecord, Stages
    <2> QED
      BY <1>3, <2>1, <2>2, EndTypes DEF WriteRecord, TypeOK, Stages
  <1>4. ASSUME NEW r \in Requests, SignCheckpoint(r)
        PROVE  TypeOK'
    <2>1. checkpoint' \in [entries : Nat, head : Hash]
      BY <1>0, <1>4 DEF SignCheckpoint, TypeOK
    <2>2. /\ pc' \in [Requests -> Stages]
          /\ head' \in [Requests -> Hash] /\ kept' \in [Requests -> Seq(Line)]
          /\ counted' \in [Requests -> Nat]
      <3>1. CASE End(r, "done")
        BY <3>1, EndTypes DEF Stages
      <3>2. CASE GoTo(r, "purging") /\ UNCHANGED locals
        BY <1>00, <3>2 DEF GoTo, TypeOK, Stages, InFlight
      <3> QED
        BY <1>4, <3>1, <3>2 DEF SignCheckpoint
    <2> QED
      BY <1>4, <2>1, <2>2 DEF SignCheckpoint, TypeOK, Stages
  <1>5. ASSUME NEW r \in Requests, ReadForPurge(r)
        PROVE  TypeOK'
    <2>1. CASE End(r, "done") /\ UNCHANGED happened
      <3>1. /\ pc' \in [Requests -> Stages]
            /\ head' \in [Requests -> Hash] /\ kept' \in [Requests -> Seq(Line)]
            /\ counted' \in [Requests -> Nat]
        BY <2>1, EndTypes DEF Stages
      <3> QED
        BY <1>5, <2>1, <3>1 DEF ReadForPurge, TypeOK, Stages
    <2>2. CASE /\ Note({"purge"})
               /\ kept' = [kept EXCEPT ![r] = KeptLines]
               /\ GoTo(r, "read")
               /\ UNCHANGED <<head, counted>>
      <3>1. kept' \in [Requests -> Seq(Line)]
        BY <2>2, KeptLinesProperties, UpdateTypes DEF TypeOK
      <3>2. pc' \in [Requests -> Stages]
        BY <1>00, <2>2 DEF GoTo, Stages, InFlight
      <3>3. happened' \subseteq Incidents
        BY <2>2 DEF Note, TypeOK, Incidents
      <3> QED
        BY <1>5, <2>2, <3>1, <3>2, <3>3 DEF ReadForPurge, TypeOK, Stages
    <2> QED
      BY <1>5, <2>1, <2>2 DEF ReadForPurge
  <1>6. ASSUME NEW r \in Requests, Truncate(r)
        PROVE  TypeOK'
    <2>1. pc' \in [Requests -> Stages]
      BY <1>00, <1>6 DEF Truncate, GoTo, Stages, InFlight
    <2> QED
      BY <1>6, <2>1, EmptyTypes DEF Truncate, TypeOK, Stages
  <1>7. ASSUME NEW r \in Requests, Rewrite(r)
        PROVE  TypeOK'
    <2>1. file' \in Seq(Line)
      <3>1. kept[r] \in Seq(Line)
        BY DEF TypeOK
      <3> QED
        <4>1. file' \in {file, kept[r], Append(kept[r], Garbled)}
          BY <1>7 DEF Rewrite
        <4>2. Append(kept[r], Garbled) \in Seq(Line)
          BY <3>1, LineTypes, AppendProperties
        <4> QED
          BY <1>0, <3>1, <4>1, <4>2
    <2>2. End(r, "done") /\ "done" \in Stages
      BY <1>7 DEF Rewrite, Stages
    <2> QED
      BY <1>7, <2>1, <2>2, EndTypes DEF Rewrite, TypeOK, Stages
  <1>8. ASSUME NEW r \in Requests, NEW what \in {"intact", "broken", "truncated"},
               Answer(r, what),
               UNCHANGED <<log, checkpoint, lock, op, history>>
        PROVE  TypeOK'
    <2>1. answer' \in [Requests -> {"none", "intact", "broken", "truncated"}]
      BY <1>8 DEF Answer, TypeOK
    <2>2. End(r, "done") /\ "done" \in Stages
      BY <1>8 DEF Answer, Stages
    <2> QED
      BY <1>8, <2>1, <2>2, EndTypes DEF TypeOK, Stages
  <1>9. ASSUME NEW r \in Requests, ReadLog(r)
        PROVE  TypeOK'
    <2>1. CASE Answer(r, "intact") \/ Answer(r, "broken")
      BY <1>8, <1>9, <2>1 DEF ReadLog
    <2>2. CASE ~(Answer(r, "intact") \/ Answer(r, "broken"))
      <3>0. /\ counted' = [counted EXCEPT ![r] = Len(file)]
            /\ pc' = [pc EXCEPT ![r] = "crosschecking"]
            /\ UNCHANGED <<head, kept, answer>>
        BY <1>9, <2>2 DEF ReadLog, GoTo
      <3>1. counted' \in [Requests -> Nat] /\ pc' \in [Requests -> Stages]
        BY <1>0, <1>00, <3>0 DEF TypeOK, Stages, InFlight
      <3> QED
        BY <1>9, <3>0, <3>1 DEF ReadLog, TypeOK, Stages
    <2> QED
      BY <2>1, <2>2
  <1>10. ASSUME NEW r \in Requests, CrossCheck(r)
         PROVE  TypeOK'
    BY <1>8, <1>10 DEF CrossCheck
  <1>11. ASSUME NEW r \in Requests, Die(r)
         PROVE  TypeOK'
    <2>1. file' \in Seq(Line) /\ present' \in BOOLEAN
      <3>1. Append(file, Torn) \in Seq(Line)
        BY <1>0, LineTypes, AppendProperties
      <3>2. \/ file' = file /\ present' = present
            \/ file' = file /\ present' = TRUE
            \/ file' = Append(file, Torn) /\ present' = TRUE
        BY <1>11 DEF Die
      <3> QED
        BY <1>0, <3>1, <3>2 DEF TypeOK
    <2>2. End(r, "dead") /\ "dead" \in Stages
      BY <1>11 DEF Die, Stages
    <2>3. happened' \subseteq Incidents /\ lock' \in Requests \cup {Nobody}
      BY <1>11 DEF Die, Note, TypeOK, Incidents
    <2> QED
      BY <1>11, <2>1, <2>2, <2>3, EndTypes DEF Die, TypeOK, Stages
  <1>12. ASSUME NEW n \in 0..(Len(file) - 1), LoseTail(n)
         PROVE  TypeOK'
    <2>1. n \in 0..Len(file)
      BY <1>0
    <2>2. file' \in Seq(Line)
      BY <1>0, <1>12, <2>1, PrefixTypes DEF LoseTail
    <2>3. happened' \subseteq Incidents
      BY <1>12 DEF LoseTail, Note, TypeOK, Incidents
    <2> QED
      BY <1>12, <2>2, <2>3 DEF LoseTail, TypeOK
  <1>13. ASSUME NEW r \in Requests, Age(r)
         PROVE  TypeOK'
    BY <1>13 DEF Age, TypeOK
  <1>14. CASE UNCHANGED vars
    BY <1>14 DEF vars, TypeOK
  <1> QED
    BY <1>1, <1>2, <1>3, <1>4, <1>5, <1>6, <1>7, <1>9, <1>10, <1>11, <1>12, <1>13, <1>14
       DEF Next, Work

\* The log, the checkpoint and what every request holds keep their shape,
\* through purges, losses and failures too.
THEOREM TypeCorrect == Spec => []TypeOK
  BY TypeInit, TypeStep, PTL DEF Spec

-----------------------------------------------------------------------------
(* What a step does *)

Tears(r) ==
    /\ pc[r] = "writing" /\ pc' = [pc EXCEPT ![r] = "dead"]
    /\ "tear" \in happened'
    /\ file' = Append(file, Torn) /\ acked' = acked

\* Only these steps touch the file.
LEMMA FileSteps ==
    ASSUME [Next]_vars
    PROVE  \/ file' = file /\ acked' = acked
           \/ \E r \in Requests : WriteRecord(r)
           \/ \E r \in Requests : Tears(r)
           \/ \E r \in Requests : Truncate(r) \/ Rewrite(r)
           \/ \E n \in 0..(Len(file) - 1) : LoseTail(n)
  <1> USE DEF log, history
  <1>1. ASSUME NEW r \in Requests, NEW o \in Operations,
               \/ Begin(r, o) \/ TakeLock(r) \/ SignCheckpoint(r) \/ ReadForPurge(r)
               \/ ReadLog(r) \/ CrossCheck(r) \/ Age(r)
        PROVE  file' = file /\ acked' = acked
    BY <1>1 DEF Begin, TakeLock, SignCheckpoint, ReadForPurge, ReadLog, CrossCheck, Age
  <1>2. ASSUME NEW r \in Requests, Die(r)
        PROVE  (file' = file /\ acked' = acked) \/ Tears(r)
    <2>1. CASE UNCHANGED <<file, present>> \/ TailIsTorn
      BY <1>2, <2>1 DEF Die
    <2>2. CASE ~(UNCHANGED <<file, present>> \/ TailIsTorn)
      BY <1>2, <2>2 DEF Die, Tears, Note, End, GoTo
    <2> QED
      BY <2>1, <2>2
  <1>3. CASE UNCHANGED vars
    BY <1>3 DEF vars
  <1>4. "append" \in Operations
    BY DEF Operations
  <1> QED
    BY <1>1, <1>2, <1>3, <1>4 DEF Next, Work

\* What happened stays so, and what has aged stays old.
LEMMA History ==
    ASSUME [Next]_vars
    PROVE  happened \subseteq happened' /\ aged \subseteq aged'
  BY DEF Next, Work, Begin, TakeLock, WriteRecord, SignCheckpoint, ReadForPurge,
         Truncate, Rewrite, ReadLog, CrossCheck, Die, LoseTail, Age, Note,
         history, vars

\* One request moves at a time: it is in flight, or it begins.
Moved(r, from, to) ==
    /\ pc[r] \in from
    /\ \E where \in to : pc' = [pc EXCEPT ![r] = where]
    /\ \A q \in Requests \ {r} : head'[q] = head[q] /\ kept'[q] = kept[q]
                                 /\ counted'[q] = counted[q] /\ answer'[q] = answer[q]

LEMMA Moves ==
    ASSUME TypeOK, [Next]_vars
    PROVE  \/ UNCHANGED <<pc, head, kept, counted, answer>>
           \/ \E r \in Requests :
                  \/ /\ Moved(r, {"idle"}, {"verifying", "purging", "waiting"})
                     /\ Busy => "overlap" \in happened'
                     /\ UNCHANGED <<head, kept, counted, answer>>
                  \/ Moved(r, {"waiting"}, {"writing", "counting"}) /\ TakeLock(r)
                  \/ Moved(r, {"writing"}, {"done"}) /\ WriteRecord(r)
                  \/ Moved(r, {"counting"}, {"purging", "done"}) /\ SignCheckpoint(r)
                  \/ Moved(r, {"purging"}, {"done", "read"}) /\ ReadForPurge(r)
                  \/ Moved(r, {"read"}, {"emptied"}) /\ Truncate(r)
                  \/ Moved(r, {"emptied"}, {"done"}) /\ Rewrite(r)
                  \/ Moved(r, {"verifying"}, {"done", "crosschecking"}) /\ ReadLog(r)
                  \/ Moved(r, {"crosschecking"}, {"done"}) /\ CrossCheck(r)
                  \/ /\ Moved(r, InFlight, {"dead"})
                     /\ Die(r) /\ "death" \in happened' /\ answer' = answer
  <1> USE DEF locals, GoTo
  <1>0. /\ DOMAIN head = Requests /\ DOMAIN kept = Requests
        /\ DOMAIN counted = Requests /\ DOMAIN answer = Requests
    BY DEF TypeOK
  <1>1. ASSUME NEW r \in Requests, NEW q \in Requests \ {r}, NEW how, End(r, how)
        PROVE  head'[q] = head[q] /\ kept'[q] = kept[q] /\ counted'[q] = counted[q]
    BY <1>0, <1>1 DEF End
  <1>2. ASSUME NEW r \in Requests, NEW o \in Operations, Begin(r, o)
        PROVE  /\ Moved(r, {"idle"}, {"verifying", "purging", "waiting"})
               /\ Busy => "overlap" \in happened'
               /\ UNCHANGED <<head, kept, counted, answer>>
    <2>1. FirstStep(o) \in {"verifying", "purging", "waiting"}
      BY DEF FirstStep
    <2> QED
      BY <1>2, <2>1 DEF Begin, Moved, Note
  <1>3. ASSUME NEW r \in Requests, TakeLock(r)
        PROVE  Moved(r, {"waiting"}, {"writing", "counting"})
    <2>1. \E where \in {"writing", "counting"} : pc' = [pc EXCEPT ![r] = where]
      BY <1>3 DEF TakeLock
    <2> QED
      BY <1>0, <1>3, <2>1 DEF TakeLock, Moved
  <1>4. ASSUME NEW r \in Requests, WriteRecord(r)
        PROVE  Moved(r, {"writing"}, {"done"})
    <2>1. End(r, "done") /\ answer' = answer /\ pc[r] = "writing"
      BY <1>4 DEF WriteRecord
    <2> QED
      BY <1>1, <2>1 DEF Moved, End
  <1>5. ASSUME NEW r \in Requests, SignCheckpoint(r)
        PROVE  Moved(r, {"counting"}, {"purging", "done"})
    <2>1. /\ End(r, "done") \/ (GoTo(r, "purging") /\ UNCHANGED locals)
          /\ answer' = answer /\ pc[r] = "counting"
      BY <1>5 DEF SignCheckpoint
    <2>2. \E where \in {"purging", "done"} : pc' = [pc EXCEPT ![r] = where]
      BY <2>1 DEF End
    <2> QED
      BY <1>1, <2>1, <2>2 DEF Moved
  <1>6. ASSUME NEW r \in Requests, ReadForPurge(r)
        PROVE  Moved(r, {"purging"}, {"done", "read"})
    <2>1. /\ \/ End(r, "done")
             \/ /\ kept' = [kept EXCEPT ![r] = KeptLines]
                /\ GoTo(r, "read") /\ UNCHANGED <<head, counted>>
          /\ answer' = answer /\ pc[r] = "purging"
      BY <1>6 DEF ReadForPurge
    <2>2. \E where \in {"done", "read"} : pc' = [pc EXCEPT ![r] = where]
      BY <2>1 DEF End
    <2>3. \A q \in Requests \ {r} :
              head'[q] = head[q] /\ kept'[q] = kept[q] /\ counted'[q] = counted[q]
      BY <1>0, <1>1, <2>1
    <2> QED
      BY <2>1, <2>2, <2>3 DEF Moved
  <1>7. ASSUME NEW r \in Requests, Truncate(r)
        PROVE  Moved(r, {"read"}, {"emptied"})
    BY <1>7 DEF Truncate, Moved
  <1>8. ASSUME NEW r \in Requests, Rewrite(r)
        PROVE  Moved(r, {"emptied"}, {"done"})
    <2>1. End(r, "done") /\ answer' = answer /\ pc[r] = "emptied"
      BY <1>8 DEF Rewrite
    <2> QED
      BY <1>1, <2>1 DEF Moved, End
  <1>9. ASSUME NEW r \in Requests, NEW what, Answer(r, what),
               NEW from, pc[r] \in from, NEW to, "done" \in to
        PROVE  Moved(r, from, to)
    <2>1. /\ End(r, "done") /\ pc' = [pc EXCEPT ![r] = "done"]
          /\ \A q \in Requests \ {r} : answer'[q] = answer[q]
      BY <1>0, <1>9 DEF Answer, End
    <2> QED
      BY <1>1, <1>9, <2>1 DEF Moved
  <1>10. ASSUME NEW r \in Requests, ReadLog(r)
         PROVE  Moved(r, {"verifying"}, {"done", "crosschecking"})
    <2>1. CASE Answer(r, "intact") \/ Answer(r, "broken")
      BY <1>9, <1>10, <2>1 DEF ReadLog
    <2>2. CASE ~(Answer(r, "intact") \/ Answer(r, "broken"))
      <3>1. /\ counted' = [counted EXCEPT ![r] = Len(file)]
            /\ pc' = [pc EXCEPT ![r] = "crosschecking"]
            /\ UNCHANGED <<head, kept, answer>> /\ pc[r] = "verifying"
        BY <1>10, <2>2 DEF ReadLog
      <3> QED
        BY <1>0, <3>1 DEF Moved
    <2> QED
      BY <2>1, <2>2
  <1>11. ASSUME NEW r \in Requests, CrossCheck(r)
         PROVE  Moved(r, {"crosschecking"}, {"done"})
    BY <1>9, <1>11 DEF CrossCheck
  <1>12. ASSUME NEW r \in Requests, Die(r)
         PROVE  /\ Moved(r, InFlight, {"dead"})
                /\ "death" \in happened' /\ answer' = answer
    <2>1. /\ End(r, "dead") /\ answer' = answer /\ pc[r] \in InFlight
          /\ "death" \in happened'
      BY <1>12 DEF Die, Note
    <2> QED
      BY <1>1, <2>1 DEF Moved, End
  <1>13. ASSUME \/ \E r \in Requests : Age(r)
                \/ \E n \in 0..(Len(file) - 1) : LoseTail(n)
                \/ UNCHANGED vars
         PROVE  UNCHANGED <<pc, head, kept, counted, answer>>
    BY <1>13 DEF Age, LoseTail, vars
  <1> QED
    BY <1>2, <1>3, <1>4, <1>5, <1>6, <1>7, <1>8, <1>10, <1>11, <1>12, <1>13
       DEF Next, Work

-----------------------------------------------------------------------------
(* The lock, also across purges and losses *)

LockInv == pc \in [Requests -> Stages] /\ HeldAtWork

\* A step that moves only r, and hands the lock over as r's stage demands.
LEMMA HandedOver ==
    ASSUME LockInv, NEW r \in Requests, NEW where \in Stages,
           pc' = [pc EXCEPT ![r] = where],
           \/ /\ where \in {"writing", "counting"}
              /\ lock = Nobody /\ lock' = r
           \/ /\ where \notin {"writing", "counting"}
              /\ lock' = (IF lock = r THEN Nobody ELSE lock)
    PROVE  LockInv'
  <1>1. pc' \in [Requests -> Stages] /\ lock' \in Requests \cup {Nobody}
    BY DEF LockInv, HeldAtWork
  <1>2. ASSUME NEW q \in Requests
        PROVE  pc'[q] \in {"writing", "counting"} <=> lock' = q
    <2>1. CASE q = r
      BY <2>1, NobodyAssumption DEF LockInv
    <2>2. CASE q # r
      BY <2>2, NobodyAssumption DEF LockInv, HeldAtWork
    <2> QED
      BY <2>1, <2>2
  <1> QED
    BY <1>1, <1>2 DEF LockInv, HeldAtWork

LEMMA LockStep == LockInv /\ [Next]_vars => LockInv'
  <1> SUFFICES ASSUME LockInv, [Next]_vars
               PROVE  LockInv'
    OBVIOUS
  <1>0. \A q \in Requests : pc[q] \in {"writing", "counting"} <=> lock = q
    BY DEF LockInv, HeldAtWork
  <1>1. ASSUME NEW r \in Requests, NEW o \in Operations, Begin(r, o)
        PROVE  LockInv'
    <2>1. PICK where \in {"verifying", "purging", "waiting"} :
             pc' = [pc EXCEPT ![r] = where]
      BY <1>1 DEF Begin, GoTo, FirstStep
    <2>2. lock # r /\ lock' = lock
      BY <1>0, <1>1 DEF Begin
    <2> QED
      BY <2>1, <2>2, HandedOver DEF Stages, InFlight
  <1>2. ASSUME NEW r \in Requests, TakeLock(r)
        PROVE  LockInv'
    <2>1. PICK where \in {"writing", "counting"} : pc' = [pc EXCEPT ![r] = where]
      BY <1>2 DEF TakeLock, GoTo
    <2>2. lock = Nobody /\ lock' = r
      BY <1>2 DEF TakeLock, LockFree
    <2> QED
      BY <2>1, <2>2, HandedOver DEF Stages, InFlight
  <1>3. ASSUME NEW r \in Requests, WriteRecord(r) \/ SignCheckpoint(r)
        PROVE  LockInv'
    <2>1. PICK where \in {"done", "purging"} : pc' = [pc EXCEPT ![r] = where]
      BY <1>3 DEF WriteRecord, SignCheckpoint, End, GoTo
    <2>2. lock = r /\ lock' = Nobody
      BY <1>0, <1>3 DEF WriteRecord, SignCheckpoint
    <2> QED
      BY <2>1, <2>2, HandedOver DEF Stages, InFlight
  <1>4. ASSUME NEW r \in Requests,
               \/ ReadForPurge(r) \/ Truncate(r) \/ Rewrite(r) \/ ReadLog(r) \/ CrossCheck(r)
        PROVE  LockInv'
    <2>1. PICK where \in {"done", "read", "emptied", "crosschecking"} :
             pc' = [pc EXCEPT ![r] = where]
      BY <1>4, Zenon
         DEF ReadForPurge, Truncate, Rewrite, ReadLog, CrossCheck, Answer, End, GoTo
    <2>2. lock # r /\ lock' = lock
      BY <1>0, <1>4 DEF ReadForPurge, Truncate, Rewrite, ReadLog, CrossCheck
    <2> QED
      BY <2>1, <2>2, HandedOver DEF Stages, InFlight
  <1>5. ASSUME NEW r \in Requests, Die(r)
        PROVE  LockInv'
    <2>1. pc' = [pc EXCEPT ![r] = "dead"] /\ lock' = (IF lock = r THEN Nobody ELSE lock)
      BY <1>5 DEF Die, End, GoTo
    <2> QED
      BY <2>1, HandedOver DEF Stages, InFlight
  <1>6. ASSUME \/ \E r \in Requests : Age(r)
               \/ \E n \in 0..(Len(file) - 1) : LoseTail(n)
               \/ UNCHANGED vars
        PROVE  LockInv'
    <2>1. pc' = pc /\ lock' = lock
      BY <1>6 DEF Age, LoseTail, vars
    <2> QED
      BY <2>1 DEF LockInv, HeldAtWork
  <1> QED
    BY <1>1, <1>2, <1>3, <1>4, <1>5, <1>6 DEF Next, Work

LEMMA LockInit == Init => LockInv
  BY NobodyAssumption DEF Init, LockInv, HeldAtWork, Stages

\* The lock is held by exactly the request that works under it, and so never by
\* one that ended.
THEOREM HeldAtWorkHolds == Spec => []HeldAtWork
  <1>1. Init => LockInv
    BY LockInit
  <1>2. LockInv => HeldAtWork
    BY DEF LockInv
  <1> QED
    BY <1>1, <1>2, LockStep, PTL DEF Spec

-----------------------------------------------------------------------------
(* The chain, until a purge *)

\* No request is about to empty or rewrite the file.
NobodyRewrites == \A r \in Requests : pc[r] \notin {"read", "emptied"}

\* Whoever works under the lock read the head the file still has.
HeadIsCurrent ==
    \A r \in Requests : pc[r] \in {"writing", "counting"} => head[r] = LastHash(file)

ChainInv ==
    "purge" \notin happened => NobodyRewrites /\ HeadIsCurrent /\ Chain(file)

LEMMA ChainInit == Init => ChainInv
  <1> SUFFICES ASSUME Init PROVE ChainInv
    OBVIOUS
  <1>1. DOMAIN <<>> = {}
    BY EmptySeq
  <1> QED
    BY <1>1 DEF Init, ChainInv, NobodyRewrites, HeadIsCurrent, Chain

LEMMA NobodyRewritesStep ==
    ASSUME TypeOK, NobodyRewrites, [Next]_vars, "purge" \notin happened'
    PROVE  NobodyRewrites'
  <1>0. pc \in [Requests -> Stages]
    BY DEF TypeOK, Stages
  <1>1. ASSUME NEW r \in Requests, ReadForPurge(r)
        PROVE  pc' = [pc EXCEPT ![r] = "done"]
    BY <1>1 DEF ReadForPurge, Note, End, GoTo
  <1>2. ASSUME NEW r \in Requests, Truncate(r)
        PROVE  FALSE
    BY <1>2 DEF Truncate, NobodyRewrites
  <1>3. ASSUME NEW r \in Requests, NEW where \in Stages \ {"read", "emptied"},
               pc' = [pc EXCEPT ![r] = where]
        PROVE  NobodyRewrites'
    BY <1>0, <1>3 DEF NobodyRewrites
  <1>4. CASE pc' = pc
    BY <1>4 DEF NobodyRewrites
  <1>5. \/ pc' = pc
        \/ \E r \in Requests, where \in Stages \ {"read", "emptied"} :
               pc' = [pc EXCEPT ![r] = where]
        \/ \E r \in Requests : ReadForPurge(r) \/ Truncate(r)
    BY Moves DEF Moved, Stages, InFlight
  <1> QED
    BY <1>1, <1>2, <1>3, <1>4, <1>5 DEF Stages

\* Nobody changes the file while another request works under the lock.
LEMMA SteadyAtWork ==
    ASSUME LockInv, LockInv', NobodyRewrites, [Next]_vars,
           NEW q \in Requests, pc'[q] \in {"writing", "counting"}
    PROVE  file' = file
  <1>0. /\ \A r \in Requests : pc[r] \in {"writing", "counting"} <=> lock = r
        /\ lock' = q
    BY DEF LockInv, HeldAtWork
  <1>1. ASSUME NEW r \in Requests, WriteRecord(r)
        PROVE  FALSE
    BY <1>0, <1>1, NobodyAssumption DEF WriteRecord
  <1>2. ASSUME NEW r \in Requests, Tears(r)
        PROVE  FALSE
    <2>1. lock = r /\ pc' = [pc EXCEPT ![r] = "dead"]
      BY <1>0, <1>2 DEF Tears
    <2>2. q # r /\ pc'[q] = pc[q]
      BY <2>1 DEF LockInv
    <2> QED
      BY <1>0, <2>1, <2>2
  <1>3. ASSUME NEW r \in Requests, Truncate(r) \/ Rewrite(r)
        PROVE  FALSE
    BY <1>3 DEF Truncate, Rewrite, NobodyRewrites
  <1>4. ASSUME NEW n \in 0..(Len(file) - 1), LoseTail(n)
        PROVE  FALSE
    BY <1>4 DEF LoseTail, Busy, InFlight
  <1> QED
    BY <1>1, <1>2, <1>3, <1>4, FileSteps

LEMMA HeadStep ==
    ASSUME TypeOK, LockInv, LockInv', NobodyRewrites, HeadIsCurrent, [Next]_vars
    PROVE  HeadIsCurrent'
  <1>0. pc \in [Requests -> Stages] /\ DOMAIN head = Requests
    BY DEF TypeOK, Stages
  <1> SUFFICES ASSUME NEW q \in Requests, pc'[q] \in {"writing", "counting"}
               PROVE  head'[q] = LastHash(file')
    BY DEF HeadIsCurrent
  <1>1. file' = file
    BY SteadyAtWork
  <1>2. \/ pc'[q] = pc[q] /\ head'[q] = head[q]
        \/ TakeLock(q)
    <2>1. CASE UNCHANGED <<pc, head, kept, counted, answer>>
      BY <2>1
    <2>2. ASSUME NEW r \in Requests, NEW from, NEW to, Moved(r, from, to)
          PROVE  q = r \/ (pc'[q] = pc[q] /\ head'[q] = head[q])
      BY <1>0, <2>2 DEF Moved
    <2>3. ASSUME NEW from, NEW to, Moved(q, from, to)
          PROVE  pc'[q] \in to
      BY <1>0, <2>3 DEF Moved
    <2> QED
      BY <2>1, <2>2, <2>3, Moves
  <1>3. CASE TakeLock(q)
    BY <1>0, <1>1, <1>3 DEF TakeLock
  <1> QED
    BY <1>1, <1>2, <1>3 DEF HeadIsCurrent

\* What the append that holds the lock does to the file.
LEMMA Appends ==
    ASSUME TypeOK, HeadIsCurrent, NEW r \in Requests, WriteRecord(r)
    PROVE  \/ TailIsTorn /\ file' = [file EXCEPT ![Len(file)] = Garbled]
           \/ \E x \in Line : /\ Parses(x) /\ x.body = r /\ x.prev = LastHash(file)
                              /\ file' = Append(file, x)
  <1>1. head[r] = LastHash(file) /\ head[r] \in Hash
    BY DEF WriteRecord, HeadIsCurrent, TypeOK
  <1>2. /\ Entry(r, head[r]) \in Line /\ Parses(Entry(r, head[r]))
        /\ Entry(r, head[r]).body = r /\ Entry(r, head[r]).prev = LastHash(file)
    BY <1>1, EntryTypes DEF Entry, Parses
  <1> QED
    BY <1>2 DEF WriteRecord

\* Any log pins the empty prefix.
LEMMA EmptyPin ==
    ASSUME NEW f \in Seq(Line)
    PROVE  Pins(f, NoCheckpoint)
  <1>1. NoCheckpoint.entries = 0 /\ NoCheckpoint.head = Genesis
    BY DEF NoCheckpoint
  <1>2. Len(f) \in Nat /\ SubSeq(f, 1, 0) = <<>> /\ DOMAIN <<>> = {}
    BY LenProperties, SubSeqEmpty, EmptySeq
  <1>3. LastHash(<<>>) = Genesis
    BY <1>2 DEF LastHash
  <1>4. SubSeq(f, 1, NoCheckpoint.entries) = <<>>
    BY <1>1, <1>2, Zenon
  <1>5. NoCheckpoint.entries <= Len(f) /\ NoCheckpoint.entries \in Nat
    BY <1>1, <1>2
  <1> QED
    BY <1>1, <1>3, <1>4, <1>5, Zenon DEF Pins

LEMMA ChainStep ==
    ASSUME TypeOK, LockInv, LockInv', ChainInv, [Next]_vars
    PROVE  ChainInv'
  <1> SUFFICES ASSUME "purge" \notin happened'
               PROVE  (NobodyRewrites /\ HeadIsCurrent /\ Chain(file))'
    BY DEF ChainInv
  <1>1. NobodyRewrites /\ HeadIsCurrent /\ Chain(file) /\ file \in Seq(Line)
    BY History DEF ChainInv, TypeOK
  <1>2. NobodyRewrites' /\ HeadIsCurrent'
    BY <1>1, NobodyRewritesStep, HeadStep
  <1>3. ASSUME NEW r \in Requests, WriteRecord(r) \/ Tears(r)
        PROVE  Chain(file')
    <2>1. CASE TailIsTorn /\ file' = [file EXCEPT ![Len(file)] = Garbled]
      BY <1>1, <2>1, GarbleKeepsChain, EmptyPin DEF TailIsTorn
    <2>2. ASSUME NEW x \in Line, Parses(x) => x.prev = LastHash(file),
                 file' = Append(file, x)
          PROVE  Chain(file')
      BY <1>1, <2>2, AppendKeepsChain, EmptyPin
    <2>3. CASE Tears(r)
      BY <2>2, <2>3, LineTypes DEF Tears
    <2>4. CASE WriteRecord(r)
      BY <1>1, <2>1, <2>2, <2>4, Appends
    <2> QED
      BY <1>3, <2>3, <2>4
  <1>4. ASSUME NEW n \in 0..(Len(file) - 1), LoseTail(n)
        PROVE  Chain(file')
    <2>1. n \in 0..Len(file)
      BY <1>1, LenProperties
    <2> QED
      BY <1>1, <1>4, <2>1, PrefixKeepsChain DEF LoseTail
  <1>5. ASSUME NEW r \in Requests, Truncate(r) \/ Rewrite(r)
        PROVE  FALSE
    BY <1>1, <1>5 DEF Truncate, Rewrite, NobodyRewrites
  <1>6. ASSUME file' = file
        PROVE  Chain(file')
    BY <1>1, <1>6
  <1> QED
    BY <1>2, <1>3, <1>4, <1>5, <1>6, FileSteps

\* The readable entries form one chain from genesis, ...
THEOREM LinkedHolds == Spec => []Linked
  <1> DEFINE IInv == TypeOK /\ LockInv /\ ChainInv
  <1>1. Init => IInv
    BY TypeInit, LockInit, ChainInit
  <1>2. IInv /\ [Next]_vars => IInv'
    BY TypeStep, LockStep, ChainStep
  <1>3. IInv => Linked
    BY DEF ChainInv, Chain, Linked
  <1> QED
    BY <1>1, <1>2, <1>3, PTL DEF Spec

-----------------------------------------------------------------------------
(* The checkpoint, until something is taken from the log *)

PinInv == Whole => Pins(file, checkpoint)
LogInv == TypeOK /\ LockInv /\ ChainInv /\ PinInv

LEMMA WholeBefore ==
    ASSUME [Next]_vars, Whole'
    PROVE  Whole /\ "purge" \notin happened /\ "purge" \notin happened'
  BY History DEF Whole

LEMMA CheckpointSteps ==
    ASSUME [Next]_vars
    PROVE  \/ checkpoint' = checkpoint
           \/ \E r \in Requests : SignCheckpoint(r)
  BY DEF Next, Work, Begin, TakeLock, WriteRecord, ReadForPurge, Truncate, Rewrite,
         ReadLog, CrossCheck, Die, LoseTail, Age, vars

LEMMA SignedCheckpoint ==
    ASSUME TypeOK, HeadIsCurrent, NEW r \in Requests, SignCheckpoint(r)
    PROVE  /\ checkpoint' = [entries |-> Len(file), head |-> LastHash(file)]
           /\ file' = file
  BY DEF SignCheckpoint, HeadIsCurrent, log

LEMMA PinStep ==
    ASSUME TypeOK, ChainInv, PinInv, [Next]_vars
    PROVE  PinInv'
  <1> SUFFICES ASSUME Whole'
               PROVE  Pins(file', checkpoint')
    BY DEF PinInv
  <1>1. /\ NobodyRewrites /\ HeadIsCurrent /\ Chain(file) /\ Pins(file, checkpoint)
        /\ file \in Seq(Line)
    BY WholeBefore DEF ChainInv, PinInv, TypeOK
  <1>2. ASSUME NEW r \in Requests, SignCheckpoint(r)
        PROVE  Pins(file', checkpoint')
    <2>1. /\ checkpoint'.entries = Len(file) /\ checkpoint'.head = LastHash(file)
          /\ file' = file
      BY <1>1, <1>2, SignedCheckpoint
    <2>2. SubSeq(file, 1, Len(file)) = file /\ Len(file) \in Nat
      BY <1>1, SubSeqFull, LenProperties
    <2>3. checkpoint'.entries <= Len(file') /\ checkpoint'.entries \in Nat
      BY <2>1, <2>2
    <2>4. checkpoint'.head = LastHash(SubSeq(file', 1, checkpoint'.entries))
      BY <2>1, <2>2, Zenon
    <2> QED
      BY <2>3, <2>4 DEF Pins
  <1>3. ASSUME NEW r \in Requests, WriteRecord(r) \/ Tears(r)
        PROVE  Pins(file', checkpoint)
    <2>1. CASE TailIsTorn /\ file' = [file EXCEPT ![Len(file)] = Garbled]
      BY <1>1, <2>1, GarbleKeepsChain DEF TailIsTorn
    <2>2. ASSUME NEW x \in Line, Parses(x) => x.prev = LastHash(file),
                 file' = Append(file, x)
          PROVE  Pins(file', checkpoint)
      BY <1>1, <2>2, AppendKeepsChain
    <2>3. CASE Tears(r)
      BY <2>2, <2>3, LineTypes DEF Tears
    <2>4. CASE WriteRecord(r)
      BY <1>1, <2>1, <2>2, <2>4, Appends
    <2> QED
      BY <1>3, <2>3, <2>4
  <1>4. ASSUME NEW n \in 0..(Len(file) - 1), LoseTail(n)
        PROVE  FALSE
    BY <1>4 DEF LoseTail, Note, Whole
  <1>5. ASSUME NEW r \in Requests, Truncate(r) \/ Rewrite(r)
        PROVE  FALSE
    BY <1>1, <1>5 DEF Truncate, Rewrite, NobodyRewrites
  <1>6. checkpoint' = checkpoint => Pins(file', checkpoint')
    <2>1. file' = file => Pins(file', checkpoint)
      BY <1>1
    <2>2. Pins(file', checkpoint)
      BY <1>3, <1>4, <1>5, <2>1, FileSteps
    <2> QED
      BY <2>2
  <1> QED
    BY <1>2, <1>6, CheckpointSteps

\* The log is well formed at every moment, and the checkpoint fits it until lines
\* are taken.
THEOREM LogInvHolds == Spec => []LogInv
  <1>1. Init => LogInv
    <2>1. ASSUME Init PROVE PinInv
      <3>1. file \in Seq(Line) /\ checkpoint = NoCheckpoint
        BY <2>1, TypeInit DEF Init, TypeOK
      <3> QED
        BY <3>1, EmptyPin DEF PinInv
    <2> QED
      BY <2>1, TypeInit, LockInit, ChainInit DEF LogInv
  <1>2. LogInv /\ [Next]_vars => LogInv'
    BY TypeStep, LockStep, ChainStep, PinStep DEF LogInv
  <1> QED
    BY <1>1, <1>2, PTL DEF Spec

\* ... and, unless lines were taken, the newest checkpoint describes the log as it
\* was at one instant.
THEOREM CheckpointHolds == Spec => []CheckpointDescribesTheLog
  <1>1. LogInv => CheckpointDescribesTheLog
    BY DEF LogInv, PinInv, Pins, CheckpointDescribesTheLog
  <1> QED
    BY <1>1, LogInvHolds, PTL

LEMMA AppendStep ==
    ASSUME LogInv, [Next]_vars, Whole'
    PROVE  /\ Len(file') >= Len(file)
           /\ \A i \in DOMAIN file : file[i] # Torn => file'[i] = file[i]
  <1>1. /\ NobodyRewrites /\ HeadIsCurrent /\ TypeOK
        /\ file \in Seq(Line) /\ Len(file) \in Nat /\ DOMAIN file = 1..Len(file)
    BY WholeBefore, LenProperties DEF LogInv, ChainInv, TypeOK
  <1>2. ASSUME NEW x \in Line, file' = Append(file, x)
        PROVE  /\ Len(file') >= Len(file)
               /\ \A i \in DOMAIN file : file'[i] = file[i]
    BY <1>1, <1>2, AppendProperties
  <1>3. ASSUME TailIsTorn, file' = [file EXCEPT ![Len(file)] = Garbled]
        PROVE  /\ Len(file') >= Len(file)
               /\ \A i \in DOMAIN file : file[i] # Torn => file'[i] = file[i]
    <2>1. Len(file) \in 1..Len(file) /\ file[Len(file)] = Torn
      BY <1>1, <1>3, EmptySeq DEF TailIsTorn
    <2>2. Len(file') = Len(file)
      BY <1>1, <1>3, <2>1, LineTypes, ExceptSeq
    <2> QED
      BY <1>1, <1>3, <2>1, <2>2
  <1>4. ASSUME NEW r \in Requests, WriteRecord(r)
        PROVE  \/ TailIsTorn /\ file' = [file EXCEPT ![Len(file)] = Garbled]
               \/ \E x \in Line : file' = Append(file, x)
    BY <1>1, <1>4, Appends
  <1>5. ASSUME NEW r \in Requests, Tears(r)
        PROVE  \E x \in Line : file' = Append(file, x)
    BY <1>5, LineTypes DEF Tears
  <1>6. ASSUME NEW n \in 0..(Len(file) - 1), LoseTail(n)
        PROVE  FALSE
    BY <1>6 DEF LoseTail, Note, Whole
  <1>7. ASSUME NEW r \in Requests, Truncate(r) \/ Rewrite(r)
        PROVE  FALSE
    BY <1>1, <1>7 DEF Truncate, Rewrite, NobodyRewrites
  <1>8. CASE file' = file
    BY <1>1, <1>8
  <1> QED
    BY <1>2, <1>3, <1>4, <1>5, <1>6, <1>7, <1>8, FileSteps

\* No step rewrites a line of such a log, except to complete a torn one.
THEOREM AppendOnlyHolds == Spec => AppendOnly
  <1>1. LogInv /\ [Next]_vars
        => [Whole' => /\ Len(file') >= Len(file)
                      /\ \A i \in DOMAIN file :
                             file[i] # Torn => file'[i] = file[i]]_vars
    BY AppendStep
  <1> QED
    BY <1>1, LogInvHolds, PTL DEF Spec, AppendOnly

-----------------------------------------------------------------------------
(* Verification *)

Alone ==
    "overlap" \notin happened =>
        \A q, r \in Requests : pc[q] \in InFlight /\ pc[r] \in InFlight => q = r

LEMMA AloneInit == Init => Alone
  BY DEF Init, Alone, InFlight

LEMMA AloneStep ==
    ASSUME TypeOK, Alone, [Next]_vars
    PROVE  Alone'
  <1> SUFFICES ASSUME "overlap" \notin happened'
               PROVE  \A q, r \in Requests :
                          pc'[q] \in InFlight /\ pc'[r] \in InFlight => q = r
    BY DEF Alone
  <1>0. pc \in [Requests -> Stages]
    BY DEF TypeOK, Stages
  <1>1. \A q, r \in Requests : pc[q] \in InFlight /\ pc[r] \in InFlight => q = r
    BY History DEF Alone
  <1>2. CASE pc' = pc
    BY <1>1, <1>2
  <1>3. ASSUME NEW r \in Requests, ~Busy,
               NEW where, pc' = [pc EXCEPT ![r] = where]
        PROVE  \A q \in Requests : pc'[q] \in InFlight => q = r
    BY <1>0, <1>3 DEF Busy
  <1>4. ASSUME NEW r \in Requests, pc[r] \in InFlight,
               NEW where, pc' = [pc EXCEPT ![r] = where]
        PROVE  \A q \in Requests : pc'[q] \in InFlight => pc[q] \in InFlight
    BY <1>0, <1>4
  <1>5. \/ pc' = pc
        \/ \E r \in Requests, where \in Stages :
               /\ pc[r] \in InFlight \/ ~Busy
               /\ pc' = [pc EXCEPT ![r] = where]
    BY Moves DEF Moved, Stages, InFlight
  <1> QED
    BY <1>1, <1>2, <1>3, <1>4, <1>5

\* Without torn writes and purges every line parses.
AllParse(f) == \A i \in DOMAIN f : Parses(f[i])
Clean == happened \cap {"tear", "purge"} = {} => AllParse(file)

LEMMA CleanInit == Init => Clean
  <1> SUFFICES ASSUME Init PROVE Clean
    OBVIOUS
  <1>1. DOMAIN <<>> = {}
    BY EmptySeq
  <1> QED
    BY <1>1 DEF Init, Clean, AllParse

LEMMA NoTornTail ==
    ASSUME TypeOK, AllParse(file)
    PROVE  ~TailIsTorn
  <1>1. file \in Seq(Line) /\ Len(file) \in Nat /\ DOMAIN file = 1..Len(file)
    BY LenProperties DEF TypeOK
  <1>2. file # <<>> => Len(file) \in DOMAIN file
    BY <1>1, EmptySeq
  <1> QED
    BY <1>2, LineTypes DEF TailIsTorn, AllParse

LEMMA AppendParses ==
    ASSUME NEW f \in Seq(Line), NEW x \in Line, AllParse(f), Parses(x)
    PROVE  AllParse(Append(f, x))
  <1> DEFINE g == Append(f, x)
  <1>1. /\ Len(f) \in Nat /\ DOMAIN f = 1..Len(f)
        /\ g \in Seq(Line) /\ Len(g) = Len(f) + 1 /\ DOMAIN g = 1..(Len(f) + 1)
        /\ \A i \in 1..Len(f) : g[i] = f[i]
        /\ g[Len(f) + 1] = x
    BY LenProperties, AppendProperties
  <1> HIDE DEF g
  <1>2. AllParse(g)
    <2>1. \A i \in DOMAIN g : i \in 1..Len(f) \/ i = Len(f) + 1
      BY <1>1
    <2> QED
      BY <1>1, <2>1 DEF AllParse
  <1> QED
    BY <1>2 DEF g

LEMMA CleanStep ==
    ASSUME TypeOK, ChainInv, Clean, [Next]_vars
    PROVE  Clean'
  <1> SUFFICES ASSUME happened' \cap {"tear", "purge"} = {}
               PROVE  AllParse(file')
    BY DEF Clean
  <1>1. /\ AllParse(file) /\ NobodyRewrites /\ HeadIsCurrent
        /\ file \in Seq(Line) /\ DOMAIN file = 1..Len(file) /\ Len(file) \in Nat
    BY History, LenProperties DEF Clean, ChainInv, TypeOK
  <1>2. ASSUME NEW r \in Requests, WriteRecord(r)
        PROVE  AllParse(file')
    BY <1>1, <1>2, Appends, NoTornTail, AppendParses
  <1>3. ASSUME NEW r \in Requests, Tears(r)
        PROVE  FALSE
    BY <1>3 DEF Tears
  <1>4. ASSUME NEW r \in Requests, Truncate(r) \/ Rewrite(r)
        PROVE  FALSE
    BY <1>1, <1>4 DEF Truncate, Rewrite, NobodyRewrites
  <1>5. ASSUME NEW n \in 0..(Len(file) - 1), LoseTail(n)
        PROVE  AllParse(file')
    <2>1. n \in 0..Len(file)
      BY <1>1
    <2> QED
      BY <1>1, <1>5, <2>1, PrefixTypes DEF LoseTail, AllParse
  <1>6. CASE file' = file
    BY <1>1, <1>6
  <1> QED
    BY <1>2, <1>3, <1>4, <1>5, <1>6, FileSteps

\* Between its two passes a verification that runs alone has counted at least what
\* the checkpoint it will read says.
Counted ==
    happened \cap {"loss", "purge", "overlap"} = {} =>
        \A r \in Requests : pc[r] = "crosschecking" => counted[r] >= checkpoint.entries

LEMMA CountedStep ==
    ASSUME LogInv, Alone, Counted, [Next]_vars
    PROVE  Counted'
  <1> SUFFICES ASSUME happened' \cap {"loss", "purge", "overlap"} = {},
                      NEW q \in Requests, pc'[q] = "crosschecking"
               PROVE  counted'[q] >= checkpoint'.entries
    BY DEF Counted
  <1>0. /\ pc \in [Requests -> Stages] /\ counted \in [Requests -> Nat]
        /\ happened \cap {"loss", "purge", "overlap"} = {}
        /\ Len(file) \in Nat /\ TypeOK
    BY History, LenProperties DEF LogInv, TypeOK, Stages
  <1>1. Pins(file, checkpoint)
    BY <1>0 DEF LogInv, PinInv, Whole
  <1>2. \/ pc[q] = "crosschecking" /\ counted'[q] = counted[q]
        \/ ReadLog(q)
    <2>1. CASE UNCHANGED <<pc, head, kept, counted, answer>>
      BY <2>1
    <2>2. ASSUME NEW r \in Requests, NEW from, NEW to, Moved(r, from, to)
          PROVE  \/ q = r /\ pc'[q] \in to
                 \/ pc'[q] = pc[q] /\ counted'[q] = counted[q]
      BY <1>0, <2>2 DEF Moved
    <2> QED
      BY <1>0, <2>1, <2>2, Moves
  <1>3. CASE ReadLog(q)
    <2>1. counted' = [counted EXCEPT ![q] = Len(file)] /\ checkpoint' = checkpoint
      BY <1>0, <1>3 DEF ReadLog, Answer, End, GoTo
    <2> QED
      BY <1>0, <1>1, <2>1 DEF Pins
  <1>4. CASE pc[q] = "crosschecking" /\ counted'[q] = counted[q]
    <2>1. ASSUME NEW r \in Requests, SignCheckpoint(r)
          PROVE  FALSE
      <3>1. pc[r] = "counting" /\ pc[r] \in InFlight /\ pc[q] \in InFlight
        BY <1>4, <2>1 DEF SignCheckpoint, InFlight
      <3>2. q = r
        BY <1>0, <3>1 DEF Alone
      <3> QED
        BY <1>4, <3>1, <3>2
    <2> QED
      BY <1>0, <1>4, <2>1, CheckpointSteps DEF Counted
  <1> QED
    BY <1>2, <1>3, <1>4

LEMMA AnswerStep ==
    ASSUME LogInv, Clean, Counted, HonestAnswers, [Next]_vars
    PROVE  HonestAnswers'
  <1>0. /\ pc \in [Requests -> Stages] /\ counted \in [Requests -> Nat] /\ TypeOK
        /\ DOMAIN answer = Requests /\ happened \subseteq happened'
    BY History DEF LogInv, TypeOK, Stages
  <1> SUFFICES ASSUME NEW q \in Requests
               PROVE  /\ answer'[q] = "broken" => happened' \cap {"tear", "purge"} # {}
                      /\ answer'[q] = "truncated"
                            => happened' \cap {"loss", "purge", "overlap"} # {}
    BY DEF HonestAnswers
  <1>1. answer'[q] = answer[q] \/ ReadLog(q) \/ CrossCheck(q)
    <2>1. ASSUME NEW r \in Requests, NEW from, NEW to, Moved(r, from, to)
          PROVE  q = r \/ answer'[q] = answer[q]
      BY <2>1 DEF Moved
    <2>2. ASSUME \/ TakeLock(q) \/ WriteRecord(q) \/ SignCheckpoint(q)
                 \/ ReadForPurge(q) \/ Truncate(q) \/ Rewrite(q)
          PROVE  answer' = answer
      BY <2>2 DEF TakeLock, WriteRecord, SignCheckpoint, ReadForPurge, Truncate, Rewrite
    <2> QED
      BY <1>0, <2>1, <2>2, Moves
  <1>2. CASE answer'[q] = answer[q]
    BY <1>0, <1>2 DEF HonestAnswers
  <1>3. CASE ReadLog(q)
    <2>1. \/ answer'[q] = "intact" \/ answer'[q] = answer[q]
          \/ answer'[q] = "broken" /\ ~Verifies(file)
      BY <1>0, <1>3 DEF ReadLog, Answer
    <2>2. ~Verifies(file) => happened \cap {"tear", "purge"} # {}
      BY DEF LogInv, ChainInv, Clean, Chain, AllParse, Verifies
    <2> QED
      BY <1>0, <2>1, <2>2 DEF HonestAnswers
  <1>4. CASE CrossCheck(q)
    <2>1. /\ answer'[q] = (IF Short(q) THEN "truncated" ELSE "intact")
          /\ pc[q] = "crosschecking"
      BY <1>0, <1>4 DEF CrossCheck, Answer
    <2>2. Short(q) => ~(counted[q] >= checkpoint.entries)
      BY <1>0 DEF Short, TypeOK
    <2> QED
      BY <1>0, <2>1, <2>2 DEF Counted
  <1> QED
    BY <1>1, <1>2, <1>3, <1>4

\* Verification reports integrity honestly: nothing is called modified that was
\* not torn or purged, nor truncated that was not lost, purged or changed meanwhile.
THEOREM HonestAnswersHolds == Spec => []HonestAnswers
  <1>1. Init => Alone /\ Clean /\ Counted /\ HonestAnswers
    <2>1. Init => Counted /\ HonestAnswers
      BY DEF Init, Counted, HonestAnswers
    <2> QED
      BY <2>1, AloneInit, CleanInit
  <1>2. (Alone /\ Clean /\ Counted /\ HonestAnswers) /\ LogInv /\ [Next]_vars
        => (Alone /\ Clean /\ Counted /\ HonestAnswers)'
    BY AloneStep, CleanStep, CountedStep, AnswerStep DEF LogInv
  <1> QED
    BY <1>1, <1>2, LogInvHolds, PTL DEF Spec

-----------------------------------------------------------------------------
(* Retention *)

\* Without torn writes no line is partial, on the disk or in a purge's hands.
NoneTorn(f) == \A i \in DOMAIN f : f[i] # Torn
Untorn ==
    "tear" \notin happened => NoneTorn(file) /\ \A r \in Requests : NoneTorn(kept[r])

LEMMA UntornInit == Init => Untorn
  <1> SUFFICES ASSUME Init PROVE Untorn
    OBVIOUS
  <1>1. DOMAIN <<>> = {}
    BY EmptySeq
  <1> QED
    BY <1>1 DEF Init, Untorn, NoneTorn

LEMMA AppendUntorn ==
    ASSUME NEW f \in Seq(Line), NEW x \in Line, NoneTorn(f), x # Torn
    PROVE  NoneTorn(Append(f, x))
  <1> DEFINE g == Append(f, x)
  <1>1. /\ Len(f) \in Nat /\ DOMAIN f = 1..Len(f)
        /\ g \in Seq(Line) /\ Len(g) = Len(f) + 1 /\ DOMAIN g = 1..(Len(f) + 1)
        /\ \A i \in 1..Len(f) : g[i] = f[i]
        /\ g[Len(f) + 1] = x
    BY LenProperties, AppendProperties
  <1> HIDE DEF g
  <1>2. NoneTorn(g)
    <2>1. \A i \in DOMAIN g : i \in 1..Len(f) \/ i = Len(f) + 1
      BY <1>1
    <2> QED
      BY <1>1, <2>1 DEF NoneTorn
  <1> QED
    BY <1>2 DEF g

\* What a step leaves in a purge's hands.
LEMMA KeptSteps ==
    ASSUME TypeOK, [Next]_vars, NEW q \in Requests
    PROVE  \/ kept'[q] = kept[q]
           \/ kept'[q] = <<>> /\ pc'[q] \in {"done", "dead"}
           \/ /\ ReadForPurge(q) /\ pc'[q] = "read"
              /\ kept'[q] = KeptLines /\ file' = file
  <1>0. pc \in [Requests -> Stages] /\ DOMAIN kept = Requests
    BY DEF TypeOK, Stages
  <1>1. ASSUME NEW r \in Requests, NEW from, NEW to, Moved(r, from, to)
        PROVE  q = r \/ kept'[q] = kept[q]
    BY <1>1 DEF Moved
  <1>2. ASSUME NEW how \in {"done", "dead"}, End(q, how)
        PROVE  kept'[q] = <<>> /\ pc'[q] \in {"done", "dead"}
    BY <1>0, <1>2 DEF End, GoTo
  <1>3. ASSUME TakeLock(q) \/ Truncate(q)
        PROVE  kept' = kept
    BY <1>3 DEF TakeLock, Truncate, locals
  <1>4. ASSUME WriteRecord(q) \/ Rewrite(q) \/ CrossCheck(q)
        PROVE  End(q, "done")
    BY <1>4 DEF WriteRecord, Rewrite, CrossCheck, Answer
  <1>5. ASSUME SignCheckpoint(q) \/ ReadLog(q)
        PROVE  End(q, "done") \/ kept' = kept
    BY <1>5 DEF SignCheckpoint, ReadLog, Answer, locals
  <1>6. ASSUME ReadForPurge(q)
        PROVE  \/ End(q, "done")
               \/ pc'[q] = "read" /\ kept'[q] = KeptLines /\ file' = file
    BY <1>0, <1>6 DEF ReadForPurge, GoTo, log
  <1>7. ASSUME Die(q)
        PROVE  End(q, "dead")
    BY <1>7 DEF Die
  <1>8. \/ kept'[q] = kept[q]
        \/ TakeLock(q) \/ WriteRecord(q) \/ SignCheckpoint(q)
        \/ ReadForPurge(q) \/ Truncate(q) \/ Rewrite(q)
        \/ ReadLog(q) \/ CrossCheck(q) \/ Die(q)
    BY <1>1, Moves
  <1> QED
    BY <1>2, <1>3, <1>4, <1>5, <1>6, <1>7, <1>8

LEMMA UntornStep ==
    ASSUME TypeOK, Untorn, [Next]_vars
    PROVE  Untorn'
  <1> SUFFICES ASSUME "tear" \notin happened'
               PROVE  NoneTorn(file') /\ \A q \in Requests : NoneTorn(kept'[q])
    BY DEF Untorn
  <1>1. /\ NoneTorn(file) /\ \A r \in Requests : NoneTorn(kept[r])
        /\ file \in Seq(Line) /\ DOMAIN file = 1..Len(file) /\ Len(file) \in Nat
        /\ kept \in [Requests -> Seq(Line)]
        /\ NoneTorn(<<>>)
    BY History, LenProperties, EmptySeq DEF Untorn, NoneTorn, TypeOK
  <1>2. NoneTorn(KeptLines)
    BY <1>1, KeptLinesProperties, LineTypes DEF NoneTorn, Terminated
  <1>3. ASSUME NEW q \in Requests
        PROVE  NoneTorn(kept'[q])
    BY <1>1, <1>2, KeptSteps
  <1>4. ASSUME NEW r \in Requests, WriteRecord(r)
        PROVE  NoneTorn(file')
    <2>1. ~TailIsTorn
      BY <1>1, EmptySeq DEF TailIsTorn, NoneTorn
    <2>2. file' = Append(file, Entry(r, head[r])) /\ head[r] \in Hash
      BY <1>4, <2>1 DEF WriteRecord, TypeOK
    <2> QED
      BY <1>1, <2>2, EntryTypes, AppendUntorn
  <1>5. ASSUME NEW r \in Requests, Tears(r)
        PROVE  FALSE
    BY <1>5 DEF Tears
  <1>6. ASSUME NEW r \in Requests, Truncate(r) \/ Rewrite(r)
        PROVE  NoneTorn(file')
    <2>1. kept[r] \in Seq(Line) /\ NoneTorn(kept[r])
      BY <1>1
    <2>2. NoneTorn(Append(kept[r], Garbled))
      BY <2>1, LineTypes, AppendUntorn
    <2> QED
      BY <1>1, <1>6, <2>1, <2>2 DEF Truncate, Rewrite
  <1>7. ASSUME NEW n \in 0..(Len(file) - 1), LoseTail(n)
        PROVE  NoneTorn(file')
    <2>1. n \in 0..Len(file)
      BY <1>1
    <2>2. DOMAIN file' = 1..n /\ \A i \in 1..n : i \in DOMAIN file /\ file'[i] = file[i]
      BY <1>1, <1>7, <2>1, PrefixTypes DEF LoseTail
    <2> QED
      BY <1>1, <2>2 DEF NoneTorn
  <1>8. (file' = file) => NoneTorn(file')
    BY <1>1
  <1> QED
    BY <1>3, <1>4, <1>5, <1>6, <1>7, <1>8, FileSteps

\* Every record whose append returned is readable until it leaves its window.
Fresh(f) == \A x \in acked \ aged : \E i \in DOMAIN f : Parses(f[i]) /\ f[i].body = x

FreshInv ==
    /\ happened \cap {"loss", "tear", "purge"} = {} => Fresh(file)
    /\ happened \subseteq {"purge"} =>
           /\ ~Rewriting => Fresh(file)
           /\ \A r \in Requests : pc[r] \in {"read", "emptied"} => Fresh(kept[r])

LEMMA FreshInit == Init => FreshInv
  BY DEF Init, FreshInv, Fresh

\* Records grow old, and no step makes one young again.
LEMMA StaysFresh ==
    ASSUME [Next]_vars, acked' = acked, NEW f, Fresh(f), NEW g,
           \A i \in DOMAIN f : Parses(f[i]) =>
               \E j \in DOMAIN g : Parses(g[j]) /\ g[j].body = f[i].body
    PROVE  \A x \in acked' \ aged' : \E j \in DOMAIN g : Parses(g[j]) /\ g[j].body = x
  BY History DEF Fresh

LEMMA WriteStaysFresh ==
    ASSUME TypeOK, [Next]_vars, NoneTorn(file), Fresh(file),
           NEW r \in Requests, WriteRecord(r)
    PROVE  Fresh(file)'
  <1>1. file \in Seq(Line) /\ Len(file) \in Nat /\ DOMAIN file = 1..Len(file)
    BY LenProperties DEF TypeOK
  <1>2. ~TailIsTorn
    BY <1>1, EmptySeq DEF TailIsTorn, NoneTorn
  <1>3. PICK x \in Line : Parses(x) /\ x.body = r /\ file' = Append(file, x)
    <2>1. head[r] \in Hash
      BY DEF TypeOK
    <2>2. /\ Entry(r, head[r]) \in Line /\ Parses(Entry(r, head[r]))
          /\ Entry(r, head[r]).body = r
      BY <2>1, EntryTypes DEF Entry, Parses
    <2> QED
      BY <1>2, <2>2 DEF WriteRecord
  <1>4. /\ DOMAIN file' = 1..(Len(file) + 1)
        /\ \A i \in 1..Len(file) : file'[i] = file[i]
        /\ file'[Len(file) + 1] = x
    BY <1>1, <1>3, AppendProperties, LenProperties
  <1>5. /\ Len(file) + 1 \in DOMAIN file'
        /\ \A i \in DOMAIN file : i \in DOMAIN file' /\ file'[i] = file[i]
    BY <1>1, <1>4
  <1>6. acked' = acked \cup {r} /\ aged \subseteq aged'
    BY History DEF WriteRecord
  <1>7. ASSUME NEW y \in acked' \ aged'
        PROVE  \E i \in DOMAIN file' : Parses(file'[i]) /\ file'[i].body = y
    <2>1. CASE y = r
      BY <1>3, <1>4, <1>5, <2>1
    <2>2. CASE y # r
      <3>1. y \in acked \ aged
        BY <1>6, <2>2
      <3> QED
        BY <1>5, <3>1 DEF Fresh
    <2> QED
      BY <2>1, <2>2
  <1> QED
    BY <1>7 DEF Fresh

\* While nothing was lost, torn or purged.
LEMMA FreshStep ==
    ASSUME TypeOK, ChainInv, Untorn, [Next]_vars,
           happened' \cap {"loss", "tear", "purge"} = {},
           Fresh(file)
    PROVE  Fresh(file)'
  <1>1. NobodyRewrites /\ NoneTorn(file)
    BY History DEF ChainInv, Untorn
  <1>2. ASSUME file' = file, acked' = acked
        PROVE  Fresh(file)'
    BY <1>2, History DEF Fresh
  <1>3. ASSUME NEW r \in Requests, Tears(r) \/ Truncate(r) \/ Rewrite(r)
        PROVE  FALSE
    BY <1>1, <1>3 DEF Tears, Truncate, Rewrite, NobodyRewrites
  <1>4. ASSUME NEW n \in 0..(Len(file) - 1), LoseTail(n)
        PROVE  FALSE
    BY <1>4 DEF LoseTail, Note
  <1> QED
    BY <1>1, <1>2, <1>3, <1>4, FileSteps, WriteStaysFresh

\* A purge keeps every record that is still within its window.
LEMMA KeptLinesAreFresh ==
    ASSUME TypeOK, Fresh(file)
    PROVE  Fresh(KeptLines)
  <1> SUFFICES ASSUME NEW x \in acked \ aged
               PROVE  \E n \in DOMAIN KeptLines :
                          Parses(KeptLines[n]) /\ KeptLines[n].body = x
    BY DEF Fresh
  <1>1. PICK i \in DOMAIN file : Parses(file[i]) /\ file[i].body = x
    BY DEF Fresh
  <1>2. Keep(file[i]) /\ Terminated(file[i]) = file[i]
    BY <1>1, LineTypes DEF Keep, Terminated
  <1>3. PICK n \in DOMAIN KeptLines : KeptLines[n] = Terminated(file[i])
    BY <1>2, KeptLinesProperties
  <1> QED
    BY <1>1, <1>2, <1>3

\* While a purge is the only thing that happened, it is alone.
LEMMA PurgeStep ==
    ASSUME TypeOK, Alone, Untorn, FreshInv, [Next]_vars, happened' \subseteq {"purge"}
    PROVE  /\ ~Rewriting' => Fresh(file)'
           /\ \A q \in Requests : pc'[q] \in {"read", "emptied"} => Fresh(kept[q])'
  <1>0. /\ pc \in [Requests -> Stages] /\ file \in Seq(Line)
        /\ kept \in [Requests -> Seq(Line)] /\ DOMAIN <<>> = {}
    BY EmptySeq DEF TypeOK, Stages
  <1>1. /\ \A q, r \in Requests : pc[q] \in InFlight /\ pc[r] \in InFlight => q = r
        /\ NoneTorn(file)
        /\ ~Rewriting => Fresh(file)
        /\ \A r \in Requests : pc[r] \in {"read", "emptied"} => Fresh(kept[r])
    BY History DEF Alone, Untorn, FreshInv
  <1>2. ASSUME NEW r \in Requests, Tears(r) \/ Die(r)
        PROVE  FALSE
    BY <1>2 DEF Tears, Die, Note
  <1>3. ASSUME NEW n \in 0..(Len(file) - 1), LoseTail(n)
        PROVE  FALSE
    BY <1>3 DEF LoseTail, Note
  <1>4. ASSUME NEW r \in Requests, WriteRecord(r)
        PROVE  /\ \A q \in Requests : pc[q] \notin {"purging", "read", "emptied"}
               /\ ~Rewriting /\ Fresh(file)'
    <2>1. pc[r] = "writing"
      BY <1>4 DEF WriteRecord
    <2>2. \A q \in Requests : pc[q] \notin {"purging", "read", "emptied"}
      BY <1>1, <2>1 DEF InFlight
    <2> QED
      BY <1>1, <1>4, <2>2, WriteStaysFresh DEF Rewriting
  <1>5. ASSUME NEW r \in Requests, Rewrite(r)
        PROVE  Fresh(file)'
    <2>1. acked' = acked /\ Fresh(kept[r]) /\ kept[r] \in Seq(Line)
      BY <1>0, <1>1, <1>5 DEF Rewrite, history
    <2>2. CASE kept[r] = <<>> /\ file' = file
      <3>1. acked \ aged = {}
        BY <1>0, <2>1, <2>2 DEF Fresh
      <3> QED
        BY <2>1, <3>1, History DEF Fresh
    <2>3. CASE file' = kept[r]
      BY <2>1, <2>3, History DEF Fresh
    <2>4. CASE file' = Append(kept[r], Garbled)
      <3>1. /\ Len(kept[r]) \in Nat /\ DOMAIN kept[r] = 1..Len(kept[r])
            /\ DOMAIN file' = 1..(Len(kept[r]) + 1)
            /\ \A i \in 1..Len(kept[r]) : file'[i] = kept[r][i]
        BY <2>1, <2>4, LineTypes, AppendProperties, LenProperties
      <3>2. \A i \in DOMAIN kept[r] : i \in DOMAIN file' /\ file'[i] = kept[r][i]
        BY <3>1
      <3> QED
        BY <2>1, <3>2, History DEF Fresh
    <2> QED
      BY <1>5, <2>2, <2>3, <2>4 DEF Rewrite
  <1>6. ASSUME ~Rewriting'
        PROVE  Fresh(file)'
    <2>1. ASSUME NEW r \in Requests, Truncate(r)
          PROVE  FALSE
      BY <1>0, <1>6, <2>1 DEF Truncate, GoTo, Rewriting
    <2>2. Rewriting => \E r \in Requests : Rewrite(r)
      <3> SUFFICES ASSUME NEW q \in Requests, pc[q] = "emptied"
                   PROVE  \E r \in Requests : Rewrite(r)
        BY DEF Rewriting
      <3>1. pc'[q] # pc[q]
        BY <1>6 DEF Rewriting
      <3>2. ASSUME NEW r \in Requests, NEW from, NEW to, Moved(r, from, to)
            PROVE  q = r /\ "emptied" \in from
        BY <1>0, <3>1, <3>2 DEF Moved
      <3> QED
        BY <1>2, <3>1, <3>2, Moves
    <2>3. CASE file' = file /\ acked' = acked
      <3>1. Rewriting => Fresh(file)'
        BY <1>5, <2>2
      <3>2. ~Rewriting => Fresh(file)'
        BY <1>1, <2>3, History DEF Fresh
      <3> QED
        BY <3>1, <3>2
    <2> QED
      BY <1>2, <1>3, <1>4, <1>5, <2>1, <2>3, FileSteps
  <1>7. ASSUME NEW q \in Requests, pc'[q] \in {"read", "emptied"}
        PROVE  Fresh(kept[q])'
    <2>1. \/ pc[q] \in {"read", "emptied"}
          \/ ReadForPurge(q)
      <3>1. ASSUME NEW r \in Requests, NEW from, NEW to, Moved(r, from, to)
            PROVE  pc'[q] = pc[q] \/ (q = r /\ pc'[q] \in to /\ pc[q] \in from)
        BY <1>0, <3>1 DEF Moved
      <3> QED
        BY <1>7, <3>1, Moves
    <2>2. pc[q] \in {"purging", "read", "emptied"}
      BY <2>1 DEF ReadForPurge
    <2>3. acked' = acked
      <3>1. ASSUME NEW r \in Requests, Truncate(r) \/ Rewrite(r)
            PROVE  acked' = acked
        BY <3>1 DEF Truncate, Rewrite, history
      <3> QED
        BY <1>2, <1>3, <1>4, <2>2, <3>1, FileSteps
    <2>4. CASE kept'[q] = kept[q] /\ pc[q] \in {"read", "emptied"}
      <3>1. Fresh(kept[q])
        BY <1>1, <2>4
      <3> QED
        BY <2>3, <2>4, <3>1, History DEF Fresh
    <2>5. CASE ReadForPurge(q)
      <3>1. ~Rewriting
        BY <1>1, <2>5 DEF ReadForPurge, Rewriting, InFlight
      <3>2. Fresh(KeptLines)
        BY <1>1, <3>1, KeptLinesAreFresh
      <3>3. kept'[q] = KeptLines
        BY <1>0, <1>7, <2>5 DEF ReadForPurge, End, GoTo
      <3> QED
        BY <2>3, <3>2, <3>3, History DEF Fresh
    <2> QED
      BY <1>7, <2>1, <2>4, <2>5, KeptSteps
  <1> QED
    BY <1>6, <1>7

\* A record whose append returned survives until it leaves its window, also through
\* purges that run alone.
THEOREM FreshRecordsSurviveHolds == Spec => []FreshRecordsSurvive
  <1> DEFINE IInv == Alone /\ Untorn /\ FreshInv
  <1>1. Init => IInv
    BY AloneInit, UntornInit, FreshInit
  <1>2. IInv /\ LogInv /\ [Next]_vars => IInv'
    <2> SUFFICES ASSUME IInv, LogInv, [Next]_vars
                 PROVE  IInv'
      OBVIOUS
    <2>1. Alone' /\ Untorn'
      BY AloneStep, UntornStep DEF LogInv
    <2>2. happened' \cap {"loss", "tear", "purge"} = {} => Fresh(file)'
      BY FreshStep, History DEF LogInv, FreshInv
    <2>3. happened' \subseteq {"purge"} =>
              /\ ~Rewriting' => Fresh(file)'
              /\ \A r \in Requests : pc'[r] \in {"read", "emptied"} => Fresh(kept[r])'
      BY PurgeStep DEF LogInv
    <2> QED
      BY <2>1, <2>2, <2>3 DEF FreshInv
  <1>3. IInv => FreshRecordsSurvive
    BY DEF FreshInv, Fresh, FreshRecordsSurvive
  <1> QED
    BY <1>1, <1>2, <1>3, LogInvHolds, PTL DEF Spec

-----------------------------------------------------------------------------
(* The trail *)

\* What the file holds was recorded by requests that are done.
Recorded ==
    /\ \A r \in acked : pc[r] = "done"
    /\ "purge" \notin happened =>
           \A i \in DOMAIN file : Parses(file[i]) => file[i].body \in acked

LEMMA RecordedInit == Init => Recorded
  <1> SUFFICES ASSUME Init PROVE Recorded
    OBVIOUS
  <1>1. DOMAIN <<>> = {}
    BY EmptySeq
  <1> QED
    BY <1>1 DEF Init, Recorded

LEMMA RecordedStep ==
    ASSUME TypeOK, ChainInv, Recorded, [Next]_vars
    PROVE  Recorded'
  <1>0. /\ pc \in [Requests -> Stages] /\ acked \subseteq Requests
        /\ file \in Seq(Line) /\ Len(file) \in Nat /\ DOMAIN file = 1..Len(file)
    BY LenProperties DEF TypeOK, Stages
  <1>1. ASSUME NEW r \in acked
        PROVE  pc'[r] = "done"
    <2>1. pc[r] = "done" /\ r \in Requests
      BY <1>0 DEF Recorded
    <2>2. ASSUME NEW q \in Requests, NEW from, NEW to, Moved(q, from, to),
                 "done" \notin from
          PROVE  pc'[r] = pc[r]
      BY <1>0, <2>1, <2>2 DEF Moved
    <2> QED
      BY <2>1, <2>2, Moves DEF InFlight
  <1>2. ASSUME NEW r \in Requests, WriteRecord(r)
        PROVE  acked' = acked \cup {r} /\ pc'[r] = "done"
    BY <1>0, <1>2 DEF WriteRecord, End, GoTo
  <1>3. acked \subseteq acked' /\ \A r \in acked' : pc'[r] = "done"
    <2>1. ASSUME NEW r \in Requests, Tears(r) \/ Truncate(r) \/ Rewrite(r)
          PROVE  acked' = acked
      BY <2>1 DEF Tears, Truncate, Rewrite, history
    <2>2. ASSUME NEW n \in 0..(Len(file) - 1), LoseTail(n)
          PROVE  acked' = acked
      BY <2>2 DEF LoseTail
    <2> QED
      BY <1>1, <1>2, <2>1, <2>2, FileSteps
  <1>4. ASSUME "purge" \notin happened'
        PROVE  \A i \in DOMAIN file' : Parses(file'[i]) => file'[i].body \in acked'
    <2>1. /\ NobodyRewrites /\ HeadIsCurrent
          /\ \A i \in DOMAIN file : Parses(file[i]) => file[i].body \in acked
      BY <1>4, History DEF ChainInv, Recorded
    <2>2. ASSUME NEW x \in Line, Parses(x) => x.body \in acked', file' = Append(file, x)
          PROVE  \A i \in DOMAIN file' : Parses(file'[i]) => file'[i].body \in acked'
      <3>1. /\ DOMAIN file' = 1..(Len(file) + 1)
            /\ \A i \in 1..Len(file) : file'[i] = file[i]
            /\ file'[Len(file) + 1] = x
        BY <1>0, <2>2, AppendProperties, LenProperties
      <3>2. \A i \in DOMAIN file' : i \in DOMAIN file \/ i = Len(file) + 1
        BY <1>0, <3>1
      <3> QED
        BY <1>0, <1>3, <2>1, <2>2, <3>1, <3>2
    <2>3. ASSUME TailIsTorn, file' = [file EXCEPT ![Len(file)] = Garbled]
          PROVE  \A i \in DOMAIN file' : Parses(file'[i]) => file'[i].body \in acked'
      <3>1. \A i \in DOMAIN file' : i \in DOMAIN file /\ file'[i] \in {file[i], Garbled}
        BY <1>0, <2>3
      <3> QED
        BY <1>3, <2>1, <3>1, LineTypes
    <2>4. ASSUME NEW r \in Requests, WriteRecord(r)
          PROVE  \A i \in DOMAIN file' : Parses(file'[i]) => file'[i].body \in acked'
      BY <1>2, <2>1, <2>2, <2>3, <2>4, Appends
    <2>5. ASSUME NEW r \in Requests, Tears(r)
          PROVE  \A i \in DOMAIN file' : Parses(file'[i]) => file'[i].body \in acked'
      BY <2>2, <2>5, LineTypes DEF Tears
    <2>6. ASSUME NEW r \in Requests, Truncate(r) \/ Rewrite(r)
          PROVE  FALSE
      BY <2>1, <2>6 DEF Truncate, Rewrite, NobodyRewrites
    <2>7. ASSUME NEW n \in 0..(Len(file) - 1), LoseTail(n)
          PROVE  \A i \in DOMAIN file' : Parses(file'[i]) => file'[i].body \in acked'
      <3>1. n \in 0..Len(file)
        BY <1>0
      <3>2. /\ DOMAIN file' = 1..n
            /\ \A i \in 1..n : i \in DOMAIN file /\ file'[i] = file[i]
        BY <1>0, <2>7, <3>1, PrefixTypes DEF LoseTail
      <3> QED
        BY <1>3, <2>1, <3>2
    <2>8. CASE file' = file
      BY <1>3, <2>1, <2>8
    <2> QED
      BY <2>4, <2>5, <2>6, <2>7, <2>8, FileSteps
  <1> QED
    BY <1>3, <1>4 DEF Recorded

\* The entries of the trail, as the refinement maps them.
Trail(f) == [i \in DOMAIN f |-> IF Parses(f[i]) THEN f[i].body ELSE Nobody]

LEMMA TrailTypes ==
    ASSUME NEW f \in Seq(Line)
    PROVE  /\ Trail(f) \in Seq(Requests \cup {Nobody})
           /\ Len(Trail(f)) = Len(f)
           /\ DOMAIN Trail(f) = DOMAIN f
  <1>1. Len(f) \in Nat /\ DOMAIN f = 1..Len(f)
    BY LenProperties
  <1>2. ASSUME NEW i \in DOMAIN f
        PROVE  (IF Parses(f[i]) THEN f[i].body ELSE Nobody) \in Requests \cup {Nobody}
    <2>1. f[i] \in Line
      BY <1>1, <1>2, ElementOfSeq
    <2>2. Parses(f[i]) => f[i].body \in Requests
      BY <2>1, LineTypes DEF EntryType
    <2> QED
      BY <2>2
  <1>3. Trail(f) \in [1..Len(f) -> Requests \cup {Nobody}]
    BY <1>1, <1>2 DEF Trail
  <1> HIDE DEF Trail
  <1>4. Trail(f) \in Seq(Requests \cup {Nobody}) /\ DOMAIN Trail(f) = 1..Len(f)
    BY <1>1, <1>3
  <1>5. Len(Trail(f)) = Len(f)
    BY <1>1, <1>4, LenProperties
  <1> QED
    BY <1>1, <1>4, <1>5

\* Appending a line that parses records its body.
LEMMA TrailOfAppend ==
    ASSUME NEW f \in Seq(Line), NEW x \in Line, Parses(x)
    PROVE  Trail(Append(f, x)) = Append(Trail(f), x.body)
  <1> DEFINE g == Append(f, x)
             T == Requests \cup {Nobody}
  <1>1. /\ Len(f) \in Nat /\ DOMAIN f = 1..Len(f)
        /\ g \in Seq(Line) /\ Len(g) = Len(f) + 1 /\ DOMAIN g = 1..(Len(f) + 1)
        /\ \A i \in 1..Len(f) : g[i] = f[i]
        /\ g[Len(f) + 1] = x
    BY LenProperties, AppendProperties
  <1> HIDE DEF g
  <1>2. x.body \in T
    BY LineTypes DEF EntryType
  <1>3. Trail(f) \in Seq(T) /\ Len(Trail(f)) = Len(f)
    BY TrailTypes
  <1>4. Trail(g) \in Seq(T) /\ Len(Trail(g)) = Len(f) + 1
    BY <1>1, TrailTypes
  <1>5. /\ Append(Trail(f), x.body) \in Seq(T)
        /\ Len(Append(Trail(f), x.body)) = Len(f) + 1
        /\ \A i \in 1..Len(f) : Append(Trail(f), x.body)[i] = Trail(f)[i]
        /\ Append(Trail(f), x.body)[Len(f) + 1] = x.body
    <2> HIDE DEF T
    <2> QED
      BY <1>2, <1>3, AppendProperties
  <1>6. ASSUME NEW i \in 1..(Len(f) + 1)
        PROVE  Trail(g)[i] = Append(Trail(f), x.body)[i]
    <2>1. CASE i \in 1..Len(f)
      BY <1>1, <1>5, <2>1 DEF Trail
    <2>2. CASE i = Len(f) + 1
      BY <1>1, <1>5, <2>2 DEF Trail
    <2>3. i \in 1..Len(f) \/ i = Len(f) + 1
      <3> HIDE DEF T
      <3> QED
        BY <1>1
    <2> QED
      BY <2>1, <2>2, <2>3
  <1>7. Trail(g) = Append(Trail(f), x.body)
    <2> HIDE DEF T
    <2> QED
      BY <1>4, <1>5, <1>6, SeqEqual
  <1> QED
    BY <1>7 DEF g

LEMMA TrailStep ==
    ASSUME LogInv, Clean, Recorded, [Next]_vars, Whole', "tear" \notin happened'
    PROVE  [A!Next]_(A!trail)
  <1>1. /\ NobodyRewrites /\ HeadIsCurrent /\ AllParse(file) /\ TypeOK
        /\ file \in Seq(Line) /\ Len(file) \in Nat /\ DOMAIN file = 1..Len(file)
    BY WholeBefore, History, LenProperties DEF LogInv, ChainInv, Clean, Whole, TypeOK
  <1>2. ASSUME NEW r \in Requests, SignCheckpoint(r)
        PROVE  A!Checkpoint
    <2>1. /\ checkpoint' = [entries |-> Len(file), head |-> LastHash(file)]
          /\ file' = file
      BY <1>1, <1>2, SignedCheckpoint
    <2>2. checkpoint'.entries = Len(Trail(file)) /\ Trail(file') = Trail(file)
      BY <1>1, <2>1, TrailTypes
    <2> QED
      BY <2>2 DEF A!Checkpoint, Trail
  <1>3. ASSUME NEW r \in Requests, WriteRecord(r)
        PROVE  A!Record(r)
    <2>1. PICK x \in Line : /\ Parses(x) /\ x.body = r
                            /\ file' = Append(file, x)
      BY <1>1, <1>3, Appends, NoTornTail
    <2>2. Trail(file') = Append(Trail(file), r)
      BY <1>1, <2>1, TrailOfAppend
    <2>3. r \notin acked
      BY <1>3 DEF WriteRecord, Recorded
    <2>4. \A i \in 1..Len(Trail(file)) : Trail(file)[i] # r
      <3>1. Len(Trail(file)) = Len(file)
        BY <1>1, TrailTypes
      <3>2. \A i \in DOMAIN file : Parses(file[i]) /\ file[i].body \in acked
        BY <1>1, WholeBefore, History DEF AllParse, Recorded
      <3> QED
        BY <1>1, <2>3, <3>1, <3>2 DEF Trail
    <2>5. checkpoint' = checkpoint
      BY <1>3 DEF WriteRecord
    <2> QED
      BY <2>2, <2>4, <2>5 DEF A!Record, Trail
  <1>4. ASSUME NEW r \in Requests, Tears(r) \/ Truncate(r) \/ Rewrite(r)
        PROVE  FALSE
    BY <1>1, <1>4 DEF Tears, Truncate, Rewrite, NobodyRewrites
  <1>5. ASSUME NEW n \in 0..(Len(file) - 1), LoseTail(n)
        PROVE  FALSE
    BY <1>5 DEF LoseTail, Note, Whole
  <1>6. file' = file /\ checkpoint' = checkpoint => UNCHANGED A!trail
    BY DEF A!trail
  <1> QED
    BY <1>2, <1>3, <1>4, <1>5, <1>6, FileSteps, CheckpointSteps DEF A!Next

\* Without damage, loss or retention the log is the append-only trail.
THEOREM ImplementsAuditTrailHolds == Spec => ImplementsAuditTrail
  <1>1. Init => A!Init /\ Clean /\ Recorded
    <2>1. ASSUME Init PROVE A!Init
      <3>1. file = <<>> /\ checkpoint.entries = 0 /\ DOMAIN <<>> = {}
        BY <2>1, EmptySeq DEF Init, NoCheckpoint
      <3>2. Trail(file) = <<>>
        BY <3>1 DEF Trail
      <3> QED
        BY <3>1, <3>2 DEF A!Init, Trail
    <2> QED
      BY <2>1, CleanInit, RecordedInit
  <1>2. (Clean /\ Recorded) /\ LogInv /\ [Next]_vars => (Clean /\ Recorded)'
    BY CleanStep, RecordedStep DEF LogInv
  <1>3. (Clean /\ Recorded) /\ LogInv /\ [Next]_vars
        => [Whole' /\ "tear" \notin happened' => A!Next]_(A!trail)
    BY TrailStep
  <1> QED
    BY <1>1, <1>2, <1>3, LogInvHolds, PTL DEF Spec, ImplementsAuditTrail
=============================================================================
